-------------------------- MODULE SourceRecords --------------------------
(***************************************************************************)
(* The messages about references (AMQReferenceMessageProcessor,            *)
(* SourceRecordService, SourceRecordDAO): each creates or updates a source *)
(* record, after the source people, source organizations, concepts and the *)
(* source journal it refers to, then replaces its contributions and tells  *)
(* the equivalence service.  Concepts and Journals are the calls it makes. *)
(*                                                                         *)
(* A step is one transaction, or one of a call.  A message is not          *)
(* acknowledged before its worker is idle again: after a failure of the    *)
(* database or a crash it is delivered again.                              *)
(***************************************************************************)
EXTENDS Naturals, FiniteSets, Sequences, Functions

CONSTANTS
    SourceRecord,       \* uids of source records
    Person,             \* people records are harvested for
    SourcePerson,
    SourceOrganization,
    Concept, WithUri,   \* see Concepts
    SourceJournal, Issn, Journal, Portal,  \* see Journals
    Issue,
    Message,            \* messages the queue may hold
    Worker,             \* workers of the publications topic
    MaxMessages,        \* bound: messages received, redeliveries left out
    MaxErrors           \* bound: failures of the database and crashes

Subject == UNION {Range(m.subjects) : m \in Message}
Contribution == [contributor : SourcePerson, affiliations : SUBSET SourceOrganization]

ASSUME RecordsAssumption ==
    /\ \A m \in Message :
        /\ m.event \in {"created", "updated", "unchanged", "enhanced"}
        /\ m.record \in SourceRecord /\ m.owner \in Person
        /\ m.contributions \in Seq(Contribution) /\ m.subjects \in Seq(Subject)
        /\ m.issue \in Issue
        /\ m.journals \subseteq SourceJournal /\ \A s, t \in m.journals : s = t
        /\ m.issns \subseteq Issn
    /\ MaxMessages \in Nat /\ MaxErrors \in Nat

VARIABLES
    people,              \* Person nodes
    sourcePeople,        \* SourcePerson nodes
    sourceOrganizations, \* SourceOrganization nodes
    records,             \* SourceRecord nodes
    harvestedFor,        \* HARVESTED_FOR
    subjects,            \* HAS_SUBJECT
    publishedIn,         \* PUBLISHED_IN: at most one issue of each record
    issuedBy,            \* ISSUED_BY, of issues
    contributions,       \* HAS_CONTRIBUTION, in the order of creation
    concepts, prefLabels, altLabels, conceptCall, languages, overwritten,
    sourceJournals, sourceIssns, journals, issns, checked, journalCall,
    pc,                  \* where each worker is
    job,                 \* the local variables of each worker
    messages,            \* messages received so far
    requeued,            \* messages to be delivered again
    errors,              \* failures so far
    dropped,             \* history: messages acknowledged, or refused, without being stored
    unanswered,          \* history: those of them refused because the portal timed out
    latest,              \* history: the message each record was last stored from
    disturbed,           \* history: records whose last storage met another one, or a failure
    unannounced,         \* history: records that changed since their last signal
    silenced             \* history: those whose signal was lost with a refused message

C == INSTANCE Concepts
J == INSTANCE Journals

ASSUME CallsAssumption == C!ConceptsAssumption /\ J!JournalsAssumption

recordVars == <<records, harvestedFor, subjects, publishedIn, issuedBy, contributions>>
conceptVars == <<concepts, prefLabels, altLabels, conceptCall, languages, overwritten>>
journalVars == <<sourceJournals, sourceIssns, journals, issns, checked, journalCall>>
sourceVars == <<sourcePeople, sourceOrganizations>>
countVars == <<messages, requeued, errors>>
historyVars == <<dropped, unanswered, latest, disturbed, unannounced, silenced>>
vars == <<people, sourceVars, recordVars, conceptVars, journalVars, pc, job, countVars,
          historyVars>>

PC == {"idle", "looking", "checking", "subjects", "journal", "storing", "clearing",
       "contributing"}

---------------------------------------------------------------------------
(***************************************************************************)
(* The local variables of a worker: the SourceRecord object is the message *)
(* with the subjects and the journal that were registered.                 *)
(***************************************************************************)
NoMessage == [event |-> "created", record |-> "", owner |-> "", contributions |-> <<>>,
              subjects |-> <<>>, issue |-> "", journals |-> {}, issns |-> {}]
Job(message) ==
    [message |-> message, mode |-> "", first |-> TRUE, subjects |-> {}, journals |-> {},
     left |-> <<>>, flawed |-> FALSE]
NoJob == Job(NoMessage)

About(w) == job[w].message.record
Busy(r) == {w \in Worker : pc[w] # "idle" /\ About(w) = r}
Filling(r) == {w \in Busy(r) : pc[w] \in {"clearing", "contributing"}}
Goes(w, place) == pc' = [pc EXCEPT ![w] = place]
Ends(w) == Goes(w, "idle") /\ job' = [job EXCEPT ![w] = NoJob]

Init ==
    /\ people \in SUBSET Person
    /\ sourcePeople = {} /\ sourceOrganizations = {} /\ records = {}
    /\ harvestedFor = [r \in SourceRecord |-> {}] /\ subjects = [r \in SourceRecord |-> {}]
    /\ publishedIn = [r \in SourceRecord |-> {}] /\ issuedBy = [i \in Issue |-> {}]
    /\ contributions = [r \in SourceRecord |-> <<>>]
    /\ C!Init /\ J!Init
    /\ pc = [w \in Worker |-> "idle"] /\ job = [w \in Worker |-> NoJob]
    /\ messages = 0 /\ requeued = {} /\ errors = 0
    /\ dropped = {} /\ unanswered = {} /\ latest = [r \in SourceRecord |-> NoMessage]
    /\ disturbed = {} /\ unannounced = {} /\ silenced = {}

---------------------------------------------------------------------------
(* The message processor. *)

(***************************************************************************)
(* A record reported unchanged but enhanced is an update; nothing is done  *)
(* of one that is only unchanged.                                          *)
(***************************************************************************)
Mode(m) == IF m.event = "enhanced" THEN "updated" ELSE m.event

Receive(w) ==
    /\ pc[w] = "idle"
    /\ \E m \in Message :
        /\ \/ m \in requeued /\ requeued' = requeued \ {m} /\ UNCHANGED messages
           \/ messages < MaxMessages /\ messages' = messages + 1 /\ UNCHANGED requeued
        /\ job' = [job EXCEPT ![w] = [Job(m) EXCEPT !.mode = Mode(m)]]
    /\ Goes(w, "looking")
    /\ UNCHANGED <<people, sourceVars, recordVars, conceptVars, journalVars, errors,
                   historyVars>>

Ignore(w) ==
    /\ pc[w] = "looking" /\ job[w].mode = "unchanged"
    /\ Ends(w)
    /\ UNCHANGED <<people, sourceVars, recordVars, conceptVars, journalVars, countVars,
                   historyVars>>

Drops(w) ==
    /\ dropped' = dropped \cup {job[w].message}
    /\ Ends(w)
    /\ UNCHANGED <<people, sourceVars, recordVars, conceptVars, journalVars, countVars,
                   unanswered, latest, disturbed, unannounced, silenced>>

(***************************************************************************)
(* A creation finds the record, or an update does not: each becomes the    *)
(* other, once.                                                            *)
(***************************************************************************)
Expected(w) == (job[w].mode = "updated") <=> About(w) \in records

Look(w) ==
    /\ pc[w] = "looking" /\ job[w].mode \in {"created", "updated"}
    /\ Expected(w)
    /\ Goes(w, "checking")
    /\ UNCHANGED <<people, sourceVars, recordVars, conceptVars, journalVars, job, countVars,
                   historyVars>>

SwitchNever(w) ==  \* mutant
    pc[w] = "looking" /\ job[w].mode \in {"created", "updated"} /\ ~ Expected(w) /\ Drops(w)
Switch(w) ==
    /\ pc[w] = "looking" /\ job[w].mode \in {"created", "updated"}
    /\ ~ Expected(w)
    /\ IF job[w].first
       THEN /\ job' = [job EXCEPT ![w].first = FALSE,
                                  ![w].mode = IF @ = "created" THEN "updated" ELSE "created"]
            /\ UNCHANGED <<people, sourceVars, recordVars, conceptVars, journalVars, pc,
                           countVars, historyVars>>
       ELSE Drops(w)

---------------------------------------------------------------------------
(* What the record refers to. *)

RefuseOwner(w) ==
    /\ pc[w] = "checking"
    /\ job[w].message.owner \notin people
    /\ Drops(w)

(***************************************************************************)
(* Source people, then source organizations, are each created or updated,  *)
(* in two transactions.  Nothing removes them, and one that another worker *)
(* creates meanwhile is a conflict that is only logged: the transactions   *)
(* are one step.  That of one of them may fail, which is logged too.       *)
(***************************************************************************)
Contributors(m) == {c.contributor : c \in Range(m.contributions)}
Affiliations(m) == UNION {c.affiliations : c \in Range(m.contributions)}

StoredPeople(S) == sourcePeople \cup S
StoredOrganizations(S) == sourceOrganizations \cup S

StoreContributors(w) ==
    LET m == job[w].message IN
    /\ pc[w] = "checking" /\ m.owner \in people
    /\ \E failed \in {{}} \cup {{x} : x \in Contributors(m) \cup Affiliations(m)} :
        /\ errors + Cardinality(failed) <= MaxErrors
        /\ errors' = errors + Cardinality(failed)
        /\ sourcePeople' = StoredPeople(Contributors(m) \ failed)
        /\ sourceOrganizations' = StoredOrganizations(Affiliations(m) \ failed)
        /\ job' = [job EXCEPT ![w].flawed = failed # {}, ![w].left = m.subjects]
    /\ Goes(w, "subjects")
    /\ UNCHANGED <<people, recordVars, conceptVars, journalVars, messages, requeued,
                   historyVars>>

(***************************************************************************)
(* Subjects, one call after the other; one that fails is left out.         *)
(***************************************************************************)
CallConcept(w) ==
    /\ pc[w] = "subjects" /\ conceptCall[w].at = "none" /\ job[w].left # <<>>
    /\ conceptCall' = [conceptCall EXCEPT ![w] = C!Call(Head(job[w].left))]
    /\ UNCHANGED <<people, sourceVars, recordVars, concepts, prefLabels, altLabels, languages,
                   overwritten, journalVars, pc, job, countVars, historyVars>>

TreatConcept(w) ==
    /\ pc[w] = "subjects" /\ C!Work(w)
    /\ UNCHANGED <<people, sourceVars, recordVars, journalVars, pc, job, countVars, historyVars>>

KeepConcept(w) ==
    LET returned == conceptCall[w].at = "returned" IN
    /\ pc[w] = "subjects" /\ conceptCall[w].at \in {"returned", "failed"}
    /\ job' = [job EXCEPT ![w].left = Tail(@), ![w].flawed = @ \/ ~ returned,
                          ![w].subjects = IF returned THEN @ \cup {C!Called(w)} ELSE @]
    /\ conceptCall' = [conceptCall EXCEPT ![w] = C!NoCall]
    /\ UNCHANGED <<people, sourceVars, recordVars, concepts, prefLabels, altLabels, languages,
                   overwritten, journalVars, pc, countVars, historyVars>>

(***************************************************************************)
(* The source journal; if the call fails, be it after the source journal   *)
(* was stored, the record goes on without.                                 *)
(***************************************************************************)
CallJournal(w) ==
    LET m == job[w].message IN
    /\ pc[w] = "subjects" /\ conceptCall[w].at = "none" /\ job[w].left = <<>>
    /\ IF m.journals = {} THEN Goes(w, "storing") /\ UNCHANGED journalCall
       ELSE /\ Goes(w, "journal")
            /\ journalCall' = [journalCall EXCEPT
                    ![w] = J!Call(CHOOSE s \in m.journals : TRUE, m.issns)]
    /\ UNCHANGED <<people, sourceVars, recordVars, conceptVars, sourceJournals, sourceIssns,
                   journals, issns, checked, job, countVars, historyVars>>

TreatJournal(w) ==
    /\ pc[w] = "journal" /\ J!Work(w)
    /\ UNCHANGED <<people, sourceVars, recordVars, conceptVars, pc, job, countVars, historyVars>>

KeepJournal(w) ==
    LET returned == journalCall[w].at = "returned" IN
    /\ pc[w] = "journal" /\ journalCall[w].at \in {"returned", "failed"}
    /\ job' = [job EXCEPT ![w].journals = IF returned THEN {journalCall[w].journal} ELSE {},
                          ![w].flawed = @ \/ ~ returned]
    /\ journalCall' = [journalCall EXCEPT ![w] = J!NoCall]
    /\ Goes(w, "storing")
    /\ UNCHANGED <<people, sourceVars, recordVars, conceptVars, sourceJournals, sourceIssns,
                   journals, issns, checked, countVars, historyVars>>

(***************************************************************************)
(* The timeout of the portal is no error of the call that is caught here:  *)
(* the message is refused, although its source journal is stored, and with *)
(* it the signal of what an earlier delivery of it changed.                *)
(***************************************************************************)
Silences(w) == silenced' = silenced \cup ({About(w)} \cap unannounced)

RefuseUnanswered(w) ==
    /\ pc[w] = "journal" /\ journalCall[w].at = "timed_out"
    /\ journalCall' = [journalCall EXCEPT ![w] = J!NoCall]
    /\ dropped' = dropped \cup {job[w].message}
    /\ unanswered' = unanswered \cup {job[w].message}
    /\ Silences(w)
    /\ Ends(w)
    /\ UNCHANGED <<people, sourceVars, recordVars, conceptVars, sourceJournals, sourceIssns,
                   journals, issns, checked, countVars, latest, disturbed, unannounced>>

---------------------------------------------------------------------------
(* The record. *)

(***************************************************************************)
(* Subjects and issue are replaced, owners add up; the issue, which other  *)
(* records may share, keeps the journals it had.                           *)
(***************************************************************************)
Store(w) ==
    LET r == About(w)
        m == job[w].message
    IN
    /\ pc[w] = "storing"
    /\ Expected(w)
    /\ records' = records \cup {r}
    /\ harvestedFor' = [harvestedFor EXCEPT ![r] = @ \cup {m.owner}]
    /\ subjects' = [subjects EXCEPT ![r] = job[w].subjects]
    /\ publishedIn' = [publishedIn EXCEPT ![r] = {m.issue}]
    /\ issuedBy' = [issuedBy EXCEPT ![m.issue] = @ \cup job[w].journals]
    /\ latest' = [latest EXCEPT ![r] = m]
    /\ disturbed' = IF Filling(r) # {} \/ job[w].flawed THEN disturbed \cup {r}
                    ELSE disturbed \ {r}
    /\ unannounced' = unannounced \cup {r} /\ silenced' = silenced \ {r}
    /\ Goes(w, "clearing")
    /\ UNCHANGED <<people, sourceVars, contributions, conceptVars, journalVars, job,
                   countVars, dropped, unanswered>>

\* A record created since it was looked for: a conflict, which is logged.
StoreConflict(w) ==
    /\ pc[w] = "storing"
    /\ ~ Expected(w)
    /\ Drops(w)

(***************************************************************************)
(* The contributions are deleted, then created again, in as many           *)
(* transactions.  One whose source person is missing is not created, and   *)
(* nothing is logged; one that fails is logged.                            *)
(***************************************************************************)
ClearNothing(r) == UNCHANGED contributions  \* mutant
Clears(r) == contributions' = [contributions EXCEPT ![r] = <<>>]

Clear(w) ==
    /\ pc[w] = "clearing"
    /\ Clears(About(w))
    /\ job' = [job EXCEPT ![w].left = job[w].message.contributions]
    /\ Goes(w, "contributing")
    /\ UNCHANGED <<people, sourceVars, records, harvestedFor, subjects, publishedIn, issuedBy,
                   conceptVars, journalVars, countVars, historyVars>>

Merged(c) == TRUE  \* mutant
Matched(c) == c.contributor \in sourcePeople

Contribute(w) ==
    LET r == About(w)
        c == Head(job[w].left)
        stored == [c EXCEPT !.affiliations = @ \cap sourceOrganizations]
    IN
    /\ pc[w] = "contributing" /\ job[w].left # <<>>
    /\ contributions' = IF Matched(c)
                        THEN [contributions EXCEPT ![r] = Append(@, stored)]
                        ELSE contributions
    /\ unannounced' = unannounced \cup {r} /\ silenced' = silenced \ {r}
    /\ job' = [job EXCEPT ![w].left = Tail(@)]
    /\ UNCHANGED <<people, sourceVars, records, harvestedFor, subjects, publishedIn, issuedBy,
                   conceptVars, journalVars, pc, countVars, dropped, unanswered, latest, disturbed>>

ContributeFails(w) ==
    /\ pc[w] = "contributing" /\ job[w].left # <<>>
    /\ errors < MaxErrors /\ errors' = errors + 1
    /\ disturbed' = disturbed \cup {About(w)}
    /\ job' = [job EXCEPT ![w].left = Tail(@)]
    /\ UNCHANGED <<people, sourceVars, recordVars, conceptVars, journalVars, pc, messages,
                   requeued, dropped, unanswered, latest, unannounced, silenced>>

(***************************************************************************)
(* The signal that the record was created or updated: the equivalence      *)
(* service and the recomputation of its documents read what is stored.     *)
(***************************************************************************)
ToldAtFirstAttempt(w) ==  \* mutant
    IF job[w].first THEN unannounced \ {About(w)} ELSE unannounced
Told(w) == unannounced \ {About(w)}

Announce(w) ==
    /\ pc[w] = "contributing" /\ job[w].left = <<>>
    /\ unannounced' = Told(w) /\ silenced' = silenced \ {About(w)}
    /\ Ends(w)
    /\ UNCHANGED <<people, sourceVars, recordVars, conceptVars, journalVars, countVars,
                   dropped, unanswered, latest, disturbed>>

(***************************************************************************)
(* The signal of a creation has another receiver, the search index, which  *)
(* only expects transport errors.  When the index answers with an error,   *)
(* the signal goes no further, and the message is refused: the equivalence *)
(* service is told if it was the first of the two.                         *)
(***************************************************************************)
IndexRefuses(w) ==
    /\ pc[w] = "contributing" /\ job[w].left = <<>> /\ job[w].mode = "created"
    /\ errors < MaxErrors /\ errors' = errors + 1
    /\ \/ Silences(w) /\ UNCHANGED unannounced
       \/ unannounced' = Told(w) /\ silenced' = silenced \ {About(w)}
    /\ Ends(w)
    /\ UNCHANGED <<people, sourceVars, recordVars, conceptVars, journalVars, messages, requeued,
                   dropped, unanswered, latest, disturbed>>

---------------------------------------------------------------------------
(* Failures. *)

\* A transaction of a call fails; the worker leaves the subject or journal out.
FailCall(w) ==
    /\ errors < MaxErrors /\ errors' = errors + 1
    /\ \/ C!Fail(w) /\ UNCHANGED journalVars
       \/ J!Fail(w) /\ UNCHANGED conceptVars
    /\ UNCHANGED <<people, sourceVars, recordVars, pc, job, messages, requeued, historyVars>>

(***************************************************************************)
(* Another failure of the database, or a crash: what the worker did stays, *)
(* and the message comes back.                                             *)
(***************************************************************************)
Fail(w) ==
    /\ pc[w] # "idle"
    /\ errors < MaxErrors /\ errors' = errors + 1
    /\ requeued' = requeued \cup {job[w].message}
    /\ disturbed' = IF pc[w] \in {"clearing", "contributing"} THEN disturbed \cup {About(w)}
                    ELSE disturbed
    /\ conceptCall' = [conceptCall EXCEPT ![w] = C!NoCall]
    /\ journalCall' = [journalCall EXCEPT ![w] = J!NoCall]
    /\ Ends(w)
    /\ UNCHANGED <<people, sourceVars, recordVars, concepts, prefLabels, altLabels, languages,
                   overwritten, sourceJournals, sourceIssns, journals, issns, checked, messages,
                   dropped, unanswered, latest, unannounced, silenced>>

---------------------------------------------------------------------------
Work(w) ==
    \/ Ignore(w) \/ Look(w) \/ Switch(w) \/ RefuseOwner(w) \/ StoreContributors(w)
    \/ CallConcept(w) \/ TreatConcept(w) \/ KeepConcept(w)
    \/ CallJournal(w) \/ TreatJournal(w) \/ KeepJournal(w) \/ RefuseUnanswered(w)
    \/ Store(w) \/ StoreConflict(w) \/ Clear(w) \/ Contribute(w) \/ ContributeFails(w)
    \/ Announce(w) \/ IndexRefuses(w)

Next == \E w \in Worker : Receive(w) \/ Work(w) \/ FailCall(w) \/ Fail(w)

Spec == Init /\ [][Next]_vars

(***************************************************************************)
(* A worker with a message goes on: its coroutine is scheduled again.      *)
(***************************************************************************)
FairSpec == Spec /\ \A w \in Worker : WF_vars(Work(w))

---------------------------------------------------------------------------
(***************************************************************************)
(* Types: what a record is linked to exists, whichever call created it.    *)
(***************************************************************************)
TypeOK ==
    /\ C!TypeOK /\ J!TypeOK
    /\ people \subseteq Person /\ records \subseteq SourceRecord
    /\ sourcePeople \subseteq SourcePerson /\ sourceOrganizations \subseteq SourceOrganization
    /\ harvestedFor \in [SourceRecord -> SUBSET people]
    /\ subjects \in [SourceRecord -> SUBSET concepts]
    /\ publishedIn \in [SourceRecord -> SUBSET Issue]
    /\ issuedBy \in [Issue -> SUBSET sourceJournals]
    /\ \A r \in SourceRecord : Contributors([contributions |-> contributions[r]]) \subseteq sourcePeople
    /\ pc \in [Worker -> PC]
    /\ messages \in 0 .. MaxMessages /\ errors \in 0 .. MaxErrors
    /\ requeued \subseteq Message /\ dropped \subseteq Message /\ unanswered \subseteq dropped
    /\ disturbed \subseteq records /\ unannounced \subseteq records /\ silenced \subseteq unannounced

Settled(r) == r \in records /\ Busy(r) = {} /\ \A m \in requeued : m.record # r

(***************************************************************************)
(* A record has the contributions, subjects, issue and journal of the      *)
(* message it was last stored from, and its owner, although its people,    *)
(* organizations and concepts were written at the same time for other      *)
(* records; unless a call failed, or two workers filled the record.        *)
(***************************************************************************)
RecordFollowsItsMessage ==
    \A r \in SourceRecord \ disturbed : Settled(r) =>
        /\ contributions[r] = latest[r].contributions
        /\ subjects[r] = {s.concept : s \in Range(latest[r].subjects)}
        /\ publishedIn[r] = {latest[r].issue}
        /\ latest[r].journals \subseteq issuedBy[latest[r].issue]
        /\ latest[r].owner \in harvestedFor[r]

(***************************************************************************)
(* The equivalence service is told of a record after its last change, of   *)
(* its contributions too, be it by another worker, or by the redelivery of *)
(* the message; unless the message that was to tell it was refused, after  *)
(* a timeout of the portal or an error of the search index.                *)
(***************************************************************************)
ToldAfterLastChange == \A r \in unannounced \ silenced : ~ Settled(r)

(***************************************************************************)
(* A message is only given up when its owner is unknown, when another one  *)
(* stored the record meanwhile, or when the portal timed out while the     *)
(* journal of the record was checked.                                      *)
(***************************************************************************)
DroppedHaveARecord ==
    \A m \in dropped :
        m.owner \in people => m.record \in records \/ (m \in unanswered /\ m.journals # {})

(***************************************************************************)
(* The treatment of every message ends, although creation and update call  *)
(* each other, and so do the conflicts and searches of concepts.           *)
(***************************************************************************)
MessagesEnd == \A w \in Worker : pc[w] # "idle" ~> pc[w] = "idle"

(***************************************************************************)
(* A concept keeps one preferred label per language: see Concepts.         *)
(***************************************************************************)
OneLabelPerLanguage == C!OneLabelPerLanguage

(***************************************************************************)
(* An ISSN recorded as checked leads to a journal: see Journals.           *)
(***************************************************************************)
CheckedHaveAJournal == J!CheckedHaveAJournal
===========================================================================
