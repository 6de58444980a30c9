---------------------------- MODULE Journals ----------------------------
(***************************************************************************)
(* The journals of source records (SourceJournalService, JournalService,   *)
(* ISSNService and their DAOs).  A source journal is created or updated by *)
(* each record published in it; a signal then checks its ISSNs, those that *)
(* were not checked recently, against the ISSN portal, which gives their   *)
(* journal and all the ISSNs of it.  Identifiers are nodes that source     *)
(* journals and journals share; the time of the last check is theirs.      *)
(*                                                                         *)
(* A worker calls create_or_update_source_journal and goes on when the     *)
(* call returned or failed, but not when the portal timed out; a step is   *)
(* one transaction of the call.                                            *)
(***************************************************************************)
CONSTANTS
    SourceJournal, \* uids of source journals
    Issn,
    Journal,       \* uids of journals, made of an ISSN-L
    Portal,        \* what the portal says of each ISSN it knows: its journal, the ISSNs of it
    Worker         \* workers of the publications topic

JournalsAssumption ==
    \A i \in DOMAIN Portal :
        /\ i \in Issn /\ Portal[i].journal \in Journal
        /\ i \in Portal[i].issns /\ Portal[i].issns \subseteq Issn

VARIABLES
    sourceJournals, \* SourceJournal nodes
    sourceIssns,    \* HAS_IDENTIFIER, of source journals
    journals,       \* Journal nodes
    issns,          \* HAS_IDENTIFIER, of journals
    checked,        \* the ISSNs with a recent last_checked
    journalCall     \* the call to create_or_update_source_journal of each worker

NoCall == [at |-> "none", journal |-> "", issns |-> {}, exists |-> FALSE, left |-> {},
           checking |-> {}, stamped |-> {}]
Call(journal, listed) == [NoCall EXCEPT !.at = "finding", !.journal = journal, !.issns = listed]
Goes(w, place) == journalCall' = [journalCall EXCEPT ![w].at = place]

Init ==
    /\ sourceJournals = {} /\ sourceIssns = [s \in SourceJournal |-> {}]
    /\ journals = {} /\ issns = [j \in Journal |-> {}]
    /\ checked = {}
    /\ journalCall = [w \in Worker |-> NoCall]

---------------------------------------------------------------------------
(* The source journal. *)

Find(w) ==
    /\ journalCall[w].at = "finding"
    /\ journalCall' = [journalCall EXCEPT
            ![w].at = "storing", ![w].exists = journalCall[w].journal \in sourceJournals]
    /\ UNCHANGED <<sourceJournals, sourceIssns, journals, issns, checked>>

(***************************************************************************)
(* An update replaces the identifiers.  A source journal created since it  *)
(* was looked for is a conflict.                                           *)
(***************************************************************************)
Store(w) ==
    LET s == journalCall[w].journal IN
    /\ journalCall[w].at = "storing"
    /\ IF ~ journalCall[w].exists /\ s \in sourceJournals
       THEN Goes(w, "failed") /\ UNCHANGED <<sourceJournals, sourceIssns>>
       ELSE /\ sourceJournals' = sourceJournals \cup {s}
            /\ sourceIssns' = [sourceIssns EXCEPT ![s] = journalCall[w].issns]
            /\ Goes(w, "linking")
    /\ UNCHANGED <<journals, issns, checked>>

---------------------------------------------------------------------------
(* link_journal_identifiers. *)

(***************************************************************************)
(* The source journal is read back, with its ISSNs and their last checks.  *)
(***************************************************************************)
ToCheck(w) == sourceIssns[journalCall[w].journal] \ checked

ReadSource(w) ==
    /\ journalCall[w].at = "linking"
    /\ journalCall' = [journalCall EXCEPT
            ![w].at = IF ToCheck(w) = {} THEN "returned" ELSE "checking", ![w].left = ToCheck(w)]
    /\ UNCHANGED <<sourceJournals, sourceIssns, journals, issns, checked>>

\* An ISSN of the list is treated.
TreatedAgain(w, i) ==  \* mutant
    journalCall' = [journalCall EXCEPT ![w].at = "checking", ![w].checking = {}]
Treated(w, i) ==
    journalCall' = [journalCall EXCEPT
        ![w].at = IF journalCall[w].left = {i} THEN "returned" ELSE "checking",
        ![w].left = @ \ {i}, ![w].checking = {}]

(***************************************************************************)
(* The portal has no page of the ISSN, or cannot be reached: nothing is    *)
(* recorded, and the ISSN is checked again with the next record.           *)
(***************************************************************************)
UnansweredIsRecorded(i) == checked' = checked \cup {i}  \* mutant
Unanswered(i) == UNCHANGED checked

CheckWithoutPage(w) ==
    /\ journalCall[w].at = "checking"
    /\ \E i \in journalCall[w].left : Unanswered(i) /\ Treated(w, i)
    /\ UNCHANGED <<sourceJournals, sourceIssns, journals, issns>>

(***************************************************************************)
(* The portal takes too long to answer: nothing catches the timeout of the *)
(* client, which leaves the call.                                          *)
(***************************************************************************)
TimesOut(w) ==
    /\ journalCall[w].at = "checking"
    /\ Goes(w, "timed_out")
    /\ UNCHANGED <<sourceJournals, sourceIssns, journals, issns, checked>>

(***************************************************************************)
(* A page without ISSN-L gives a journal without uid, which cannot be      *)
(* written: the call ends.                                                 *)
(***************************************************************************)
CheckWithoutJournal(w) ==
    /\ journalCall[w].at = "checking"
    /\ journalCall[w].left \ DOMAIN Portal # {}
    /\ Goes(w, "failed")
    /\ UNCHANGED <<sourceJournals, sourceIssns, journals, issns, checked>>

(***************************************************************************)
(* The portal answers and the journal is looked for, with the last checks  *)
(* of its identifiers.                                                     *)
(***************************************************************************)
Check(w) ==
    /\ journalCall[w].at = "checking"
    /\ \E i \in journalCall[w].left \cap DOMAIN Portal :
        LET j == Portal[i].journal IN
        journalCall' = [journalCall EXCEPT
            ![w].at = "recording", ![w].checking = {i}, ![w].exists = j \in journals,
            ![w].stamped = issns[j] \cap checked]
    /\ UNCHANGED <<sourceJournals, sourceIssns, journals, issns, checked>>

(***************************************************************************)
(* The journal is created or updated with the ISSNs of the portal.  They   *)
(* take the time of this check, or of the last check that was read.  A     *)
(* journal created since is a conflict, which ends the call.               *)
(***************************************************************************)
Stamped(w, i, group) == (checked \ group) \cup (journalCall[w].stamped \cap group) \cup {i}

Record(w) ==
    /\ journalCall[w].at = "recording"
    /\ \E i \in journalCall[w].checking :
        LET j == Portal[i].journal
            group == Portal[i].issns
        IN
        IF ~ journalCall[w].exists /\ j \in journals
        THEN Goes(w, "failed") /\ UNCHANGED <<journals, issns, checked>>
        ELSE /\ journals' = journals \cup {j}
             /\ issns' = [issns EXCEPT ![j] = group]
             /\ checked' = Stamped(w, i, group)
             /\ Treated(w, i)
    /\ UNCHANGED <<sourceJournals, sourceIssns>>

(***************************************************************************)
(* A transaction of the call fails.                                        *)
(***************************************************************************)
Fail(w) ==
    /\ journalCall[w].at \notin {"none", "returned", "failed", "timed_out"}
    /\ Goes(w, "failed")
    /\ UNCHANGED <<sourceJournals, sourceIssns, journals, issns, checked>>

Work(w) ==
    \/ Find(w) \/ Store(w) \/ ReadSource(w)
    \/ CheckWithoutPage(w) \/ TimesOut(w) \/ CheckWithoutJournal(w) \/ Check(w) \/ Record(w)

---------------------------------------------------------------------------
(***************************************************************************)
(* Types: journals and source journals have ISSNs.                         *)
(***************************************************************************)
TypeOK ==
    /\ sourceJournals \subseteq SourceJournal
    /\ sourceIssns \in [SourceJournal -> SUBSET Issn]
    /\ journals \subseteq Journal /\ issns \in [Journal -> SUBSET Issn]
    /\ checked \subseteq Issn
    /\ \A w \in Worker : journalCall[w].left \subseteq Issn

(***************************************************************************)
(* An ISSN that is not to be checked again soon leads to a journal: no     *)
(* failure, absence or concurrent check records a check that gave nothing, *)
(* which would leave the documents without publication channel until then. *)
(***************************************************************************)
CheckedHaveAJournal == \A i \in checked : \E j \in journals : i \in issns[j]
===========================================================================
