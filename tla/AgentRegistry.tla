-------------------------- MODULE AgentRegistry --------------------------
(***************************************************************************)
(* People, research units and employers (PeopleService,                    *)
(* ResearchUnitService, InstitutionService and their DAOs): the messages   *)
(* of the institution's directory create and update them, a user           *)
(* authenticates an identifier of a person, and what changed is announced  *)
(* with a request of publications and an event.  The identifiers of all    *)
(* agents are shared nodes of the graph, unique by type and value.         *)
(*                                                                         *)
(* A step is one transaction, or one message sent.  A message is not       *)
(* acknowledged before its worker is idle again: after a failure of the    *)
(* database or a crash it is delivered again.                              *)
(***************************************************************************)
EXTENDS Naturals, FiniteSets, Sequences

CONSTANTS
    Person,        \* local identifiers of people
    Unit,          \* local identifiers of research units; may meet those of people
    Institution,   \* institutions the registry of organisations may answer
    Identifier,    \* <<type, value>>
    Message,       \* messages the queues may hold
    Worker,        \* workers of the people, structures and user actions topics
    MaxMessages,   \* bound: messages received, redeliveries left out
    MaxFailures    \* bound: failures of the database, of the broker, and crashes

Key(agent) == <<"local", agent>>
TypeOf(i) == i[1]
ValueOf(i) == i[2]

ASSUME RegistryAssumption ==
    /\ \A agent \in Person \cup Unit : Key(agent) \in Identifier
    /\ \A m \in Message :
        /\ m.topic \in {"person", "unit", "authenticate"}
        /\ m.event \in {"created", "updated", "unchanged", "added"}
        /\ m.agent \in (IF m.topic = "unit" THEN Unit ELSE Person)
        /\ m.identifiers \subseteq Identifier
        /\ m.units \subseteq Unit /\ m.employers \in Seq(Institution)
        /\ m.topic # "person" => m.employers = <<>>
        /\ m.described \in BOOLEAN
    /\ MaxMessages \in Nat /\ MaxFailures \in Nat

VARIABLES
    nodes,         \* AgentIdentifier nodes
    authenticated, \* the nodes whose authenticated property is true
    people,        \* Person nodes
    holds,         \* HAS_IDENTIFIER, of people
    memberOf,      \* MEMBER_OF
    employedAt,    \* EMPLOYED_AT
    units,         \* ResearchUnit nodes
    described,     \* the units with a HAS_DESCRIPTION
    unitHolds,     \* HAS_IDENTIFIER, of units
    institutions,  \* Institution nodes
    requested,     \* the identifiers publications were requested with since they last changed
    createdEvents, \* "created" events published about each person
    pc,            \* where each worker is
    job,           \* the local variables of each worker
    messages,      \* messages received so far
    requeued,      \* messages to be delivered again
    failures,      \* failures so far
    lost,          \* history: messages about people that were given up
    unanswered,    \* history: those of them the registry of organisations did not answer
    stored,        \* history: what the last message of the directory left of each person
    overtaken,     \* history: workers that read a person another one has written since
    contested,     \* history: people last written by such a worker
    interrupted,   \* history: people with a request or event lost, or not requested
    silenced       \* history: people with a created event lost

graphVars == <<nodes, authenticated, people, holds, memberOf, employedAt, units, described,
               unitHolds, institutions>>
announcedVars == <<requested, createdEvents>>
countVars == <<messages, requeued, failures>>
historyVars == <<lost, unanswered, stored, overtaken, contested, interrupted, silenced>>
vars == <<graphVars, announcedVars, pc, job, countVars, historyVars>>

PC == {"idle", "reading", "writing", "registering", "updating", "announcing"}

---------------------------------------------------------------------------
(***************************************************************************)
(* The local variables of a worker: the Person object is the message, with *)
(* the employers found so far; an authentication replaces it by the copy   *)
(* it reads, with the identifiers it holds as authenticated.  An update    *)
(* reads the person as it exists, and a request of publications is built   *)
(* before it is published.                                                 *)
(***************************************************************************)
NoPerson == [identifiers |-> {}, flagged |-> {}, units |-> {}, employers |-> {}]
NoMessage == [topic |-> "person", event |-> "created", agent |-> "", identifiers |-> {},
              units |-> {}, employers |-> <<>>, described |-> FALSE]
Job(message) ==
    [message |-> message, mode |-> message.event, retry |-> FALSE,
     person |-> [NoPerson EXCEPT !.identifiers = message.identifiers, !.units = message.units],
     left |-> message.employers, existing |-> NoPerson, outbox |-> <<>>, built |-> {}]
NoJob == Job(NoMessage)

Busy(p) == {w \in Worker : pc[w] # "idle" /\ job[w].message.topic # "unit"
                               /\ job[w].message.agent = p}
HasRead(p) ==
    {w \in Busy(p) : pc[w] = "updating" \/ (pc[w] = "writing" /\ job[w].message.topic = "authenticate")}
Goes(w, place) == pc' = [pc EXCEPT ![w] = place]
Ends(w) == Goes(w, "idle") /\ job' = [job EXCEPT ![w] = NoJob]

(***************************************************************************)
(* The queries that read a person return a row for each membership and     *)
(* each employment, and single() keeps the first row.                      *)
(***************************************************************************)
FirstRow(S) == IF S = {} THEN {{}} ELSE {{x} : x \in S}

(***************************************************************************)
(* What an update leaves of the memberships or employments: they are only  *)
(* written again when those of the first row are not those that come.      *)
(***************************************************************************)
AfterUpdateOfNone(old, row, incoming, found) ==  \* mutant
    IF row # {} THEN old ELSE found
AfterUpdate(old, row, incoming, found) == IF row = incoming THEN old ELSE found

(***************************************************************************)
(* A membership is created when the query that reads its unit finds it,    *)
(* which a unit without description is not.                                *)
(***************************************************************************)
KnownUnchecked(S) == S  \* mutant
Known(S) == S \cap described

(***************************************************************************)
(* The structures of the directory came first, or did not yet.             *)
(***************************************************************************)
Init ==
    /\ units \in {{}, Unit} /\ described = units
    /\ unitHolds = [u \in Unit |-> {Key(u)} \cap {Key(v) : v \in units}]
    /\ nodes = {Key(u) : u \in units} /\ authenticated = {}
    /\ people = {} /\ holds = [p \in Person |-> {}]
    /\ memberOf = [p \in Person |-> {}] /\ employedAt = [p \in Person |-> {}]
    /\ institutions = {}
    /\ requested = [p \in Person |-> {}] /\ createdEvents = [p \in Person |-> 0]
    /\ pc = [w \in Worker |-> "idle"] /\ job = [w \in Worker |-> NoJob]
    /\ messages = 0 /\ requeued = {} /\ failures = 0
    /\ lost = {} /\ unanswered = {} /\ overtaken = {} /\ stored = [p \in Person |-> NoPerson]
    /\ contested = {} /\ interrupted = {} /\ silenced = {}

---------------------------------------------------------------------------
(***************************************************************************)
(* A worker receives a message; a user action is read before it is written.*)
(***************************************************************************)
Receive(w) ==
    /\ pc[w] = "idle"
    /\ \E m \in Message :
        /\ \/ m \in requeued /\ requeued' = requeued \ {m} /\ UNCHANGED messages
           \/ messages < MaxMessages /\ messages' = messages + 1 /\ UNCHANGED requeued
        /\ job' = [job EXCEPT ![w] = Job(m)]
        /\ Goes(w, IF m.topic = "authenticate" THEN "reading" ELSE "writing")
    /\ UNCHANGED <<graphVars, announcedVars, failures, historyVars>>

(***************************************************************************)
(* The message is given up: an error that does not requeue it, or one that *)
(* is only logged.                                                         *)
(***************************************************************************)
Loses(w) ==
    /\ lost' = lost \cup {m \in {job[w].message} : m.topic = "person"}
    /\ Ends(w)
    /\ UNCHANGED <<graphVars, announcedVars, countVars, stored, overtaken, contested, interrupted,
                   silenced>>

---------------------------------------------------------------------------
(* Employers. *)

(***************************************************************************)
(* _update_employers_institutions looks each employer up in the graph,     *)
(* then in the registry of organisations, and keeps those it found.        *)
(***************************************************************************)
InstitutionStored(e) == e \in institutions

FindEmployer(w) ==
    /\ pc[w] = "writing" /\ job[w].left # <<>>
    /\ LET e == Head(job[w].left) IN
        IF InstitutionStored(e)
        THEN /\ job' = [job EXCEPT ![w].left = Tail(@), ![w].person.employers = @ \cup {e}]
             /\ UNCHANGED pc
        ELSE Goes(w, "registering") /\ UNCHANGED job
    /\ UNCHANGED <<graphVars, announcedVars, countVars, historyVars>>

(***************************************************************************)
(* The registry may not know the employer, or refuse to answer.  An        *)
(* institution another worker created meanwhile is a conflict, and the     *)
(* employment is left out.                                                 *)
(***************************************************************************)
StoresInstitution(e) == ~ InstitutionStored(e) /\ institutions' = institutions \cup {e}

RegisterEmployer(w) ==
    /\ pc[w] = "registering"
    /\ LET e == Head(job[w].left) IN
        \/ /\ StoresInstitution(e)
           /\ job' = [job EXCEPT ![w].left = Tail(@), ![w].person.employers = @ \cup {e}]
        \/ /\ job' = [job EXCEPT ![w].left = Tail(@)]
           /\ UNCHANGED institutions
    /\ Goes(w, "writing")
    /\ UNCHANGED <<nodes, authenticated, people, holds, memberOf, employedAt, units, described,
                   unitHolds, announcedVars, countVars, historyVars>>

(***************************************************************************)
(* A registry that does not answer in time raises an exception that is     *)
(* caught nowhere, and the message is refused.                             *)
(***************************************************************************)
RegistryTimesOut(w) ==
    /\ pc[w] = "registering"
    /\ unanswered' = unanswered \cup {job[w].message}
    /\ Loses(w)

---------------------------------------------------------------------------
(* People. *)

Writes(w, topics, mode) ==
    /\ pc[w] = "writing" /\ job[w].left = <<>>
    /\ job[w].message.topic \in topics /\ job[w].mode = mode

Upserts(w) == job[w].message.event = "unchanged"
HasKey(w) == Key(job[w].message.agent) \in job[w].person.identifiers
Announces(w, outbox) ==
    /\ job' = [job EXCEPT ![w] = [Job(job[w].message) EXCEPT !.outbox = outbox]]
    /\ Goes(w, "announcing")
Becomes(w, mode) ==
    job' = [job EXCEPT ![w].mode = mode, ![w].retry = TRUE]

(***************************************************************************)
(* _create_person_transaction.  The uniqueness of the identifier nodes     *)
(* makes a conflict of an identifier any agent has, or ever had.           *)
(***************************************************************************)
CreatableByMerge(w) == HasKey(w)  \* mutant
Creatable(w) ==
    /\ HasKey(w)
    /\ job[w].message.agent \notin people
    /\ job[w].person.identifiers \cap nodes = {}

CreatePerson(w) ==
    LET p == job[w].message.agent
        incoming == job[w].person
        known == Known(incoming.units)
    IN
    /\ Writes(w, {"person"}, "created") \/ Writes(w, {"person"}, "unchanged")
    /\ Creatable(w)
    /\ people' = people \cup {p}
    /\ nodes' = nodes \cup incoming.identifiers
    /\ holds' = [holds EXCEPT ![p] = incoming.identifiers]
    /\ memberOf' = [memberOf EXCEPT ![p] = known]
    /\ employedAt' = [employedAt EXCEPT ![p] = incoming.employers]
    /\ stored' = [stored EXCEPT ![p] = [incoming EXCEPT !.units = known]]
    /\ interrupted' = IF Upserts(w) THEN interrupted \cup {p} ELSE interrupted
    /\ Announces(w, IF Upserts(w) THEN <<"created">> ELSE <<"publications", "created">>)
    /\ UNCHANGED <<authenticated, units, described, unitHolds, institutions, announcedVars,
                   countVars, lost, unanswered, overtaken, contested, silenced>>

(***************************************************************************)
(* A conflict turns a creation into an update, once (the employers found   *)
(* are looked up again, which finds them).  A second one is only logged.   *)
(***************************************************************************)
CreateConflict(w) ==
    /\ Writes(w, {"person"}, "created") \/ Writes(w, {"person"}, "unchanged")
    /\ HasKey(w) /\ ~ Creatable(w)
    /\ IF job[w].retry /\ ~ Upserts(w)
       THEN Loses(w) /\ UNCHANGED unanswered
       ELSE /\ Becomes(w, "updated")
            /\ UNCHANGED <<graphVars, pc, announcedVars, countVars, historyVars>>

(***************************************************************************)
(* _update_person_transaction reads the person before it takes any lock.   *)
(***************************************************************************)
PersonRead(p, unit, employer) ==
    [identifiers |-> holds[p], flagged |-> holds[p] \cap authenticated,
     units |-> unit, employers |-> employer]

ReadExisting(w) ==
    LET p == job[w].message.agent IN
    /\ Writes(w, {"person", "authenticate"}, "updated")
    /\ HasKey(w) /\ p \in people
    /\ \E unit \in FirstRow(memberOf[p]), employer \in FirstRow(employedAt[p]) :
        job' = [job EXCEPT ![w].existing = PersonRead(p, unit, employer)]
    /\ Goes(w, "updating")
    /\ UNCHANGED <<graphVars, announcedVars, countVars, historyVars>>

(***************************************************************************)
(* Its writes wait for each other.  The identifiers not listed, and the    *)
(* authenticated ones, are detached (by type and by value, separately),    *)
(* then those listed are merged.  Memberships and employments are written  *)
(* again when those of the first row read differ.  What an authentication  *)
(* leaves of a person is its copy: another identifier of the type is       *)
(* replaced, and of the memberships and employments nothing is promised.   *)
(***************************************************************************)
Listed(i, S) ==
    (\E j \in S : TypeOf(j) = TypeOf(i)) /\ (\E j \in S : ValueOf(j) = ValueOf(i))
Authenticated(copy, flagged) ==
    [copy EXCEPT !.identifiers =
                    {i \in @ : \A j \in flagged : TypeOf(i) # TypeOf(j)} \cup flagged,
                 !.units = {}, !.employers = {}]
ChangedInverted(existing, incoming) ==  \* mutant
    existing.identifiers = incoming.identifiers /\ existing.flagged = incoming.flagged
Changed(existing, incoming) ==
    existing.identifiers # incoming.identifiers \/ existing.flagged # incoming.flagged

UpdatePerson(w) ==
    LET p == job[w].message.agent
        incoming == job[w].person
        existing == job[w].existing
        unflagged == incoming.identifiers \ incoming.flagged
        known == Known(incoming.units)
        changed == Changed(existing, incoming)
    IN
    /\ pc[w] = "updating"
    /\ holds' = [holds EXCEPT ![p] =
                    {i \in @ : Listed(i, unflagged)} \cup incoming.identifiers]
    /\ requested' = IF holds' = holds THEN requested ELSE [requested EXCEPT ![p] = {}]
    /\ nodes' = nodes \cup incoming.identifiers
    /\ authenticated' = authenticated \cup incoming.flagged
    /\ memberOf' = [memberOf EXCEPT ![p] = AfterUpdate(@, existing.units, incoming.units, known)]
    /\ employedAt' = [employedAt EXCEPT ![p] =
            AfterUpdate(@, existing.employers, incoming.employers, incoming.employers)]
    /\ stored' = [stored EXCEPT ![p] = IF job[w].message.topic = "person"
                                       THEN [incoming EXCEPT !.units = known]
                                       ELSE Authenticated(@, incoming.flagged)]
    /\ Announces(w, IF changed /\ ~ Upserts(w) THEN <<"publications">> ELSE <<>>)
    /\ interrupted' = IF (IF changed THEN Upserts(w) ELSE w \in overtaken)
                      THEN interrupted \cup {p} ELSE interrupted
    /\ contested' = IF w \in overtaken THEN contested \cup {p}
                    ELSE IF job[w].message.topic = "person" THEN contested \ {p} ELSE contested
    /\ overtaken' = (overtaken \cup HasRead(p)) \ {w}
    /\ UNCHANGED <<people, units, described, unitHolds, institutions, createdEvents, countVars,
                   lost, unanswered, silenced>>

(***************************************************************************)
(* An absent person turns an update into a creation, once.                 *)
(***************************************************************************)
UpdateAbsentIsLost(w) ==  \* mutant
    /\ Writes(w, {"person"}, "updated")
    /\ HasKey(w) /\ job[w].message.agent \notin people
    /\ Loses(w) /\ UNCHANGED unanswered
UpdateAbsent(w) ==
    /\ Writes(w, {"person"}, "updated")
    /\ HasKey(w) /\ job[w].message.agent \notin people
    /\ IF job[w].retry \/ Upserts(w)
       THEN Loses(w) /\ UNCHANGED unanswered
       ELSE /\ Becomes(w, "created")
            /\ UNCHANGED <<graphVars, pc, announcedVars, countVars, historyVars>>

(***************************************************************************)
(* compute_uid_for finds no local identifier.                              *)
(***************************************************************************)
WithoutKey(w) ==
    /\ \E mode \in {"created", "updated", "unchanged"} : Writes(w, {"person", "unit"}, mode)
    /\ ~ HasKey(w)
    /\ Loses(w) /\ UNCHANGED unanswered

---------------------------------------------------------------------------
(* Authentication of an identifier by its holder. *)

SameType(i, S) == {j \in S : TypeOf(j) = TypeOf(i)}

(***************************************************************************)
(* authenticate_identifier reads the person, with the first row only of    *)
(* its memberships and employments, and adds the identifier to this copy.  *)
(* Another HAL identifier is replaced; another ORCID is an error.          *)
(***************************************************************************)
ReadPerson(w) ==
    LET p == job[w].message.agent IN
    /\ pc[w] = "reading" /\ p \in people
    /\ \E i \in job[w].message.identifiers, unit \in FirstRow(memberOf[p]),
          employer \in FirstRow(employedAt[p]) :
        /\ i \notin holds[p] \cap authenticated
        /\ TypeOf(i) = "orcid" => SameType(i, holds[p]) \subseteq {i}
        /\ job' = [job EXCEPT
                ![w].mode = "updated",
                ![w].person =
                    [identifiers |-> (holds[p] \ SameType(i, holds[p])) \cup {i},
                     flagged |-> ((holds[p] \cap authenticated) \ SameType(i, holds[p])) \cup {i},
                     units |-> unit, employers |-> employer]]
    /\ Goes(w, "writing")
    /\ UNCHANGED <<graphVars, announcedVars, countVars, historyVars>>

RefuseAuthentication(w) ==
    LET p == job[w].message.agent IN
    /\ pc[w] = "reading"
    /\ \/ p \notin people
       \/ \E i \in job[w].message.identifiers :
            \/ i \in holds[p] \cap authenticated
            \/ TypeOf(i) = "orcid" /\ ~ SameType(i, holds[p]) \subseteq {i}
    /\ Loses(w) /\ UNCHANGED unanswered

---------------------------------------------------------------------------
(***************************************************************************)
(* Research units.  The queries that read a unit only match one with a     *)
(* description; a creation and an update only look for its uid.            *)
(***************************************************************************)
UnitFoundWithText(u) == u \in described  \* mutant
UnitFound(u) == u \in units

CreateUnit(w) ==
    LET u == job[w].message.agent IN
    /\ Writes(w, {"unit"}, "created")
    /\ u \notin units /\ HasKey(w)
    /\ units' = units \cup {u}
    /\ described' = IF job[w].message.described THEN described \cup {u} ELSE described
    /\ unitHolds' = [unitHolds EXCEPT ![u] = job[w].message.identifiers]
    /\ nodes' = nodes \cup job[w].message.identifiers
    /\ Announces(w, <<"unit">>)
    /\ UNCHANGED <<authenticated, people, holds, memberOf, employedAt, institutions,
                   announcedVars, countVars, historyVars>>

UpdateUnit(w) ==
    LET u == job[w].message.agent
        incoming == job[w].message.identifiers
    IN
    /\ Writes(w, {"unit"}, "updated")
    /\ UnitFound(u) /\ HasKey(w)
    /\ unitHolds' = [unitHolds EXCEPT ![u] = {i \in @ : Listed(i, incoming)} \cup incoming]
    /\ nodes' = nodes \cup incoming
    /\ Announces(w, <<"unit">>)
    /\ UNCHANGED <<authenticated, people, holds, memberOf, employedAt, units, described,
                   institutions, announcedVars, countVars, historyVars>>

(***************************************************************************)
(* create_or_update looks for the local identifier, in a transaction of    *)
(* its own; no conflict is caught after that.                              *)
(***************************************************************************)
FindUnit(w) ==
    LET u == job[w].message.agent IN
    /\ Writes(w, {"unit"}, "unchanged")
    /\ job' = [job EXCEPT ![w].mode =
                IF \E v \in described : Key(u) \in unitHolds[v] THEN "updated" ELSE "created"]
    /\ UNCHANGED <<graphVars, pc, announcedVars, countVars, historyVars>>

(***************************************************************************)
(* _create_structure and _update_structure call each other, with no limit. *)
(***************************************************************************)
SwitchUnit(w) ==
    LET u == job[w].message.agent IN
    /\ HasKey(w)
    /\ \/ Writes(w, {"unit"}, "created") /\ u \in units
       \/ Writes(w, {"unit"}, "updated") /\ ~ UnitFound(u)
    /\ IF Upserts(w)
       THEN Loses(w) /\ UNCHANGED unanswered
       ELSE /\ Becomes(w, IF job[w].mode = "created" THEN "updated" ELSE "created")
            /\ UNCHANGED <<graphVars, pc, announcedVars, countVars, historyVars>>

---------------------------------------------------------------------------
(***************************************************************************)
(* The signals: a request of publications and an event about the agent are *)
(* each built from the graph, then published.  An event about a unit       *)
(* without description cannot be built, and the message is given up.  The  *)
(* events about a person that is updated or unchanged are not followed.    *)
(***************************************************************************)
Build(w) ==
    /\ pc[w] = "announcing" /\ job[w].outbox # <<>>
    /\ Head(job[w].outbox) = "publications" /\ job[w].built = {}
    /\ job' = [job EXCEPT ![w].built = {holds[job[w].message.agent]}]
    /\ UNCHANGED <<graphVars, announcedVars, pc, countVars, historyVars>>

RequestOfPublications(p, built) == [requested EXCEPT ![p] = @ \cup built]
CreatedEvent(p) == [createdEvents EXCEPT ![p] = @ + 1]

Announce(w) ==
    LET p == job[w].message.agent
        kind == Head(job[w].outbox)
        built == job[w].built
    IN
    /\ pc[w] = "announcing" /\ job[w].outbox # <<>>
    /\ kind = "unit" => p \in described
    /\ kind = "publications" => built # {}
    /\ requested' = IF kind = "publications" THEN RequestOfPublications(p, built) ELSE requested
    /\ interrupted' = IF kind = "publications" /\ holds[p] \in built
                      THEN interrupted \ {p} ELSE interrupted
    /\ createdEvents' = IF kind = "created" THEN CreatedEvent(p) ELSE createdEvents
    /\ job' = [job EXCEPT ![w].outbox = Tail(@), ![w].built = {}]
    /\ UNCHANGED <<graphVars, pc, countVars, lost, unanswered, stored, overtaken, contested,
                   silenced>>

AnnounceUnreadable(w) ==
    /\ pc[w] = "announcing" /\ job[w].outbox = <<"unit">>
    /\ job[w].message.agent \notin described
    /\ Ends(w)
    /\ UNCHANGED <<graphVars, announcedVars, countVars, historyVars>>

Finish(w) ==
    /\ pc[w] = "announcing" /\ job[w].outbox = <<>>
    /\ Ends(w)
    /\ UNCHANGED <<graphVars, announcedVars, countVars, historyVars>>

---------------------------------------------------------------------------
(* Failures. *)

Interrupts(w) ==
    /\ failures < MaxFailures
    /\ failures' = failures + 1
    /\ interrupted' = IF "publications" \in {job[w].outbox[n] : n \in DOMAIN job[w].outbox}
                      THEN interrupted \cup {job[w].message.agent} ELSE interrupted
    /\ silenced' = IF "created" \in {job[w].outbox[n] : n \in DOMAIN job[w].outbox}
                   THEN silenced \cup {job[w].message.agent} ELSE silenced

(***************************************************************************)
(* A database error or a crash: what the worker did stays, what it had to  *)
(* announce is forgotten, and the message comes back.                      *)
(***************************************************************************)
Fail(w) ==
    /\ pc[w] # "idle"
    /\ Interrupts(w)
    /\ requeued' = requeued \cup {job[w].message}
    /\ Ends(w)
    /\ overtaken' = overtaken \ {w}
    /\ UNCHANGED <<graphVars, announcedVars, messages, lost, unanswered, stored, contested>>

(***************************************************************************)
(* An error of the broker is logged and the worker goes on; so is an error *)
(* of the database while an event is built.                                *)
(***************************************************************************)
LoseAnnouncement(w) ==
    /\ pc[w] = "announcing" /\ job[w].outbox # <<>>
    /\ Interrupts(w)
    /\ job' = [job EXCEPT ![w].outbox = Tail(@), ![w].built = {}]
    /\ UNCHANGED <<graphVars, announcedVars, pc, messages, requeued, lost, unanswered, stored,
                   overtaken, contested>>

---------------------------------------------------------------------------
Work(w) ==
    \/ FindEmployer(w) \/ RegisterEmployer(w) \/ RegistryTimesOut(w)
    \/ CreatePerson(w) \/ CreateConflict(w)
    \/ ReadExisting(w) \/ UpdatePerson(w) \/ UpdateAbsent(w)
    \/ WithoutKey(w) \/ ReadPerson(w) \/ RefuseAuthentication(w)
    \/ CreateUnit(w) \/ UpdateUnit(w) \/ FindUnit(w) \/ SwitchUnit(w)
    \/ Build(w) \/ Announce(w) \/ AnnounceUnreadable(w) \/ Finish(w)

Next == \E w \in Worker : Receive(w) \/ Work(w) \/ Fail(w) \/ LoseAnnouncement(w)

Spec == Init /\ [][Next]_vars

(***************************************************************************)
(* A worker with a message goes on: its coroutine is scheduled again.      *)
(***************************************************************************)
FairSpec == Spec /\ \A w \in Worker : WF_vars(Work(w))

---------------------------------------------------------------------------
(***************************************************************************)
(* Types: links are between nodes that exist, and every identifier that    *)
(* was requested is one.                                                   *)
(***************************************************************************)
TypeOK ==
    /\ nodes \subseteq Identifier /\ authenticated \subseteq nodes
    /\ people \subseteq Person /\ holds \in [Person -> SUBSET nodes]
    /\ memberOf \in [Person -> SUBSET described] /\ employedAt \in [Person -> SUBSET institutions]
    /\ units \subseteq Unit /\ described \subseteq units
    /\ unitHolds \in [Unit -> SUBSET nodes] /\ institutions \subseteq Institution
    /\ requested \in [Person -> SUBSET SUBSET nodes] /\ createdEvents \in [Person -> Nat]
    /\ pc \in [Worker -> PC]
    /\ \A w \in Worker : pc[w] # "idle" => job[w].message \in Message
    /\ messages \in 0 .. MaxMessages /\ failures \in 0 .. MaxFailures
    /\ requeued \subseteq Message /\ lost \subseteq Message /\ unanswered \subseteq lost
    /\ \A S \in {contested, interrupted, silenced} : S \subseteq Person
    /\ overtaken \subseteq Worker

Settled(p) == p \in people /\ Busy(p) = {}

(***************************************************************************)
(* Since a person got its identifiers, publications were requested with    *)
(* them, whichever messages met.  The exceptions are left to the next      *)
(* change: a failure, a message of type unchanged, which requests nothing, *)
(* and an update that saw no change because another worker wrote the       *)
(* person after it was read.                                               *)
(***************************************************************************)
HarvestFollowsIdentifiers ==
    \A p \in Person \ interrupted : Settled(p) => holds[p] \in requested[p]

(***************************************************************************)
(* The creation of a person is announced once, whatever the workers that   *)
(* try to create it at the same time, and unless a failure lost the event. *)
(***************************************************************************)
CreatedOnce ==
    \A p \in Person :
        /\ createdEvents[p] <= 1
        /\ Settled(p) /\ p \notin silenced => createdEvents[p] = 1

(***************************************************************************)
(* A person has the identifiers, the memberships of the units known, and   *)
(* the employments of the employers found, that the last message about it  *)
(* lists, although only the first membership and employment are compared.  *)
(* An authentication adds its identifier, and promises no membership or    *)
(* employment any more.  A person last written by a worker that had read   *)
(* it before another one wrote it is the exception.                        *)
(***************************************************************************)
DirectoryIsStored ==
    \A p \in people \ contested :
        /\ stored[p].identifiers \subseteq holds[p]
        /\ stored[p].units \subseteq memberOf[p]
        /\ stored[p].employers \subseteq employedAt[p]

(***************************************************************************)
(* A message about a person is only given up for the want of a local       *)
(* identifier, because another agent, or a race, took an identifier of its *)
(* person, or because the registry of organisations was asked about an     *)
(* employer and did not answer in time.                                    *)
(***************************************************************************)
LossHasAReason ==
    \A m \in lost :
        \/ Key(m.agent) \notin m.identifiers \/ m.identifiers \cap nodes # {}
        \/ m \in unanswered /\ m.employers # <<>>

(***************************************************************************)
(* Every message ends, although creations and updates turn into each other *)
(***************************************************************************)
MessagesEnd == \A w \in Worker : pc[w] # "idle" ~> pc[w] = "idle"
===========================================================================
