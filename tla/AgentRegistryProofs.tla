------------------------ MODULE AgentRegistryProofs ------------------------
(***************************************************************************)
(* Proofs about people, research units and employers, for all messages and *)
(* agents, any number of workers, and any number of failures.              *)
(***************************************************************************)
EXTENDS AgentRegistry, TLAPS

---------------------------------------------------------------------------
(* The inductive invariants. *)

(***************************************************************************)
(* What a worker may have in hand: what there is to announce of a person   *)
(* starts with the request of publications.                                *)
(***************************************************************************)
Outboxes == {<<>>, <<"created">>, <<"publications", "created">>,
             <<"publications">>}
Requesting == {<<"publications", "created">>, <<"publications">>}
Creating == {<<"created">>, <<"publications", "created">>}

PersonCopies == [identifiers : SUBSET Identifier, flagged : SUBSET Identifier,
                 units : SUBSET Unit, employers : SUBSET Institution]
Jobs == [message : Message \cup {NoMessage},
         mode : {"created", "updated", "unchanged", "added"}, retry : BOOLEAN,
         person : PersonCopies, left : Seq(Institution), existing : PersonCopies,
         outbox : Outboxes \cup {<<"unit">>}, built : SUBSET SUBSET Identifier]

Sane(place, j) ==
    /\ place # "idle" => j.message \in Message
    /\ place = "registering" => j.left # <<>>
    /\ place = "reading" => j.message.topic = "authenticate"
    /\ place = "updating" => j.message.topic # "unit"
    /\ j.left # <<>> => j.message.topic = "person" /\ j.message.employers # <<>>
    /\ j.message.topic # "authenticate" => j.person.identifiers = j.message.identifiers
    /\ j.person.flagged \subseteq j.person.identifiers
    /\ IF j.message.topic = "unit" THEN j.outbox \in {<<>>, <<"unit">>}
       ELSE j.outbox \in Outboxes
JobsInv ==
    /\ pc \in [Worker -> PC] /\ job \in [Worker -> Jobs]
    /\ \A w \in Worker : /\ Sane(pc[w], job[w]) /\ job[w].person.employers \subseteq institutions
                         /\ job[w].built \subseteq SUBSET nodes

GraphInv ==
    /\ nodes \subseteq Identifier /\ authenticated \subseteq nodes
    /\ people \subseteq Person /\ holds \in [Person -> SUBSET nodes]
    /\ memberOf \in [Person -> SUBSET described] /\ employedAt \in [Person -> SUBSET institutions]
    /\ units \subseteq Unit /\ described \subseteq units
    /\ unitHolds \in [Unit -> SUBSET nodes] /\ institutions \subseteq Institution
    /\ requested \in [Person -> SUBSET SUBSET nodes] /\ createdEvents \in [Person -> Nat]
CountsInv ==
    /\ messages \in 0 .. MaxMessages /\ failures \in 0 .. MaxFailures
    /\ requeued \subseteq Message /\ lost \subseteq Message /\ unanswered \subseteq lost
    /\ overtaken \subseteq Worker
    /\ contested \subseteq Person /\ interrupted \subseteq Person /\ silenced \subseteq Person
    /\ stored \in [Person -> PersonCopies]
TypeInv == GraphInv /\ CountsInv /\ JobsInv

(***************************************************************************)
(* A creation that turned into an update met a node of an identifier; the  *)
(* nodes stay.                                                             *)
(***************************************************************************)
LossInv ==
    /\ TypeInv /\ LossHasAReason
    /\ \A p \in people : Key(p) \in nodes
    /\ \A w \in Worker :
          (pc[w] # "idle" /\ job[w].message.topic = "person" /\ job[w].mode = "updated"
             /\ (job[w].retry \/ job[w].message.event = "unchanged"))
          => job[w].message.identifiers \cap nodes # {}

(***************************************************************************)
(* The workers that have still to announce something about a person.       *)
(***************************************************************************)
Owing(p, boxes) ==
    {w \in Worker : /\ pc[w] = "announcing" /\ job[w].message.topic # "unit"
                    /\ job[w].message.agent = p /\ job[w].outbox \in boxes}

(***************************************************************************)
(* The event of the creation of a person was published, or lost, or one    *)
(* worker has to publish it.                                               *)
(***************************************************************************)
CreatedInv ==
    /\ TypeInv
    /\ \A p \in Person :
        /\ createdEvents[p] <= 1
        /\ \A v, w \in Owing(p, Creating) : v = w
        /\ Owing(p, Creating) # {} => createdEvents[p] = 0 /\ p \in people
        /\ createdEvents[p] # 0 => p \in people
        /\ p \in people \ silenced => createdEvents[p] = 1 \/ Owing(p, Creating) # {}

(***************************************************************************)
(* A request of publications is to be built, or was built with the         *)
(* identifiers the person still has; and what a worker read of a person    *)
(* that nobody wrote since is what the person is.                          *)
(***************************************************************************)
Asking(p) == {w \in Owing(p, Requesting) : job[w].built = {} \/ holds[p] \in job[w].built}
Updating(p) == {w \in Busy(p) : pc[w] = "updating"} \ overtaken
HarvestInv ==
    /\ TypeInv
    /\ \A p \in people \ interrupted : holds[p] \in requested[p] \/ Asking(p) # {}
    /\ \A p \in Person : \A w \in Updating(p) :
          p \in people /\ job[w].existing.identifiers = holds[p]

(***************************************************************************)
(* The copy an authentication is to write has the identifiers of the       *)
(* directory, but for those of the type it authenticates.                  *)
(***************************************************************************)
UpToDate(p, copy) ==
    \A i \in stored[p].identifiers :
        i \in copy.identifiers \/ \E j \in copy.flagged : TypeOf(i) = TypeOf(j)
Copying(p) == {w \in HasRead(p) \ overtaken : job[w].message.topic = "authenticate"}
Copied(p, w) == p \notin contested => UpToDate(p, job[w].person)
Compared(p, w) ==
    job[w].existing.units \subseteq memberOf[p] /\ job[w].existing.employers \subseteq employedAt[p]
StoredInv ==
    /\ TypeInv /\ DirectoryIsStored
    /\ \A p \in Person : HasRead(p) # {} => p \in people
    /\ \A p \in people : /\ \A w \in Copying(p) : Copied(p, w)
                         /\ \A w \in Updating(p) : Compared(p, w)

---------------------------------------------------------------------------
(* Types. *)

(***************************************************************************)
(* The worker w goes to another place, with other local variables, and the *)
(* institutions and the nodes of identifiers stay.                         *)
(***************************************************************************)
Takes(w, place, j) ==
    /\ place \in PC /\ j \in Jobs /\ Sane(place, j)
    /\ pc' = [pc EXCEPT ![w] = place] /\ job' = [job EXCEPT ![w] = j]
    /\ j.person.employers \subseteq institutions' /\ institutions \subseteq institutions'
    /\ j.built \subseteq SUBSET nodes' /\ nodes \subseteq nodes'

\* Such a move keeps all the workers sane.
LEMMA JobsKept ==
    ASSUME JobsInv, NEW w \in Worker, NEW place, NEW j, Takes(w, place, j)
    PROVE  JobsInv'
<1>1. pc' \in [Worker -> PC] /\ job' \in [Worker -> Jobs]
  BY DEF Takes, JobsInv
<1>2. ASSUME NEW v \in Worker
      PROVE  /\ Sane(pc'[v], job'[v]) /\ job'[v].person.employers \subseteq institutions'
             /\ job'[v].built \subseteq SUBSET nodes'
  <2>1. CASE v = w
    <3>1. pc'[v] = place /\ job'[v] = j
      BY <2>1 DEF Takes, JobsInv
    <3>2. QED
      BY <3>1 DEF Takes
  <2>2. CASE v # w
    <3>1. pc'[v] = pc[v] /\ job'[v] = job[v]
      BY <2>2 DEF Takes, JobsInv
    <3>2. QED
      BY <3>1 DEF Takes, JobsInv
  <2>3. QED
    BY <2>1, <2>2
<1>3. QED
  BY <1>1, <1>2 DEF JobsInv

\* A worker that receives a message, and one that is done with it.
LEMMA FreshJobs ==
    /\ NoJob \in Jobs /\ Sane("idle", NoJob) /\ NoJob.person.employers = {} /\ NoJob.built = {}
    /\ \A m \in Message : \A outbox \in Outboxes \cup {<<"unit">>} :
          /\ Job(m) \in Jobs
          /\ [Job(m) EXCEPT !.outbox = outbox] \in Jobs
          /\ Sane("writing", Job(m))
          /\ m.topic = "authenticate" => Sane("reading", Job(m))
          /\ (IF m.topic = "unit" THEN outbox \in {<<>>, <<"unit">>} ELSE outbox \in Outboxes)
                => Sane("announcing", [Job(m) EXCEPT !.outbox = outbox])
          /\ Job(m).person.employers = {} /\ Job(m).built = {}
<1>1. NoJob \in Jobs /\ Sane("idle", NoJob) /\ NoJob.person.employers = {} /\ NoJob.built = {}
  <2> DEFINE nobody == [NoPerson EXCEPT !.identifiers = {}, !.units = {}]
  <2>1. NoJob = [message |-> NoMessage, mode |-> "created", retry |-> FALSE,
                 person |-> nobody, left |-> <<>>, existing |-> NoPerson, outbox |-> <<>>,
                 built |-> {}]
    BY DEF NoJob, Job, NoMessage
  <2>2. /\ nobody \in PersonCopies /\ nobody.identifiers = {} /\ nobody.flagged = {}
        /\ nobody.employers = {} /\ NoPerson \in PersonCopies
    BY DEF NoPerson, PersonCopies
  <2>3. <<>> \in Seq(Institution) /\ <<>> \in Outboxes
    BY DEF Outboxes
  <2> HIDE DEF nobody
  <2>4. NoJob \in Jobs
    BY <2>1, <2>2, <2>3 DEF Jobs
  <2>5. Sane("idle", NoJob)
    BY <2>1, <2>2, <2>3 DEF Sane, NoMessage
  <2>6. QED
    BY <2>1, <2>2, <2>4, <2>5
<1>2. ASSUME NEW m \in Message, NEW outbox \in Outboxes \cup {<<"unit">>}
      PROVE  /\ Job(m) \in Jobs
             /\ [Job(m) EXCEPT !.outbox = outbox] \in Jobs
             /\ Sane("writing", Job(m))
             /\ m.topic = "authenticate" => Sane("reading", Job(m))
             /\ (IF m.topic = "unit" THEN outbox \in {<<>>, <<"unit">>} ELSE outbox \in Outboxes)
                   => Sane("announcing", [Job(m) EXCEPT !.outbox = outbox])
             /\ Job(m).person.employers = {} /\ Job(m).built = {}
  <2>1. /\ m.event \in {"created", "updated", "unchanged", "added"}
        /\ m.identifiers \subseteq Identifier /\ m.units \subseteq Unit
        /\ m.employers \in Seq(Institution) /\ (m.topic # "person" => m.employers = <<>>)
    BY RegistryAssumption
  <2>2. Job(m) \in Jobs
    BY <2>1 DEF Job, NoPerson, Jobs, PersonCopies, Outboxes
  <2>3. QED
    BY <2>1, <2>2 DEF Job, NoPerson, Jobs, PersonCopies, Sane, Outboxes
<1>3. QED
  BY <1>1, <1>2

\* What a worker in hand has.
LEMMA JobFacts ==
    ASSUME JobsInv, NEW w \in Worker, pc[w] # "idle"
    PROVE  /\ job[w] \in Jobs /\ job[w].message \in Message /\ Sane(pc[w], job[w])
           /\ job[w].message.topic \in {"person", "unit", "authenticate"}
           /\ job[w].message.event \in {"created", "updated", "unchanged", "added"}
           /\ job[w].message.agent \in (IF job[w].message.topic = "unit" THEN Unit ELSE Person)
           /\ job[w].message.identifiers \subseteq Identifier
           /\ job[w].person.employers \subseteq institutions /\ job[w].built \subseteq SUBSET nodes
           /\ job[w].person \in PersonCopies /\ job[w].existing \in PersonCopies
           /\ job[w].person.flagged \subseteq job[w].person.identifiers
BY RegistryAssumption DEF JobsInv, Sane, Jobs

\* A worker that ends is idle.
LEMMA EndsTakes ==
    ASSUME NEW w \in Worker, Ends(w), UNCHANGED <<institutions, nodes>>
    PROVE  Takes(w, "idle", NoJob)
BY FreshJobs DEF Ends, Goes, Takes, PC

\* A worker that announces what it did.
LEMMA AnnouncesTakes ==
    ASSUME JobsInv, NEW w \in Worker, pc[w] # "idle",
           NEW outbox \in Outboxes \cup {<<"unit">>}, Announces(w, outbox),
           IF job[w].message.topic = "unit" THEN outbox \in {<<>>, <<"unit">>}
           ELSE outbox \in Outboxes,
           UNCHANGED institutions, nodes \subseteq nodes'
    PROVE  Takes(w, "announcing", [Job(job[w].message) EXCEPT !.outbox = outbox])
<1>1. job[w].message \in Message
  BY JobFacts
<1>2. /\ [Job(job[w].message) EXCEPT !.outbox = outbox].person.employers = {}
      /\ [Job(job[w].message) EXCEPT !.outbox = outbox].built = {}
  BY <1>1, FreshJobs DEF Job
<1>3. QED
  BY <1>1, <1>2, FreshJobs DEF Announces, Goes, Takes, PC

\* A creation becomes an update or the reverse.
LEMMA BecomesTakes ==
    ASSUME JobsInv, NEW w \in Worker, pc[w] # "idle", NEW mode \in {"created", "updated"},
           Becomes(w, mode) \/ job' = [job EXCEPT ![w].mode = mode], UNCHANGED <<pc, institutions, nodes>>
    PROVE  \E j : Takes(w, pc[w], j)
<1>1. PICK retry \in BOOLEAN : job' = [job EXCEPT ![w] = [job[w] EXCEPT !.mode = mode, !.retry = retry]]
  <2>1. job[w] \in Jobs
    BY DEF JobsInv
  <2>2. [job EXCEPT ![w].mode = mode] =
            [job EXCEPT ![w] = [job[w] EXCEPT !.mode = mode, !.retry = job[w].retry]]
    BY <2>1 DEF JobsInv, Jobs
  <2>3. [job EXCEPT ![w].mode = mode, ![w].retry = TRUE] =
            [job EXCEPT ![w] = [job[w] EXCEPT !.mode = mode, !.retry = TRUE]]
    BY <2>1 DEF JobsInv, Jobs
  <2>4. job[w].retry \in BOOLEAN
    BY <2>1 DEF Jobs
  <2>5. QED
    BY <2>2, <2>3, <2>4 DEF Becomes
<1> DEFINE j == [job[w] EXCEPT !.mode = mode, !.retry = retry]
<1>2. /\ j \in Jobs /\ Sane(pc[w], j) /\ j.person.employers \subseteq institutions
      /\ j.built \subseteq SUBSET nodes
  <2>1. job[w] \in Jobs
    BY DEF JobsInv
  <2>2. /\ j \in Jobs /\ j.message = job[w].message /\ j.person = job[w].person
        /\ j.left = job[w].left /\ j.outbox = job[w].outbox /\ j.built = job[w].built
    BY <2>1 DEF Jobs
  <2> HIDE DEF j
  <2>3. QED
    BY <2>2, JobFacts DEF Sane
<1>3. pc' = [pc EXCEPT ![w] = pc[w]]
  BY DEF JobsInv
<1>4. QED
  BY <1>1, <1>2, <1>3 DEF Takes, JobsInv

\* What is left of the announcements after the first one.
LEMMA OutboxTails ==
    ASSUME NEW box \in Outboxes \cup {<<"unit">>}, box # <<>>
    PROVE  /\ box = <<"unit">> => Tail(box) = <<>> /\ Head(box) = "unit"
           /\ box \in Outboxes => Tail(box) \in Outboxes \ Requesting /\ Head(box) # "unit"
           /\ box \in Requesting <=> Head(box) = "publications"
           /\ box \in Creating => (Tail(box) \in Creating <=> Head(box) # "created")
           /\ box \notin Creating => Tail(box) \notin Creating /\ Head(box) # "created"
<1>1. CASE box = <<"unit">>
  BY <1>1 DEF Outboxes, Requesting, Creating
<1>2. CASE box = <<"created">>
  BY <1>2 DEF Outboxes, Requesting, Creating
<1>3. CASE box = <<"publications">>
  BY <1>3 DEF Outboxes, Requesting, Creating
<1>4. CASE box = <<"publications", "created">>
  <2>1. Tail(box) = <<"created">> /\ Head(box) = "publications"
    BY <1>4
  <2>2. QED
    BY <1>4, <2>1 DEF Outboxes, Requesting, Creating
<1>5. QED
  BY <1>1, <1>2, <1>3, <1>4 DEF Outboxes

\* Steps that leave the graph and what was announced keep their types.
LEMMA GraphKept ==
    ASSUME GraphInv, UNCHANGED <<graphVars, announcedVars>>
    PROVE  GraphInv' /\ UNCHANGED <<institutions, nodes>>
BY DEF GraphInv, graphVars, announcedVars

\* A message that is given up.
LEMMA LosesTypes ==
    ASSUME TypeInv, NEW w \in Worker, pc[w] # "idle", Loses(w),
           \/ UNCHANGED unanswered
           \/ job[w].message.topic = "person" /\ unanswered' = unanswered \cup {job[w].message}
    PROVE  TypeInv'
<1>1. GraphInv' /\ UNCHANGED <<institutions, nodes>> /\ JobsInv /\ job[w].message \in Message
  BY GraphKept, JobFacts DEF TypeInv, Loses
<1>2. JobsInv'
  BY <1>1, EndsTakes, JobsKept DEF Loses
<1>3. CountsInv'
  BY <1>1 DEF TypeInv, CountsInv, countVars, Loses
<1>4. QED
  BY <1>1, <1>2, <1>3 DEF TypeInv

\* A message is received.
LEMMA ReceiveTypes ==
    ASSUME TypeInv, NEW w \in Worker, Receive(w)
    PROVE  TypeInv'
<1>1. PICK m \in Message :
        /\ \/ m \in requeued /\ requeued' = requeued \ {m} /\ UNCHANGED messages
           \/ messages < MaxMessages /\ messages' = messages + 1 /\ UNCHANGED requeued
        /\ job' = [job EXCEPT ![w] = Job(m)]
        /\ pc' = [pc EXCEPT ![w] = IF m.topic = "authenticate" THEN "reading" ELSE "writing"]
  BY DEF Receive, Goes
<1>2. GraphInv' /\ UNCHANGED <<institutions, nodes>>
  BY GraphKept DEF TypeInv, Receive
<1>3. Takes(w, IF m.topic = "authenticate" THEN "reading" ELSE "writing", Job(m))
  <2>1. <<>> \in Outboxes
    BY DEF Outboxes
  <2>2. QED
    BY <1>1, <1>2, <2>1, FreshJobs DEF Takes, PC
<1>4. JobsInv'
  BY <1>3, JobsKept DEF TypeInv
<1>5. CountsInv'
  BY <1>1, RegistryAssumption DEF TypeInv, CountsInv, Receive, historyVars
<1>6. QED
  BY <1>2, <1>4, <1>5 DEF TypeInv

\* The employers are looked up, in the graph and in the registry.
LEMMA EmployerTypes ==
    ASSUME TypeInv, NEW w \in Worker, FindEmployer(w) \/ RegisterEmployer(w)
    PROVE  TypeInv'
<1> DEFINE e == Head(job[w].left)
<1>1. /\ JobsInv /\ GraphInv /\ CountsInv /\ pc[w] # "idle" /\ job[w] \in Jobs /\ Sane(pc[w], job[w])
      /\ job[w].message \in Message /\ job[w].person \in PersonCopies
      /\ job[w].person.employers \subseteq institutions
  BY JobFacts DEF TypeInv, FindEmployer, RegisterEmployer
<1>2. job[w].left # <<>> /\ job[w].left \in Seq(Institution)
  BY <1>1 DEF FindEmployer, RegisterEmployer, Sane, Jobs
<1>3. e \in Institution /\ Tail(job[w].left) \in Seq(Institution)
  BY <1>2
<1> HIDE DEF e
<1>4. /\ institutions' \in {institutions, institutions \cup {e}}
      /\ UNCHANGED <<nodes, authenticated, people, holds, memberOf, employedAt, units, described,
                     unitHolds, announcedVars, countVars, historyVars>>
  BY DEF FindEmployer, RegisterEmployer, StoresInstitution, graphVars, e
<1>5. GraphInv'
  BY <1>1, <1>3, <1>4 DEF GraphInv, announcedVars
<1>6. CountsInv'
  BY <1>1, <1>4 DEF CountsInv, countVars, historyVars
<1>7. PICK place \in {"writing", "registering"}, left \in Seq(Institution),
            employers \in SUBSET institutions' :
        /\ place = "registering" => left # <<>>
        /\ job[w].left = <<>> => left = <<>>
        /\ pc' = [pc EXCEPT ![w] = place]
        /\ job' = [job EXCEPT ![w] = [job[w] EXCEPT !.left = left, !.person.employers = employers]]
  <2>1. \/ /\ pc' = [pc EXCEPT ![w] = "registering"] /\ job' = job
        \/ /\ pc' = [pc EXCEPT ![w] = "writing"] /\ e \in institutions'
           /\ job' = [job EXCEPT ![w].left = Tail(@), ![w].person.employers = @ \cup {e}]
        \/ /\ pc' = [pc EXCEPT ![w] = "writing"] /\ job' = [job EXCEPT ![w].left = Tail(@)]
    <3>1. CASE FindEmployer(w)
      BY <1>1, <1>4, <3>1 DEF FindEmployer, InstitutionStored, Goes, JobsInv, e, graphVars
    <3>2. CASE RegisterEmployer(w)
      BY <3>2 DEF RegisterEmployer, StoresInstitution, Goes, e
    <3>3. QED
      BY <3>1, <3>2
  <2>a. job[w].person = [job[w].person EXCEPT !.employers = job[w].person.employers]
    BY <1>1 DEF PersonCopies
  <2>b. /\ job[w] = [job[w] EXCEPT !.left = job[w].left, !.person = job[w].person]
        /\ [job[w] EXCEPT !.left = Tail(job[w].left)] =
              [job[w] EXCEPT !.left = Tail(job[w].left), !.person = job[w].person]
    BY <1>1 DEF Jobs
  <2>2. job = [job EXCEPT ![w] = [job[w] EXCEPT !.left = job[w].left,
                                       !.person.employers = job[w].person.employers]]
    BY <1>1, <2>a, <2>b DEF JobsInv
  <2>3. [job EXCEPT ![w].left = Tail(@)] =
          [job EXCEPT ![w] = [job[w] EXCEPT !.left = Tail(job[w].left),
                                   !.person.employers = job[w].person.employers]]
    BY <1>1, <2>a, <2>b DEF JobsInv
  <2>4. [job EXCEPT ![w].left = Tail(@), ![w].person.employers = @ \cup {e}] =
          [job EXCEPT ![w] = [job[w] EXCEPT !.left = Tail(job[w].left),
                                   !.person.employers = job[w].person.employers \cup {e}]]
    BY <1>1 DEF JobsInv, Jobs, PersonCopies
  <2>5. job[w].person.employers \subseteq institutions'
    BY <1>1, <1>4
  <2>6. CASE pc' = [pc EXCEPT ![w] = "registering"] /\ job' = job
    BY <1>2, <2>2, <2>5, <2>6
  <2>7. CASE /\ pc' = [pc EXCEPT ![w] = "writing"] /\ e \in institutions'
             /\ job' = [job EXCEPT ![w].left = Tail(@), ![w].person.employers = @ \cup {e}]
    <3>1. job[w].person.employers \cup {e} \in SUBSET institutions'
      BY <2>5, <2>7
    <3>2. QED
      BY <1>2, <1>3, <2>4, <2>7, <3>1
  <2>8. CASE pc' = [pc EXCEPT ![w] = "writing"] /\ job' = [job EXCEPT ![w].left = Tail(@)]
    BY <1>2, <1>3, <2>3, <2>5, <2>8
  <2>9. QED
    BY <2>1, <2>6, <2>7, <2>8
<1> DEFINE j == [job[w] EXCEPT !.left = left, !.person.employers = employers]
<1>8. /\ j \in Jobs /\ Sane(place, j) /\ j.person.employers \subseteq institutions'
      /\ j.built = job[w].built
  <2>1. employers \in SUBSET Institution
    BY <1>5, <1>7 DEF GraphInv
  <2>2. /\ j \in Jobs /\ j.left = left /\ j.message = job[w].message /\ j.outbox = job[w].outbox
        /\ j.built = job[w].built
        /\ j.person.identifiers = job[w].person.identifiers
        /\ j.person.flagged = job[w].person.flagged /\ j.person.employers = employers
    BY <1>1, <1>7, <2>1 DEF Jobs, PersonCopies
  <2> HIDE DEF j
  <2>3. QED
    BY <1>1, <1>2, <1>7, <2>2 DEF Sane
<1>9. JobsInv'
  <2> HIDE DEF j
  <2>1. Takes(w, place, j)
    BY <1>1, <1>4, <1>7, <1>8 DEF Takes, PC, JobsInv, j
  <2>2. QED
    BY <1>1, <2>1, JobsKept
<1>10. QED
  BY <1>5, <1>6, <1>9 DEF TypeInv

\* What an update leaves of memberships or employments: what there was, or
\* what was found.
LEMMA UpdatedLinks ==
    ASSUME NEW old, NEW row, NEW incoming, NEW found, NEW S,
           S = AfterUpdate(old, row, incoming, found)
    PROVE  S = found \/ (S = old /\ incoming = row)
BY DEF AfterUpdate

\* A person is created.
LEMMA CreateTypes ==
    ASSUME TypeInv, NEW w \in Worker, CreatePerson(w)
    PROVE  TypeInv'
<1> DEFINE p == job[w].message.agent
           incoming == job[w].person
           known == Known(incoming.units)
           box == IF Upserts(w) THEN <<"created">> ELSE <<"publications", "created">>
<1>1. /\ GraphInv /\ CountsInv /\ JobsInv /\ pc[w] # "idle" /\ job[w].message.topic = "person"
      /\ job[w].message \in Message /\ p \in Person /\ incoming \in PersonCopies
      /\ incoming.employers \subseteq institutions /\ known \subseteq described
  BY JobFacts DEF TypeInv, CreatePerson, Writes, Known
<1>2. /\ people' = people \cup {p} /\ nodes' = nodes \cup incoming.identifiers
      /\ holds' = [holds EXCEPT ![p] = incoming.identifiers]
      /\ memberOf' = [memberOf EXCEPT ![p] = known]
      /\ employedAt' = [employedAt EXCEPT ![p] = incoming.employers]
      /\ stored' = [stored EXCEPT ![p] = [incoming EXCEPT !.units = known]]
      /\ interrupted' = (IF Upserts(w) THEN interrupted \cup {p} ELSE interrupted)
      /\ Announces(w, box)
      /\ UNCHANGED <<authenticated, units, described, unitHolds, institutions, announcedVars,
                     countVars, lost, unanswered, overtaken, contested, silenced>>
  BY DEF CreatePerson
<1>3. box \in Outboxes
  BY DEF Outboxes
<1> HIDE DEF p, incoming, known, box
<1>4. incoming.identifiers \subseteq Identifier /\ known \subseteq Unit
  BY <1>1 DEF PersonCopies, GraphInv
<1>5. GraphInv'
  BY <1>1, <1>2, <1>4 DEF GraphInv, announcedVars
<1>6. [incoming EXCEPT !.units = known] \in PersonCopies
  BY <1>1, <1>4 DEF PersonCopies
<1>7. CountsInv'
  BY <1>1, <1>2, <1>6 DEF CountsInv, countVars
<1>8. JobsInv'
  <2>1. Takes(w, "announcing", [Job(job[w].message) EXCEPT !.outbox = box])
    BY <1>1, <1>2, <1>3, AnnouncesTakes
  <2>2. QED
    BY <1>1, <2>1, JobsKept
<1>9. QED
  BY <1>5, <1>7, <1>8 DEF TypeInv

\* A person is updated.
LEMMA UpdateTypes ==
    ASSUME TypeInv, NEW w \in Worker, UpdatePerson(w)
    PROVE  TypeInv'
<1> DEFINE p == job[w].message.agent
           incoming == job[w].person
           existing == job[w].existing
           known == Known(incoming.units)
           kept == {i \in holds[p] : Listed(i, incoming.identifiers \ incoming.flagged)}
           box == IF Changed(existing, incoming) /\ ~ Upserts(w) THEN <<"publications">> ELSE <<>>
           members == AfterUpdate(memberOf[p], existing.units, incoming.units, known)
           employments ==
               AfterUpdate(employedAt[p], existing.employers, incoming.employers, incoming.employers)
<1>1. /\ GraphInv /\ CountsInv /\ JobsInv /\ pc[w] # "idle"
      /\ job[w].message.topic \in {"person", "authenticate"}
      /\ job[w].message \in Message /\ p \in Person /\ incoming \in PersonCopies
      /\ incoming.flagged \subseteq incoming.identifiers
      /\ incoming.employers \subseteq institutions /\ known \subseteq described
  <2>1. pc[w] = "updating"
    BY DEF UpdatePerson
  <2>2. QED
    BY <2>1, JobFacts DEF TypeInv, Sane, Known
<1>2. /\ nodes' = nodes \cup incoming.identifiers
      /\ holds' = [holds EXCEPT ![p] = kept \cup incoming.identifiers]
      /\ requested' \in {requested, [requested EXCEPT ![p] = {}]}
      /\ authenticated' = authenticated \cup incoming.flagged
      /\ memberOf' = [memberOf EXCEPT ![p] = members]
      /\ employedAt' = [employedAt EXCEPT ![p] = employments]
      /\ \/ stored' = [stored EXCEPT ![p] = [incoming EXCEPT !.units = known]]
         \/ stored' = [stored EXCEPT ![p] = Authenticated(@, incoming.flagged)]
      /\ interrupted' \subseteq interrupted \cup {p} /\ contested' \subseteq contested \cup {p}
      /\ overtaken' \subseteq Worker
      /\ Announces(w, box)
      /\ UNCHANGED <<people, units, described, unitHolds, institutions, createdEvents, countVars,
                     lost, unanswered, silenced>>
  <2>1. overtaken' = (overtaken \cup HasRead(p)) \ {w}
    BY DEF UpdatePerson
  <2>2. overtaken' \subseteq Worker
    BY <1>1, <2>1 DEF CountsInv, HasRead, Busy
  <2>3. QED
    BY <2>2 DEF UpdatePerson
<1>3. box \in Outboxes
  BY DEF Outboxes
<1>4. kept \subseteq nodes
  BY <1>1 DEF GraphInv
<1>5. /\ members = known \/ members = memberOf[p]
      /\ employments = incoming.employers \/ employments = employedAt[p]
  BY UpdatedLinks
<1> HIDE DEF p, incoming, existing, known, kept, box, members, employments
<1>6. incoming.identifiers \subseteq Identifier /\ incoming.flagged \subseteq Identifier /\ known \subseteq Unit
  BY <1>1 DEF PersonCopies, GraphInv
<1>7. memberOf' \in [Person -> SUBSET described] /\ employedAt' \in [Person -> SUBSET institutions]
  BY <1>1, <1>2, <1>5 DEF GraphInv
<1>8. holds' \in [Person -> SUBSET nodes'] /\ requested' \in [Person -> SUBSET SUBSET nodes']
  BY <1>1, <1>2, <1>4 DEF GraphInv
<1>9. GraphInv'
  BY <1>1, <1>2, <1>6, <1>7, <1>8 DEF GraphInv
<1>10. stored' \in [Person -> PersonCopies]
  <2>1. [incoming EXCEPT !.units = known] \in PersonCopies
    BY <1>1, <1>6 DEF PersonCopies
  <2>2. stored[p] \in PersonCopies /\ stored \in [Person -> PersonCopies]
    BY <1>1 DEF CountsInv
  <2>3. Authenticated(stored[p], incoming.flagged) \in PersonCopies
    BY <1>6, <2>2 DEF PersonCopies, Authenticated
  <2>4. QED
    BY <1>2, <2>1, <2>2, <2>3
<1>11. CountsInv'
  BY <1>1, <1>2, <1>10 DEF CountsInv, countVars
<1>12. JobsInv'
  <2>1. Takes(w, "announcing", [Job(job[w].message) EXCEPT !.outbox = box])
    BY <1>1, <1>2, <1>3, AnnouncesTakes
  <2>2. QED
    BY <1>1, <2>1, JobsKept
<1>13. QED
  BY <1>9, <1>11, <1>12 DEF TypeInv

\* A creation or an update turns into the other, or the message is given up.
LEMMA SwitchTypes ==
    ASSUME TypeInv, NEW w \in Worker,
           \/ CreateConflict(w) \/ UpdateAbsent(w) \/ WithoutKey(w) \/ RefuseAuthentication(w)
           \/ FindUnit(w) \/ SwitchUnit(w) \/ RegistryTimesOut(w)
    PROVE  TypeInv'
<1>1. pc[w] # "idle"
  BY DEF CreateConflict, UpdateAbsent, WithoutKey, RefuseAuthentication, FindUnit, SwitchUnit,
         RegistryTimesOut, Writes
<1>2. CASE Loses(w)
  <2>1. CASE RegistryTimesOut(w)
    <3>1. job[w].left # <<>> /\ Sane(pc[w], job[w])
      BY <2>1, JobFacts DEF RegistryTimesOut, TypeInv, Sane
    <3>2. QED
      BY <1>1, <1>2, <2>1, <3>1, LosesTypes DEF RegistryTimesOut, Sane
  <2>2. CASE ~ RegistryTimesOut(w)
    <3>1. UNCHANGED unanswered
      BY <2>2 DEF CreateConflict, UpdateAbsent, WithoutKey, RefuseAuthentication, FindUnit,
                  SwitchUnit, historyVars
    <3>2. QED
      BY <1>1, <1>2, <3>1, LosesTypes
  <2>3. QED
    BY <2>1, <2>2
<1>3. CASE ~ Loses(w)
  <2>1. PICK mode \in {"created", "updated"} :
            /\ Becomes(w, mode) \/ job' = [job EXCEPT ![w].mode = mode]
            /\ UNCHANGED <<graphVars, pc, announcedVars, countVars, historyVars>>
    BY <1>3
       DEF CreateConflict, UpdateAbsent, WithoutKey, RefuseAuthentication, FindUnit, SwitchUnit,
           RegistryTimesOut
  <2>2. GraphInv' /\ UNCHANGED <<institutions, nodes>>
    BY <2>1, GraphKept DEF TypeInv
  <2>3. JobsInv'
    BY <1>1, <2>1, <2>2, BecomesTakes, JobsKept DEF TypeInv
  <2>4. CountsInv'
    BY <2>1 DEF TypeInv, CountsInv, countVars, historyVars
  <2>5. QED
    BY <2>2, <2>3, <2>4 DEF TypeInv
<1>4. QED
  BY <1>2, <1>3

\* An authentication reads its copy of the person.
LEMMA ReadTypes ==
    ASSUME TypeInv, NEW w \in Worker, ReadPerson(w)
    PROVE  TypeInv'
<1> DEFINE p == job[w].message.agent
<1>1. /\ GraphInv /\ CountsInv /\ JobsInv /\ pc[w] # "idle" /\ job[w] \in Jobs
      /\ job[w].message.topic = "authenticate" /\ job[w].message \in Message /\ p \in Person
      /\ job[w].left = <<>> /\ job[w].outbox \in Outboxes
      /\ job[w].message.identifiers \subseteq Identifier /\ job[w].built \subseteq SUBSET nodes
  <2>1. pc[w] = "reading"
    BY DEF ReadPerson
  <2>2. QED
    BY <2>1, JobFacts DEF TypeInv, Sane
<1>2. PICK i \in job[w].message.identifiers, unit \in FirstRow(memberOf[p]),
            employer \in FirstRow(employedAt[p]) :
        job' = [job EXCEPT
                ![w].mode = "updated",
                ![w].person =
                    [identifiers |-> (holds[p] \ SameType(i, holds[p])) \cup {i},
                     flagged |-> ((holds[p] \cap authenticated) \ SameType(i, holds[p])) \cup {i},
                     units |-> unit, employers |-> employer]]
  BY DEF ReadPerson
<1>3. /\ holds[p] \subseteq Identifier /\ i \in Identifier
      /\ unit \subseteq Unit /\ employer \subseteq institutions /\ institutions \subseteq Institution
  BY <1>1, <1>2 DEF GraphInv, FirstRow
<1> HIDE DEF p
<1> DEFINE ids == (holds[p] \ SameType(i, holds[p])) \cup {i}
           flags == ((holds[p] \cap authenticated) \ SameType(i, holds[p])) \cup {i}
           copy == [identifiers |-> ids, flagged |-> flags, units |-> unit, employers |-> employer]
           j == [job[w] EXCEPT !.mode = "updated", !.person = copy]
<1>4. job' = [job EXCEPT ![w].mode = "updated", ![w].person = copy]
  BY <1>2
<1>5. flags \subseteq ids /\ ids \subseteq Identifier
  BY <1>3
<1> HIDE DEF ids, flags
<1>6. copy \in PersonCopies /\ copy.flagged \subseteq copy.identifiers /\ copy.employers = employer
  BY <1>3, <1>5 DEF PersonCopies
<1> HIDE DEF copy
<1>7. job' = [job EXCEPT ![w] = j]
  BY <1>1, <1>4 DEF JobsInv, Jobs
<1>8. /\ j \in Jobs /\ j.message = job[w].message /\ j.person = copy /\ j.left = <<>>
      /\ j.outbox = job[w].outbox /\ j.built = job[w].built
  BY <1>1, <1>6 DEF Jobs
<1> HIDE DEF j
<1>9. Sane("writing", j)
  BY <1>1, <1>6, <1>8 DEF Sane
<1>10. GraphInv' /\ UNCHANGED <<institutions, nodes>>
  BY <1>1, GraphKept DEF ReadPerson
<1>11. JobsInv'
  <2>1. Takes(w, "writing", j)
    BY <1>1, <1>3, <1>6, <1>7, <1>8, <1>9, <1>10 DEF Takes, ReadPerson, Goes, PC
  <2>2. QED
    BY <1>1, <2>1, JobsKept
<1>12. CountsInv'
  BY <1>1 DEF CountsInv, ReadPerson, countVars, historyVars
<1>13. QED
  BY <1>10, <1>11, <1>12 DEF TypeInv

\* An update reads the person as it exists.
LEMMA ExistingTypes ==
    ASSUME TypeInv, NEW w \in Worker, ReadExisting(w)
    PROVE  TypeInv'
<1> DEFINE p == job[w].message.agent
<1>1. /\ GraphInv /\ CountsInv /\ JobsInv /\ pc[w] = "writing" /\ job[w] \in Jobs
      /\ job[w].message.topic # "unit" /\ job[w].left = <<>> /\ p \in Person
      /\ Sane(pc[w], job[w]) /\ job[w].person.employers \subseteq institutions
      /\ job[w].built \subseteq SUBSET nodes
  BY JobFacts DEF TypeInv, ReadExisting, Writes
<1>2. PICK unit \in FirstRow(memberOf[p]), employer \in FirstRow(employedAt[p]) :
        job' = [job EXCEPT ![w].existing = PersonRead(p, unit, employer)]
  BY DEF ReadExisting
<1>3. PersonRead(p, unit, employer) \in PersonCopies
  BY <1>1, <1>2 DEF GraphInv, FirstRow, PersonRead, PersonCopies
<1> DEFINE j == [job[w] EXCEPT !.existing = PersonRead(p, unit, employer)]
<1>4. /\ j \in Jobs /\ job' = [job EXCEPT ![w] = j]
      /\ j.message = job[w].message /\ j.person = job[w].person /\ j.left = job[w].left
      /\ j.outbox = job[w].outbox /\ j.built = job[w].built
  BY <1>1, <1>2, <1>3 DEF JobsInv, Jobs
<1> HIDE DEF j
<1>5. Sane("updating", j)
  BY <1>1, <1>4 DEF Sane
<1>6. GraphInv' /\ UNCHANGED <<institutions, nodes>>
  BY <1>1, GraphKept DEF ReadExisting
<1>7. Takes(w, "updating", j)
  BY <1>1, <1>4, <1>5, <1>6 DEF Takes, ReadExisting, Goes, PC
<1>8. CountsInv'
  BY <1>1 DEF CountsInv, ReadExisting, countVars, historyVars
<1>9. QED
  BY <1>1, <1>6, <1>7, <1>8, JobsKept DEF TypeInv

\* A unit is created or updated.
LEMMA UnitTypes ==
    ASSUME TypeInv, NEW w \in Worker, CreateUnit(w) \/ UpdateUnit(w)
    PROVE  TypeInv'
<1> DEFINE u == job[w].message.agent
           incoming == job[w].message.identifiers
           kept == {i \in unitHolds[u] : Listed(i, incoming)}
<1>1. /\ GraphInv /\ CountsInv /\ JobsInv /\ pc[w] # "idle" /\ job[w].message.topic = "unit"
      /\ job[w].message \in Message /\ u \in Unit /\ incoming \subseteq Identifier
  BY JobFacts DEF TypeInv, CreateUnit, UpdateUnit, Writes
<1>2. /\ nodes' = nodes \cup incoming
      /\ \/ unitHolds' = [unitHolds EXCEPT ![u] = incoming]
         \/ unitHolds' = [unitHolds EXCEPT ![u] = kept \cup incoming]
      /\ \/ UNCHANGED <<units, described>>
         \/ units' = units \cup {u} /\ described' \in {described, described \cup {u}}
      /\ Announces(w, <<"unit">>)
      /\ UNCHANGED <<authenticated, people, holds, memberOf, employedAt, institutions,
                     announcedVars, countVars, historyVars>>
  BY DEF CreateUnit, UpdateUnit
<1>3. kept \subseteq nodes
  BY <1>1 DEF GraphInv
<1> HIDE DEF u, incoming, kept
<1>4. unitHolds' \in [Unit -> SUBSET nodes']
  BY <1>1, <1>2, <1>3 DEF GraphInv
<1>5. GraphInv'
  BY <1>1, <1>2, <1>4 DEF GraphInv, announcedVars
<1>6. JobsInv'
  <2>1. Takes(w, "announcing", [Job(job[w].message) EXCEPT !.outbox = <<"unit">>])
    BY <1>1, <1>2, AnnouncesTakes
  <2>2. QED
    BY <1>1, <2>1, JobsKept
<1>7. CountsInv'
  BY <1>1, <1>2 DEF CountsInv, countVars, historyVars
<1>8. QED
  BY <1>5, <1>6, <1>7 DEF TypeInv

\* The first of the announcements is made, or lost.
LEMMA TailTakes ==
    ASSUME JobsInv, NEW w \in Worker, pc[w] = "announcing", job[w].outbox # <<>>,
           job' = [job EXCEPT ![w].outbox = Tail(@), ![w].built = {}],
           UNCHANGED <<pc, institutions, nodes>>
    PROVE  JobsInv'
<1> DEFINE box == Tail(job[w].outbox)
           j == [job[w] EXCEPT !.outbox = box, !.built = {}]
<1>1. /\ job[w] \in Jobs /\ Sane(pc[w], job[w]) /\ job[w].message \in Message
      /\ job[w].person.employers \subseteq institutions
      /\ job[w].outbox \in Outboxes \cup {<<"unit">>} /\ job[w].outbox # <<>>
  BY JobFacts DEF Jobs
<1>2. /\ box \in Outboxes /\ (job[w].message.topic = "unit" => box \in {<<>>, <<"unit">>})
  BY <1>1, OutboxTails DEF Sane, Outboxes
<1> HIDE DEF box
<1>3. j \in Jobs /\ Sane("announcing", j) /\ j.person.employers \subseteq institutions /\ j.built = {}
  BY <1>1, <1>2 DEF Jobs, Sane
<1>4. job' = [job EXCEPT ![w] = j] /\ pc' = [pc EXCEPT ![w] = "announcing"]
  BY <1>1 DEF JobsInv, Jobs, box
<1>5. Takes(w, "announcing", j)
  BY <1>3, <1>4 DEF Takes, PC
<1>6. QED
  BY <1>5, JobsKept

\* A request of publications is built.
LEMMA BuildTypes ==
    ASSUME TypeInv, NEW w \in Worker, Build(w)
    PROVE  TypeInv'
<1> DEFINE b == {holds[job[w].message.agent]}
           j == [job[w] EXCEPT !.built = b]
<1>1. /\ GraphInv /\ CountsInv /\ JobsInv /\ pc[w] = "announcing" /\ job[w] \in Jobs
      /\ Sane(pc[w], job[w]) /\ job[w].person.employers \subseteq institutions
      /\ job[w].outbox \in Outboxes \cup {<<"unit">>} /\ job[w].outbox # <<>>
      /\ Head(job[w].outbox) = "publications"
      /\ job[w].message.agent \in (IF job[w].message.topic = "unit" THEN Unit ELSE Person)
  BY JobFacts DEF TypeInv, Build, Jobs
<1>2. b \subseteq SUBSET nodes /\ nodes \subseteq Identifier
  <2>1. job[w].message.topic # "unit"
    BY <1>1, OutboxTails DEF Sane
  <2>2. QED
    BY <1>1, <2>1 DEF GraphInv
<1> HIDE DEF b
<1>3. /\ j \in Jobs /\ job' = [job EXCEPT ![w] = j] /\ pc' = [pc EXCEPT ![w] = "announcing"]
      /\ j.message = job[w].message /\ j.person = job[w].person /\ j.left = job[w].left
      /\ j.outbox = job[w].outbox /\ j.built = b
  BY <1>1, <1>2 DEF Build, JobsInv, Jobs, b
<1> HIDE DEF j
<1>4. Sane("announcing", j)
  BY <1>1, <1>3 DEF Sane
<1>5. GraphInv' /\ UNCHANGED <<institutions, nodes>>
  BY <1>1, GraphKept DEF Build
<1>6. Takes(w, "announcing", j)
  BY <1>1, <1>2, <1>3, <1>4, <1>5 DEF Takes, PC
<1>7. CountsInv'
  BY <1>1 DEF CountsInv, Build, countVars, historyVars
<1>8. QED
  BY <1>1, <1>5, <1>6, <1>7, JobsKept DEF TypeInv

\* The steps of the announcements, and the failures.
LEMMA AnnounceTypes ==
    ASSUME TypeInv, NEW w \in Worker,
           \/ Announce(w) \/ AnnounceUnreadable(w) \/ Finish(w)
           \/ Fail(w) \/ LoseAnnouncement(w)
    PROVE  TypeInv'
<1> DEFINE p == job[w].message.agent
<1>1. /\ GraphInv /\ CountsInv /\ JobsInv /\ pc[w] # "idle" /\ job[w].message \in Message
      /\ Sane(pc[w], job[w]) /\ job[w].outbox \in Outboxes \cup {<<"unit">>}
      /\ p \in (IF job[w].message.topic = "unit" THEN Unit ELSE Person)
  BY JobFacts DEF TypeInv, Announce, AnnounceUnreadable, Finish, Fail, LoseAnnouncement, Jobs
<1>2. UNCHANGED graphVars
  BY DEF Announce, AnnounceUnreadable, Finish, Fail, LoseAnnouncement
<1>3. JobsInv'
  <2>1. CASE Announce(w) \/ LoseAnnouncement(w)
    BY <1>1, <1>2, <2>1, TailTakes DEF Announce, LoseAnnouncement, graphVars
  <2>2. CASE AnnounceUnreadable(w) \/ Finish(w) \/ Fail(w)
    BY <1>1, <1>2, <2>2, EndsTakes, JobsKept
       DEF AnnounceUnreadable, Finish, Fail, graphVars
  <2>3. QED
    BY <2>1, <2>2
<1>4. \A n \in DOMAIN job[w].outbox : job[w].outbox[n] \in {"publications", "created"} => p \in Person
  <2>1. job[w].outbox = <<"unit">> => \A n \in DOMAIN job[w].outbox : job[w].outbox[n] = "unit"
    OBVIOUS
  <2>2. job[w].outbox = <<>> => \A n \in DOMAIN job[w].outbox : FALSE
    OBVIOUS
  <2>3. QED
    BY <1>1, <2>1, <2>2 DEF Sane
<1>5. /\ requested' \in [Person -> SUBSET SUBSET nodes] /\ createdEvents' \in [Person -> Nat]
      /\ interrupted' \subseteq Person /\ silenced' \subseteq Person
  <2>1. CASE Announce(w)
    <3>1. job[w].outbox # <<>>
      BY <2>1 DEF Announce
    <3>2. Head(job[w].outbox) \in {"publications", "created"} => p \in Person
      BY <1>1, <3>1, OutboxTails DEF Sane
    <3>3. job[w].built \subseteq SUBSET nodes
      BY <1>1 DEF JobsInv
    <3>4. QED
      BY <1>1, <2>1, <3>2, <3>3
         DEF Announce, GraphInv, CountsInv, RequestOfPublications, CreatedEvent
  <2>2. CASE AnnounceUnreadable(w) \/ Finish(w)
    BY <1>1, <2>2 DEF AnnounceUnreadable, Finish, GraphInv, CountsInv, announcedVars, historyVars
  <2>3. CASE Fail(w) \/ LoseAnnouncement(w)
    BY <1>1, <1>4, <2>3
       DEF Fail, LoseAnnouncement, Interrupts, GraphInv, CountsInv, announcedVars
  <2>4. QED
    BY <2>1, <2>2, <2>3
<1>6. GraphInv'
  BY <1>1, <1>2, <1>5 DEF GraphInv, graphVars
<1>7. /\ messages' \in 0 .. MaxMessages /\ failures' \in 0 .. MaxFailures
      /\ requeued' \subseteq Message /\ UNCHANGED <<lost, unanswered, stored, contested>>
      /\ overtaken' \subseteq overtaken
  BY <1>1, RegistryAssumption
     DEF Announce, AnnounceUnreadable, Finish, Fail, LoseAnnouncement, Interrupts, CountsInv,
         countVars, historyVars
<1>8. QED
  BY <1>1, <1>3, <1>5, <1>6, <1>7 DEF TypeInv, CountsInv

\* The initial states.
LEMMA InitTypes == Init => TypeInv
<1> SUFFICES ASSUME Init PROVE TypeInv
  OBVIOUS
<1>1. JobsInv
  BY FreshJobs DEF Init, JobsInv, PC
<1>2. NoPerson \in PersonCopies
  BY DEF NoPerson, PersonCopies
<1>3. CountsInv
  BY <1>2, RegistryAssumption DEF Init, CountsInv
<1>4. GraphInv
  BY RegistryAssumption DEF Init, GraphInv
<1>5. QED
  BY <1>1, <1>3, <1>4 DEF TypeInv

\* Every step keeps the types.
LEMMA TypeStep == TypeInv /\ [Next]_vars => TypeInv'
<1> SUFFICES ASSUME TypeInv, [Next]_vars PROVE TypeInv'
  OBVIOUS
<1>1. ASSUME NEW w \in Worker, Receive(w) \/ Work(w) \/ Fail(w) \/ LoseAnnouncement(w)
      PROVE  TypeInv'
  BY <1>1, ReceiveTypes, EmployerTypes, CreateTypes, UpdateTypes, SwitchTypes, ReadTypes,
     ExistingTypes, UnitTypes, BuildTypes, AnnounceTypes DEF Work
<1>2. CASE UNCHANGED vars
  BY <1>2 DEF vars, TypeInv, GraphInv, CountsInv, JobsInv, graphVars, announcedVars, countVars,
              historyVars
<1>3. QED
  BY <1>1, <1>2 DEF Next

\* Types are right: links are between nodes that exist, and every identifier
\* that was requested is one.
THEOREM TypeCorrect == Spec => []TypeOK
<1>1. TypeInv => TypeOK
  BY DEF TypeInv, GraphInv, CountsInv, JobsInv, Sane, TypeOK
<1>2. QED
  BY <1>1, InitTypes, TypeStep, PTL DEF Spec

---------------------------------------------------------------------------
(* What a step of one worker leaves to the others. *)

Step(w) == Receive(w) \/ Work(w) \/ Fail(w) \/ LoseAnnouncement(w)

\* Nodes and people stay, and the other workers where they are.
LEMMA OthersKept ==
    ASSUME TypeInv, NEW w \in Worker, Step(w)
    PROVE  /\ nodes \subseteq nodes' /\ people \subseteq people'
           /\ \A v \in Worker \ {w} : pc'[v] = pc[v] /\ job'[v] = job[v]
<1>0. job \in [Worker -> Jobs] /\ pc \in [Worker -> PC]
  BY DEF TypeInv, JobsInv
<1>1. nodes \subseteq nodes' /\ people \subseteq people'
  BY DEF Step, Work, Receive, FindEmployer, RegisterEmployer, RegistryTimesOut, CreatePerson,
         CreateConflict, ReadExisting, UpdatePerson, UpdateAbsent, WithoutKey, ReadPerson,
         RefuseAuthentication, CreateUnit, UpdateUnit, FindUnit, SwitchUnit, Build, Announce,
         AnnounceUnreadable, Finish, Fail, LoseAnnouncement, Loses, graphVars
<1> SUFFICES ASSUME NEW v \in Worker \ {w} PROVE pc'[v] = pc[v] /\ job'[v] = job[v]
  BY <1>1
<1>2. CASE Receive(w)
  BY <1>0, <1>2 DEF Receive, Goes
<1>3. CASE FindEmployer(w) \/ RegisterEmployer(w)
  BY <1>0, <1>3 DEF FindEmployer, RegisterEmployer, Goes
<1>4. CASE CreatePerson(w) \/ UpdatePerson(w) \/ CreateUnit(w) \/ UpdateUnit(w)
  BY <1>0, <1>4 DEF CreatePerson, UpdatePerson, CreateUnit, UpdateUnit, Announces, Goes
<1>5. CASE \/ CreateConflict(w) \/ UpdateAbsent(w) \/ WithoutKey(w) \/ RefuseAuthentication(w)
           \/ FindUnit(w) \/ SwitchUnit(w) \/ RegistryTimesOut(w)
  BY <1>0, <1>5
     DEF CreateConflict, UpdateAbsent, WithoutKey, RefuseAuthentication, FindUnit, SwitchUnit,
         RegistryTimesOut, Loses, Ends, Becomes, Goes
<1>6. CASE ReadPerson(w) \/ ReadExisting(w)
  BY <1>0, <1>6 DEF ReadPerson, ReadExisting, Goes
<1>7. CASE \/ Build(w) \/ Announce(w) \/ AnnounceUnreadable(w) \/ Finish(w) \/ Fail(w)
           \/ LoseAnnouncement(w)
  BY <1>0, <1>7 DEF Build, Announce, AnnounceUnreadable, Finish, Fail, LoseAnnouncement, Ends, Goes
<1>8. QED
  BY <1>2, <1>3, <1>4, <1>5, <1>6, <1>7 DEF Step, Work

---------------------------------------------------------------------------
(* Messages that are given up. *)

\* Every message about a person that is given up has no local identifier, or
\* meets an identifier that some agent has, or names employers of which the
\* registry did not answer about one; a worker that is to give one up for an
\* update it retries met such an identifier before.
LEMMA LossStep == LossInv /\ [Next]_vars => LossInv'
<1> SUFFICES ASSUME LossInv, [Next]_vars PROVE LossInv'
  OBVIOUS
<1>0. TypeInv /\ TypeInv' /\ LossHasAReason /\ (\A p \in people : Key(p) \in nodes)
  BY TypeStep DEF LossInv
<1> DEFINE Reason(m) == \/ Key(m.agent) \notin m.identifiers \/ m.identifiers \cap nodes # {}
                        \/ m \in unanswered /\ m.employers # <<>>
           Met(w) == (pc[w] # "idle" /\ job[w].message.topic = "person"
                        /\ job[w].mode = "updated"
                        /\ (job[w].retry \/ job[w].message.event = "unchanged"))
                     => job[w].message.identifiers \cap nodes # {}
<1>1. \A w \in Worker : Met(w)
  BY DEF LossInv
<1>2. ASSUME NEW w \in Worker, Step(w)
      PROVE  LossInv'
  <2>0. /\ nodes \subseteq nodes' /\ job \in [Worker -> Jobs] /\ pc \in [Worker -> PC]
        /\ job[w] \in Jobs /\ lost \subseteq Message
        /\ \A v \in Worker \ {w} : pc'[v] = pc[v] /\ job'[v] = job[v]
    BY <1>0, <1>2, OthersKept DEF TypeInv, JobsInv, CountsInv
  <2>a. unanswered \subseteq unanswered'
    BY <1>2
       DEF Step, Work, Receive, FindEmployer, RegisterEmployer, RegistryTimesOut, CreatePerson,
           CreateConflict, ReadExisting, UpdatePerson, UpdateAbsent, WithoutKey, ReadPerson,
           RefuseAuthentication, CreateUnit, UpdateUnit, FindUnit, SwitchUnit, Build, Announce,
           AnnounceUnreadable, Finish, Fail, LoseAnnouncement, historyVars
  <2>1. pc[w] # "idle" /\ job[w].message.topic = "person" =>
            /\ job[w].person.identifiers = job[w].message.identifiers
            /\ ~ HasKey(w) => Key(job[w].message.agent) \notin job[w].message.identifiers
            /\ HasKey(w) /\ ~ Creatable(w) => job[w].message.identifiers \cap nodes # {}
    <3>1. ASSUME pc[w] # "idle", job[w].message.topic = "person"
          PROVE  job[w].person.identifiers = job[w].message.identifiers
      BY <1>0, <3>1 DEF TypeInv, JobsInv, Sane
    <3>2. QED
      BY <1>0, <3>1 DEF HasKey, Creatable
  <2>2. \A m \in lost' \ lost : Reason(m) \/ (m \in unanswered' /\ m.employers # <<>>)
    <3>1. CASE Loses(w) /\ pc[w] # "idle" /\ job[w].message.topic = "person"
      <4>1. \/ Reason(job[w].message)
            \/ job[w].message \in unanswered' /\ job[w].message.employers # <<>>
        <5>1. CASE CreateConflict(w) \/ WithoutKey(w)
          BY <2>1, <3>1, <5>1 DEF CreateConflict, WithoutKey
        <5>2. CASE UpdateAbsent(w)
          <6>1. job[w].retry \/ Upserts(w)
            BY <2>0, <3>1, <5>2 DEF UpdateAbsent, Loses, Ends, Goes, Writes
          <6>2. job[w].mode = "updated"
            BY <5>2 DEF UpdateAbsent, Writes
          <6>3. QED
            BY <1>1, <3>1, <6>1, <6>2 DEF Upserts
        <5>3. ~ RefuseAuthentication(w)
          BY <1>0, <3>1 DEF RefuseAuthentication, TypeInv, JobsInv, Sane
        <5>4. CASE SwitchUnit(w)
          BY <3>1, <5>4 DEF SwitchUnit, Writes
        <5>5. CASE lost' = lost
          BY <3>1, <5>5, <1>0 DEF Loses, LossHasAReason
        <5>6. CASE RegistryTimesOut(w)
          <6>1. job[w].message \in unanswered' /\ pc[w] = "registering"
            BY <5>6 DEF RegistryTimesOut
          <6>2. job[w].message.employers # <<>>
            BY <1>0, <6>1 DEF TypeInv, JobsInv, Sane
          <6>3. QED
            BY <6>1, <6>2
        <5>7. QED
          BY <1>2, <5>1, <5>2, <5>3, <5>4, <5>5, <5>6
             DEF Step, Work, Receive, FindEmployer, RegisterEmployer, CreatePerson, ReadExisting,
                 UpdatePerson, ReadPerson, CreateUnit, UpdateUnit, FindUnit, Build, Announce,
                 AnnounceUnreadable, Finish, Fail, LoseAnnouncement, historyVars
      <4>2. QED
        BY <3>1, <4>1 DEF Loses
    <3>2. CASE ~ (Loses(w) /\ pc[w] # "idle" /\ job[w].message.topic = "person")
      <4>1. lost' = lost
        BY <1>2, <3>2
           DEF Step, Work, Receive, FindEmployer, RegisterEmployer, RegistryTimesOut,
               CreatePerson, CreateConflict, ReadExisting, UpdatePerson, UpdateAbsent,
               WithoutKey, ReadPerson, RefuseAuthentication, CreateUnit, UpdateUnit, FindUnit,
               SwitchUnit, Build, Announce, AnnounceUnreadable, Finish, Fail, LoseAnnouncement,
               Loses, historyVars, Writes
      <4>2. QED
        BY <4>1
    <3>3. QED
      BY <3>1, <3>2
  <2>3. LossHasAReason'
    BY <1>0, <2>0, <2>a, <2>2 DEF LossHasAReason
  <2>4. \A p \in people' : Key(p) \in nodes'
    <3>1. CASE CreatePerson(w)
      BY <1>0, <3>1 DEF CreatePerson, Creatable, HasKey
    <3>2. CASE ~ CreatePerson(w)
      <4>1. people' = people
        BY <1>2, <3>2
           DEF Step, Work, Receive, FindEmployer, RegisterEmployer, RegistryTimesOut,
               CreateConflict, ReadExisting, UpdatePerson, UpdateAbsent, WithoutKey, ReadPerson,
               RefuseAuthentication, CreateUnit, UpdateUnit, FindUnit, SwitchUnit, Build,
               Announce, AnnounceUnreadable, Finish, Fail, LoseAnnouncement, Loses, graphVars
      <4>2. QED
        BY <1>0, <2>0, <4>1
    <3>3. QED
      BY <3>1, <3>2
  <2>5. ASSUME NEW v \in Worker, v # w PROVE Met(v)'
    BY <1>1, <2>0, <2>5
  <2>6. Met(w)'
    <3> SUFFICES ASSUME pc'[w] # "idle", job'[w].message.topic = "person", job'[w].mode = "updated",
                        job'[w].retry \/ job'[w].message.event = "unchanged"
                 PROVE  job'[w].message.identifiers \cap nodes' # {}
      OBVIOUS
    <3>1. ~ Receive(w)
      <4>1. ASSUME NEW m \in Message, job' = [job EXCEPT ![w] = Job(m)]
            PROVE  FALSE
        <5>1. job'[w] = Job(m)
          BY <2>0, <4>1
        <5>2. Job(m).mode = Job(m).message.event /\ ~ Job(m).retry
          BY DEF Job
        <5>3. QED
          BY <5>1, <5>2
      <4>2. QED
        BY <4>1 DEF Receive
    <3>2. CASE FindEmployer(w) \/ RegisterEmployer(w) \/ ReadExisting(w)
      <4>1. pc[w] # "idle" /\ job'[w].message = job[w].message /\ job'[w].mode = job[w].mode
            /\ job'[w].retry = job[w].retry
        BY <2>0, <3>2 DEF FindEmployer, RegisterEmployer, ReadExisting, Writes, Jobs
      <4>2. QED
        BY <1>1, <2>0, <4>1
    <3>3. ~ (CreatePerson(w) \/ UpdatePerson(w) \/ CreateUnit(w) \/ UpdateUnit(w))
      <4>1. \A box : ~ Announces(w, box)
        BY <2>0 DEF Announces, Job
      <4>2. QED
        BY <4>1 DEF CreatePerson, UpdatePerson, CreateUnit, UpdateUnit
    <3>4. CASE CreateConflict(w)
      <4>1. job'[w].message = job[w].message /\ pc[w] # "idle"
        BY <2>0, <3>4 DEF CreateConflict, Loses, Ends, Goes, Becomes, Jobs, Writes
      <4>2. QED
        BY <2>0, <2>1, <3>4, <4>1 DEF CreateConflict
    <3>5. ~ (UpdateAbsent(w) \/ WithoutKey(w) \/ RefuseAuthentication(w) \/ RegistryTimesOut(w))
      BY <2>0 DEF UpdateAbsent, WithoutKey, RefuseAuthentication, RegistryTimesOut, Loses, Ends,
                  Goes, Becomes, Jobs
    <3>6. ~ (FindUnit(w) \/ SwitchUnit(w))
      <4>1. FindUnit(w) \/ SwitchUnit(w) => job[w].message.topic = "unit"
        BY DEF FindUnit, SwitchUnit, Writes
      <4>2. CASE Loses(w)
        BY <2>0, <4>2 DEF Loses, Ends, Goes
      <4>3. CASE ~ Loses(w)
        <5>1. FindUnit(w) \/ SwitchUnit(w) => job'[w].message = job[w].message
          BY <2>0, <4>3 DEF FindUnit, SwitchUnit, Becomes, Jobs
        <5>2. QED
          BY <4>1, <5>1
      <4>4. QED
        BY <4>2, <4>3
    <3>7. ~ ReadPerson(w)
      <4>1. ReadPerson(w) => /\ job[w].message.topic = "authenticate" 
                             /\ job'[w].message = job[w].message
        <5>1. pc[w] = "reading" => job[w].message.topic = "authenticate"
          BY <1>0 DEF TypeInv, JobsInv, Sane
        <5>2. ReadPerson(w) => job'[w].message = job[w].message
          BY <2>0 DEF ReadPerson, Jobs
        <5>3. QED
          BY <5>1, <5>2 DEF ReadPerson
      <4>2. QED
        BY <4>1
    <3>8. ~ (AnnounceUnreadable(w) \/ Finish(w) \/ Fail(w))
      BY <2>0 DEF AnnounceUnreadable, Finish, Fail, Ends, Goes
    <3>9. CASE Build(w) \/ Announce(w) \/ LoseAnnouncement(w)
      <4>1. pc[w] # "idle" /\ job'[w].message = job[w].message /\ job'[w].mode = job[w].mode
            /\ job'[w].retry = job[w].retry
        BY <2>0, <3>9 DEF Build, Announce, LoseAnnouncement, Jobs
      <4>2. QED
        BY <1>1, <2>0, <4>1
    <3>10. QED
      BY <1>2, <3>1, <3>2, <3>3, <3>4, <3>5, <3>6, <3>7, <3>8, <3>9 DEF Step, Work
  <2>7. QED
    BY <1>0, <2>3, <2>4, <2>5, <2>6 DEF LossInv
<1>3. CASE UNCHANGED vars
  BY <1>0, <1>1, <1>3 DEF vars, graphVars, historyVars, LossInv, LossHasAReason
<1>4. QED
  BY <1>2, <1>3 DEF Next, Step

\* A message about a person is only given up for the want of a local
\* identifier, because some agent has an identifier of its person, or because
\* the registry did not answer in time about one of its employers.
THEOREM LossesHaveAReason == Spec => []LossHasAReason
<1>1. Init => LossInv
  BY InitTypes DEF Init, LossInv, LossHasAReason
<1>2. LossInv => LossHasAReason
  BY DEF LossInv
<1>3. QED
  BY <1>1, <1>2, LossStep, PTL DEF Spec

---------------------------------------------------------------------------
(* What is announced. *)

\* A step of a worker only changes what it has itself to announce.
LEMMA OwingOthers ==
    ASSUME TypeInv, NEW w \in Worker, Step(w)
    PROVE  \A p, boxes : \A v \in Worker \ {w} : v \in Owing(p, boxes)' <=> v \in Owing(p, boxes)
BY OthersKept DEF Owing

\* Most steps leave people, their identifiers and what is announced, and
\* nothing for the worker to announce about a person.
LEMMA QuietStep ==
    ASSUME TypeInv, NEW w \in Worker, Step(w),
           ~ CreatePerson(w), ~ UpdatePerson(w), ~ Build(w), ~ Announce(w), ~ Fail(w),
           ~ LoseAnnouncement(w)
    PROVE  /\ UNCHANGED <<people, holds, requested, createdEvents, interrupted, silenced>>
           /\ \A p, boxes : <<>> \notin boxes /\ <<"unit">> \notin boxes =>
                 w \notin Owing(p, boxes) /\ w \notin Owing(p, boxes)'
<1>0. job \in [Worker -> Jobs] /\ pc \in [Worker -> PC]
  BY DEF TypeInv, JobsInv
<1>1. UNCHANGED <<people, holds, requested, createdEvents, interrupted, silenced>>
  BY DEF Step, Work, Receive, FindEmployer, RegisterEmployer, RegistryTimesOut, CreateConflict,
         ReadExisting, UpdateAbsent, WithoutKey, ReadPerson, RefuseAuthentication, CreateUnit,
         UpdateUnit, FindUnit, SwitchUnit, AnnounceUnreadable, Finish, Loses, graphVars,
         announcedVars, historyVars
<1>2. pc[w] # "announcing" \/ job[w].outbox \in {<<>>, <<"unit">>}
  BY DEF Step, Work, Receive, FindEmployer, RegisterEmployer, RegistryTimesOut, CreateConflict,
         ReadExisting, UpdateAbsent, WithoutKey, ReadPerson, RefuseAuthentication, CreateUnit,
         UpdateUnit, FindUnit, SwitchUnit, AnnounceUnreadable, Finish, Writes
<1>3. pc'[w] # "announcing" \/ job'[w].message.topic = "unit"
  <2>1. CASE CreateUnit(w) \/ UpdateUnit(w)
    <3>1. job'[w].message = job[w].message
      BY <1>0, <2>1 DEF CreateUnit, UpdateUnit, Announces, Job
    <3>2. QED
      BY <2>1, <3>1 DEF CreateUnit, UpdateUnit, Writes
  <2>2. CASE \/ Receive(w) \/ FindEmployer(w) \/ RegisterEmployer(w) \/ ReadPerson(w)
             \/ ReadExisting(w)
    BY <1>0, <2>2 DEF Receive, FindEmployer, RegisterEmployer, ReadPerson, ReadExisting, Goes
  <2>3. CASE \/ CreateConflict(w) \/ UpdateAbsent(w) \/ WithoutKey(w) \/ RefuseAuthentication(w)
             \/ FindUnit(w) \/ SwitchUnit(w) \/ RegistryTimesOut(w) \/ AnnounceUnreadable(w)
             \/ Finish(w)
    BY <1>0, <2>3
       DEF CreateConflict, UpdateAbsent, WithoutKey, RefuseAuthentication, FindUnit, SwitchUnit,
           RegistryTimesOut, AnnounceUnreadable, Finish, Loses, Ends, Goes, Writes
  <2>4. QED
    BY <2>1, <2>2, <2>3 DEF Step, Work
<1>4. QED
  BY <1>1, <1>2, <1>3 DEF Owing

\* A person that is written is announced by the worker that wrote it.
LEMMA WriterOwes ==
    ASSUME TypeInv, NEW w \in Worker, NEW box \in Outboxes, Announces(w, box),
           job[w].message.topic # "unit"
    PROVE  \A p, boxes : w \in Owing(p, boxes)' <=> p = job[w].message.agent /\ box \in boxes
<1>1. pc'[w] = "announcing" /\ job'[w] = [Job(job[w].message) EXCEPT !.outbox = box]
  BY DEF Announces, Goes, TypeInv, JobsInv
<1>2. job'[w].message = job[w].message /\ job'[w].outbox = box
  BY <1>1 DEF Job
<1>3. job'[w].message.topic # "unit" /\ job'[w].message.agent = job[w].message.agent
  BY <1>2
<1>4. QED
  BY <1>1, <1>2, <1>3 DEF Owing

\* A request that is built is still to be made.
LEMMA BuildOwes ==
    ASSUME TypeInv, NEW w \in Worker, Build(w)
    PROVE  /\ UNCHANGED <<people, holds, requested, createdEvents, interrupted, silenced>>
           /\ \A p, boxes : w \in Owing(p, boxes)' <=> w \in Owing(p, boxes)
           /\ \A p \in Person : w \in Owing(p, Requesting) => holds[p] \in job'[w].built
<1>1. UNCHANGED <<people, holds, requested, createdEvents, interrupted, silenced>>
  BY DEF Build, graphVars, announcedVars, historyVars
<1>2. /\ job'[w].message = job[w].message /\ job'[w].outbox = job[w].outbox /\ pc' = pc
      /\ job'[w].built = {holds[job[w].message.agent]}
  BY DEF Build, TypeInv, JobsInv, Jobs
<1>3. \A p, boxes : w \in Owing(p, boxes)' <=> w \in Owing(p, boxes)
  BY <1>2 DEF Owing
<1>4. \A p \in Person : w \in Owing(p, Requesting) => holds[p] \in job'[w].built
  BY <1>2 DEF Owing
<1>5. QED
  BY <1>1, <1>3, <1>4

\* A worker that announces: the first announcement, if it is about a person.
LEMMA FirstAnnouncement ==
    ASSUME TypeInv, NEW w \in Worker, pc[w] = "announcing", job[w].outbox # <<>>
    PROVE  /\ job[w].outbox \in Outboxes \cup {<<"unit">>}
           /\ job[w].message.topic = "unit" => Head(job[w].outbox) = "unit"
           /\ job[w].message.topic # "unit" => /\ job[w].message.agent \in Person
                                               /\ job[w].outbox \in Outboxes
           /\ job' = [job EXCEPT ![w].outbox = Tail(@), ![w].built = {}] /\ pc' = pc =>
                 \A p, boxes : w \in Owing(p, boxes)' <=>
                     /\ job[w].message.topic # "unit" /\ job[w].message.agent = p
                     /\ Tail(job[w].outbox) \in boxes
<1>1. /\ job[w].outbox \in Outboxes \cup {<<"unit">>} /\ Sane("announcing", job[w])
      /\ job[w] \in Jobs /\ job \in [Worker -> Jobs]
      /\ job[w].message.agent \in (IF job[w].message.topic = "unit" THEN Unit ELSE Person)
  BY JobFacts DEF TypeInv, JobsInv, Jobs
<1>2. job[w].message.topic = "unit" => Head(job[w].outbox) = "unit"
  BY <1>1, OutboxTails DEF Sane
<1>3. ASSUME job' = [job EXCEPT ![w].outbox = Tail(@), ![w].built = {}], pc' = pc
      PROVE  \A p, boxes : w \in Owing(p, boxes)' <=>
                 /\ job[w].message.topic # "unit" /\ job[w].message.agent = p
                 /\ Tail(job[w].outbox) \in boxes
  <2>1. job'[w].message = job[w].message /\ job'[w].outbox = Tail(job[w].outbox)
    BY <1>1, <1>3 DEF Jobs
  <2>2. QED
    BY <1>3, <2>1 DEF Owing
<1>4. QED
  BY <1>1, <1>2, <1>3 DEF Sane

\* What a failure takes away is remembered.
LEMMA FailureIsNoted ==
    ASSUME TypeInv, NEW w \in Worker, Fail(w) \/ LoseAnnouncement(w), NEW p \in Person
    PROVE  /\ UNCHANGED <<people, holds, requested, createdEvents>>
           /\ interrupted \subseteq interrupted' /\ silenced \subseteq silenced'
           /\ w \in Owing(p, Creating) => p \in silenced'
           /\ w \in Owing(p, Requesting) => p \in interrupted'
           /\ w \in Owing(p, Creating)' => w \in Owing(p, Creating)
           /\ w \in Owing(p, Requesting)' => w \in Owing(p, Requesting)
<1>1. UNCHANGED <<people, holds, requested, createdEvents>>
  BY DEF Fail, LoseAnnouncement, graphVars, announcedVars
<1>2. interrupted \subseteq interrupted' /\ silenced \subseteq silenced'
  BY DEF Fail, LoseAnnouncement, Interrupts
<1>3. /\ \A box \in Creating : \E n \in DOMAIN box : box[n] = "created"
      /\ \A box \in Requesting : \E n \in DOMAIN box : box[n] = "publications"
  BY DEF Creating, Requesting
<1>4. w \in Owing(p, Creating) => p \in silenced'
  BY <1>3 DEF Owing, Fail, LoseAnnouncement, Interrupts
<1>5. w \in Owing(p, Requesting) => p \in interrupted'
  BY <1>3 DEF Owing, Fail, LoseAnnouncement, Interrupts
<1>6. CASE Fail(w)
  <2>1. pc'[w] = "idle"
    BY <1>6 DEF Fail, Ends, Goes, TypeInv, JobsInv
  <2>2. QED
    BY <1>1, <1>2, <1>4, <1>5, <2>1 DEF Owing
<1>7. CASE LoseAnnouncement(w)
  <2>1. /\ pc[w] = "announcing" /\ job[w].outbox # <<>>
        /\ job' = [job EXCEPT ![w].outbox = Tail(@), ![w].built = {}] /\ pc' = pc
    BY <1>7 DEF LoseAnnouncement
  <2>2. Tail(job[w].outbox) \in Creating => job[w].outbox \in Creating
    BY <2>1, FirstAnnouncement, OutboxTails
  <2>3. \A boxes : w \in Owing(p, boxes)' <=> /\ job[w].message.topic # "unit"
                                              /\ job[w].message.agent = p
                                              /\ Tail(job[w].outbox) \in boxes
    BY <2>1, FirstAnnouncement
  <2>4. \A boxes : w \in Owing(p, boxes) <=> /\ job[w].message.topic # "unit"
                                             /\ job[w].message.agent = p
                                             /\ job[w].outbox \in boxes
    BY <2>1 DEF Owing
  <2>5. job[w].message.topic # "unit" => job[w].outbox \in Outboxes
    BY <2>1, FirstAnnouncement
  <2>6. job[w].message.topic # "unit" => Tail(job[w].outbox) \notin Requesting
    BY <2>1, <2>5, OutboxTails
  <2>7. QED
    BY <1>1, <1>2, <1>4, <1>5, <2>2, <2>3, <2>4, <2>6
<1>8. QED
  BY <1>6, <1>7

\* The creation of a person has one event, published, lost or owed by one
\* worker.
LEMMA CreatedStep == CreatedInv /\ [Next]_vars => CreatedInv'
<1> SUFFICES ASSUME CreatedInv, [Next]_vars PROVE CreatedInv'
  OBVIOUS
<1>0. TypeInv /\ TypeInv' /\ createdEvents \in [Person -> Nat]
  BY TypeStep DEF CreatedInv, TypeInv, GraphInv
<1> DEFINE Once(p) ==
        /\ createdEvents[p] <= 1
        /\ \A v, w \in Owing(p, Creating) : v = w
        /\ Owing(p, Creating) # {} => createdEvents[p] = 0 /\ p \in people
        /\ createdEvents[p] # 0 => p \in people
        /\ p \in people \ silenced => createdEvents[p] = 1 \/ Owing(p, Creating) # {}
<1>1. \A p \in Person : Once(p)
  BY DEF CreatedInv
<1>2. ASSUME NEW w \in Worker, Step(w), NEW p \in Person
      PROVE  Once(p)'
  <2>0. /\ \A v \in Worker \ {w} : v \in Owing(p, Creating)' <=> v \in Owing(p, Creating)
        /\ people \subseteq people'
        /\ Owing(p, Creating) \subseteq Worker /\ Owing(p, Creating)' \subseteq Worker
    BY <1>0, <1>2, OwingOthers, OthersKept DEF Owing
  <2>1. CASE UNCHANGED createdEvents /\ w \notin Owing(p, Creating)
             /\ (w \in Owing(p, Creating)' => p \notin people)
             /\ (p \in people' => p \in people \/ w \in Owing(p, Creating)')
             /\ silenced \subseteq silenced' /\ (w \in Owing(p, Creating)' => p \in people')
    <3>1. w \in Owing(p, Creating)' => Owing(p, Creating) = {} /\ createdEvents[p] = 0
      BY <1>0, <1>1, <2>1
    <3>2. CASE w \in Owing(p, Creating)'
      <4>1. Owing(p, Creating)' = {w} /\ createdEvents'[p] = 0 /\ p \in people'
        BY <2>0, <2>1, <3>1, <3>2
      <4>2. QED
        BY <4>1
    <3>3. CASE w \notin Owing(p, Creating)'
      <4>1. Owing(p, Creating)' = Owing(p, Creating) /\ (p \in people' <=> p \in people)
        BY <2>0, <2>1, <3>3
      <4>2. QED
        BY <1>1, <2>1, <4>1
    <3>4. QED
      BY <3>2, <3>3
  <2>2. CASE CreatePerson(w)
    <3>1. w \notin Owing(p, Creating)
      BY <2>2 DEF CreatePerson, Writes, Owing
    <3>2. \E box \in Outboxes : box \in Creating /\ Announces(w, box)
      BY <2>2 DEF CreatePerson, Outboxes, Creating
    <3>3. w \in Owing(p, Creating)' <=> p = job[w].message.agent
      BY <1>0, <2>2, <3>2, WriterOwes DEF CreatePerson, Writes
    <3>4. /\ UNCHANGED <<createdEvents, silenced>> /\ people' = people \cup {job[w].message.agent}
          /\ job[w].message.agent \notin people
      BY <2>2 DEF CreatePerson, Creatable, announcedVars
    <3>5. QED
      BY <2>1, <3>1, <3>3, <3>4
  <2>3. CASE UpdatePerson(w)
    <3>1. w \notin Owing(p, Creating) /\ job[w].message.topic # "unit"
      BY <1>0, <2>3 DEF UpdatePerson, Owing, TypeInv, JobsInv, Sane
    <3>2. \E box \in Outboxes : box \notin Creating /\ Announces(w, box)
      <4>1. PICK box \in {<<>>, <<"publications">>} : Announces(w, box)
        BY <2>3 DEF UpdatePerson
      <4>2. box \in Outboxes /\ box \notin Creating
        BY <4>1 DEF Outboxes, Creating
      <4>3. QED
        BY <4>1, <4>2
    <3>3. w \notin Owing(p, Creating)'
      BY <1>0, <3>1, <3>2, WriterOwes
    <3>4. UNCHANGED <<createdEvents, silenced, people>>
      BY <2>3 DEF UpdatePerson
    <3>5. QED
      BY <2>1, <3>1, <3>3, <3>4
  <2>4. CASE Announce(w)
    <3>1. /\ pc[w] = "announcing" /\ job[w].outbox # <<>>
          /\ job' = [job EXCEPT ![w].outbox = Tail(@), ![w].built = {}] /\ pc' = pc
          /\ UNCHANGED <<people, silenced>>
          /\ createdEvents' = IF Head(job[w].outbox) = "created"
                              THEN CreatedEvent(job[w].message.agent) ELSE createdEvents
      BY <2>4 DEF Announce, graphVars
    <3>2. w \in Owing(p, Creating) <=> /\ job[w].message.topic # "unit"
                                       /\ job[w].message.agent = p /\ job[w].outbox \in Creating
      BY <3>1 DEF Owing
    <3>3. /\ job[w].outbox \in Outboxes \cup {<<"unit">>}
          /\ job[w].message.topic = "unit" => Head(job[w].outbox) = "unit"
          /\ w \in Owing(p, Creating)' <=> /\ job[w].message.topic # "unit"
                                           /\ job[w].message.agent = p
                                           /\ Tail(job[w].outbox) \in Creating
      BY <1>0, <3>1, FirstAnnouncement
    <3>4. CASE Head(job[w].outbox) = "created" /\ job[w].message.agent = p
      <4>1. w \in Owing(p, Creating) /\ w \notin Owing(p, Creating)'
        BY <3>1, <3>2, <3>3, <3>4, OutboxTails
      <4>2. createdEvents[p] = 0 /\ createdEvents'[p] = 1 /\ p \in people
        BY <1>0, <1>1, <3>1, <3>4, <4>1 DEF CreatedEvent
      <4>3. Owing(p, Creating)' = {}
        BY <1>1, <2>0, <4>1
      <4>4. QED
        BY <3>1, <4>2, <4>3
    <3>5. CASE Head(job[w].outbox) # "created" \/ job[w].message.agent # p
      <4>1. w \in Owing(p, Creating)' <=> w \in Owing(p, Creating)
        BY <3>1, <3>2, <3>3, <3>5, OutboxTails
      <4>2. Owing(p, Creating)' = Owing(p, Creating)
        BY <2>0, <4>1
      <4>3. createdEvents'[p] = createdEvents[p]
        BY <1>0, <3>1, <3>5 DEF CreatedEvent
      <4>4. QED
        BY <1>1, <3>1, <4>2, <4>3
    <3>6. QED
      BY <3>4, <3>5
  <2>5. CASE Fail(w) \/ LoseAnnouncement(w)
    <3>1. /\ UNCHANGED <<people, createdEvents>> /\ silenced \subseteq silenced'
          /\ w \in Owing(p, Creating) => p \in silenced'
          /\ w \in Owing(p, Creating)' => w \in Owing(p, Creating)
      BY <1>0, <2>5, FailureIsNoted
    <3>2. Owing(p, Creating)' \subseteq Owing(p, Creating)
      BY <2>0, <3>1
    <3>3. p \notin silenced' => Owing(p, Creating)' = Owing(p, Creating)
      BY <2>0, <3>1
    <3>4. QED
      BY <1>1, <3>1, <3>2, <3>3
  <2>a. CASE Build(w)
    <3>1. Owing(p, Creating)' = Owing(p, Creating)
      BY <1>0, <2>0, <2>a, BuildOwes
    <3>2. UNCHANGED <<people, createdEvents, silenced>>
      BY <1>0, <2>a, BuildOwes
    <3>3. QED
      BY <1>1, <3>1, <3>2
  <2>6. CASE /\ ~ CreatePerson(w) /\ ~ UpdatePerson(w) /\ ~ Build(w)
             /\ ~ Announce(w) /\ ~ Fail(w) /\ ~ LoseAnnouncement(w)
    <3>1. <<>> \notin Creating /\ <<"unit">> \notin Creating
      BY DEF Creating
    <3>2. QED
      BY <1>0, <1>2, <2>1, <2>6, <3>1, QuietStep
  <2>7. QED
    BY <2>2, <2>3, <2>4, <2>5, <2>6, <2>a
<1>3. CASE UNCHANGED vars
  BY <1>0, <1>1, <1>3
     DEF vars, graphVars, announcedVars, historyVars, CreatedInv, Owing
<1>4. QED
  <2> HIDE DEF Once
  <2>1. ASSUME NEW w \in Worker, Step(w) PROVE CreatedInv'
    <3>1. \A p \in Person : Once(p)'
      BY <1>2, <2>1
    <3>2. QED
      BY <1>0, <3>1 DEF CreatedInv, Once
  <2>2. QED
    BY <1>3, <2>1 DEF Next, Step

\* The creation of a person is announced once, whatever the workers that try
\* to create it at the same time, and unless a failure lost the event.
THEOREM CreationsAnnouncedOnce == Spec => []CreatedOnce
<1>1. Init => CreatedInv
  BY InitTypes DEF Init, CreatedInv, Owing
<1>2. CreatedInv => CreatedOnce
  <2> SUFFICES ASSUME CreatedInv, NEW p \in Person, Settled(p), p \notin silenced
               PROVE  createdEvents[p] = 1
    BY DEF CreatedInv, CreatedOnce
  <2>1. Owing(p, Creating) = {}
    BY DEF Settled, Busy, Owing
  <2>2. QED
    BY <2>1 DEF CreatedInv, Settled
<1>3. QED
  BY <1>1, <1>2, CreatedStep, PTL DEF Spec

---------------------------------------------------------------------------
(* Requests of publications. *)

\* A worker that reads a person to update it; the other steps only end such a
\* reading, and a person that is written has no reading that is not overtaken.
LEMMA UpdatingSteps ==
    ASSUME TypeInv, NEW w \in Worker, Step(w), NEW p \in Person, NEW v \in Updating(p)'
    PROVE  \/ v = w /\ ReadExisting(w) /\ p = job[w].message.agent
           \/ /\ v # w /\ v \in Updating(p) /\ job'[v] = job[v]
              /\ UpdatePerson(w) => p # job[w].message.agent
<1>0. /\ job \in [Worker -> Jobs] /\ pc \in [Worker -> PC] /\ job[w] \in Jobs
      /\ \A u \in Worker \ {w} : pc'[u] = pc[u] /\ job'[u] = job[u]
      /\ v \in Worker /\ pc'[v] = "updating" /\ v \notin overtaken'
      /\ job'[v].message.topic # "unit" /\ job'[v].message.agent = p
  BY OthersKept DEF TypeInv, JobsInv, Updating, Busy
<1>1. CASE v # w
  <2>1. overtaken \ {w} \subseteq overtaken'
    BY DEF Step, Work, Receive, FindEmployer, RegisterEmployer, RegistryTimesOut, CreatePerson,
           CreateConflict, ReadExisting, UpdatePerson, UpdateAbsent, WithoutKey, ReadPerson,
           RefuseAuthentication, CreateUnit, UpdateUnit, FindUnit, SwitchUnit, Build, Announce,
           AnnounceUnreadable, Finish, Fail, LoseAnnouncement, Loses, historyVars
  <2>2. v \in Updating(p) /\ job'[v] = job[v]
    BY <1>0, <1>1, <2>1 DEF Updating, Busy
  <2>3. UpdatePerson(w) => p # job[w].message.agent
    <3>1. v \in HasRead(p)
      BY <2>2 DEF Updating, HasRead
    <3>2. QED
      BY <1>0, <1>1, <3>1 DEF UpdatePerson
  <2>4. QED
    BY <1>1, <2>2, <2>3
<1>2. CASE v = w
  <2>1. CASE ReadExisting(w)
    <3>1. job'[w].message = job[w].message
      BY <1>0, <2>1 DEF ReadExisting, Jobs
    <3>2. QED
      BY <1>0, <1>2, <2>1, <3>1
  <2>2. CASE \/ Receive(w) \/ FindEmployer(w) \/ RegisterEmployer(w) \/ CreatePerson(w)
             \/ UpdatePerson(w) \/ ReadPerson(w) \/ CreateUnit(w) \/ UpdateUnit(w)
    BY <1>0, <1>2, <2>2
       DEF Receive, FindEmployer, RegisterEmployer, CreatePerson, UpdatePerson, ReadPerson,
           CreateUnit, UpdateUnit, Announces, Goes
  <2>3. CASE \/ CreateConflict(w) \/ UpdateAbsent(w) \/ WithoutKey(w) \/ RefuseAuthentication(w)
             \/ FindUnit(w) \/ SwitchUnit(w) \/ RegistryTimesOut(w)
    BY <1>0, <1>2, <2>3
       DEF CreateConflict, UpdateAbsent, WithoutKey, RefuseAuthentication, FindUnit, SwitchUnit,
           RegistryTimesOut, Loses, Ends, Goes, Writes
  <2>4. CASE \/ Build(w) \/ Announce(w) \/ AnnounceUnreadable(w) \/ Finish(w) \/ Fail(w)
             \/ LoseAnnouncement(w)
    BY <1>0, <1>2, <2>4
       DEF Build, Announce, AnnounceUnreadable, Finish, Fail, LoseAnnouncement, Ends, Goes
  <2>5. QED
    BY <2>1, <2>2, <2>3, <2>4 DEF Step, Work
<1>3. QED
  BY <1>1, <1>2

\* A worker that has still to request the publications of a person.
LEMMA WriterAsks ==
    ASSUME TypeInv, NEW w \in Worker, NEW box \in Requesting, Announces(w, box),
           job[w].message.topic # "unit", NEW p \in Person, p = job[w].message.agent
    PROVE  w \in Asking(p)'
<1>1. box \in Outboxes
  BY DEF Outboxes, Requesting
<1>2. w \in Owing(p, Requesting)'
  BY <1>1, WriterOwes
<1>3. job'[w].built = {}
  BY DEF Announces, Job, TypeInv, JobsInv
<1>4. QED
  BY <1>2, <1>3 DEF Asking

\* A step leaves to the other workers what they have to request of a person
\* whose identifiers it leaves.
LEMMA AskingOthers ==
    ASSUME TypeInv, NEW w \in Worker, Step(w), NEW p \in Person, holds'[p] = holds[p],
           NEW v \in Asking(p), v # w
    PROVE  v \in Asking(p)'
<1>1. v \in Worker \ {w} /\ v \in Owing(p, Requesting)
  BY DEF Asking, Owing
<1>2. v \in Owing(p, Requesting)' /\ job'[v] = job[v]
  BY <1>1, OwingOthers, OthersKept
<1>3. QED
  BY <1>2 DEF Asking

\* Publications were requested with the identifiers a person has, or a worker
\* is to request them again.
LEMMA HarvestStep == HarvestInv /\ [Next]_vars => HarvestInv'
<1> SUFFICES ASSUME HarvestInv, [Next]_vars PROVE HarvestInv'
  OBVIOUS
<1> DEFINE Well(p) == holds[p] \in requested[p] \/ Asking(p) # {}
           Read(p, v) == p \in people /\ job[v].existing.identifiers = holds[p]
<1>0. /\ TypeInv /\ TypeInv' /\ people \subseteq Person /\ people' \subseteq Person
      /\ holds \in [Person -> SUBSET nodes] /\ requested \in [Person -> SUBSET SUBSET nodes]
      /\ job \in [Worker -> Jobs] /\ pc \in [Worker -> PC]
  BY TypeStep DEF HarvestInv, TypeInv, GraphInv, JobsInv
<1>1. /\ \A p \in people \ interrupted : Well(p)
      /\ \A p \in Person : \A v \in Updating(p) : Read(p, v)
  BY DEF HarvestInv
<1>2. ASSUME NEW w \in Worker, Step(w), NEW p \in people' \ interrupted'
      PROVE  Well(p)'
  <2>0. /\ p \in Person
        /\ \A v \in Worker \ {w} : /\ v \in Owing(p, Requesting)' <=> v \in Owing(p, Requesting)
                                    /\ job'[v] = job[v]
        /\ Owing(p, Requesting) \subseteq Worker /\ Asking(p) \subseteq Worker
    BY <1>0, <1>2, OwingOthers, OthersKept DEF Owing, Asking
  <2>1. CASE /\ p \in people \ interrupted /\ requested'[p] = requested[p] /\ holds'[p] = holds[p]
             /\ w \in Asking(p) => w \in Asking(p)'
    <3>1. \A v \in Asking(p) : v # w => v \in Asking(p)'
      BY <1>0, <1>2, <2>0, <2>1, AskingOthers
    <3>2. QED
      BY <1>1, <2>0, <2>1, <3>1
  <2>2. CASE CreatePerson(w) /\ p = job[w].message.agent
    <3>1. ~ Upserts(w)
      BY <1>2, <2>2 DEF CreatePerson
    <3>2. Announces(w, <<"publications", "created">>)
      BY <2>2, <3>1 DEF CreatePerson
    <3>3. <<"publications", "created">> \in Requesting
      BY DEF Requesting
    <3>4. QED
      BY <1>0, <2>0, <2>2, <3>2, <3>3, WriterAsks DEF CreatePerson, Writes
  <2>3. CASE CreatePerson(w) /\ p # job[w].message.agent
    <3>1. w \notin Asking(p)
      BY <2>3 DEF CreatePerson, Writes, Owing, Asking
    <3>2. p \in people \ interrupted /\ requested' = requested /\ holds'[p] = holds[p]
      BY <1>0, <1>2, <2>3 DEF CreatePerson, announcedVars
    <3>3. QED
      BY <2>1, <3>1, <3>2
  <2>4. CASE UpdatePerson(w) /\ p # job[w].message.agent
    <3>1. w \notin Asking(p)
      BY <2>4 DEF UpdatePerson, Owing, Asking
    <3>2. p \in people \ interrupted /\ requested'[p] = requested[p] /\ holds'[p] = holds[p]
      BY <1>0, <1>2, <2>0, <2>4 DEF UpdatePerson
    <3>3. QED
      BY <2>1, <3>1, <3>2
  <2>5. CASE UpdatePerson(w) /\ p = job[w].message.agent
    <3>0. job[w].message.topic # "unit" /\ w \in Busy(p)
      BY <1>0, <2>5 DEF UpdatePerson, TypeInv, JobsInv, Sane, Busy
    <3>1. CASE Changed(job[w].existing, job[w].person)
      <4>1. ~ Upserts(w)
        BY <1>2, <2>5, <3>1 DEF UpdatePerson
      <4>2. Announces(w, <<"publications">>) /\ <<"publications">> \in Requesting
        BY <2>5, <3>1, <4>1 DEF UpdatePerson, Requesting
      <4>3. QED
        BY <1>0, <2>0, <2>5, <3>0, <4>2, WriterAsks
    <3>2. CASE ~ Changed(job[w].existing, job[w].person)
      <4>1. w \notin overtaken /\ p \in people \ interrupted
        BY <1>2, <2>5, <3>2 DEF UpdatePerson
      <4>2. w \in Updating(p)
        BY <2>5, <3>0, <4>1 DEF UpdatePerson, Updating
      <4>3. holds[p] = job[w].person.identifiers
        BY <1>1, <2>0, <3>2, <4>2 DEF Changed
      <4>4. holds'[p] = holds[p] /\ holds' = holds
        BY <1>0, <2>0, <2>5, <4>3 DEF UpdatePerson
      <4>5. requested' = requested /\ w \notin Asking(p)
        BY <2>5, <4>4 DEF UpdatePerson, Asking, Owing
      <4>6. QED
        BY <2>1, <4>1, <4>4, <4>5
    <3>3. QED
      BY <3>1, <3>2
  <2>6. CASE Announce(w)
    <3>1. /\ pc[w] = "announcing" /\ job[w].outbox # <<>>
          /\ job' = [job EXCEPT ![w].outbox = Tail(@), ![w].built = {}] /\ pc' = pc
          /\ UNCHANGED <<people, holds>>
          /\ IF Head(job[w].outbox) = "publications"
             THEN /\ job[w].built # {}
                  /\ requested' = RequestOfPublications(job[w].message.agent, job[w].built)
                  /\ interrupted' = IF holds[job[w].message.agent] \in job[w].built
                                    THEN interrupted \ {job[w].message.agent} ELSE interrupted
             ELSE UNCHANGED <<requested, interrupted>>
      BY <2>6 DEF Announce, graphVars
    <3>2. CASE Head(job[w].outbox) = "publications" /\ job[w].message.agent = p
      <4>1. requested'[p] = requested[p] \cup job[w].built /\ holds' = holds
        BY <1>0, <2>0, <3>1, <3>2 DEF RequestOfPublications
      <4>2. CASE holds[p] \in job[w].built
        BY <4>1, <4>2
      <4>3. CASE holds[p] \notin job[w].built
        <5>1. w \notin Asking(p) /\ p \in people \ interrupted
          BY <1>2, <3>1, <3>2, <4>3 DEF Asking
        <5>2. \A v \in Asking(p) : v # w => v \in Asking(p)'
          BY <1>0, <1>2, <2>0, <4>1, AskingOthers
        <5>3. QED
          BY <1>1, <2>0, <4>1, <5>1, <5>2
      <4>4. QED
        BY <4>2, <4>3
    <3>3. CASE Head(job[w].outbox) # "publications" \/ job[w].message.agent # p
      <4>1. w \notin Asking(p)
        BY <1>0, <3>1, <3>3, FirstAnnouncement, OutboxTails DEF Owing, Asking
      <4>2. p \in people \ interrupted /\ requested'[p] = requested[p] /\ holds' = holds
        BY <1>0, <1>2, <2>0, <3>1, <3>3 DEF RequestOfPublications
      <4>3. QED
        BY <2>1, <4>1, <4>2
    <3>4. QED
      BY <3>2, <3>3
  <2>7. CASE Fail(w) \/ LoseAnnouncement(w)
    <3>1. /\ UNCHANGED <<people, holds, requested>> /\ interrupted \subseteq interrupted'
          /\ w \in Owing(p, Requesting) => p \in interrupted'
      BY <1>0, <2>0, <2>7, FailureIsNoted
    <3>2. w \notin Asking(p)
      BY <1>2, <3>1 DEF Asking
    <3>3. QED
      BY <1>2, <2>1, <3>1, <3>2
  <2>8. CASE Build(w)
    <3>1. /\ UNCHANGED <<people, holds, requested, interrupted>>
          /\ w \in Owing(p, Requesting)' <=> w \in Owing(p, Requesting)
          /\ w \in Owing(p, Requesting) => holds[p] \in job'[w].built
      BY <1>0, <2>0, <2>8, BuildOwes
    <3>2. w \in Asking(p) => w \in Asking(p)'
      BY <3>1 DEF Asking
    <3>3. QED
      BY <1>2, <2>1, <3>1, <3>2
  <2>9. CASE /\ ~ CreatePerson(w) /\ ~ UpdatePerson(w) /\ ~ Build(w)
             /\ ~ Announce(w) /\ ~ Fail(w) /\ ~ LoseAnnouncement(w)
    <3>1. <<>> \notin Requesting /\ <<"unit">> \notin Requesting
      BY DEF Requesting
    <3>2. w \notin Owing(p, Requesting) /\ UNCHANGED <<people, holds, requested, interrupted>>
      BY <1>0, <1>2, <2>9, <3>1, QuietStep
    <3>3. QED
      BY <1>2, <2>1, <3>2 DEF Asking
  <2>10. QED
    BY <2>2, <2>3, <2>4, <2>5, <2>6, <2>7, <2>8, <2>9
<1>3. ASSUME NEW w \in Worker, Step(w), NEW p \in Person, NEW v \in Updating(p)'
      PROVE  Read(p, v)'
  <2>1. CASE v = w /\ ReadExisting(w) /\ p = job[w].message.agent
    <3>1. PICK unit, employer : job' = [job EXCEPT ![w].existing = PersonRead(p, unit, employer)]
      BY <2>1 DEF ReadExisting
    <3>2. job'[w].existing = PersonRead(p, unit, employer)
      BY <1>0, <3>1 DEF Jobs
    <3>3. job'[w].existing.identifiers = holds[p]
      BY <3>2 DEF PersonRead
    <3>4. QED
      BY <2>1, <3>3 DEF ReadExisting, graphVars
  <2>2. CASE /\ v # w /\ v \in Updating(p) /\ job'[v] = job[v]
             /\ UpdatePerson(w) => p # job[w].message.agent
    <3>1. Read(p, v) /\ people \subseteq people'
      BY <1>0, <1>1, <1>3, <2>2, OthersKept
    <3>2. holds'[p] = holds[p]
      <4>1. CASE CreatePerson(w) \/ UpdatePerson(w)
        <5>1. p # job[w].message.agent
          BY <2>2, <3>1, <4>1 DEF CreatePerson, Creatable
        <5>2. QED
          BY <1>0, <4>1, <5>1 DEF CreatePerson, UpdatePerson
      <4>2. CASE ~ CreatePerson(w) /\ ~ UpdatePerson(w)
        BY <1>3, <4>2
           DEF Step, Work, Receive, FindEmployer, RegisterEmployer, RegistryTimesOut,
               CreateConflict, ReadExisting, UpdateAbsent, WithoutKey, ReadPerson,
               RefuseAuthentication, CreateUnit, UpdateUnit, FindUnit, SwitchUnit, Build,
               Announce, AnnounceUnreadable, Finish, Fail, LoseAnnouncement, Loses, graphVars
      <4>3. QED
        BY <4>1, <4>2
    <3>3. QED
      BY <2>2, <3>1, <3>2
  <2>3. QED
    BY <1>0, <1>3, <2>1, <2>2, UpdatingSteps
<1>4. CASE UNCHANGED vars
  BY <1>0, <1>1, <1>4
     DEF vars, graphVars, announcedVars, historyVars, HarvestInv, Owing, Asking, Updating, Busy
<1>5. QED
  <2> HIDE DEF Well, Read
  <2>1. ASSUME NEW w \in Worker, Step(w) PROVE HarvestInv'
    <3>1. \A p \in people' \ interrupted' : Well(p)'
      BY <1>2, <2>1
    <3>2. \A p \in Person : \A v \in Updating(p)' : Read(p, v)'
      BY <1>3, <2>1
    <3>3. QED
      BY <1>0, <3>1, <3>2 DEF HarvestInv, Well, Read
  <2>2. QED
    BY <1>4, <2>1 DEF Next, Step

\* Publications were requested with the identifiers a person has since it has
\* them, whichever messages met; only a failure, a message of type unchanged,
\* or an update that saw no change because another worker wrote the person
\* after it was read, leaves them to the next change.
THEOREM HarvestsFollowIdentifiers == Spec => []HarvestFollowsIdentifiers
<1>1. Init => HarvestInv
  BY InitTypes DEF Init, HarvestInv, Updating, Busy
<1>2. HarvestInv => HarvestFollowsIdentifiers
  <2> SUFFICES ASSUME HarvestInv, NEW p \in Person \ interrupted, Settled(p)
               PROVE  holds[p] \in requested[p]
    BY DEF HarvestFollowsIdentifiers
  <2>1. Asking(p) = {}
    BY DEF Settled, Busy, Owing, Asking
  <2>2. QED
    BY <2>1 DEF HarvestInv, Settled
<1>3. QED
  BY <1>1, <1>2, HarvestStep, PTL DEF Spec

---------------------------------------------------------------------------
(* What is stored of the messages of the directory. *)

StoredWell(p) ==
    /\ stored[p].identifiers \subseteq holds[p]
    /\ stored[p].units \subseteq memberOf[p]
    /\ stored[p].employers \subseteq employedAt[p]

\* A step that is not the writing of a person leaves people as they are, and
\* no worker has read a person but those that had, and the one that reads.
LEMMA OnlyReaders ==
    ASSUME TypeInv, NEW w \in Worker, Step(w), ~ CreatePerson(w), ~ UpdatePerson(w)
    PROVE  /\ UNCHANGED <<people, holds, memberOf, employedAt, stored, contested>>
           /\ overtaken \ {w} \subseteq overtaken'
           /\ \A p : w \in HasRead(p)' => /\ ReadPerson(w) \/ ReadExisting(w)
                                        /\ p = job[w].message.agent
<1>0. job \in [Worker -> Jobs] /\ pc \in [Worker -> PC] /\ job[w] \in Jobs /\ Sane(pc[w], job[w])
  BY DEF TypeInv, JobsInv
<1>1. /\ UNCHANGED <<people, holds, memberOf, employedAt, stored, contested>>
      /\ overtaken \ {w} \subseteq overtaken'
  BY DEF Step, Work, Receive, FindEmployer, RegisterEmployer, RegistryTimesOut, CreateConflict,
         ReadExisting, UpdateAbsent, WithoutKey, ReadPerson, RefuseAuthentication, CreateUnit,
         UpdateUnit, FindUnit, SwitchUnit, Build, Announce, AnnounceUnreadable, Finish, Fail,
         LoseAnnouncement, Loses, Interrupts, graphVars, announcedVars, historyVars
<1>2. CASE ReadPerson(w) \/ ReadExisting(w)
  <2>1. job'[w].message = job[w].message
    BY <1>0, <1>2 DEF ReadPerson, ReadExisting, Jobs
  <2>2. QED
    BY <1>1, <1>2, <2>1 DEF HasRead, Busy
<1>3. CASE ~ ReadPerson(w) /\ ~ ReadExisting(w)
  <2>1. pc'[w] # "updating" /\ (pc'[w] # "writing" \/ job'[w].message.topic # "authenticate")
    <3>1. CASE Receive(w)
      <4>1. PICK m \in Message : /\ job' = [job EXCEPT ![w] = Job(m)]
                                 /\ Goes(w, IF m.topic = "authenticate" THEN "reading" ELSE "writing")
        BY <3>1 DEF Receive
      <4>2. job'[w].message = m
        BY <1>0, <4>1 DEF Job
      <4>3. QED
        BY <1>0, <4>1, <4>2 DEF Goes
    <3>2. CASE FindEmployer(w) \/ RegisterEmployer(w)
      <4>1. job'[w].message = job[w].message /\ job[w].left # <<>>
        BY <1>0, <3>2 DEF FindEmployer, RegisterEmployer, Jobs, Sane
      <4>2. job[w].message.topic = "person"
        BY <1>0, <3>2, <4>1 DEF Sane
      <4>3. pc'[w] # "updating"
        BY <1>0, <3>2 DEF FindEmployer, RegisterEmployer, Goes
      <4>4. QED
        BY <4>1, <4>2, <4>3
    <3>3. CASE CreateUnit(w) \/ UpdateUnit(w)
      BY <1>0, <3>3 DEF CreateUnit, UpdateUnit, Announces, Goes
    <3>4. CASE \/ CreateConflict(w) \/ UpdateAbsent(w) \/ WithoutKey(w)
               \/ RefuseAuthentication(w) \/ FindUnit(w) \/ SwitchUnit(w) \/ RegistryTimesOut(w)
      <4>1. CASE Loses(w)
        BY <1>0, <4>1 DEF Loses, Ends, Goes
      <4>2. CASE ~ Loses(w)
        <5>1. /\ job[w].message.topic \in {"person", "unit"} /\ pc'[w] = "writing"
              /\ job'[w].message = job[w].message
          BY <1>0, <3>4, <4>2
             DEF CreateConflict, UpdateAbsent, WithoutKey, RefuseAuthentication, FindUnit,
                 SwitchUnit, RegistryTimesOut, Becomes, Writes, Jobs
        <5>2. QED
          BY <5>1
      <4>3. QED
        BY <4>1, <4>2
    <3>5. CASE \/ Build(w) \/ Announce(w) \/ AnnounceUnreadable(w) \/ Finish(w) \/ Fail(w)
               \/ LoseAnnouncement(w)
      BY <1>0, <3>5
         DEF Build, Announce, AnnounceUnreadable, Finish, Fail, LoseAnnouncement, Ends, Goes
    <3>6. QED
      BY <1>3, <3>1, <3>2, <3>3, <3>4, <3>5 DEF Step, Work
  <2>2. QED
    BY <1>1, <2>1 DEF HasRead, Busy
<1>4. QED
  BY <1>2, <1>3

\* An authentication reads a copy with all the directory left of the person,
\* but for the identifiers of the type it authenticates.
LEMMA ReadUpToDate ==
    ASSUME TypeInv, NEW w \in Worker, ReadPerson(w),
           stored[job[w].message.agent].identifiers \subseteq holds[job[w].message.agent]
    PROVE  UpToDate(job[w].message.agent, job'[w].person)
<1> DEFINE p == job[w].message.agent
<1>1. PICK i \in job[w].message.identifiers, unit \in FirstRow(memberOf[p]),
            employer \in FirstRow(employedAt[p]) :
        job' = [job EXCEPT
                ![w].mode = "updated",
                ![w].person =
                    [identifiers |-> (holds[p] \ SameType(i, holds[p])) \cup {i},
                     flagged |-> ((holds[p] \cap authenticated) \ SameType(i, holds[p])) \cup {i},
                     units |-> unit, employers |-> employer]]
  BY DEF ReadPerson
<1> HIDE DEF p
<1>2. /\ job'[w].person.identifiers = (holds[p] \ SameType(i, holds[p])) \cup {i}
      /\ i \in job'[w].person.flagged
  BY <1>1 DEF TypeInv, JobsInv, Jobs
<1>3. \A k \in holds[p] : k \in SameType(i, holds[p]) => TypeOf(k) = TypeOf(i)
  BY DEF SameType
<1>4. \A k \in stored[p].identifiers :
         k \in job'[w].person.identifiers \/ \E j \in job'[w].person.flagged : TypeOf(k) = TypeOf(j)
  BY <1>2, <1>3 DEF p
<1>5. QED
  BY <1>4 DEF UpToDate, p

\* An update reads memberships and employments that the person has.
LEMMA ReadCompared ==
    ASSUME TypeInv, NEW w \in Worker, ReadExisting(w), NEW p, p = job[w].message.agent
    PROVE  Compared(p, w)' /\ job'[w].person = job[w].person
<1>1. PICK unit \in FirstRow(memberOf[p]), employer \in FirstRow(employedAt[p]) :
        job' = [job EXCEPT ![w].existing = PersonRead(p, unit, employer)]
  BY DEF ReadExisting
<1>2. job'[w].existing = PersonRead(p, unit, employer) /\ job'[w].person = job[w].person
  BY <1>1 DEF TypeInv, JobsInv, Jobs
<1>3. unit \subseteq memberOf[p] /\ employer \subseteq employedAt[p]
  BY <1>1 DEF FirstRow
<1>4. UNCHANGED <<memberOf, employedAt>>
  BY DEF ReadExisting, graphVars
<1>5. QED
  BY <1>2, <1>3, <1>4 DEF Compared, PersonRead

\* What is written of a person is all that the directory, or an up-to-date
\* copy, has of it, when it is compared with what the person still has.
LEMMA WrittenWell ==
    ASSUME TypeInv, NEW w \in Worker, NEW p, p = job[w].message.agent,
           \/ CreatePerson(w)
           \/ /\ UpdatePerson(w) /\ Compared(p, w)
              /\ job[w].message.topic # "person" => UpToDate(p, job[w].person)
    PROVE  StoredWell(p)'
<1> DEFINE incoming == job[w].person
           known == Known(incoming.units)
<1>0. /\ p \in Person /\ GraphInv /\ incoming \in PersonCopies
      /\ incoming.flagged \subseteq incoming.identifiers /\ known \subseteq incoming.units
      /\ stored \in [Person -> PersonCopies]
  <2>1. pc[w] # "idle" /\ job[w].message.topic # "unit"
    BY DEF CreatePerson, UpdatePerson, Writes, TypeInv, JobsInv, Sane
  <2>2. QED
    BY <2>1, JobFacts DEF TypeInv, CountsInv, Known
<1> HIDE DEF known, incoming
<1>1. CASE CreatePerson(w)
  <2>1. /\ holds'[p] = incoming.identifiers /\ memberOf'[p] = known
        /\ employedAt'[p] = incoming.employers
        /\ stored'[p] = [incoming EXCEPT !.units = known]
    BY <1>0, <1>1 DEF CreatePerson, GraphInv, incoming, known
  <2>2. QED
    BY <1>0, <2>1 DEF StoredWell, PersonCopies
<1>2. ASSUME UpdatePerson(w), Compared(p, w)
      PROVE  /\ incoming.identifiers \subseteq holds'[p]
             /\ memberOf'[p] = known \/ (memberOf'[p] = memberOf[p] /\ incoming.units \subseteq memberOf[p])
             /\ \/ employedAt'[p] = incoming.employers
                \/ employedAt'[p] = employedAt[p] /\ incoming.employers \subseteq employedAt[p]
  <2>1. incoming.identifiers \subseteq holds'[p]
    BY <1>0, <1>2 DEF UpdatePerson, GraphInv, incoming
  <2>2. memberOf'[p] = AfterUpdate(memberOf[p], job[w].existing.units, incoming.units, known)
    BY <1>0, <1>2 DEF UpdatePerson, GraphInv, incoming, known
  <2>3. employedAt'[p] = AfterUpdate(employedAt[p], job[w].existing.employers,
                                     incoming.employers, incoming.employers)
    BY <1>0, <1>2 DEF UpdatePerson, GraphInv, incoming
  <2>4. memberOf'[p] = known \/ (memberOf'[p] = memberOf[p] /\ incoming.units \subseteq memberOf[p])
    BY <1>2, <2>2, UpdatedLinks DEF Compared
  <2>5. \/ employedAt'[p] = incoming.employers
        \/ employedAt'[p] = employedAt[p] /\ incoming.employers \subseteq employedAt[p]
    BY <1>2, <2>3, UpdatedLinks DEF Compared
  <2>6. QED
    BY <2>1, <2>4, <2>5
<1>3. CASE UpdatePerson(w) /\ Compared(p, w) /\ job[w].message.topic = "person"
  <2>1. stored' = [stored EXCEPT ![p] = [incoming EXCEPT !.units = known]]
    BY <1>3 DEF UpdatePerson, incoming, known
  <2>2. /\ stored'[p].identifiers = incoming.identifiers /\ stored'[p].units = known
        /\ stored'[p].employers = incoming.employers
    BY <1>0, <2>1 DEF PersonCopies
  <2>3. QED
    BY <1>0, <1>2, <1>3, <2>2 DEF StoredWell
<1>4. CASE /\ UpdatePerson(w) /\ Compared(p, w)
           /\ job[w].message.topic # "person" /\ UpToDate(p, incoming)
  <2>1. stored' = [stored EXCEPT ![p] = Authenticated(@, incoming.flagged)]
    BY <1>4 DEF UpdatePerson, incoming
  <2>2. /\ stored'[p].identifiers = {i \in stored[p].identifiers :
                \A j \in incoming.flagged : TypeOf(i) # TypeOf(j)} \cup incoming.flagged
        /\ stored'[p].units = {} /\ stored'[p].employers = {}
    BY <1>0, <2>1 DEF PersonCopies, Authenticated
  <2>3. stored'[p].identifiers \subseteq incoming.identifiers
    BY <1>0, <1>4, <2>2 DEF UpToDate
  <2>4. QED
    BY <1>2, <1>4, <2>2, <2>3 DEF StoredWell
<1>5. QED
  BY <1>1, <1>3, <1>4 DEF incoming

\* Every step keeps what is stored of the people nobody wrote at the same
\* time, and what was read to write them up to date.
LEMMA StoredStep == StoredInv /\ [Next]_vars => StoredInv'
<1> SUFFICES ASSUME StoredInv, [Next]_vars PROVE StoredInv'
  OBVIOUS
<1> DEFINE Fresh(p, v) ==
        /\ p \in people
        /\ v \notin overtaken => /\ job[v].message.topic = "authenticate" => Copied(p, v)
                                 /\ pc[v] = "updating" => Compared(p, v)
<1>0. /\ TypeInv /\ TypeInv' /\ \A p \in people \ contested : StoredWell(p)
      /\ people \subseteq Person /\ people' \subseteq Person
  BY TypeStep DEF StoredInv, DirectoryIsStored, StoredWell, TypeInv, GraphInv
<1>1. ASSUME NEW p \in Person, NEW v \in HasRead(p) PROVE Fresh(p, v)
  <2>1. p \in people /\ v \in Busy(p)
    BY <1>1 DEF StoredInv, HasRead
  <2>2. v \notin overtaken /\ job[v].message.topic = "authenticate" => Copied(p, v)
    BY <1>1, <2>1 DEF StoredInv, Copying
  <2>3. v \notin overtaken /\ pc[v] = "updating" => Compared(p, v)
    BY <2>1 DEF StoredInv, Updating
  <2>4. QED
    BY <2>1, <2>2, <2>3
<1> DEFINE Goal == /\ \A p \in people' \ contested' : StoredWell(p)'
                   /\ \A p \in Person : \A v \in HasRead(p)' : Fresh(p, v)'
<1> SUFFICES Goal
  <2>1. ASSUME \A p \in Person : \A v \in HasRead(p)' : Fresh(p, v)'
        PROVE  /\ \A p \in Person : HasRead(p)' # {} => p \in people'
               /\ \A p \in people' : /\ \A v \in Copying(p)' : Copied(p, v)'
                                     /\ \A v \in Updating(p)' : Compared(p, v)'
    BY <1>0, <2>1 DEF Copying, Updating, HasRead
  <2>2. QED
    BY <1>0, <2>1 DEF StoredInv, DirectoryIsStored, StoredWell
<1>2. ASSUME NEW w \in Worker, Step(w), ~ CreatePerson(w), ~ UpdatePerson(w)
      PROVE  Goal
  <2>1. /\ UNCHANGED <<people, holds, memberOf, employedAt, stored, contested>>
        /\ overtaken \ {w} \subseteq overtaken'
        /\ \A p : w \in HasRead(p)' => /\ ReadPerson(w) \/ ReadExisting(w)
                                     /\ p = job[w].message.agent
        /\ \A v \in Worker \ {w} : pc'[v] = pc[v] /\ job'[v] = job[v]
    BY <1>0, <1>2, OnlyReaders, OthersKept
  <2>2. \A p \in people' \ contested' : StoredWell(p)'
    BY <1>0, <2>1 DEF StoredWell
  <2>3. ASSUME NEW p \in Person, NEW v \in HasRead(p)'
        PROVE  Fresh(p, v)'
    <3>1. CASE v # w
      <4>1. v \in HasRead(p) /\ job'[v] = job[v] /\ pc'[v] = pc[v] /\ (v \in overtaken => v \in overtaken')
        BY <2>1, <2>3, <3>1 DEF HasRead, Busy
      <4>2. QED
        BY <1>1, <2>1, <4>1 DEF UpToDate, Copied, Compared
    <3>2. CASE v = w /\ ReadPerson(w) /\ p = job[w].message.agent
      <4>1. p \in people /\ pc'[w] = "writing"
        BY <1>0, <3>2 DEF ReadPerson, Goes, TypeInv, JobsInv
      <4>2. p \notin contested => UpToDate(p, job'[w].person)
        BY <1>0, <3>2, <4>1, ReadUpToDate DEF StoredWell
      <4>3. QED
        BY <2>1, <3>2, <4>1, <4>2 DEF UpToDate, Copied
    <3>3. CASE v = w /\ ReadExisting(w) /\ p = job[w].message.agent
      <4>1. Compared(p, w)' /\ job'[w].person = job[w].person /\ p \in people
        BY <1>0, <3>3, ReadCompared DEF ReadExisting
      <4>2. job'[w].message = job[w].message /\ pc[w] = "writing" /\ overtaken' = overtaken
        BY <1>0, <3>3 DEF ReadExisting, Writes, historyVars, TypeInv, JobsInv, Jobs
      <4>3. job[w].message.topic = "authenticate" => w \in HasRead(p)
        BY <3>3, <4>2 DEF HasRead, Busy
      <4>4. w \notin overtaken /\ job[w].message.topic = "authenticate" => Copied(p, w)
        BY <1>1, <4>3
      <4>5. w \notin overtaken' /\ job'[w].message.topic = "authenticate" => Copied(p, w)'
        BY <2>1, <4>1, <4>2, <4>4 DEF Copied, UpToDate
      <4>6. QED
        BY <2>1, <3>3, <4>1, <4>5
    <3>4. QED
      BY <2>1, <2>3, <3>1, <3>2, <3>3
  <2>4. QED
    BY <2>2, <2>3
<1>3. ASSUME NEW w \in Worker, CreatePerson(w) \/ UpdatePerson(w)
      PROVE  Goal
  <2>0. /\ Step(w) /\ pc[w] \in {"writing", "updating"} /\ job[w].message.topic # "unit"
        /\ UpdatePerson(w) => pc[w] = "updating"
    BY <1>0, <1>3 DEF Step, Work, CreatePerson, UpdatePerson, Writes, TypeInv, JobsInv, Sane
  <2>1. PICK a \in Person : a = job[w].message.agent
    BY <1>0, <2>0, JobFacts DEF TypeInv
  <2>2. /\ \A v \in Worker \ {w} : pc'[v] = pc[v] /\ job'[v] = job[v]
        /\ pc'[w] = "announcing" /\ people \subseteq people' /\ people' \subseteq people \cup {a}
        /\ overtaken \ {w} \subseteq overtaken'
        /\ \A p \in Person \ {a} : /\ holds'[p] = holds[p] /\ memberOf'[p] = memberOf[p]
                                   /\ employedAt'[p] = employedAt[p] /\ stored'[p] = stored[p]
                                   /\ p \in contested' <=> p \in contested
    <3>1. \A v \in Worker \ {w} : pc'[v] = pc[v] /\ job'[v] = job[v]
      BY <1>0, <2>0, OthersKept
    <3>2. pc'[w] = "announcing" /\ people \subseteq people' /\ people' \subseteq people \cup {a}
      BY <1>0, <1>3, <2>1 DEF CreatePerson, UpdatePerson, Announces, Goes, TypeInv, JobsInv
    <3>3. overtaken \ {w} \subseteq overtaken'
      BY <1>3 DEF CreatePerson, UpdatePerson
    <3>4. ASSUME NEW p \in Person \ {a}
          PROVE  /\ holds'[p] = holds[p] /\ memberOf'[p] = memberOf[p]
                 /\ employedAt'[p] = employedAt[p] /\ stored'[p] = stored[p]
                 /\ p \in contested' <=> p \in contested
      <4>1. CASE CreatePerson(w)
        BY <1>0, <2>1, <4>1 DEF CreatePerson, TypeInv, GraphInv, CountsInv
      <4>2. CASE UpdatePerson(w)
        BY <1>0, <2>1, <4>2 DEF UpdatePerson, TypeInv, GraphInv, CountsInv
      <4>3. QED
        BY <1>3, <4>1, <4>2
    <3>5. QED
      BY <3>1, <3>2, <3>3, <3>4
  <2>3. \A p \in Person : HasRead(p)' = HasRead(p) \ {w}
    BY <2>2 DEF HasRead, Busy
  <2>4. ASSUME NEW p \in people' \ contested'
        PROVE  StoredWell(p)'
    <3>1. CASE p # a
      BY <1>0, <2>2, <2>4, <3>1 DEF StoredWell
    <3>2. CASE p = a /\ UpdatePerson(w)
      <4>1. w \notin overtaken /\ w \in HasRead(a)
        BY <2>0, <2>1, <2>4, <3>2 DEF UpdatePerson, HasRead, Busy
      <4>2. job[w].message.topic # "person" => job[w].message.topic = "authenticate" /\ a \notin contested
        BY <1>0, <2>0, <2>1, <2>4, <3>2, <4>1, JobFacts DEF UpdatePerson, TypeInv
      <4>3. Compared(a, w) /\ (job[w].message.topic # "person" => UpToDate(a, job[w].person))
        BY <1>1, <2>0, <3>2, <4>1, <4>2 DEF Copied
      <4>4. QED
        BY <1>0, <2>1, <3>2, <4>3, WrittenWell
    <3>3. CASE p = a /\ CreatePerson(w)
      BY <1>0, <2>1, <3>3, WrittenWell
    <3>4. QED
      BY <1>3, <3>1, <3>2, <3>3
  <2>5. ASSUME NEW p \in Person, NEW v \in HasRead(p)'
        PROVE  Fresh(p, v)'
    <3>1. /\ v \in HasRead(p) /\ v # w /\ job'[v] = job[v] /\ pc'[v] = pc[v] /\ p \in people
          /\ v \in overtaken => v \in overtaken'
      <4>1. v \in HasRead(p) /\ v # w /\ v \in Worker
        BY <2>3, <2>5 DEF HasRead, Busy
      <4>2. QED
        BY <1>1, <2>2, <4>1
    <3>2. CASE p = a
      <4>1. UpdatePerson(w)
        BY <1>3, <2>1, <3>1, <3>2 DEF CreatePerson, Creatable
      <4>2. v \in overtaken'
        BY <2>1, <3>1, <3>2, <4>1 DEF UpdatePerson
      <4>3. QED
        BY <2>2, <3>1, <4>2
    <3>3. CASE p # a
      BY <1>1, <2>2, <3>1, <3>3 DEF UpToDate, Copied, Compared
    <3>4. QED
      BY <3>2, <3>3
  <2>6. QED
    BY <2>4, <2>5
<1>4. CASE UNCHANGED vars
  <2>1. UNCHANGED <<people, holds, memberOf, employedAt, stored, contested, overtaken, pc, job>>
    BY <1>4 DEF vars, graphVars, historyVars
  <2>2. \A p \in people' \ contested' : StoredWell(p)'
    BY <1>0, <2>1 DEF StoredWell
  <2>3. ASSUME NEW p \in Person, NEW v \in HasRead(p)' PROVE Fresh(p, v)'
    <3>1. v \in HasRead(p)
      BY <2>1, <2>3 DEF HasRead, Busy
    <3>2. QED
      BY <1>1, <2>1, <3>1 DEF UpToDate, Copied, Compared
  <2>4. QED
    BY <2>2, <2>3
<1>5. QED
  <2> HIDE DEF Goal
  <2>1. QED
    BY <1>2, <1>3, <1>4 DEF Next, Step

\* A person has the identifiers, memberships and employments of the last
\* message about it, and the identifiers authenticated since, unless the last
\* worker that wrote it had read it before another one wrote it.
THEOREM DirectoryStored == Spec => []DirectoryIsStored
<1>1. Init => StoredInv
  BY InitTypes DEF Init, StoredInv, DirectoryIsStored, HasRead, Copying, Updating, Busy
<1>2. StoredInv => DirectoryIsStored
  BY DEF StoredInv
<1>3. QED
  BY <1>1, <1>2, StoredStep, PTL DEF Spec

=============================================================================
