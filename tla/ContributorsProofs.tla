------------------------- MODULE ContributorsProofs -------------------------
(***************************************************************************)
(* Proofs about the contributors of documents, for any records, people and *)
(* workers: they record the source people of the records.                  *)
(***************************************************************************)
EXTENDS ContributionsProofs

(***************************************************************************)
(* Source people are together if they were equivalent when the document    *)
(* was last recomputed.  A set of people gathers those of a document if    *)
(* source people that are together have one of them in common.             *)
(***************************************************************************)
PeopleOf(d) == ContributorsIn(sourceRecords[d])
ContributorsOf(d) == {r \in AnyPerson : <<d, r>> \in contributions}
Records(r, p) == <<r, p>> \in recordedBy
Together(d, p, q) == p = q \/ (d \notin regrouped /\ Same(p, q))
InCommon(S, p, q) == \E r \in S : Records(r, p) /\ Records(r, q)
Gathered(d, S) == \A p, q \in PeopleOf(d) : Together(d, p, q) => InCommon(S, p, q)
Recording(d, S) == \A r \in S : \E p \in PeopleOf(d) : Records(r, p)

(***************************************************************************)
(* The progress of a worker on a document.  Source people are still to     *)
(* match, or being matched, or recorded by people it linked; then those    *)
(* people get contributions.                                               *)
(***************************************************************************)
Matching(d, place, j) ==
    /\ place \in Grouping => j.cluster \subseteq PeopleOf(d)
    /\ place = "searching" => j.known \subseteq People
    /\ place \in {"merging", "linking"} => j.target \in People
    /\ \A p, q \in PeopleOf(d) : Together(d, p, q) =>
          \/ {p, q} \subseteq j.left
          \/ place \in Grouping /\ {p, q} \subseteq j.cluster
          \/ InCommon(LinkedPeople(j), p, q)
    /\ Recording(d, LinkedPeople(j))

Chosen(j) == LinkedPeople(j) \cup j.current
Contributing(d, j) ==
    /\ Gathered(d, Chosen(j)) /\ Recording(d, Chosen(j))
    /\ j.current \subseteq ContributorsOf(d)

Progress(d, place, j) ==
    /\ j.records = sourceRecords[d]
    /\ place \in Grouping \cup {"relating", "matching"} => j.current = {}
    /\ place \in Grouping \cup {"matching"} => Matching(d, place, j)
    /\ place \in {"contributing", "affiliating"} => Contributing(d, j)

(***************************************************************************)
(* A document that nothing disturbed has one worker at most, and when it   *)
(* has none, its contributors are the people of its source people.         *)
(***************************************************************************)
Followed(d) ==
    /\ d \notin orphans
    /\ Gathered(d, ContributorsOf(d)) /\ Recording(d, ContributorsOf(d))
DocumentOK(d) ==
    /\ \A v, w \in On(d) : v = w
    /\ \A w \in On(d) : Progress(d, pc[w], job[w])
    /\ On(d) = {} => Followed(d)
FollowInv ==
    /\ GhostInv
    /\ \A w \in Worker : pc[w] \in {"idle", "starting"} => job[w].document = ""
    /\ \A d \in Document \ disturbed : DocumentOK(d)

---------------------------------------------------------------------------
(* What a step that deletes people keeps of a document they are not of. *)

Kept(d, gone) ==
    /\ sourceRecords'[d] = sourceRecords[d]
    /\ \A p, q \in PeopleOf(d) : Together(d, p, q)' => Together(d, p, q)
    /\ \A r, p : Records(r, p) /\ r \notin gone => Records(r, p)'
    /\ People \ gone \subseteq People'
Spared(d, gone) ==
    /\ \A r \in gone : <<d, r>> \notin contributions
    /\ \A v \in On(d) : \A r \in gone : ~ Matched(v, r) /\ ~ Searches(v, r)

LEMMA PeopleStay ==
    ASSUME NEW d, NEW gone, Kept(d, gone)
    PROVE  PeopleOf(d)' = PeopleOf(d)
BY DEF Kept, PeopleOf, ContributorsIn, ContributionsIn

LEMMA InCommonStays ==
    ASSUME NEW d, NEW gone, Kept(d, gone), NEW S, S \cap gone = {}, NEW p, NEW q, InCommon(S, p, q)
    PROVE  InCommon(S, p, q)'
BY DEF Kept, InCommon

LEMMA RecordingStays ==
    ASSUME NEW d, NEW gone, Kept(d, gone), NEW S, S \cap gone = {}, Recording(d, S)
    PROVE  Recording(d, S)'
BY PeopleStay DEF Kept, Recording

LEMMA GatheredStays ==
    ASSUME NEW d, NEW gone, Kept(d, gone), NEW S, S \cap gone = {}, Gathered(d, S)
    PROVE  Gathered(d, S)'
<1>1. PeopleOf(d)' = PeopleOf(d)
  BY PeopleStay
<1>2. \A p, q \in PeopleOf(d) : Together(d, p, q)' => InCommon(S, p, q)
  BY DEF Kept, Gathered
<1>3. \A p, q \in PeopleOf(d) : Together(d, p, q)' => InCommon(S, p, q)'
  BY <1>2, InCommonStays
<1>4. QED
  BY <1>1, <1>3 DEF Gathered

LEMMA MatchingStays ==
    ASSUME NEW d, NEW gone, Kept(d, gone), NEW place, NEW j, Matching(d, place, j),
           LinkedPeople(j) \cap gone = {}, j.known \cap gone = {}, j.target \notin gone
    PROVE  Matching(d, place, j)'
<1>1. PeopleOf(d)' = PeopleOf(d) /\ People \ gone \subseteq People'
  BY PeopleStay DEF Kept
<1>2. PICK S : S = LinkedPeople(j)
  OBVIOUS
<1>3. Recording(d, S)'
  BY <1>2, RecordingStays DEF Matching
<1>4. ASSUME NEW p \in PeopleOf(d), NEW q \in PeopleOf(d), Together(d, p, q)'
      PROVE  \/ {p, q} \subseteq j.left
             \/ place \in Grouping /\ {p, q} \subseteq j.cluster
             \/ InCommon(S, p, q)'
  <2>1. \/ {p, q} \subseteq j.left
        \/ place \in Grouping /\ {p, q} \subseteq j.cluster
        \/ InCommon(S, p, q)
    BY <1>2, <1>4 DEF Kept, Matching
  <2>2. QED
    BY <1>2, <2>1, InCommonStays
<1>5. Recording(d, LinkedPeople(j))' /\ \A p, q : InCommon(S, p, q)' => InCommon(LinkedPeople(j), p, q)'
  BY <1>2, <1>3 DEF LinkedPeople, Recording, InCommon
<1>6. QED
  BY <1>1, <1>4, <1>5 DEF Matching, Grouping

LEMMA ProgressStays ==
    ASSUME NEW d, NEW gone, Kept(d, gone), NEW place, NEW j, Progress(d, place, j),
           LinkedPeople(j) \cap gone = {}, j.known \cap gone = {}, j.target \notin gone,
           place \in {"contributing", "affiliating"} => j.current \cap gone = {},
           \A r \in AnyPerson : <<d, r>> \in contributions => <<d, r>> \in contributions'
    PROVE  Progress(d, place, j)'
<1>1. j.records = sourceRecords'[d]
  BY DEF Progress, Kept
<1>2. place \in Grouping \cup {"matching"} => Matching(d, place, j)'
  BY MatchingStays DEF Progress
<1>3. ASSUME place \in {"contributing", "affiliating"}
      PROVE  Contributing(d, j)'
  <2>1. PICK S : S = Chosen(j) /\ S \cap gone = {}
    BY <1>3 DEF Chosen
  <2>2. Contributing(d, j)
    BY <1>3 DEF Progress
  <2>3. Gathered(d, S)' /\ Recording(d, S)'
    BY <2>1, <2>2, GatheredStays, RecordingStays DEF Contributing
  <2>4. j.current \subseteq ContributorsOf(d)'
    BY <2>2 DEF Contributing, ContributorsOf
  <2>5. Gathered(d, Chosen(j))' /\ Recording(d, Chosen(j))'
    BY <2>1, <2>3 DEF Chosen, LinkedPeople, Gathered, Recording, InCommon
  <2>6. QED
    BY <2>4, <2>5 DEF Contributing
<1>4. QED
  BY <1>1, <1>2, <1>3 DEF Progress, Grouping

---------------------------------------------------------------------------
(* Steps of a worker, and the documents they are not about. *)

LEMMA FollowWorker ==
    ASSUME FollowInv, NEW w \in Worker
    PROVE  /\ GhostInv /\ TypeInv /\ job[w] \in JobRecords /\ HandOf(pc[w], job[w])
           /\ JobOf(pc[w], job[w]) /\ PeopleOK /\ RecordsOK
           /\ pc \in [Worker -> PC] /\ job \in [Worker -> JobRecords]
           /\ "" \notin Document
BY GhostWorker, WorkerOf, ContributionsAssumption DEF FollowInv

LEMMA ProgressIs ==
    ASSUME NEW v, NEW place, NEW j, pc'[v] = place, job'[v] = j, NEW d, Progress(d, place, j)'
    PROVE  Progress(d, pc[v], job[v])'
BY DEF Progress, Matching, Contributing, Chosen, LinkedPeople, Gathered, Recording, InCommon

LEMMA Bystander ==
    ASSUME FollowInv, NEW w \in Worker, NEW place, NEW j,
           pc' = [pc EXCEPT ![w] = place], job' = [job EXCEPT ![w] = j],
           NEW d \in Document \ disturbed, job[w].document # d, j.document # d,
           NEW gone, Kept(d, gone), Spared(d, gone),
           \A r : <<d, r>> \in contributions' <=> <<d, r>> \in contributions,
           d \in orphans' => d \in orphans
    PROVE  DocumentOK(d)'
<1>1. pc \in [Worker -> PC] /\ job \in [Worker -> JobRecords] /\ DocumentOK(d)
  BY FollowWorker DEF FollowInv
<1>2. On(d)' = On(d) /\ w \notin On(d)
  BY <1>1 DEF On
<1>3. ASSUME NEW v \in On(d)
      PROVE  Progress(d, pc[v], job[v])'
  <2>1. PICK p, k : p = pc[v] /\ k = job[v] /\ Progress(d, p, k)
    BY <1>1, <1>3 DEF DocumentOK
  <2>2. pc'[v] = p /\ job'[v] = k
    BY <1>1, <1>2, <1>3, <2>1 DEF On
  <2>3. LinkedPeople(k) \cap gone = {} /\ k.known \cap gone = {} /\ k.target \notin gone
    BY <1>3, <2>1 DEF Spared, Matched, Searches, LinkedPeople
  <2>4. p \in {"contributing", "affiliating"} => k.current \cap gone = {}
    BY <2>1 DEF Spared, Progress, Contributing, ContributorsOf
  <2>5. Progress(d, p, k)'
    BY <2>1, <2>3, <2>4, ProgressStays
  <2>6. QED
    BY <2>2, <2>5, ProgressIs
<1>4. ASSUME On(d) = {}
      PROVE  Followed(d)'
  <2>1. Followed(d)
    BY <1>1, <1>4 DEF DocumentOK
  <2>2. PICK S : S = ContributorsOf(d)
    OBVIOUS
  <2>3. S \cap gone = {}
    BY <2>2 DEF ContributorsOf, Spared
  <2>4. Gathered(d, S)' /\ Recording(d, S)'
    BY <2>1, <2>2, <2>3, GatheredStays, RecordingStays DEF Followed
  <2>5. ContributorsOf(d)' = S
    BY <2>2 DEF ContributorsOf
  <2>6. QED
    BY <2>1, <2>4, <2>5 DEF Followed, Gathered, Recording, InCommon
<1>5. QED
  BY <1>1, <1>2, <1>3, <1>4 DEF DocumentOK

LEMMA OwnDocument ==
    ASSUME FollowInv, NEW w \in Worker, NEW place, NEW j,
           pc' = [pc EXCEPT ![w] = place], job' = [job EXCEPT ![w] = j],
           NEW d \in Document, On(d) \subseteq {w}, j.document = d, Progress(d, place, j)'
    PROVE  DocumentOK(d)'
<1>1. pc'[w] = place /\ job'[w] = j /\ job \in [Worker -> JobRecords]
  BY FollowWorker
<1>2. On(d)' = {w}
  BY <1>1 DEF On
<1>3. Progress(d, pc[w], job[w])'
  BY <1>1, ProgressIs
<1>4. QED
  BY <1>2, <1>3 DEF DocumentOK

\* A step about the document of the worker, if any.
LEMMA FollowStep ==
    ASSUME FollowInv, [Next]_vars, NEW w \in Worker, NEW place, NEW j,
           pc' = [pc EXCEPT ![w] = place], job' = [job EXCEPT ![w] = j],
           place \in {"idle", "starting"} => j.document = "",
           disturbed \subseteq disturbed', j.document \in {job[w].document, ""}, NEW gone,
           \A d \in Document \ disturbed' : d # job[w].document =>
              /\ Kept(d, gone) /\ Spared(d, gone) /\ (d \in orphans' => d \in orphans)
              /\ \A r : <<d, r>> \in contributions' <=> <<d, r>> \in contributions,
           \A d \in Document \ disturbed' :
              d = job[w].document /\ DocumentOK(d) => DocumentOK(d)'
    PROVE  FollowInv'
<1>1. pc \in [Worker -> PC] /\ job \in [Worker -> JobRecords] /\ "" \notin Document
  BY FollowWorker
<1>2. GhostInv'
  BY GhostNext DEF FollowInv
<1>3. \A v \in Worker : pc'[v] \in {"idle", "starting"} => job'[v].document = ""
  BY <1>1 DEF FollowInv
<1>4. ASSUME NEW d \in Document \ disturbed'
      PROVE  DocumentOK(d)'
  <2>1. CASE d = job[w].document
    BY <1>4, <2>1 DEF FollowInv
  <2>2. CASE d # job[w].document
    BY <1>1, <1>4, <2>2, Bystander
  <2>3. QED
    BY <2>1, <2>2
<1>5. QED
  BY <1>2, <1>3, <1>4 DEF FollowInv

LEMMA WorkStep ==
    ASSUME FollowInv, [Next]_vars, NEW w \in Worker, NEW place, NEW j,
           pc' = [pc EXCEPT ![w] = place], job' = [job EXCEPT ![w] = j],
           place \notin {"idle", "starting"},
           disturbed \subseteq disturbed', j.document = job[w].document, NEW gone,
           \A d \in Document \ disturbed' : d # job[w].document =>
              /\ Kept(d, gone) /\ Spared(d, gone) /\ (d \in orphans' => d \in orphans)
              /\ \A r : <<d, r>> \in contributions' <=> <<d, r>> \in contributions,
           \A d \in Document \ disturbed' :
              d = job[w].document /\ Progress(d, pc[w], job[w]) => Progress(d, place, j)'
    PROVE  FollowInv'
<1>1. ASSUME NEW d \in Document \ disturbed', d = job[w].document, DocumentOK(d)
      PROVE  DocumentOK(d)'
  <2>1. w \in On(d) /\ On(d) \subseteq {w} /\ Progress(d, pc[w], job[w])
    BY <1>1 DEF DocumentOK, On
  <2>2. Progress(d, place, j)'
    BY <1>1, <2>1
  <2>3. QED
    BY <1>1, <2>1, <2>2, OwnDocument
<1>2. QED
  BY <1>1, FollowStep

LEMMA KeptAll ==
    ASSUME UNCHANGED <<sourceRecords, equivalences, recordedBy, regrouped>>, People \subseteq People',
           NEW d
    PROVE  Kept(d, {}) /\ Spared(d, {})
BY SameStays DEF Kept, Spared, Together, Records

\* Steps that change nothing of what documents share, but for people who come.
LEMMA QuietStep ==
    ASSUME FollowInv, [Next]_vars, NEW w \in Worker, NEW place, NEW j,
           pc' = [pc EXCEPT ![w] = place], job' = [job EXCEPT ![w] = j],
           place \notin {"idle", "starting"}, j.document = job[w].document,
           UNCHANGED <<sourceRecords, equivalences, recordedBy, contributions, orphans, disturbed,
                       regrouped>>,
           People \subseteq People',
           \A d \in Document : d = job[w].document /\ Progress(d, pc[w], job[w])
                            => Progress(d, place, j)
    PROVE  FollowInv'
<1>1. \A d : Kept(d, {}) /\ Spared(d, {})
  BY KeptAll
<1>2. ASSUME NEW d \in Document, Progress(d, place, j)
      PROVE  Progress(d, place, j)'
  BY <1>1, <1>2, ProgressStays
<1>3. QED
  BY <1>1, <1>2, WorkStep

\* A step that leaves the people a worker linked and those it goes on with.
SameWork(k, j) ==
    /\ j.document = k.document /\ j.records = k.records
    /\ j.linked = k.linked /\ j.current = k.current

LEMMA FollowTreat ==
    ASSUME FollowInv, [Next]_vars, NEW w \in Worker,
           CallOrganization(w) \/ TreatOrganization(w) \/ Affiliate(w)
    PROVE  FollowInv'
<1>1. PICK k : k = job[w] /\ k \in JobRecords
  BY FollowWorker
<1>2. pc \in [Worker -> PC] /\ job \in [Worker -> JobRecords] /\ pc[w] = "affiliating"
  BY FollowWorker DEF CallOrganization, TreatOrganization, Affiliate, Affiliated, Free
<1>3. UNCHANGED <<sourceRecords, equivalences, externals, ghosts, recordedBy, contributions,
                  orphans, disturbed, regrouped>>
  BY DEF CallOrganization, TreatOrganization, Affiliate, personVars, contributionVars, historyVars
<1>4. PICK place, j : /\ pc' = [pc EXCEPT ![w] = place] /\ job' = [job EXCEPT ![w] = j]
                      /\ place \in {"affiliating", "contributing"}
                      /\ SameWork(k, j)
  <2>1. CASE CallOrganization(w)
    <3>1. PICK o \in k.left :
            job' = [job EXCEPT ![w].left = @ \ O!Cluster(o), ![w].found = Found(w)]
      BY <1>1, <2>1 DEF CallOrganization
    <3>2. PICK left, found : left = k.left \ O!Cluster(o) /\ found = Found(w)
      OBVIOUS
    <3>3. PICK j : j = [k EXCEPT !.left = left, !.found = found]
      OBVIOUS
    <3>4. job' = [job EXCEPT ![w] = j]
      BY <1>1, <1>2, <3>1, <3>2, <3>3 DEF JobRecords
    <3>5. pc' = [pc EXCEPT ![w] = "affiliating"]
      BY <1>2, <2>1 DEF CallOrganization
    <3>6. SameWork(k, j)
      BY <1>1, <3>3 DEF JobRecords, SameWork
    <3>7. QED
      BY <3>4, <3>5, <3>6
  <2>2. CASE TreatOrganization(w)
    <3>1. pc' = [pc EXCEPT ![w] = "affiliating"] /\ job' = [job EXCEPT ![w] = k]
      BY <1>1, <1>2, <2>2 DEF TreatOrganization
    <3>2. QED
      BY <3>1 DEF SameWork
  <2>3. CASE Affiliate(w)
    <3>1. PICK j : j = [k EXCEPT !.target = "", !.cluster = {}, !.found = {}]
      OBVIOUS
    <3>2. job' = [job EXCEPT ![w] = j]
      BY <1>1, <1>2, <2>3, <3>1 DEF Affiliate, JobRecords
    <3>3. pc' = [pc EXCEPT ![w] = "contributing"]
      BY <2>3 DEF Affiliate, Goes
    <3>4. SameWork(k, j)
      BY <1>1, <3>1 DEF JobRecords, SameWork
    <3>5. QED
      BY <3>2, <3>3, <3>4
  <2>4. QED
    BY <2>1, <2>2, <2>3
<1>5. ASSUME NEW d \in Document, Progress(d, "affiliating", k)
      PROVE  Progress(d, place, j)
  <2>1. LinkedPeople(j) = LinkedPeople(k)
    BY <1>4 DEF LinkedPeople, SameWork
  <2>2. QED
    BY <1>4, <1>5, <2>1 DEF Progress, Contributing, Chosen, Grouping, SameWork
<1>6. QED
  BY <1>1, <1>2, <1>3, <1>4, <1>5, QuietStep DEF People, SameWork

---------------------------------------------------------------------------
(* The clusters are matched. *)

LEMMA FollowMatch ==
    ASSUME FollowInv, [Next]_vars, NEW w \in Worker, Match(w)
    PROVE  FollowInv'
<1>1. PICK p \in job[w].left :
        LET cluster == Equivalents(p) \cap ContributorsIn(job[w].records)
            identified == ByIdentifiers(cluster)
            matches == IF identified # {} THEN identified
                       ELSE ByName(cluster, job[w].records)
            next == [job[w] EXCEPT !.left = job[w].left \ Equivalents(p), !.cluster = cluster]
        IN
        \/ \E q \in matches :
            job' = [job EXCEPT ![w] = [next EXCEPT !.target = q]] /\ Goes(w, "linking")
        \/ /\ matches = {}
           /\ job' = [job EXCEPT ![w] = [next EXCEPT !.search = cluster, !.known = {}]]
           /\ Goes(w, "searching")
  BY DEF Match
<1>2. PICK k, cluster, matches, left :
        /\ k = job[w] /\ cluster = Equivalents(p) \cap ContributorsIn(k.records)
        /\ left = k.left \ Equivalents(p)
        /\ matches = IF ByIdentifiers(cluster) # {} THEN ByIdentifiers(cluster)
                     ELSE ByName(cluster, k.records)
  OBVIOUS
<1>3. PICK next : next = [k EXCEPT !.left = left, !.cluster = cluster]
  OBVIOUS
<1>4. /\ k \in JobRecords /\ JobOf("matching", k) /\ HandOf("matching", k) /\ pc[w] = "matching"
      /\ UNCHANGED <<sourceRecords, equivalences, externals, ghosts, recordedBy, contributions,
                     orphans, disturbed, regrouped>>
      /\ RecordsOK
  BY <1>2, FollowWorker DEF Match, personVars, contributionVars, historyVars
<1>5. ContributorsIn(k.records) \subseteq Stored /\ p \in ContributorsIn(k.records) /\ p \in Stored
  BY <1>2, <1>4 DEF JobOf, HandOf
<1>6. matches \subseteq Person
  <2>1. OwnersIn(k.records) \subseteq Person
    BY <1>4, RecordsHold DEF JobRecords
  <2>2. QED
    BY <1>2, <2>1 DEF ByIdentifiers, ByName
<1>7. next \in JobRecords
  BY <1>2, <1>3, <1>4, <1>5, StoredAre DEF JobRecords
<1>8. PICK j, place :
        /\ job' = [job EXCEPT ![w] = j] /\ pc' = [pc EXCEPT ![w] = place]
        /\ place \in {"linking", "searching"}
        /\ place = "linking" => j.target \in Person
        /\ place = "searching" => j.known = {}
        /\ SameWork(k, j) /\ j.left = left /\ j.cluster = cluster
  <2>1. SameWork(k, next) /\ next.left = left /\ next.cluster = cluster
    BY <1>3, <1>4 DEF JobRecords, SameWork
  <2>2. ASSUME NEW q \in matches, job' = [job EXCEPT ![w] = [next EXCEPT !.target = q]],
               Goes(w, "linking")
        PROVE  \E j, place :
                 /\ job' = [job EXCEPT ![w] = j] /\ pc' = [pc EXCEPT ![w] = place]
                 /\ place \in {"linking", "searching"}
                 /\ place = "linking" => j.target \in Person
                 /\ place = "searching" => j.known = {}
                 /\ SameWork(k, j) /\ j.left = left /\ j.cluster = cluster
    <3>1. PICK j : j = [next EXCEPT !.target = q]
      OBVIOUS
    <3>2. SameWork(next, j) /\ j.left = next.left /\ j.cluster = next.cluster /\ j.target = q
      BY <1>7, <3>1 DEF JobRecords, SameWork
    <3>3. QED
      BY <1>6, <2>1, <2>2, <3>1, <3>2 DEF Goes, SameWork
  <2>3. ASSUME job' = [job EXCEPT ![w] = [next EXCEPT !.search = cluster, !.known = {}]],
               Goes(w, "searching")
        PROVE  \E j, place :
                 /\ job' = [job EXCEPT ![w] = j] /\ pc' = [pc EXCEPT ![w] = place]
                 /\ place \in {"linking", "searching"}
                 /\ place = "linking" => j.target \in Person
                 /\ place = "searching" => j.known = {}
                 /\ SameWork(k, j) /\ j.left = left /\ j.cluster = cluster
    <3>1. PICK j : j = [next EXCEPT !.search = cluster, !.known = {}]
      OBVIOUS
    <3>2. SameWork(next, j) /\ j.left = next.left /\ j.cluster = next.cluster /\ j.known = {}
      BY <1>7, <3>1 DEF JobRecords, SameWork
    <3>3. QED
      BY <2>1, <2>3, <3>1, <3>2 DEF Goes, SameWork
  <2>4. QED
    BY <1>1, <1>2, <1>3, <2>2, <2>3
<1>9. ASSUME NEW d \in Document, Progress(d, "matching", k)
      PROVE  Progress(d, place, j)
  <2>1. k.records = sourceRecords[d] /\ k.current = {} /\ Matching(d, "matching", k)
    BY <1>9 DEF Progress, Grouping
  <2>2. PeopleOf(d) = ContributorsIn(k.records) /\ LinkedPeople(j) = LinkedPeople(k)
    BY <1>8, <2>1 DEF PeopleOf, LinkedPeople, SameWork
  <2>3. ASSUME NEW q \in PeopleOf(d), NEW r \in PeopleOf(d), Together(d, q, r)
        PROVE  {q, r} \subseteq left \/ {q, r} \subseteq cluster \/ InCommon(LinkedPeople(k), q, r)
    <3>1. {q, r} \subseteq k.left \/ InCommon(LinkedPeople(k), q, r)
      BY <2>1, <2>3 DEF Matching, Grouping
    <3>2. q \in Stored /\ r \in Stored /\ Same(q, r) /\ Same(r, q)
      BY <1>4, <1>5, <2>2, <2>3, SameReflexive, SameSymmetric DEF Together
    <3>3. Same(p, q) <=> Same(p, r)
      BY <1>5, <3>2, SameTransitive
    <3>4. QED
      BY <1>2, <2>2, <3>1, <3>3 DEF Same
  <2>4. cluster \subseteq PeopleOf(d)
    BY <1>2, <2>2
  <2>5. Matching(d, place, j)
    BY <1>8, <2>1, <2>2, <2>3, <2>4 DEF Matching, Grouping, People
  <2>6. QED
    BY <1>8, <2>1, <2>5 DEF Progress, Grouping, SameWork
<1>10. QED
  BY <1>2, <1>4, <1>8, <1>9, QuietStep DEF People, SameWork

LEMMA FollowSearched ==
    ASSUME FollowInv, [Next]_vars, NEW w \in Worker, pc[w] = "searching",
           NEW left \in SUBSET SourcePerson, NEW known \in SUBSET SourcePerson,
           Searched(w, left, known), job[w].known \subseteq People => known \subseteq People,
           UNCHANGED <<sourceRecords, personVars, contributionVars, disturbed, regrouped>>
    PROVE  FollowInv'
<1>1. PICK k, next : k = job[w] /\ next = [k EXCEPT !.search = left, !.known = known]
  OBVIOUS
<1>2. k \in JobRecords /\ pc \in [Worker -> PC]
  BY <1>1, FollowWorker
<1>3. SameWork(k, next) /\ next.known = known /\ next.left = k.left /\ next.cluster = k.cluster
      /\ next \in JobRecords
  BY <1>1, <1>2 DEF JobRecords, SameWork
<1>4. ASSUME NEW place \in {"searching", "creating", "merging", "linking"}, NEW j,
             pc' = [pc EXCEPT ![w] = place], job' = [job EXCEPT ![w] = j],
             SameWork(k, j), j.left = k.left, j.cluster = k.cluster, j.known \subseteq known,
             place \in {"merging", "linking"} => j.target \in known
      PROVE  FollowInv'
  <2>1. ASSUME NEW d \in Document, Progress(d, "searching", k)
        PROVE  Progress(d, place, j)
    <3>1. k.current = {} /\ Matching(d, "searching", k) /\ LinkedPeople(j) = LinkedPeople(k)
      BY <1>4, <2>1 DEF Progress, Grouping, LinkedPeople, SameWork
    <3>2. known \subseteq People
      BY <1>1, <3>1 DEF Matching
    <3>3. Matching(d, place, j)
      BY <1>4, <3>1, <3>2 DEF Matching, Grouping
    <3>4. QED
      BY <1>4, <2>1, <3>1, <3>3 DEF Progress, Grouping, SameWork
  <2>2. QED
    BY <1>1, <1>4, <2>1, QuietStep DEF People, SameWork, personVars, contributionVars
<1>5. CASE job' = [job EXCEPT ![w] = next] /\ UNCHANGED pc
  <2>1. pc' = [pc EXCEPT ![w] = "searching"]
    BY <1>2, <1>5
  <2>2. QED
    BY <1>3, <1>4, <1>5, <2>1
<1>6. CASE job' = [job EXCEPT ![w] = next] /\ Goes(w, "creating")
  BY <1>3, <1>4, <1>6 DEF Goes
<1>7. ASSUME NEW q \in known,
             job' = [job EXCEPT ![w] = [next EXCEPT !.target = q, !.known = @ \ {q}]],
             Goes(w, IF Cardinality(known) = 1 THEN "linking" ELSE "merging")
      PROVE  FollowInv'
  <2>1. PICK j, place : /\ j = [next EXCEPT !.target = q, !.known = @ \ {q}]
                        /\ place = IF Cardinality(known) = 1 THEN "linking" ELSE "merging"
    OBVIOUS
  <2>2. SameWork(next, j) /\ j.left = next.left /\ j.cluster = next.cluster
        /\ j.target = q /\ j.known = next.known \ {q}
    BY <1>3, <2>1 DEF JobRecords, SameWork
  <2>3. QED
    BY <1>3, <1>4, <1>7, <2>1, <2>2 DEF Goes, SameWork
<1>8. QED
  BY <1>1, <1>5, <1>6, <1>7 DEF Searched

LEMMA FollowSearch ==
    ASSUME FollowInv, [Next]_vars, NEW w \in Worker, Search(w)
    PROVE  FollowInv'
<1>1. /\ pc[w] = "searching" /\ job[w] \in JobRecords /\ PeopleOK
      /\ UNCHANGED <<sourceRecords, personVars, contributionVars, disturbed, regrouped>>
  BY FollowWorker DEF Search, historyVars
<1>2. PICK p \in job[w].search :
        LET recorders == RecordersOf(p) \cap externals IN
        \/ recorders = {} /\ Searched(w, job[w].search \ {p}, job[w].known)
        \/ \E q \in recorders : Searched(w, job[w].search \ {p}, job[w].known \cup {q})
  BY DEF Search
<1>3. PICK left : left = job[w].search \ {p} /\ left \in SUBSET SourcePerson
  BY <1>1 DEF JobRecords
<1>4. CASE Searched(w, left, job[w].known)
  BY <1>1, <1>3, <1>4, FollowSearched DEF JobRecords
<1>5. ASSUME NEW q \in externals, Searched(w, left, job[w].known \cup {q})
      PROVE  FollowInv'
  <2>1. PICK known : known = job[w].known \cup {q}
    OBVIOUS
  <2>2. known \in SUBSET SourcePerson /\ (job[w].known \subseteq People => known \subseteq People)
    BY <1>1, <2>1 DEF JobRecords, PeopleOK, People
  <2>3. QED
    BY <1>1, <1>3, <1>5, <2>1, <2>2, FollowSearched
<1>6. QED
  BY <1>2, <1>3, <1>4, <1>5

LEMMA FollowCreateExternal ==
    ASSUME FollowInv, [Next]_vars, NEW w \in Worker, CreateExternal(w)
    PROVE  FollowInv'
<1>1. PICK p \in job[w].cluster :
        /\ externals' = IF p \in ghosts THEN externals ELSE externals \cup {p}
        /\ job' = [job EXCEPT ![w].target = p]
  BY DEF CreateExternal
<1>2. PICK k, j : k = job[w] /\ j = [k EXCEPT !.target = p]
  OBVIOUS
<1>3. /\ pc[w] = "creating" /\ pc' = [pc EXCEPT ![w] = "linking"] /\ job' = [job EXCEPT ![w] = j]
      /\ UNCHANGED <<sourceRecords, equivalences, ghosts, recordedBy, contributions, orphans,
                     disturbed, regrouped>>
  BY <1>1, <1>2 DEF CreateExternal, Goes, contributionVars, historyVars
<1>4. k \in JobRecords
  BY <1>2, FollowWorker
<1>5. SameWork(k, j) /\ j.target = p /\ j.left = k.left /\ j.cluster = k.cluster /\ j.known = k.known
  BY <1>2, <1>4 DEF JobRecords, SameWork
<1>6. p \in People' /\ People \subseteq People'
  BY <1>1, <1>3 DEF People
<1>7. \A d : Kept(d, {}) /\ Spared(d, {})
  BY <1>3, <1>6, KeptAll
<1>8. ASSUME NEW d \in Document, Progress(d, "creating", k)
      PROVE  Progress(d, "linking", j)'
  <2>1. Progress(d, "creating", k)'
    BY <1>3, <1>7, <1>8, ProgressStays
  <2>2. k.current = {} /\ Matching(d, "creating", k)' /\ LinkedPeople(j) = LinkedPeople(k)
    BY <1>5, <2>1 DEF Progress, Grouping, LinkedPeople, SameWork
  <2>3. Matching(d, "linking", j)'
    BY <1>5, <1>6, <2>2 DEF Matching, Grouping, LinkedPeople, Recording, InCommon, SameWork
  <2>4. QED
    BY <1>5, <2>1, <2>2, <2>3 DEF Progress, Grouping, SameWork
<1>9. \A d \in Document : Progress(d, pc[w], job[w]) => Progress(d, "linking", j)'
  BY <1>2, <1>3, <1>8
<1>10. j.document = job[w].document
  BY <1>2, <1>5 DEF SameWork
<1>11. QED
  BY <1>3, <1>7, <1>9, <1>10, WorkStep

\* The source people that are found equivalent are those of regrouped documents.
LEMMA KeptApart ==
    ASSUME NEW d, sourceRecords'[d] = sourceRecords[d], UNCHANGED <<externals, ghosts, recordedBy>>,
           d \notin Regrouped, d \notin regrouped' => d \notin regrouped, d \in Document
    PROVE  Kept(d, {}) /\ Spared(d, {})
<1>1. \A p, q \in PeopleOf(d) : Same(p, q)' => Same(p, q)
  BY DEF Regrouped, PeopleOf, Same
<1>2. QED
  BY <1>1 DEF Kept, Spared, Together, Records, People

LEMMA FollowRelate ==
    ASSUME FollowInv, [Next]_vars, NEW w \in Worker, Relate(w)
    PROVE  FollowInv'
<1>1. PICK k, people, place : /\ k = job[w] /\ people = ContributorsIn(k.records)
                              /\ place = IF people = {} THEN "contributing" ELSE "matching"
  OBVIOUS
<1>2. PICK j : j = [k EXCEPT !.left = people]
  OBVIOUS
<1>3. /\ pc[w] = "relating" /\ pc' = [pc EXCEPT ![w] = place] /\ job' = [job EXCEPT ![w] = j]
      /\ UNCHANGED <<sourceRecords, externals, ghosts, recordedBy, contributions, orphans, disturbed>>
      /\ regrouped' = (regrouped \cup Regrouped) \ {k.document}
  BY <1>1, <1>2 DEF Relate, Goes, contributionVars
<1>4. k \in JobRecords /\ HandOf("relating", k)
  BY <1>1, <1>3, FollowWorker
<1>5. SameWork(k, j) /\ j.left = people /\ LinkedPeople(j) = {}
  <2>1. SameWork(k, j) /\ j.left = people
    BY <1>2, <1>4 DEF JobRecords, SameWork
  <2>2. j.linked = <<>>
    BY <1>4, <2>1 DEF HandOf, SameWork
  <2>3. QED
    BY <2>1, <2>2, NobodyLinked
<1>6. \A d \in Document : d # k.document /\ d \notin Regrouped => Kept(d, {}) /\ Spared(d, {})
  BY <1>3, KeptApart
<1>7. ASSUME NEW d \in Document, d # k.document, d \in Regrouped
      PROVE  Kept(d, {}) /\ Spared(d, {})
  BY <1>3, <1>7 DEF Kept, Spared, Together, Records, People
<1>8. ASSUME NEW d \in Document, Progress(d, "relating", k)
      PROVE  Progress(d, place, j)'
  <2>1. k.records = sourceRecords[d] /\ k.current = {}
    BY <1>8 DEF Progress
  <2>2. PeopleOf(d)' = people
    BY <1>1, <1>3, <2>1 DEF PeopleOf, ContributorsIn, ContributionsIn
  <2>3. LinkedPeople(j)' = {}
    BY <1>5 DEF LinkedPeople
  <2>4. CASE people = {}
    <3>1. Chosen(j)' = {}
      BY <1>5, <2>1, <2>3 DEF Chosen, SameWork
    <3>2. Contributing(d, j)'
      BY <1>5, <2>1, <2>2, <2>4, <3>1 DEF Contributing, Gathered, Recording, SameWork
    <3>3. QED
      BY <1>1, <1>3, <1>5, <2>1, <2>4, <3>2 DEF Progress, Grouping, SameWork
  <2>5. CASE people # {}
    <3>1. Matching(d, "matching", j)'
      BY <1>5, <2>2, <2>3 DEF Matching, Recording, Grouping
    <3>2. QED
      BY <1>1, <1>3, <1>5, <2>1, <2>5, <3>1 DEF Progress, Grouping, SameWork
  <2>6. QED
    BY <2>4, <2>5
<1>9. \A d \in Document : Progress(d, pc[w], job[w]) => Progress(d, place, j)'
  BY <1>1, <1>3, <1>8
<1>10. j.document = job[w].document /\ place \notin {"idle", "starting"}
  BY <1>1, <1>5 DEF SameWork
<1>11. \A d \in Document : d # job[w].document => Kept(d, {}) /\ Spared(d, {})
  BY <1>1, <1>6, <1>7
<1>12. QED
  BY <1>3, <1>9, <1>10, <1>11, WorkStep

---------------------------------------------------------------------------
(* People are deleted, or get contributions. *)

\* What a step that deletes people leaves, of documents it does not disturb.
LEMMA FollowTakes ==
    ASSUME FollowInv, NEW w \in Worker, NEW gone, NEW documents \in SUBSET Document,
           Takes(w, gone, documents), UNCHANGED <<sourceRecords, equivalences>>,
           \A l \in recordedBy : l[1] \notin gone => l \in recordedBy',
           \A c \in contributions : c[2] \in gone => c[1] \in documents
    PROVE  /\ disturbed \subseteq disturbed' /\ \A d : Kept(d, gone)
           /\ \A d \in Document \ disturbed' : d # job[w].document => Spared(d, gone)
           /\ \A d \in Document \ disturbed' : d = job[w].document =>
                 LinkedPeople(job[w]) \cap gone = {}
           /\ \A d \in Document \ disturbed' : d # job[w].document => d \notin documents
<1>1. PICK robbed : robbed = {v \in Worker : \E p \in gone : Matched(v, p) \/ (v # w /\ Searches(v, p))}
  OBVIOUS
<1>2. /\ disturbed' = disturbed \cup (documents \ {job[w].document})
                              \cup ({job[v].document : v \in robbed} \ {""})
      /\ externals' = externals \ gone /\ ghosts' = ghosts \ gone /\ regrouped' = regrouped
  BY <1>1 DEF Takes
<1>3. "" \notin Document
  BY FollowWorker
<1>4. \A d : Kept(d, gone)
  BY <1>2, SameStays DEF Kept, Together, Records, People
<1>5. ASSUME NEW d \in Document \ disturbed', d # job[w].document
      PROVE  Spared(d, gone) /\ d \notin documents
  <2>1. d \notin documents
    BY <1>2, <1>5
  <2>2. \A r \in gone : <<d, r>> \notin contributions
    BY <2>1
  <2>3. \A v \in On(d) : v \in Worker /\ v \notin robbed /\ v # w
    BY <1>2, <1>3, <1>5 DEF On
  <2>4. QED
    BY <1>1, <2>1, <2>2, <2>3 DEF Spared
<1>6. ASSUME NEW d \in Document \ disturbed', d = job[w].document
      PROVE  LinkedPeople(job[w]) \cap gone = {}
  <2>1. w \notin robbed
    BY <1>2, <1>3, <1>6
  <2>2. QED
    BY <1>1, <2>1 DEF Matched, LinkedPeople
<1>7. QED
  BY <1>2, <1>4, <1>5, <1>6

LEMMA FollowMerge ==
    ASSUME FollowInv, [Next]_vars, NEW w \in Worker, Merge(w)
    PROVE  FollowInv'
<1>1. PICK k, keep : k = job[w] /\ keep = k.target
  OBVIOUS
<1>2. PICK p \in k.known :
        LET effective == {keep, p} \subseteq People /\ DocumentsOf(p) \ DocumentsOf(keep) # {}
            moved == IF effective THEN RecordedOf(p) \ RecordedOf(keep) ELSE {}
            gone == IF moved # {} THEN {p} ELSE {}
            lost == IF effective THEN DocumentsOf(p) ELSE {}
        IN
        /\ contributions' = contributions \ (lost \X {p})
        /\ recordedBy' = {l \in recordedBy : l[1] \notin gone} \cup ({keep} \X moved)
        /\ Takes(w, gone, lost)
        /\ job' = [job EXCEPT ![w].known = k.known \ {p}]
        /\ Goes(w, IF k.known = {p} THEN "linking" ELSE "merging")
  BY <1>1 DEF Merge
<1>3. PICK effective, moved, gone, lost, place, j :
        /\ effective = ({keep, p} \subseteq People /\ DocumentsOf(p) \ DocumentsOf(keep) # {})
        /\ moved = IF effective THEN RecordedOf(p) \ RecordedOf(keep) ELSE {}
        /\ gone = IF moved # {} THEN {p} ELSE {}
        /\ lost = IF effective THEN DocumentsOf(p) ELSE {}
        /\ place = IF k.known = {p} THEN "linking" ELSE "merging"
        /\ j = [k EXCEPT !.known = k.known \ {p}]
  OBVIOUS
<1>4. /\ contributions' = contributions \ (lost \X {p})
      /\ recordedBy' = {l \in recordedBy : l[1] \notin gone} \cup ({keep} \X moved)
      /\ Takes(w, gone, lost)
      /\ UNCHANGED <<sourceRecords, equivalences, orphans>>
      /\ job' = [job EXCEPT ![w] = j] /\ pc' = [pc EXCEPT ![w] = place] /\ pc[w] = "merging"
  BY <1>1, <1>2, <1>3 DEF Merge, Goes
<1>5. k \in JobRecords /\ JobOf("merging", k) /\ PeopleOK
  BY <1>1, <1>4, FollowWorker
<1>6. gone \subseteq {p} /\ p # keep /\ lost \in SUBSET Document
      /\ \A d : gone # {} => (<<d, p>> \in contributions <=> d \in lost)
  BY <1>1, <1>2, <1>3, <1>5, DocumentsIn DEF JobOf
<1>7. \A c \in contributions : c[2] \in gone => c[1] \in lost
  BY <1>5, <1>6 DEF PeopleOK
<1>8. /\ disturbed \subseteq disturbed' /\ \A d : Kept(d, gone)
      /\ \A d \in Document \ disturbed' : d # k.document => Spared(d, gone) /\ d \notin lost
      /\ \A d \in Document \ disturbed' : d = k.document => LinkedPeople(k) \cap gone = {}
  BY <1>1, <1>4, <1>6, <1>7, FollowTakes
<1>9. /\ SameWork(k, j) /\ j.left = k.left /\ j.cluster = k.cluster /\ j.target = keep
      /\ j.known = k.known \ {p}
  BY <1>1, <1>3, <1>5 DEF JobRecords, SameWork
<1>10. ASSUME NEW d \in Document \ disturbed', d = k.document, Progress(d, "merging", k)
       PROVE  Progress(d, place, j)'
  <2>1. k.current = {} /\ Matching(d, "merging", k) /\ LinkedPeople(j) = LinkedPeople(k)
    BY <1>9, <1>10 DEF Progress, Grouping, LinkedPeople, SameWork
  <2>2. Matching(d, place, j)
    BY <1>1, <1>3, <1>9, <2>1 DEF Matching, Grouping
  <2>3. Progress(d, place, j)
    BY <1>3, <1>9, <1>10, <2>1, <2>2 DEF Progress, Grouping, SameWork
  <2>4. LinkedPeople(j) \cap gone = {} /\ j.known \cap gone = {} /\ j.target \notin gone
    BY <1>6, <1>8, <1>9, <1>10, <2>1
  <2>5. Matching(d, place, j)'
    BY <1>8, <2>2, <2>4, MatchingStays
  <2>6. QED
    BY <1>3, <1>4, <2>1, <2>3, <2>5, <1>9 DEF Progress, Grouping, SameWork
<1>11. \A d \in Document \ disturbed' :
         d = job[w].document /\ Progress(d, pc[w], job[w]) => Progress(d, place, j)'
  BY <1>1, <1>4, <1>10
<1>12. j.document = job[w].document /\ place \notin {"idle", "starting"}
  BY <1>1, <1>3, <1>9 DEF SameWork
<1>13. \A d \in Document \ disturbed' : d # job[w].document =>
         /\ Kept(d, gone) /\ Spared(d, gone) /\ (d \in orphans' => d \in orphans)
         /\ \A r : <<d, r>> \in contributions' <=> <<d, r>> \in contributions
  BY <1>1, <1>4, <1>8
<1>14. QED
  BY <1>4, <1>8, <1>11, <1>12, <1>13, WorkStep

LEMMA LinkedKeeps ==
    ASSUME NEW linked \in Seq(Links), NEW person, NEW cluster
    PROVE  /\ \E n \in DOMAIN Linked(linked, person, cluster) :
                Linked(linked, person, cluster)[n].person = person
           /\ \A m \in DOMAIN linked : /\ m \in DOMAIN Linked(linked, person, cluster)
                                       /\ Linked(linked, person, cluster)[m].person = linked[m].person
<1>1. PICK same, new : /\ same = {m \in DOMAIN linked : linked[m].person = person}
                       /\ new = Linked(linked, person, cluster)
  OBVIOUS
<1>2. CASE same = {}
  <2>1. PICK link : link = [person |-> person, cluster |-> cluster]
    OBVIOUS
  <2>2. new = Append(linked, link)
    BY <1>1, <1>2, <2>1 DEF Linked
  <2>3. linked \in Seq(Links \cup {link})
    OBVIOUS
  <2>4. /\ DOMAIN new = 1 .. Len(linked) + 1 /\ Len(linked) \in Nat /\ DOMAIN linked = 1 .. Len(linked)
        /\ new[Len(linked) + 1] = link /\ \A m \in DOMAIN linked : new[m] = linked[m]
    BY <2>2, <2>3
  <2>5. link.person = person
    BY <2>1
  <2>6. QED
    BY <1>1, <2>4, <2>5
<1>3. CASE same # {}
  <2>1. new = [m \in DOMAIN linked |->
            IF m \in same THEN [linked[m] EXCEPT !.cluster = cluster] ELSE linked[m]]
    BY <1>1, <1>3 DEF Linked
  <2>2. \A m \in DOMAIN linked : linked[m] \in Links
    OBVIOUS
  <2>3. \A m \in DOMAIN linked : [linked[m] EXCEPT !.cluster = cluster].person = linked[m].person
    BY <2>2 DEF Links
  <2>4. DOMAIN new = DOMAIN linked /\ \A m \in DOMAIN linked : new[m].person = linked[m].person
    BY <2>1, <2>3
  <2>5. PICK m \in DOMAIN linked : linked[m].person = person
    BY <1>1, <1>3
  <2>6. QED
    BY <1>1, <2>4, <2>5
<1>4. QED
  BY <1>2, <1>3

LEMMA FollowLink ==
    ASSUME FollowInv, [Next]_vars, NEW w \in Worker, Link(w)
    PROVE  FollowInv'
<1>1. PICK k, person, cluster, gone :
        k = job[w] /\ person = k.target /\ cluster = k.cluster /\ gone = Gone(w)
  OBVIOUS
<1>2. PICK linked, place, lost : /\ linked = Linked(k.linked, person, cluster)
                                 /\ place = IF k.left = {} THEN "contributing" ELSE "matching"
                                 /\ lost = UNION {DocumentsOf(p) : p \in gone}
  OBVIOUS
<1>3. PICK j : j = [k EXCEPT !.linked = linked, !.target = "", !.cluster = {}]
  OBVIOUS
<1>4. k \in JobRecords /\ HandOf("linking", k) /\ PeopleOK /\ JobOf("linking", k)
      /\ pc[w] = "linking" /\ job \in [Worker -> JobRecords]
  BY <1>1, FollowWorker DEF Link
<1>5. /\ recordedBy' = {l \in recordedBy : l[1] \notin gone}
            \cup (IF person \in People THEN {person} \X cluster ELSE {})
      /\ contributions' = {c \in contributions : c[2] \notin gone}
      /\ orphans' = orphans \cup
              UNION {DocumentsOf(p) : p \in {p \in gone : ~ RecordedOf(p) \subseteq cluster}}
      /\ Takes(w, gone, lost)
      /\ UNCHANGED <<sourceRecords, equivalences>>
      /\ pc' = [pc EXCEPT ![w] = place]
  BY <1>1, <1>2 DEF Link, Goes
<1>6. job' = [job EXCEPT ![w] = j]
  <2>1. job' = [job EXCEPT ![w].linked = Linked(@, person, cluster), ![w].target = "",
                            ![w].cluster = {}]
    BY <1>1 DEF Link
  <2>2. QED
    BY <1>1, <1>2, <1>3, <1>4, <2>1 DEF JobRecords
<1>7. lost \in SUBSET Document /\ (\A c \in contributions : c[2] \in gone => c[1] \in lost)
      /\ \A d : d \in orphans' => d \in orphans \/ d \in lost
  <2>1. \A p : DocumentsOf(p) \in SUBSET Document
    BY <1>4, DocumentsIn
  <2>2. \A c \in contributions : c[1] \in DocumentsOf(c[2])
    BY <1>4 DEF PeopleOK, DocumentsOf
  <2>3. QED
    BY <1>2, <1>5, <2>1, <2>2
<1>8. /\ disturbed \subseteq disturbed' /\ \A d : Kept(d, gone)
      /\ \A d \in Document \ disturbed' : d # k.document => Spared(d, gone) /\ d \notin lost
      /\ \A d \in Document \ disturbed' : d = k.document => LinkedPeople(k) \cap gone = {}
  BY <1>1, <1>5, <1>7, FollowTakes
<1>9. /\ j.linked = linked /\ j.left = k.left /\ j.records = k.records /\ j.current = k.current
      /\ j.document = k.document
  BY <1>3, <1>4 DEF JobRecords
<1>10. LinkedPeople(j) = LinkedPeople(k) \cup {person}
  <2>1. k.linked \in Seq(Links)
    BY <1>4 DEF JobRecords, Links
  <2>2. \A n \in DOMAIN linked : linked[n].person \in LinkedPeople(k) \cup {person}
    BY <1>2, <2>1, LinkedOf DEF LinkedPeople
  <2>3. (\E n \in DOMAIN linked : linked[n].person = person)
        /\ \A m \in DOMAIN k.linked : m \in DOMAIN linked /\ linked[m].person = k.linked[m].person
    BY <1>2, <2>1, LinkedKeeps
  <2>4. QED
    BY <1>9, <2>2, <2>3 DEF LinkedPeople
<1>11. ASSUME NEW d \in Document \ disturbed', d = k.document, Progress(d, "linking", k)
       PROVE  Progress(d, place, j)'
  <2>1. k.current = {} /\ Matching(d, "linking", k) /\ k.records = sourceRecords[d]
    BY <1>11 DEF Progress, Grouping
  <2>2. cluster \subseteq PeopleOf(d) /\ person \in People /\ cluster # {}
    BY <1>1, <1>4, <2>1 DEF Matching, Grouping, HandOf
  <2>3. PICK S : S = LinkedPeople(k) /\ S \cap gone = {}
    BY <1>8, <1>11
  <2>4. Kept(d, gone)
    BY <1>8
  <2>5. PeopleOf(d)' = PeopleOf(d)
    BY <2>4, PeopleStay
  <2>6. \A c \in cluster : Records(person, c)'
    BY <1>5, <2>2 DEF Records
  <2>7. ASSUME NEW p \in PeopleOf(d), NEW q \in PeopleOf(d), Together(d, p, q)'
        PROVE  {p, q} \subseteq k.left \/ InCommon(S \cup {person}, p, q)'
    <3>1. \/ {p, q} \subseteq k.left \/ {p, q} \subseteq cluster \/ InCommon(S, p, q)
      BY <1>1, <2>1, <2>3, <2>4, <2>7 DEF Kept, Matching
    <3>2. InCommon(S, p, q) => InCommon(S, p, q)'
      BY <2>3, <2>4, InCommonStays
    <3>3. QED
      BY <2>6, <3>1, <3>2 DEF InCommon
  <2>8. Recording(d, S \cup {person})'
    <3>1. Recording(d, S)'
      BY <2>1, <2>3, <2>4, RecordingStays DEF Matching
    <3>2. QED
      BY <2>2, <2>5, <2>6, <3>1 DEF Recording
  <2>9. LinkedPeople(j)' = S \cup {person} /\ Chosen(j)' = S \cup {person}
    BY <1>9, <1>10, <2>1, <2>3 DEF LinkedPeople, Chosen
  <2>10. j.records = sourceRecords'[d] /\ j.current = {}
    BY <1>9, <2>1, <2>4 DEF Kept
  <2>11. CASE k.left = {}
    <3>1. Gathered(d, Chosen(j))' /\ Recording(d, Chosen(j))'
      BY <2>5, <2>7, <2>8, <2>9, <2>11 DEF Gathered, Recording, InCommon
    <3>2. Contributing(d, j)'
      BY <2>10, <3>1 DEF Contributing
    <3>3. QED
      BY <1>2, <2>10, <2>11, <3>2 DEF Progress, Grouping
  <2>12. CASE k.left # {}
    <3>1. Matching(d, "matching", j)'
      BY <1>9, <2>5, <2>7, <2>8, <2>9 DEF Matching, Grouping, Recording, InCommon
    <3>2. QED
      BY <1>2, <2>10, <2>12, <3>1 DEF Progress, Grouping
  <2>13. QED
    BY <2>11, <2>12
<1>12. \A d \in Document \ disturbed' :
         d = job[w].document /\ Progress(d, pc[w], job[w]) => Progress(d, place, j)'
  BY <1>1, <1>4, <1>11
<1>13. j.document = job[w].document /\ place \notin {"idle", "starting"}
  BY <1>1, <1>2, <1>9
<1>14. \A d \in Document \ disturbed' : d # job[w].document =>
         /\ Kept(d, gone) /\ Spared(d, gone) /\ (d \in orphans' => d \in orphans)
         /\ \A r : <<d, r>> \in contributions' <=> <<d, r>> \in contributions
  BY <1>1, <1>5, <1>7, <1>8
<1>15. QED
  BY <1>5, <1>6, <1>8, <1>12, <1>13, <1>14, WorkStep

LEMMA FollowContribute ==
    ASSUME FollowInv, [Next]_vars, NEW w \in Worker, Contribute(w)
    PROVE  FollowInv'
<1>1. PICK k, one, person, left :
        /\ k = job[w] /\ one = Head(k.linked) /\ person = one.person
        /\ left = AffiliationsIn(k.records, one.cluster)
  OBVIOUS
<1>2. PICK tail, current : tail = Tail(k.linked) /\ current = k.current \cup {person}
  OBVIOUS
<1>3. PICK j : j = [k EXCEPT !.linked = tail, !.target = person, !.cluster = one.cluster,
                             !.current = current, !.left = left]
  OBVIOUS
<1>4. k \in JobRecords /\ pc[w] = "contributing" /\ k.linked # <<>>
  BY <1>1, FollowWorker DEF Contribute
<1>5. /\ job' = [job EXCEPT ![w] = j] /\ pc' = [pc EXCEPT ![w] = "affiliating"]
      /\ UNCHANGED <<sourceRecords, equivalences, externals, recordedBy, orphans, disturbed, regrouped>>
      /\ ghosts' = ghosts \cup ({person} \ People)
      /\ contributions' = contributions \cup {<<k.document, person>>}
  <2>1. job' = [job EXCEPT ![w].linked = Tail(@), ![w].target = person,
                           ![w].cluster = one.cluster, ![w].current = @ \cup {person},
                           ![w].left = left]
    BY <1>1 DEF Contribute
  <2>2. job' = [job EXCEPT ![w] = j]
    BY <1>1, <1>2, <1>3, <1>4, <2>1 DEF JobRecords
  <2>3. QED
    BY <1>1, <2>2 DEF Contribute, Goes
<1>6. j.linked = tail /\ j.current = current /\ j.records = k.records /\ j.document = k.document
  BY <1>3, <1>4 DEF JobRecords
<1>7. LinkedPeople(k) = {person} \cup LinkedPeople(j) /\ person \in AnyPerson
  <2>1. k.linked \in Seq(Links) /\ k.linked # <<>>
    BY <1>4 DEF JobRecords, Links
  <2>2. /\ 1 \in DOMAIN k.linked /\ one = k.linked[1] /\ k.linked[1] \in Links
        /\ \A i \in DOMAIN tail : i + 1 \in DOMAIN k.linked /\ tail[i] = k.linked[i + 1]
        /\ \A i \in DOMAIN k.linked : i = 1 \/ (i - 1 \in DOMAIN tail /\ k.linked[i] = tail[i - 1])
    BY <1>1, <1>2, <2>1
  <2>3. \A q : q \in LinkedPeople(k) <=> q = person \/ \E i \in DOMAIN tail : q = tail[i].person
    BY <1>1, <2>2 DEF LinkedPeople
  <2>4. QED
    BY <1>1, <1>6, <2>2, <2>3 DEF LinkedPeople, Links
<1>8. Chosen(j) = Chosen(k)
  BY <1>2, <1>6, <1>7 DEF Chosen
<1>9. \A d : Kept(d, {}) /\ Spared(d, {})
  BY <1>5, KeptAll DEF People
<1>10. ASSUME NEW d \in Document, d = k.document, Progress(d, "contributing", k)
       PROVE  Progress(d, "affiliating", j)'
  <2>1. Contributing(d, k) /\ k.records = sourceRecords[d]
    BY <1>10 DEF Progress
  <2>2. PICK S : S = Chosen(k)
    OBVIOUS
  <2>3. Gathered(d, S)' /\ Recording(d, S)'
    BY <1>9, <2>1, <2>2, GatheredStays, RecordingStays DEF Contributing
  <2>4. Chosen(j)' = S
    BY <1>8, <2>2 DEF Chosen, LinkedPeople
  <2>5. j.current \subseteq ContributorsOf(d)'
    BY <1>2, <1>5, <1>6, <1>7, <1>10, <2>1 DEF Contributing, ContributorsOf
  <2>6. Contributing(d, j)'
    BY <2>3, <2>4, <2>5 DEF Contributing, Gathered, Recording, InCommon
  <2>7. QED
    BY <1>5, <1>6, <2>1, <2>6 DEF Progress, Grouping
<1>11. \A d \in Document : d = job[w].document /\ Progress(d, pc[w], job[w])
                           => Progress(d, "affiliating", j)'
  BY <1>1, <1>4, <1>10
<1>12. \A d : d # job[w].document => \A r : <<d, r>> \in contributions' <=> <<d, r>> \in contributions
  BY <1>1, <1>5
<1>13. QED
  BY <1>1, <1>5, <1>6, <1>9, <1>11, <1>12, WorkStep

---------------------------------------------------------------------------
(* The recomputation of a document begins and ends. *)

LEMMA FollowTake ==
    ASSUME FollowInv, [Next]_vars, NEW w \in Worker, Take(w)
    PROVE  FollowInv'
<1>1. PICK e \in SourceRecord \X Document :
        LET todo == {e[2]} \cup {d \in Document : e[1] \in sourceRecords[d]}
        IN
        /\ sourceRecords' = [d \in Document |->
                IF d = e[2] THEN sourceRecords[d] \cup {e[1]} ELSE sourceRecords[d] \ {e[1]}]
        /\ job' = [job EXCEPT ![w] = Job(e, todo)]
        /\ disturbed' = disturbed \cup todo
  BY DEF Take
<1>2. PICK todo : todo = {e[2]} \cup {d \in Document : e[1] \in sourceRecords[d]}
  OBVIOUS
<1>3. PICK j : j = Job(e, todo)
  OBVIOUS
<1>4. /\ job' = [job EXCEPT ![w] = j] /\ pc' = [pc EXCEPT ![w] = "starting"] /\ pc[w] = "idle"
      /\ UNCHANGED <<externals, ghosts, recordedBy, contributions, orphans>>
      /\ disturbed' = disturbed \cup todo /\ regrouped' = regrouped \cup Regrouped
  BY <1>1, <1>2, <1>3 DEF Take, Goes, personVars, contributionVars
<1>5. j.document = "" /\ job[w].document = "" /\ "" \notin Document
  BY <1>3, <1>4, FollowWorker DEF Job, FollowInv
<1>6. ASSUME NEW d \in Document \ disturbed'
      PROVE  Kept(d, {}) /\ Spared(d, {})
  <2>1. d \notin todo
    BY <1>4, <1>6
  <2>2. sourceRecords'[d] = sourceRecords[d]
    BY <1>1, <1>2, <2>1
  <2>3. CASE d \in Regrouped
    BY <1>4, <2>2, <2>3 DEF Kept, Spared, Together, Records, People
  <2>4. CASE d \notin Regrouped
    BY <1>4, <2>2, <2>4, KeptApart
  <2>5. QED
    BY <2>3, <2>4
<1>7. QED
  BY <1>4, <1>5, <1>6, FollowStep

LEMMA FollowStart ==
    ASSUME FollowInv, [Next]_vars, NEW w \in Worker, Start(w)
    PROVE  FollowInv'
<1>1. PICK d \in job[w].todo :
        /\ job' = [job EXCEPT ![w] = [Job(job[w].event, job[w].todo \ {d}) EXCEPT
                      !.document = d, !.records = sourceRecords[d]]]
        /\ disturbed' = IF On(d) = {} THEN disturbed \ {d} ELSE disturbed \cup {d}
  BY DEF Start
<1>2. PICK j : j = [Job(job[w].event, job[w].todo \ {d}) EXCEPT
                       !.document = d, !.records = sourceRecords[d]]
  OBVIOUS
<1>3. /\ job' = [job EXCEPT ![w] = j] /\ pc' = [pc EXCEPT ![w] = "relating"]
      /\ UNCHANGED <<sourceRecords, equivalences, externals, ghosts, recordedBy, contributions,
                     orphans, regrouped>>
      /\ job[w].document = ""
  BY <1>1, <1>2 DEF Start, Goes, personVars, contributionVars, FollowInv
<1>4. j.document = d /\ j.records = sourceRecords[d] /\ j.current = {}
  BY <1>2 DEF Job
<1>5. d \in Document /\ "" \notin Document
        /\ pc \in [Worker -> PC] /\ job \in [Worker -> JobRecords]
  BY FollowWorker DEF JobRecords
<1>6. GhostInv'
  BY GhostNext DEF FollowInv
<1>7. \A v \in Worker : pc'[v] \in {"idle", "starting"} => job'[v].document = ""
  BY <1>3, <1>5 DEF FollowInv
<1>8. ASSUME NEW e \in Document \ disturbed'
      PROVE  DocumentOK(e)'
  <2>1. CASE e = d
    <3>1. On(e) = {}
      BY <1>1, <1>8, <2>1
    <3>2. Progress(e, "relating", j)'
      BY <1>3, <1>4, <2>1 DEF Progress, Grouping
    <3>3. QED
      BY <1>3, <1>4, <1>5, <2>1, <3>1, <3>2, OwnDocument
  <2>2. CASE e # d
    <3>1. Kept(e, {}) /\ Spared(e, {})
      BY <1>3, KeptAll DEF People
    <3>2. e \notin disturbed
      BY <1>1, <1>8, <2>2
    <3>3. QED
      BY <1>3, <1>4, <1>5, <1>8, <2>2, <3>1, <3>2, Bystander
  <2>3. QED
    BY <2>1, <2>2
<1>9. QED
  BY <1>6, <1>7, <1>8 DEF FollowInv

LEMMA FollowFinish ==
    ASSUME FollowInv, [Next]_vars, NEW w \in Worker, Finish(w)
    PROVE  FollowInv'
<1>1. PICK k : k = job[w] /\ k \in JobRecords /\ PeopleOK /\ job \in [Worker -> JobRecords]
  BY FollowWorker
<1>2. /\ pc[w] = "contributing" /\ k.linked = <<>>
      /\ UNCHANGED <<sourceRecords, equivalences, externals, ghosts, recordedBy, disturbed, regrouped>>
      /\ contributions' = {c \in contributions : c[1] = k.document => c[2] \in k.current}
      /\ orphans' = orphans \ {k.document}
  BY <1>1 DEF Finish, Stale, personVars, historyVars
<1>3. PICK place, j : /\ pc' = [pc EXCEPT ![w] = place] /\ job' = [job EXCEPT ![w] = j]
                      /\ place \in {"idle", "starting"} /\ j.document = ""
  <2>1. CASE Ends(w)
    <3>1. NoJob.document = ""
      BY DEF NoJob, Job
    <3>2. QED
      BY <2>1, <3>1 DEF Ends, Goes
  <2>2. CASE Goes(w, "starting") /\ job' = [job EXCEPT ![w] = Job(job[w].event, job[w].todo)]
    <3>1. Job(job[w].event, job[w].todo).document = ""
      BY DEF Job
    <3>2. QED
      BY <2>2, <3>1 DEF Goes
  <2>3. QED
    BY <2>1, <2>2 DEF Finish
<1>4. \A d : Kept(d, {}) /\ Spared(d, {})
  BY <1>2, KeptAll DEF People
<1>5. ASSUME NEW d \in Document, d = k.document, DocumentOK(d)
      PROVE  DocumentOK(d)'
  <2>1. w \in On(d) /\ On(d) \subseteq {w} /\ Progress(d, "contributing", k)
    BY <1>1, <1>2, <1>5 DEF DocumentOK, On
  <2>2. Contributing(d, k)
    BY <2>1 DEF Progress
  <2>3. PICK S : S = k.current
    OBVIOUS
  <2>4. Chosen(k) = S
    BY <1>2, <2>3, NobodyLinked DEF Chosen
  <2>5. ContributorsOf(d)' = S
    BY <1>2, <1>5, <2>2, <2>3 DEF Contributing, ContributorsOf
  <2>6. Gathered(d, S)' /\ Recording(d, S)'
    BY <1>4, <2>2, <2>4, GatheredStays, RecordingStays DEF Contributing
  <2>7. Followed(d)'
    BY <1>2, <1>5, <2>5, <2>6 DEF Followed, Gathered, Recording, InCommon
  <2>8. On(d)' = {}
    <3>1. "" \notin Document
      BY FollowWorker
    <3>2. QED
      BY <1>1, <1>3, <1>5, <2>1, <3>1 DEF On
  <2>9. QED
    BY <2>7, <2>8 DEF DocumentOK
<1>6. \A d : d # k.document => \A r : <<d, r>> \in contributions' <=> <<d, r>> \in contributions
  BY <1>2
<1>7. QED
  BY <1>1, <1>2, <1>3, <1>4, <1>5, <1>6, FollowStep

LEMMA FollowStops ==
    ASSUME FollowInv, [Next]_vars, NEW w \in Worker, GiveUp(w) \/ FailCall(w) \/ Fail(w)
    PROVE  FollowInv'
<1>1. /\ UNCHANGED <<sourceRecords, equivalences, externals, ghosts, recordedBy, contributions,
                     orphans, regrouped>>
      /\ disturbed \subseteq disturbed'
      /\ disturbed' = disturbed \cup {job[w].document}
           \/ disturbed' = disturbed \cup ({job[w].document} \ {""})
      /\ Ends(w)
  BY DEF GiveUp, FailCall, Fail, Returned, personVars, contributionVars
<1>2. PICK j : j = NoJob
  OBVIOUS
<1>3. /\ pc' = [pc EXCEPT ![w] = "idle"] /\ job' = [job EXCEPT ![w] = j] /\ j.document = ""
  BY <1>1, <1>2 DEF Ends, Goes, NoJob, Job
<1>4. \A d : Kept(d, {}) /\ Spared(d, {})
  BY <1>1, KeptAll DEF People
<1>5. \A d \in Document \ disturbed' : d # job[w].document
  <2>1. "" \notin Document
    BY FollowWorker
  <2>2. QED
    BY <1>1, <2>1
<1>6. QED
  BY <1>1, <1>3, <1>4, <1>5, FollowStep

LEMMA FollowNext == FollowInv /\ [Next]_vars => FollowInv'
<1> SUFFICES ASSUME FollowInv, [Next]_vars
             PROVE  FollowInv'
  OBVIOUS
<1>1. CASE UNCHANGED vars
  <2>1. UNCHANGED <<sourceRecords, equivalences, externals, ghosts, recordedBy, contributions,
                    orphans, disturbed, regrouped, pc, job>>
    BY <1>1 DEF vars, personVars, contributionVars, historyVars
  <2>2. GhostInv'
    BY GhostNext DEF FollowInv
  <2>3. \A w \in Worker : pc'[w] \in {"idle", "starting"} => job'[w].document = ""
    BY <2>1 DEF FollowInv
  <2>4. ASSUME NEW d \in Document \ disturbed'
        PROVE  DocumentOK(d)'
    <3>1. Kept(d, {}) /\ DocumentOK(d)
      BY <2>1, <2>4, KeptAll DEF People, FollowInv
    <3>2. On(d)' = On(d)
      BY <2>1 DEF On
    <3>3. ASSUME NEW v \in On(d)
          PROVE  Progress(d, pc[v], job[v])'
      <4>1. PICK p, k : p = pc[v] /\ k = job[v] /\ Progress(d, p, k)
        BY <3>1, <3>3 DEF DocumentOK
      <4>2. Progress(d, p, k)'
        BY <2>1, <3>1, <4>1, ProgressStays
      <4>3. QED
        BY <2>1, <4>1, <4>2, ProgressIs
    <3>4. ASSUME Followed(d)
          PROVE  Followed(d)'
      <4>1. PICK S : S = ContributorsOf(d)
        OBVIOUS
      <4>2. Gathered(d, S)' /\ Recording(d, S)'
        BY <3>1, <3>4, <4>1, GatheredStays, RecordingStays DEF Followed
      <4>3. ContributorsOf(d)' = S
        BY <2>1, <4>1 DEF ContributorsOf
      <4>4. QED
        BY <2>1, <3>4, <4>2, <4>3 DEF Followed, Gathered, Recording, InCommon
    <3>5. QED
      BY <3>1, <3>2, <3>3, <3>4 DEF DocumentOK
  <2>5. QED
    BY <2>2, <2>3, <2>4 DEF FollowInv
<1>2. ASSUME NEW w \in Worker, Take(w) \/ Work(w) \/ Fail(w)
      PROVE  FollowInv'
  BY <1>2, FollowTake, FollowStart, FollowRelate, FollowMatch, FollowSearch, FollowCreateExternal,
     FollowMerge, FollowLink, FollowContribute, FollowTreat, FollowFinish, FollowStops
  DEF Work
<1>3. QED
  BY <1>1, <1>2 DEF Next

LEMMA FollowInit == Init => FollowInv
<1> SUFFICES ASSUME Init
             PROVE  FollowInv
  OBVIOUS
<1>1. GhostInv
  BY GhostInit
<1>2. \A w \in Worker : job[w].document = ""
  BY DEF Init, NoJob, Job
<1>3. ASSUME NEW d \in Document
      PROVE  DocumentOK(d)
  <2>1. On(d) = {}
    BY <1>2, ContributionsAssumption DEF On
  <2>2. PeopleOf(d) = {} /\ ContributorsOf(d) = {} /\ d \notin orphans
    BY DEF Init, PeopleOf, ContributorsIn, ContributionsIn, ContributorsOf
  <2>3. QED
    BY <2>1, <2>2 DEF DocumentOK, Followed, Gathered, Recording
<1>4. QED
  BY <1>1, <1>2, <1>3 DEF FollowInv

(***************************************************************************)
(* The contributors of a document that was recomputed record the source    *)
(* people of its records, and no others contribute to it, for any records, *)
(* people, organizations and workers, and whatever fails: what other       *)
(* documents take from it since, or while it is recomputed, is the only    *)
(* exception.                                                              *)
(***************************************************************************)
THEOREM ContributorsFollow == Spec => []ContributorsFollowRecords
<1>1. FollowInv => ContributorsFollowRecords
  <2> SUFFICES ASSUME FollowInv, NEW d \in Document, Settled(d)
               PROVE  LET people == ContributorsIn(sourceRecords[d])
                          contributors(p) == {q \in RecordersOf(p) : <<d, q>> \in contributions}
                      IN  /\ d \notin orphans
                          /\ \A p \in people : contributors(p) # {}
                          /\ d \notin regrouped =>
                                \A p \in people : \A q \in people \cap Equivalents(p) :
                                    contributors(p) \cap contributors(q) # {}
                          /\ \A c \in contributions : c[1] = d => RecordedOf(c[2]) \cap people # {}
    BY DEF ContributorsFollowRecords
  <2>1. Followed(d)
    BY DEF Settled, Due, On, FollowInv, DocumentOK
  <2>2. PICK S : S = ContributorsOf(d)
    OBVIOUS
  <2>3. /\ d \notin orphans
        /\ \A p, q \in PeopleOf(d) : Together(d, p, q) => InCommon(S, p, q)
        /\ \A r \in S : \E p \in PeopleOf(d) : Records(r, p)
    BY <2>1, <2>2 DEF Followed, Gathered, Recording
  <2>4. \A p, r : r \in S /\ Records(r, p) =>
          r \in {q \in RecordersOf(p) : <<d, q>> \in contributions}
    BY <2>2 DEF ContributorsOf, Records, RecordersOf
  <2>5. ASSUME NEW p \in PeopleOf(d), NEW q \in PeopleOf(d), Together(d, p, q)
        PROVE  \E r : /\ r \in {t \in RecordersOf(p) : <<d, t>> \in contributions}
                      /\ r \in {t \in RecordersOf(q) : <<d, t>> \in contributions}
    BY <2>3, <2>4, <2>5 DEF InCommon
  <2>6. ASSUME NEW c \in contributions, c[1] = d
        PROVE  RecordedOf(c[2]) \cap PeopleOf(d) # {}
    <3>1. c = <<d, c[2]>> /\ c[2] \in AnyPerson
      <4>1. PeopleOK
        BY DEF FollowInv, GhostInv, TypeInv
      <4>2. c \in Document \X People /\ People \subseteq AnyPerson
        BY <4>1 DEF PeopleOK, People, AnyPerson
      <4>3. QED
        BY <2>6, <4>2
    <3>2. c[2] \in S
      BY <2>2, <2>6, <3>1 DEF ContributorsOf
    <3>3. PICK p \in PeopleOf(d) : <<c[2], p>> \in recordedBy
      BY <2>3, <3>2 DEF Records
    <3>4. p \in RecordedOf(c[2])
      BY <3>3 DEF RecordedOf
    <3>5. QED
      BY <3>4
  <2>7. PeopleOf(d) = ContributorsIn(sourceRecords[d])
    BY DEF PeopleOf
  <2>8. QED
    BY <2>3, <2>5, <2>6, <2>7 DEF Together, Same
<1>2. QED
  BY <1>1, FollowInit, FollowNext, PTL DEF Spec

=============================================================================
