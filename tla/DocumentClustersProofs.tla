----------------------- MODULE DocumentClustersProofs -----------------------
(***************************************************************************)
(* Proofs about the documents of clusters of equivalent records, for any   *)
(* number of records and identifiers.                                      *)
(***************************************************************************)
EXTENDS DocumentClusters, WellFoundedInduction, TLAPS

---------------------------------------------------------------------------
(* What is reached through pairs of records. *)

Graph(pairs) == pairs \subseteq SUBSET Record

LEMMA ReachedIn ==
    ASSUME NEW r \in Record, NEW P
    PROVE  Reached(r, P) \in SUBSET Record /\ r \in Reached(r, P)
BY DEF Reached

LEMMA ReachedLeast ==
    ASSUME NEW r \in Record, NEW P, NEW S \in SUBSET Record, r \in S, Closed(S, P)
    PROVE  Reached(r, P) \subseteq S
BY DEF Reached

LEMMA ReachedClosed ==
    ASSUME NEW r \in Record, NEW P, Graph(P)
    PROVE  Closed(Reached(r, P), P)
<1> SUFFICES ASSUME NEW p \in P, p \cap Reached(r, P) # {}, NEW y \in p
             PROVE  y \in Reached(r, P)
  BY DEF Closed
<1>1. PICK x \in p : x \in Reached(r, P)
  OBVIOUS
<1>2. y \in Record
  BY DEF Graph
<1>3. ASSUME NEW S \in SUBSET Record, r \in S, Closed(S, P)
      PROVE  y \in S
  <2>1. x \in S
    BY <1>1, <1>3 DEF Reached
  <2>2. QED
    BY <1>3, <2>1 DEF Closed
<1>4. QED
  BY <1>2, <1>3 DEF Reached

\* A pair within what is reached leads from each end to the other.
LEMMA ReachedByPair ==
    ASSUME NEW P, Graph(P), NEW a \in Record, NEW b \in Record, {a, b} \in P
    PROVE  b \in Reached(a, P)
BY ReachedIn, ReachedClosed DEF Closed

LEMMA ReachedBack ==
    ASSUME NEW P, Graph(P), NEW r \in Record, NEW s \in Reached(r, P)
    PROVE  r \in Reached(s, P)
<1>1. s \in Record
  BY ReachedIn
<1>2. SUFFICES ASSUME r \notin Reached(s, P)
               PROVE  FALSE
  OBVIOUS
<1> DEFINE rest == Record \ Reached(s, P)
<1>3. Closed(rest, P)
  <2> SUFFICES ASSUME NEW p \in P, p \cap rest # {}, ~ (p \subseteq rest)
               PROVE  FALSE
    BY DEF Closed
  <2>1. p \cap Reached(s, P) # {}
    BY DEF Graph
  <2>2. p \subseteq Reached(s, P)
    BY <1>1, <2>1, ReachedClosed DEF Closed
  <2>3. QED
    BY <2>2
<1>4. Reached(r, P) \subseteq rest
  BY <1>2, <1>3, ReachedLeast
<1>5. QED
  BY <1>1, <1>4, ReachedIn

LEMMA ReachedSame ==
    ASSUME NEW P, Graph(P), NEW r \in Record, NEW s \in Reached(r, P)
    PROVE  Reached(s, P) = Reached(r, P)
<1>1. s \in Record
  BY ReachedIn
<1>2. Reached(s, P) \subseteq Reached(r, P)
  BY <1>1, ReachedIn, ReachedClosed, ReachedLeast
<1>3. r \in Reached(s, P)
  BY ReachedBack
<1>4. Reached(r, P) \subseteq Reached(s, P)
  BY <1>1, <1>3, ReachedIn, ReachedClosed, ReachedLeast
<1>5. QED
  BY <1>2, <1>4

(***************************************************************************)
(* When the pairs of P within what P reaches are in Q, Q reaches it too.   *)
(***************************************************************************)
LEMMA ReachedKept ==
    ASSUME NEW P, NEW Q, Graph(P), Graph(Q), NEW r \in Record,
           \A p \in P : p \subseteq Reached(r, P) => p \in Q
    PROVE  Reached(r, P) \subseteq Reached(r, Q)
<1> DEFINE both == Reached(r, P) \cap Reached(r, Q)
<1>1. Closed(both, P)
  <2> SUFFICES ASSUME NEW p \in P, p \cap both # {}
               PROVE  p \subseteq both
    BY DEF Closed
  <2>1. p \subseteq Reached(r, P)
    BY ReachedClosed DEF Closed
  <2>2. p \subseteq Reached(r, Q)
    BY <2>1, ReachedClosed DEF Closed
  <2>3. QED
    BY <2>1, <2>2
<1>2. r \in both /\ both \in SUBSET Record
  BY ReachedIn
<1>3. QED
  BY <1>1, <1>2, ReachedLeast

\* Pairs of records that are reached from each other add nothing.
LEMMA ReachedCompleted ==
    ASSUME NEW P, NEW Q, Graph(P), Graph(Q), NEW r \in Record,
           P \subseteq Q, \A q \in Q : \A a \in q : q \subseteq Reached(a, P)
    PROVE  Reached(r, P) = Reached(r, Q)
<1>1. Reached(r, P) \subseteq Reached(r, Q)
  BY ReachedKept
<1>2. Closed(Reached(r, P), Q)
  <2> SUFFICES ASSUME NEW q \in Q, NEW a \in q, a \in Reached(r, P)
               PROVE  q \subseteq Reached(r, P)
    BY DEF Closed
  <2>1. q \subseteq Reached(a, P)
    OBVIOUS
  <2>2. QED
    BY <2>1, ReachedSame
<1>3. Reached(r, Q) \subseteq Reached(r, P)
  BY <1>2, ReachedIn, ReachedLeast
<1>4. QED
  BY <1>1, <1>3

LEMMA ReachedWithin ==
    ASSUME NEW P, NEW S \in SUBSET Record, P \subseteq SUBSET S, NEW r \in S
    PROVE  Reached(r, P) \subseteq S
<1>1. Closed(S, P)
  BY DEF Closed
<1>2. QED
  BY <1>1, ReachedLeast

---------------------------------------------------------------------------
(* The inductive invariants. *)

CopyMaps == UNION {[D -> SUBSET Record] : D \in SUBSET Doc}
Messages == [record : Record \cup {0}, identifiers : SUBSET Identifier, merged : SUBSET Doc]
Jobs == [message : Messages, service : Service, origin : Record \cup {0},
         shared : SUBSET Record, equivalent : SUBSET Record, copies : CopyMaps,
         flagged : SUBSET Doc, main : Doc \cup {0}, left : SUBSET (Record \cup Doc),
         document : Doc \cup {0}, read : SUBSET Record]

(***************************************************************************)
(* The local variables of a worker are about records and documents there   *)
(* are; a document read to be written is new only if it is alone.          *)
(***************************************************************************)
Typed(place, j) ==
    /\ place # "idle" /\ j.message.merged = {} => j.message.record \in Record
    /\ j.message.merged \subseteq documents
    /\ place = "received" => j.origin = j.message.record
    /\ place \in {"stored", "detaching", "gathering"} => j.origin \in present
    /\ place = "detaching" =>
          j.origin \in j.shared /\ j.shared \subseteq present /\ j.left \subseteq present
    /\ place = "writing" =>
          /\ j.equivalent # {} /\ j.equivalent \subseteq present
          /\ j.main \in DOMAIN j.copies /\ j.left \subseteq DOMAIN j.copies
          /\ \A d \in DOMAIN j.copies : j.copies[d] \subseteq present
          /\ DOMAIN j.copies \subseteq documents \/ DOMAIN j.copies = {j.main}
    /\ place = "signalling" =>
          /\ j.left \subseteq documents /\ j.read \subseteq present
          /\ j.document # 0 => j.document \in j.left
TypeInv ==
    /\ TypeOK
    /\ job \in [Worker -> Jobs]
    /\ \A w \in Worker : Typed(pc[w], job[w])

(***************************************************************************)
(* A document whose flag or metadata are not those of its records is to be *)
(* signalled, or was last recomputed from records that changed meanwhile.  *)
(* A worker that read the records of a document will give it the metadata  *)
(* of these only.                                                          *)
(***************************************************************************)
WillRecompute(place, j, d) ==
    \/ place = "writing" /\ d \in DOMAIN j.copies
    \/ place = "signalling" /\ d \in j.left /\ (j.document = d => j.read = recordedBy[d])
Pending(d) == \E w \in Worker : WillRecompute(pc[w], job[w], d)
Fresh(d) ==
    /\ recordedBy[d] = {} => d \in deleted
    /\ recordedBy[d] # {} /\ ~ Pending(d) => d \notin deleted /\ computed[d] = recordedBy[d]
FreshInv ==
    /\ TypeInv
    /\ errors = 0 => \A d \in documents \ overtaken : Fresh(d)

(***************************************************************************)
(* One worker: the list of the other service is empty, and a link that is  *)
(* missing or without reason is about a record that waits.                 *)
(***************************************************************************)
OneWorker == \E w : Worker = {w}

Listing(list) == {list[i] : i \in DOMAIN list}
Faults == (inferred \ Linked) \cup (Linked \ inferred)
FaultsMeet(S) == \A p \in Faults : p \cap S # {}
Listed(place, j) == \A s \in Service :
    place \in {"idle", "received", "stored"} \/ s # j.service => waiting[s] = <<>>
Links(place, j, list) ==
    /\ place \in {"idle", "received"} => Faults = {}
    /\ place = "stored" => FaultsMeet(Reached(j.origin, Sharing) \cup Reached(j.origin, inferred))
    /\ place = "detaching" =>
          /\ j.shared = Reached(j.origin, Sharing) /\ j.shared \cap j.left = {}
          /\ \A p \in inferred : p \cap j.shared # {} => p \subseteq j.shared \cup j.left
          /\ FaultsMeet(j.shared \cup j.left \cup Listing(list))
    /\ place \in {"gathering", "writing", "signalling"} => FaultsMeet(Listing(list))
LinkInv ==
    /\ TypeInv
    /\ \A w \in Worker : /\ Listed(pc[w], job[w])
                          /\ Links(pc[w], job[w], waiting[job[w].service])

(***************************************************************************)
(* One worker: a record that is not in the one document of its cluster     *)
(* (what links and assertions lead to) is in a cluster with a record that  *)
(* waits; while documents are written, those not yet written are as read.  *)
(***************************************************************************)
Cluster(x) == Reached(x, inferred \cup asserted)
Lone(x) == \A d, e \in RecordedIn(x) : d = e
Placed(x) == \E d \in documents : RecordedIn(x) = {d} /\ recordedBy[d] = Cluster(x)
PlacedOrMeets(S) == \A x \in present : Lone(x) /\ (Placed(x) \/ Cluster(x) \cap S # {})

\* Documents while a worker writes them, and the records it does not move.
Keeps(j, d) == IF d = j.main THEN j.equivalent ELSE j.copies[d] \ j.equivalent
Writing(j) ==
    /\ \A c \in j.equivalent : Cluster(c) = j.equivalent
    /\ \A d \in Doc \ DOMAIN j.copies : recordedBy[d] \cap j.equivalent = {}
    /\ \A d \in DOMAIN j.copies :
        /\ d \in j.left => recordedBy[d] = j.copies[d]
        /\ d \notin j.left => d \in documents /\ recordedBy[d] = Keeps(j, d)
        /\ j.copies[d] \cap j.equivalent # {} \/ (j.copies[d] = {} /\ DOMAIN j.copies = {d})
Clusters(place, j, list) ==
    /\ place \in {"idle", "received"} => PlacedOrMeets({})
    /\ place \in {"stored", "gathering"} => PlacedOrMeets(Listing(list) \cup {j.origin})
    /\ place = "detaching" => PlacedOrMeets(Listing(list) \cup j.shared)
    /\ place = "signalling" => PlacedOrMeets(Listing(list))
    /\ place = "writing" =>
        /\ Writing(j)
        /\ \A x \in present \ j.equivalent :
              Lone(x) /\ (Placed(x) \/ Cluster(x) \cap Listing(list) # {})
ClusterInv ==
    /\ LinkInv
    /\ \A d \in Doc \ documents : recordedBy[d] = {}
    /\ \A w \in Worker : Clusters(pc[w], job[w], waiting[job[w].service])

(***************************************************************************)
(* Documents cannot have been merged into each other in circles: those     *)
(* that none of them leads out of have records.                            *)
(***************************************************************************)
Fruitful ==
    \A S \in SUBSET documents :
        S # {} /\ (\A e \in S : heirs[e] \subseteq S) => \E e \in S : recordedBy[e] # {}

(***************************************************************************)
(* One worker: the records of a document do not change between its         *)
(* recomputation's reads and its writes.                                   *)
(***************************************************************************)
UpToDate(place, j) ==
    place = "signalling" /\ j.document # 0 => j.read = recordedBy[j.document]
AloneInv == overtaken = {} /\ errors = 0 /\ \A w \in Worker : UpToDate(pc[w], job[w])
HeirInv == FreshInv /\ ClusterInv /\ AloneInv /\ Fruitful

---------------------------------------------------------------------------
(* Types. *)

LEMMA PairsIn ==
    ASSUME NEW X, NEW S \in SUBSET X, NEW T \in SUBSET X
    PROVE  Pairs(S, T) \subseteq Pairs(X, X) /\ Pairs(S, T) \subseteq SUBSET X
BY DEF Pairs

LEMMA EquivalentsTyped ==
    ASSUME TypeOK, NEW r \in present
    PROVE  /\ Reached(r, Sharing) \subseteq present
           /\ Reached(r, inferred) \subseteq present
           /\ Reached(r, inferred \cup asserted) \subseteq present
<1>1. Sharing \subseteq SUBSET present /\ inferred \subseteq SUBSET present
      /\ inferred \cup asserted \subseteq SUBSET present /\ present \in SUBSET Record
  BY PairsIn DEF TypeOK, Sharing
<1>2. QED
  BY <1>1, ReachedWithin

LEMMA TypedGrows ==
    ASSUME NEW place, NEW j, Typed(place, j), present \subseteq present', documents \subseteq documents'
    PROVE  Typed(place, j)'
BY DEF Typed

LEMMA NewJobTyped ==
    /\ \A m \in Messages : Job(m) \in Jobs
    /\ \A m \in Messages : /\ Job(m).message = m /\ Job(m).origin = m.record
                           /\ Job(m).left = {} /\ Job(m).document = 0 /\ Job(m).read = {}
    /\ NoJob \in Jobs /\ NoJob.message.merged = {} /\ NoJob.message = Message(0, {}, {})
<1>1. NoCopies \in CopyMaps
  <2>1. NoCopies \in [{} -> SUBSET Record]
    BY DEF NoCopies
  <2>2. QED
    BY <2>1 DEF CopyMaps
<1>2. ASSUME NEW m \in Messages
      PROVE  /\ Job(m) \in Jobs /\ Job(m).message = m /\ Job(m).origin = m.record
             /\ Job(m).left = {} /\ Job(m).document = 0 /\ Job(m).read = {}
  BY <1>1 DEF Job, Jobs, Messages, Service
<1>3. Message(0, {}, {}) \in Messages /\ Message(0, {}, {}).merged = {}
  BY DEF Message, Messages
<1>4. QED
  BY <1>2, <1>3 DEF NoJob

LEMMA JobFields ==
    ASSUME NEW j \in Jobs
    PROVE  /\ j.message \in Messages /\ j.service \in Service /\ j.origin \in Record \cup {0}
           /\ j.shared \in SUBSET Record /\ j.equivalent \in SUBSET Record
           /\ j.flagged \in SUBSET Doc /\ j.main \in Doc \cup {0}
           /\ j.left \in SUBSET (Record \cup Doc)
           /\ j.document \in Doc \cup {0} /\ j.read \in SUBSET Record
           /\ DOMAIN j.copies \in SUBSET Doc
           /\ \A d \in DOMAIN j.copies : j.copies[d] \in SUBSET Record
<1>1. j.copies \in CopyMaps
  BY DEF Jobs
<1>2. PICK D \in SUBSET Doc : j.copies \in [D -> SUBSET Record]
  BY <1>1 DEF CopyMaps
<1>3. QED
  BY <1>2 DEF Jobs

(***************************************************************************)
(* A step of w that changes its place and variables to typed ones.         *)
(***************************************************************************)
Grows == present \subseteq present' /\ documents \subseteq documents'
Goes(w, place, j) ==
    /\ pc' = [pc EXCEPT ![w] = place] /\ job' = [job EXCEPT ![w] = j]
    /\ place \in PC /\ j \in Jobs /\ Typed(place, j)'

LEMMA WorkerStep ==
    ASSUME TypeInv, Grows, NEW w \in Worker, NEW place, NEW j, Goes(w, place, j)
    PROVE  /\ pc' \in [Worker -> PC] /\ job' \in [Worker -> Jobs]
           /\ pc'[w] = place /\ job'[w] = j
           /\ \A v \in Worker \ {w} : pc'[v] = pc[v] /\ job'[v] = job[v]
           /\ \A v \in Worker : Typed(pc[v], job[v])'
           /\ \A v \in Worker : job'[v].left \subseteq Record \cup Doc
<1>1. /\ pc' \in [Worker -> PC] /\ job' \in [Worker -> Jobs]
      /\ pc'[w] = place /\ job'[w] = j
      /\ \A v \in Worker \ {w} : pc'[v] = pc[v] /\ job'[v] = job[v]
  BY DEF TypeInv, TypeOK, Goes
<1>2. ASSUME NEW v \in Worker
      PROVE  Typed(pc[v], job[v])'
  <2>1. CASE v = w
    BY <1>1, <2>1 DEF Goes, Typed
  <2>2. CASE v # w
    <3>1. PICK p, k : p = pc[v] /\ k = job[v]
      OBVIOUS
    <3>2. Typed(p, k)'
      BY <3>1, TypedGrows DEF TypeInv, Grows
    <3>3. QED
      BY <1>1, <2>2, <3>1, <3>2 DEF Typed
  <2>3. QED
    BY <2>1, <2>2
<1>3. \A v \in Worker : job'[v].left \subseteq Record \cup Doc
  BY <1>1, JobFields
<1>4. QED
  BY <1>1, <1>2, <1>3

LEMMA TypeInit == Init => TypeInv
<1> SUFFICES ASSUME Init
             PROVE  TypeInv
  OBVIOUS
<1>1. present \in SUBSET Record /\ identifiers \in [Record -> SUBSET Identifier]
  BY DEF Init
<1>2. \A r \in present : Reached(r, Sharing) \subseteq present
  <2>1. Sharing \subseteq SUBSET present
    BY PairsIn DEF Sharing
  <2>2. QED
    BY <1>1, <2>1, ReachedWithin
<1>3. inferred \subseteq Pairs(present, present) /\ asserted \subseteq Pairs(present, present)
  BY DEF Init, Linked
<1>4. documents \subseteq present /\ documents \subseteq Doc /\ deleted = {}
  <2>1. documents \subseteq present /\ deleted = {}
    BY DEF Init
  <2>2. Record \subseteq Doc
    BY ClustersAssumption DEF Record, Doc
  <2>3. QED
    BY <1>1, <2>1, <2>2
<1>5. recordedBy \in [Doc -> SUBSET present] /\ computed = recordedBy
  BY <1>2, <1>4 DEF Init
<1>6. heirs \in [Doc -> SUBSET documents] /\ waiting \in [Service -> Seq(present)]
  BY DEF Init
<1>7. pc = [v \in Worker |-> "idle"] /\ job = [v \in Worker |-> NoJob]
  BY DEF Init
<1>8. job \in [Worker -> Jobs] /\ pc \in [Worker -> PC]
  BY <1>7, NewJobTyped DEF PC
<1>9. \A v \in Worker : job[v].left \subseteq Record \cup Doc
  BY <1>8, JobFields
<1>10. \A v \in Worker : Typed(pc[v], job[v])
  BY <1>7, NewJobTyped DEF Typed
<1>11. events \in Nat /\ errors \in Nat /\ overtaken = {}
  BY DEF Init
<1>12. QED
  BY <1>1, <1>3, <1>4, <1>5, <1>6, <1>8, <1>9, <1>10, <1>11 DEF TypeInv, TypeOK

GraphTyped ==
    /\ present \subseteq Record
    /\ identifiers \in [Record -> SUBSET Identifier]
    /\ inferred \subseteq Pairs(present, present)
    /\ asserted \subseteq Pairs(present, present)
    /\ documents \subseteq Doc /\ deleted \subseteq documents
    /\ recordedBy \in [Doc -> SUBSET present]
    /\ computed \in [Doc -> SUBSET present] /\ overtaken \subseteq documents
    /\ heirs \in [Doc -> SUBSET documents]
    /\ waiting \in [Service -> Seq(present)]
    /\ events \in Nat /\ errors \in Nat

LEMMA TypedStep ==
    ASSUME TypeInv, Grows, NEW w \in Worker, NEW place, NEW j, Goes(w, place, j), GraphTyped'
    PROVE  TypeInv'
BY WorkerStep DEF TypeInv, TypeOK, GraphTyped

\* What a worker is about, as facts.
LEMMA Working ==
    ASSUME TypeInv, NEW w \in Worker
    PROVE  /\ GraphTyped
           /\ pc[w] \in PC /\ job[w] \in Jobs /\ Typed(pc[w], job[w])
           /\ job[w].message \in Messages /\ job[w].service \in Service
           /\ waiting[job[w].service] \in Seq(present)
BY JobFields DEF TypeInv, TypeOK, GraphTyped

LEMMA ReceiveTyped ==
    ASSUME TypeInv, NEW w \in Worker, ReceiveRecord(w) \/ ReceiveMerge(w)
    PROVE  TypeInv'
<1>1. PICK r \in Record \cup {0}, ids \in SUBSET Identifier, merged \in SUBSET documents :
         Receives(w, r, ids, merged) /\ (merged = {} => r \in Record)
  BY DEF ReceiveRecord, ReceiveMerge
<1>2. PICK m : m = Message(r, ids, merged)
  OBVIOUS
<1>3. m \in Messages /\ m.record = r /\ m.merged = merged
  BY <1>2, Working DEF Message, Messages, GraphTyped
<1>4. PICK j : j = Job(m)
  OBVIOUS
<1>5. j \in Jobs /\ j.message = m /\ j.origin = r
  BY <1>3, <1>4, NewJobTyped
<1>6. /\ pc' = [pc EXCEPT ![w] = "received"] /\ job' = [job EXCEPT ![w] = j]
      /\ UNCHANGED <<recordVars, linkVars, documentVars, waiting, errors>> /\ events' = events + 1
  BY <1>1, <1>2, <1>4 DEF Receives
<1>7. Grows /\ GraphTyped'
  BY <1>6, Working DEF Grows, GraphTyped, recordVars, linkVars, documentVars
<1>8. Typed("received", j)'
  BY <1>1, <1>3, <1>5, <1>6 DEF Typed, documentVars
<1>9. QED
  BY <1>5, <1>6, <1>7, <1>8, TypedStep DEF Goes, PC

LEMMA StoreTyped ==
    ASSUME TypeInv, NEW w \in Worker, Store(w)
    PROVE  TypeInv'
<1>1. PICK j : j = job[w]
  OBVIOUS
<1>2. /\ j \in Jobs /\ Typed("received", j) /\ j.message \in Messages /\ j.message.merged = {}
      /\ j.message.record \in Record /\ j.origin = j.message.record /\ pc[w] = "received"
  BY <1>1, Working DEF Store, Typed
<1>3. /\ present' = present \cup {j.origin} /\ documents' = documents
      /\ identifiers' = [identifiers EXCEPT ![j.origin] = j.message.identifiers]
      /\ pc' = [pc EXCEPT ![w] = "stored"] /\ job' = [job EXCEPT ![w] = j]
      /\ UNCHANGED <<linkVars, documentVars, waiting, countVars>>
  <2>1. job = [job EXCEPT ![w] = j]
    BY <1>1 DEF TypeInv
  <2>2. QED
    BY <1>1, <1>2, <2>1 DEF Store, documentVars
<1>4. Typed("stored", j)'
  BY <1>2, <1>3 DEF Typed
<1>5. GraphTyped'
  <2>1. GraphTyped
    BY Working
  <2>2. Pairs(present, present) \subseteq Pairs(present', present')
    BY <1>3, PairsIn
  <2>3. waiting \in [Service -> Seq(present')]
    BY <2>1, <1>3 DEF GraphTyped
  <2>4. j.message.identifiers \subseteq Identifier
    BY <1>2 DEF Messages
  <2>5. QED
    BY <1>2, <1>3, <2>1, <2>2, <2>3, <2>4
    DEF GraphTyped, linkVars, documentVars, countVars
<1>6. QED
  BY <1>2, <1>3, <1>4, <1>5, TypedStep DEF Goes, Grows, PC

LEMMA AssertedTyped ==
    ASSUME NEW S, NEW groups \in SUBSET SUBSET S
    PROVE  Asserted(groups) \subseteq Pairs(S, S)
<1> SUFFICES ASSUME NEW g \in groups, NEW h \in groups
             PROVE  Pairs(g, h) \subseteq Pairs(S, S)
  BY DEF Asserted
<1>1. QED
  BY PairsIn

LEMMA MergeTyped ==
    ASSUME TypeInv, NEW w \in Worker, Merge(w)
    PROVE  TypeInv'
<1> DEFINE groups == {recordedBy[d] : d \in job[w].message.merged}
<1>1. GraphTyped /\ job[w] \in Jobs /\ Typed("received", job[w]) /\ pc[w] = "received"
  BY Working DEF Merge
<1>2. groups \in SUBSET SUBSET present
  BY <1>1 DEF Typed, GraphTyped
<1>3. GraphTyped' /\ Grows
  BY <1>1, <1>2, AssertedTyped
  DEF Merge, GraphTyped, Grows, recordVars, documentVars, countVars
<1>4. CASE UNION groups = {}
  <2>1. pc' = [pc EXCEPT ![w] = "idle"] /\ job' = [job EXCEPT ![w] = NoJob]
    BY <1>4 DEF Merge
  <2>2. Typed("idle", NoJob)'
    BY NewJobTyped DEF Typed
  <2>3. QED
    BY <1>3, <2>1, <2>2, NewJobTyped, TypedStep DEF Goes, PC
<1>5. CASE UNION groups # {}
  <2>1. PICK r \in present :
          /\ job' = [job EXCEPT ![w].origin = r, ![w].service = w]
          /\ pc' = [pc EXCEPT ![w] = "stored"]
    BY <1>2, <1>5 DEF Merge
  <2>2. PICK j : j = [job[w] EXCEPT !.origin = r, !.service = w]
    OBVIOUS
  <2>3. j \in Jobs /\ j.origin = r /\ j.message = job[w].message
    BY <1>1, <2>2 DEF Jobs, GraphTyped, Service
  <2>4. job' = [job EXCEPT ![w] = j]
    BY <2>1, <2>2 DEF TypeInv
  <2>5. Typed("stored", j)'
    BY <1>1, <1>3, <2>3 DEF Typed, Grows
  <2>6. QED
    BY <1>3, <2>1, <2>3, <2>5, <2>4, TypedStep DEF Goes, PC
<1>6. QED
  BY <1>4, <1>5

(***************************************************************************)
(* What a scan does to the variables of its worker.                        *)
(***************************************************************************)
ScannedJob(w, r, j) ==
    /\ j \in Jobs /\ j.message = job[w].message /\ j.service = job[w].service
    /\ j.origin = r /\ j.shared = Reached(r, Sharing)
    /\ j.left = (UNION {Reached(s, inferred) : s \in Reached(r, Sharing)}) \ j.shared

LEMMA ScanIs ==
    ASSUME TypeInv, NEW w \in Worker, NEW list \in Seq(present), list # <<>>, Scans(w, list)
    PROVE  /\ Head(list) \in present /\ Tail(list) \in Seq(present)
           /\ waiting' = [waiting EXCEPT ![job[w].service] = Tail(list)]
           /\ pc' = [pc EXCEPT ![w] = "detaching"]
           /\ \E j : ScannedJob(w, Head(list), j) /\ job' = [job EXCEPT ![w] = j]
           /\ Reached(Head(list), Sharing) \subseteq present
           /\ UNION {Reached(s, inferred) : s \in Reached(Head(list), Sharing)} \subseteq present
<1>1. Head(list) \in present /\ Tail(list) \in Seq(present)
  OBVIOUS
<1>2. PICK r \in present : r = Head(list)
  BY <1>1
<1>3. PICK shared \in SUBSET present : shared = Reached(r, Sharing)
  BY EquivalentsTyped DEF TypeInv
<1>4. PICK found \in SUBSET present : 
         found = UNION {Reached(s, inferred) : s \in Reached(r, Sharing)}
  BY <1>3, EquivalentsTyped DEF TypeInv
<1>5. PICK j : j = [job[w] EXCEPT !.origin = r, !.shared = shared, !.left = found \ shared]
  OBVIOUS
<1>6. present \subseteq Record
  BY DEF TypeInv, TypeOK
<1>7. j \in Jobs /\ j.message = job[w].message /\ j.service = job[w].service
      /\ j.origin = r /\ j.shared = shared /\ j.left = found \ shared
  BY <1>5, <1>6, Working DEF Jobs
<1>8. /\ waiting' = [waiting EXCEPT ![job[w].service] = Tail(list)]
      /\ pc' = [pc EXCEPT ![w] = "detaching"] /\ job' = [job EXCEPT ![w] = j]
  BY <1>2, <1>3, <1>4, <1>5 DEF Scans
<1>9. ScannedJob(w, r, j)
  BY <1>3, <1>4, <1>7 DEF ScannedJob
<1>10. QED
  BY <1>1, <1>2, <1>3, <1>4, <1>8, <1>9

LEMMA ScanTyped ==
    ASSUME TypeInv, NEW w \in Worker, NEW list \in Seq(present), list # <<>>, Scans(w, list),
           UNCHANGED <<recordVars, linkVars, documentVars, countVars>>, pc[w] # "idle"
    PROVE  TypeInv'
<1>1. PICK j : ScannedJob(w, Head(list), j) /\ job' = [job EXCEPT ![w] = j]
  BY ScanIs
<1>2. Head(list) \in present /\ Head(list) \in Record /\ j.origin \in j.shared
  BY <1>1, ScanIs, ReachedIn DEF ScannedJob, TypeInv, TypeOK
<1>3. Typed("detaching", j)'
  BY <1>1, <1>2, ScanIs, Working DEF ScannedJob, Typed, recordVars, documentVars
<1>4. GraphTyped'
  BY ScanIs, Working DEF GraphTyped, recordVars, linkVars, documentVars, countVars
<1>5. QED
  BY <1>1, <1>3, <1>4, ScanIs, TypedStep
  DEF Goes, Grows, PC, ScannedJob, recordVars, documentVars

LEMMA DetachTyped ==
    ASSUME TypeInv, NEW w \in Worker, Detach(w)
    PROVE  TypeInv'
<1>1. PICK r \in job[w].left :
        inferred' = inferred \ Pairs({r}, job[w].shared) /\ Detached(w, r)
  BY DEF Detach
<1>2. PICK j : j = [job[w] EXCEPT !.left = @ \ {r}]
  OBVIOUS
<1>3. /\ job[w] \in Jobs /\ Typed("detaching", job[w]) /\ pc[w] = "detaching"
  BY Working DEF Detach
<1>4. /\ j \in Jobs /\ j.message = job[w].message /\ j.service = job[w].service
      /\ j.origin = job[w].origin /\ j.shared = job[w].shared /\ j.left = job[w].left \ {r}
  BY <1>2, <1>3 DEF Jobs
<1>5. /\ job' = [job EXCEPT ![w] = j] /\ pc' = [pc EXCEPT ![w] = "detaching"]
      /\ waiting' = [waiting EXCEPT ![job[w].service] = Append(@, r)]
      /\ UNCHANGED <<recordVars, asserted, documentVars, countVars>>
  BY <1>1, <1>2, <1>3 DEF Detached, TypeInv, TypeOK
<1>6. Typed("detaching", j)'
  BY <1>3, <1>4, <1>5 DEF Typed, recordVars, documentVars
<1>7. GraphTyped'
  <2>1. r \in present
    BY <1>3 DEF Typed
  <2>2. Append(waiting[job[w].service], r) \in Seq(present)
    BY <2>1, Working
  <2>3. QED
    BY <1>1, <1>5, <2>2, Working DEF GraphTyped, recordVars, documentVars, countVars
<1>8. QED
  BY <1>4, <1>5, <1>6, <1>7, TypedStep DEF Goes, Grows, PC, recordVars, documentVars

LEMMA LinkTyped ==
    ASSUME TypeInv, NEW w \in Worker, Link(w)
    PROVE  TypeInv'
<1>1. PICK j : j = [job[w] EXCEPT !.shared = {}]
  OBVIOUS
<1>2. job[w] \in Jobs /\ Typed("detaching", job[w]) /\ pc[w] = "detaching"
  BY Working DEF Link
<1>3. j \in Jobs /\ j.message = job[w].message /\ j.origin = job[w].origin
  BY <1>1, <1>2 DEF Jobs
<1>4. /\ job' = [job EXCEPT ![w] = j] /\ pc' = [pc EXCEPT ![w] = "gathering"]
      /\ inferred' = inferred \cup Pairs(job[w].shared, job[w].shared)
      /\ UNCHANGED <<recordVars, asserted, documentVars, waiting, countVars>>
  BY <1>1 DEF Link, TypeInv
<1>5. Typed("gathering", j)'
  BY <1>2, <1>3, <1>4 DEF Typed, recordVars, documentVars
<1>6. GraphTyped'
  <2>1. Pairs(job[w].shared, job[w].shared) \subseteq Pairs(present, present)
    BY <1>2, PairsIn DEF Typed
  <2>2. QED
    BY <1>4, <2>1, Working DEF GraphTyped, recordVars, documentVars, countVars
<1>7. QED
  BY <1>3, <1>4, <1>5, <1>6, TypedStep DEF Goes, Grows, PC, recordVars, documentVars

(***************************************************************************)
(* What a worker reads before it writes: either the documents of the       *)
(* equivalents, or a new one if they have none.                            *)
(***************************************************************************)
GatheredJob(w, j) ==
    LET read == DOMAIN j.copies IN
    /\ j \in Jobs /\ j.message = job[w].message /\ j.service = job[w].service
    /\ j.equivalent = Reached(job[w].origin, inferred \cup asserted)
    /\ j.main \in read /\ j.left = read
    /\ \A d \in read : j.copies[d] = recordedBy[d]
    /\ \/ /\ read \subseteq documents
          /\ \A d \in read : \E r \in j.equivalent : r \in recordedBy[d]
          /\ \A r \in j.equivalent : RecordedIn(r) # {} => \E d \in read : d \in RecordedIn(r)
       \/ /\ \A r \in j.equivalent : RecordedIn(r) = {}
          /\ read = {j.main} /\ j.main \notin documents

LEMMA GatherIs ==
    ASSUME TypeInv, NEW w \in Worker, Gather(w)
    PROVE  /\ pc[w] = "gathering" /\ pc' = [pc EXCEPT ![w] = "writing"]
           /\ \E j : GatheredJob(w, j) /\ job' = [job EXCEPT ![w] = j]
           /\ UNCHANGED <<recordVars, linkVars, documentVars, waiting, countVars>>
<1> DEFINE equivalent == Reached(job[w].origin, inferred \cup asserted)
           recorded == {r \in equivalent : RecordedIn(r) # {}}
           first == {{d} : d \in {d \in Unused : \A e \in Unused : d <= e}}
           founds == {f \in [recorded -> documents] : \A r \in recorded : f[r] \in RecordedIn(r)}
           wholes == {{f[r] : r \in recorded} : f \in founds}
<1>1. equivalent \in SUBSET Record
  BY Working, EquivalentsTyped DEF Gather, Typed, TypeInv, TypeOK
<1>2. PICK read \in IF recorded = {} THEN first ELSE wholes :
        \E main \in {d \in read : \A e \in read :
                          Cardinality(recordedBy[d]) >= Cardinality(recordedBy[e])} :
            job' = [job EXCEPT ![w] = [job[w] EXCEPT
                       !.origin = 0, !.equivalent = equivalent, !.main = main, !.left = read,
                       !.copies = [d \in read |-> recordedBy[d]],
                       !.flagged = read \cap deleted]]
  BY DEF Gather
<1>3. \/ recorded = {} /\ read \in first
      \/ recorded # {} /\ read \in wholes
  BY <1>2
<1>4. \A S \in first : \E d \in Unused : S = {d}
  OBVIOUS
<1>5. \A S \in wholes : \E f \in founds : S = {f[r] : r \in recorded}
  OBVIOUS
<1>6. /\ \A r \in equivalent : r \in recorded <=> RecordedIn(r) # {}
      /\ \A f \in founds : f \in [recorded -> documents] /\ \A r \in recorded : f[r] \in RecordedIn(r)
      /\ recorded \subseteq equivalent
  OBVIOUS
<1> HIDE DEF equivalent, recorded, first, founds, wholes
<1>7. PICK main \in read :
            job' = [job EXCEPT ![w] = [job[w] EXCEPT
                       !.origin = 0, !.equivalent = equivalent, !.main = main, !.left = read,
                       !.copies = [d \in read |-> recordedBy[d]],
                       !.flagged = read \cap deleted]]
  BY <1>2
<1>8. \/ /\ read \subseteq documents
         /\ \A d \in read : \E r \in equivalent : r \in recordedBy[d]
         /\ \A r \in equivalent : RecordedIn(r) # {} => \E d \in read : d \in RecordedIn(r)
      \/ /\ \A r \in equivalent : RecordedIn(r) = {}
         /\ read = {main} /\ main \notin documents /\ main \in Doc
  <2>1. CASE recorded = {}
    <3>1. PICK d \in Unused : read = {d}
      BY <2>1, <1>3, <1>4
    <3>2. QED
      BY <2>1, <3>1, <1>6 DEF Unused
  <2>2. CASE recorded # {}
    <3>1. PICK f \in founds : read = {f[r] : r \in recorded}
      BY <2>2, <1>3, <1>5
    <3>2. \A d \in read : \E r \in equivalent : r \in recordedBy[d]
      BY <3>1, <1>6 DEF RecordedIn
    <3>3. \A r \in equivalent : RecordedIn(r) # {} => \E d \in read : d \in RecordedIn(r)
      BY <3>1, <1>6
    <3>4. QED
      BY <3>1, <3>2, <3>3, <1>6
  <2>3. QED
    BY <2>1, <2>2
<1>9. read \subseteq Doc
  BY <1>8 DEF TypeInv, TypeOK
<1>10. PICK copies : copies = [d \in read |-> recordedBy[d]]
  OBVIOUS
<1>11. copies \in CopyMaps /\ DOMAIN copies = read /\ \A d \in read : copies[d] = recordedBy[d]
  BY <1>9, <1>10 DEF CopyMaps, TypeInv, TypeOK
<1>12. PICK j : j = [job[w] EXCEPT
                       !.origin = 0, !.equivalent = equivalent, !.main = main, !.left = read,
                       !.copies = copies, !.flagged = read \cap deleted]
  OBVIOUS
<1>13. job' = [job EXCEPT ![w] = j]
  BY <1>7, <1>10, <1>12
<1>14. /\ j \in Jobs /\ j.message = job[w].message /\ j.service = job[w].service
       /\ j.equivalent = equivalent /\ j.main = main /\ j.left = read /\ j.copies = copies
  BY <1>1, <1>9, <1>11, <1>12, Working DEF Jobs
<1>15. GatheredJob(w, j)
  BY <1>8, <1>11, <1>14 DEF GatheredJob, equivalent
<1>16. QED
  BY <1>13, <1>15 DEF Gather

LEMMA GatherTyped ==
    ASSUME TypeInv, NEW w \in Worker, Gather(w)
    PROVE  TypeInv'
<1>1. PICK j : GatheredJob(w, j) /\ job' = [job EXCEPT ![w] = j]
  BY GatherIs
<1>2. Typed("gathering", job[w]) /\ present \subseteq Record
  BY GatherIs, Working DEF GraphTyped
<1>3. j.equivalent # {} /\ j.equivalent \subseteq present
  <2>1. job[w].origin \in present /\ job[w].origin \in Record
    BY <1>2 DEF Typed
  <2>2. j.equivalent = Reached(job[w].origin, inferred \cup asserted)
    BY <1>1 DEF GatheredJob
  <2>3. job[w].origin \in j.equivalent
    BY <2>1, <2>2, ReachedIn
  <2>4. QED
    BY <2>1, <2>2, <2>3, EquivalentsTyped DEF TypeInv
<1>4. \A d \in DOMAIN j.copies : j.copies[d] \subseteq present
  <2>1. DOMAIN j.copies \subseteq Doc
    BY <1>1, JobFields DEF GatheredJob
  <2>2. QED
    BY <1>1, <2>1 DEF GatheredJob, TypeInv, TypeOK
<1>5. Typed("writing", j)'
  BY <1>1, <1>2, <1>3, <1>4, GatherIs DEF GatheredJob, Typed, recordVars, documentVars
<1>6. GraphTyped'
  BY GatherIs, Working DEF GraphTyped, recordVars, linkVars, documentVars, countVars
<1>7. QED
  BY <1>1, <1>5, <1>6, GatherIs, TypedStep
  DEF GatheredJob, Goes, Grows, PC, recordVars, documentVars

(***************************************************************************)
(* What the write of a document does.                                      *)
(***************************************************************************)
WrittenJob(w, d, place, j) ==
    /\ j \in Jobs /\ j.message = job[w].message /\ j.service = job[w].service
    /\ job[w].left = {d} =>
          /\ place = "signalling" /\ j.left = DOMAIN job[w].copies
          /\ j.document = 0 /\ j.read = {}
    /\ job[w].left # {d} =>
          /\ place = "writing" /\ j.left = job[w].left \ {d}
          /\ j.equivalent = job[w].equivalent /\ j.copies = job[w].copies
          /\ j.main = job[w].main /\ j.flagged = job[w].flagged
Writes(w, d) ==
    /\ documents' = documents \cup {d}
    /\ recordedBy' = [recordedBy EXCEPT ![d] = Kept(w, d)]
    /\ deleted' = IF Flagged(w, d) THEN deleted \cup {d} ELSE deleted \ {d}
    /\ heirs' = IF Kept(w, d) = {} THEN [heirs EXCEPT ![d] = @ \cup {job[w].main}] ELSE heirs
    /\ UNCHANGED <<recordVars, linkVars, computed, overtaken, waiting, countVars>>

LEMMA WriteIs ==
    ASSUME TypeInv, NEW w \in Worker, Write(w)
    PROVE  /\ pc[w] = "writing"
           /\ \E d \in job[w].left :
                /\ Writes(w, d)
                /\ \E place, j : /\ WrittenJob(w, d, place, j)
                                 /\ pc' = [pc EXCEPT ![w] = place] /\ job' = [job EXCEPT ![w] = j]
<1>1. PICK d \in job[w].left :
        /\ Writes(w, d)
        /\ job' = [job EXCEPT ![w] =
                        IF job[w].left = {d}
                        THEN [Job(job[w].message) EXCEPT !.service = job[w].service,
                                                         !.left = Signalled(w)]
                        ELSE [job[w] EXCEPT !.left = @ \ {d}]]
        /\ pc' = [pc EXCEPT ![w] = IF job[w].left = {d} THEN "signalling" ELSE @]
  BY DEF Write, Writes
<1>2. pc[w] = "writing" /\ job[w] \in Jobs
  BY Working DEF Write
<1>3. CASE job[w].left = {d}
  <2>1. PICK k \in Jobs : /\ k = Job(job[w].message) /\ k.message = job[w].message
                           /\ k.document = 0 /\ k.read = {}
    BY NewJobTyped, Working
  <2>2. PICK j : j = [k EXCEPT !.service = job[w].service, !.left = Signalled(w)]
    OBVIOUS
  <2>3. Signalled(w) \in SUBSET Doc /\ Signalled(w) = DOMAIN job[w].copies
    BY <1>2, JobFields DEF Signalled
  <2>4. j \in Jobs /\ j.message = job[w].message /\ j.service = job[w].service
        /\ j.left = Signalled(w) /\ j.document = 0 /\ j.read = {}
    BY <2>1, <2>2, <2>3, Working DEF Jobs
  <2>5. job' = [job EXCEPT ![w] = j] /\ pc' = [pc EXCEPT ![w] = "signalling"]
    BY <1>1, <1>3, <2>1, <2>2
  <2>6. WrittenJob(w, d, "signalling", j)
    BY <1>3, <2>3, <2>4 DEF WrittenJob
  <2>7. QED
    BY <1>1, <1>2, <2>5, <2>6
<1>4. CASE job[w].left # {d}
  <2>1. PICK j : j = [job[w] EXCEPT !.left = @ \ {d}]
    OBVIOUS
  <2>2. /\ j \in Jobs /\ j.message = job[w].message /\ j.service = job[w].service
        /\ j.left = job[w].left \ {d} /\ j.equivalent = job[w].equivalent
        /\ j.copies = job[w].copies /\ j.main = job[w].main /\ j.flagged = job[w].flagged
    BY <1>2, <2>1 DEF Jobs
  <2>3. job' = [job EXCEPT ![w] = j] /\ pc' = [pc EXCEPT ![w] = "writing"]
    <3>1. job' = [job EXCEPT ![w] = j]
      BY <1>1, <1>4, <2>1
    <3>2. pc' = [pc EXCEPT ![w] = "writing"]
      BY <1>1, <1>2, <1>4
    <3>3. QED
      BY <3>1, <3>2
  <2>4. WrittenJob(w, d, "writing", j)
    BY <1>4, <2>2 DEF WrittenJob
  <2>5. QED
    BY <1>1, <1>2, <2>3, <2>4
<1>5. QED
  BY <1>3, <1>4

LEMMA KeptTyped ==
    ASSUME TypeInv, NEW w \in Worker, pc[w] = "writing", NEW d \in job[w].left
    PROVE  /\ d \in Doc /\ d \in DOMAIN job[w].copies
           /\ Kept(w, d) \subseteq present
           /\ Kept(w, d) = {} => d # job[w].main /\ job[w].main \in documents
           /\ DOMAIN job[w].copies \subseteq documents \cup {d}
<1>1. Typed("writing", job[w]) /\ job[w] \in Jobs
  BY Working
<1>2. d \in DOMAIN job[w].copies /\ d \in Doc
  BY <1>1, JobFields DEF Typed
<1>3. QED
  BY <1>1, <1>2 DEF Typed, Kept

LEMMA WriteTyped ==
    ASSUME TypeInv, NEW w \in Worker, Write(w)
    PROVE  TypeInv'
<1>1. pc[w] = "writing" /\ Typed("writing", job[w]) /\ GraphTyped
  BY WriteIs, Working
<1>2. PICK d \in job[w].left :
        /\ Writes(w, d)
        /\ \E place, j : /\ WrittenJob(w, d, place, j)
                         /\ pc' = [pc EXCEPT ![w] = place] /\ job' = [job EXCEPT ![w] = j]
  BY WriteIs
<1>3. PICK place, j : /\ WrittenJob(w, d, place, j)
                      /\ pc' = [pc EXCEPT ![w] = place] /\ job' = [job EXCEPT ![w] = j]
  BY <1>2
<1>4. /\ d \in Doc /\ d \in DOMAIN job[w].copies
      /\ Kept(w, d) \subseteq present
      /\ Kept(w, d) = {} => d # job[w].main /\ job[w].main \in documents
      /\ DOMAIN job[w].copies \subseteq documents \cup {d}
  BY <1>1, KeptTyped
<1>5. GraphTyped'
  <2>1. /\ documents' \subseteq Doc /\ deleted' \subseteq documents'
        /\ recordedBy' \in [Doc -> SUBSET present'] /\ present' = present
    BY <1>1, <1>2, <1>4 DEF GraphTyped, Writes, recordVars
  <2>2. heirs' \in [Doc -> SUBSET documents']
    BY <1>1, <1>2, <1>4 DEF GraphTyped, Writes
  <2>3. QED
    BY <1>1, <1>2, <2>1, <2>2 DEF GraphTyped, Writes, recordVars, linkVars, countVars
<1>6. Typed(place, j)' /\ place \in PC /\ j \in Jobs
  <2>1. documents' = documents \cup {d} /\ present' = present
    BY <1>2 DEF Writes, recordVars
  <2>2. CASE job[w].left = {d}
    BY <1>1, <1>3, <1>4, <2>1, <2>2 DEF WrittenJob, Typed, PC
  <2>3. CASE job[w].left # {d}
    BY <1>1, <1>3, <1>4, <2>1, <2>3 DEF WrittenJob, Typed, PC
  <2>4. QED
    BY <2>2, <2>3
<1>7. QED
  BY <1>2, <1>3, <1>5, <1>6, TypedStep DEF Goes, Grows, Writes, recordVars

LEMMA ReadSourcesIs ==
    ASSUME TypeInv, NEW w \in Worker, ReadSources(w)
    PROVE  /\ UNCHANGED <<recordVars, linkVars, documentVars, waiting, pc, countVars>>
           /\ pc[w] = "signalling" /\ Typed("signalling", job[w]) /\ job[w].document = 0
           /\ \E d \in job[w].left, j \in Jobs :
                /\ job' = [job EXCEPT ![w] = j]
                /\ j.message = job[w].message /\ j.service = job[w].service
                /\ j.left = job[w].left /\ j.document = d /\ j.read = recordedBy[d]
<1>1. PICK d \in job[w].left : job' = [job EXCEPT ![w].document = d, ![w].read = recordedBy[d]]
  BY DEF ReadSources
<1>2. GraphTyped /\ job[w] \in Jobs /\ Typed("signalling", job[w]) /\ pc[w] = "signalling"
  BY Working DEF ReadSources
<1>3. d \in Doc /\ recordedBy[d] \in SUBSET Record
  BY <1>1, <1>2 DEF Typed, GraphTyped
<1>4. PICK j : j = [job[w] EXCEPT !.document = d, !.read = recordedBy[d]]
  OBVIOUS
<1>5. /\ j \in Jobs /\ j.message = job[w].message /\ j.service = job[w].service
      /\ j.left = job[w].left /\ j.document = d /\ j.read = recordedBy[d]
  BY <1>2, <1>3, <1>4 DEF Jobs
<1>6. job' = [job EXCEPT ![w] = j]
  BY <1>1, <1>4 DEF TypeInv
<1>7. QED
  BY <1>1, <1>2, <1>5, <1>6 DEF ReadSources

LEMMA ReadSourcesTyped ==
    ASSUME TypeInv, NEW w \in Worker, ReadSources(w)
    PROVE  TypeInv'
<1>1. PICK d \in job[w].left, j \in Jobs :
        /\ job' = [job EXCEPT ![w] = j]
        /\ j.message = job[w].message /\ j.left = job[w].left
        /\ j.document = d /\ j.read = recordedBy[d]
  BY ReadSourcesIs
<1>2. /\ GraphTyped /\ Typed("signalling", job[w])
      /\ pc' = [pc EXCEPT ![w] = "signalling"]
      /\ UNCHANGED <<recordVars, linkVars, documentVars, waiting, countVars>>
  BY Working, ReadSourcesIs DEF TypeInv, TypeOK
<1>3. d \in Doc /\ recordedBy[d] \subseteq present
  BY <1>1, <1>2 DEF Typed, GraphTyped
<1>4. Typed("signalling", j)'
  BY <1>1, <1>2, <1>3 DEF Typed, recordVars, documentVars
<1>5. GraphTyped'
  BY <1>2 DEF GraphTyped, recordVars, linkVars, documentVars, countVars
<1>6. QED
  BY <1>1, <1>2, <1>4, <1>5, TypedStep DEF Goes, Grows, PC, recordVars, documentVars

(***************************************************************************)
(* What a recomputation does to the graph and to its worker.               *)
(***************************************************************************)
Recomputes(d, read) ==
    IF read = {}
    THEN UNCHANGED <<computed, deleted, overtaken>>
    ELSE /\ computed' = [computed EXCEPT ![d] = read]
         /\ deleted' = deleted \ {d}
         /\ overtaken' = IF recordedBy[d] = read THEN overtaken \ {d} ELSE overtaken \cup {d}

LEMMA RecomputeIs ==
    ASSUME TypeInv, NEW w \in Worker, Recompute(w)
    PROVE  /\ pc[w] = "signalling" /\ Typed("signalling", job[w])
           /\ job[w].document \in job[w].left /\ job[w].document \in Doc
           /\ Recomputes(job[w].document, job[w].read)
           /\ UNCHANGED <<recordVars, linkVars, documents, recordedBy, heirs, waiting, pc, countVars>>
           /\ \E j \in Jobs :
                /\ job' = [job EXCEPT ![w] = j]
                /\ j.message = job[w].message /\ j.service = job[w].service
                /\ j.left = job[w].left \ {job[w].document} /\ j.document = 0 /\ j.read = {}
<1>1. GraphTyped /\ job[w] \in Jobs /\ Typed("signalling", job[w]) /\ pc[w] = "signalling"
  BY Working DEF Recompute
<1>2. PICK d : d = job[w].document
  OBVIOUS
<1>3. d \in job[w].left /\ d \in Doc
  BY <1>1, <1>2 DEF Recompute, Typed, GraphTyped
<1>4. PICK j : j = [job[w] EXCEPT !.left = @ \ {d}, !.document = 0, !.read = {}]
  OBVIOUS
<1>5. /\ j \in Jobs /\ j.message = job[w].message /\ j.service = job[w].service
      /\ j.left = job[w].left \ {d} /\ j.document = 0 /\ j.read = {}
  BY <1>1, <1>4 DEF Jobs
<1>6. job' = [job EXCEPT ![w] = j]
  BY <1>2, <1>4 DEF Recompute, TypeInv
<1>7. QED
  BY <1>1, <1>2, <1>3, <1>5, <1>6 DEF Recompute, Recomputes

LEMMA RecomputeTyped ==
    ASSUME TypeInv, NEW w \in Worker, Recompute(w)
    PROVE  TypeInv'
<1>1. PICK d, read : d = job[w].document /\ read = job[w].read
  OBVIOUS
<1>2. PICK j \in Jobs :
        /\ job' = [job EXCEPT ![w] = j]
        /\ j.message = job[w].message /\ j.left = job[w].left \ {d}
        /\ j.document = 0 /\ j.read = {}
  BY <1>1, RecomputeIs
<1>3. /\ GraphTyped /\ Typed("signalling", job[w]) /\ d \in documents /\ d \in Doc
      /\ read \subseteq present /\ pc' = [pc EXCEPT ![w] = "signalling"] /\ Recomputes(d, read)
      /\ UNCHANGED <<recordVars, linkVars, documents, recordedBy, heirs, waiting, countVars>>
  BY <1>1, Working, RecomputeIs DEF Typed, TypeInv, TypeOK
<1>4. Typed("signalling", j)'
  BY <1>2, <1>3 DEF Typed, recordVars
<1>5. GraphTyped'
  <2>1. /\ computed' \in [Doc -> SUBSET present] /\ deleted' \subseteq documents
        /\ overtaken' \subseteq documents
    BY <1>3 DEF GraphTyped, Recomputes
  <2>2. QED
    BY <1>3, <2>1 DEF GraphTyped, recordVars, linkVars, countVars
<1>6. QED
  BY <1>2, <1>3, <1>4, <1>5, TypedStep DEF Goes, Grows, PC, recordVars

LEMMA ContinueTyped ==
    ASSUME TypeInv, NEW w \in Worker, Continue(w)
    PROVE  TypeInv'
<1>1. pc[w] # "idle" /\ UNCHANGED <<recordVars, linkVars, documentVars, countVars>>
  BY DEF Continue
<1>2. CASE waiting[job[w].service] # <<>>
  BY <1>1, <1>2, Working, ScanTyped DEF Continue
<1>3. CASE waiting[job[w].service] = <<>>
  <2>1. pc' = [pc EXCEPT ![w] = "idle"] /\ job' = [job EXCEPT ![w] = NoJob] /\ UNCHANGED waiting
    BY <1>3 DEF Continue
  <2>2. Typed("idle", NoJob)'
    BY NewJobTyped DEF Typed
  <2>3. GraphTyped'
    BY <1>1, <2>1, Working DEF GraphTyped, recordVars, linkVars, documentVars, countVars
  <2>4. QED
    BY <1>1, <2>1, <2>2, <2>3, NewJobTyped, TypedStep DEF Goes, Grows, PC, recordVars, documentVars
<1>4. QED
  BY <1>2, <1>3

LEMMA FailTyped ==
    ASSUME TypeInv, NEW w \in Worker, Fail(w)
    PROVE  TypeInv'
<1>1. /\ UNCHANGED <<recordVars, linkVars, documentVars, events>> /\ errors' = errors + 1
      /\ waiting' = [waiting EXCEPT ![w] = <<>>] /\ pc[w] # "idle"
  BY DEF Fail
<1>2. Typed(pc[w], job[w]) /\ job[w].message \in Messages
  BY Working
<1>3. GraphTyped'
  <2>1. waiting' \in [Service -> Seq(present)]
    <3>1. waiting \in [Service -> Seq(present)] /\ present' = present
      BY <1>1, Working DEF GraphTyped, recordVars
    <3>2. <<>> \in Seq(present)
      OBVIOUS
    <3>3. QED
      BY <1>1, <3>1, <3>2
  <2>2. QED
    BY <1>1, <2>1, Working DEF GraphTyped, recordVars, linkVars, documentVars
<1>4. CASE job[w].message.merged = {}
  <2>1. PICK j : j = Job(job[w].message)
    OBVIOUS
  <2>2. j \in Jobs /\ j.message = job[w].message /\ j.origin = j.message.record
    BY <1>2, <2>1, NewJobTyped
  <2>3. pc' = [pc EXCEPT ![w] = "received"] /\ job' = [job EXCEPT ![w] = j]
    BY <1>4, <2>1 DEF Fail
  <2>4. Typed("received", j)'
    BY <1>1, <1>2, <1>4, <2>2 DEF Typed
  <2>5. QED
    BY <1>1, <1>3, <2>2, <2>3, <2>4, TypedStep DEF Goes, Grows, PC, recordVars, documentVars
<1>5. CASE job[w].message.merged # {}
  <2>1. pc' = [pc EXCEPT ![w] = "idle"] /\ job' = [job EXCEPT ![w] = NoJob]
    BY <1>5 DEF Fail
  <2>2. Typed("idle", NoJob)'
    BY NewJobTyped DEF Typed
  <2>3. QED
    BY <1>1, <1>3, <2>1, <2>2, NewJobTyped, TypedStep DEF Goes, Grows, PC, recordVars, documentVars
<1>6. QED
  BY <1>4, <1>5

LEMMA UpdateTyped ==
    ASSUME TypeInv, NEW w \in Worker, Update(w)
    PROVE  TypeInv'
<1>1. PICK list : list = Append(waiting[job[w].service], job[w].origin)
  OBVIOUS
<1>2. job[w].origin \in present /\ waiting[job[w].service] \in Seq(present)
  BY Working DEF Update, Typed
<1>3. list \in Seq(present) /\ list # <<>>
  BY <1>1, <1>2
<1>4. Scans(w, list) /\ pc[w] # "idle" /\ UNCHANGED <<recordVars, linkVars, documentVars, countVars>>
  BY <1>1 DEF Update
<1>5. QED
  BY <1>3, <1>4, ScanTyped

LEMMA TypeStep == TypeInv /\ [Next]_vars => TypeInv'
<1> SUFFICES ASSUME TypeInv, [Next]_vars
             PROVE  TypeInv'
  OBVIOUS
<1>1. CASE UNCHANGED vars
  BY <1>1 DEF vars, TypeInv, TypeOK, Typed
<1>2. ASSUME NEW w \in Worker, ReceiveRecord(w) \/ ReceiveMerge(w) \/ Work(w) \/ Fail(w)
      PROVE  TypeInv'
  BY <1>2, ReceiveTyped, StoreTyped, MergeTyped, UpdateTyped, DetachTyped, LinkTyped,
     GatherTyped, WriteTyped, ReadSourcesTyped, RecomputeTyped, ContinueTyped, FailTyped DEF Work
<1>3. QED
  BY <1>1, <1>2 DEF Next

(***************************************************************************)
(* Every variable has its type, for any number of workers and failures.    *)
(***************************************************************************)
THEOREM TypeCorrect == Spec => []TypeOK
<1>1. TypeInv => TypeOK
  BY DEF TypeInv
<1>2. QED
  BY <1>1, TypeInit, TypeStep, PTL DEF Spec

---------------------------------------------------------------------------
(* Metadata. *)

LEMMA OthersStay ==
    ASSUME TypeInv, NEW w \in Worker, NEW v \in Worker \ {w},
           ReceiveRecord(w) \/ ReceiveMerge(w) \/ Work(w)
    PROVE  pc'[v] = pc[v] /\ job'[v] = job[v]
<1>1. DOMAIN pc = Worker /\ DOMAIN job = Worker
  BY DEF TypeInv, TypeOK
<1>2. CASE ReceiveRecord(w) \/ ReceiveMerge(w)
  BY <1>1, <1>2 DEF ReceiveRecord, ReceiveMerge, Receives
<1>3. CASE Store(w)
  BY <1>1, <1>3 DEF Store
<1>4. CASE Merge(w)
  BY <1>1, <1>4 DEF Merge
<1>5. CASE Update(w) \/ Continue(w)
  BY <1>1, <1>5 DEF Update, Continue, Scans
<1>6. CASE Detach(w)
  BY <1>1, <1>6 DEF Detach, Detached
<1>7. CASE Link(w)
  BY <1>1, <1>7 DEF Link
<1>8. CASE Gather(w)
  BY <1>1, <1>8 DEF Gather
<1>9. CASE Write(w)
  BY <1>1, <1>9 DEF Write
<1>10. CASE ReadSources(w) \/ Recompute(w)
  BY <1>1, <1>10 DEF ReadSources, Recompute
<1>11. QED
  BY <1>2, <1>3, <1>4, <1>5, <1>6, <1>7, <1>8, <1>9, <1>10 DEF Work

LEMMA NoFailure ==
    ASSUME TypeInv, MaxErrors = 0, NEW w \in Worker
    PROVE  ~ Fail(w)
BY DEF Fail, TypeInv, TypeOK

LEMMA FreshInit == Init => FreshInv
<1> SUFFICES ASSUME Init
             PROVE  FreshInv
  OBVIOUS
<1>1. TypeInv
  BY TypeInit
<1>2. deleted = {} /\ computed = recordedBy
  BY DEF Init
<1>3. ASSUME NEW d \in documents
      PROVE  recordedBy[d] # {}
  <2>1. d \in Doc /\ d \in Record
    BY <1>1 DEF Init, TypeInv, TypeOK
  <2>2. recordedBy[d] = Reached(d, Sharing)
    BY <2>1 DEF Init
  <2>3. QED
    BY <2>1, <2>2, ReachedIn
<1>4. QED
  BY <1>1, <1>2, <1>3 DEF FreshInv, Fresh

(***************************************************************************)
(* What a worker is to recompute depends on what it does itself, and on    *)
(* the records of the document.                                            *)
(***************************************************************************)
LEMMA WillStay ==
    ASSUME NEW place, NEW j, NEW d, recordedBy'[d] = recordedBy[d]
    PROVE  WillRecompute(place, j, d)' <=> WillRecompute(place, j, d)
BY DEF WillRecompute

LEMMA PendingStays ==
    ASSUME NEW w \in Worker, NEW d, recordedBy'[d] = recordedBy[d], Pending(d),
           \A v \in Worker \ {w} : pc'[v] = pc[v] /\ job'[v] = job[v],
           WillRecompute(pc[w], job[w], d) => WillRecompute(pc'[w], job'[w], d)
    PROVE  Pending(d)'
<1>1. PICK v \in Worker : WillRecompute(pc[v], job[v], d)
  BY DEF Pending
<1>2. WillRecompute(pc'[v], job'[v], d)
  BY <1>1
<1>3. PICK place, j : place = pc'[v] /\ j = job'[v]
  OBVIOUS
<1>4. WillRecompute(place, j, d)'
  BY <1>2, <1>3, WillStay
<1>5. WillRecompute(pc[v], job[v], d)'
  BY <1>3, <1>4
<1>6. QED
  BY <1>5 DEF Pending

(***************************************************************************)
(* A step of a worker that holds no document, and that writes none.        *)
(***************************************************************************)
LEMMA FreshQuiet ==
    ASSUME FreshInv, TypeInv', NEW w \in Worker, UNCHANGED <<documentVars, errors>>,
           \A v \in Worker \ {w} : pc'[v] = pc[v] /\ job'[v] = job[v],
           pc[w] \notin {"writing", "signalling"} \/ (pc[w] = "signalling" /\ job[w].left = {})
    PROVE  FreshInv'
<1>1. ASSUME NEW d, Pending(d)
      PROVE  Pending(d)'
  <2>1. ~ WillRecompute(pc[w], job[w], d)
    BY DEF WillRecompute
  <2>2. QED
    BY <1>1, <2>1, PendingStays DEF documentVars
<1>2. \A d \in documents : Fresh(d) => Fresh(d)'
  BY <1>1 DEF Fresh, documentVars
<1>3. QED
  BY <1>2 DEF FreshInv, documentVars

LEMMA FreshWrite ==
    ASSUME FreshInv, TypeInv', NEW w \in Worker, Write(w)
    PROVE  FreshInv'
<1>1. TypeInv /\ pc[w] = "writing"
  BY WriteIs DEF FreshInv
<1>2. PICK d \in job[w].left :
        /\ Writes(w, d)
        /\ \E place, j : /\ WrittenJob(w, d, place, j)
                         /\ pc' = [pc EXCEPT ![w] = place] /\ job' = [job EXCEPT ![w] = j]
  BY <1>1, WriteIs
<1>3. PICK place, j : /\ WrittenJob(w, d, place, j)
                      /\ pc' = [pc EXCEPT ![w] = place] /\ job' = [job EXCEPT ![w] = j]
  BY <1>2
<1>4. pc'[w] = place /\ job'[w] = j
  BY <1>1, <1>3 DEF TypeInv, TypeOK
<1>5. d \in Doc /\ d \in DOMAIN job[w].copies /\ DOMAIN job[w].copies \subseteq Doc
  BY <1>1, KeptTyped, Working, JobFields
<1>6. \A e \in DOMAIN job[w].copies : WillRecompute(place, j, e)'
  <2>1. CASE job[w].left = {d}
    <3>1. place = "signalling" /\ j.left = DOMAIN job[w].copies /\ j.document = 0
      BY <1>3, <2>1 DEF WrittenJob
    <3>2. 0 \notin Doc
      BY DEF Doc
    <3>3. QED
      BY <1>5, <3>1, <3>2 DEF WillRecompute
  <2>2. CASE job[w].left # {d}
    BY <1>3, <2>2 DEF WrittenJob, WillRecompute
  <2>3. QED
    BY <2>1, <2>2
<1>7. \A e \in DOMAIN job[w].copies : Pending(e)'
  BY <1>4, <1>6 DEF Pending, WillRecompute
<1>8. ASSUME NEW e, Pending(e), e # d
      PROVE  Pending(e)'
  <2>1. CASE e \in DOMAIN job[w].copies
    BY <1>7, <2>1
  <2>2. CASE e \notin DOMAIN job[w].copies
    <3>1. ~ WillRecompute(pc[w], job[w], e)
      BY <1>1, <2>2 DEF WillRecompute
    <3>2. recordedBy'[e] = recordedBy[e]
      BY <1>1, <1>2, <1>8 DEF Writes, TypeInv, TypeOK
    <3>3. \A v \in Worker \ {w} : pc'[v] = pc[v] /\ job'[v] = job[v]
      BY <1>1, OthersStay DEF Work
    <3>4. QED
      BY <1>8, <3>1, <3>2, <3>3, PendingStays
  <2>3. QED
    BY <2>1, <2>2
<1>9. ASSUME errors = 0, NEW e \in documents' \ overtaken
      PROVE  Fresh(e)'
  <2>1. CASE e = d
    BY <1>1, <1>2, <1>5, <1>7, <2>1 DEF Fresh, Writes, Flagged, TypeInv, TypeOK
  <2>2. CASE e # d
    <3>1. e \in documents /\ Fresh(e) /\ recordedBy'[e] = recordedBy[e] /\ computed'[e] = computed[e]
      BY <1>1, <1>2, <1>9, <2>2 DEF FreshInv, Writes, TypeInv, TypeOK
    <3>2. e \in deleted' <=> e \in deleted
      BY <1>2, <2>2 DEF Writes
    <3>3. QED
      BY <1>8, <2>2, <3>1, <3>2 DEF Fresh
  <2>3. QED
    BY <2>1, <2>2
<1>10. QED
  BY <1>2, <1>9 DEF FreshInv, Writes, countVars

LEMMA FreshReadSources ==
    ASSUME FreshInv, TypeInv', NEW w \in Worker, ReadSources(w)
    PROVE  FreshInv'
<1>1. TypeInv /\ UNCHANGED <<documentVars, pc, errors>>
  BY ReadSourcesIs DEF FreshInv, countVars
<1>2. PICK d \in job[w].left, j \in Jobs :
        job' = [job EXCEPT ![w] = j] /\ j.left = job[w].left /\ j.document = d /\ j.read = recordedBy[d]
  BY <1>1, ReadSourcesIs
<1>3. job'[w] = j /\ pc'[w] = pc[w] /\ \A v \in Worker \ {w} : pc'[v] = pc[v] /\ job'[v] = job[v]
  BY <1>1, <1>2 DEF TypeInv
<1>4. ASSUME NEW e, Pending(e)
      PROVE  Pending(e)'
  <2>1. WillRecompute(pc[w], job[w], e) => WillRecompute(pc[w], j, e)
    BY <1>1, <1>2, ReadSourcesIs DEF WillRecompute
  <2>2. QED
    BY <1>1, <1>3, <1>4, <2>1, PendingStays DEF documentVars
<1>5. \A e \in documents : Fresh(e) => Fresh(e)'
  BY <1>1, <1>4 DEF Fresh, documentVars
<1>6. QED
  BY <1>1, <1>5 DEF FreshInv, documentVars

LEMMA FreshRecompute ==
    ASSUME FreshInv, TypeInv', NEW w \in Worker, Recompute(w)
    PROVE  FreshInv'
<1>1. PICK d, read : d = job[w].document /\ read = job[w].read
  OBVIOUS
<1>2. /\ TypeInv /\ pc[w] = "signalling" /\ d \in job[w].left /\ d \in Doc
      /\ Recomputes(d, read) /\ UNCHANGED <<documents, recordedBy, pc, errors>>
  BY <1>1, RecomputeIs DEF FreshInv, countVars
<1>3. PICK j \in Jobs :
        job' = [job EXCEPT ![w] = j] /\ j.left = job[w].left \ {d} /\ j.document = 0
  BY <1>1, <1>2, RecomputeIs
<1>4. job'[w] = j /\ pc'[w] = pc[w] /\ \A v \in Worker \ {w} : pc'[v] = pc[v] /\ job'[v] = job[v]
  BY <1>2, <1>3 DEF TypeInv
<1>5. ASSUME NEW e \in Doc, Pending(e), e # d \/ read # recordedBy[d]
      PROVE  Pending(e)'
  <2>1. 0 \notin Doc
    BY DEF Doc
  <2>2. WillRecompute(pc[w], job[w], e) => WillRecompute(pc[w], j, e)
    BY <1>1, <1>2, <1>3, <1>5, <2>1 DEF WillRecompute
  <2>3. QED
    BY <1>2, <1>4, <1>5, <2>2, PendingStays
<1>6. DOMAIN computed = Doc /\ documents \subseteq Doc
  BY <1>2 DEF TypeInv, TypeOK
<1>7. ASSUME errors = 0, NEW e \in documents \ overtaken'
      PROVE  Fresh(e)'
  <2>1. CASE e # d
    <3>1. /\ e \in documents \ overtaken /\ computed'[e] = computed[e]
          /\ e \in deleted' <=> e \in deleted
      BY <1>2, <1>6, <1>7, <2>1 DEF Recomputes
    <3>2. Fresh(e)
      BY <1>7, <3>1 DEF FreshInv
    <3>3. QED
      BY <1>2, <1>5, <1>6, <2>1, <3>1, <3>2 DEF Fresh
  <2>2. CASE e = d /\ read # {}
    BY <1>2, <1>6, <1>7, <2>2 DEF Fresh, Recomputes
  <2>3. CASE e = d /\ read = {}
    <3>1. UNCHANGED <<computed, deleted, overtaken>> /\ Fresh(e)
      BY <1>2, <1>7, <2>3 DEF Recomputes, FreshInv
    <3>2. recordedBy[e] # {} => (Pending(e) => Pending(e)')
      BY <1>2, <1>5, <2>3
    <3>3. QED
      BY <1>2, <3>1, <3>2 DEF Fresh
  <2>4. QED
    BY <2>1, <2>2, <2>3
<1>8. QED
  BY <1>2, <1>7 DEF FreshInv

LEMMA FreshStep == FreshInv /\ [Next]_vars => FreshInv'
<1> SUFFICES ASSUME FreshInv, [Next]_vars
             PROVE  FreshInv'
  OBVIOUS
<1>1. TypeInv /\ TypeInv'
  BY TypeStep DEF FreshInv
<1>2. CASE UNCHANGED vars
  <2>1. UNCHANGED <<documentVars, pc, job, errors>>
    BY <1>2 DEF vars, documentVars
  <2>2. \A d : Pending(d)' <=> Pending(d)
    BY <2>1 DEF Pending, WillRecompute, documentVars
  <2>3. \A d : Fresh(d)' <=> Fresh(d)
    BY <2>1, <2>2 DEF Fresh, documentVars
  <2>4. QED
    BY <1>1, <2>1, <2>3 DEF FreshInv, documentVars
<1>3. ASSUME NEW w \in Worker, ReceiveRecord(w) \/ ReceiveMerge(w) \/ Work(w)
      PROVE  FreshInv'
  <2>1. \A v \in Worker \ {w} : pc'[v] = pc[v] /\ job'[v] = job[v]
    BY <1>1, <1>3, OthersStay
  <2>2. CASE ReceiveRecord(w) \/ ReceiveMerge(w)
    BY <1>1, <2>1, <2>2, FreshQuiet DEF ReceiveRecord, ReceiveMerge, Receives
  <2>3. CASE Store(w) \/ Merge(w) \/ Update(w)
    BY <1>1, <2>1, <2>3, FreshQuiet DEF Store, Merge, Update, countVars
  <2>4. CASE Detach(w) \/ Link(w)
    BY <1>1, <2>1, <2>4, FreshQuiet DEF Detach, Detached, Link, countVars
  <2>5. CASE Gather(w)
    BY <1>1, <2>1, <2>5, FreshQuiet DEF Gather, countVars
  <2>6. CASE Continue(w)
    BY <1>1, <2>1, <2>6, FreshQuiet DEF Continue, countVars
  <2>7. QED
    BY <1>1, <1>3, <2>2, <2>3, <2>4, <2>5, <2>6, FreshWrite, FreshReadSources, FreshRecompute
    DEF Work
<1>4. ASSUME NEW w \in Worker, Fail(w)
      PROVE  FreshInv'
  <2>1. errors' # 0
    BY <1>1, <1>4 DEF Fail, TypeInv, TypeOK
  <2>2. QED
    BY <1>1, <2>1 DEF FreshInv
<1>5. QED
  BY <1>1, <1>2, <1>3, <1>4 DEF Next

(***************************************************************************)
(* Between two messages, and unless one failed, the metadata of a document *)
(* come from the records it has: for any number of workers, whatever they  *)
(* write at the same time, except in a document last recomputed from       *)
(* records that another worker changed before its metadata were written.   *)
(***************************************************************************)
THEOREM MetadataFresh == Spec => []MetadataAreFresh
<1>1. FreshInv => MetadataAreFresh
  <2> SUFFICES ASSUME FreshInv, Settled, errors = 0, NEW d \in documents \ (deleted \cup overtaken)
               PROVE  computed[d] = recordedBy[d]
    BY DEF MetadataAreFresh
  <2>1. ~ Pending(d)
    BY DEF Settled, Pending, WillRecompute
  <2>2. QED
    BY <2>1 DEF FreshInv, Fresh
<1>2. QED
  BY <1>1, FreshInit, FreshStep, PTL DEF Spec

---------------------------------------------------------------------------
(* Links. *)

(***************************************************************************)
(* The pairs of records of S that lead to each other through P.            *)
(***************************************************************************)
Completion(S, P) == {p \in Pairs(S, S) : \A r \in p : p \subseteq Reached(r, P)}

LEMMA PairEnds ==
    ASSUME NEW S, NEW p \in Pairs(S, S)
    PROVE  \E a, b \in S : a # b /\ p = {a, b}
BY DEF Pairs

LEMMA CompletionPair ==
    ASSUME NEW S \in SUBSET Record, NEW P, Graph(P), NEW a \in S, NEW b \in S, a # b
    PROVE  {a, b} \in Completion(S, P) <=> b \in Reached(a, P)
<1>1. {a, b} \in Pairs(S, S)
  BY DEF Pairs
<1>2. ASSUME b \in Reached(a, P)
      PROVE  {a, b} \subseteq Reached(a, P) /\ {a, b} \subseteq Reached(b, P)
  BY <1>2, ReachedIn, ReachedBack
<1>3. QED
  BY <1>1, <1>2 DEF Completion

LEMMA SharingTyped ==
    ASSUME TypeInv
    PROVE  /\ present \in SUBSET Record /\ Graph(Sharing) /\ Graph(inferred) /\ Graph(asserted)
           /\ Graph(inferred \cup asserted)
           /\ Sharing \subseteq SUBSET present /\ Linked = Completion(present, Sharing)
           /\ Faults \subseteq Pairs(present, present)
<1>1. /\ present \in SUBSET Record /\ Pairs(present, present) \subseteq SUBSET present
      /\ inferred \subseteq Pairs(present, present) /\ asserted \subseteq Pairs(present, present)
  BY PairsIn DEF TypeInv, TypeOK
<1>2. Sharing \subseteq Pairs(present, present) /\ Linked \subseteq Pairs(present, present)
  BY DEF Sharing, Linked
<1>3. QED
  BY <1>1, <1>2 DEF Graph, Linked, Completion, Faults

\* What the identifiers of r do not reach does not depend on them.
LEMMA ReachedElsewhere ==
    ASSUME NEW P, NEW Q, Graph(P), Graph(Q), NEW r \in Record, NEW a \in Record,
           \A p \in P : r \notin p => p \in Q, r \notin Reached(a, P)
    PROVE  Reached(a, P) \subseteq Reached(a, Q)
BY ReachedKept

(***************************************************************************)
(* The links to add or to remove once the identifiers of r changed are     *)
(* about records that r shares identifiers with, or had a link with.       *)
(***************************************************************************)
LEMMA ChangeMeets ==
    ASSUME NEW r \in Record, NEW S \in SUBSET Record, NEW T, T = S \cup {r},
           NEW P, P \subseteq SUBSET S, NEW Q, Graph(Q),
           \A p \in SUBSET Record : r \notin p => (p \in P <=> p \in Q),
           NEW p \in Pairs(T, T), p \in Completion(S, P) <=> p \notin Completion(T, Q)
    PROVE  p \cap (Reached(r, Q) \cup Reached(r, Completion(S, P))) # {}
<1>1. SUFFICES ASSUME p \cap (Reached(r, Q) \cup Reached(r, Completion(S, P))) = {}
               PROVE  FALSE
  OBVIOUS
<1>2. PICK a \in T, b \in T : a # b /\ p = {a, b}
  BY PairEnds
<1>3. Graph(P) /\ T \in SUBSET Record /\ Graph(Completion(S, P))
  BY PairsIn DEF Graph, Completion
<1>4. a # r /\ b # r /\ a \in S /\ b \in S
  BY <1>1, <1>2, ReachedIn
<1>5. /\ p \in Completion(S, P) <=> b \in Reached(a, P)
      /\ p \in Completion(T, Q) <=> b \in Reached(a, Q)
  BY <1>2, <1>3, <1>4, CompletionPair
<1>6. CASE p \in Completion(S, P)
  <2>1. r \notin Reached(a, P)
    <3> SUFFICES ASSUME r \in Reached(a, P)
                 PROVE  FALSE
      OBVIOUS
    <3>1. r \in S
      BY <1>4, ReachedWithin
    <3>2. {a, r} \in Completion(S, P)
      BY <3>1, <1>3, <1>4, CompletionPair
    <3>3. {r, a} \in Completion(S, P)
      <4>1. {r, a} = {a, r}
        OBVIOUS
      <4>2. QED
        BY <3>2, <4>1
    <3>4. a \in Reached(r, Completion(S, P))
      BY <3>3, <1>3, <1>4, ReachedByPair
    <3>5. QED
      BY <3>4, <1>1, <1>2
  <2>2. Reached(a, P) \subseteq Reached(a, Q)
    BY <2>1, <1>3, <1>4, ReachedElsewhere DEF Graph
  <2>3. QED
    BY <2>2, <1>5, <1>6
<1>7. CASE p \in Completion(T, Q)
  <2>1. r \notin Reached(a, Q)
    BY <1>1, <1>2, <1>4, ReachedBack
  <2>2. Reached(a, Q) \subseteq Reached(a, P)
    BY <2>1, <1>3, <1>4, ReachedElsewhere DEF Graph
  <2>3. QED
    BY <2>2, <1>5, <1>7
<1>8. QED
  BY <1>6, <1>7

LEMMA Appended ==
    ASSUME NEW S, NEW l \in Seq(S), NEW x \in S
    PROVE  Listing(Append(l, x)) = Listing(l) \cup {x}
<1>1. /\ Append(l, x) \in Seq(S) /\ Len(Append(l, x)) = Len(l) + 1
      /\ \A i \in 1 .. Len(l) : Append(l, x)[i] = l[i]
      /\ Append(l, x)[Len(l) + 1] = x
      /\ DOMAIN l = 1 .. Len(l) /\ DOMAIN Append(l, x) = 1 .. Len(l) + 1 /\ Len(l) \in Nat
  OBVIOUS
<1>2. 1 .. Len(l) + 1 = 1 .. Len(l) \cup {Len(l) + 1}
  BY <1>1
<1>3. QED
  BY <1>1, <1>2 DEF Listing

LEMMA Taken ==
    ASSUME NEW S, NEW l \in Seq(S), l # <<>>
    PROVE  Listing(l) \subseteq Listing(Tail(l)) \cup {Head(l)}
<1>1. /\ DOMAIN l = 1 .. Len(l) /\ Len(l) \in Nat /\ Head(l) = l[1]
      /\ DOMAIN Tail(l) = 1 .. Len(l) - 1
      /\ \A i \in 1 .. Len(l) - 1 : Tail(l)[i] = l[i + 1]
  OBVIOUS
<1>2. ASSUME NEW i \in 1 .. Len(l), i # 1
      PROVE  l[i] \in Listing(Tail(l))
  <2>1. i - 1 \in 1 .. Len(l) - 1 /\ (i - 1) + 1 = i
    BY <1>1, <1>2
  <2>2. QED
    BY <1>1, <2>1 DEF Listing
<1>3. QED
  BY <1>1, <1>2 DEF Listing

(***************************************************************************)
(* A step of the one worker, with what it leaves of its variables and of   *)
(* its list.                                                               *)
(***************************************************************************)
Leaves(w, place, j, list) == pc'[w] = place /\ job'[w] = j /\ waiting'[j.service] = list

LEMMA LinkWorkerStep ==
    ASSUME OneWorker, TypeInv', NEW w \in Worker, NEW place, NEW j, NEW list,
           Leaves(w, place, j, list), Listed(place, j)', Links(place, j, list)'
    PROVE  LinkInv'
<1> SUFFICES ASSUME NEW v \in Worker
             PROVE  (Listed(pc[v], job[v]) /\ Links(pc[v], job[v], waiting[job[v].service]))'
  BY DEF LinkInv
<1>1. v = w
  BY DEF OneWorker
<1>2. QED
  BY <1>1 DEF Leaves

LEMMA LinkOf ==
    ASSUME LinkInv, NEW w \in Worker
    PROVE  /\ TypeInv /\ Listed(pc[w], job[w]) /\ Links(pc[w], job[w], waiting[job[w].service])
           /\ waiting[job[w].service] \in Seq(present) /\ job[w].service \in Service
           /\ job[w] \in Jobs /\ Typed(pc[w], job[w])
           /\ DOMAIN waiting = Service
BY Working DEF LinkInv, GraphTyped

LEMMA FaultsStay ==
    ASSUME UNCHANGED <<recordVars, inferred>>
    PROVE  /\ Faults' = Faults /\ Sharing' = Sharing /\ Linked' = Linked
           /\ \A S : FaultsMeet(S)' <=> FaultsMeet(S)
<1>1. present' = present /\ identifiers' = identifiers /\ inferred' = inferred
  BY DEF recordVars
<1>2. Sharing' = Sharing
  BY <1>1 DEF Sharing
<1>3. Linked' = Linked
  BY <1>1, <1>2 DEF Linked
<1>4. QED
  BY <1>1, <1>2, <1>3 DEF Faults, FaultsMeet

LEMMA LinkInit == Init => LinkInv
<1> SUFFICES ASSUME Init
             PROVE  LinkInv
  OBVIOUS
<1>1. TypeInv /\ Faults = {}
  BY TypeInit DEF Init, Faults
<1>2. ASSUME NEW w \in Worker
      PROVE  Listed(pc[w], job[w]) /\ Links(pc[w], job[w], waiting[job[w].service])
  <2>1. pc[w] = "idle" /\ \A s \in Service : waiting[s] = <<>>
    BY DEF Init
  <2>2. QED
    BY <1>1, <2>1 DEF Listed, Links
<1>3. QED
  BY <1>1, <1>2 DEF LinkInv

LEMMA LinkReceive ==
    ASSUME OneWorker, LinkInv, TypeInv', NEW w \in Worker, ReceiveRecord(w) \/ ReceiveMerge(w)
    PROVE  LinkInv'
<1>1. PICK m : /\ pc' = [pc EXCEPT ![w] = "received"] /\ job' = [job EXCEPT ![w] = Job(m)]
               /\ pc[w] = "idle" /\ UNCHANGED <<recordVars, inferred, waiting>>
  BY DEF ReceiveRecord, ReceiveMerge, Receives, linkVars
<1>2. PICK j, list : j = Job(m) /\ list = waiting[j.service]
  OBVIOUS
<1>3. Leaves(w, "received", j, list)
  BY <1>1, <1>2, LinkOf DEF Leaves, TypeInv, TypeOK
<1>4. Listed("received", j)'
  BY <1>1, LinkOf DEF Listed
<1>5. Faults' = {}
  BY <1>1, LinkOf, FaultsStay DEF Links
<1>6. Links("received", j, list)'
  BY <1>5 DEF Links
<1>7. QED
  BY <1>3, <1>4, <1>6, LinkWorkerStep

LEMMA LinkStore ==
    ASSUME OneWorker, LinkInv, TypeInv', NEW w \in Worker, Store(w)
    PROVE  LinkInv'
<1>1. PICK j, list : j = job[w] /\ list = waiting[j.service]
  OBVIOUS
<1>2. PICK r \in Record : r = j.origin /\ r = j.message.record
  BY <1>1, LinkOf DEF Store, Typed
<1>3. /\ pc[w] = "received" /\ pc' = [pc EXCEPT ![w] = "stored"] /\ present' = present \cup {r}
      /\ identifiers' = [identifiers EXCEPT ![r] = j.message.identifiers]
      /\ UNCHANGED <<inferred, waiting, job>>
  BY <1>1, <1>2 DEF Store, linkVars
<1>4. Leaves(w, "stored", j, list)
  BY <1>1, <1>3, LinkOf DEF Leaves, TypeInv, TypeOK
<1>5. Listed("stored", j)'
  BY <1>3, LinkOf DEF Listed
<1>6. PICK S, T, P, Q, L : S = present /\ T = present' /\ P = Sharing /\ Q = Sharing' /\ L = inferred
  OBVIOUS
<1>7. /\ S \in SUBSET Record /\ T = S \cup {r} /\ P \subseteq SUBSET S
      /\ L = Completion(S, P) /\ L = inferred' /\ Linked' = Completion(T, Q)
  <2>1. Faults = {} /\ TypeInv
    BY <1>3, LinkOf DEF Links
  <2>2. inferred = Linked
    BY <2>1 DEF Faults
  <2>3. Linked' = Completion(present', Sharing')
    BY DEF Linked, Completion
  <2>4. QED
    BY <1>3, <1>6, <2>1, <2>2, <2>3, SharingTyped
<1>8. Q \subseteq Pairs(T, T) /\ Graph(Q)
  <2>1. Sharing' \subseteq Pairs(present', present')
    BY DEF Sharing
  <2>2. QED
    BY <1>6, <1>7, <2>1, PairsIn DEF Graph
<1>9. ASSUME NEW p \in SUBSET Record, r \notin p
      PROVE  p \in P <=> p \in Q
  <2>1. p \in Pairs(S, S) <=> p \in Pairs(T, T)
    BY <1>7, <1>9 DEF Pairs
  <2>2. \A s \in p : identifiers'[s] = identifiers[s]
    BY <1>3, <1>9, LinkOf DEF TypeInv, TypeOK
  <2>3. p \in P <=> p \in Pairs(S, S) /\ \A s, t \in p : identifiers[s] \cap identifiers[t] # {}
    BY <1>6 DEF Sharing
  <2>4. p \in Q <=> p \in Pairs(T, T) /\ \A s, t \in p : identifiers'[s] \cap identifiers'[t] # {}
    BY <1>6 DEF Sharing
  <2>5. QED
    BY <2>1, <2>2, <2>3, <2>4
<1>10. ASSUME NEW p \in Faults'
       PROVE  p \cap (Reached(r, Q) \cup Reached(r, L)) # {}
  <2>1. p \in L <=> p \notin Completion(T, Q)
    BY <1>7 DEF Faults
  <2>2. p \in Pairs(T, T)
    <3>1. Pairs(S, S) \subseteq Pairs(T, T)
      BY <1>7, PairsIn
    <3>2. QED
      BY <1>7, <2>1, <3>1 DEF Faults, Completion
  <2>3. QED
    BY <1>7, <1>8, <1>9, <2>1, <2>2, ChangeMeets
<1>11. FaultsMeet(Reached(j.origin, Sharing) \cup Reached(j.origin, inferred))'
  BY <1>2, <1>6, <1>7, <1>10 DEF FaultsMeet
<1>12. Links("stored", j, list)'
  BY <1>11 DEF Links
<1>13. QED
  BY <1>4, <1>5, <1>12, LinkWorkerStep

LEMMA LinkMerge ==
    ASSUME OneWorker, LinkInv, TypeInv', NEW w \in Worker, Merge(w)
    PROVE  LinkInv'
<1>1. /\ pc[w] = "received" /\ UNCHANGED <<recordVars, inferred, waiting>>
      /\ pc' = [pc EXCEPT ![w] = "stored"] \/ pc' = [pc EXCEPT ![w] = "idle"]
  BY DEF Merge
<1>2. PICK place, j, list : place = pc'[w] /\ j = job'[w] /\ list = waiting'[j.service]
  OBVIOUS
<1>3. place \in {"idle", "stored"}
  BY <1>1, <1>2, LinkOf DEF TypeInv, TypeOK
<1>4. Faults' = {}
  BY <1>1, LinkOf, FaultsStay DEF Links
<1>5. Listed(place, j)' /\ Links(place, j, list)'
  BY <1>1, <1>3, <1>4, LinkOf DEF Listed, Links, FaultsMeet
<1>6. QED
  BY <1>2, <1>5, LinkWorkerStep DEF Leaves

LEMMA LinkScan ==
    ASSUME OneWorker, LinkInv, TypeInv', NEW w \in Worker,
           NEW list \in Seq(present), list # <<>>, Scans(w, list), UNCHANGED <<recordVars, inferred>>,
           \A s \in Service \ {job[w].service} : waiting[s] = <<>>,
           NEW r, r = Head(list),
           FaultsMeet(Listing(list) \cup Reached(r, Sharing) \cup Reached(r, inferred))
    PROVE  LinkInv'
<1>1. /\ r \in present /\ Tail(list) \in Seq(present)
      /\ waiting' = [waiting EXCEPT ![job[w].service] = Tail(list)]
      /\ pc' = [pc EXCEPT ![w] = "detaching"]
      /\ \E j : ScannedJob(w, r, j) /\ job' = [job EXCEPT ![w] = j]
  BY LinkOf, ScanIs
<1>2. PICK j : ScannedJob(w, r, j) /\ job' = [job EXCEPT ![w] = j]
  BY <1>1
<1>3. Leaves(w, "detaching", j, Tail(list))
  BY <1>1, <1>2, LinkOf DEF Leaves, ScannedJob, TypeInv, TypeOK
<1>4. Listed("detaching", j)'
  BY <1>1, <1>2, LinkOf DEF Listed, ScannedJob
<1>5. PICK K, N : K = Reached(r, Sharing) /\ N = Reached(r, inferred)
  OBVIOUS
<1>6. PICK found : found = UNION {Reached(s, inferred) : s \in Reached(r, Sharing)}
  OBVIOUS
<1>7. j.shared = K /\ j.left = found \ K /\ j.origin = r
  BY <1>2, <1>5, <1>6 DEF ScannedJob
<1>8. r \in Record /\ K \in SUBSET Record /\ r \in K /\ Graph(inferred)
  BY <1>1, <1>5, LinkOf, SharingTyped, ReachedIn
<1>9. N \subseteq found
  BY <1>5, <1>6, <1>8
<1>10. ASSUME NEW p \in inferred, p \cap K # {}
       PROVE  p \subseteq K \cup (found \ K)
  <2>1. PICK s \in K : s \in p
    BY <1>10
  <2>2. p \subseteq Reached(s, inferred)
    BY <1>8, <2>1, ReachedClosed, ReachedIn DEF Closed
  <2>3. Reached(s, inferred) \subseteq found
    BY <1>5, <1>6
  <2>4. QED
    BY <2>2, <2>3
<1>11. FaultsMeet(K \cup (found \ K) \cup Listing(Tail(list)))
  <2>1. Listing(list) \subseteq Listing(Tail(list)) \cup {r}
    BY Taken
  <2>2. QED
    BY <1>5, <1>8, <1>9, <2>1 DEF FaultsMeet
<1>12. Links("detaching", j, Tail(list))'
  <2>1. Sharing' = Sharing /\ inferred' = inferred /\ \A S : FaultsMeet(S)' <=> FaultsMeet(S)
    BY FaultsStay
  <2>2. Reached(j.origin, Sharing)' = K
    BY <1>5, <1>7, <2>1
  <2>3. QED
    BY <1>7, <1>10, <1>11, <2>1, <2>2 DEF Links
<1>13. QED
  BY <1>3, <1>4, <1>12, LinkWorkerStep

LEMMA LinkUpdate ==
    ASSUME OneWorker, LinkInv, TypeInv', NEW w \in Worker, Update(w)
    PROVE  LinkInv'
<1>1. PICK r, list : r = job[w].origin /\ list = Append(waiting[job[w].service], r)
  OBVIOUS
<1>2. pc[w] = "stored" /\ Scans(w, list) /\ UNCHANGED <<recordVars, inferred>>
  BY <1>1 DEF Update, linkVars
<1>3. r \in present /\ \A s \in Service : waiting[s] = <<>>
  BY <1>1, <1>2, LinkOf DEF Listed, Typed
<1>4. list = <<r>>
  <2>1. waiting[job[w].service] = <<>>
    BY <1>3, LinkOf
  <2>2. Append(<<>>, r) = <<r>>
    OBVIOUS
  <2>3. QED
    BY <1>1, <2>1, <2>2
<1>5. list \in Seq(present) /\ list # <<>> /\ Head(list) = r
  BY <1>3, <1>4
<1>6. FaultsMeet(Reached(r, Sharing) \cup Reached(r, inferred))
  BY <1>1, <1>2, LinkOf DEF Links
<1>7. FaultsMeet(Listing(list) \cup Reached(r, Sharing) \cup Reached(r, inferred))
  BY <1>6 DEF FaultsMeet
<1>8. QED
  BY <1>2, <1>3, <1>5, <1>7, LinkScan

LEMMA LinkDetach ==
    ASSUME OneWorker, LinkInv, TypeInv', NEW w \in Worker, Detach(w)
    PROVE  LinkInv'
<1>1. PICK x \in job[w].left :
        inferred' = inferred \ Pairs({x}, job[w].shared) /\ Detached(w, x)
  BY DEF Detach
<1>2. PICK shared, left, o, list :
        /\ shared = job[w].shared /\ left = job[w].left /\ o = job[w].origin
        /\ list = waiting[job[w].service]
  OBVIOUS
<1>3. pc[w] = "detaching" /\ Typed("detaching", job[w])
  BY LinkOf DEF Detach
<1>4. /\ shared = Reached(o, Sharing) /\ shared \cap left = {}
      /\ \A p \in inferred : p \cap shared # {} => p \subseteq shared \cup left
      /\ FaultsMeet(shared \cup left \cup Listing(list))
  BY <1>2, <1>3, LinkOf DEF Links
<1>5. /\ o \in present /\ o \in Record /\ x \in left /\ left \subseteq present
      /\ shared \subseteq present /\ list \in Seq(present)
  BY <1>1, <1>2, <1>3, LinkOf DEF Typed, TypeInv, TypeOK
<1>6. PICK j : j = [job[w] EXCEPT !.left = @ \ {x}]
  OBVIOUS
<1>7. j.shared = shared /\ j.left = left \ {x} /\ j.origin = o /\ j.service = job[w].service
  BY <1>2, <1>6, LinkOf DEF Jobs
<1>8. /\ job' = [job EXCEPT ![w] = j] /\ pc' = pc
      /\ waiting' = [waiting EXCEPT ![job[w].service] = Append(list, x)]
      /\ UNCHANGED recordVars
  BY <1>1, <1>2, <1>6, LinkOf DEF Detached, TypeInv
<1>9. Leaves(w, "detaching", j, Append(list, x))
  BY <1>3, <1>7, <1>8, LinkOf DEF Leaves, TypeInv
<1>10. Listed("detaching", j)'
  BY <1>3, <1>7, <1>8, LinkOf DEF Listed
<1>11. Sharing' = Sharing /\ Linked' = Linked
  BY <1>8 DEF Sharing, Linked, recordVars
<1>12. inferred \cup Linked \subseteq Pairs(present, present)
  BY LinkOf DEF TypeInv, TypeOK, Linked
<1>13. ASSUME NEW p \in Pairs({x}, shared)
       PROVE  p \notin Linked
  <2>1. PICK s \in shared : p = {x, s} /\ s # x
    BY <1>13 DEF Pairs
  <2>2. s \in Record /\ x \in Record /\ s \in present /\ Graph(Sharing)
    BY <1>5, LinkOf, SharingTyped
  <2>3. Reached(s, Sharing) = shared
    BY <1>4, <1>5, <2>2, ReachedSame
  <2>4. x \notin Reached(s, Sharing)
    BY <1>4, <1>5, <2>3
  <2>5. {s, x} \notin Linked
    BY <1>5, <2>1, <2>2, <2>4, LinkOf, SharingTyped, CompletionPair
  <2>6. p = {s, x}
    BY <2>1
  <2>7. QED
    BY <2>5, <2>6
<1>14. Faults' \subseteq Faults
  BY <1>1, <1>2, <1>11, <1>13 DEF Faults
<1>15. Listing(Append(list, x)) = Listing(list) \cup {x}
  BY <1>5, Appended
<1>16. FaultsMeet(shared \cup (left \ {x}) \cup Listing(Append(list, x)))'
  BY <1>4, <1>14, <1>15 DEF FaultsMeet
<1>17. ASSUME NEW p \in inferred', p \cap shared # {}
       PROVE  p \subseteq shared \cup (left \ {x})
  <2>1. p \in inferred /\ p \notin Pairs({x}, shared)
    BY <1>1, <1>2, <1>17
  <2>2. p \subseteq shared \cup left
    BY <1>4, <1>17, <2>1
  <2>3. PICK a \in present, b \in present : a # b /\ p = {a, b}
    BY <1>12, <2>1, PairEnds
  <2>4. x \notin p
    BY <1>4, <1>5, <1>17, <2>1, <2>3 DEF Pairs
  <2>5. QED
    BY <2>2, <2>4
<1>18. Links("detaching", j, Append(list, x))'
  BY <1>4, <1>7, <1>11, <1>16, <1>17 DEF Links
<1>19. QED
  BY <1>9, <1>10, <1>18, LinkWorkerStep

LEMMA LinkLink ==
    ASSUME OneWorker, LinkInv, TypeInv', NEW w \in Worker, Link(w)
    PROVE  LinkInv'
<1>1. PICK shared, o, list :
        /\ shared = job[w].shared /\ o = job[w].origin /\ list = waiting[job[w].service]
  OBVIOUS
<1>2. pc[w] = "detaching" /\ Typed("detaching", job[w]) /\ job[w].left = {}
  BY LinkOf DEF Link
<1>3. /\ shared = Reached(o, Sharing)
      /\ \A p \in inferred : p \cap shared # {} => p \subseteq shared
      /\ FaultsMeet(shared \cup Listing(list))
  BY <1>1, <1>2, LinkOf DEF Links
<1>4. o \in present /\ o \in Record /\ shared \subseteq present
  BY <1>1, <1>2, LinkOf DEF Typed, TypeInv, TypeOK
<1>5. PICK j : j = [job[w] EXCEPT !.shared = {}]
  OBVIOUS
<1>6. j.service = job[w].service
  BY <1>5, LinkOf DEF Jobs
<1>7. /\ job' = [job EXCEPT ![w] = j] /\ pc' = [pc EXCEPT ![w] = "gathering"]
      /\ inferred' = inferred \cup Pairs(shared, shared) /\ UNCHANGED <<recordVars, waiting>>
  BY <1>1, <1>5, LinkOf DEF Link, TypeInv
<1>8. Leaves(w, "gathering", j, list)
  BY <1>1, <1>6, <1>7, LinkOf DEF Leaves, TypeInv, TypeOK
<1>9. Listed("gathering", j)'
  BY <1>2, <1>6, <1>7, LinkOf DEF Listed
<1>10. Sharing' = Sharing /\ Linked' = Linked
  BY <1>7 DEF Sharing, Linked, recordVars
<1>11. inferred \cup Linked \subseteq Pairs(present, present)
  BY LinkOf DEF TypeInv, TypeOK, Linked
<1>12. ASSUME NEW p \in Pairs(present, present), p \cap shared # {}
       PROVE  p \in Pairs(shared, shared) <=> p \in Linked
  <2>1. PICK a \in present, b \in present : a # b /\ p = {a, b}
    BY PairEnds
  <2>2. present \in SUBSET Record /\ Graph(Sharing) /\ Linked = Completion(present, Sharing)
    BY LinkOf, SharingTyped
  <2>3. \A s \in shared : Reached(s, Sharing) = shared
    BY <1>3, <1>4, <2>2, ReachedSame
  <2>4. p \in Linked <=> b \in Reached(a, Sharing)
    BY <2>1, <2>2, CompletionPair
  <2>5. b \in Reached(a, Sharing) <=> a \in Reached(b, Sharing)
    BY <2>1, <2>2, ReachedBack
  <2>6. p \in Linked <=> a \in shared /\ b \in shared
    BY <1>12, <2>1, <2>3, <2>4, <2>5
  <2>7. p \in Pairs(shared, shared) <=> a \in shared /\ b \in shared
    BY <2>1 DEF Pairs
  <2>8. QED
    BY <2>6, <2>7
<1>13. ASSUME NEW p \in Faults'
       PROVE  p \cap Listing(list) # {}
  <2>1. p \in Pairs(present, present)
    BY <1>4, <1>7, <1>10, <1>11, <1>13, PairsIn DEF Faults
  <2>2. CASE p \cap shared # {}
    <3>1. p \in inferred => p \in Linked
      <4>1. ASSUME p \in inferred
            PROVE  p \in Pairs(shared, shared)
        BY <1>3, <2>1, <2>2, <4>1 DEF Pairs
      <4>2. QED
        BY <1>12, <2>1, <2>2, <4>1
    <3>2. QED
      BY <1>7, <1>10, <1>12, <1>13, <2>1, <2>2, <3>1 DEF Faults
  <2>3. CASE p \cap shared = {}
    <3>1. p \notin Pairs(shared, shared)
      BY <2>3 DEF Pairs
    <3>2. p \in Faults
      BY <1>7, <1>10, <1>13, <3>1 DEF Faults
    <3>3. QED
      BY <1>3, <2>3, <3>2 DEF FaultsMeet
  <2>4. QED
    BY <2>2, <2>3
<1>14. Links("gathering", j, list)'
  BY <1>13 DEF Links, FaultsMeet
<1>15. QED
  BY <1>8, <1>9, <1>14, LinkWorkerStep

\* A worker that goes on with its documents.
LEMMA LinkQuiet ==
    ASSUME OneWorker, LinkInv, TypeInv', NEW w \in Worker,
           UNCHANGED <<recordVars, inferred, waiting>>, job'[w].service = job[w].service,
           {pc[w], pc'[w]} \subseteq {"gathering", "writing", "signalling"}
    PROVE  LinkInv'
<1>1. PICK place, j, list : place = pc'[w] /\ j = job'[w] /\ list = waiting'[j.service]
  OBVIOUS
<1>2. Leaves(w, place, j, list) /\ j.service = job[w].service /\ list = waiting[job[w].service]
  BY <1>1 DEF Leaves
<1>3. Listed(place, j)'
  BY <1>1, <1>2, LinkOf DEF Listed
<1>4. FaultsMeet(Listing(list))'
  BY <1>2, LinkOf, FaultsStay DEF Links
<1>5. Links(place, j, list)'
  BY <1>1, <1>4 DEF Links
<1>6. QED
  BY <1>2, <1>3, <1>5, LinkWorkerStep

LEMMA LinkContinue ==
    ASSUME OneWorker, LinkInv, TypeInv', NEW w \in Worker, Continue(w)
    PROVE  LinkInv'
<1>1. PICK list : list = waiting[job[w].service]
  OBVIOUS
<1>2. /\ pc[w] = "signalling" /\ UNCHANGED <<recordVars, inferred>>
      /\ list \in Seq(present) /\ FaultsMeet(Listing(list))
      /\ \A s \in Service \ {job[w].service} : waiting[s] = <<>>
  BY <1>1, LinkOf DEF Continue, linkVars, Links, Listed
<1>3. CASE list # <<>>
  <2>1. PICK r : r = Head(list)
    OBVIOUS
  <2>2. Scans(w, list)
    BY <1>1, <1>3 DEF Continue
  <2>3. FaultsMeet(Listing(list) \cup Reached(r, Sharing) \cup Reached(r, inferred))
    BY <1>2 DEF FaultsMeet
  <2>4. QED
    BY <1>2, <1>3, <2>1, <2>2, <2>3, LinkScan
<1>4. CASE list = <<>>
  <2>1. PICK j, next : j = NoJob /\ next = waiting[j.service]
    OBVIOUS
  <2>2. pc' = [pc EXCEPT ![w] = "idle"] /\ job' = [job EXCEPT ![w] = j] /\ waiting' = waiting
    BY <1>1, <1>4, <2>1 DEF Continue
  <2>3. Leaves(w, "idle", j, next)
    BY <2>1, <2>2, LinkOf DEF Leaves, TypeInv, TypeOK
  <2>4. Listed("idle", j)'
    BY <1>1, <1>2, <1>4, <2>2 DEF Listed
  <2>5. Listing(list) = {}
    BY <1>4 DEF Listing
  <2>6. Faults = {}
    BY <1>2, <2>5 DEF FaultsMeet
  <2>7. Links("idle", j, next)'
    BY <1>2, <2>6, FaultsStay DEF Links
  <2>8. QED
    BY <2>3, <2>4, <2>7, LinkWorkerStep
<1>5. QED
  BY <1>3, <1>4

LEMMA LinkStep == OneWorker /\ MaxErrors = 0 /\ LinkInv /\ [Next]_vars => LinkInv'
<1> SUFFICES ASSUME OneWorker, MaxErrors = 0, LinkInv, [Next]_vars
             PROVE  LinkInv'
  OBVIOUS
<1>1. TypeInv /\ TypeInv'
  BY TypeStep DEF LinkInv
<1>2. CASE UNCHANGED vars
  <2>1. UNCHANGED <<recordVars, inferred, waiting, pc, job>>
    BY <1>2 DEF vars, recordVars
  <2>2. ASSUME NEW w \in Worker
        PROVE  (Listed(pc[w], job[w]) /\ Links(pc[w], job[w], waiting[job[w].service]))'
    <3>1. PICK place, j, list : place = pc[w] /\ j = job[w] /\ list = waiting[job[w].service]
      OBVIOUS
    <3>2. Sharing' = Sharing /\ Faults' = Faults /\ \A S : FaultsMeet(S)' <=> FaultsMeet(S)
      BY <2>1, FaultsStay
    <3>3. Listed(place, j)' /\ Links(place, j, list)'
      BY <2>1, <3>1, <3>2, LinkOf DEF Listed, Links
    <3>4. QED
      BY <2>1, <3>1, <3>3
  <2>3. QED
    BY <1>1, <2>2 DEF LinkInv
<1>3. ASSUME NEW w \in Worker, Gather(w)
      PROVE  LinkInv'
  <2>1. PICK j : GatheredJob(w, j) /\ job' = [job EXCEPT ![w] = j]
    BY <1>1, <1>3, GatherIs
  <2>2. /\ pc[w] = "gathering" /\ pc'[w] = "writing" /\ job'[w].service = job[w].service
        /\ UNCHANGED <<recordVars, inferred, waiting>>
    BY <1>1, <1>3, <2>1, GatherIs DEF GatheredJob, TypeInv, TypeOK, linkVars
  <2>3. QED
    BY <1>1, <2>2, LinkQuiet
<1>4. ASSUME NEW w \in Worker, Write(w)
      PROVE  LinkInv'
  <2>1. PICK d, place, j : /\ Writes(w, d) /\ WrittenJob(w, d, place, j)
                           /\ pc' = [pc EXCEPT ![w] = place] /\ job' = [job EXCEPT ![w] = j]
    BY <1>1, <1>4, WriteIs
  <2>2. /\ pc[w] = "writing" /\ pc'[w] \in {"writing", "signalling"}
        /\ job'[w].service = job[w].service /\ UNCHANGED <<recordVars, inferred, waiting>>
    BY <1>1, <1>4, <2>1, WriteIs DEF WrittenJob, Writes, TypeInv, TypeOK, linkVars
  <2>3. QED
    BY <1>1, <2>2, LinkQuiet
<1>5. ASSUME NEW w \in Worker, ReadSources(w) \/ Recompute(w)
      PROVE  LinkInv'
  <2>1. PICK j : job' = [job EXCEPT ![w] = j] /\ j.service = job[w].service
    BY <1>1, <1>5, ReadSourcesIs, RecomputeIs
  <2>2. /\ pc[w] = "signalling" /\ pc' = pc /\ job'[w].service = job[w].service
        /\ UNCHANGED <<recordVars, inferred, waiting>>
    BY <1>1, <1>5, <2>1, ReadSourcesIs, RecomputeIs DEF linkVars, TypeInv
  <2>3. QED
    BY <1>1, <2>2, LinkQuiet
<1>6. ASSUME NEW w \in Worker, ReceiveRecord(w) \/ ReceiveMerge(w) \/ Work(w)
      PROVE  LinkInv'
  BY <1>1, <1>3, <1>4, <1>5, <1>6, LinkReceive, LinkStore, LinkMerge, LinkUpdate, LinkDetach,
     LinkLink, LinkContinue DEF Work
<1>7. QED
  BY <1>1, <1>2, <1>6, NoFailure DEF Next

(***************************************************************************)
(* Between two messages the inferred equivalences are those of the         *)
(* identifiers, when one worker treats the messages and no call fails.     *)
(***************************************************************************)
THEOREM LinksFollow ==
    ASSUME OneWorker, MaxErrors = 0
    PROVE  Spec => []LinksFollowIdentifiers
<1>1. LinkInv => LinksFollowIdentifiers
  <2> SUFFICES ASSUME LinkInv, Settled
               PROVE  inferred = Linked
    BY DEF LinksFollowIdentifiers
  <2>1. PICK w \in Worker : pc[w] = "idle"
    BY DEF Settled, OneWorker
  <2>2. Faults = {}
    BY <2>1, LinkOf DEF Links
  <2>3. QED
    BY <2>2 DEF Faults
<1>2. LinkInv /\ [Next]_vars => LinkInv'
  BY LinkStep
<1>3. QED
  BY <1>1, <1>2, LinkInit, PTL DEF Spec

---------------------------------------------------------------------------
(* Clusters. *)

LEMMA ClusterFacts ==
    ASSUME TypeInv, NEW x \in present
    PROVE  /\ x \in Record /\ Cluster(x) \in SUBSET present /\ x \in Cluster(x)
           /\ \A y \in Cluster(x) : Cluster(y) = Cluster(x)
BY EquivalentsTyped, SharingTyped, ReachedIn, ReachedSame DEF Cluster, TypeInv

LEMMA ClustersStay ==
    /\ UNCHANGED linkVars => \A x : Cluster(x)' = Cluster(x)
    /\ UNCHANGED <<documents, recordedBy>> =>
          \A x : RecordedIn(x)' = RecordedIn(x) /\ (Lone(x)' <=> Lone(x))
    /\ UNCHANGED <<documents, recordedBy>> =>
          \A x : Cluster(x)' = Cluster(x) => (Placed(x)' <=> Placed(x))
<1>1. UNCHANGED linkVars => \A x : Cluster(x)' = Cluster(x)
  BY DEF Cluster, linkVars
<1>2. UNCHANGED <<documents, recordedBy>> =>
         \A x : RecordedIn(x)' = RecordedIn(x) /\ (Lone(x)' <=> Lone(x))
  BY DEF RecordedIn, Lone
<1>3. UNCHANGED <<documents, recordedBy>> =>
         \A x : Cluster(x)' = Cluster(x) => (Placed(x)' <=> Placed(x))
  BY <1>2 DEF Placed
<1>4. QED
  BY <1>1, <1>2, <1>3

\* The equivalences inferred from identifiers lead where the identifiers do.
LEMMA CompletionReaches ==
    ASSUME NEW S \in SUBSET Record, NEW P, P \subseteq Pairs(S, S), NEW A, Graph(A),
           NEW x \in Record
    PROVE  Reached(x, P \cup A) = Reached(x, Completion(S, P) \cup A)
<1> DEFINE Q == Completion(S, P) \cup A
<1>1. Graph(P) /\ Graph(P \cup A) /\ Graph(Q)
  BY PairsIn DEF Graph, Completion
<1>2. \A p \in P : \A a \in p : p \subseteq Reached(a, P)
  BY <1>1, ReachedIn, ReachedClosed DEF Graph, Closed
<1>3. P \cup A \subseteq Q
  BY <1>2 DEF Completion
<1>4. ASSUME NEW q \in Q, NEW a \in q
      PROVE  q \subseteq Reached(a, P \cup A)
  <2>1. a \in Record
    BY <1>1, <1>4 DEF Graph
  <2>2. CASE q \in Completion(S, P)
    <3>1. q \subseteq Reached(a, P)
      BY <2>2, <1>4 DEF Completion
    <3>2. Reached(a, P) \subseteq Reached(a, P \cup A)
      BY <1>1, <2>1, ReachedKept
    <3>3. QED
      BY <3>1, <3>2
  <2>3. CASE q \in A
    BY <1>1, <1>4, <2>1, <2>3, ReachedIn, ReachedClosed DEF Closed
  <2>4. QED
    BY <2>2, <2>3
<1>5. QED
  BY <1>1, <1>3, <1>4, ReachedCompleted

LEMMA ClusterWorkerStep ==
    ASSUME OneWorker, LinkInv', NEW w \in Worker, NEW place, NEW j, NEW list,
           Leaves(w, place, j, list), Clusters(place, j, list)',
           \A d \in Doc \ documents' : recordedBy'[d] = {}
    PROVE  ClusterInv'
<1> SUFFICES ASSUME NEW v \in Worker
             PROVE  Clusters(pc[v], job[v], waiting[job[v].service])'
  BY DEF ClusterInv
<1>1. v = w
  BY DEF OneWorker
<1>2. QED
  BY <1>1 DEF Leaves

LEMMA ClusterOf ==
    ASSUME ClusterInv, NEW w \in Worker
    PROVE  /\ LinkInv /\ TypeInv /\ Typed(pc[w], job[w]) /\ job[w] \in Jobs
           /\ Clusters(pc[w], job[w], waiting[job[w].service])
           /\ waiting[job[w].service] \in Seq(present) /\ job[w].service \in Service
           /\ DOMAIN waiting = Service /\ pc \in [Worker -> PC] /\ job \in [Worker -> Jobs]
           /\ \A d \in Doc \ documents : recordedBy[d] = {}
           /\ recordedBy \in [Doc -> SUBSET present] /\ present \in SUBSET Record
           /\ documents \subseteq Doc
BY LinkOf DEF ClusterInv, LinkInv, TypeInv, TypeOK

LEMMA Least ==
    ASSUME NEW S \in SUBSET Record, S # {}
    PROVE  \E d \in S : \A s \in S : d <= s
<1>1. S \in SUBSET Nat
  BY ClustersAssumption DEF Record
<1>2. PICK d \in S : \A s \in S : ~ (<<s, d>> \in OpToRel(<, Nat))
  BY <1>1, NatLessThanWellFounded, WFMin
<1>3. \A s \in S : ~ (s < d)
  BY <1>1, <1>2 DEF OpToRel
<1>4. QED
  BY <1>1, <1>3

LEMMA ClusterInit == Init => ClusterInv
<1> SUFFICES ASSUME Init
             PROVE  ClusterInv
  OBVIOUS
<1>1. LinkInv /\ TypeInv
  BY LinkInit, TypeInit
<1>2. ASSUME NEW x \in present
      PROVE  Lone(x) /\ Placed(x)
  <2>1. present \in SUBSET Record /\ Graph(Sharing) /\ Sharing \subseteq Pairs(present, present)
        /\ Linked = Completion(present, Sharing)
    BY <1>1, SharingTyped DEF Sharing
  <2>2. Cluster(x) = Reached(x, Sharing)
    <3>1. Reached(x, Sharing \cup {}) = Reached(x, Completion(present, Sharing) \cup {})
      <4>1. Graph({}) /\ x \in Record
        BY <2>1 DEF Graph
      <4>2. QED
        BY <2>1, <4>1, CompletionReaches
    <3>2. inferred \cup asserted = Completion(present, Sharing) \cup {} /\ Sharing \cup {} = Sharing
      BY <2>1 DEF Init
    <3>3. QED
      BY <3>1, <3>2 DEF Cluster
  <2>3. \A y \in present : Reached(y, Sharing) \in SUBSET present /\ y \in Reached(y, Sharing)
    BY <1>1, <2>1, EquivalentsTyped, ReachedIn DEF TypeInv
  <2>4. \A y, z \in present : z \in Reached(y, Sharing) => Reached(z, Sharing) = Reached(y, Sharing)
    BY <2>1, ReachedSame
  <2>5. \A y \in present : y \in documents <=> \A s \in Reached(y, Sharing) : y <= s
    BY DEF Init
  <2>6. \A d \in documents : d \in present /\ d \in Doc /\ recordedBy[d] = Reached(d, Sharing)
    BY <1>1 DEF Init, TypeInv, TypeOK
  <2>7. PICK d \in Reached(x, Sharing) : \A s \in Reached(x, Sharing) : d <= s
    BY <2>1, <2>3, Least
  <2>8. d \in present /\ Reached(d, Sharing) = Reached(x, Sharing) /\ x \in Reached(d, Sharing)
    BY <2>3, <2>4, <2>7
  <2>9. d \in documents /\ recordedBy[d] = Cluster(x) /\ d \in RecordedIn(x)
    BY <2>2, <2>5, <2>6, <2>7, <2>8 DEF RecordedIn
  <2>10. ASSUME NEW e \in RecordedIn(x)
         PROVE  e = d
    <3>1. e \in documents /\ e \in present /\ x \in Reached(e, Sharing)
      BY <2>6, <2>10 DEF RecordedIn
    <3>2. Reached(e, Sharing) = Reached(x, Sharing) /\ e \in Reached(x, Sharing)
      BY <2>3, <2>4, <3>1
    <3>3. e <= d /\ d <= e
      BY <2>5, <2>7, <3>1, <3>2
    <3>4. e \in Nat /\ d \in Nat
      BY <2>1, <2>8, <3>1, ClustersAssumption DEF Record
    <3>5. QED
      BY <3>3, <3>4
  <2>11. QED
    BY <2>9, <2>10 DEF Lone, Placed
<1>3. ASSUME NEW w \in Worker
      PROVE  Clusters(pc[w], job[w], waiting[job[w].service])
  <2>1. pc[w] = "idle"
    BY DEF Init
  <2>2. QED
    BY <1>2, <2>1 DEF Clusters, PlacedOrMeets
<1>4. \A d \in Doc \ documents : recordedBy[d] = {}
  BY DEF Init
<1>5. QED
  BY <1>1, <1>3, <1>4 DEF ClusterInv

LEMMA ClusterReceive ==
    ASSUME OneWorker, ClusterInv, LinkInv', NEW w \in Worker, ReceiveRecord(w) \/ ReceiveMerge(w)
    PROVE  ClusterInv'
<1>1. PICK m : /\ pc' = [pc EXCEPT ![w] = "received"] /\ job' = [job EXCEPT ![w] = Job(m)]
               /\ pc[w] = "idle" /\ UNCHANGED <<recordVars, linkVars, documentVars>>
  BY DEF ReceiveRecord, ReceiveMerge, Receives
<1>2. PICK j, list : j = Job(m) /\ list = waiting'[j.service]
  OBVIOUS
<1>3. Leaves(w, "received", j, list)
  BY <1>1, <1>2, ClusterOf DEF Leaves
<1>4. PlacedOrMeets({})
  BY <1>1, ClusterOf DEF Clusters
<1>5. PlacedOrMeets({})'
  BY <1>1, <1>4, ClustersStay DEF PlacedOrMeets, recordVars, documentVars
<1>6. Clusters("received", j, list)'
  BY <1>5 DEF Clusters
<1>7. QED
  BY <1>1, <1>3, <1>6, ClusterOf, ClusterWorkerStep DEF documentVars

LEMMA ClusterStore ==
    ASSUME OneWorker, ClusterInv, LinkInv', NEW w \in Worker, Store(w)
    PROVE  ClusterInv'
<1>1. PICK j, list : j = job[w] /\ list = waiting[j.service]
  OBVIOUS
<1>2. PICK r \in Record : r = j.origin /\ r = j.message.record
  BY <1>1, ClusterOf DEF Store, Typed
<1>3. /\ pc[w] = "received" /\ pc' = [pc EXCEPT ![w] = "stored"] /\ present' = present \cup {r}
      /\ UNCHANGED <<linkVars, documentVars, waiting, job>>
  BY <1>1, <1>2 DEF Store
<1>4. Leaves(w, "stored", j, list)
  BY <1>1, <1>3, ClusterOf DEF Leaves
<1>5. PlacedOrMeets({})
  BY <1>3, ClusterOf DEF Clusters
<1>6. ASSUME NEW x \in present'
      PROVE  Lone(x)' /\ (Placed(x)' \/ Cluster(x)' \cap {r} # {})
  <2>1. CASE x \in present
    BY <1>3, <1>5, <2>1, ClustersStay DEF PlacedOrMeets, documentVars
  <2>2. CASE x \notin present
    <3>1. x = r
      BY <1>3, <2>2
    <3>2. RecordedIn(x) = {}
      BY <2>2, ClusterOf DEF RecordedIn
    <3>3. Lone(x)'
      BY <1>3, <3>2, ClustersStay DEF Lone, documentVars
    <3>4. x \in Cluster(x)
      BY <3>1, ReachedIn DEF Cluster
    <3>5. QED
      BY <1>3, <3>1, <3>3, <3>4, ClustersStay
  <2>3. QED
    BY <2>1, <2>2
<1>7. PlacedOrMeets(Listing(list) \cup {j.origin})'
  BY <1>2, <1>6 DEF PlacedOrMeets
<1>8. Clusters("stored", j, list)'
  BY <1>7 DEF Clusters
<1>9. QED
  BY <1>3, <1>4, <1>8, ClusterOf, ClusterWorkerStep DEF documentVars

(***************************************************************************)
(* Pairs added to G that do not lead to r, when each of them has an end    *)
(* that another pair relates to r, do not change what is reached.          *)
(***************************************************************************)
LEMMA ReachedSpared ==
    ASSUME NEW G, NEW A, Graph(G), Graph(A), NEW r \in Record, NEW x \in Record,
           \A p \in A : \E a \in p : a = r \/ {a, r} \in A,
           r \notin Reached(x, G \cup A)
    PROVE  Reached(x, G \cup A) = Reached(x, G)
<1>1. Graph(G \cup A)
  BY DEF Graph
<1>2. Reached(x, G) \subseteq Reached(x, G \cup A)
  BY <1>1, ReachedKept
<1>3. ASSUME NEW p \in A, p \subseteq Reached(x, G \cup A)
      PROVE  FALSE
  <2>1. PICK a \in p : a = r \/ {a, r} \in A
    OBVIOUS
  <2>2. a \in Record /\ a \in Reached(x, G \cup A)
    BY <1>3 DEF Graph
  <2>3. r \in Reached(a, G \cup A)
    BY <1>1, <2>1, <2>2, ReachedIn, ReachedByPair
  <2>4. QED
    BY <1>1, <2>2, <2>3, ReachedSame
<1>4. Reached(x, G \cup A) \subseteq Reached(x, G)
  BY <1>1, <1>3, ReachedKept
<1>5. QED
  BY <1>2, <1>4

LEMMA AssertedMeet ==
    ASSUME NEW groups \in SUBSET SUBSET Record, NEW r \in UNION groups, NEW p \in Asserted(groups)
    PROVE  \E a \in p : a = r \/ {a, r} \in Asserted(groups)
<1>1. PICK g \in groups, h \in groups : g # h /\ p \in Pairs(g, h)
  BY DEF Asserted
<1>2. PICK a \in g, b \in h : p = {a, b}
  BY <1>1 DEF Pairs
<1>3. PICK k \in groups : r \in k
  OBVIOUS
<1>4. ASSUME NEW c, NEW f \in groups, c \in f, f # k, c # r
      PROVE  {c, r} \in Asserted(groups)
  <2>1. {c, r} \in Pairs(f, k)
    BY <1>3, <1>4 DEF Pairs
  <2>2. <<f, k>> \in {g2 \in groups \X groups : g2[1] # g2[2]}
    BY <1>4
  <2>3. QED
    BY <2>1, <2>2 DEF Asserted
<1>5. CASE g # k
  BY <1>2, <1>4, <1>5
<1>6. CASE g = k
  BY <1>1, <1>2, <1>4, <1>6
<1>7. QED
  BY <1>5, <1>6

LEMMA ClusterMerge ==
    ASSUME OneWorker, ClusterInv, LinkInv', NEW w \in Worker, Merge(w)
    PROVE  ClusterInv'
<1>1. PICK groups : groups = {recordedBy[d] : d \in job[w].message.merged}
  OBVIOUS
<1>2. /\ pc[w] = "received" /\ UNCHANGED <<recordVars, inferred, documentVars>>
      /\ asserted' = asserted \cup Asserted(groups)
  BY <1>1 DEF Merge
<1>3. job[w].message.merged \subseteq Doc
  BY ClusterOf DEF Typed
<1>4. groups \in SUBSET SUBSET present /\ present \in SUBSET Record
  BY <1>1, <1>3, ClusterOf
<1>5. PlacedOrMeets({})
  BY <1>2, ClusterOf DEF Clusters
<1>6. CASE UNION groups = {}
  <2>1. Asserted(groups) = {}
    BY <1>6 DEF Asserted, Pairs
  <2>2. UNCHANGED linkVars
    BY <1>2, <2>1 DEF linkVars
  <2>3. PlacedOrMeets({})'
    BY <1>2, <1>5, <2>2, ClustersStay DEF PlacedOrMeets, recordVars, documentVars
  <2>4. PICK j, list : j = NoJob /\ list = waiting'[j.service]
    OBVIOUS
  <2>5. pc' = [pc EXCEPT ![w] = "idle"] /\ job' = [job EXCEPT ![w] = j]
    BY <1>1, <1>6, <2>4 DEF Merge
  <2>6. Leaves(w, "idle", j, list)
    BY <2>4, <2>5, ClusterOf DEF Leaves
  <2>7. Clusters("idle", j, list)'
    BY <2>3 DEF Clusters
  <2>8. QED
    BY <1>2, <2>6, <2>7, ClusterOf, ClusterWorkerStep DEF documentVars
<1>7. CASE UNION groups # {}
  <2>1. PICK r \in UNION groups : /\ job' = [job EXCEPT ![w].origin = r, ![w].service = w]
                                  /\ pc' = [pc EXCEPT ![w] = "stored"]
    BY <1>1, <1>7 DEF Merge
  <2>2. PICK j : j = [job[w] EXCEPT !.origin = r, !.service = w]
    OBVIOUS
  <2>3. j.origin = r /\ job' = [job EXCEPT ![w] = j]
    BY <2>1, <2>2, ClusterOf DEF Jobs
  <2>4. PICK list : list = waiting'[j.service]
    OBVIOUS
  <2>5. Leaves(w, "stored", j, list)
    BY <2>1, <2>3, <2>4, ClusterOf DEF Leaves
  <2>6. ASSUME NEW x \in present, r \notin Cluster(x)'
        PROVE  Cluster(x)' = Cluster(x)
    <3>1. PICK G, A : G = inferred \cup asserted /\ A = Asserted(groups)
      OBVIOUS
    <3>2. Cluster(x)' = Reached(x, G \cup A) /\ Cluster(x) = Reached(x, G)
      <4>1. inferred' \cup asserted' = G \cup A
        BY <1>2, <3>1
      <4>2. QED
        BY <3>1, <4>1 DEF Cluster
    <3>3. r \in Record /\ x \in Record /\ groups \in SUBSET SUBSET Record
      BY <1>4
    <3>4. Graph(G)
      BY <3>1, ClusterOf, SharingTyped
    <3>5. Graph(A)
      <4>1. A \subseteq Pairs(Record, Record) /\ Pairs(Record, Record) \subseteq SUBSET Record
        BY <3>1, <3>3, AssertedTyped, PairsIn
      <4>2. QED
        BY <4>1 DEF Graph
    <3>6. \A p \in A : \E a \in p : a = r \/ {a, r} \in A
      BY <3>1, <3>3, AssertedMeet
    <3>7. r \notin Reached(x, G \cup A)
      BY <2>6, <3>2
    <3>8. QED
      BY <3>2, <3>3, <3>4, <3>5, <3>6, <3>7, ReachedSpared
  <2>7. PlacedOrMeets(Listing(list) \cup {j.origin})'
    <3> SUFFICES ASSUME NEW x \in present
                 PROVE  Lone(x)' /\ (Placed(x)' \/ r \in Cluster(x)')
      BY <1>2, <2>3 DEF PlacedOrMeets, recordVars
    <3>1. Lone(x) /\ Placed(x)
      BY <1>5 DEF PlacedOrMeets
    <3>2. QED
      BY <1>2, <2>6, <3>1, ClustersStay DEF documentVars
  <2>8. Clusters("stored", j, list)'
    BY <2>7 DEF Clusters
  <2>9. QED
    BY <1>2, <2>5, <2>8, ClusterOf, ClusterWorkerStep DEF documentVars
<1>8. QED
  BY <1>6, <1>7

LEMMA ClusterScan ==
    ASSUME OneWorker, ClusterInv, LinkInv', NEW w \in Worker,
           NEW list \in Seq(present), list # <<>>, Scans(w, list),
           UNCHANGED <<recordVars, linkVars, documentVars>>, PlacedOrMeets(Listing(list))
    PROVE  ClusterInv'
<1>1. PICK r : r = Head(list)
  OBVIOUS
<1>2. /\ waiting' = [waiting EXCEPT ![job[w].service] = Tail(list)]
      /\ pc' = [pc EXCEPT ![w] = "detaching"] /\ r \in present
      /\ \E j : ScannedJob(w, r, j) /\ job' = [job EXCEPT ![w] = j]
  BY <1>1, ClusterOf, ScanIs
<1>3. PICK j : ScannedJob(w, r, j) /\ job' = [job EXCEPT ![w] = j]
  BY <1>2
<1>4. Leaves(w, "detaching", j, Tail(list))
  BY <1>2, <1>3, ClusterOf DEF Leaves, ScannedJob
<1>5. r \in j.shared
  BY <1>2, <1>3, ClusterOf, ReachedIn DEF ScannedJob
<1>6. Listing(list) \subseteq Listing(Tail(list)) \cup j.shared
  BY <1>1, <1>5, Taken
<1>7. PlacedOrMeets(Listing(Tail(list)) \cup j.shared)
  BY <1>6 DEF PlacedOrMeets
<1>8. PlacedOrMeets(Listing(Tail(list)) \cup j.shared)'
  BY <1>7, ClustersStay DEF PlacedOrMeets, recordVars, documentVars
<1>9. Clusters("detaching", j, Tail(list))'
  BY <1>8 DEF Clusters
<1>10. QED
  BY <1>4, <1>9, ClusterOf, ClusterWorkerStep DEF documentVars

LEMMA ClusterUpdate ==
    ASSUME OneWorker, ClusterInv, LinkInv', NEW w \in Worker, Update(w)
    PROVE  ClusterInv'
<1>1. PICK before, r, list :
        before = waiting[job[w].service] /\ r = job[w].origin /\ list = Append(before, r)
  OBVIOUS
<1>2. pc[w] = "stored" /\ Scans(w, list) /\ UNCHANGED <<recordVars, linkVars, documentVars>>
  BY <1>1 DEF Update
<1>3. r \in present /\ before \in Seq(present) /\ PlacedOrMeets(Listing(before) \cup {r})
  BY <1>1, <1>2, ClusterOf DEF Clusters, Typed
<1>4. list \in Seq(present) /\ list # <<>> /\ Listing(list) = Listing(before) \cup {r}
  BY <1>1, <1>3, Appended
<1>5. PlacedOrMeets(Listing(list))
  BY <1>3, <1>4
<1>6. QED
  BY <1>2, <1>4, <1>5, ClusterScan

LEMMA ClusterDetach ==
    ASSUME OneWorker, ClusterInv, LinkInv', NEW w \in Worker, Detach(w)
    PROVE  ClusterInv'
<1>1. PICK x \in job[w].left :
        inferred' = inferred \ Pairs({x}, job[w].shared) /\ Detached(w, x)
  BY DEF Detach
<1>2. PICK shared, list : shared = job[w].shared /\ list = waiting[job[w].service]
  OBVIOUS
<1>3. /\ pc[w] = "detaching" /\ x \in present /\ shared \subseteq present
      /\ list \in Seq(present) /\ PlacedOrMeets(Listing(list) \cup shared)
  BY <1>1, <1>2, ClusterOf DEF Detach, Typed, Clusters
<1>4. PICK j : j = [job[w] EXCEPT !.left = @ \ {x}]
  OBVIOUS
<1>5. j.shared = shared /\ j.service = job[w].service
  BY <1>2, <1>4, ClusterOf DEF Jobs
<1>6. /\ job' = [job EXCEPT ![w] = j] /\ pc' = pc
      /\ waiting' = [waiting EXCEPT ![job[w].service] = Append(list, x)]
      /\ UNCHANGED <<recordVars, asserted, documentVars>>
  BY <1>1, <1>2, <1>4, ClusterOf DEF Detached
<1>7. Leaves(w, "detaching", j, Append(list, x))
  BY <1>3, <1>5, <1>6, ClusterOf DEF Leaves
<1>8. ASSUME NEW y \in present, x \notin Cluster(y)', shared \cap Cluster(y)' = {}
      PROVE  Cluster(y)' = Cluster(y)
  <2>1. PICK G, H : G = inferred \cup asserted /\ H = inferred' \cup asserted'
    OBVIOUS
  <2>2. Cluster(y) = Reached(y, G) /\ Cluster(y)' = Reached(y, H)
    BY <2>1 DEF Cluster
  <2>3. H \subseteq G /\ Graph(G) /\ Graph(H) /\ y \in Record
    BY <1>1, <1>6, <2>1, ClusterOf, SharingTyped DEF Graph
  <2>4. Reached(y, H) \subseteq Reached(y, G)
    BY <2>3, ReachedKept
  <2>5. Closed(Reached(y, H), G)
    <3> SUFFICES ASSUME NEW p \in G, p \cap Reached(y, H) # {}
                 PROVE  p \subseteq Reached(y, H)
      BY DEF Closed
    <3>1. p \notin Pairs({x}, shared)
      BY <1>8, <2>2 DEF Pairs
    <3>2. p \in H
      BY <1>1, <1>2, <1>6, <2>1, <3>1
    <3>3. QED
      BY <2>3, <3>2, ReachedClosed DEF Closed
  <2>6. Reached(y, G) \subseteq Reached(y, H)
    BY <2>3, <2>5, ReachedIn, ReachedLeast
  <2>7. Reached(y, G) = Reached(y, H)
    BY <2>4, <2>6
  <2>8. QED
    BY <2>2, <2>7
<1>9. Listing(Append(list, x)) = Listing(list) \cup {x}
  BY <1>3, Appended
<1>10. PlacedOrMeets(Listing(Append(list, x)) \cup shared)'
  <2> SUFFICES ASSUME NEW y \in present, x \notin Cluster(y)', shared \cap Cluster(y)' = {}
               PROVE  Placed(y)' \/ Cluster(y)' \cap Listing(list) # {}
    <3>1. \A y \in present : Lone(y)'
      BY <1>3, <1>6, ClustersStay DEF PlacedOrMeets, documentVars
    <3>2. QED
      BY <1>6, <1>9, <3>1 DEF PlacedOrMeets, recordVars
  <2>1. Cluster(y)' = Cluster(y)
    BY <1>8
  <2>2. Placed(y) \/ Cluster(y) \cap (Listing(list) \cup shared) # {}
    BY <1>3 DEF PlacedOrMeets
  <2>3. QED
    BY <1>6, <2>1, <2>2, ClustersStay DEF documentVars
<1>11. Clusters("detaching", j, Append(list, x))'
  BY <1>5, <1>10 DEF Clusters
<1>12. QED
  BY <1>6, <1>7, <1>11, ClusterOf, ClusterWorkerStep DEF documentVars

LEMMA ClusterLink ==
    ASSUME OneWorker, ClusterInv, LinkInv', NEW w \in Worker, Link(w)
    PROVE  ClusterInv'
<1>1. PICK shared, o, list :
        /\ shared = job[w].shared /\ o = job[w].origin /\ list = waiting[job[w].service]
  OBVIOUS
<1>2. /\ pc[w] = "detaching" /\ o \in shared /\ shared \subseteq present /\ shared \subseteq Record
      /\ PlacedOrMeets(Listing(list) \cup shared)
  BY <1>1, ClusterOf DEF Link, Typed, Clusters
<1>3. PICK j : j = [job[w] EXCEPT !.shared = {}]
  OBVIOUS
<1>4. j.origin = o /\ j.service = job[w].service
  BY <1>1, <1>3, ClusterOf DEF Jobs
<1>5. /\ job' = [job EXCEPT ![w] = j] /\ pc' = [pc EXCEPT ![w] = "gathering"]
      /\ inferred' = inferred \cup Pairs(shared, shared)
      /\ UNCHANGED <<recordVars, asserted, documentVars, waiting>>
  BY <1>1, <1>3, ClusterOf DEF Link
<1>6. Leaves(w, "gathering", j, list)
  BY <1>1, <1>4, <1>5, ClusterOf DEF Leaves
<1>7. PICK G, A : G = inferred \cup asserted /\ A = Pairs(shared, shared)
  OBVIOUS
<1>8. Graph(G) /\ Graph(A) /\ o \in Record
  BY <1>2, <1>7, ClusterOf, SharingTyped, PairsIn DEF Graph
<1>9. \A x : Cluster(x)' = Reached(x, G \cup A) /\ Cluster(x) = Reached(x, G)
  <2>1. inferred' \cup asserted' = G \cup A
    BY <1>5, <1>7
  <2>2. QED
    BY <1>7, <2>1 DEF Cluster
<1>10. ASSUME NEW y \in present, o \notin Cluster(y)'
       PROVE  Cluster(y)' = Cluster(y) /\ shared \cap Cluster(y) = {}
  <2>1. y \in Record
    BY ClusterOf
  <2>2. ASSUME NEW p \in A
        PROVE  \E a \in p : a = o \/ {a, o} \in A
    <3>1. PICK a \in shared, b \in shared : a # b /\ p = {a, b}
      BY <1>7, PairEnds
    <3>2. a # o => {a, o} \in A
      BY <1>2, <1>7 DEF Pairs
    <3>3. QED
      BY <3>1, <3>2
  <2>3. Reached(y, G \cup A) = Reached(y, G)
    BY <1>8, <1>9, <1>10, <2>1, <2>2, ReachedSpared
  <2>4. ASSUME NEW s \in shared, s \in Reached(y, G \cup A)
        PROVE  FALSE
    <3>1. s # o /\ s \in Record /\ Graph(G \cup A)
      BY <1>2, <1>8, <1>9, <1>10, <2>4 DEF Graph
    <3>2. {s, o} \in G \cup A
      BY <1>2, <1>7, <3>1 DEF Pairs
    <3>3. o \in Reached(s, G \cup A)
      BY <1>8, <3>1, <3>2, ReachedByPair
    <3>4. QED
      BY <1>9, <1>10, <2>1, <2>4, <3>1, <3>3, ReachedSame
  <2>5. QED
    BY <1>9, <2>3, <2>4
<1>11. PlacedOrMeets(Listing(list) \cup {j.origin})'
  <2> SUFFICES ASSUME NEW y \in present, o \notin Cluster(y)'
               PROVE  Placed(y)' \/ Cluster(y)' \cap Listing(list) # {}
    <3>1. \A y \in present : Lone(y)'
      BY <1>2, <1>5, ClustersStay DEF PlacedOrMeets, documentVars
    <3>2. QED
      BY <1>4, <1>5, <3>1 DEF PlacedOrMeets, recordVars
  <2>1. Cluster(y)' = Cluster(y) /\ shared \cap Cluster(y) = {}
    BY <1>10
  <2>2. Placed(y) \/ Cluster(y) \cap (Listing(list) \cup shared) # {}
    BY <1>2 DEF PlacedOrMeets
  <2>3. QED
    BY <1>5, <2>1, <2>2, ClustersStay DEF documentVars
<1>12. Clusters("gathering", j, list)'
  BY <1>11 DEF Clusters
<1>13. QED
  BY <1>5, <1>6, <1>12, ClusterOf, ClusterWorkerStep DEF documentVars

LEMMA ClusterGather ==
    ASSUME OneWorker, ClusterInv, LinkInv', NEW w \in Worker, Gather(w)
    PROVE  ClusterInv'
<1>1. PICK o, list : o = job[w].origin /\ list = waiting[job[w].service]
  OBVIOUS
<1>2. /\ pc[w] = "gathering" /\ pc' = [pc EXCEPT ![w] = "writing"]
      /\ UNCHANGED <<recordVars, linkVars, documentVars, waiting>>
      /\ \E j : GatheredJob(w, j) /\ job' = [job EXCEPT ![w] = j]
  BY ClusterOf, GatherIs
<1>3. PICK j : GatheredJob(w, j) /\ job' = [job EXCEPT ![w] = j]
  BY <1>2
<1>4. Leaves(w, "writing", j, list)
  BY <1>1, <1>2, <1>3, ClusterOf DEF Leaves, GatheredJob
<1>5. o \in present /\ PlacedOrMeets(Listing(list) \cup {o})
  BY <1>1, <1>2, ClusterOf DEF Typed, Clusters
<1>6. PICK C, read : C = j.equivalent /\ read = DOMAIN j.copies
  OBVIOUS
<1>7. C = Cluster(o)
  BY <1>1, <1>3, <1>6 DEF GatheredJob, Cluster
<1>8. C \subseteq present /\ o \in C /\ \A c \in C : Cluster(c) = C
  BY <1>5, <1>7, ClusterOf, ClusterFacts
<1>9. /\ read \subseteq Doc /\ j.left = read
      /\ \A d \in read : j.copies[d] = recordedBy[d]
      /\ \/ /\ read \subseteq documents
            /\ \A d \in read : \E r \in C : r \in recordedBy[d]
            /\ \A r \in C : RecordedIn(r) # {} => \E d \in read : d \in RecordedIn(r)
         \/ /\ \A r \in C : RecordedIn(r) = {}
            /\ read = {j.main} /\ j.main \notin documents
  BY <1>3, <1>6, JobFields DEF GatheredJob
<1>10. ASSUME NEW d \in Doc \ read
       PROVE  recordedBy[d] \cap C = {}
  <2> SUFFICES ASSUME NEW r \in C, r \in recordedBy[d]
               PROVE  FALSE
    OBVIOUS
  <2>1. d \in RecordedIn(r)
    BY ClusterOf DEF RecordedIn
  <2>2. PICK e \in read : e \in RecordedIn(r)
    BY <1>9, <2>1
  <2>3. Lone(r)
    BY <1>5, <1>8 DEF PlacedOrMeets
  <2>4. QED
    BY <2>1, <2>2, <2>3 DEF Lone
<1>11. ASSUME NEW d \in read
       PROVE  j.copies[d] \cap C # {} \/ (j.copies[d] = {} /\ read = {d})
  BY <1>9, ClusterOf
<1>12. Writing(j)
  BY <1>6, <1>8, <1>9, <1>10, <1>11 DEF Writing
<1>13. ASSUME NEW x \in present \ C
       PROVE  Lone(x) /\ (Placed(x) \/ Cluster(x) \cap Listing(list) # {})
  <2>1. o \notin Cluster(x)
    BY <1>7, ClusterOf, ClusterFacts
  <2>2. QED
    BY <1>5, <2>1 DEF PlacedOrMeets
<1>14. UNCHANGED <<present, documents, recordedBy>>
  BY <1>2 DEF recordVars, documentVars
<1>15. Writing(j)'
  BY <1>2, <1>12, <1>14, ClustersStay DEF Writing
<1>16. Clusters("writing", j, list)'
  BY <1>2, <1>6, <1>13, <1>14, <1>15, ClustersStay DEF Clusters
<1>17. QED
  BY <1>4, <1>14, <1>16, ClusterOf, ClusterWorkerStep

LEMMA ClusterWrite ==
    ASSUME OneWorker, ClusterInv, LinkInv', NEW w \in Worker, Write(w)
    PROVE  ClusterInv'
<1>1. PICK d \in job[w].left :
        /\ Writes(w, d)
        /\ \E place, k : /\ WrittenJob(w, d, place, k)
                         /\ pc' = [pc EXCEPT ![w] = place] /\ job' = [job EXCEPT ![w] = k]
  BY ClusterOf, WriteIs
<1>2. PICK place, k : /\ WrittenJob(w, d, place, k)
                      /\ pc' = [pc EXCEPT ![w] = place] /\ job' = [job EXCEPT ![w] = k]
  BY <1>1
<1>3. PICK j, list : j = job[w] /\ list = waiting[job[w].service]
  OBVIOUS
<1>4. pc[w] = "writing" /\ Typed("writing", j) /\ j \in Jobs
  BY <1>3, ClusterOf, WriteIs
<1>5. PICK C, read : C = j.equivalent /\ read = DOMAIN j.copies
  OBVIOUS
<1>6. /\ Writing(j)
      /\ \A x \in present \ C : Lone(x) /\ (Placed(x) \/ Cluster(x) \cap Listing(list) # {})
  BY <1>3, <1>4, <1>5, ClusterOf DEF Clusters
<1>7. /\ d \in Doc /\ d \in read /\ d \in j.left /\ j.main \in read /\ read \subseteq Doc
      /\ C \subseteq present
  BY <1>3, <1>4, <1>5, JobFields DEF Typed
<1>8. /\ documents' = documents \cup {d} /\ present' = present /\ waiting' = waiting
      /\ recordedBy' = [recordedBy EXCEPT ![d] = Keeps(j, d)] /\ UNCHANGED linkVars
  BY <1>1, <1>3 DEF Writes, Kept, Keeps, recordVars
<1>9. Leaves(w, place, k, list)
  BY <1>2, <1>3, <1>8, ClusterOf DEF Leaves, WrittenJob
<1>10. /\ recordedBy[d] = j.copies[d] /\ recordedBy'[d] = Keeps(j, d)
       /\ \A e \in Doc \ {d} : recordedBy'[e] = recordedBy[e]
  BY <1>5, <1>6, <1>7, <1>8, ClusterOf DEF Writing
<1>11. ASSUME NEW x \in present \ C
       PROVE  Lone(x)' /\ (Placed(x)' \/ Cluster(x)' \cap Listing(list) # {})
  <2>1. x \in recordedBy'[d] => x \in recordedBy[d] /\ d \in documents
    BY <1>5, <1>7, <1>10, <1>11, ClusterOf DEF Keeps
  <2>2. RecordedIn(x)' \subseteq RecordedIn(x)
    BY <1>8, <1>10, <2>1, ClusterOf DEF RecordedIn
  <2>3. Lone(x)'
    BY <1>6, <2>2 DEF Lone
  <2>4. ASSUME Placed(x)
        PROVE  Placed(x)'
    <3>1. PICK e \in documents : RecordedIn(x) = {e} /\ recordedBy[e] = Cluster(x)
      BY <2>4 DEF Placed
    <3>2. e # d
      <4> SUFFICES ASSUME e = d
                   PROVE  FALSE
        OBVIOUS
      <4>1. x \in Cluster(x) /\ \A c \in Cluster(x) : Cluster(c) = Cluster(x)
        BY <1>11, ClusterOf, ClusterFacts
      <4>2. j.copies[d] = Cluster(x) /\ j.copies[d] # {}
        BY <1>10, <3>1, <4>1
      <4>3. PICK c \in Cluster(x) : c \in C
        BY <1>5, <1>6, <1>7, <4>2 DEF Writing
      <4>4. Cluster(c) = C
        BY <1>5, <1>6, <4>3 DEF Writing
      <4>5. QED
        BY <1>11, <4>1, <4>3, <4>4
    <3>3. e \in Doc /\ recordedBy'[e] = recordedBy[e] /\ x \in recordedBy[e] /\ e \in documents'
      BY <1>8, <1>10, <3>1, <3>2, ClusterOf DEF RecordedIn
    <3>4. RecordedIn(x)' = {e}
      BY <2>2, <3>1, <3>3 DEF RecordedIn
    <3>5. Cluster(x)' = Cluster(x)
      BY <1>8, ClustersStay
    <3>6. QED
      BY <3>1, <3>3, <3>4, <3>5 DEF Placed
  <2>5. Cluster(x)' = Cluster(x)
    BY <1>8, ClustersStay
  <2>6. QED
    BY <1>6, <2>3, <2>4, <2>5
<1>12. \A e \in Doc \ documents' : recordedBy'[e] = {}
  BY <1>8, <1>10, ClusterOf
<1>13. CASE j.left # {d}
  <2>1. /\ place = "writing" /\ k.left = j.left \ {d} /\ k.equivalent = C /\ k.copies = j.copies
        /\ k.main = j.main
    BY <1>2, <1>3, <1>5, <1>13 DEF WrittenJob
  <2>2. \A e : Keeps(k, e) = Keeps(j, e)
    BY <1>5, <2>1 DEF Keeps
  <2>3. \A c \in C : Cluster(c)' = C
    BY <1>5, <1>6, <1>8, ClustersStay DEF Writing
  <2>4. \A e \in Doc \ read : recordedBy'[e] \cap C = {}
    BY <1>5, <1>6, <1>7, <1>10 DEF Writing
  <2>5. ASSUME NEW e \in read
        PROVE  /\ e \in k.left => recordedBy'[e] = k.copies[e]
               /\ e \notin k.left => e \in documents' /\ recordedBy'[e] = Keeps(k, e)
               /\ k.copies[e] \cap C # {} \/ (k.copies[e] = {} /\ read = {e})
    <3>1. CASE e = d
      BY <1>5, <1>6, <1>7, <1>8, <1>10, <2>1, <2>2, <3>1 DEF Writing
    <3>2. CASE e # d
      BY <1>5, <1>6, <1>7, <1>8, <1>10, <2>1, <2>2, <3>2 DEF Writing
    <3>3. QED
      BY <3>1, <3>2
  <2>6. Writing(k)'
    BY <1>5, <2>1, <2>3, <2>4, <2>5 DEF Writing
  <2>7. Clusters(place, k, list)'
    BY <1>8, <1>11, <2>1, <2>6 DEF Clusters
  <2>8. QED
    BY <1>9, <1>12, <2>7, ClusterWorkerStep
<1>14. CASE j.left = {d}
  <2>1. place = "signalling"
    BY <1>2, <1>3, <1>14 DEF WrittenJob
  <2>2. \A e \in read : e \in documents' /\ recordedBy'[e] = Keeps(j, e)
    BY <1>5, <1>6, <1>7, <1>8, <1>10, <1>14 DEF Writing
  <2>3. ASSUME NEW x \in C
        PROVE  Lone(x)' /\ Placed(x)'
    <3>1. Cluster(x)' = C
      BY <1>5, <1>6, <1>8, <2>3, ClustersStay DEF Writing
    <3>2. recordedBy'[j.main] = C /\ j.main \in documents'
      BY <1>5, <1>7, <2>2 DEF Keeps
    <3>3. ASSUME NEW e \in documents', x \in recordedBy'[e]
          PROVE  e = j.main
      <4>1. e \in Doc
        BY <1>7, <1>8, ClusterOf
      <4>2. e \in read
        BY <1>5, <1>6, <1>7, <1>10, <3>3, <4>1 DEF Writing
      <4>3. QED
        BY <1>5, <2>2, <2>3, <3>3, <4>2 DEF Keeps
    <3>4. RecordedIn(x)' = {j.main}
      BY <2>3, <3>2, <3>3 DEF RecordedIn
    <3>5. QED
      BY <3>1, <3>2, <3>4 DEF Lone, Placed
  <2>4. PlacedOrMeets(Listing(list))'
    BY <1>8, <1>11, <2>3 DEF PlacedOrMeets
  <2>5. Clusters(place, k, list)'
    BY <2>1, <2>4 DEF Clusters
  <2>6. QED
    BY <1>9, <1>12, <2>5, ClusterWorkerStep
<1>15. QED
  BY <1>13, <1>14

LEMMA ClusterRecompute ==
    ASSUME OneWorker, ClusterInv, LinkInv', NEW w \in Worker, ReadSources(w) \/ Recompute(w)
    PROVE  ClusterInv'
<1>1. PICK j : job' = [job EXCEPT ![w] = j] /\ j.service = job[w].service
  BY ClusterOf, ReadSourcesIs, RecomputeIs
<1>2. PICK list : list = waiting[job[w].service]
  OBVIOUS
<1>3. /\ pc[w] = "signalling" /\ pc' = pc
      /\ UNCHANGED <<recordVars, linkVars, documents, recordedBy, waiting>>
  BY ClusterOf, ReadSourcesIs, RecomputeIs DEF documentVars
<1>4. Leaves(w, "signalling", j, list)
  BY <1>1, <1>2, <1>3, ClusterOf DEF Leaves, TypeInv, TypeOK
<1>5. PlacedOrMeets(Listing(list))
  BY <1>2, <1>3, ClusterOf DEF Clusters
<1>6. PlacedOrMeets(Listing(list))'
  BY <1>3, <1>5, ClustersStay DEF PlacedOrMeets, recordVars
<1>7. Clusters("signalling", j, list)'
  BY <1>6 DEF Clusters
<1>8. QED
  BY <1>3, <1>4, <1>7, ClusterOf, ClusterWorkerStep

LEMMA ClusterContinue ==
    ASSUME OneWorker, ClusterInv, LinkInv', NEW w \in Worker, Continue(w)
    PROVE  ClusterInv'
<1>1. PICK list : list = waiting[job[w].service]
  OBVIOUS
<1>2. /\ pc[w] = "signalling" /\ UNCHANGED <<recordVars, linkVars, documentVars>>
      /\ list \in Seq(present) /\ PlacedOrMeets(Listing(list))
  BY <1>1, ClusterOf DEF Continue, Clusters
<1>3. CASE list # <<>>
  BY <1>1, <1>2, <1>3, ClusterScan DEF Continue
<1>4. CASE list = <<>>
  <2>1. PICK j, next : j = NoJob /\ next = waiting[j.service]
    OBVIOUS
  <2>2. pc' = [pc EXCEPT ![w] = "idle"] /\ job' = [job EXCEPT ![w] = j] /\ waiting' = waiting
    BY <1>1, <1>4, <2>1 DEF Continue
  <2>3. Leaves(w, "idle", j, next)
    BY <2>1, <2>2, ClusterOf DEF Leaves
  <2>4. PlacedOrMeets({})
    BY <1>2, <1>4 DEF Listing, PlacedOrMeets
  <2>5. PlacedOrMeets({})'
    BY <1>2, <2>4, ClustersStay DEF PlacedOrMeets, recordVars, documentVars
  <2>6. Clusters("idle", j, next)'
    BY <2>5 DEF Clusters
  <2>7. QED
    BY <1>2, <2>3, <2>6, ClusterOf, ClusterWorkerStep DEF documentVars
<1>5. QED
  BY <1>3, <1>4

LEMMA ClusterStep == OneWorker /\ MaxErrors = 0 /\ ClusterInv /\ [Next]_vars => ClusterInv'
<1> SUFFICES ASSUME OneWorker, MaxErrors = 0, ClusterInv, [Next]_vars
             PROVE  ClusterInv'
  OBVIOUS
<1>1. TypeInv /\ LinkInv'
  BY LinkStep DEF ClusterInv, LinkInv
<1>2. CASE UNCHANGED vars
  <2>1. UNCHANGED <<present, linkVars, documents, recordedBy, waiting, pc, job>>
    BY <1>2 DEF vars, linkVars
  <2>2. ASSUME NEW w \in Worker
        PROVE  Clusters(pc[w], job[w], waiting[job[w].service])'
    <3>1. PICK place, j, list : place = pc[w] /\ j = job[w] /\ list = waiting[job[w].service]
      OBVIOUS
    <3>2. /\ \A x : Lone(x)' <=> Lone(x)
          /\ \A x : Placed(x)' <=> Placed(x)
          /\ \A x : Cluster(x)' = Cluster(x)
      BY <2>1, ClustersStay
    <3>3. Writing(j)' <=> Writing(j)
      BY <2>1, <3>2 DEF Writing
    <3>4. \A S : PlacedOrMeets(S)' <=> PlacedOrMeets(S)
      BY <2>1, <3>2 DEF PlacedOrMeets
    <3>5. Clusters(place, j, list)
      BY <3>1 DEF ClusterInv
    <3>6. Clusters(place, j, list)'
      BY <2>1, <3>2, <3>3, <3>4, <3>5 DEF Clusters
    <3>7. QED
      BY <2>1, <3>1, <3>6
  <2>3. QED
    BY <1>1, <2>1, <2>2 DEF ClusterInv
<1>3. ASSUME NEW w \in Worker, ReceiveRecord(w) \/ ReceiveMerge(w) \/ Work(w)
      PROVE  ClusterInv'
  BY <1>1, <1>3, ClusterReceive, ClusterStore, ClusterMerge, ClusterUpdate, ClusterDetach,
     ClusterLink, ClusterGather, ClusterWrite, ClusterRecompute, ClusterContinue DEF Work
<1>4. QED
  BY <1>1, <1>2, <1>3, NoFailure DEF Next

(***************************************************************************)
(* Between two messages each record is recorded by one document, with the  *)
(* records that shared identifiers and assertions lead to and no other,    *)
(* when one worker treats the messages and no call fails.                  *)
(***************************************************************************)
THEOREM ClustersRecorded ==
    ASSUME OneWorker, MaxErrors = 0
    PROVE  Spec => []DocumentsAreClusters
<1>1. ClusterInv => DocumentsAreClusters
  <2> SUFFICES ASSUME ClusterInv, Settled, NEW r \in present
               PROVE  \E d \in documents :
                          /\ RecordedIn(r) = {d}
                          /\ recordedBy[d] = Reached(r, Sharing \cup asserted)
    BY DEF DocumentsAreClusters
  <2>1. PICK w \in Worker : pc[w] = "idle"
    BY DEF Settled, OneWorker
  <2>2. Placed(r) /\ TypeInv /\ Faults = {}
    BY <2>1, ClusterOf, LinkOf DEF Clusters, Links, PlacedOrMeets
  <2>3. /\ present \in SUBSET Record /\ Sharing \subseteq Pairs(present, present) /\ Graph(asserted)
        /\ inferred = Completion(present, Sharing)
    BY <2>2, SharingTyped DEF Sharing, Faults
  <2>4. Cluster(r) = Reached(r, Sharing \cup asserted)
    BY <2>3, CompletionReaches DEF Cluster
  <2>5. QED
    BY <2>2, <2>4 DEF Placed
<1>2. ClusterInv /\ [Next]_vars => ClusterInv'
  BY ClusterStep
<1>3. QED
  BY <1>1, <1>2, ClusterInit, PTL DEF Spec

---------------------------------------------------------------------------
(* Documents merged into others. *)

LEMMA HeirWrite ==
    ASSUME ClusterInv, Fruitful, NEW w \in Worker, Write(w)
    PROVE  Fruitful'
<1>1. PICK d \in job[w].left : Writes(w, d)
  BY ClusterOf, WriteIs
<1>2. PICK j, main : j = job[w] /\ main = j.main
  OBVIOUS
<1>3. pc[w] = "writing" /\ Typed("writing", j) /\ Writing(j)
  BY <1>2, ClusterOf, WriteIs DEF Clusters
<1>4. /\ d \in Doc /\ d \in DOMAIN j.copies /\ Kept(w, d) = Keeps(j, d)
      /\ Kept(w, d) = {} => d # main /\ main \in documents
  BY <1>1, <1>2, <1>3, ClusterOf, KeptTyped DEF Kept, Keeps
<1>5. /\ documents' = documents \cup {d} /\ recordedBy'[d] = Kept(w, d)
      /\ \A e \in documents \ {d} : recordedBy'[e] = recordedBy[e]
  BY <1>1, <1>4, ClusterOf DEF Writes
<1>6. \A e \in documents : heirs[e] \subseteq heirs'[e]
  BY <1>1, ClusterOf DEF Writes, TypeInv, TypeOK
<1>7. Kept(w, d) = {} => main \in heirs'[d]
  BY <1>1, <1>2, <1>4, ClusterOf DEF Writes, TypeInv, TypeOK
<1>8. ASSUME Kept(w, d) = {}
      PROVE  recordedBy'[main] # {}
  <2>1. main \in DOMAIN j.copies /\ main \in documents /\ d # main /\ main \in Doc
    BY <1>2, <1>3, <1>4, <1>8, ClusterOf DEF Typed
  <2>2. j.copies[main] \cap j.equivalent # {} /\ j.equivalent # {}
    BY <1>3, <1>4, <2>1 DEF Writing, Typed
  <2>3. recordedBy[main] = j.copies[main] \/ recordedBy[main] = j.equivalent
    BY <1>2, <1>3, <2>1 DEF Writing, Keeps
  <2>4. QED
    BY <1>5, <2>1, <2>2, <2>3
<1>9. ASSUME NEW S \in SUBSET documents', S # {}, \A e \in S : heirs'[e] \subseteq S
      PROVE  \E e \in S : recordedBy'[e] # {}
  <2>1. CASE d \in S
    BY <1>5, <1>7, <1>8, <1>9, <2>1
  <2>2. CASE d \notin S
    <3>1. S \in SUBSET documents /\ \A e \in S : heirs[e] \subseteq S
      BY <1>5, <1>6, <1>9, <2>2
    <3>2. PICK e \in S : recordedBy[e] # {}
      BY <1>9, <3>1 DEF Fruitful
    <3>3. QED
      BY <1>5, <2>2, <3>1, <3>2
  <2>3. QED
    BY <2>1, <2>2
<1>10. QED
  BY <1>9 DEF Fruitful

LEMMA HeirInit == Init => HeirInv
<1> SUFFICES ASSUME Init
             PROVE  HeirInv
  OBVIOUS
<1>1. \A d \in documents : recordedBy[d] # {} /\ d \notin deleted
  <2>1. \A d \in documents : d \in Doc /\ d \in Record
    BY TypeInit DEF Init, TypeInv, TypeOK
  <2>2. \A d \in documents : recordedBy[d] = Reached(d, Sharing) /\ d \notin deleted
    BY <2>1 DEF Init
  <2>3. QED
    BY <2>1, <2>2, ReachedIn
<1>2. QED
  BY <1>1, FreshInit, ClusterInit DEF HeirInv, Fruitful, AloneInv, UpToDate, Init

LEMMA AloneStep ==
    ASSUME OneWorker, TypeInv, AloneInv, NEW w \in Worker,
           ReceiveRecord(w) \/ ReceiveMerge(w) \/ Work(w)
    PROVE  AloneInv'
<1>1. Worker = {w} /\ DOMAIN pc = Worker /\ DOMAIN job = Worker
  BY DEF OneWorker, TypeInv, TypeOK
<1>2. CASE pc'[w] # "signalling" /\ UNCHANGED <<overtaken, errors>>
  BY <1>1, <1>2 DEF AloneInv, UpToDate
<1>3. CASE ReceiveRecord(w) \/ ReceiveMerge(w)
  BY <1>1, <1>2, <1>3 DEF ReceiveRecord, ReceiveMerge, Receives, documentVars
<1>4. CASE Store(w) \/ Merge(w)
  BY <1>1, <1>2, <1>4 DEF Store, Merge, documentVars, countVars
<1>5. CASE Update(w) \/ Continue(w)
  BY <1>1, <1>2, <1>5 DEF Update, Continue, Scans, documentVars, countVars
<1>6. CASE Detach(w) \/ Link(w)
  BY <1>1, <1>2, <1>6 DEF Detach, Detached, Link, documentVars, countVars
<1>7. CASE Gather(w)
  BY <1>1, <1>2, <1>7 DEF Gather, documentVars, countVars
<1>8. CASE Write(w)
  <2>1. PICK d, place, j : /\ Writes(w, d) /\ WrittenJob(w, d, place, j)
                           /\ pc' = [pc EXCEPT ![w] = place] /\ job' = [job EXCEPT ![w] = j]
    BY <1>8, WriteIs
  <2>2. pc'[w] = place /\ job'[w] = j /\ UNCHANGED <<overtaken, errors>>
    BY <1>1, <2>1 DEF Writes, countVars
  <2>3. place = "signalling" => j.document = 0
    BY <2>1 DEF WrittenJob
  <2>4. QED
    BY <1>1, <2>2, <2>3 DEF AloneInv, UpToDate
<1>9. CASE ReadSources(w)
  <2>1. PICK j : /\ job' = [job EXCEPT ![w] = j] /\ j.read = recordedBy[j.document]
                 /\ UNCHANGED <<documentVars, errors>>
    BY <1>9, ReadSourcesIs DEF countVars
  <2>2. QED
    BY <1>1, <2>1 DEF AloneInv, UpToDate, documentVars
<1>10. CASE Recompute(w)
  <2>1. PICK j : /\ job' = [job EXCEPT ![w] = j] /\ j.document = 0
                 /\ Recomputes(job[w].document, job[w].read)
                 /\ pc[w] = "signalling" /\ job[w].document \in Doc /\ errors' = errors
    BY <1>10, RecomputeIs DEF countVars
  <2>2. job[w].document # 0
    BY <2>1 DEF Doc
  <2>3. job[w].read = recordedBy[job[w].document]
    BY <2>1, <2>2 DEF AloneInv, UpToDate
  <2>4. overtaken' = {}
    BY <2>1, <2>3 DEF Recomputes, AloneInv
  <2>5. QED
    BY <1>1, <2>1, <2>4 DEF AloneInv, UpToDate
<1>11. QED
  BY <1>3, <1>4, <1>5, <1>6, <1>7, <1>8, <1>9, <1>10 DEF Work

LEMMA HeirStep == OneWorker /\ MaxErrors = 0 /\ HeirInv /\ [Next]_vars => HeirInv'
<1> SUFFICES ASSUME OneWorker, MaxErrors = 0, HeirInv, [Next]_vars
             PROVE  HeirInv'
  OBVIOUS
<1>1. FreshInv' /\ ClusterInv' /\ AloneInv' /\ ClusterInv /\ Fruitful /\ TypeInv
  <2>1. FreshInv' /\ ClusterInv' /\ ClusterInv /\ Fruitful /\ TypeInv /\ AloneInv
    BY FreshStep, ClusterStep DEF HeirInv, FreshInv
  <2>2. CASE UNCHANGED vars
    BY <2>1, <2>2 DEF vars, AloneInv, UpToDate
  <2>3. CASE Next
    BY <2>1, <2>3, AloneStep, NoFailure DEF Next
  <2>4. QED
    BY <2>1, <2>2, <2>3
<1>2. CASE UNCHANGED <<documents, recordedBy, heirs>>
  BY <1>1, <1>2 DEF HeirInv, Fruitful
<1>3. CASE UNCHANGED vars
  BY <1>2, <1>3 DEF vars
<1>4. ASSUME NEW w \in Worker, ReceiveRecord(w) \/ ReceiveMerge(w) \/ Work(w), ~ Write(w)
      PROVE  UNCHANGED <<documents, recordedBy, heirs>>
  <2>1. CASE ReceiveRecord(w) \/ ReceiveMerge(w)
    BY <2>1 DEF ReceiveRecord, ReceiveMerge, Receives, documentVars
  <2>2. CASE Store(w) \/ Merge(w) \/ Update(w)
    BY <2>2 DEF Store, Merge, Update, documentVars
  <2>3. CASE Detach(w) \/ Link(w)
    BY <2>3 DEF Detach, Detached, Link, documentVars
  <2>4. CASE Gather(w) \/ ReadSources(w) \/ Recompute(w) \/ Continue(w)
    BY <2>4 DEF Gather, ReadSources, Recompute, Continue, documentVars
  <2>5. QED
    BY <1>4, <2>1, <2>2, <2>3, <2>4 DEF Work
<1>5. ASSUME NEW w \in Worker, Write(w)
      PROVE  HeirInv'
  BY <1>1, <1>5, HeirWrite DEF HeirInv
<1>6. QED
  BY <1>1, <1>2, <1>3, <1>4, <1>5, NoFailure DEF Next

(***************************************************************************)
(* Between two messages a document is flagged exactly when it has no       *)
(* record, and following the documents it was merged into leads to one     *)
(* that has some, when one worker treats the messages and no call fails.   *)
(***************************************************************************)
THEOREM MergedAreFound ==
    ASSUME OneWorker, MaxErrors = 0
    PROVE  Spec => []EmptiedHaveAnHeir
<1>1. HeirInv => EmptiedHaveAnHeir
  <2> SUFFICES ASSUME HeirInv, Settled, NEW d \in documents
               PROVE  /\ d \in deleted <=> recordedBy[d] = {}
                      /\ \E e \in Successors(d) : recordedBy[e] # {}
    BY DEF EmptiedHaveAnHeir
  <2>1. ~ Pending(d)
    BY DEF Settled, Pending, WillRecompute
  <2>2. d \in deleted <=> recordedBy[d] = {}
    BY <2>1 DEF HeirInv, AloneInv, FreshInv, Fresh
  <2>3. Successors(d) \subseteq documents /\ d \in Successors(d)
    BY DEF Successors
  <2>4. ASSUME NEW e \in Successors(d), NEW h \in heirs[e]
        PROVE  h \in Successors(d)
    <3>1. h \in documents
      BY <2>3, <2>4 DEF HeirInv, FreshInv, TypeInv, TypeOK
    <3>2. ASSUME NEW S \in SUBSET documents, d \in S, \A f \in S : heirs[f] \subseteq S
          PROVE  h \in S
      <4>1. e \in S
        BY <3>2 DEF Successors
      <4>2. QED
        BY <3>2, <4>1
    <3>3. QED
      BY <3>1, <3>2 DEF Successors
  <2>5. \E e \in Successors(d) : recordedBy[e] # {}
    BY <2>3, <2>4 DEF HeirInv, Fruitful
  <2>6. QED
    BY <2>2, <2>5
<1>2. HeirInv /\ [Next]_vars => HeirInv'
  BY HeirStep
<1>3. QED
  BY <1>1, <1>2, HeirInit, PTL DEF Spec

=============================================================================
