------------------------ MODULE ContributionsProofs ------------------------
(***************************************************************************)
(* Proofs about the contributions of documents and the authority           *)
(* organizations, for any records, people, organizations and workers.      *)
(***************************************************************************)
EXTENDS Contributions, FiniteSetTheorems, WellFoundedInduction, TLAPS

---------------------------------------------------------------------------
(* The split of a cluster of organizations into states. *)

\* The instance has its own copy of FiniteSets.
LEMMA SameSizes == \A S : /\ O!Cardinality(S) = Cardinality(S)
                         /\ O!IsFiniteSet(S) = IsFiniteSet(S)
BY DEF O!Cardinality, Cardinality, O!IsFiniteSet, IsFiniteSet

Names == {O!LongestName(S) : S \in SUBSET SourceOrganization}
AllIds == UNION {Described[o].ids : o \in SourceOrganization}
StateRecords == [name : Names, ids : SUBSET AllIds, excluded : SUBSET O!Types(AllIds),
                 orgs : SUBSET SourceOrganization]
SplitRecords == [states : Seq(StateRecords), rootOnly : SUBSET SourceOrganization]

Consistent(s) == ~ O!Contradict(s.ids, s.ids) /\ s.excluded \cap O!Types(s.ids) = {}
StateOf(orgs, s) == s \in StateRecords /\ Consistent(s) /\ s.orgs \subseteq orgs
SplitOf(orgs, split) ==
    /\ split \in SplitRecords /\ split.rootOnly \subseteq orgs
    /\ \A i \in DOMAIN split.states : StateOf(orgs, split.states[i])

LEMMA NewStateOf == \A orgs : StateOf(orgs, O!NewState)
<1>1. "" \in Names
  <2>1. O!LongestName({}) = ""
    BY DEF O!LongestName
  <2>2. QED
    BY <2>1 DEF Names
<1>2. QED
  BY <1>1 DEF StateOf, StateRecords, Consistent, O!NewState, O!Contradict, O!Types

LEMMA UsableTyped ==
    ASSUME NEW o \in SourceOrganization
    PROVE  /\ O!Usable(o) \subseteq AllIds /\ O!Ambiguous(o) \subseteq O!Types(AllIds)
           /\ O!Ambiguous(o) \cap O!Types(O!Usable(o)) = {}
           /\ ~ O!Contradict(O!Usable(o), O!Usable(o))
<1>1. Described[o].ids \subseteq AllIds
  BY DEF AllIds
<1>2. O!Usable(o) \subseteq Described[o].ids
  BY DEF O!Usable
<1>3. O!Types(Described[o].ids) \subseteq O!Types(AllIds)
  BY <1>1 DEF O!Types
<1>4. ~ O!Contradict(O!Usable(o), O!Usable(o))
  BY <1>2 DEF O!Usable, O!Contradict
<1>5. QED
  BY <1>1, <1>2, <1>3, <1>4 DEF O!Ambiguous

(***************************************************************************)
(* Identifiers that do not contradict each other, joined.                  *)
(***************************************************************************)
LEMMA Joined ==
    ASSUME NEW I, NEW J, ~ O!Contradict(I, I), ~ O!Contradict(J, J), ~ O!Contradict(I, J)
    PROVE  /\ ~ O!Contradict(I \cup J, I \cup J)
           /\ O!Types(I \cup J) = O!Types(I) \cup O!Types(J)
<1>1. O!Types(I \cup J) = O!Types(I) \cup O!Types(J)
  BY DEF O!Types
<1>2. ~ O!Contradict(I \cup J, I \cup J)
  BY DEF O!Contradict
<1>3. QED
  BY <1>1, <1>2

LEMMA AttachedOf ==
    ASSUME NEW orgs \in SUBSET SourceOrganization, NEW s, StateOf(orgs, s), NEW o \in orgs,
           O!Compatible(s, o)
    PROVE  StateOf(orgs, O!Attached(s, o))
<1>1. PICK usable, ambiguous : usable = O!Usable(o) /\ ambiguous = O!Ambiguous(o)
  OBVIOUS
<1>2. s \in StateRecords /\ Consistent(s) /\ s.orgs \subseteq orgs
  BY DEF StateOf
<1>3. PICK a : a = O!Attached(s, o)
  OBVIOUS
<1>4. /\ a \in [name : Names, ids : {s.ids \cup usable}, excluded : {s.excluded \cup ambiguous},
                orgs : {s.orgs \cup {o}}]
  BY <1>1, <1>2, <1>3 DEF O!Attached, StateRecords
<1>5. a.ids = s.ids \cup usable /\ a.excluded = s.excluded \cup ambiguous /\ a.orgs = s.orgs \cup {o}
  BY <1>4
<1>6. /\ usable \subseteq AllIds /\ ambiguous \subseteq O!Types(AllIds)
      /\ ambiguous \cap O!Types(usable) = {} /\ ~ O!Contradict(usable, usable)
  BY <1>1, UsableTyped
<1>7. a \in StateRecords
  BY <1>2, <1>4, <1>6 DEF StateRecords
<1>8. /\ ~ O!Contradict(s.ids, s.ids) /\ ~ O!Contradict(s.ids, usable)
      /\ s.excluded \cap O!Types(s.ids) = {} /\ ambiguous \cap O!Types(s.ids) = {}
      /\ s.excluded \cap O!Types(usable) = {}
  BY <1>1, <1>2 DEF O!Compatible, Consistent
<1>9. Consistent(a)
  BY <1>5, <1>6, <1>8, Joined DEF Consistent
<1>10. QED
  BY <1>2, <1>3, <1>5, <1>7, <1>9 DEF StateOf

LEMMA StartsState ==
    ASSUME NEW orgs \in SUBSET SourceOrganization, NEW o \in orgs
    PROVE  StateOf(orgs, O!Attached(O!NewState, o))
<1>1. O!Compatible(O!NewState, o)
  BY DEF O!Compatible, O!NewState, O!Types, O!Contradict
<1>2. QED
  BY <1>1, NewStateOf, AttachedOf

LEMMA PlacedOf ==
    ASSUME NEW orgs \in SUBSET SourceOrganization, NEW split, SplitOf(orgs, split), NEW o \in orgs
    PROVE  SplitOf(orgs, O!Placed(orgs, split, o))
<1> DEFINE fits == {i \in DOMAIN split.states : O!Compatible(split.states[i], o)}
           after == O!Placed(orgs, split, o)
<1>1. PICK sts, n : sts = split.states /\ n \in Nat /\ DOMAIN sts = 1 .. n
  BY DEF SplitOf, SplitRecords
<1>2. sts \in Seq(StateRecords) /\ \A i \in 1 .. n : StateOf(orgs, sts[i])
  BY <1>1 DEF SplitOf, SplitRecords
<1>3. CASE O!Cardinality(fits) = 1
  <2>1. PICK next : next = [i \in 1 .. n |-> IF i \in fits THEN O!Attached(sts[i], o) ELSE sts[i]]
    OBVIOUS
  <2>2. after = [split EXCEPT !.states = next]
    <3>1. after = [split EXCEPT !.states = [i \in DOMAIN split.states |->
                      IF i \in fits THEN O!Attached(split.states[i], o) ELSE split.states[i]]]
      BY <1>3 DEF O!Placed
    <3>2. QED
      BY <1>1, <2>1, <3>1
  <2>3. \A i \in 1 .. n : StateOf(orgs, next[i])
    BY <1>1, <1>2, <2>1, AttachedOf
  <2>4. next \in Seq(StateRecords) /\ DOMAIN next = 1 .. n
    <3>1. next \in [1 .. n -> StateRecords]
      BY <2>1, <2>3 DEF StateOf
    <3>2. QED
      BY <1>1, <3>1
  <2>5. QED
    BY <2>2, <2>3, <2>4 DEF SplitOf, SplitRecords
<1>4. CASE O!Cardinality(fits) # 1 /\ (O!Conflicts(o, orgs) # {} \/ sts = <<>>)
  <2>1. PICK new : new = O!Attached(O!NewState, o) /\ StateOf(orgs, new)
    BY StartsState
  <2>2. PICK next : next = Append(sts, new)
    OBVIOUS
  <2>3. after = [split EXCEPT !.states = next]
    <3>1. after = [split EXCEPT !.states = Append(split.states, O!Attached(O!NewState, o))]
      <4>1. O!Conflicts(o, orgs) # {} \/ split.states = <<>>
        BY <1>1, <1>4
      <4>2. QED
        BY <1>4, <4>1 DEF O!Placed
    <3>2. QED
      BY <1>1, <2>1, <2>2, <3>1
  <2>4. next \in Seq(StateRecords) /\ \A i \in DOMAIN next : StateOf(orgs, next[i])
    BY <1>1, <1>2, <2>1, <2>2 DEF StateOf
  <2>5. QED
    BY <2>3, <2>4 DEF SplitOf, SplitRecords
<1>5. CASE O!Cardinality(fits) # 1 /\ ~ (O!Conflicts(o, orgs) # {} \/ sts = <<>>)
  <2>1. after = [split EXCEPT !.rootOnly = @ \cup {o}]
    <3>1. ~ (O!Conflicts(o, orgs) # {} \/ split.states = <<>>)
      BY <1>1, <1>5
    <3>2. QED
      BY <1>5, <3>1 DEF O!Placed
  <2>2. QED
    BY <2>1 DEF SplitOf, SplitRecords
<1>6. QED
  BY <1>3, <1>4, <1>5

(***************************************************************************)
(* The recursive definition of a split has a solution.  Splits after at    *)
(* most n organizations are built one from the other; if there were none   *)
(* for some n, there would be none for the least one.                      *)
(***************************************************************************)
IsSplitting(order, cluster, n, f) ==
    f = [i \in 0 .. n |-> IF i = 0 THEN O!NoSplit ELSE O!Placed(cluster, f[i - 1], order[i])]

LEMMA SplittingExists ==
    ASSUME NEW order, NEW cluster, NEW n \in Nat
    PROVE  \E f : IsSplitting(order, cluster, n, f)
<1> DEFINE missing == {m \in Nat : ~ \E f : IsSplitting(order, cluster, m, f)}
<1>1. SUFFICES ASSUME missing # {}
               PROVE  FALSE
  OBVIOUS
<1>2. PICK m \in missing : \A k \in missing : ~ (<<k, m>> \in OpToRel(<, Nat))
  BY <1>1, NatLessThanWellFounded, WFMin
<1>3. m \in Nat /\ \A k \in Nat : k < m => \E f : IsSplitting(order, cluster, k, f)
  BY <1>2 DEF OpToRel
<1>4. CASE m = 0
  <2>1. PICK f : f = [i \in 0 .. 0 |-> O!NoSplit]
    OBVIOUS
  <2>2. IsSplitting(order, cluster, m, f)
    BY <1>4, <2>1 DEF IsSplitting
  <2>3. QED
    BY <1>2, <2>2
<1>5. CASE m # 0
  <2>1. PICK f : IsSplitting(order, cluster, m - 1, f)
    BY <1>3, <1>5
  <2>2. PICK g : g = [i \in 0 .. m |-> IF i = m THEN O!Placed(cluster, f[m - 1], order[m]) ELSE f[i]]
    OBVIOUS
  <2>3. ASSUME NEW i \in 0 .. m
        PROVE  g[i] = IF i = 0 THEN O!NoSplit ELSE O!Placed(cluster, g[i - 1], order[i])
    <3>1. CASE i = m
      <4>1. g[i - 1] = f[m - 1]
        BY <1>3, <1>5, <2>2, <3>1
      <4>2. QED
        BY <1>3, <1>5, <2>2, <3>1, <4>1
    <3>2. CASE i # m /\ i # 0
      <4>1. i \in 0 .. m - 1 /\ i - 1 \in 0 .. m - 1
        BY <1>3, <1>5, <3>2
      <4>2. f[i] = O!Placed(cluster, f[i - 1], order[i])
        BY <2>1, <3>2, <4>1 DEF IsSplitting
      <4>3. g[i] = f[i] /\ g[i - 1] = f[i - 1]
        BY <1>3, <2>2, <3>2, <4>1
      <4>4. QED
        BY <3>2, <4>2, <4>3
    <3>3. CASE i # m /\ i = 0
      <4>1. f[0] = O!NoSplit
        BY <1>3, <1>5, <2>1 DEF IsSplitting
      <4>2. QED
        BY <2>2, <3>3, <4>1
    <3>4. QED
      BY <3>1, <3>2, <3>3
  <2>4. IsSplitting(order, cluster, m, g)
    BY <2>2, <2>3 DEF IsSplitting
  <2>5. QED
    BY <1>2, <2>4
<1>6. QED
  BY <1>4, <1>5

LEMMA SplittingOf ==
    ASSUME NEW cluster \in SUBSET SourceOrganization, NEW order \in O!Orders(cluster)
    PROVE  /\ Len(order) \in Nat
           /\ SplitOf(cluster, O!Splitting(order, cluster)[Len(order)])
<1>1. PICK n : n = Cardinality(cluster) /\ n \in Nat
  BY CallAssumption, SameSizes, FS_Subset, FS_CardinalityType DEF O!OrganizationsAssumption
<1>2. order \in [1 .. n -> cluster] /\ Len(order) = n
  BY <1>1, SameSizes DEF O!Orders
<1>3. PICK f : f = O!Splitting(order, cluster)
  OBVIOUS
<1>4. IsSplitting(order, cluster, n, f)
  <2>1. f = CHOOSE g : IsSplitting(order, cluster, n, g)
    BY <1>2, <1>3 DEF O!Splitting, IsSplitting
  <2>2. QED
    BY <1>1, <2>1, SplittingExists
<1> DEFINE wrong == {i \in Nat : i <= n /\ ~ SplitOf(cluster, f[i])}
<1>5. SUFFICES ASSUME wrong # {}
               PROVE  FALSE
  BY <1>1, <1>2, <1>3
<1>6. PICK i \in wrong : \A k \in wrong : ~ (<<k, i>> \in OpToRel(<, Nat))
  BY <1>5, NatLessThanWellFounded, WFMin
<1>7. i \in Nat /\ i <= n /\ \A k \in Nat : k < i => SplitOf(cluster, f[k])
  <2>1. i \in Nat /\ i <= n
    BY <1>6
  <2>2. ASSUME NEW k \in Nat, k < i
        PROVE  k \notin wrong /\ k <= n
    <3>1. k <= n
      BY <1>1, <2>1, <2>2
    <3>2. <<k, i>> \in OpToRel(<, Nat)
      BY <2>1, <2>2 DEF OpToRel
    <3>3. QED
      BY <1>6, <3>1, <3>2
  <2>3. QED
    BY <2>1, <2>2
<1>8. CASE i = 0
  <2>1. f[0] = O!NoSplit
    BY <1>1, <1>4 DEF IsSplitting
  <2>2. SplitOf(cluster, O!NoSplit)
    BY DEF SplitOf, SplitRecords, O!NoSplit
  <2>3. QED
    BY <1>6, <1>8, <2>1, <2>2
<1>9. CASE i # 0
  <2>1. f[i] = O!Placed(cluster, f[i - 1], order[i])
    BY <1>1, <1>4, <1>7, <1>9 DEF IsSplitting
  <2>2. SplitOf(cluster, f[i - 1])
    BY <1>7, <1>9
  <2>3. order[i] \in cluster
    BY <1>1, <1>2, <1>7, <1>9
  <2>4. QED
    BY <1>6, <2>1, <2>2, <2>3, PlacedOf
<1>10. QED
  BY <1>8, <1>9

(***************************************************************************)
(* The split of a cluster has states that do not contradict themselves and *)
(* are made of organizations of the cluster.                               *)
(***************************************************************************)
LEMMA SplitsOf ==
    ASSUME NEW cluster \in SUBSET SourceOrganization, NEW split \in O!Splits[cluster]
    PROVE  SplitOf(cluster, split)
<1>1. PICK order \in O!Orders(cluster) : split = O!Split(order, cluster)
  BY DEF O!Splits
<1>2. PICK last : last = O!Splitting(order, cluster)[Len(order)] /\ SplitOf(cluster, last)
  BY SplittingOf
<1>3. PICK sts, n : sts = last.states /\ n \in Nat /\ DOMAIN sts = 1 .. n
  BY <1>2 DEF SplitOf, SplitRecords
<1>4. sts \in Seq(StateRecords) /\ \A i \in 1 .. n : StateOf(cluster, sts[i])
  BY <1>2, <1>3 DEF SplitOf, SplitRecords
<1>5. PICK named : named = [i \in 1 .. n |-> O!Named(sts[i])]
  OBVIOUS
<1>6. split = [last EXCEPT !.states = named]
  <2>1. split = [last EXCEPT !.states = [i \in DOMAIN last.states |-> O!Named(last.states[i])]]
    BY <1>1, <1>2 DEF O!Split
  <2>2. QED
    BY <1>3, <1>5, <2>1
<1>7. ASSUME NEW i \in 1 .. n
      PROVE  StateOf(cluster, named[i])
  <2>1. PICK s : s = sts[i] /\ s \in StateRecords /\ Consistent(s) /\ s.orgs \subseteq cluster
    BY <1>4 DEF StateOf
  <2>2. PICK name : name = O!LongestName(s.orgs) /\ name \in Names
    BY <2>1 DEF Names, StateRecords
  <2>3. named[i] = [s EXCEPT !.name = name]
    BY <1>5, <2>1, <2>2 DEF O!Named
  <2>4. /\ named[i] \in StateRecords /\ named[i].ids = s.ids
        /\ named[i].excluded = s.excluded /\ named[i].orgs = s.orgs
    BY <2>1, <2>2, <2>3 DEF StateRecords
  <2>5. QED
    BY <2>1, <2>4 DEF StateOf, Consistent
<1>8. named \in Seq(StateRecords) /\ DOMAIN named = 1 .. n
  <2>1. named \in [1 .. n -> StateRecords]
    BY <1>5, <1>7 DEF StateOf
  <2>2. QED
    BY <1>3, <2>1
<1>9. QED
  BY <1>2, <1>6, <1>7, <1>8 DEF SplitOf, SplitRecords

---------------------------------------------------------------------------
(* The calls for organizations. *)

Places == {"none", "finding", "creating", "updating", "homonyms", "reading", "attaching",
           "relinking", "renewing", "getting", "returned", "failed", "refused"}
Sizes == {0} \cup {O!Cardinality(S) : S \in SUBSET Nat}
Results == [root : Nat, states : SUBSET [uid : Nat, orgs : SUBSET SourceOrganization]]
CallRecords ==
    [at : Places, left : Seq(StateRecords), rootOnly : SUBSET SourceOrganization,
     kept : Seq(Nat), state : Nat, copy : StateRecords,
     homonyms : SUBSET Nat, root : Nat, others : SUBSET (Nat \X Nat), toRead : SUBSET Nat,
     usable : SUBSET [uid : Nat, size : Sizes], known : Sizes, result : Results]

(***************************************************************************)
(* What is found has states that are there, and a root that is there       *)
(* unless it has one state, or none.                                       *)
(***************************************************************************)
ResultOf(result) ==
    /\ \A s \in result.states : s.uid \in DOMAIN states
    /\ \/ result.root \in DOMAIN roots
       \/ result.states = {} \/ O!Cardinality(result.states) = 1

(***************************************************************************)
(* The states a call works on, in memory, are as sound as those written;   *)
(* the states and roots it goes on with are there.                         *)
(***************************************************************************)
CallOf(call) ==
    /\ \A i \in DOMAIN call.left : StateOf(organizations, call.left[i])
    /\ call.rootOnly \subseteq organizations
    /\ \A i \in DOMAIN call.kept : call.kept[i] \in DOMAIN states
    /\ call.at \in {"creating", "updating", "homonyms"} => call.left # <<>>
    /\ call.at = "updating" => call.state \in DOMAIN states /\ StateOf(organizations, call.copy)
    /\ call.at \in {"attaching", "relinking", "getting", "renewing"} => call.root \in DOMAIN roots
    /\ call.toRead \subseteq DOMAIN roots
    /\ \A u \in call.usable : u.uid \in DOMAIN roots
    /\ call.at = "returned" => ResultOf(call.result)

OrgGraph ==
    /\ organizations \subseteq SourceOrganization
    /\ states \in Seq(StateRecords)
    /\ \A s \in DOMAIN states : StateOf(organizations, states[s])
    /\ roots \in Seq(SUBSET organizations)
    /\ hasStates \subseteq (DOMAIN roots) \X (DOMAIN states)
    /\ contested \subseteq DOMAIN states
OrgInv ==
    /\ OrgGraph
    /\ orgCall \in [Worker -> CallRecords]
    /\ \A w \in Worker : CallOf(orgCall[w])
OrgGrows ==
    /\ organizations \subseteq organizations'
    /\ DOMAIN states \subseteq DOMAIN states' /\ DOMAIN roots \subseteq DOMAIN roots'

LEMMA DomainGrows ==
    ASSUME NEW S, NEW s \in Seq(S), NEW x
    PROVE  DOMAIN s \subseteq DOMAIN Append(s, x)
<1>1. DOMAIN s = 1 .. Len(s) /\ DOMAIN Append(s, x) = 1 .. Len(s) + 1 /\ Len(s) \in Nat
  <2>1. s \in Seq(S \cup {x})
    OBVIOUS
  <2>2. QED
    BY <2>1
<1>2. QED
  BY <1>1

LEMMA ResultGrows ==
    ASSUME NEW result, ResultOf(result), OrgGrows
    PROVE  ResultOf(result)'
BY DEF ResultOf, OrgGrows

LEMMA CallGrows ==
    ASSUME NEW call, CallOf(call), OrgGrows
    PROVE  CallOf(call)'
<1>1. \A s : StateOf(organizations, s) => StateOf(organizations, s)'
  BY DEF OrgGrows, StateOf
<1>2. QED
  BY <1>1, ResultGrows DEF CallOf, OrgGrows

LEMMA OrgWorkerStep ==
    ASSUME OrgInv, OrgGraph', OrgGrows, NEW w \in Worker, NEW call \in CallRecords, CallOf(call)',
           orgCall' = [orgCall EXCEPT ![w] = call]
    PROVE  OrgInv'
<1>1. orgCall' \in [Worker -> CallRecords]
  BY DEF OrgInv
<1>2. ASSUME NEW v \in Worker
      PROVE  CallOf(orgCall[v])'
  <2>1. CASE v = w
    <3>1. orgCall'[v] = call
      BY <2>1 DEF OrgInv
    <3>2. QED
      BY <3>1 DEF CallOf, ResultOf
  <2>2. CASE v # w
    <3>1. PICK c : c = orgCall[v] /\ CallOf(c)
      BY DEF OrgInv
    <3>2. orgCall'[v] = c
      BY <2>2, <3>1 DEF OrgInv
    <3>3. CallOf(c)'
      BY <3>1, CallGrows
    <3>4. QED
      BY <3>2, <3>3 DEF CallOf, ResultOf
  <2>3. QED
    BY <2>1, <2>2
<1>3. QED
  BY <1>1, <1>2 DEF OrgInv

LEMMA OrgStays ==
    ASSUME OrgInv, UNCHANGED <<organizations, states, roots, hasStates, contested>>
    PROVE  OrgGraph' /\ OrgGrows
BY DEF OrgInv, OrgGraph, OrgGrows, StateOf

LEMMA CallFields ==
    ASSUME OrgInv, NEW w \in Worker
    PROVE  /\ orgCall[w] \in CallRecords /\ CallOf(orgCall[w]) /\ OrgGraph
           /\ DOMAIN orgCall = Worker /\ orgCall \in [Worker -> CallRecords]
BY DEF OrgInv

(***************************************************************************)
(* A step that only moves the call to another place.                       *)
(***************************************************************************)
LEMMA OrgGoes ==
    ASSUME OrgInv, NEW w \in Worker, NEW place \in {"creating", "getting", "failed", "refused"}, O!Goes(w, place),
           OrgGraph', OrgGrows,
           place = "creating" => orgCall[w].left # <<>>,
           place = "getting" => orgCall[w].root \in DOMAIN roots
    PROVE  OrgInv'
<1>1. PICK c : c = orgCall[w]
  OBVIOUS
<1>2. PICK call : call = [c EXCEPT !.at = place]
  OBVIOUS
<1>3. c \in CallRecords /\ CallOf(c)
  BY <1>1, CallFields
<1>4. call \in CallRecords
  BY <1>2, <1>3 DEF CallRecords, Places
<1>5. orgCall' = [orgCall EXCEPT ![w] = call]
  BY <1>1, <1>2, CallFields DEF O!Goes
<1>6. CallOf(call)
  BY <1>1, <1>2, <1>3 DEF CallOf, CallRecords
<1>7. QED
  BY <1>4, <1>5, <1>6, CallGrows, OrgWorkerStep

(***************************************************************************)
(* The first state to find is settled: it is kept.                         *)
(***************************************************************************)
LEMMA OrgKeeps ==
    ASSUME OrgInv, NEW w \in Worker, orgCall[w].left # <<>>, NEW s, s \in DOMAIN states',
           O!Keeps(w, s), OrgGraph', OrgGrows
    PROVE  OrgInv'
<1>1. PICK c : c = orgCall[w]
  OBVIOUS
<1>2. PICK call : call = [c EXCEPT !.kept = Append(c.kept, s), !.left = Tail(c.left), !.at = "finding"]
  OBVIOUS
<1>3. c \in CallRecords /\ CallOf(c)
  BY <1>1, CallFields
<1>4. s \in Nat
  BY DEF OrgGraph
<1>5. PICK left, kept : left = Tail(c.left) /\ kept = Append(c.kept, s)
  OBVIOUS
<1>6. left \in Seq(StateRecords) /\ \A i \in DOMAIN left : StateOf(organizations, left[i])
  <2>1. c.left \in Seq(StateRecords) /\ c.left # <<>>
    BY <1>1, <1>3 DEF CallRecords
  <2>2. left \in Seq(StateRecords) /\ \A i \in DOMAIN left : i + 1 \in DOMAIN c.left /\ left[i] = c.left[i + 1]
    BY <1>5, <2>1
  <2>3. QED
    BY <1>3, <2>2 DEF CallOf
<1>7. kept \in Seq(Nat) /\ \A i \in DOMAIN kept : kept[i] \in DOMAIN states'
  <2>1. c.kept \in Seq(Nat) /\ \A i \in DOMAIN c.kept : c.kept[i] \in DOMAIN states'
    BY <1>3 DEF CallRecords, CallOf, OrgGrows
  <2>2. QED
    BY <1>4, <1>5, <2>1
<1>8. call \in CallRecords
  BY <1>2, <1>3, <1>5, <1>6, <1>7 DEF CallRecords, Places
<1>9. orgCall' = [orgCall EXCEPT ![w] = call]
  BY <1>1, <1>2, CallFields DEF O!Keeps
<1>10. CallOf(call)'
  <2>1. CallOf(c)'
    BY <1>3, CallGrows
  <2>2. /\ call.left = left /\ call.kept = kept /\ call.at = "finding"
        /\ call.rootOnly = c.rootOnly /\ call.toRead = c.toRead /\ call.usable = c.usable
    BY <1>2, <1>3, <1>5 DEF CallRecords
  <2>3. \A i \in DOMAIN left : StateOf(organizations, left[i])'
    BY <1>6 DEF StateOf, OrgGrows
  <2>4. QED
    BY <1>7, <2>1, <2>2, <2>3 DEF CallOf
<1>11. QED
  BY <1>8, <1>9, <1>10, OrgWorkerStep

LEMMA DesiredOf ==
    ASSUME OrgInv, NEW w \in Worker, orgCall[w].left # <<>>
    PROVE  StateOf(organizations, O!Desired(w)) /\ O!Desired(w) \in StateRecords
<1>1. orgCall[w].left \in Seq(StateRecords) /\ CallOf(orgCall[w])
  BY CallFields DEF CallRecords
<1>2. 1 \in DOMAIN orgCall[w].left /\ O!Desired(w) = orgCall[w].left[1]
  BY <1>1 DEF O!Desired
<1>3. QED
  BY <1>1, <1>2 DEF CallOf, StateOf

\* A state completed with one it does not contradict.
LEMMA CompletedOf ==
    ASSUME NEW orgs, NEW s, StateOf(orgs, s), NEW d, StateOf(orgs, d),
           ~ O!Contradict(s.ids, d.ids), s.excluded \cap O!Types(d.ids) = {},
           d.excluded \cap O!Types(s.ids) = {}
    PROVE  StateOf(orgs, O!Completed(s, d))
<1>1. s \in StateRecords /\ d \in StateRecords /\ Consistent(s) /\ Consistent(d)
      /\ s.orgs \subseteq orgs
  BY DEF StateOf
<1>2. PICK c : c = O!Completed(s, d)
  OBVIOUS
<1>3. /\ c \in StateRecords /\ c.ids = s.ids \cup d.ids /\ c.excluded = s.excluded \cup d.excluded
      /\ c.orgs = s.orgs
  BY <1>1, <1>2 DEF O!Completed, StateRecords
<1>4. ~ O!Contradict(s.ids, s.ids) /\ ~ O!Contradict(d.ids, d.ids)
      /\ s.excluded \cap O!Types(s.ids) = {} /\ d.excluded \cap O!Types(d.ids) = {}
  BY <1>1 DEF Consistent
<1>5. Consistent(c)
  <2>1. /\ ~ O!Contradict(s.ids \cup d.ids, s.ids \cup d.ids)
        /\ O!Types(s.ids \cup d.ids) = O!Types(s.ids) \cup O!Types(d.ids)
    BY <1>4, Joined
  <2>2. ~ O!Contradict(c.ids, c.ids) /\ O!Types(c.ids) = O!Types(s.ids) \cup O!Types(d.ids)
    BY <1>3, <2>1
  <2>3. QED
    BY <1>3, <1>4, <2>2 DEF Consistent
<1>6. QED
  BY <1>1, <1>2, <1>3, <1>5 DEF StateOf

LEMMA OrgTold ==
    ASSUME OrgInv, NEW w \in Worker, orgCall[w].left # <<>>, NEW s, s \in DOMAIN states',
           NEW state, O!Told(w, s, state), OrgGraph', OrgGrows
    PROVE  OrgInv'
<1>1. CASE O!Keeps(w, s)
  BY <1>1, OrgKeeps
<1>2. CASE O!Goes(w, "refused")
  BY <1>2, OrgGoes
<1>3. QED
  BY <1>1, <1>2 DEF O!Told

LEMMA OrgFindByIdentifiers ==
    ASSUME OrgInv, NEW w \in Worker, O!FindByIdentifiers(w)
    PROVE  OrgInv'
<1>1. OrgGraph' /\ OrgGrows /\ orgCall[w].left # <<>>
  BY OrgStays DEF O!FindByIdentifiers
<1>2. CASE O!Goes(w, "creating")
  BY <1>1, <1>2, OrgGoes
<1>3. CASE ~ O!Goes(w, "creating")
  <2>1. PICK s \in O!Candidates(O!Desired(w)) :
            orgCall' = [orgCall EXCEPT
                    ![w].at = "updating", ![w].state = s,
                    ![w].copy = O!Completed(states[s], O!Desired(w))]
    BY <1>3 DEF O!FindByIdentifiers
  <2>2. PICK c, copy, found : /\ c = orgCall[w] /\ found = states[s]
                              /\ copy = O!Completed(states[s], O!Desired(w))
    OBVIOUS
  <2>3. s \in DOMAIN states /\ s \in Nat /\ StateOf(organizations, found) /\ found \in StateRecords
    BY <2>2, CallFields DEF O!Candidates, O!State, OrgGraph, StateOf
  <2>4. StateOf(organizations, copy) /\ copy \in StateRecords
    BY <1>1, <2>2, <2>3, DesiredOf, CompletedOf DEF O!Candidates, StateOf
  <2>5. PICK call : call = [c EXCEPT !.at = "updating", !.state = s, !.copy = copy]
    OBVIOUS
  <2>6. c \in CallRecords /\ CallOf(c)
    BY <2>2, CallFields
  <2>7. call \in CallRecords
    BY <2>3, <2>4, <2>5, <2>6 DEF CallRecords, Places
  <2>8. orgCall' = [orgCall EXCEPT ![w] = call]
    BY <2>1, <2>2, <2>5, CallFields
  <2>9. CallOf(call)
    BY <1>1, <2>2, <2>3, <2>4, <2>5, <2>6 DEF CallOf, CallRecords
  <2>10. QED
    BY <1>1, <2>7, <2>8, <2>9, CallGrows, OrgWorkerStep
<1>4. QED
  BY <1>2, <1>3

LEMMA OrgFindByName ==
    ASSUME OrgInv, NEW w \in Worker, O!FindByName(w)
    PROVE  OrgInv'
<1>1. OrgGraph' /\ OrgGrows /\ orgCall[w].left # <<>> /\ states' = states
  BY OrgStays DEF O!FindByName
<1> DEFINE namesakes == {s \in O!State : states[s].name = O!Desired(w).name}
<1>2. CASE O!Goes(w, "creating")
  BY <1>1, <1>2, OrgGoes
<1>3. CASE \E s \in namesakes : O!Keeps(w, s)
  BY <1>1, <1>3, OrgKeeps DEF O!State
<1>4. CASE orgCall' = [orgCall EXCEPT ![w].at = "homonyms", ![w].homonyms = namesakes]
  <2>1. PICK c, homonyms : c = orgCall[w] /\ homonyms = namesakes
    OBVIOUS
  <2>2. PICK call : call = [c EXCEPT !.at = "homonyms", !.homonyms = homonyms]
    OBVIOUS
  <2>3. homonyms \in SUBSET Nat
    BY <2>1, CallFields DEF O!State, OrgGraph
  <2>4. c \in CallRecords /\ CallOf(c)
    BY <2>1, CallFields
  <2>5. call \in CallRecords
    BY <2>2, <2>3, <2>4 DEF CallRecords, Places
  <2>6. orgCall' = [orgCall EXCEPT ![w] = call]
    BY <1>4, <2>1, <2>2, CallFields
  <2>7. CallOf(call)
    BY <1>1, <2>1, <2>2, <2>4 DEF CallOf, CallRecords
  <2>8. QED
    BY <1>1, <2>5, <2>6, <2>7, CallGrows, OrgWorkerStep
<1>5. QED
  <2>1. \/ O!Goes(w, "creating")
        \/ \E s \in (IF O!Cardinality(namesakes) = 1 THEN namesakes
                     ELSE {s \in namesakes : states[s].ids = {}}) : O!Keeps(w, s)
        \/ orgCall' = [orgCall EXCEPT ![w].at = "homonyms", ![w].homonyms = namesakes]
    BY DEF O!FindByName
  <2>2. QED
    BY <1>2, <1>3, <1>4, <2>1

LEMMA OrgLeaveOut ==
    ASSUME OrgInv, NEW w \in Worker, O!LeaveOut(w)
    PROVE  OrgInv'
<1>1. OrgGraph' /\ OrgGrows /\ orgCall[w].left # <<>> /\ orgCall[w].at = "finding"
  BY OrgStays DEF O!LeaveOut
<1>2. PICK c, left : c = orgCall[w] /\ left = Tail(c.left)
  OBVIOUS
<1>3. PICK call : call = [c EXCEPT !.left = left]
  OBVIOUS
<1>4. c \in CallRecords /\ CallOf(c)
  BY <1>2, CallFields
<1>5. left \in Seq(StateRecords) /\ \A i \in DOMAIN left : StateOf(organizations, left[i])
  <2>1. c.left \in Seq(StateRecords) /\ c.left # <<>>
    BY <1>1, <1>2, <1>4 DEF CallRecords
  <2>2. left \in Seq(StateRecords) /\ \A i \in DOMAIN left : i + 1 \in DOMAIN c.left /\ left[i] = c.left[i + 1]
    BY <1>2, <2>1
  <2>3. QED
    BY <1>4, <2>2 DEF CallOf
<1>6. call \in CallRecords
  BY <1>3, <1>4, <1>5 DEF CallRecords
<1>7. orgCall' = [orgCall EXCEPT ![w] = call]
  BY <1>2, <1>3, CallFields DEF O!LeaveOut
<1>8. CallOf(call)
  BY <1>1, <1>2, <1>3, <1>4, <1>5 DEF CallOf, CallRecords
<1>9. QED
  BY <1>1, <1>6, <1>7, <1>8, CallGrows, OrgWorkerStep

LEMMA OrgFindHomonymsRoot ==
    ASSUME OrgInv, NEW w \in Worker, O!FindHomonymsRoot(w)
    PROVE  OrgInv'
<1>1. OrgGraph' /\ OrgGrows /\ orgCall[w].at = "homonyms"
  BY OrgStays DEF O!FindHomonymsRoot
<1>2. PICK common : common = O!RootsOf(orgCall[w].homonyms)
  OBVIOUS
<1>3. CASE O!Cardinality(common) # 1
  <2>1. O!Goes(w, "creating") /\ orgCall[w].left # <<>>
    BY <1>1, <1>2, <1>3, CallFields DEF O!FindHomonymsRoot, CallOf
  <2>2. QED
    BY <1>1, <2>1, OrgGoes
<1>4. CASE O!Cardinality(common) = 1
  <2>1. PICK r : r = CHOOSE q \in common : TRUE
    OBVIOUS
  <2>2. common # {}
    BY <1>4, SameSizes, FS_EmptySet
  <2>3. r \in DOMAIN roots /\ r \in Nat
    <3>1. r \in common
      BY <2>1, <2>2
    <3>2. QED
      BY <1>2, <3>1, CallFields DEF O!RootsOf, OrgGraph
  <2>4. PICK c, call : c = orgCall[w] /\ call = [c EXCEPT !.at = "getting", !.root = r]
    OBVIOUS
  <2>5. c \in CallRecords /\ CallOf(c)
    BY <2>4, CallFields
  <2>6. call \in CallRecords
    BY <2>3, <2>4, <2>5 DEF CallRecords, Places
  <2>7. orgCall' = [orgCall EXCEPT ![w] = call]
    <3>1. orgCall' = [orgCall EXCEPT ![w].at = "getting", ![w].root = r]
      BY <1>2, <1>4, <2>1 DEF O!FindHomonymsRoot
    <3>2. QED
      BY <2>4, <3>1, CallFields
  <2>8. CallOf(call)
    BY <1>1, <2>3, <2>4, <2>5 DEF CallOf, CallRecords
  <2>9. QED
    BY <1>1, <2>6, <2>7, <2>8, CallGrows, OrgWorkerStep
<1>5. QED
  BY <1>3, <1>4

LEMMA OrgCreate ==
    ASSUME OrgInv, NEW w \in Worker, O!Create(w)
    PROVE  OrgInv'
<1>1. orgCall[w].at = "creating" /\ UNCHANGED <<organizations, roots, hasStates, contested>> /\ OrgGraph
  BY CallFields DEF O!Create
<1>2. orgCall[w].left # <<>>
  BY <1>1, CallFields DEF CallOf
<1>3. PICK d : d = O!Desired(w) /\ StateOf(organizations, d) /\ d \in StateRecords
  BY <1>2, DesiredOf
<1>4. CASE states' = Append(states, d) /\ O!Told(w, Len(states) + 1, d)
  <2>1. /\ states' \in Seq(StateRecords) /\ DOMAIN states \subseteq DOMAIN states'
        /\ Len(states) + 1 \in DOMAIN states'
        /\ \A s \in DOMAIN states' : StateOf(organizations, states'[s])
    BY <1>1, <1>3, <1>4 DEF OrgGraph
  <2>2. OrgGraph'
    BY <1>1, <1>4, <2>1 DEF OrgGraph, StateOf
  <2>3. OrgGrows
    BY <1>1, <2>1 DEF OrgGrows
  <2>4. QED
    BY <1>2, <1>4, <2>1, <2>2, <2>3, OrgTold
<1>5. ASSUME NEW s \in O!Signed(d.ids), states' = [states EXCEPT ![s] = d],
             O!Told(w, s, d)
      PROVE  OrgInv'
  <2>1. s \in DOMAIN states
    BY DEF O!Signed, O!State
  <2>2. /\ states' \in Seq(StateRecords) /\ DOMAIN states = DOMAIN states'
        /\ \A t \in DOMAIN states' : StateOf(organizations, states'[t])
    BY <1>1, <1>3, <1>5, <2>1 DEF OrgGraph
  <2>3. OrgGraph' /\ OrgGrows
    BY <1>1, <1>5, <2>1, <2>2 DEF OrgGraph, OrgGrows, StateOf
  <2>4. QED
    BY <1>2, <1>5, <2>1, <2>2, <2>3, OrgTold
<1>6. QED
  BY <1>3, <1>4, <1>5 DEF O!Create

LEMMA OrgUpdate ==
    ASSUME OrgInv, NEW w \in Worker, O!Update(w)
    PROVE  OrgInv'
<1>1. orgCall[w].at = "updating" /\ UNCHANGED <<organizations, roots, hasStates, contested>> /\ OrgGraph
  BY CallFields DEF O!Update
<1>2. PICK s, copy : s = orgCall[w].state /\ copy = orgCall[w].copy
  OBVIOUS
<1>3. orgCall[w].left # <<>> /\ s \in DOMAIN states /\ StateOf(organizations, copy)
      /\ copy \in StateRecords
  BY <1>1, <1>2, CallFields DEF CallOf, StateOf
<1>4. CASE O!Goes(w, "failed") /\ UNCHANGED states
  BY <1>1, <1>4, OrgStays, OrgGoes
<1>5. CASE /\ states' = [states EXCEPT ![s] = copy] /\ O!Told(w, s, copy)
  <2>1. /\ states' \in Seq(StateRecords) /\ DOMAIN states = DOMAIN states'
        /\ \A t \in DOMAIN states' : StateOf(organizations, states'[t])
    BY <1>1, <1>3, <1>5 DEF OrgGraph
  <2>2. OrgGraph' /\ OrgGrows
    BY <1>1, <1>3, <1>5, <2>1 DEF OrgGraph, OrgGrows, StateOf
  <2>3. QED
    BY <1>3, <1>5, <2>1, <2>2, OrgTold
<1>6. QED
  BY <1>2, <1>4, <1>5 DEF O!Update

LEMMA OrgReturnState ==
    ASSUME OrgInv, NEW w \in Worker, O!ReturnState(w)
    PROVE  OrgInv'
<1>1. OrgGraph' /\ OrgGrows
  BY OrgStays DEF O!ReturnState
<1>2. PICK c, found : c = orgCall[w] /\ found = {[uid |-> s, orgs |-> {}] : s \in O!Kept(w)}
  OBVIOUS
<1>3. PICK result : result = [root |-> 0, states |-> found]
  OBVIOUS
<1>4. PICK call : call = [c EXCEPT !.at = "returned", !.result = result]
  OBVIOUS
<1>5. c \in CallRecords /\ CallOf(c) /\ c.kept \in Seq(Nat) /\ Len(c.kept) <= 1
  BY <1>2, CallFields DEF CallRecords, O!ReturnState
<1>6. O!Kept(w) = {} \/ \E s \in DOMAIN states : O!Kept(w) = {s}
  <2>1. O!Kept(w) = {c.kept[i] : i \in DOMAIN c.kept}
    BY <1>2 DEF O!Kept
  <2>2. DOMAIN c.kept = {} \/ DOMAIN c.kept = {1}
    <3>1. PICK n : n = Len(c.kept) /\ n \in Nat /\ n <= 1 /\ DOMAIN c.kept = 1 .. n
      BY <1>5
    <3>2. n = 0 \/ n = 1
      <4>1. \A m \in Nat : m <= 1 => m = 0 \/ m = 1
        OBVIOUS
      <4>2. QED
        BY <3>1, <4>1
    <3>3. 1 .. 0 = {} /\ 1 .. 1 = {1}
      OBVIOUS
    <3>4. QED
      BY <3>1, <3>2, <3>3
  <2>3. QED
    BY <1>5, <2>1, <2>2 DEF CallOf
<1>7. result \in Results /\ ResultOf(result)
  <2>1. CASE O!Kept(w) = {}
    <3>1. found = {}
      BY <1>2, <2>1
    <3>2. QED
      BY <1>3, <3>1 DEF Results, ResultOf
  <2>2. ASSUME NEW s \in DOMAIN states, O!Kept(w) = {s}
        PROVE  result \in Results /\ ResultOf(result)
    <3>1. found = {[uid |-> s, orgs |-> {}]} /\ s \in Nat
      BY <1>2, <2>2, CallFields DEF OrgGraph
    <3>2. O!Cardinality(found) = 1
      BY <3>1, SameSizes, FS_Singleton
    <3>3. QED
      BY <1>3, <3>1, <3>2 DEF Results, ResultOf
  <2>3. QED
    BY <1>6, <2>1, <2>2
<1>8. call \in CallRecords
  BY <1>4, <1>5, <1>7 DEF CallRecords, Places
<1>9. orgCall' = [orgCall EXCEPT ![w] = call]
  BY <1>2, <1>3, <1>4, CallFields DEF O!ReturnState
<1>10. CallOf(call)
  BY <1>4, <1>5, <1>7 DEF CallOf, CallRecords
<1>11. QED
  BY <1>1, <1>8, <1>9, <1>10, CallGrows, OrgWorkerStep

LEMMA OrgFindRoots ==
    ASSUME OrgInv, NEW w \in Worker, O!FindRoots(w)
    PROVE  OrgInv'
<1>1. OrgGraph' /\ OrgGrows
  BY OrgStays DEF O!FindRoots
<1>2. PICK c, found : c = orgCall[w] /\ found = O!RootsOf(O!Kept(w))
  OBVIOUS
<1>3. PICK call, known :
        /\ known = O!Cardinality(found)
        /\ call = [c EXCEPT !.at = "reading", !.toRead = found, !.known = known]
  OBVIOUS
<1>4. c \in CallRecords /\ CallOf(c)
  BY <1>2, CallFields
<1>5. found \subseteq DOMAIN roots /\ found \in SUBSET Nat /\ known \in Sizes
  <2>1. found \subseteq DOMAIN roots
    BY <1>2 DEF O!RootsOf
  <2>2. found \in SUBSET Nat
    BY <2>1, CallFields DEF OrgGraph
  <2>3. QED
    BY <1>3, <2>1, <2>2 DEF Sizes
<1>6. call \in CallRecords
  BY <1>3, <1>4, <1>5 DEF CallRecords, Places
<1>7. orgCall' = [orgCall EXCEPT ![w] = call]
  BY <1>2, <1>3, CallFields DEF O!FindRoots
<1>8. CallOf(call)
  BY <1>3, <1>4, <1>5 DEF CallOf, CallRecords
<1>9. QED
  BY <1>1, <1>6, <1>7, <1>8, CallGrows, OrgWorkerStep

LEMMA OrgReadRoot ==
    ASSUME OrgInv, NEW w \in Worker, O!ReadRoot(w)
    PROVE  OrgInv'
<1>1. OrgGraph' /\ OrgGrows /\ orgCall[w].at = "reading"
  BY OrgStays DEF O!ReadRoot
<1>2. PICK r \in orgCall[w].toRead :
        orgCall' = [orgCall EXCEPT
            ![w].toRead = @ \ {r},
            ![w].usable = IF O!StatesOf(r) \subseteq O!Kept(w)
                          THEN @ \cup {[uid |-> r, size |-> O!Cardinality(O!StatesOf(r))]} ELSE @]
  BY DEF O!ReadRoot
<1>3. PICK c, size : c = orgCall[w] /\ size = O!Cardinality(O!StatesOf(r))
  OBVIOUS
<1>4. PICK usable : usable = IF O!StatesOf(r) \subseteq O!Kept(w)
                             THEN c.usable \cup {[uid |-> r, size |-> size]} ELSE c.usable
  OBVIOUS
<1>5. PICK call : call = [c EXCEPT !.toRead = c.toRead \ {r}, !.usable = usable]
  OBVIOUS
<1>6. c \in CallRecords /\ CallOf(c)
  BY <1>3, CallFields
<1>7. r \in DOMAIN roots /\ r \in Nat /\ size \in Sizes
  <2>1. r \in DOMAIN roots
    BY <1>3, <1>6 DEF CallOf
  <2>2. O!StatesOf(r) \in SUBSET Nat
    BY CallFields DEF O!StatesOf, O!State, OrgGraph
  <2>3. QED
    BY <1>3, <2>1, <2>2, CallFields DEF OrgGraph, Sizes
<1>8. usable \in SUBSET [uid : Nat, size : Sizes] /\ \A u \in usable : u.uid \in DOMAIN roots
  BY <1>4, <1>6, <1>7 DEF CallRecords, CallOf
<1>9. call \in CallRecords
  BY <1>5, <1>6, <1>8 DEF CallRecords
<1>10. orgCall' = [orgCall EXCEPT ![w] = call]
  BY <1>2, <1>3, <1>4, <1>5, CallFields
<1>11. CallOf(call)
  BY <1>1, <1>3, <1>5, <1>6, <1>8 DEF CallOf, CallRecords
<1>12. QED
  BY <1>1, <1>9, <1>10, <1>11, CallGrows, OrgWorkerStep

LEMMA OrgCreateRoot ==
    ASSUME OrgInv, NEW w \in Worker, O!CreateRoot(w)
    PROVE  OrgInv'
<1>1. /\ UNCHANGED <<organizations, states, hasStates, contested>> /\ OrgGraph
      /\ roots' = Append(roots, orgCall[w].rootOnly)
  BY CallFields DEF O!CreateRoot
<1>2. PICK c, new : c = orgCall[w] /\ new = Len(roots) + 1
  OBVIOUS
<1>3. PICK call : call = [c EXCEPT !.at = "attaching", !.root = new]
  OBVIOUS
<1>4. c \in CallRecords /\ CallOf(c) /\ c.rootOnly \subseteq organizations
  BY <1>2, CallFields DEF CallOf
<1>5. /\ roots' \in Seq(SUBSET organizations) /\ DOMAIN roots \subseteq DOMAIN roots'
      /\ new \in DOMAIN roots' /\ new \in Nat
  BY <1>1, <1>2, <1>4 DEF OrgGraph
<1>6. OrgGraph' /\ OrgGrows
  BY <1>1, <1>5 DEF OrgGraph, OrgGrows, StateOf
<1>7. call \in CallRecords
  BY <1>3, <1>4, <1>5 DEF CallRecords, Places
<1>8. orgCall' = [orgCall EXCEPT ![w] = call]
  BY <1>2, <1>3, CallFields DEF O!CreateRoot
<1>9. CallOf(call)'
  <2>1. CallOf(c)'
    BY <1>4, <1>6, CallGrows
  <2>2. QED
    BY <1>3, <1>4, <1>5, <2>1 DEF CallOf, CallRecords
<1>10. QED
  BY <1>6, <1>7, <1>8, <1>9, OrgWorkerStep

LEMMA KeptStates ==
    ASSUME OrgInv, NEW w \in Worker
    PROVE  O!Kept(w) \subseteq DOMAIN states
BY CallFields DEF O!Kept, CallOf

LEMMA OrgReadLinks ==
    ASSUME OrgInv, NEW w \in Worker, O!ReadLinks(w)
    PROVE  OrgInv'
<1>1. PICK r \in O!Elected(w) :
        orgCall' = [orgCall EXCEPT
            ![w].at = "relinking", ![w].root = r,
            ![w].others = {l \in hasStates : l[2] \in O!Kept(w) /\ l[1] # r}]
  BY DEF O!ReadLinks
<1>2. OrgGraph' /\ OrgGrows /\ OrgGraph
  BY OrgStays, CallFields DEF O!ReadLinks
<1>3. PICK c, others : c = orgCall[w] /\ others = {l \in hasStates : l[2] \in O!Kept(w) /\ l[1] # r}
  OBVIOUS
<1>4. PICK call : call = [c EXCEPT !.at = "relinking", !.root = r, !.others = others]
  OBVIOUS
<1>5. c \in CallRecords /\ CallOf(c)
  BY <1>3, CallFields
<1>6. r \in DOMAIN roots /\ r \in Nat
  <2>1. CASE c.at = "attaching"
    BY <1>2, <1>3, <1>5, <2>1 DEF O!Elected, CallOf, OrgGraph
  <2>2. CASE c.at # "attaching"
    <3>1. PICK u \in c.usable : r = u.uid
      BY <1>3, <2>2 DEF O!Elected
    <3>2. QED
      BY <1>2, <1>5, <3>1 DEF CallOf, OrgGraph
  <2>3. QED
    BY <2>1, <2>2
<1>7. others \in SUBSET (Nat \X Nat)
  BY <1>2, <1>3 DEF OrgGraph
<1>8. call \in CallRecords
  BY <1>4, <1>5, <1>6, <1>7 DEF CallRecords, Places
<1>9. orgCall' = [orgCall EXCEPT ![w] = call]
  BY <1>1, <1>3, <1>4, CallFields
<1>10. CallOf(call)
  BY <1>4, <1>5, <1>6 DEF CallOf, CallRecords
<1>11. QED
  BY <1>2, <1>8, <1>9, <1>10, CallGrows, OrgWorkerStep

LEMMA OrgAttach ==
    ASSUME OrgInv, NEW w \in Worker, O!Attach(w)
    PROVE  OrgInv'
<1>1. PICK c, r, kept : c = orgCall[w] /\ r = c.root /\ kept = O!Kept(w)
  OBVIOUS
<1>2. /\ c.at = "relinking" /\ hasStates' = (hasStates \ c.others) \cup ({r} \X kept)
      /\ contested' = contested \cup O!AlsoAttached(w)
      /\ orgCall' = [orgCall EXCEPT
                ![w].others = {},
                ![w].at = IF orgCall[w].usable = {} THEN "getting" ELSE "renewing"]
  BY <1>1 DEF O!Attach, O!LinksAfterAttach
<1>3. UNCHANGED <<organizations, states, roots>> /\ OrgGraph
  BY CallFields DEF O!Attach
<1>4. PICK place : place = IF c.usable = {} THEN "getting" ELSE "renewing"
  OBVIOUS
<1>5. PICK call : call = [c EXCEPT !.others = {}, !.at = place]
  OBVIOUS
<1>6. c \in CallRecords /\ CallOf(c)
  BY <1>1, CallFields
<1>7. r \in DOMAIN roots /\ r \in Nat
  BY <1>1, <1>2, <1>3, <1>6 DEF CallOf, OrgGraph
<1>8. kept \subseteq DOMAIN states /\ O!AlsoAttached(w) \subseteq kept
  BY <1>1, KeptStates DEF O!AlsoAttached
<1>9. hasStates' \subseteq (DOMAIN roots) \X (DOMAIN states)
  BY <1>2, <1>3, <1>7, <1>8 DEF OrgGraph
<1>10. contested' \subseteq DOMAIN states
  BY <1>2, <1>3, <1>8 DEF OrgGraph
<1>11. OrgGraph' /\ OrgGrows
  BY <1>3, <1>9, <1>10 DEF OrgGraph, OrgGrows, StateOf
<1>12. call \in CallRecords
  BY <1>4, <1>5, <1>6 DEF CallRecords, Places
<1>13. orgCall' = [orgCall EXCEPT ![w] = call]
  BY <1>1, <1>2, <1>4, <1>5, CallFields
<1>14. CallOf(call)
  <2>1. /\ call.at \in {"getting", "renewing"} /\ call.left = c.left /\ call.kept = c.kept
        /\ call.rootOnly = c.rootOnly /\ call.root = c.root /\ call.toRead = c.toRead
        /\ call.usable = c.usable
    BY <1>4, <1>5, <1>6 DEF CallRecords
  <2>2. QED
    BY <1>1, <1>6, <1>7, <2>1 DEF CallOf
<1>15. QED
  BY <1>11, <1>12, <1>13, <1>14, CallGrows, OrgWorkerStep

LEMMA OrgReturns ==
    ASSUME OrgInv, NEW w \in Worker, NEW r \in DOMAIN roots, O!Returns(w, r),
           OrgGraph', OrgGrows
    PROVE  OrgInv'
<1>1. PICK c, result : c = orgCall[w] /\ result = O!Read(r)
  OBVIOUS
<1>2. PICK call : call = [c EXCEPT !.at = "returned", !.result = result]
  OBVIOUS
<1>3. c \in CallRecords /\ CallOf(c) /\ OrgGraph
  BY <1>1, CallFields
<1>4. result \in Results /\ ResultOf(result)
  <2>1. PICK found : found = {[uid |-> s, orgs |-> states[s].orgs] : s \in O!StatesOf(r)}
    OBVIOUS
  <2>2. result = [root |-> r, states |-> found]
    BY <1>1, <2>1 DEF O!Read
  <2>3. \A s \in O!StatesOf(r) : s \in DOMAIN states /\ s \in Nat /\ states[s] \in StateRecords
    BY <1>3 DEF O!StatesOf, O!State, OrgGraph
  <2>4. found \in SUBSET [uid : Nat, orgs : SUBSET SourceOrganization]
        /\ \A f \in found : f.uid \in DOMAIN states
    BY <2>1, <2>3 DEF StateRecords
  <2>5. r \in Nat
    BY <1>3 DEF OrgGraph
  <2>6. QED
    BY <2>2, <2>4, <2>5 DEF Results, ResultOf
<1>5. call \in CallRecords
  BY <1>2, <1>3, <1>4 DEF CallRecords, Places
<1>6. orgCall' = [orgCall EXCEPT ![w] = call]
  BY <1>1, <1>2, CallFields DEF O!Returns
<1>7. CallOf(call)
  BY <1>2, <1>3, <1>4 DEF CallOf, CallRecords
<1>8. QED
  BY <1>5, <1>6, <1>7, CallGrows, OrgWorkerStep

LEMMA OrgUpdateRoot ==
    ASSUME OrgInv, NEW w \in Worker, O!UpdateRoot(w)
    PROVE  OrgInv'
<1>1. PICK r, only : r = orgCall[w].root /\ only = orgCall[w].rootOnly
  OBVIOUS
<1>2. /\ orgCall[w].at = "renewing" /\ roots' = [roots EXCEPT ![r] = only]
      /\ UNCHANGED <<organizations, states, hasStates, contested>>
      /\ O!Returns(w, r) \/ O!Goes(w, "getting")
  BY <1>1 DEF O!UpdateRoot
<1>3. r \in DOMAIN roots /\ only \subseteq organizations /\ OrgGraph
  BY <1>1, <1>2, CallFields DEF CallOf
<1>4. roots' \in Seq(SUBSET organizations) /\ DOMAIN roots' = DOMAIN roots
  BY <1>2, <1>3 DEF OrgGraph
<1>5. OrgGraph' /\ OrgGrows
  BY <1>2, <1>3, <1>4 DEF OrgGraph, OrgGrows, StateOf
<1>6. QED
  BY <1>1, <1>2, <1>3, <1>5, OrgReturns, OrgGoes

LEMMA OrgGetRoot ==
    ASSUME OrgInv, NEW w \in Worker, O!GetRoot(w)
    PROVE  OrgInv'
<1>1. OrgGraph' /\ OrgGrows
  BY OrgStays DEF O!GetRoot
<1>2. orgCall[w].root \in DOMAIN roots /\ O!Returns(w, orgCall[w].root)
  BY CallFields DEF O!GetRoot, CallOf
<1>3. QED
  BY <1>1, <1>2, OrgReturns

LEMMA OrgWork ==
    ASSUME OrgInv, NEW w \in Worker, O!Work(w)
    PROVE  OrgInv' /\ OrgGrows /\ organizations' = organizations
<1>1. OrgInv'
  BY OrgFindByIdentifiers, OrgFindByName, OrgLeaveOut, OrgFindHomonymsRoot, OrgCreate, OrgUpdate,
     OrgReturnState, OrgFindRoots, OrgReadRoot, OrgCreateRoot, OrgReadLinks, OrgAttach, OrgUpdateRoot, OrgGetRoot
  DEF O!Work
<1>2. organizations' = organizations
  BY DEF O!Work, O!FindByIdentifiers, O!FindByName, O!LeaveOut, O!FindHomonymsRoot, O!Create,
         O!Update, O!ReturnState, O!FindRoots, O!ReadRoot, O!CreateRoot, O!ReadLinks, O!Attach, O!UpdateRoot,
         O!GetRoot
<1>3. OrgGraph
  BY CallFields
<1>4. DOMAIN states \subseteq DOMAIN states'
  <2>1. CASE O!Create(w)
    <3>1. states' = Append(states, O!Desired(w)) \/ \E s : states' = [states EXCEPT ![s] = O!Desired(w)]
      BY <2>1 DEF O!Create
    <3>2. QED
      BY <1>3, <3>1, DomainGrows DEF OrgGraph
  <2>2. CASE O!Update(w)
    BY <1>3, <2>2 DEF O!Update, OrgGraph
  <2>3. CASE ~ O!Create(w) /\ ~ O!Update(w)
    BY <2>3 DEF O!Work, O!FindByIdentifiers, O!FindByName, O!LeaveOut, O!FindHomonymsRoot,
       O!ReturnState, O!FindRoots, O!ReadRoot, O!CreateRoot, O!ReadLinks, O!Attach, O!UpdateRoot, O!GetRoot
  <2>4. QED
    BY <2>1, <2>2, <2>3
<1>5. DOMAIN roots \subseteq DOMAIN roots'
  <2>1. CASE O!CreateRoot(w)
    BY <1>3, <2>1, DomainGrows DEF O!CreateRoot, OrgGraph
  <2>2. CASE O!UpdateRoot(w)
    BY <1>3, <2>2 DEF O!UpdateRoot, OrgGraph
  <2>3. CASE ~ O!CreateRoot(w) /\ ~ O!UpdateRoot(w)
    BY <2>3 DEF O!Work, O!FindByIdentifiers, O!FindByName, O!LeaveOut, O!FindHomonymsRoot, O!Create,
       O!Update, O!ReturnState, O!FindRoots, O!ReadRoot, O!ReadLinks, O!Attach, O!GetRoot
  <2>4. QED
    BY <2>1, <2>2, <2>3
<1>6. QED
  BY <1>1, <1>2, <1>4, <1>5 DEF OrgGrows

---------------------------------------------------------------------------
(* The calls, as the recomputations make them. *)

LEMMA ClusterIn ==
    ASSUME OrgInv, NEW o \in organizations
    PROVE  O!Cluster(o) \subseteq organizations
BY DEF O!Cluster

LEMMA OrgCalled ==
    ASSUME OrgInv, NEW w \in Worker, NEW cluster \in SUBSET organizations,
           NEW call \in O!Calls(cluster), orgCall' = [orgCall EXCEPT ![w] = call],
           UNCHANGED <<organizations, states, roots, hasStates, contested>>
    PROVE  OrgInv'
<1>1. OrgGraph' /\ OrgGrows /\ cluster \in SUBSET SourceOrganization
  BY OrgStays, CallFields DEF OrgGraph
<1>2. PICK split \in O!Splits[cluster] :
        call = [O!NoCall EXCEPT !.at = "finding", !.left = split.states, !.rootOnly = split.rootOnly]
  BY DEF O!Calls
<1>3. SplitOf(cluster, split)
  BY <1>1, <1>2, SplitsOf
<1>4. O!NoCall \in CallRecords /\ O!NoCall.kept = <<>> /\ O!NoCall.toRead = {} /\ O!NoCall.usable = {}
  <2>1. O!NewState \in StateRecords
    BY NewStateOf DEF StateOf
  <2>2. QED
    BY <2>1 DEF O!NoCall, CallRecords, Places, Sizes, Results, O!NothingFound
<1>5. call \in CallRecords
  BY <1>2, <1>3, <1>4 DEF CallRecords, Places, SplitOf, SplitRecords
<1>6. CallOf(call)
  <2>1. /\ call.left = split.states /\ call.rootOnly = split.rootOnly /\ call.at = "finding"
        /\ call.kept = <<>> /\ call.toRead = {} /\ call.usable = {}
    BY <1>2, <1>4 DEF CallRecords
  <2>2. \A i \in DOMAIN split.states : StateOf(organizations, split.states[i])
    BY <1>3 DEF SplitOf, StateOf
  <2>3. split.rootOnly \subseteq organizations
    BY <1>3 DEF SplitOf
  <2>4. QED
    BY <2>1, <2>2, <2>3 DEF CallOf
<1>7. QED
  BY <1>1, <1>5, <1>6, CallGrows, OrgWorkerStep

LEMMA NoCallTyped == O!NoCall \in CallRecords /\ CallOf(O!NoCall)
<1>1. O!NewState \in StateRecords
  BY NewStateOf DEF StateOf
<1>2. QED
  BY <1>1 DEF O!NoCall, CallRecords, Places, Sizes, Results, O!NothingFound, CallOf

LEMMA OrgReset ==
    ASSUME OrgInv, NEW w \in Worker, orgCall' = [orgCall EXCEPT ![w] = O!NoCall],
           UNCHANGED <<organizations, states, roots, hasStates, contested>>
    PROVE  OrgInv'
<1>1. OrgGraph' /\ OrgGrows
  BY OrgStays
<1>2. PICK call : call = O!NoCall /\ call \in CallRecords /\ CallOf(call)
  BY NoCallTyped
<1>3. QED
  BY <1>1, <1>2, CallGrows, OrgWorkerStep

LEMMA OrgStored ==
    ASSUME OrgInv, organizations \subseteq organizations', organizations' \subseteq SourceOrganization,
           UNCHANGED orgVars
    PROVE  OrgInv' /\ OrgGrows
<1>1. OrgGrows /\ UNCHANGED <<states, roots, hasStates, contested, orgCall>>
  BY DEF OrgGrows, orgVars
<1>2. OrgGraph'
  <2>1. roots \in Seq(SUBSET organizations')
    BY DEF OrgInv, OrgGraph
  <2>2. QED
    BY <1>1, <2>1 DEF OrgInv, OrgGraph, StateOf
<1>3. ASSUME NEW w \in Worker
      PROVE  CallOf(orgCall[w])'
  <2>1. PICK call : call = orgCall[w] /\ CallOf(call)
    BY DEF OrgInv
  <2>2. CallOf(call)'
    BY <1>1, <2>1, CallGrows
  <2>3. QED
    BY <1>1, <2>1, <2>2
<1>4. QED
  BY <1>1, <1>2, <1>3 DEF OrgInv

LEMMA OrgInit == Init => OrgInv
<1> SUFFICES ASSUME Init
             PROVE  OrgInv
  OBVIOUS
<1>1. /\ organizations = {} /\ states = <<>> /\ roots = <<>> /\ hasStates = {} /\ contested = {}
      /\ orgCall = [w \in Worker |-> O!NoCall]
  BY DEF Init, O!Init
<1>2. OrgGraph
  BY <1>1 DEF OrgGraph
<1>3. QED
  BY <1>1, <1>2, NoCallTyped DEF OrgInv

---------------------------------------------------------------------------
(* Types. *)

JobRecords ==
    [event : (SourceRecord \X Document) \cup {NoEvent}, todo : SUBSET Document,
     document : Document \cup {""}, records : SUBSET SourceRecord,
     left : SUBSET (SourcePerson \cup SourceOrganization), cluster : SUBSET SourcePerson,
     search : SUBSET SourcePerson, target : AnyPerson \cup {""}, known : SUBSET SourcePerson,
     linked : Seq([person : AnyPerson, cluster : SUBSET SourcePerson]),
     current : SUBSET AnyPerson, found : SUBSET Results]

(***************************************************************************)
(* What a worker read is still there; a person it keeps is not one it      *)
(* merges.                                                                 *)
(***************************************************************************)
JobOf(place, j) ==
    /\ place # "idle" => j.event \in SourceRecord \X Document
    /\ place \notin {"idle", "starting"} => j.document \in Document
    /\ ContributorsIn(j.records) \subseteq Stored
    /\ AffiliationsIn(j.records, SourcePerson) \subseteq organizations
    /\ place \in {"searching", "creating", "merging", "linking"} => j.cluster \subseteq Stored
    /\ place \in {"merging", "linking", "affiliating"} => j.target \in AnyPerson
    /\ place = "merging" => j.target \notin j.known
    /\ place = "affiliating" => j.left \subseteq organizations
    /\ place \in {"matching", "searching", "creating", "merging", "linking"} =>
        j.left \subseteq SourcePerson
    /\ \A f \in j.found : ResultOf(f)

Targets == ({"state"} \X DOMAIN states) \cup ({"root"} \X DOMAIN roots)
RecordsOK ==
    /\ sourceRecords \in [Document -> SUBSET SourceRecord]
    /\ \A d, e \in Document : d # e => sourceRecords[d] \cap sourceRecords[e] = {}
    /\ \A d \in Document : AffiliationsIn(sourceRecords[d], SourcePerson) \subseteq organizations
PeopleOK ==
    /\ equivalences \subseteq Stored \X Stored
    /\ externals \cup ghosts \subseteq SourcePerson /\ externals \cap ghosts = {}
    /\ recordedBy \subseteq People \X Stored
    /\ contributions \subseteq Document \X People
    /\ statements \in [Document \X AnyPerson -> SUBSET Targets]
    /\ \A c \in Document \X AnyPerson : statements[c] # {} => c \in contributions
CountsOK ==
    /\ coming \in Nat /\ requeued \subseteq SourceRecord \X Document
    /\ disturbed \subseteq Document /\ raced \subseteq SourcePerson
TypeInv ==
    /\ OrgInv /\ RecordsOK /\ PeopleOK /\ CountsOK
    /\ pc \in [Worker -> PC] /\ job \in [Worker -> JobRecords]
    /\ \A w \in Worker : JobOf(pc[w], job[w])
Grows == OrgGrows /\ Stored \subseteq Stored'

LEMMA RecordsHold ==
    ASSUME NEW R \in SUBSET SourceRecord
    PROVE  /\ ContributorsIn(R) \subseteq SourcePerson /\ OwnersIn(R) \subseteq Person
           /\ AffiliationsIn(R, SourcePerson) \subseteq SourceOrganization
           /\ \A C : AffiliationsIn(R, C) \subseteq AffiliationsIn(R, SourcePerson)
<1>1. \A c \in ContributionsIn(R) :
        c.contributor \in SourcePerson /\ c.affiliations \subseteq SourceOrganization
  BY ContributionsAssumption DEF ContributionsIn
<1>2. OwnersIn(R) \subseteq Person
  BY ContributionsAssumption DEF OwnersIn
<1>3. QED
  BY <1>1, <1>2 DEF ContributorsIn, AffiliationsIn

LEMMA MoreRecords ==
    ASSUME NEW R, NEW S
    PROVE  /\ R \subseteq S => ContributorsIn(R) \subseteq ContributorsIn(S)
           /\ \A C : R \subseteq S => AffiliationsIn(R, C) \subseteq AffiliationsIn(S, C)
           /\ \A C : AffiliationsIn(R \cup S, C) = AffiliationsIn(R, C) \cup AffiliationsIn(S, C)
<1>1. R \subseteq S => ContributionsIn(R) \subseteq ContributionsIn(S)
  BY DEF ContributionsIn
<1>2. ContributionsIn(R \cup S) = ContributionsIn(R) \cup ContributionsIn(S)
  BY DEF ContributionsIn
<1>3. QED
  BY <1>1, <1>2 DEF ContributorsIn, AffiliationsIn

LEMMA StoredAre ==
    ASSUME RecordsOK
    PROVE  /\ Stored \subseteq SourcePerson
           /\ \A d \in Document : ContributorsIn(sourceRecords[d]) \subseteq Stored
<1>1. UNION {sourceRecords[d] : d \in Document} \subseteq SourceRecord
  BY DEF RecordsOK
<1>2. \A d \in Document : sourceRecords[d] \subseteq UNION {sourceRecords[e] : e \in Document}
  OBVIOUS
<1>3. QED
  BY <1>1, <1>2, RecordsHold, MoreRecords DEF Stored

LEMMA JobGrows ==
    ASSUME NEW place, NEW j, JobOf(place, j), Grows
    PROVE  JobOf(place, j)'
<1>1. \A f \in j.found : ResultOf(f)'
  BY ResultGrows DEF JobOf, Grows
<1>2. QED
  BY <1>1 DEF JobOf, Grows, OrgGrows

Moves(w, place, j) ==
    /\ pc' = [pc EXCEPT ![w] = place] /\ job' = [job EXCEPT ![w] = j]
    /\ place \in PC /\ j \in JobRecords /\ JobOf(place, j)'
LEMMA WorkerStep ==
    ASSUME TypeInv, OrgInv', RecordsOK', PeopleOK', CountsOK', Grows,
           NEW w \in Worker, NEW place, NEW j, Moves(w, place, j)
    PROVE  TypeInv'
<1>1. pc' \in [Worker -> PC] /\ job' \in [Worker -> JobRecords]
  BY DEF TypeInv, Moves
<1>2. ASSUME NEW v \in Worker
      PROVE  JobOf(pc[v], job[v])'
  <2>1. CASE v = w
    <3>1. pc'[v] = place /\ job'[v] = j
      BY <2>1 DEF TypeInv, Moves
    <3>2. QED
      BY <3>1 DEF JobOf, ResultOf, Moves
  <2>2. CASE v # w
    <3>1. PICK p, k : p = pc[v] /\ k = job[v] /\ JobOf(p, k)
      BY DEF TypeInv
    <3>2. pc'[v] = p /\ job'[v] = k
      BY <2>2, <3>1 DEF TypeInv, Moves
    <3>3. JobOf(p, k)'
      BY <3>1, JobGrows
    <3>4. QED
      BY <3>2, <3>3 DEF JobOf, ResultOf
  <2>3. QED
    BY <2>1, <2>2
<1>3. QED
  BY <1>1, <1>2 DEF TypeInv

LEMMA WorkerOf ==
    ASSUME TypeInv, NEW w \in Worker
    PROVE  /\ JobOf(pc[w], job[w]) /\ job[w] \in JobRecords
           /\ OrgInv /\ RecordsOK /\ PeopleOK /\ CountsOK
           /\ pc \in [Worker -> PC] /\ job \in [Worker -> JobRecords]
BY DEF TypeInv

LEMMA NewJob ==
    /\ \A event \in (SourceRecord \X Document) \cup {NoEvent}, todo \in SUBSET Document :
          /\ Job(event, todo) \in JobRecords /\ Job(event, todo).event = event
          /\ Job(event, todo).records = {} /\ Job(event, todo).found = {}
    /\ NoJob \in JobRecords /\ NoJob.records = {} /\ NoJob.found = {}
<1>1. ASSUME NEW event \in (SourceRecord \X Document) \cup {NoEvent}, NEW todo \in SUBSET Document
      PROVE  /\ Job(event, todo) \in JobRecords /\ Job(event, todo).event = event
             /\ Job(event, todo).records = {} /\ Job(event, todo).found = {}
  BY DEF Job, JobRecords
<1>2. QED
  BY <1>1 DEF NoJob

LEMMA NoRecords ==
    ASSUME NEW j, j.records = {}, j.found = {}
    PROVE  /\ JobOf("idle", j)'
           /\ j.event \in SourceRecord \X Document => JobOf("starting", j)'
<1>1. ContributorsIn({}) = {} /\ AffiliationsIn({}, SourcePerson) = {}
  BY DEF ContributionsIn, ContributorsIn, AffiliationsIn
<1>2. QED
  BY <1>1 DEF JobOf

\* A step that only changes what a worker holds, and the history.
LEMMA DataStay ==
    ASSUME TypeInv, UNCHANGED <<sourceRecords, personVars, contributionVars>>, OrgInv', OrgGrows
    PROVE  RecordsOK' /\ PeopleOK' /\ Grows
<1>1. Stored' = Stored /\ UNCHANGED <<sourceRecords, equivalences, externals, ghosts, recordedBy,
                                       contributions, statements>>
  BY DEF Stored, personVars, contributionVars
<1>2. Targets \subseteq Targets'
  BY DEF Targets, OrgGrows
<1>3. PeopleOK'
  BY <1>1, <1>2 DEF TypeInv, PeopleOK, People
<1>4. RecordsOK'
  BY <1>1 DEF TypeInv, RecordsOK, OrgGrows
<1>5. QED
  BY <1>1, <1>3, <1>4 DEF Grows

LEMMA Quiet ==
    ASSUME TypeInv,
           UNCHANGED <<sourceRecords, personVars, contributionVars, organizations, orgVars>>
    PROVE  OrgInv' /\ RecordsOK' /\ PeopleOK' /\ Grows
<1>1. OrgInv /\ organizations' = organizations /\ organizations \subseteq SourceOrganization
  BY DEF TypeInv, OrgInv, OrgGraph
<1>2. OrgInv' /\ OrgGrows
  BY <1>1, OrgStored
<1>3. QED
  BY <1>2, DataStay

LEMMA TypeInit == Init => TypeInv
<1> SUFFICES ASSUME Init
             PROVE  TypeInv
  OBVIOUS
<1>1. OrgInv
  BY OrgInit
<1>2. PICK nobody : nobody = NoJob
  OBVIOUS
<1>3. /\ sourceRecords = [d \in Document |-> {}]
      /\ equivalences = {} /\ externals = {} /\ ghosts = {} /\ recordedBy = {}
      /\ contributions = {} /\ requeued = {} /\ disturbed = {} /\ raced = {}
      /\ statements = [c \in Document \X AnyPerson |-> {}]
      /\ pc = [w \in Worker |-> "idle"] /\ job = [w \in Worker |-> nobody]
      /\ coming \in Nat
  BY <1>2, ContributionsAssumption DEF Init
<1>4. ContributorsIn({}) = {} /\ AffiliationsIn({}, SourcePerson) = {}
  BY DEF ContributionsIn, ContributorsIn, AffiliationsIn
<1>5. RecordsOK /\ PeopleOK /\ CountsOK
  BY <1>3, <1>4 DEF RecordsOK, PeopleOK, CountsOK
<1>6. nobody \in JobRecords /\ JobOf("idle", nobody)
  BY <1>2, <1>4, NewJob DEF JobOf
<1>7. QED
  BY <1>1, <1>3, <1>5, <1>6 DEF TypeInv, PC

LEMMA TypeTakeGrows ==
    ASSUME TypeInv, NEW w \in Worker, Take(w)
    PROVE  Stored \subseteq Stored'
<1>1. PICK e \in SourceRecord \X Document :
        sourceRecords' = [d \in Document |->
            IF d = e[2] THEN sourceRecords[d] \cup {e[1]} ELSE sourceRecords[d] \ {e[1]}]
  BY DEF Take
<1>2. UNION {sourceRecords[d] : d \in Document} \subseteq UNION {sourceRecords'[d] : d \in Document}
  <2>1. ASSUME NEW d \in Document, NEW s \in sourceRecords[d]
        PROVE  \E g \in Document : s \in sourceRecords'[g]
    <3>1. CASE s = e[1]
      BY <1>1, <3>1
    <3>2. CASE s # e[1]
      BY <1>1, <3>2
    <3>3. QED
      BY <3>1, <3>2
  <2>2. QED
    BY <2>1
<1>3. PICK R, S : /\ R = UNION {sourceRecords[d] : d \in Document}
                  /\ S = UNION {sourceRecords'[d] : d \in Document}
  OBVIOUS
<1>4. ContributorsIn(R) \subseteq ContributorsIn(S)
  BY <1>2, <1>3, MoreRecords
<1>5. Stored = ContributorsIn(R) /\ Stored' = ContributorsIn(S)
  BY <1>3 DEF Stored, ContributorsIn, ContributionsIn
<1>6. QED
  BY <1>4, <1>5

LEMMA TypeTake ==
    ASSUME TypeInv, NEW w \in Worker, Take(w)
    PROVE  TypeInv'
<1>1. PICK e \in SourceRecord \X Document :
        LET r == e[1]
            todo == {e[2]} \cup {d \in Document : r \in sourceRecords[d]}
        IN
        /\ \/ UNCHANGED <<coming, requeued>>
           \/ coming > 0 /\ coming' = coming - 1 /\ UNCHANGED requeued
           \/ requeued' = requeued \ {e} /\ UNCHANGED coming
        /\ sourceRecords' = [d \in Document |->
                IF d = e[2] THEN sourceRecords[d] \cup {r} ELSE sourceRecords[d] \ {r}]
        /\ organizations' = organizations \cup AffiliationsIn({r}, SourcePerson)
        /\ job' = [job EXCEPT ![w] = Job(e, todo)]
        /\ disturbed' = disturbed \cup todo
  BY DEF Take
<1>2. PICK r, f, todo : /\ r = e[1] /\ f = e[2]
                        /\ todo = {e[2]} \cup {d \in Document : r \in sourceRecords[d]}
  OBVIOUS
<1>3. r \in SourceRecord /\ f \in Document /\ todo \subseteq Document
  BY <1>2
<1>4. /\ equivalences' = equivalences /\ externals' = externals /\ ghosts' = ghosts
      /\ recordedBy' = recordedBy /\ contributions' = contributions /\ statements' = statements
      /\ UNCHANGED orgVars /\ pc' = [pc EXCEPT ![w] = "starting"] /\ raced' = raced
  BY DEF Take, Goes, personVars, contributionVars
<1>5. /\ sourceRecords' = [d \in Document |->
                IF d = f THEN sourceRecords[d] \cup {r} ELSE sourceRecords[d] \ {r}]
      /\ organizations' = organizations \cup AffiliationsIn({r}, SourcePerson)
  BY <1>1, <1>2
<1>6. OrgInv' /\ OrgGrows
  <2>1. AffiliationsIn({r}, SourcePerson) \subseteq SourceOrganization
    BY <1>3, RecordsHold
  <2>2. organizations \subseteq SourceOrganization
    BY DEF TypeInv, OrgInv, OrgGraph
  <2>3. QED
    BY <1>4, <1>5, <2>1, <2>2, WorkerOf, OrgStored
<1>7. RecordsOK'
  <2>1. sourceRecords' \in [Document -> SUBSET SourceRecord]
    BY <1>3, <1>5, WorkerOf DEF RecordsOK
  <2>2. \A d, g \in Document : d # g => sourceRecords'[d] \cap sourceRecords'[g] = {}
    BY <1>3, <1>5, WorkerOf DEF RecordsOK
  <2>3. ASSUME NEW d \in Document
        PROVE  AffiliationsIn(sourceRecords'[d], SourcePerson) \subseteq organizations'
    <3>1. AffiliationsIn(sourceRecords[d], SourcePerson) \subseteq organizations
      BY WorkerOf DEF RecordsOK
    <3>2. sourceRecords'[d] \subseteq sourceRecords[d] \cup {r}
      BY <1>5
    <3>3. AffiliationsIn(sourceRecords'[d], SourcePerson)
            \subseteq AffiliationsIn(sourceRecords[d], SourcePerson) \cup AffiliationsIn({r}, SourcePerson)
      <4>1. PICK R, S, T : R = sourceRecords[d] /\ S = {r} /\ T = sourceRecords'[d] /\ T \subseteq R \cup S
        BY <3>2
      <4>2. AffiliationsIn(T, SourcePerson) \subseteq AffiliationsIn(R \cup S, SourcePerson)
        BY <4>1, MoreRecords
      <4>3. AffiliationsIn(R \cup S, SourcePerson)
              = AffiliationsIn(R, SourcePerson) \cup AffiliationsIn(S, SourcePerson)
        BY MoreRecords
      <4>4. QED
        BY <4>1, <4>2, <4>3
    <3>4. QED
      BY <1>5, <3>1, <3>3
  <2>4. QED
    BY <2>1, <2>2, <2>3 DEF RecordsOK, AffiliationsIn, ContributionsIn
<1>8. Stored \subseteq Stored'
  BY TypeTakeGrows
<1>9. Grows
  BY <1>6, <1>8 DEF Grows
<1>10. PeopleOK'
  <2>1. Targets \subseteq Targets'
    BY <1>6 DEF Targets, OrgGrows
  <2>2. QED
    BY <1>4, <1>8, <2>1, WorkerOf DEF PeopleOK, People
<1>11. CountsOK'
  BY <1>1, <1>2, <1>3, <1>4, WorkerOf DEF CountsOK
<1>12. PICK j : j = Job(e, todo)
  OBVIOUS
<1>13. Moves(w, "starting", j)
  <2>1. j \in JobRecords /\ j.event \in SourceRecord \X Document /\ j.records = {} /\ j.found = {}
    BY <1>3, <1>12, NewJob
  <2>2. JobOf("starting", j)'
    BY <2>1, NoRecords
  <2>3. job' = [job EXCEPT ![w] = j]
    BY <1>1, <1>2, <1>12
  <2>4. QED
    BY <1>4, <2>1, <2>2, <2>3 DEF Moves, PC
<1>14. QED
  BY <1>6, <1>7, <1>9, <1>10, <1>11, <1>13, WorkerStep

LEMMA TypeStart ==
    ASSUME TypeInv, NEW w \in Worker, Start(w)
    PROVE  TypeInv'
<1>1. OrgInv' /\ RecordsOK' /\ PeopleOK' /\ Grows
  BY Quiet DEF Start
<1>2. PICK d \in job[w].todo :
        /\ job' = [job EXCEPT ![w] = [Job(job[w].event, job[w].todo \ {d}) EXCEPT
                      !.document = d, !.records = sourceRecords[d]]]
        /\ disturbed' = IF On(d) = {} THEN disturbed \ {d} ELSE disturbed \cup {d}
  BY DEF Start
<1>3. PICK b, event, todo, records :
        b = Job(event, todo) /\ event = job[w].event /\ todo = job[w].todo \ {d} /\ records = sourceRecords[d]
  OBVIOUS
<1>4. PICK j : j = [b EXCEPT !.document = d, !.records = records]
  OBVIOUS
<1>5. d \in Document /\ todo \subseteq Document /\ event \in SourceRecord \X Document
  BY <1>3, WorkerOf DEF JobRecords, JobOf, Start
<1>6. b \in JobRecords /\ b.event = event /\ b.found = {}
  BY <1>3, <1>5, NewJob
<1>7. /\ records \in SUBSET SourceRecord /\ ContributorsIn(records) \subseteq Stored
      /\ AffiliationsIn(records, SourcePerson) \subseteq organizations
  BY <1>3, <1>5, WorkerOf, StoredAre DEF RecordsOK
<1>8. j \in JobRecords /\ j.records = records /\ j.document = d /\ j.event = event /\ j.found = {}
  BY <1>4, <1>5, <1>6, <1>7 DEF JobRecords
<1>9. JobOf("relating", j)
  BY <1>5, <1>7, <1>8 DEF JobOf
<1>10. Moves(w, "relating", j)
  <2>1. JobOf("relating", j)'
    BY <1>1, <1>9, JobGrows
  <2>2. job' = [job EXCEPT ![w] = j]
    BY <1>2, <1>3, <1>4
  <2>3. QED
    BY <1>8, <2>1, <2>2 DEF Moves, PC, Start, Goes
<1>11. CountsOK'
  BY <1>2, <1>5, WorkerOf DEF Start, CountsOK, countVars
<1>12. QED
  BY <1>1, <1>10, <1>11, WorkerStep

LEMMA CouplesIn ==
    ASSUME NEW people, NEW path \in Paths(people)
    PROVE  Couples(path) \subseteq people \X people
<1>1. PICK n \in 2 .. Cardinality({Rank[p] : p \in people}) : path \in [1 .. n -> people]
  BY DEF Paths
<1>2. QED
  BY <1>1 DEF Couples

LEMMA TypeRelate ==
    ASSUME TypeInv, NEW w \in Worker, Relate(w)
    PROVE  TypeInv'
<1>1. PICK people, records : people = ContributorsIn(records) /\ records = job[w].records
  OBVIOUS
<1>2. PICK couples : equivalences' = EquivalencesWith(couples, job[w].document)
  BY DEF Relate
<1>3. PICK place : place = IF people = {} THEN "contributing" ELSE "matching"
  OBVIOUS
<1>4. /\ job' = [job EXCEPT ![w].left = people] /\ pc' = [pc EXCEPT ![w] = place]
      /\ UNCHANGED <<sourceRecords, externals, ghosts, recordedBy, contributions, statements>>
      /\ UNCHANGED <<organizations, orgVars, coming, requeued, disturbed, raced>>
      /\ pc[w] = "relating"
  BY <1>1, <1>3 DEF Relate, Goes, contributionVars, countVars, historyVars
<1>5. OrgInv' /\ OrgGrows
  BY <1>4, WorkerOf, OrgStored DEF OrgInv, OrgGraph
<1>6. Stored' = Stored /\ Grows
  BY <1>4, <1>5 DEF Stored, Grows
<1>7. RecordsOK'
  BY <1>4, WorkerOf DEF RecordsOK
<1>8. equivalences' \subseteq Stored \X Stored
  <2>1. job[w].document \in Document
    BY <1>4, WorkerOf DEF JobOf
  <2>2. ContributorsIn(sourceRecords[job[w].document]) \subseteq Stored
    BY <2>1, WorkerOf, StoredAre
  <2>3. QED
    BY <1>2, <2>2, WorkerOf DEF EquivalencesWith, PeopleOK
<1>9. PeopleOK'
  <2>1. Targets \subseteq Targets'
    BY <1>5 DEF Targets, OrgGrows
  <2>2. QED
    BY <1>4, <1>6, <1>8, <2>1, WorkerOf DEF PeopleOK, People
<1>10. CountsOK'
  BY <1>4, WorkerOf DEF CountsOK
<1>11. PICK k, j : k = job[w] /\ j = [k EXCEPT !.left = people]
  OBVIOUS
<1>12. k \in JobRecords /\ JobOf("relating", k) /\ people \subseteq SourcePerson
  BY <1>1, <1>4, <1>11, WorkerOf, RecordsHold DEF JobRecords
<1>13. j \in JobRecords
  BY <1>11, <1>12 DEF JobRecords
<1>14. JobOf(place, j)
  BY <1>3, <1>11, <1>12 DEF JobOf, JobRecords
<1>15. Moves(w, place, j)
  <2>1. JobOf(place, j)'
    BY <1>6, <1>14, JobGrows
  <2>2. job' = [job EXCEPT ![w] = j]
    BY <1>4, <1>11
  <2>3. QED
    BY <1>3, <1>4, <1>13, <2>1, <2>2 DEF Moves, PC
<1>16. QED
  BY <1>5, <1>6, <1>7, <1>9, <1>10, <1>15, WorkerStep

\* A step that only changes what a worker holds, and where it is.
LEMMA JobStep ==
    ASSUME TypeInv, NEW w \in Worker, NEW place \in PC, NEW j \in JobRecords, JobOf(place, j),
           pc' = [pc EXCEPT ![w] = place], job' = [job EXCEPT ![w] = j],
           UNCHANGED <<sourceRecords, personVars, contributionVars, organizations, orgVars,
                       countVars, historyVars>>
    PROVE  TypeInv'
<1>1. OrgInv' /\ RecordsOK' /\ PeopleOK' /\ Grows
  BY Quiet
<1>2. JobOf(place, j)'
  BY <1>1, JobGrows
<1>3. CountsOK'
  BY WorkerOf DEF CountsOK, countVars, historyVars
<1>4. Moves(w, place, j)
  BY <1>2 DEF Moves
<1>5. QED
  BY <1>1, <1>3, <1>4, WorkerStep

LEMMA TypeMatch ==
    ASSUME TypeInv, NEW w \in Worker, Match(w)
    PROVE  TypeInv'
<1>1. PICK p \in job[w].left :
        LET cluster == Equivalents(p) \cap ContributorsIn(job[w].records)
            identified == ByIdentifiers(cluster)
            matches == IF identified # {} THEN identified
                       ELSE ByName(cluster, job[w].records)
            next == [job[w] EXCEPT !.left = job[w].left \ Equivalents(p), !.cluster = cluster]
        IN
        \/ \E q \in matches :
            job' = [job EXCEPT ![w] = [next EXCEPT !.target = q]] /\ Goes(w, "linking")
        \/ /\ matches = {}
           /\ job' = [job EXCEPT ![w] = [next EXCEPT !.search = cluster, !.known = {}]]
           /\ Goes(w, "searching")
  BY DEF Match
<1>2. PICK k, cluster, matches, left :
        /\ k = job[w] /\ cluster = Equivalents(p) \cap ContributorsIn(k.records)
        /\ left = k.left \ Equivalents(p)
        /\ matches = IF ByIdentifiers(cluster) # {} THEN ByIdentifiers(cluster)
                     ELSE ByName(cluster, k.records)
  OBVIOUS
<1>3. PICK next : next = [k EXCEPT !.left = left, !.cluster = cluster]
  OBVIOUS
<1>4. /\ k \in JobRecords /\ JobOf("matching", k) /\ pc[w] = "matching"
      /\ UNCHANGED <<sourceRecords, personVars, contributionVars, organizations, orgVars,
                     countVars, historyVars>>
  BY <1>2, WorkerOf DEF Match
<1>5. cluster \subseteq Stored /\ cluster \subseteq SourcePerson /\ left \subseteq SourcePerson
  <2>1. k.records \in SUBSET SourceRecord /\ ContributorsIn(k.records) \subseteq Stored
        /\ k.left \subseteq SourcePerson
    BY <1>4 DEF JobRecords, JobOf
  <2>2. QED
    BY <1>2, <2>1, RecordsHold
<1>6. matches \subseteq Person
  <2>1. OwnersIn(k.records) \subseteq Person
    BY <1>4, RecordsHold DEF JobRecords
  <2>2. QED
    BY <1>2, <2>1 DEF ByIdentifiers, ByName
<1>7. next \in JobRecords /\ next.cluster = cluster /\ next.left = left
      /\ next.event = k.event /\ next.document = k.document /\ next.records = k.records
      /\ next.found = k.found
  BY <1>3, <1>4, <1>5 DEF JobRecords
<1>8. ASSUME NEW q \in matches, job' = [job EXCEPT ![w] = [next EXCEPT !.target = q]],
             Goes(w, "linking")
      PROVE  TypeInv'
  <2>1. PICK j : j = [next EXCEPT !.target = q]
    OBVIOUS
  <2>2. j \in JobRecords
    BY <1>6, <1>7, <1>8, <2>1 DEF JobRecords, AnyPerson
  <2>3. JobOf("linking", j)
    BY <1>4, <1>5, <1>6, <1>7, <1>8, <2>1 DEF JobOf, JobRecords, AnyPerson
  <2>4. QED
    BY <1>4, <1>8, <2>1, <2>2, <2>3, JobStep DEF Goes, PC
<1>9. CASE /\ job' = [job EXCEPT ![w] = [next EXCEPT !.search = cluster, !.known = {}]]
           /\ Goes(w, "searching")
  <2>1. PICK j : j = [next EXCEPT !.search = cluster, !.known = {}]
    OBVIOUS
  <2>2. j \in JobRecords
    BY <1>5, <1>7, <2>1 DEF JobRecords
  <2>3. JobOf("searching", j)
    BY <1>4, <1>5, <1>7, <2>1 DEF JobOf, JobRecords
  <2>4. QED
    BY <1>4, <1>9, <2>1, <2>2, <2>3, JobStep DEF Goes, PC
<1>10. QED
  BY <1>1, <1>2, <1>3, <1>8, <1>9

LEMMA TypeSearched ==
    ASSUME TypeInv, NEW w \in Worker, pc[w] = "searching", NEW left \in SUBSET SourcePerson,
           NEW known \in SUBSET SourcePerson, Searched(w, left, known),
           UNCHANGED <<sourceRecords, personVars, contributionVars, organizations, orgVars,
                       countVars, historyVars>>
    PROVE  TypeInv'
<1>1. PICK k, next : k = job[w] /\ next = [k EXCEPT !.search = left, !.known = known]
  OBVIOUS
<1>2. k \in JobRecords /\ JobOf("searching", k) /\ pc \in [Worker -> PC]
  BY <1>1, WorkerOf
<1>3. next \in JobRecords /\ JobOf("searching", next) /\ next.known = known
  BY <1>1, <1>2 DEF JobRecords, JobOf
<1>4. CASE job' = [job EXCEPT ![w] = next] /\ UNCHANGED pc
  <2>1. pc' = [pc EXCEPT ![w] = "searching"]
    BY <1>2, <1>4
  <2>2. QED
    BY <1>3, <1>4, <2>1, JobStep DEF PC
<1>5. CASE job' = [job EXCEPT ![w] = next] /\ Goes(w, "creating")
  <2>1. JobOf("creating", next)
    BY <1>3 DEF JobOf
  <2>2. QED
    BY <1>3, <1>5, <2>1, JobStep DEF PC, Goes
<1>6. ASSUME NEW q \in known, NEW place \in {"linking", "merging"}, Goes(w, place),
             job' = [job EXCEPT ![w] = [next EXCEPT !.target = q, !.known = known \ {q}]]
      PROVE  TypeInv'
  <2>1. PICK j : j = [next EXCEPT !.target = q, !.known = known \ {q}]
    OBVIOUS
  <2>2. j \in JobRecords
    BY <1>3, <2>1 DEF JobRecords, AnyPerson
  <2>3. JobOf(place, j)
    BY <1>3, <1>6, <2>1 DEF JobOf, JobRecords, AnyPerson
  <2>4. /\ place \in PC /\ pc' = [pc EXCEPT ![w] = place]
        /\ job' = [job EXCEPT ![w] = j]
    BY <1>6, <2>1 DEF Goes, PC
  <2>5. QED
    BY <2>2, <2>3, <2>4, JobStep
<1>7. ASSUME NEW q \in known,
             job' = [job EXCEPT ![w] = [next EXCEPT !.target = q, !.known = @ \ {q}]],
             Goes(w, IF Cardinality(known) = 1 THEN "linking" ELSE "merging")
      PROVE  TypeInv'
  <2>1. job' = [job EXCEPT ![w] = [next EXCEPT !.target = q, !.known = known \ {q}]]
    <3>1. [next EXCEPT !.target = q, !.known = @ \ {q}]
            = [next EXCEPT !.target = q, !.known = known \ {q}]
      BY <1>3 DEF JobRecords
    <3>2. QED
      BY <1>7, <3>1
  <2>2. QED
    BY <1>6, <1>7, <2>1
<1>8. QED
  BY <1>1, <1>4, <1>5, <1>7 DEF Searched

LEMMA TypeSearch ==
    ASSUME TypeInv, NEW w \in Worker, Search(w)
    PROVE  TypeInv'
<1>1. PICK p \in job[w].search :
        \/ Searched(w, job[w].search \ {p}, job[w].known)
        \/ \E q \in RecordersOf(p) \cap externals :
              Searched(w, job[w].search \ {p}, job[w].known \cup {q})
  BY DEF Search
<1>2. /\ pc[w] = "searching"
      /\ UNCHANGED <<sourceRecords, personVars, contributionVars, organizations, orgVars,
                     countVars, historyVars>>
  BY DEF Search
<1>3. /\ job[w].search \ {p} \in SUBSET SourcePerson /\ job[w].known \in SUBSET SourcePerson
      /\ \A q \in externals : job[w].known \cup {q} \in SUBSET SourcePerson
  BY WorkerOf DEF JobRecords, PeopleOK
<1>4. CASE Searched(w, job[w].search \ {p}, job[w].known)
  BY <1>2, <1>3, <1>4, TypeSearched
<1>5. ASSUME NEW q \in externals, Searched(w, job[w].search \ {p}, job[w].known \cup {q})
      PROVE  TypeInv'
  BY <1>2, <1>3, <1>5, TypeSearched
<1>6. QED
  BY <1>1, <1>4, <1>5

\* The organizations, and what the records hold, stay.
LEMMA PeopleChange ==
    ASSUME TypeInv, UNCHANGED <<sourceRecords, organizations, orgVars>>
    PROVE  /\ OrgInv' /\ RecordsOK' /\ Grows
           /\ Stored' = Stored /\ Targets' = Targets
<1>1. OrgInv /\ organizations' = organizations /\ organizations \subseteq SourceOrganization
      /\ sourceRecords' = sourceRecords
  BY DEF TypeInv, OrgInv, OrgGraph
<1>2. OrgInv' /\ OrgGrows
  BY <1>1, OrgStored
<1>3. Stored' = Stored
  BY <1>1 DEF Stored
<1>4. RecordsOK'
  BY <1>1 DEF TypeInv, RecordsOK
<1>5. Targets' = Targets
  BY DEF Targets, orgVars
<1>6. QED
  BY <1>2, <1>3, <1>4, <1>5 DEF Grows

LEMMA TypeCreateExternal ==
    ASSUME TypeInv, NEW w \in Worker, CreateExternal(w)
    PROVE  TypeInv'
<1>1. PICK p \in job[w].cluster :
        /\ externals' = IF p \in ghosts THEN externals ELSE externals \cup {p}
        /\ job' = [job EXCEPT ![w].target = p]
  BY DEF CreateExternal
<1>2. /\ pc[w] = "creating" /\ pc' = [pc EXCEPT ![w] = "linking"]
      /\ UNCHANGED <<sourceRecords, organizations, orgVars>>
      /\ UNCHANGED <<equivalences, ghosts, recordedBy, contributions, statements>>
      /\ UNCHANGED <<coming, requeued, disturbed, raced>>
  BY DEF CreateExternal, Goes, contributionVars, countVars, historyVars
<1>3. OrgInv' /\ RecordsOK' /\ Grows /\ Stored' = Stored /\ Targets' = Targets
  BY <1>2, PeopleChange
<1>4. PICK k, j : k = job[w] /\ j = [k EXCEPT !.target = p]
  OBVIOUS
<1>5. k \in JobRecords /\ JobOf("creating", k) /\ p \in SourcePerson
  BY <1>1, <1>2, <1>4, WorkerOf DEF JobRecords
<1>6. PeopleOK'
  BY <1>1, <1>2, <1>3, <1>5, WorkerOf DEF PeopleOK, People
<1>7. CountsOK'
  BY <1>2, WorkerOf DEF CountsOK
<1>8. j \in JobRecords /\ JobOf("linking", j)
  BY <1>4, <1>5 DEF JobRecords, JobOf, AnyPerson
<1>9. Moves(w, "linking", j)
  <2>1. JobOf("linking", j)'
    BY <1>3, <1>8, JobGrows
  <2>2. job' = [job EXCEPT ![w] = j]
    BY <1>1, <1>4
  <2>3. QED
    BY <1>2, <1>8, <2>1, <2>2 DEF Moves, PC
<1>10. QED
  BY <1>3, <1>6, <1>7, <1>9, WorkerStep

\* What taking people and contributions does to the history.
LEMMA TakesOf ==
    ASSUME TypeInv, NEW w, NEW gone, NEW documents \in SUBSET Document, Takes(w, gone, documents)
    PROVE  /\ disturbed' \subseteq Document /\ externals' = externals \ gone
           /\ ghosts' = ghosts \ gone /\ raced' = raced
<1>1. \A v \in Worker : job[v].document \in Document \cup {""}
  BY WorkerOf DEF JobRecords
<1>2. disturbed \subseteq Document
  BY DEF TypeInv, CountsOK
<1>3. QED
  BY <1>1, <1>2 DEF Takes

LEMMA DocumentsIn ==
    ASSUME PeopleOK, NEW p
    PROVE  DocumentsOf(p) \in SUBSET Document /\ \A d : <<d, p>> \in contributions <=> d \in DocumentsOf(p)
<1>1. \A c \in contributions : c[1] \in Document /\ c = <<c[1], c[2]>>
  BY DEF PeopleOK
<1>2. QED
  BY <1>1 DEF DocumentsOf

LEMMA TypeMerge ==
    ASSUME TypeInv, NEW w \in Worker, Merge(w)
    PROVE  TypeInv'
<1>1. PICK keep : keep = job[w].target
  OBVIOUS
<1>2. PICK p \in job[w].known :
        LET effective == {keep, p} \subseteq People /\ DocumentsOf(p) \ DocumentsOf(keep) # {}
            moved == IF effective THEN RecordedOf(p) \ RecordedOf(keep) ELSE {}
            gone == IF moved # {} THEN {p} ELSE {}
            lost == IF effective THEN DocumentsOf(p) ELSE {}
        IN
        /\ contributions' = contributions \ (lost \X {p})
        /\ statements' = [c \in DOMAIN statements |->
                IF c \in lost \X {p} THEN {} ELSE statements[c]]
        /\ recordedBy' = {l \in recordedBy : l[1] \notin gone} \cup ({keep} \X moved)
        /\ Takes(w, gone, lost)
        /\ job' = [job EXCEPT ![w].known = job[w].known \ {p}]
        /\ Goes(w, IF job[w].known = {p} THEN "linking" ELSE "merging")
  BY <1>1 DEF Merge
<1>3. PICK effective, moved, gone, lost, place :
        /\ effective = ({keep, p} \subseteq People /\ DocumentsOf(p) \ DocumentsOf(keep) # {})
        /\ moved = IF effective THEN RecordedOf(p) \ RecordedOf(keep) ELSE {}
        /\ gone = IF moved # {} THEN {p} ELSE {}
        /\ lost = IF effective THEN DocumentsOf(p) ELSE {}
        /\ place = IF job[w].known = {p} THEN "linking" ELSE "merging"
  OBVIOUS
<1>4. /\ contributions' = contributions \ (lost \X {p})
      /\ statements' = [c \in DOMAIN statements |->
              IF c \in lost \X {p} THEN {} ELSE statements[c]]
      /\ recordedBy' = {l \in recordedBy : l[1] \notin gone} \cup ({keep} \X moved)
      /\ Takes(w, gone, lost)
      /\ job' = [job EXCEPT ![w].known = job[w].known \ {p}]
      /\ pc' = [pc EXCEPT ![w] = place]
  BY <1>2, <1>3 DEF Goes
<1>5. /\ pc[w] = "merging" /\ UNCHANGED <<sourceRecords, organizations, orgVars>>
      /\ UNCHANGED <<equivalences, coming, requeued>>
  BY DEF Merge, countVars
<1>6. OrgInv' /\ RecordsOK' /\ Grows /\ Stored' = Stored /\ Targets' = Targets
  BY <1>5, PeopleChange
<1>7. PICK k, j : k = job[w] /\ j = [k EXCEPT !.known = k.known \ {p}]
  OBVIOUS
<1>8. k \in JobRecords /\ JobOf("merging", k) /\ p \in SourcePerson /\ PeopleOK
      /\ keep \in AnyPerson /\ keep # p
  BY <1>1, <1>5, <1>7, WorkerOf DEF JobRecords, JobOf
<1>9. lost \in SUBSET Document
  BY <1>3, <1>8, DocumentsIn
<1>10. /\ disturbed' \subseteq Document /\ externals' = externals \ gone
       /\ ghosts' = ghosts \ gone /\ raced' = raced
  BY <1>4, <1>9, TakesOf
<1>11. p \notin Person /\ People' = People \ gone
  BY <1>3, <1>8, <1>10, ContributionsAssumption DEF People
<1>12. moved # {} => keep \in People'
  BY <1>3, <1>8, <1>11
<1>13. moved \subseteq Stored
  BY <1>3, <1>8 DEF RecordedOf, PeopleOK
<1>14. recordedBy' \subseteq People' \X Stored'
  BY <1>4, <1>6, <1>8, <1>11, <1>12, <1>13 DEF PeopleOK
<1>15. contributions' \subseteq Document \X People'
  <2>1. ASSUME NEW c \in contributions'
        PROVE  c \in Document \X People'
    <3>1. c \in contributions /\ c \in Document \X People /\ c = <<c[1], c[2]>> /\ c \notin lost \X {p}
      BY <1>4, <1>8 DEF PeopleOK
    <3>2. c[2] \notin gone
      <4>1. SUFFICES ASSUME c[2] \in gone
                     PROVE  FALSE
        OBVIOUS
      <4>2. c[2] = p /\ lost = DocumentsOf(p)
        BY <1>3, <4>1
      <4>3. c[1] \in DocumentsOf(p)
        BY <1>8, <3>1, <4>2, DocumentsIn
      <4>4. QED
        BY <3>1, <4>2, <4>3
    <3>3. QED
      BY <1>11, <3>1, <3>2
  <2>2. QED
    BY <2>1
<1>16. PeopleOK'
  <2>1. statements' \in [Document \X AnyPerson -> SUBSET Targets]
    BY <1>4, <1>8 DEF PeopleOK
  <2>2. \A c \in Document \X AnyPerson : statements'[c] # {} => c \in contributions'
    BY <1>4, <1>8 DEF PeopleOK
  <2>3. QED
    BY <1>5, <1>6, <1>8, <1>10, <1>14, <1>15, <2>1, <2>2 DEF PeopleOK
<1>17. CountsOK'
  BY <1>5, <1>10, WorkerOf DEF CountsOK
<1>18. j \in JobRecords /\ JobOf(place, j)
  BY <1>1, <1>3, <1>7, <1>8 DEF JobRecords, JobOf
<1>19. Moves(w, place, j)
  <2>1. JobOf(place, j)'
    BY <1>6, <1>18, JobGrows
  <2>2. job' = [job EXCEPT ![w] = j]
    BY <1>4, <1>7
  <2>3. QED
    BY <1>3, <1>4, <1>18, <2>1, <2>2 DEF Moves, PC
<1>20. QED
  BY <1>6, <1>16, <1>17, <1>19, WorkerStep

Links == [person : AnyPerson, cluster : SUBSET SourcePerson]
LEMMA LinkedTyped ==
    ASSUME NEW linked \in Seq(Links), NEW person \in AnyPerson, NEW cluster \in SUBSET SourcePerson
    PROVE  Linked(linked, person, cluster) \in Seq(Links)
<1>1. PICK same : same = {n \in DOMAIN linked : linked[n].person = person}
  OBVIOUS
<1>2. [person |-> person, cluster |-> cluster] \in Links
  BY DEF Links
<1>3. CASE same = {}
  <2>1. Linked(linked, person, cluster) = Append(linked, [person |-> person, cluster |-> cluster])
    BY <1>1, <1>3 DEF Linked
  <2>2. QED
    BY <1>2, <2>1
<1>4. CASE same # {}
  <2>1. PICK new : new = [n \in DOMAIN linked |->
                            IF n \in same THEN [linked[n] EXCEPT !.cluster = cluster] ELSE linked[n]]
    OBVIOUS
  <2>2. Linked(linked, person, cluster) = new
    BY <1>1, <1>4, <2>1 DEF Linked
  <2>3. \A n \in DOMAIN linked : new[n] \in Links
    <3>1. \A n \in DOMAIN linked : linked[n] \in Links
      OBVIOUS
    <3>2. \A l \in Links : [l EXCEPT !.cluster = cluster] \in Links
      BY DEF Links
    <3>3. QED
      BY <2>1, <3>1, <3>2
  <2>4. DOMAIN new = 1 .. Len(linked) /\ Len(linked) \in Nat
    BY <2>1
  <2>5. new \in Seq(Links)
    <3>1. new \in [1 .. Len(linked) -> Links]
      BY <2>1, <2>3, <2>4
    <3>2. QED
      BY <2>4, <3>1
  <2>6. QED
    BY <2>2, <2>5
<1>5. QED
  BY <1>3, <1>4

LEMMA TypeLink ==
    ASSUME TypeInv, NEW w \in Worker, Link(w)
    PROVE  TypeInv'
<1>1. PICK k, person, cluster, gone, lost :
        /\ k = job[w] /\ person = k.target /\ cluster = k.cluster /\ gone = Gone(w)
        /\ lost = UNION {DocumentsOf(p) : p \in gone}
  OBVIOUS
<1>2. /\ recordedBy' = {l \in recordedBy : l[1] \notin gone}
            \cup (IF person \in People THEN {person} \X cluster ELSE {})
      /\ contributions' = {c \in contributions : c[2] \notin gone}
      /\ statements' = [c \in DOMAIN statements |-> IF c[2] \in gone THEN {} ELSE statements[c]]
      /\ Takes(w, gone, lost)
  BY <1>1 DEF Link
<1>3. PICK linked : linked = Linked(k.linked, person, cluster)
  OBVIOUS
<1>4. PICK place : place = IF job[w].left = {} THEN "contributing" ELSE "matching"
  OBVIOUS
<1>5. /\ job' = [job EXCEPT ![w].linked = Linked(@, person, cluster), ![w].target = "",
                            ![w].cluster = {}]
      /\ pc' = [pc EXCEPT ![w] = place]
      /\ pc[w] = "linking" /\ UNCHANGED <<sourceRecords, organizations, orgVars>>
      /\ UNCHANGED <<equivalences, coming, requeued>>
  BY <1>1, <1>4 DEF Link, Goes, countVars
<1>6. OrgInv' /\ RecordsOK' /\ Grows /\ Stored' = Stored /\ Targets' = Targets
  BY <1>5, PeopleChange
<1>7. k \in JobRecords /\ JobOf("linking", k) /\ PeopleOK /\ job \in [Worker -> JobRecords]
  BY <1>1, <1>5, WorkerOf
<1>8. PICK j : j = [k EXCEPT !.linked = linked, !.target = "", !.cluster = {}]
  OBVIOUS
<1>9. job' = [job EXCEPT ![w] = j]
  BY <1>1, <1>3, <1>5, <1>7, <1>8 DEF JobRecords
<1>10. gone \subseteq externals /\ gone \subseteq SourcePerson /\ person \notin gone
  BY <1>1, <1>7 DEF Gone, PeopleOK
<1>11. lost \in SUBSET Document
  BY <1>1, <1>7, DocumentsIn
<1>12. /\ disturbed' \subseteq Document /\ externals' = externals \ gone
       /\ ghosts' = ghosts \ gone /\ raced' = raced
  BY <1>2, <1>11, TakesOf
<1>13. People' = People \ gone
  BY <1>10, <1>12, ContributionsAssumption DEF People
<1>14. cluster \subseteq Stored /\ cluster \subseteq SourcePerson /\ person \in AnyPerson
  BY <1>1, <1>7 DEF JobOf, JobRecords
<1>15. recordedBy' \subseteq People' \X Stored'
  BY <1>2, <1>6, <1>7, <1>10, <1>13, <1>14 DEF PeopleOK
<1>16. contributions' \subseteq Document \X People'
  BY <1>2, <1>7, <1>13 DEF PeopleOK
<1>17. PeopleOK'
  <2>1. statements' \in [Document \X AnyPerson -> SUBSET Targets]
    BY <1>2, <1>7 DEF PeopleOK
  <2>2. \A c \in Document \X AnyPerson : statements'[c] # {} => c \in contributions'
    BY <1>2, <1>7 DEF PeopleOK
  <2>3. QED
    BY <1>5, <1>6, <1>7, <1>12, <1>15, <1>16, <2>1, <2>2 DEF PeopleOK
<1>18. CountsOK'
  BY <1>5, <1>12, WorkerOf DEF CountsOK
<1>19. linked \in Seq(Links)
  BY <1>3, <1>7, <1>14, LinkedTyped DEF JobRecords, Links
<1>20. j \in JobRecords
  BY <1>7, <1>8, <1>19 DEF JobRecords, Links
<1>21. JobOf(place, j)
  <2>1. /\ j.event = k.event /\ j.document = k.document /\ j.records = k.records /\ j.left = k.left
        /\ j.found = k.found
    BY <1>7, <1>8 DEF JobRecords
  <2>2. QED
    BY <1>1, <1>4, <1>7, <2>1 DEF JobOf
<1>22. Moves(w, place, j)
  <2>1. JobOf(place, j)'
    BY <1>6, <1>21, JobGrows
  <2>2. QED
    BY <1>4, <1>5, <1>9, <1>20, <2>1 DEF Moves, PC
<1>23. QED
  BY <1>6, <1>17, <1>18, <1>22, WorkerStep

LEMMA TypeContribute ==
    ASSUME TypeInv, NEW w \in Worker, Contribute(w)
    PROVE  TypeInv'
<1>1. PICK k, one, person, ghost :
        /\ k = job[w] /\ one = Head(k.linked) /\ person = one.person /\ ghost = {person} \ People
  OBVIOUS
<1>2. PICK left : left = AffiliationsIn(k.records, one.cluster)
  OBVIOUS
<1>3. /\ contributions' = contributions \cup {<<k.document, person>>}
      /\ ghosts' = ghosts \cup ghost
      /\ raced' = raced \/ raced' = raced \cup ghost
      /\ pc[w] = "contributing" /\ k.linked # <<>>
      /\ pc' = [pc EXCEPT ![w] = "affiliating"]
      /\ UNCHANGED <<sourceRecords, organizations, orgVars>>
      /\ UNCHANGED <<equivalences, externals, recordedBy, statements, coming, requeued, disturbed>>
  BY <1>1 DEF Contribute, Goes, countVars
<1>4. OrgInv' /\ RecordsOK' /\ Grows /\ Stored' = Stored /\ Targets' = Targets
  BY <1>3, PeopleChange
<1>5. k \in JobRecords /\ JobOf("contributing", k) /\ PeopleOK /\ job \in [Worker -> JobRecords]
  BY <1>1, <1>3, WorkerOf
<1>6. PICK tail, current : tail = Tail(k.linked) /\ current = k.current \cup {person}
  OBVIOUS
<1>7. PICK j : j = [k EXCEPT !.linked = tail, !.target = person, !.cluster = one.cluster,
                             !.current = current, !.left = left]
  OBVIOUS
<1>8. job' = [job EXCEPT ![w] = j]
  <2>1. job' = [job EXCEPT ![w].linked = Tail(@), ![w].target = person,
                           ![w].cluster = one.cluster, ![w].current = @ \cup {person},
                           ![w].left = left]
    BY <1>1, <1>2 DEF Contribute
  <2>2. QED
    BY <1>1, <1>5, <1>6, <1>7, <2>1 DEF JobRecords
<1>9. one \in Links /\ tail \in Seq(Links)
  <2>1. k.linked \in Seq(Links) /\ k.linked # <<>>
    BY <1>3, <1>5 DEF JobRecords, Links
  <2>2. QED
    BY <1>1, <1>6, <2>1
<1>10. person \in AnyPerson /\ one.cluster \in SUBSET SourcePerson /\ k.document \in Document
  BY <1>1, <1>5, <1>9 DEF Links, JobOf
<1>11. ghost \subseteq SourcePerson /\ ghost \cap externals = {}
       /\ ghost \cap ghosts = {} /\ person \in People \cup ghost
  BY <1>1, <1>10 DEF People, AnyPerson
<1>12. People' = People \cup ghost
  BY <1>3 DEF People
<1>13. PeopleOK'
  <2>1. contributions' \subseteq Document \X People'
    BY <1>3, <1>5, <1>10, <1>11, <1>12 DEF PeopleOK
  <2>2. recordedBy' \subseteq People' \X Stored'
    BY <1>3, <1>4, <1>5, <1>12 DEF PeopleOK
  <2>3. externals' \cup ghosts' \subseteq SourcePerson /\ externals' \cap ghosts' = {}
    BY <1>3, <1>5, <1>11 DEF PeopleOK
  <2>4. QED
    BY <1>3, <1>4, <1>5, <2>1, <2>2, <2>3 DEF PeopleOK
<1>14. CountsOK'
  BY <1>3, <1>11, WorkerOf DEF CountsOK
<1>15. left \subseteq organizations /\ left \subseteq SourceOrganization
  <2>1. k.records \in SUBSET SourceRecord /\ AffiliationsIn(k.records, SourcePerson) \subseteq organizations
    BY <1>5 DEF JobRecords, JobOf
  <2>2. left \subseteq organizations
    BY <1>2, <2>1, RecordsHold
  <2>3. QED
    BY <2>2, WorkerOf DEF OrgInv, OrgGraph
<1>16. k.current \in SUBSET AnyPerson /\ current \in SUBSET AnyPerson
  BY <1>5, <1>6, <1>10 DEF JobRecords
<1>17. j \in JobRecords
  BY <1>5, <1>7, <1>9, <1>10, <1>15, <1>16 DEF JobRecords, Links
<1>18. JobOf("affiliating", j)
  <2>1. /\ j.event = k.event /\ j.document = k.document /\ j.records = k.records /\ j.left = left
        /\ j.found = k.found /\ j.target = person
    BY <1>5, <1>7 DEF JobRecords
  <2>2. QED
    BY <1>5, <1>10, <1>15, <2>1 DEF JobOf
<1>19. Moves(w, "affiliating", j)
  <2>1. JobOf("affiliating", j)'
    BY <1>4, <1>18, JobGrows
  <2>2. QED
    BY <1>3, <1>8, <1>17, <2>1 DEF Moves, PC
<1>20. QED
  BY <1>4, <1>13, <1>14, <1>19, WorkerStep

LEMMA FoundIn ==
    ASSUME TypeInv, NEW w \in Worker
    PROVE  Found(w) \in SUBSET Results /\ \A f \in Found(w) : ResultOf(f)
<1>1. job[w].found \in SUBSET Results /\ \A f \in job[w].found : ResultOf(f)
  BY WorkerOf DEF JobRecords, JobOf
<1>2. orgCall[w].at = "returned" => orgCall[w].result \in Results /\ ResultOf(orgCall[w].result)
  BY WorkerOf, CallFields DEF CallRecords, CallOf
<1>3. QED
  BY <1>1, <1>2 DEF Found

LEMMA TypeCallOrganization ==
    ASSUME TypeInv, NEW w \in Worker, CallOrganization(w)
    PROVE  TypeInv'
<1>1. PICK o \in job[w].left :
        /\ \E call \in O!Calls(O!Cluster(o)) : orgCall' = [orgCall EXCEPT ![w] = call]
        /\ job' = [job EXCEPT ![w].left = job[w].left \ O!Cluster(o), ![w].found = Found(w)]
  BY DEF CallOrganization
<1>2. PICK k, cluster, left, found :
        k = job[w] /\ cluster = O!Cluster(o) /\ left = k.left \ cluster /\ found = Found(w)
  OBVIOUS
<1>3. PICK call \in O!Calls(cluster) : orgCall' = [orgCall EXCEPT ![w] = call]
  BY <1>1, <1>2
<1>4. /\ UNCHANGED <<sourceRecords, personVars, contributionVars>>
      /\ UNCHANGED <<organizations, states, roots, hasStates, contested>>
      /\ UNCHANGED <<pc, coming, requeued, disturbed, raced>>
      /\ pc[w] = "affiliating"
  BY DEF CallOrganization, Free, countVars, historyVars
<1>5. k \in JobRecords /\ JobOf("affiliating", k) /\ OrgInv /\ pc \in [Worker -> PC]
  BY <1>2, <1>4, WorkerOf
<1>6. o \in organizations
  BY <1>2, <1>5 DEF JobOf
<1>7. cluster \in SUBSET organizations
  BY <1>2, <1>5, <1>6, ClusterIn
<1>8. OrgInv'
  BY <1>3, <1>4, <1>5, <1>7, OrgCalled
<1>9. OrgGrows
  BY <1>4 DEF OrgGrows
<1>10. RecordsOK' /\ PeopleOK' /\ Grows
  BY <1>4, <1>8, <1>9, DataStay
<1>11. CountsOK'
  BY <1>4, WorkerOf DEF CountsOK
<1>12. PICK j : j = [k EXCEPT !.left = left, !.found = found]
  OBVIOUS
<1>13. found \in SUBSET Results /\ \A f \in found : ResultOf(f)
  BY <1>2, FoundIn
<1>14. j \in JobRecords /\ JobOf("affiliating", j)
  BY <1>2, <1>5, <1>12, <1>13 DEF JobRecords, JobOf
<1>15. Moves(w, "affiliating", j)
  <2>1. JobOf("affiliating", j)'
    BY <1>10, <1>14, JobGrows
  <2>2. job' = [job EXCEPT ![w] = j]
    BY <1>1, <1>2, <1>12
  <2>3. pc' = [pc EXCEPT ![w] = "affiliating"]
    BY <1>4, <1>5
  <2>4. QED
    BY <1>14, <2>1, <2>2, <2>3 DEF Moves, PC
<1>16. QED
  BY <1>8, <1>10, <1>11, <1>15, WorkerStep

LEMMA TypeTreatOrganization ==
    ASSUME TypeInv, NEW w \in Worker, TreatOrganization(w)
    PROVE  TypeInv'
<1>1. /\ UNCHANGED <<sourceRecords, personVars, contributionVars>>
      /\ UNCHANGED <<pc, job, coming, requeued, disturbed, raced>>
      /\ O!Work(w)
  BY DEF TreatOrganization, countVars, historyVars
<1>2. OrgInv' /\ OrgGrows
  BY <1>1, WorkerOf, OrgWork
<1>3. RecordsOK' /\ PeopleOK' /\ Grows
  BY <1>1, <1>2, DataStay
<1>4. CountsOK'
  BY <1>1, WorkerOf DEF CountsOK
<1>5. PICK place, j : place = pc[w] /\ j = job[w]
  OBVIOUS
<1>6. /\ place \in PC /\ j \in JobRecords /\ JobOf(place, j)
      /\ pc \in [Worker -> PC] /\ job \in [Worker -> JobRecords]
  BY <1>5, WorkerOf
<1>7. Moves(w, place, j)
  <2>1. JobOf(place, j)'
    BY <1>3, <1>6, JobGrows
  <2>2. pc' = [pc EXCEPT ![w] = place] /\ job' = [job EXCEPT ![w] = j]
    BY <1>1, <1>5, <1>6
  <2>3. QED
    BY <1>6, <2>1, <2>2 DEF Moves
<1>8. QED
  BY <1>2, <1>3, <1>4, <1>7, WorkerStep

LEMMA TargetOf ==
    ASSUME NEW f \in Results, ResultOf(f), f.states # {}, NEW orgs
    PROVE  Target(f, orgs) \in Targets
<1>1. PICK own : own = {s \in f.states : s.orgs \cap orgs # {}}
  OBVIOUS
<1>2. \A s \in f.states : <<"state", s.uid>> \in Targets
  BY DEF ResultOf, Targets
<1>3. CASE Cardinality(f.states) = 1
  <2>1. Target(f, orgs) = <<"state", (CHOOSE s \in f.states : TRUE).uid>>
    BY <1>3 DEF Target
  <2>2. (CHOOSE s \in f.states : TRUE) \in f.states
    OBVIOUS
  <2>3. QED
    BY <1>2, <2>1, <2>2
<1>4. CASE Cardinality(f.states) # 1 /\ Cardinality(own) = 1
  <2>1. Target(f, orgs) = <<"state", (CHOOSE s \in own : TRUE).uid>>
    BY <1>1, <1>4 DEF Target
  <2>2. own # {}
    BY <1>4, FS_EmptySet
  <2>3. (CHOOSE s \in own : TRUE) \in f.states
    BY <1>1, <2>2
  <2>4. QED
    BY <1>2, <2>1, <2>3
<1>5. CASE Cardinality(f.states) # 1 /\ Cardinality(own) # 1
  <2>1. Target(f, orgs) = <<"root", f.root>>
    BY <1>1, <1>5 DEF Target
  <2>2. f.root \in DOMAIN roots
    BY <1>5, SameSizes DEF ResultOf
  <2>3. QED
    BY <2>1, <2>2 DEF Targets
<1>6. QED
  BY <1>3, <1>4, <1>5

LEMMA TypeAffiliate ==
    ASSUME TypeInv, NEW w \in Worker, Affiliate(w)
    PROVE  TypeInv'
<1>1. PICK k, c, orgs, targets :
        /\ k = job[w] /\ c = <<k.document, k.target>>
        /\ orgs = AffiliationsIn(k.records, k.cluster)
        /\ targets = {Target(found, orgs) : found \in Found(w)}
  OBVIOUS
<1>2. /\ statements' = IF targets # {} /\ c \in contributions
                       THEN [statements EXCEPT ![c] = targets] ELSE statements
      /\ ~ Empty(w) /\ pc[w] = "affiliating"
      /\ job' = [job EXCEPT ![w].target = "", ![w].cluster = {}, ![w].found = {}]
      /\ pc' = [pc EXCEPT ![w] = "contributing"]
      /\ orgCall' = [orgCall EXCEPT ![w] = O!NoCall]
      /\ UNCHANGED <<organizations, states, roots, hasStates, contested>>
      /\ UNCHANGED <<sourceRecords, equivalences, externals, ghosts, recordedBy, contributions>>
      /\ UNCHANGED <<coming, requeued, disturbed, raced>>
  BY <1>1 DEF Affiliate, Affiliated, Free, Goes, personVars, countVars, historyVars
<1>3. k \in JobRecords /\ JobOf("affiliating", k) /\ PeopleOK /\ job \in [Worker -> JobRecords]
  BY <1>1, <1>2, WorkerOf
<1>4. OrgInv'
  BY <1>2, WorkerOf, OrgReset
<1>5. Stored' = Stored /\ Targets' = Targets /\ Grows
  BY <1>2 DEF Stored, Targets, Grows, OrgGrows
<1>6. RecordsOK'
  BY <1>2, WorkerOf DEF RecordsOK
<1>7. targets \in SUBSET Targets
  <2>1. ASSUME NEW f \in Found(w)
        PROVE  Target(f, orgs) \in Targets
    <3>1. f \in Results /\ ResultOf(f)
      BY FoundIn
    <3>2. f.states # {}
      BY <1>2 DEF Empty
    <3>3. QED
      BY <3>1, <3>2, TargetOf
  <2>2. QED
    BY <1>1, <2>1
<1>8. PeopleOK'
  <2>1. statements' \in [Document \X AnyPerson -> SUBSET Targets]
    BY <1>2, <1>3, <1>7 DEF PeopleOK
  <2>2. \A d \in Document \X AnyPerson : statements'[d] # {} => d \in contributions
    BY <1>2, <1>3 DEF PeopleOK
  <2>3. QED
    BY <1>2, <1>3, <1>5, <2>1, <2>2 DEF PeopleOK, People
<1>9. CountsOK'
  BY <1>2, WorkerOf DEF CountsOK
<1>10. PICK j : j = [k EXCEPT !.target = "", !.cluster = {}, !.found = {}]
  OBVIOUS
<1>11. j \in JobRecords
  BY <1>3, <1>10 DEF JobRecords
<1>12. JobOf("contributing", j)
  BY <1>3, <1>10 DEF JobRecords, JobOf
<1>13. Moves(w, "contributing", j)
  <2>1. JobOf("contributing", j)'
    BY <1>5, <1>12, JobGrows
  <2>2. job' = [job EXCEPT ![w] = j]
    BY <1>1, <1>2, <1>3, <1>10
  <2>3. QED
    BY <1>2, <1>11, <2>1, <2>2 DEF Moves, PC
<1>14. QED
  BY <1>4, <1>5, <1>6, <1>8, <1>9, <1>13, WorkerStep

\* A worker ends, or starts another document: it has nothing in hand.
LEMMA EndsMoves ==
    ASSUME NEW w, Ends(w)
    PROVE  Moves(w, "idle", NoJob)
<1>1. PICK j : j = NoJob /\ j \in JobRecords /\ j.records = {} /\ j.found = {}
  BY NewJob
<1>2. JobOf("idle", j)'
  BY <1>1, NoRecords
<1>3. QED
  BY <1>1, <1>2 DEF Ends, Goes, Moves, PC, JobOf, NoJob, Job

LEMMA EndsStep ==
    ASSUME TypeInv, NEW w \in Worker, Ends(w), CountsOK',
           orgCall' = [orgCall EXCEPT ![w] = O!NoCall],
           UNCHANGED <<organizations, states, roots, hasStates, contested>>,
           UNCHANGED <<sourceRecords, personVars, contributionVars>>
    PROVE  TypeInv'
<1>1. OrgInv'
  BY WorkerOf, OrgReset
<1>2. OrgGrows
  BY DEF OrgGrows
<1>3. RecordsOK' /\ PeopleOK' /\ Grows
  BY <1>1, <1>2, DataStay
<1>4. PICK j : j = NoJob
  OBVIOUS
<1>5. Moves(w, "idle", j)
  BY <1>4, EndsMoves
<1>6. QED
  BY <1>1, <1>3, <1>5, WorkerStep

LEMMA TypeGiveUp ==
    ASSUME TypeInv, NEW w \in Worker, GiveUp(w)
    PROVE  TypeInv'
<1>1. job[w].document \in Document /\ CountsOK
  BY WorkerOf DEF GiveUp, Refused, Affiliated, Free, JobOf
<1>2. CountsOK'
  BY <1>1 DEF GiveUp, CountsOK, countVars
<1>3. QED
  BY <1>2, EndsStep DEF GiveUp

LEMMA TypeReturned ==
    ASSUME TypeInv, NEW w \in Worker, pc[w] # "idle", Returned(w), coming' \in Nat
    PROVE  TypeInv'
<1>1. /\ job[w].event \in SourceRecord \X Document /\ job[w].document \in Document \cup {""}
      /\ CountsOK
  BY WorkerOf DEF JobOf, JobRecords
<1>2. CountsOK'
  BY <1>1 DEF Returned, CountsOK
<1>3. QED
  BY <1>2, EndsStep DEF Returned

LEMMA TypeFail ==
    ASSUME TypeInv, NEW w \in Worker, FailCall(w) \/ Fail(w)
    PROVE  TypeInv'
<1>1. coming \in Nat
  BY DEF TypeInv, CountsOK
<1>2. pc[w] # "idle" /\ Returned(w) /\ coming' \in Nat
  BY <1>1 DEF FailCall, Fail
<1>3. QED
  BY <1>2, TypeReturned

LEMMA TypeFinish ==
    ASSUME TypeInv, NEW w \in Worker, Finish(w)
    PROVE  TypeInv'
<1>1. PICK stale : stale = Stale(w)
  OBVIOUS
<1>2. /\ contributions' = contributions \ stale
      /\ statements' = [c \in DOMAIN statements |-> IF c \in stale THEN {} ELSE statements[c]]
      /\ pc[w] = "contributing"
      /\ IF job[w].todo = {} THEN Ends(w)
         ELSE Goes(w, "starting") /\ job' = [job EXCEPT ![w] = Job(job[w].event, job[w].todo)]
      /\ UNCHANGED <<sourceRecords, organizations, orgVars>>
      /\ UNCHANGED <<equivalences, externals, ghosts, recordedBy, coming, requeued, disturbed, raced>>
  BY <1>1 DEF Finish, personVars, countVars, historyVars
<1>3. OrgInv' /\ RecordsOK' /\ Grows /\ Stored' = Stored /\ Targets' = Targets
  BY <1>2, PeopleChange
<1>4. PeopleOK /\ CountsOK /\ job[w] \in JobRecords /\ JobOf("contributing", job[w])
  BY <1>2, WorkerOf
<1>5. PeopleOK'
  <2>1. statements' \in [Document \X AnyPerson -> SUBSET Targets]
    BY <1>2, <1>4 DEF PeopleOK
  <2>2. \A c \in Document \X AnyPerson : statements'[c] # {} => c \in contributions'
    BY <1>2, <1>4 DEF PeopleOK
  <2>3. QED
    BY <1>2, <1>3, <1>4, <2>1, <2>2 DEF PeopleOK, People
<1>6. CountsOK'
  BY <1>2, <1>4 DEF CountsOK
<1>7. CASE Ends(w)
  <2>1. PICK j : j = NoJob
    OBVIOUS
  <2>2. Moves(w, "idle", j)
    BY <1>7, <2>1, EndsMoves
  <2>3. QED
    BY <1>3, <1>5, <1>6, <2>2, WorkerStep
<1>8. CASE Goes(w, "starting") /\ job' = [job EXCEPT ![w] = Job(job[w].event, job[w].todo)]
  <2>1. PICK j, event, todo : j = Job(event, todo) /\ event = job[w].event /\ todo = job[w].todo
    OBVIOUS
  <2>2. event \in SourceRecord \X Document /\ todo \in SUBSET Document
    BY <1>4, <2>1 DEF JobOf, JobRecords
  <2>3. j \in JobRecords /\ j.event = event /\ j.records = {} /\ j.found = {}
    BY <2>1, <2>2, NewJob
  <2>4. JobOf("starting", j)'
    BY <2>2, <2>3, NoRecords
  <2>5. Moves(w, "starting", j)
    BY <1>8, <2>1, <2>3, <2>4 DEF Moves, Goes, PC
  <2>6. QED
    BY <1>3, <1>5, <1>6, <2>5, WorkerStep
<1>9. QED
  BY <1>2, <1>7, <1>8

LEMMA TypeStep == TypeInv /\ [Next]_vars => TypeInv'
<1> SUFFICES ASSUME TypeInv, [Next]_vars
             PROVE  TypeInv'
  OBVIOUS
<1>1. CASE UNCHANGED vars
  <2>1. OrgInv' /\ RecordsOK' /\ PeopleOK' /\ Grows
    BY <1>1, Quiet DEF vars
  <2>2. UNCHANGED <<pc, job, coming, requeued, disturbed, raced>>
    BY <1>1 DEF vars, countVars, historyVars
  <2>3. CountsOK'
    BY <2>2 DEF TypeInv, CountsOK
  <2>4. ASSUME NEW w \in Worker
        PROVE  JobOf(pc[w], job[w])'
    <3>1. PICK place, j : place = pc[w] /\ j = job[w] /\ JobOf(place, j)
      BY WorkerOf
    <3>2. JobOf(place, j)'
      BY <2>1, <3>1, JobGrows
    <3>3. QED
      BY <2>2, <3>1, <3>2 DEF JobOf, ResultOf
  <2>5. QED
    BY <2>1, <2>2, <2>3, <2>4 DEF TypeInv
<1>2. ASSUME NEW w \in Worker, Take(w) \/ Work(w) \/ Fail(w)
      PROVE  TypeInv'
  BY <1>2, TypeTake, TypeStart, TypeRelate, TypeMatch, TypeSearch, TypeCreateExternal, TypeMerge,
     TypeLink, TypeContribute, TypeCallOrganization, TypeTreatOrganization, TypeAffiliate,
     TypeGiveUp, TypeFinish, TypeFail
  DEF Work
<1>3. QED
  BY <1>1, <1>2 DEF Next

THEOREM TypeInvariant == Spec => []TypeInv
BY TypeInit, TypeStep, PTL DEF Spec

GroupsOK == regrouped \subseteq Document

\* Documents are only regrouped where source people come, or are related.
LEMMA RegroupStep ==
    ASSUME NEW w \in Worker, Take(w) \/ Work(w) \/ Fail(w)
    PROVE  \/ regrouped' = regrouped
           \/ Take(w) /\ regrouped' = regrouped \cup Regrouped
           \/ Relate(w) /\ regrouped' = (regrouped \cup Regrouped) \ {job[w].document}
<1>1. CASE Take(w) \/ Relate(w)
  BY <1>1 DEF Take, Relate
<1>2. CASE Start(w) \/ Match(w) \/ Search(w) \/ CreateExternal(w)
  BY <1>2 DEF Start, Match, Search, CreateExternal, historyVars
<1>3. CASE Merge(w) \/ Link(w) \/ Contribute(w)
  BY <1>3 DEF Merge, Link, Takes, Contribute
<1>4. CASE CallOrganization(w) \/ TreatOrganization(w) \/ Affiliate(w) \/ GiveUp(w) \/ Finish(w)
  BY <1>4 DEF CallOrganization, TreatOrganization, Affiliate, GiveUp, Finish, historyVars
<1>5. CASE FailCall(w) \/ Fail(w)
  BY <1>5 DEF FailCall, Fail, Returned
<1>6. QED
  BY <1>1, <1>2, <1>3, <1>4, <1>5 DEF Work

(***************************************************************************)
(* Types, whatever the documents, the people and the workers, and whenever *)
(* calls fail: source people are recorded by people, contributions are of  *)
(* documents and people, statements of states and roots that exist,        *)
(* although people are deleted by other workers in the meantime.           *)
(***************************************************************************)
THEOREM TypeCorrect == Spec => []TypeOK
<1>1. TypeInv /\ GroupsOK => TypeOK
  <2> SUFFICES ASSUME TypeInv, GroupsOK
               PROVE  TypeOK
    OBVIOUS
  <2>1. O!TypeOK
    <3>1. OrgGraph
      BY DEF TypeInv, OrgInv
    <3>2. \A s \in DOMAIN states : states[s].orgs \subseteq organizations
      BY <3>1 DEF OrgGraph, StateOf
    <3>3. \A r \in DOMAIN roots : roots[r] \subseteq organizations
      BY <3>1 DEF OrgGraph
    <3>4. QED
      BY <3>1, <3>2, <3>3 DEF O!TypeOK, O!State, OrgGraph
  <2>2. \A c \in DOMAIN statements :
          /\ statements[c] # {} => c \in contributions
          /\ statements[c] \subseteq ({"state"} \X O!State) \cup ({"root"} \X DOMAIN roots)
    BY DEF TypeInv, PeopleOK, Targets, O!State
  <2>3. QED
    BY <2>1, <2>2 DEF TypeOK, TypeInv, RecordsOK, PeopleOK, CountsOK, GroupsOK
<1>2. Init => GroupsOK
  BY DEF Init, GroupsOK
<1>3. GroupsOK /\ [Next]_vars => GroupsOK'
  <2>1. Regrouped \subseteq Document
    BY DEF Regrouped
  <2>2. UNCHANGED vars => regrouped' = regrouped
    BY DEF vars, historyVars
  <2>3. QED
    BY <2>1, <2>2, RegroupStep DEF Next, GroupsOK
<1>4. QED
  BY <1>1, <1>2, <1>3, TypeInvariant, PTL DEF Spec

(***************************************************************************)
(* The identifiers of a state never contradict each other, for any source  *)
(* organizations and any number of workers that complete states at the     *)
(* same time: what is written is what was checked, even if it is stale.    *)
(***************************************************************************)
THEOREM StatesConsistent == Spec => []StatesAreConsistent
<1>1. TypeInv => StatesAreConsistent
  <2> SUFFICES ASSUME TypeInv
               PROVE  StatesAreConsistent
    OBVIOUS
  <2>1. \A s \in DOMAIN states : Consistent(states[s])
    BY DEF TypeInv, OrgInv, OrgGraph, StateOf
  <2>2. QED
    BY <2>1 DEF StatesAreConsistent, O!StatesAreConsistent, O!State, Consistent
<1>2. QED
  BY <1>1, TypeInvariant, PTL

---------------------------------------------------------------------------
(***************************************************************************)
(* The roots of the states: a state that no two overlapping transactions   *)
(* attached has one, and a transaction that attaches states has read every *)
(* link of theirs that it must delete.                                     *)
(***************************************************************************)
OneLink == \A l, m \in hasStates : l[2] = m[2] /\ l[2] \notin contested => l = m
HasReadLinks(w) ==
    orgCall[w].at = "relinking" =>
        \A l \in hasStates : l[2] \in O!Kept(w) /\ l[2] \notin contested =>
            l \in orgCall[w].others \/ l[1] = orgCall[w].root
RootsInv == TypeInv /\ OneLink /\ \A w \in Worker : HasReadLinks(w)

LEMMA OtherCallWork ==
    ASSUME TypeInv, NEW w \in Worker, O!Work(w), ~ O!ReadLinks(w), ~ O!Attach(w)
    PROVE  /\ UNCHANGED <<hasStates, contested>>
           /\ \A v \in Worker : orgCall'[v].at = "relinking" => orgCall'[v] = orgCall[v]
<1>1. orgCall \in [Worker -> CallRecords]
  BY DEF TypeInv, OrgInv
<1>2. ASSUME NEW place, place # "relinking", O!Goes(w, place)
      PROVE  \A v \in Worker : orgCall'[v].at = "relinking" => orgCall'[v] = orgCall[v]
  BY <1>1, <1>2 DEF O!Goes, CallRecords
<1>3. ASSUME NEW s, O!Keeps(w, s)
      PROVE  \A v \in Worker : orgCall'[v].at = "relinking" => orgCall'[v] = orgCall[v]
  BY <1>1, <1>3 DEF O!Keeps, CallRecords
<1>4. ASSUME NEW s, NEW state, O!Told(w, s, state)
      PROVE  \A v \in Worker : orgCall'[v].at = "relinking" => orgCall'[v] = orgCall[v]
  BY <1>2, <1>3, <1>4 DEF O!Told
<1>5. ASSUME NEW r, O!Returns(w, r)
      PROVE  \A v \in Worker : orgCall'[v].at = "relinking" => orgCall'[v] = orgCall[v]
  BY <1>1, <1>5 DEF O!Returns, CallRecords
<1>6. CASE O!FindByIdentifiers(w)
  BY <1>1, <1>2, <1>6 DEF O!FindByIdentifiers, CallRecords
<1>7. CASE O!FindByName(w)
  BY <1>1, <1>2, <1>3, <1>7 DEF O!FindByName, CallRecords
<1>8. CASE O!LeaveOut(w) \/ O!ReturnState(w) \/ O!FindRoots(w)
  BY <1>1, <1>8 DEF O!LeaveOut, O!ReturnState, O!FindRoots, CallRecords
<1>9. CASE O!FindHomonymsRoot(w)
  BY <1>1, <1>2, <1>9 DEF O!FindHomonymsRoot, CallRecords
<1>10. CASE O!Create(w) \/ O!Update(w)
  BY <1>2, <1>4, <1>10 DEF O!Create, O!Update
<1>11. CASE O!ReadRoot(w) \/ O!CreateRoot(w)
  BY <1>1, <1>11 DEF O!ReadRoot, O!CreateRoot, CallRecords
<1>12. CASE O!UpdateRoot(w) \/ O!GetRoot(w)
  BY <1>2, <1>5, <1>12 DEF O!UpdateRoot, O!GetRoot
<1>13. QED
  BY <1>6, <1>7, <1>8, <1>9, <1>10, <1>11, <1>12 DEF O!Work

LEMMA OtherStep ==
    ASSUME TypeInv, [Next]_vars,
           \A w \in Worker : ~ O!ReadLinks(w) /\ ~ O!Attach(w)
    PROVE  /\ UNCHANGED <<hasStates, contested>>
           /\ \A v \in Worker : orgCall'[v].at = "relinking" => orgCall'[v] = orgCall[v]
<1>1. orgCall \in [Worker -> CallRecords] /\ O!NoCall.at = "none"
  BY DEF TypeInv, OrgInv, O!NoCall
<1>2. CASE UNCHANGED vars
  BY <1>2 DEF vars, orgVars
<1>3. ASSUME NEW w \in Worker,
             \/ Take(w) \/ Start(w) \/ Relate(w) \/ Match(w) \/ Search(w)
             \/ CreateExternal(w) \/ Merge(w) \/ Link(w) \/ Contribute(w) \/ Finish(w)
      PROVE  UNCHANGED orgVars
  BY <1>3 DEF Take, Start, Relate, Match, Search, CreateExternal, Merge, Link, Contribute, Finish
<1>4. ASSUME NEW w \in Worker, CallOrganization(w)
      PROVE  /\ UNCHANGED <<hasStates, contested>>
             /\ \A v \in Worker : orgCall'[v].at = "relinking" => orgCall'[v] = orgCall[v]
  <2>1. PICK o, call : call \in O!Calls(O!Cluster(o)) /\ orgCall' = [orgCall EXCEPT ![w] = call]
    BY <1>4 DEF CallOrganization
  <2>2. call.at = "finding"
    BY <2>1 DEF O!Calls, O!NoCall
  <2>3. QED
    BY <1>1, <1>4, <2>1, <2>2 DEF CallOrganization
<1>5. ASSUME NEW w \in Worker, Affiliate(w) \/ GiveUp(w) \/ FailCall(w) \/ Fail(w)
      PROVE  /\ UNCHANGED <<hasStates, contested>>
             /\ \A v \in Worker : orgCall'[v].at = "relinking" => orgCall'[v] = orgCall[v]
  BY <1>1, <1>5 DEF Affiliate, GiveUp, FailCall, Fail, Returned
<1>6. ASSUME NEW w \in Worker, TreatOrganization(w)
      PROVE  /\ UNCHANGED <<hasStates, contested>>
             /\ \A v \in Worker : orgCall'[v].at = "relinking" => orgCall'[v] = orgCall[v]
  BY <1>6, OtherCallWork DEF TreatOrganization
<1>7. QED
  BY <1>2, <1>3, <1>4, <1>5, <1>6 DEF Next, Work, orgVars

(***************************************************************************)
(* The transaction reads the links: what it does not read is of its root.  *)
(***************************************************************************)
LEMMA LinksRead ==
    ASSUME RootsInv, NEW w \in Worker, O!ReadLinks(w)
    PROVE  OneLink' /\ \A v \in Worker : HasReadLinks(v)'
<1>1. orgCall \in [Worker -> CallRecords]
  BY DEF RootsInv, TypeInv, OrgInv
<1>2. PICK r \in O!Elected(w) :
        orgCall' = [orgCall EXCEPT
            ![w].at = "relinking", ![w].root = r,
            ![w].others = {l \in hasStates : l[2] \in O!Kept(w) /\ l[1] # r}]
  BY DEF O!ReadLinks
<1>3. UNCHANGED <<hasStates, contested>>
  BY DEF O!ReadLinks
<1>4. OneLink'
  BY <1>3 DEF RootsInv, OneLink
<1>5. ASSUME NEW v \in Worker, v # w
      PROVE  HasReadLinks(v)'
  BY <1>1, <1>2, <1>3, <1>5 DEF RootsInv, HasReadLinks, O!Kept
<1>6. HasReadLinks(w)'
  <2>1. PICK others : others = {l \in hasStates : l[2] \in O!Kept(w) /\ l[1] # r}
    OBVIOUS
  <2>2. /\ orgCall'[w].others = others /\ orgCall'[w].root = r
        /\ orgCall'[w].kept = orgCall[w].kept
    BY <1>1, <1>2, <2>1 DEF CallRecords
  <2>3. O!Kept(w)' = O!Kept(w)
    BY <2>2 DEF O!Kept
  <2>4. QED
    BY <1>3, <2>1, <2>2, <2>3 DEF HasReadLinks
<1>7. QED
  BY <1>4, <1>5, <1>6

(***************************************************************************)
(* The states are attached: those that another transaction that has read   *)
(* its links attaches too are contested.                                   *)
(***************************************************************************)
LEMMA LinksWritten ==
    ASSUME RootsInv, NEW w \in Worker, O!Attach(w)
    PROVE  OneLink' /\ \A v \in Worker : HasReadLinks(v)'
<1>1. orgCall \in [Worker -> CallRecords]
      /\ hasStates \subseteq (DOMAIN roots) \X (DOMAIN states)
  BY DEF RootsInv, TypeInv, OrgInv, OrgGraph
<1>2. PICK r, kept, others : /\ r = orgCall[w].root /\ kept = O!Kept(w)
                             /\ others = orgCall[w].others
  OBVIOUS
<1>3. /\ hasStates' = (hasStates \ others) \cup ({r} \X kept)
      /\ contested' = contested \cup O!AlsoAttached(w)
      /\ orgCall[w].at = "relinking"
  BY <1>2 DEF O!Attach, O!LinksAfterAttach
<1>4. ASSUME NEW l \in hasStates', l[2] \notin contested', l[2] \in kept
      PROVE  l[1] = r
  <2>1. CASE l \in {r} \X kept
    BY <2>1
  <2>2. CASE l \in hasStates /\ l \notin others
    BY <1>2, <1>3, <1>4, <2>2 DEF RootsInv, HasReadLinks
  <2>3. QED
    BY <1>3, <2>1, <2>2
<1>5. ASSUME NEW l \in hasStates', NEW m \in hasStates', l[2] = m[2], l[2] \notin contested'
      PROVE  l = m
  <2>1. l[2] \notin contested
    BY <1>3, <1>5
  <2>2. CASE l[2] \in kept
    <3>1. l[1] = r /\ m[1] = r
      BY <1>4, <1>5, <2>2
    <3>2. l = <<l[1], l[2]>> /\ m = <<m[1], m[2]>>
      BY <1>1, <1>3
    <3>3. QED
      BY <1>5, <3>1, <3>2
  <2>3. CASE l[2] \notin kept
    <3>1. l \in hasStates /\ m \in hasStates
      BY <1>3, <1>5, <2>3
    <3>2. QED
      BY <1>5, <2>1, <3>1 DEF RootsInv, OneLink
  <2>4. QED
    BY <2>2, <2>3
<1>6. ASSUME NEW v \in Worker
      PROVE  HasReadLinks(v)'
  <2>1. CASE v = w
    <3>1. orgCall'[w].at # "relinking"
      BY <1>1 DEF O!Attach, CallRecords
    <3>2. QED
      BY <2>1, <3>1 DEF HasReadLinks
  <2>2. CASE v # w
    <3>1. orgCall'[v] = orgCall[v] /\ O!Kept(v)' = O!Kept(v)
      BY <1>1, <2>2 DEF O!Attach, O!Kept
    <3>2. ASSUME orgCall[v].at = "relinking", NEW l \in hasStates', l[2] \in O!Kept(v),
                 l[2] \notin contested'
          PROVE  l \in orgCall[v].others \/ l[1] = orgCall[v].root
      <4>1. l[2] \notin kept
        BY <1>2, <1>3, <2>2, <3>2 DEF O!AlsoAttached
      <4>2. l \in hasStates /\ l[2] \notin contested
        BY <1>3, <3>2, <4>1
      <4>3. QED
        BY <3>2, <4>2 DEF RootsInv, HasReadLinks
    <3>3. QED
      BY <3>1, <3>2 DEF HasReadLinks
  <2>3. QED
    BY <2>1, <2>2
<1>7. QED
  BY <1>5, <1>6 DEF OneLink

LEMMA RootsStep ==
    ASSUME RootsInv, TypeInv', [Next]_vars
    PROVE  RootsInv'
<1>1. CASE \E w \in Worker : O!ReadLinks(w)
  BY <1>1, LinksRead DEF RootsInv
<1>2. CASE \E w \in Worker : O!Attach(w)
  BY <1>2, LinksWritten DEF RootsInv
<1>3. CASE \A w \in Worker : ~ O!ReadLinks(w) /\ ~ O!Attach(w)
  <2>1. /\ UNCHANGED <<hasStates, contested>>
        /\ \A v \in Worker : orgCall'[v].at = "relinking" => orgCall'[v] = orgCall[v]
    BY <1>3, OtherStep DEF RootsInv
  <2>2. OneLink'
    BY <2>1 DEF RootsInv, OneLink
  <2>3. \A v \in Worker : HasReadLinks(v)'
    BY <2>1 DEF RootsInv, HasReadLinks, O!Kept
  <2>4. QED
    BY <2>2, <2>3 DEF RootsInv
<1>4. QED
  BY <1>1, <1>2, <1>3

(***************************************************************************)
(* A state that no two overlapping transactions attached has one root at   *)
(* most, for any number of workers that look for roots and attach states   *)
(* at the same time, each in several transactions.                         *)
(***************************************************************************)
THEOREM RootsUnique == Spec => []OneRootPerState
<1>1. RootsInv => OneRootPerState
  <2> SUFFICES ASSUME RootsInv, NEW s \in DOMAIN states, s \notin contested
               PROVE  O!Cardinality(O!RootsOf({s})) <= 1
    BY DEF OneRootPerState, O!OneRootPerState, O!State
  <2>1. \A l, m \in hasStates : l[2] = s /\ m[2] = s => l = m
    BY DEF RootsInv, OneLink
  <2>2. PICK R : R = O!RootsOf({s})
    OBVIOUS
  <2>3. \A q, r \in R : q = r
    <3>1. \A r \in R : <<r, s>> \in hasStates
      BY <2>2 DEF O!RootsOf
    <3>2. QED
      BY <2>1, <3>1
  <2>4. CASE R = {}
    BY <2>2, <2>4, SameSizes, FS_EmptySet
  <2>5. ASSUME NEW r \in R
        PROVE  O!Cardinality(R) <= 1
    <3>1. R = {r}
      BY <2>3
    <3>2. Cardinality(R) = 1 /\ O!Cardinality(R) = Cardinality(R)
      BY <3>1, SameSizes, FS_Singleton
    <3>3. QED
      BY <3>2
  <2>6. QED
    BY <2>2, <2>4, <2>5
<1>2. Init /\ TypeInv => RootsInv
  <2>1. Init => hasStates = {}
    BY DEF Init, O!Init
  <2>2. QED
    BY <2>1 DEF RootsInv, OneLink, HasReadLinks
<1>3. RootsInv /\ TypeInv' /\ [Next]_vars => RootsInv'
  BY RootsStep
<1>4. QED
  BY <1>1, <1>2, <1>3, TypeInvariant, PTL DEF Spec

---------------------------------------------------------------------------
(***************************************************************************)
(* Equivalent source people: what get_equivalents reaches is an            *)
(* equivalence among those that are stored, and only grows.                *)
(***************************************************************************)
Same(p, q) == q \in Equivalents(p)
Closed(S) ==
    S \in SUBSET SourcePerson /\ \A q \in Stored : (\E r \in S : Alike(q, r)) => q \in S

LEMMA SameIs ==
    ASSUME NEW p, NEW q
    PROVE  Same(p, q) <=> /\ q \in Stored \cup {p}
                          /\ \A S : Closed(S) /\ p \in S => q \in S
<1>1. PICK closed : closed = {S \in SUBSET SourcePerson :
                      p \in S /\ \A t \in Stored : (\E r \in S : Alike(t, r)) => t \in S}
  OBVIOUS
<1>2. Equivalents(p) = {t \in Stored \cup {p} : \A S \in closed : t \in S}
  BY <1>1 DEF Equivalents
<1>3. \A S : S \in closed <=> Closed(S) /\ p \in S
  BY <1>1 DEF Closed
<1>4. QED
  BY <1>2, <1>3 DEF Same

LEMMA SameReflexive == \A p : Same(p, p)
BY SameIs

LEMMA SameTransitive ==
    ASSUME NEW p, NEW q \in Stored, NEW r \in Stored, Same(p, q), Same(q, r)
    PROVE  Same(p, r)
BY SameIs

LEMMA SameSymmetric ==
    ASSUME RecordsOK, NEW p \in Stored, NEW q \in Stored, Same(p, q)
    PROVE  Same(q, p)
<1>1. SUFFICES ASSUME NEW S, Closed(S), q \in S, p \notin S
               PROVE  FALSE
  BY SameIs
<1>2. PICK T : T = Stored \ S
  OBVIOUS
<1>3. Closed(T)
  <2>1. T \in SUBSET SourcePerson
    BY <1>2, StoredAre
  <2>2. ASSUME NEW t \in Stored, NEW r \in T, Alike(t, r)
        PROVE  t \in T
    <3>1. Alike(r, t)
      BY <2>2 DEF Alike
    <3>2. t \in S => r \in S
      BY <1>1, <1>2, <3>1 DEF Closed
    <3>3. QED
      BY <1>2, <3>2
  <2>3. QED
    BY <2>1, <2>2 DEF Closed
<1>4. q \in T
  BY <1>1, <1>2, <1>3, SameIs
<1>5. QED
  BY <1>1, <1>2, <1>4

Larger == Stored \subseteq Stored' /\ equivalences \subseteq equivalences'
LEMMA SameGrows ==
    ASSUME Larger, NEW p, NEW q, Same(p, q)
    PROVE  Same(p, q)'
<1>1. \A S : Closed(S)' => Closed(S)
  BY DEF Closed, Alike, Larger
<1>2. Same(p, q)' <=> /\ q \in Stored' \cup {p}
                      /\ \A S : Closed(S)' /\ p \in S => q \in S
  <2>1. PICK closed : closed = {S \in SUBSET SourcePerson :
                        p \in S /\ \A t \in Stored' : (\E r \in S : Alike(t, r)') => t \in S}
    OBVIOUS
  <2>2. Equivalents(p)' = {t \in Stored' \cup {p} : \A S \in closed : t \in S}
    BY <2>1 DEF Equivalents, Alike
  <2>3. \A S : S \in closed <=> Closed(S)' /\ p \in S
    BY <2>1 DEF Closed, Alike
  <2>4. QED
    BY <2>2, <2>3 DEF Same
<1>3. QED
  BY <1>1, <1>2, SameIs DEF Larger

LEMMA SameStays ==
    ASSUME UNCHANGED <<sourceRecords, equivalences>>
    PROVE  \A p, q : Same(p, q)' <=> Same(p, q)
<1>1. Stored' = Stored /\ equivalences' = equivalences
  BY DEF Stored
<1>2. QED
  BY <1>1 DEF Same, Equivalents, Alike

---------------------------------------------------------------------------
(* People brought back. *)

Grouping == {"searching", "creating", "merging", "linking"}
OfCluster(p, cluster) == p \in Stored /\ \A c \in cluster : Same(p, c)
Apart(p, S) == \A q \in S : ~ Same(p, q)
LinkedPeople(j) == {j.linked[n].person : n \in DOMAIN j.linked}

(***************************************************************************)
(* What holds with other workers too, since equivalences only grow: the    *)
(* source people recorded by one person are equivalent, to the one it has  *)
(* the uid of as well; and so are the people a worker found for a cluster. *)
(***************************************************************************)
RecordersOK == \A l \in recordedBy : l[1] \in Person \/ (l[1] \in Stored /\ Same(l[1], l[2]))
HandOf(place, j) ==
    /\ place \in {"idle", "starting", "relating"} => j.linked = <<>>
    /\ place \in Grouping \cup {"matching"} => j.left \subseteq ContributorsIn(j.records)
    /\ place \in Grouping => j.cluster # {} /\ \A c \in j.cluster : OfCluster(c, j.cluster)
    /\ place = "searching" => j.search \subseteq j.cluster
    /\ place \in {"searching", "merging"} => \A p \in j.known : OfCluster(p, j.cluster)
    /\ place \in {"merging", "linking"} => j.target \in Person \/ OfCluster(j.target, j.cluster)

(***************************************************************************)
(* What holds of a worker that met none: the people it goes on with are    *)
(* there, and those it matched are not equivalent to any source person of  *)
(* the clusters still to match, so none of them records one.               *)
(***************************************************************************)
Living(place, j) ==
    /\ LinkedPeople(j) \subseteq People
    /\ place \in {"searching", "merging"} => j.known \subseteq externals
    /\ place \in {"merging", "linking"} => j.target \in People
Distinct(place, j) ==
    /\ place \in Grouping \cup {"matching"} =>
        \A p \in LinkedPeople(j) \ Person : p \in Stored /\ Apart(p, j.left)
    /\ place \in Grouping =>
        /\ \A p \in LinkedPeople(j) \ Person : Apart(p, j.cluster)
        /\ \A c \in j.cluster : Apart(c, j.left)

GhostInv ==
    /\ TypeInv /\ RecordersOK /\ GhostsComeFromRaces
    /\ \A w \in Worker : HandOf(pc[w], job[w])
    /\ \A w \in Worker \ accompanied : Living(pc[w], job[w]) /\ Distinct(pc[w], job[w])
    /\ \A v, w \in Worker : v # w /\ pc[v] # "idle" /\ pc[w] # "idle" => w \in accompanied

LEMMA HandGrows ==
    ASSUME Larger, NEW place, NEW j, HandOf(place, j)
    PROVE  HandOf(place, j)'
<1>1. ASSUME NEW p, NEW cluster, OfCluster(p, cluster)
      PROVE  OfCluster(p, cluster)'
  <2>1. \A c \in cluster : Same(p, c)'
    BY <1>1, SameGrows DEF OfCluster
  <2>2. QED
    BY <1>1, <2>1 DEF OfCluster, Larger
<1>2. QED
  BY <1>1 DEF HandOf, ContributorsIn, ContributionsIn

LEMMA RecordersGrow ==
    ASSUME Larger, RecordersOK
    PROVE  \A l \in recordedBy : l[1] \in Person \/ (l[1] \in Stored' /\ Same(l[1], l[2])')
BY SameGrows DEF RecordersOK, Larger

LEMMA NobodyLinked ==
    ASSUME NEW place, NEW j, j.linked = <<>>
    PROVE  /\ LinkedPeople(j) = {} /\ Distinct("idle", j)' /\ Living("idle", j)'
           /\ place \notin Grouping \cup {"matching"} => Living(place, j)' /\ Distinct(place, j)'
<1>1. LinkedPeople(j) = {}
  BY DEF LinkedPeople
<1>2. QED
  BY <1>1 DEF Living, Distinct, Grouping, LinkedPeople

LEMMA DistinctStays ==
    ASSUME UNCHANGED <<sourceRecords, equivalences>>, NEW place, NEW j, Distinct(place, j)
    PROVE  Distinct(place, j)'
<1>1. Stored' = Stored
  BY DEF Stored
<1>2. \A p, S : Apart(p, S)' <=> Apart(p, S)
  BY SameStays DEF Apart
<1>3. QED
  BY <1>1, <1>2 DEF Distinct, LinkedPeople

LEMMA GhostWorker ==
    ASSUME GhostInv, NEW w \in Worker
    PROVE  /\ TypeInv /\ RecordersOK /\ HandOf(pc[w], job[w]) /\ job[w] \in JobRecords
           /\ JobOf(pc[w], job[w]) /\ PeopleOK /\ RecordsOK
           /\ w \notin accompanied => Living(pc[w], job[w]) /\ Distinct(pc[w], job[w])
BY WorkerOf DEF GhostInv

\* A worker that met none is the only one at work: the others hold nothing.
LEMMA GhostStep ==
    ASSUME GhostInv, TypeInv', RecordersOK', GhostsComeFromRaces', Larger,
           accompanied' = accompanied, NEW w \in Worker, pc[w] # "idle",
           NEW place, NEW j, pc' = [pc EXCEPT ![w] = place], job' = [job EXCEPT ![w] = j],
           HandOf(place, j)',
           w \notin accompanied => Living(place, j)' /\ Distinct(place, j)'
    PROVE  GhostInv'
<1>1. pc \in [Worker -> PC] /\ job \in [Worker -> JobRecords] /\ pc'[w] = place /\ job'[w] = j
  BY DEF GhostInv, TypeInv
<1>2. ASSUME NEW v \in Worker, v # w
      PROVE  /\ HandOf(pc[v], job[v])'
             /\ v \notin accompanied => Living(pc[v], job[v])' /\ Distinct(pc[v], job[v])'
  <2>1. PICK p, k : p = pc[v] /\ k = job[v] /\ HandOf(p, k)
    BY DEF GhostInv
  <2>2. pc'[v] = p /\ job'[v] = k
    BY <1>1, <1>2, <2>1
  <2>3. HandOf(p, k)'
    BY <2>1, HandGrows
  <2>4. v \notin accompanied => p = "idle" /\ k.linked = <<>>
    BY <1>2, <2>1 DEF GhostInv, HandOf
  <2>5. v \notin accompanied => Living(p, k)' /\ Distinct(p, k)'
    BY <2>4, NobodyLinked
  <2>6. QED
    BY <2>2, <2>3, <2>5
       DEF HandOf, Living, Distinct, LinkedPeople, OfCluster, Apart, Grouping, Same
<1>3. ASSUME NEW v \in Worker, v = w
      PROVE  /\ HandOf(pc[v], job[v])'
             /\ v \notin accompanied => Living(pc[v], job[v])' /\ Distinct(pc[v], job[v])'
  BY <1>1, <1>3 DEF HandOf, Living, Distinct, LinkedPeople, OfCluster, Apart, Grouping, Same
<1>4. \A u, v \in Worker : u # v /\ pc'[u] # "idle" /\ pc'[v] # "idle" => v \in accompanied
  BY <1>1 DEF GhostInv
<1>5. QED
  BY <1>2, <1>3, <1>4 DEF GhostInv

\* Steps of a worker that is not matching, and changes no people.
LEMMA PlainStep ==
    ASSUME GhostInv, TypeInv',
           UNCHANGED <<sourceRecords, equivalences, externals, ghosts, recordedBy, accompanied, raced>>,
           NEW w \in Worker, pc[w] # "idle", NEW place, NEW j,
           pc' = [pc EXCEPT ![w] = place], job' = [job EXCEPT ![w] = j],
           place \notin Grouping \cup {"matching"},
           \/ j.linked = <<>>
           \/ j.linked = job[w].linked /\ place \notin {"idle", "starting", "relating"}
    PROVE  GhostInv'
<1>1. Larger
  BY DEF Larger, Stored
<1>2. RecordersOK'
  BY <1>1, RecordersGrow DEF GhostInv, RecordersOK
<1>3. GhostsComeFromRaces'
  BY DEF GhostInv, GhostsComeFromRaces
<1>4. HandOf(place, j)'
  BY DEF HandOf, Grouping
<1>5. w \notin accompanied => LinkedPeople(j) \subseteq People
  BY GhostWorker, NobodyLinked DEF Living, LinkedPeople
<1>6. w \notin accompanied => Living(place, j)' /\ Distinct(place, j)'
  BY <1>5 DEF Living, Distinct, Grouping, LinkedPeople, People
<1>7. QED
  BY <1>1, <1>2, <1>3, <1>4, <1>6, GhostStep

LEMMA GhostTake ==
    ASSUME GhostInv, TypeInv', NEW w \in Worker, Take(w)
    PROVE  GhostInv'
<1>1. PICK e \in SourceRecord \X Document :
        LET todo == {e[2]} \cup {d \in Document : e[1] \in sourceRecords[d]}
        IN
        /\ sourceRecords' = [d \in Document |->
                IF d = e[2] THEN sourceRecords[d] \cup {e[1]} ELSE sourceRecords[d] \ {e[1]}]
        /\ job' = [job EXCEPT ![w] = Job(e, todo)]
  BY DEF Take
<1>2. PICK todo : todo = {e[2]} \cup {d \in Document : e[1] \in sourceRecords[d]}
  OBVIOUS
<1>3. PICK j : j = Job(e, todo)
  OBVIOUS
<1>4. j.linked = <<>>
  BY <1>3 DEF Job
<1>5. /\ job' = [job EXCEPT ![w] = j] /\ pc' = [pc EXCEPT ![w] = "starting"] /\ pc[w] = "idle"
      /\ UNCHANGED <<equivalences, externals, ghosts, recordedBy, raced>>
      /\ accompanied' = IF Others(w) = {} THEN {} ELSE accompanied \cup Others(w) \cup {w}
  BY <1>1, <1>2, <1>3 DEF Take, Goes, personVars
<1>6. Larger
  <2>1. Stored \subseteq Stored'
    BY TypeTakeGrows DEF GhostInv
  <2>2. QED
    BY <1>5, <2>1 DEF Larger
<1>7. RecordersOK'
  BY <1>5, <1>6, RecordersGrow DEF GhostInv, RecordersOK
<1>8. GhostsComeFromRaces'
  BY <1>5 DEF GhostInv, GhostsComeFromRaces
<1>9. pc \in [Worker -> PC] /\ job \in [Worker -> JobRecords] /\ pc'[w] = "starting" /\ job'[w] = j
  BY <1>5 DEF GhostInv, TypeInv
<1>10. HandOf("starting", j)' /\ Living("starting", j)' /\ Distinct("starting", j)'
  BY <1>4, NobodyLinked DEF HandOf, Grouping
<1>11. ASSUME NEW v \in Worker, v # w
       PROVE  /\ HandOf(pc[v], job[v])'
              /\ v \notin accompanied' => Living(pc[v], job[v])' /\ Distinct(pc[v], job[v])'
  <2>1. PICK p, k : p = pc[v] /\ k = job[v] /\ HandOf(p, k)
    BY DEF GhostInv
  <2>2. pc'[v] = p /\ job'[v] = k
    BY <1>5, <1>9, <1>11, <2>1
  <2>3. HandOf(p, k)'
    BY <1>6, <2>1, HandGrows
  <2>4. v \notin accompanied' => p = "idle" /\ k.linked = <<>>
    BY <1>5, <1>11, <2>1 DEF Others, HandOf
  <2>5. v \notin accompanied' => Living(p, k)' /\ Distinct(p, k)'
    BY <2>4, NobodyLinked
  <2>6. QED
    BY <2>2, <2>3, <2>5
       DEF HandOf, Living, Distinct, LinkedPeople, OfCluster, Apart, Grouping, Same
<1>12. ASSUME NEW v \in Worker, v = w
       PROVE  HandOf(pc[v], job[v])' /\ Living(pc[v], job[v])' /\ Distinct(pc[v], job[v])'
  BY <1>9, <1>10, <1>12 DEF HandOf, Living, Distinct, LinkedPeople, OfCluster, Apart, Grouping, Same
<1>13. \A u, v \in Worker : u # v /\ pc'[u] # "idle" /\ pc'[v] # "idle" => v \in accompanied'
  <2>1. ASSUME NEW u \in Worker, NEW v \in Worker, u # v, pc'[u] # "idle", pc'[v] # "idle"
        PROVE  v \in accompanied'
    <3>1. CASE u = w
      BY <1>5, <1>9, <2>1, <3>1 DEF Others
    <3>2. CASE v = w
      BY <1>5, <1>9, <2>1, <3>2 DEF Others
    <3>3. CASE u # w /\ v # w
      <4>1. pc[u] # "idle" /\ pc[v] # "idle"
        BY <1>5, <1>9, <2>1, <3>3
      <4>2. v \in Others(w)
        BY <3>3, <4>1 DEF Others
      <4>3. QED
        BY <1>5, <4>2
    <3>4. QED
      BY <3>1, <3>2, <3>3
  <2>2. QED
    BY <2>1
<1>14. QED
  BY <1>7, <1>8, <1>11, <1>12, <1>13 DEF GhostInv

LEMMA GhostStart ==
    ASSUME GhostInv, TypeInv', NEW w \in Worker, Start(w)
    PROVE  GhostInv'
<1>1. PICK d : job' = [job EXCEPT ![w] = [Job(job[w].event, job[w].todo \ {d}) EXCEPT
                                  !.document = d, !.records = sourceRecords[d]]]
  BY DEF Start
<1>2. PICK j : j = [Job(job[w].event, job[w].todo \ {d}) EXCEPT
                       !.document = d, !.records = sourceRecords[d]]
  OBVIOUS
<1>3. j.linked = <<>>
  BY <1>2 DEF Job
<1>4. /\ job' = [job EXCEPT ![w] = j] /\ pc' = [pc EXCEPT ![w] = "relating"] /\ pc[w] # "idle"
      /\ UNCHANGED <<sourceRecords, equivalences, externals, ghosts, recordedBy, accompanied, raced>>
  BY <1>1, <1>2 DEF Start, Goes, personVars
<1>5. QED
  BY <1>3, <1>4, PlainStep DEF Grouping

LEMMA GhostRelate ==
    ASSUME GhostInv, TypeInv', NEW w \in Worker, Relate(w)
    PROVE  GhostInv'
<1>1. PICK k, people, place, j :
        /\ k = job[w] /\ people = ContributorsIn(k.records)
        /\ place = IF people = {} THEN "contributing" ELSE "matching"
        /\ j = [k EXCEPT !.left = people]
  OBVIOUS
<1>2. /\ job' = [job EXCEPT ![w] = j] /\ pc' = [pc EXCEPT ![w] = place] /\ pc[w] = "relating"
      /\ UNCHANGED <<sourceRecords, externals, ghosts, recordedBy, accompanied, raced>>
      /\ equivalences \subseteq equivalences'
  BY <1>1 DEF Relate, Goes, historyVars, EquivalencesWith
<1>3. Larger
  BY <1>2 DEF Larger, Stored
<1>4. RecordersOK'
  BY <1>2, <1>3, RecordersGrow DEF GhostInv, RecordersOK
<1>5. GhostsComeFromRaces'
  BY <1>2 DEF GhostInv, GhostsComeFromRaces
<1>6. k \in JobRecords /\ k.linked = <<>>
  BY <1>1, <1>2, GhostWorker DEF HandOf
<1>7. j.linked = <<>> /\ j.left = ContributorsIn(j.records)
  BY <1>1, <1>6 DEF JobRecords
<1>8. HandOf(place, j)'
  BY <1>1, <1>7 DEF HandOf, Grouping, ContributorsIn, ContributionsIn
<1>9. Living(place, j)' /\ Distinct(place, j)'
  BY <1>1, <1>7, NobodyLinked DEF Living, Distinct, Grouping, LinkedPeople
<1>10. QED
  BY <1>2, <1>3, <1>4, <1>5, <1>8, <1>9, GhostStep

\* Steps that leave the equivalences and the people as they are.
LEMMA MatchingStep ==
    ASSUME GhostInv, TypeInv',
           UNCHANGED <<sourceRecords, equivalences, externals, ghosts, recordedBy, accompanied, raced>>,
           NEW w \in Worker, pc[w] # "idle", NEW place, NEW j,
           pc' = [pc EXCEPT ![w] = place], job' = [job EXCEPT ![w] = j], HandOf(place, j),
           w \notin accompanied => Living(place, j) /\ Distinct(place, j)
    PROVE  GhostInv'
<1>1. Larger
  BY DEF Larger, Stored
<1>2. RecordersOK' /\ GhostsComeFromRaces'
  BY <1>1, RecordersGrow DEF GhostInv, RecordersOK, GhostsComeFromRaces
<1>3. HandOf(place, j)'
  BY <1>1, HandGrows
<1>4. w \notin accompanied => Living(place, j)' /\ Distinct(place, j)'
  BY DistinctStays DEF Living, LinkedPeople, People
<1>5. QED
  BY <1>1, <1>2, <1>3, <1>4, GhostStep

LEMMA GhostMatch ==
    ASSUME GhostInv, TypeInv', NEW w \in Worker, Match(w)
    PROVE  GhostInv'
<1>1. PICK p \in job[w].left :
        LET cluster == Equivalents(p) \cap ContributorsIn(job[w].records)
            identified == ByIdentifiers(cluster)
            matches == IF identified # {} THEN identified
                       ELSE ByName(cluster, job[w].records)
            next == [job[w] EXCEPT !.left = job[w].left \ Equivalents(p), !.cluster = cluster]
        IN
        \/ \E q \in matches :
            job' = [job EXCEPT ![w] = [next EXCEPT !.target = q]] /\ Goes(w, "linking")
        \/ /\ matches = {}
           /\ job' = [job EXCEPT ![w] = [next EXCEPT !.search = cluster, !.known = {}]]
           /\ Goes(w, "searching")
  BY DEF Match
<1>2. PICK k, cluster, matches, left :
        /\ k = job[w] /\ cluster = Equivalents(p) \cap ContributorsIn(k.records)
        /\ left = k.left \ Equivalents(p)
        /\ matches = IF ByIdentifiers(cluster) # {} THEN ByIdentifiers(cluster)
                     ELSE ByName(cluster, k.records)
  OBVIOUS
<1>3. PICK next : next = [k EXCEPT !.left = left, !.cluster = cluster]
  OBVIOUS
<1>4. /\ k \in JobRecords /\ JobOf("matching", k) /\ HandOf("matching", k) /\ pc[w] = "matching"
      /\ w \notin accompanied => Living("matching", k) /\ Distinct("matching", k)
      /\ UNCHANGED <<sourceRecords, equivalences, externals, ghosts, recordedBy, accompanied, raced>>
  BY <1>2, GhostWorker DEF Match, personVars, historyVars
<1>5. RecordsOK
  BY GhostWorker
<1>6. ContributorsIn(k.records) \subseteq Stored /\ p \in ContributorsIn(k.records) /\ p \in Stored
  BY <1>2, <1>4 DEF JobOf, HandOf
<1>7. p \in cluster /\ cluster \subseteq Stored /\ left \subseteq ContributorsIn(k.records)
      /\ left \subseteq k.left /\ left \subseteq Stored
  BY <1>2, <1>4, <1>6, SameReflexive DEF Same, HandOf
<1>8. \A c \in cluster : Same(p, c) /\ Same(c, p)
  BY <1>2, <1>6, <1>7, <1>5, SameSymmetric DEF Same
<1>9. \A c \in cluster : OfCluster(c, cluster)
  BY <1>6, <1>7, <1>8, SameTransitive DEF OfCluster
<1>10. \A c \in cluster : Apart(c, left)
  <2>1. ASSUME NEW c \in cluster, NEW x \in left, Same(c, x)
        PROVE  FALSE
    <3>1. Same(p, x)
      BY <1>6, <1>7, <1>8, <2>1, SameTransitive
    <3>2. QED
      BY <1>2, <3>1 DEF Same
  <2>2. QED
    BY <2>1 DEF Apart
<1>11. next \in JobRecords /\ next.cluster = cluster /\ next.left = left /\ next.linked = k.linked
       /\ next.records = k.records
  BY <1>2, <1>3, <1>4, <1>6, StoredAre, <1>5, <1>7 DEF JobRecords
<1>12. w \notin accompanied =>
         /\ LinkedPeople(next) \subseteq People
         /\ \A q \in LinkedPeople(next) \ Person : q \in Stored /\ Apart(q, left) /\ Apart(q, cluster)
  <2>1. SUFFICES ASSUME w \notin accompanied
                 PROVE  /\ LinkedPeople(next) \subseteq People
                        /\ \A q \in LinkedPeople(next) \ Person :
                              q \in Stored /\ Apart(q, left) /\ Apart(q, cluster)
    OBVIOUS
  <2>2. LinkedPeople(next) = LinkedPeople(k)
    BY <1>11 DEF LinkedPeople
  <2>3. ASSUME NEW q \in LinkedPeople(next) \ Person
        PROVE  q \in Stored /\ Apart(q, left) /\ Apart(q, cluster)
    <3>1. q \in Stored /\ Apart(q, k.left)
      BY <1>4, <2>1, <2>2, <2>3 DEF Distinct
    <3>2. Apart(q, left)
      BY <1>7, <3>1 DEF Apart
    <3>3. ASSUME NEW c \in cluster, Same(q, c)
          PROVE  FALSE
      <4>1. Same(q, p)
        BY <1>6, <1>7, <1>8, <3>3, SameTransitive
      <4>2. p \in k.left
        BY <1>1, <1>2
      <4>3. QED
        BY <3>1, <4>1, <4>2 DEF Apart
    <3>4. QED
      BY <3>1, <3>2, <3>3 DEF Apart
  <2>4. QED
    BY <1>4, <2>1, <2>2, <2>3 DEF Living
<1>13. ASSUME NEW q \in matches, job' = [job EXCEPT ![w] = [next EXCEPT !.target = q]],
              Goes(w, "linking")
       PROVE  GhostInv'
  <2>1. PICK j : j = [next EXCEPT !.target = q]
    OBVIOUS
  <2>2. q \in Person
    <3>1. OwnersIn(k.records) \subseteq Person
      BY <1>4, RecordsHold DEF JobRecords
    <3>2. QED
      BY <1>2, <3>1 DEF ByIdentifiers, ByName
  <2>3. /\ j.cluster = cluster /\ j.left = left /\ j.linked = next.linked /\ j.target = q
        /\ j.records = k.records /\ LinkedPeople(j) = LinkedPeople(next)
    BY <1>11, <2>1 DEF JobRecords, LinkedPeople
  <2>4. HandOf("linking", j)
    BY <1>7, <1>9, <2>2, <2>3 DEF HandOf, Grouping
  <2>5. w \notin accompanied => Living("linking", j) /\ Distinct("linking", j)
    BY <1>10, <1>12, <2>2, <2>3 DEF Living, Distinct, Grouping, People
  <2>6. QED
    BY <1>4, <1>13, <2>1, <2>4, <2>5, MatchingStep DEF Goes
<1>14. CASE /\ job' = [job EXCEPT ![w] = [next EXCEPT !.search = cluster, !.known = {}]]
            /\ Goes(w, "searching")
  <2>1. PICK j : j = [next EXCEPT !.search = cluster, !.known = {}]
    OBVIOUS
  <2>2. /\ j.cluster = cluster /\ j.left = left /\ j.linked = next.linked /\ j.search = cluster
        /\ j.known = {} /\ j.records = k.records /\ LinkedPeople(j) = LinkedPeople(next)
    BY <1>11, <2>1 DEF JobRecords, LinkedPeople
  <2>3. HandOf("searching", j)
    BY <1>7, <1>9, <2>2 DEF HandOf, Grouping
  <2>4. w \notin accompanied => Living("searching", j) /\ Distinct("searching", j)
    BY <1>10, <1>12, <2>2 DEF Living, Distinct, Grouping
  <2>5. QED
    BY <1>4, <1>14, <2>1, <2>3, <2>4, MatchingStep DEF Goes
<1>15. QED
  BY <1>1, <1>2, <1>3, <1>13, <1>14

LEMMA GhostSearched ==
    ASSUME GhostInv, TypeInv', NEW w \in Worker, pc[w] = "searching",
           NEW left \in SUBSET job[w].cluster, NEW known, Searched(w, left, known),
           \A p \in known : p \in SourcePerson /\ OfCluster(p, job[w].cluster),
           w \notin accompanied => known \subseteq externals,
           UNCHANGED <<sourceRecords, equivalences, externals, ghosts, recordedBy, accompanied, raced>>
    PROVE  GhostInv'
<1>1. PICK k, next : k = job[w] /\ next = [k EXCEPT !.search = left, !.known = known]
  OBVIOUS
<1>2. /\ k \in JobRecords /\ HandOf("searching", k) /\ pc \in [Worker -> PC]
      /\ w \notin accompanied => Living("searching", k) /\ Distinct("searching", k)
  BY <1>1, GhostWorker, WorkerOf
<1>3. /\ next.known = known /\ next.search = left /\ next.cluster = k.cluster
      /\ next.left = k.left /\ next.linked = k.linked /\ next.records = k.records
      /\ LinkedPeople(next) = LinkedPeople(k)
  BY <1>1, <1>2 DEF JobRecords, LinkedPeople
<1>4. ASSUME NEW place \in {"searching", "creating"}, job' = [job EXCEPT ![w] = next],
             pc' = [pc EXCEPT ![w] = place]
      PROVE  GhostInv'
  <2>1. HandOf(place, next)
    BY <1>1, <1>2, <1>3 DEF HandOf, Grouping
  <2>2. w \notin accompanied => Living(place, next) /\ Distinct(place, next)
    BY <1>2, <1>3 DEF Living, Distinct, Grouping
  <2>3. QED
    BY <1>4, <2>1, <2>2, MatchingStep
<1>5. CASE job' = [job EXCEPT ![w] = next] /\ UNCHANGED pc
  <2>1. pc' = [pc EXCEPT ![w] = "searching"]
    BY <1>2, <1>5
  <2>2. QED
    BY <1>4, <1>5, <2>1
<1>6. CASE job' = [job EXCEPT ![w] = next] /\ Goes(w, "creating")
  BY <1>4, <1>6 DEF Goes
<1>7. ASSUME NEW q \in known,
             job' = [job EXCEPT ![w] = [next EXCEPT !.target = q, !.known = @ \ {q}]],
             Goes(w, IF Cardinality(known) = 1 THEN "linking" ELSE "merging")
      PROVE  GhostInv'
  <2>1. PICK j, place : /\ j = [next EXCEPT !.target = q, !.known = @ \ {q}]
                        /\ place = IF Cardinality(known) = 1 THEN "linking" ELSE "merging"
    OBVIOUS
  <2>2. /\ j.known = known \ {q} /\ j.target = q /\ j.cluster = k.cluster
        /\ j.left = k.left /\ j.linked = k.linked /\ j.records = k.records
        /\ LinkedPeople(j) = LinkedPeople(k)
    <3>1. known \in SUBSET SourcePerson /\ left \in SUBSET SourcePerson
      BY <1>1, <1>2 DEF JobRecords
    <3>2. next \in JobRecords
      BY <1>1, <1>2, <3>1 DEF JobRecords
    <3>3. /\ j.known = next.known \ {q} /\ j.target = q /\ j.cluster = next.cluster
          /\ j.left = next.left /\ j.linked = next.linked /\ j.records = next.records
      BY <2>1, <3>2 DEF JobRecords
    <3>4. QED
      BY <1>3, <3>3 DEF LinkedPeople
  <2>3. HandOf(place, j)
    BY <1>1, <1>2, <2>1, <2>2 DEF HandOf, Grouping
  <2>4. w \notin accompanied => Living(place, j) /\ Distinct(place, j)
    <3>1. SUFFICES ASSUME w \notin accompanied
                   PROVE  Living(place, j) /\ Distinct(place, j)
      OBVIOUS
    <3>2. q \in externals /\ q \in People
      BY <3>1 DEF People
    <3>3. QED
      BY <1>2, <2>1, <2>2, <3>1, <3>2 DEF Living, Distinct, Grouping
  <2>5. QED
    BY <1>7, <2>1, <2>3, <2>4, MatchingStep DEF Goes
<1>8. QED
  BY <1>1, <1>5, <1>6, <1>7 DEF Searched

LEMMA GhostSearch ==
    ASSUME GhostInv, TypeInv', NEW w \in Worker, Search(w)
    PROVE  GhostInv'
<1>1. PICK p \in job[w].search :
        \/ Searched(w, job[w].search \ {p}, job[w].known)
        \/ \E q \in RecordersOf(p) \cap externals :
              Searched(w, job[w].search \ {p}, job[w].known \cup {q})
  BY DEF Search
<1>2. /\ pc[w] = "searching"
      /\ UNCHANGED <<sourceRecords, equivalences, externals, ghosts, recordedBy, accompanied, raced>>
  BY DEF Search, personVars, historyVars
<1>3. PICK k : /\ k = job[w] /\ k \in JobRecords /\ HandOf("searching", k)
               /\ w \notin accompanied => Living("searching", k)
  BY <1>2, GhostWorker
<1>4. /\ k.search \ {p} \in SUBSET k.cluster /\ p \in k.cluster
      /\ \A q \in k.known : q \in SourcePerson /\ OfCluster(q, k.cluster)
      /\ w \notin accompanied => k.known \subseteq externals
  BY <1>1, <1>3 DEF HandOf, JobRecords, Living
<1>5. CASE Searched(w, k.search \ {p}, k.known)
  BY <1>2, <1>3, <1>4, <1>5, GhostSearched
<1>6. ASSUME NEW q \in RecordersOf(p) \cap externals, Searched(w, k.search \ {p}, k.known \cup {q})
      PROVE  GhostInv'
  <2>1. <<q, p>> \in recordedBy /\ q \in SourcePerson
    <3>1. PICK l \in recordedBy : l[2] = p /\ l[1] = q
      BY DEF RecordersOf
    <3>2. l = <<l[1], l[2]>>
      BY GhostWorker DEF PeopleOK
    <3>3. QED
      BY <3>1, <3>2, <1>6, GhostWorker DEF PeopleOK
  <2>2. q \in Stored /\ Same(q, p)
    BY <2>1, GhostWorker, ContributionsAssumption DEF RecordersOK
  <2>3. OfCluster(q, k.cluster)
    <3>1. \A c \in k.cluster : c \in Stored /\ Same(p, c) /\ p \in Stored
      BY <1>3, <1>4 DEF HandOf, OfCluster, Grouping
    <3>2. QED
      BY <2>2, <3>1, SameTransitive DEF OfCluster
  <2>4. PICK known : known = k.known \cup {q}
    OBVIOUS
  <2>5. \A r \in known : r \in SourcePerson /\ OfCluster(r, k.cluster)
    BY <1>4, <2>1, <2>3, <2>4
  <2>6. w \notin accompanied => known \subseteq externals
    BY <1>4, <1>6, <2>4
  <2>7. QED
    BY <1>2, <1>3, <1>4, <1>6, <2>4, <2>5, <2>6, GhostSearched
<1>7. QED
  BY <1>1, <1>3, <1>5, <1>6

LEMMA GhostCreateExternal ==
    ASSUME GhostInv, TypeInv', NEW w \in Worker, CreateExternal(w)
    PROVE  GhostInv'
<1>1. PICK p \in job[w].cluster :
        /\ externals' = IF p \in ghosts THEN externals ELSE externals \cup {p}
        /\ job' = [job EXCEPT ![w].target = p]
  BY DEF CreateExternal
<1>2. PICK k, j : k = job[w] /\ j = [k EXCEPT !.target = p]
  OBVIOUS
<1>3. /\ pc[w] = "creating" /\ pc' = [pc EXCEPT ![w] = "linking"] /\ job' = [job EXCEPT ![w] = j]
      /\ UNCHANGED <<sourceRecords, equivalences, ghosts, recordedBy, accompanied, raced>>
  BY <1>1, <1>2 DEF CreateExternal, Goes, historyVars
<1>4. /\ k \in JobRecords /\ HandOf("creating", k)
      /\ w \notin accompanied => Living("creating", k) /\ Distinct("creating", k)
  BY <1>2, <1>3, GhostWorker
<1>5. Larger
  BY <1>3 DEF Larger, Stored
<1>6. RecordersOK' /\ GhostsComeFromRaces'
  BY <1>3, <1>5, RecordersGrow DEF GhostInv, RecordersOK, GhostsComeFromRaces
<1>7. /\ j.target = p /\ j.cluster = k.cluster /\ j.left = k.left /\ j.linked = k.linked
      /\ j.records = k.records /\ LinkedPeople(j) = LinkedPeople(k)
  BY <1>2, <1>4 DEF JobRecords, LinkedPeople
<1>8. HandOf("linking", j)
  BY <1>1, <1>2, <1>4, <1>7 DEF HandOf, Grouping
<1>9. HandOf("linking", j)'
  BY <1>5, <1>8, HandGrows
<1>10. w \notin accompanied => Living("linking", j)' /\ Distinct("linking", j)'
  <2>1. SUFFICES ASSUME w \notin accompanied
                 PROVE  Living("linking", j)' /\ Distinct("linking", j)'
    OBVIOUS
  <2>2. Distinct("linking", j)
    BY <1>4, <1>7, <2>1 DEF Distinct, Grouping
  <2>3. Distinct("linking", j)'
    BY <1>3, <2>2, DistinctStays
  <2>4. LinkedPeople(j) \subseteq People' /\ p \in People'
    BY <1>1, <1>3, <1>4, <1>7, <2>1 DEF Living, People
  <2>5. QED
    BY <1>7, <2>3, <2>4 DEF Living, LinkedPeople
<1>11. QED
  BY <1>3, <1>5, <1>6, <1>9, <1>10, GhostStep

LEMMA GhostContribute ==
    ASSUME GhostInv, TypeInv', NEW w \in Worker, Contribute(w)
    PROVE  GhostInv'
<1>1. PICK k, one, person, left :
        /\ k = job[w] /\ one = Head(k.linked) /\ person = one.person
        /\ left = AffiliationsIn(k.records, one.cluster)
  OBVIOUS
<1>2. PICK tail, current : tail = Tail(k.linked) /\ current = k.current \cup {person}
  OBVIOUS
<1>3. PICK j : j = [k EXCEPT !.linked = tail, !.target = person, !.cluster = one.cluster,
                             !.current = current, !.left = left]
  OBVIOUS
<1>4. /\ k \in JobRecords /\ pc[w] = "contributing" /\ k.linked # <<>>
      /\ w \notin accompanied => Living("contributing", k)
  BY <1>1, GhostWorker DEF Contribute
<1>5. /\ job' = [job EXCEPT ![w] = j] /\ pc' = [pc EXCEPT ![w] = "affiliating"]
      /\ UNCHANGED <<sourceRecords, equivalences, externals, recordedBy, accompanied>>
      /\ ghosts' = ghosts \cup ({person} \ People)
      /\ raced' = IF w \in accompanied THEN raced \cup ({person} \ People) ELSE raced
  <2>1. job' = [job EXCEPT ![w].linked = Tail(@), ![w].target = person,
                           ![w].cluster = one.cluster, ![w].current = @ \cup {person},
                           ![w].left = left]
    BY <1>1 DEF Contribute
  <2>2. job' = [job EXCEPT ![w] = j]
    BY <1>1, <1>2, <1>3, <1>4, <2>1 DEF JobRecords
  <2>3. QED
    BY <1>1, <2>2 DEF Contribute, Goes
<1>6. Larger
  BY <1>5 DEF Larger, Stored
<1>7. RecordersOK'
  BY <1>5, <1>6, RecordersGrow DEF GhostInv, RecordersOK
<1>8. person \in LinkedPeople(k) /\ \A i \in DOMAIN tail : tail[i].person \in LinkedPeople(k)
  <2>1. k.linked \in Seq(Links) /\ k.linked # <<>>
    BY <1>4 DEF JobRecords, Links
  <2>2. /\ 1 \in DOMAIN k.linked /\ one = k.linked[1]
        /\ \A i \in DOMAIN tail : i + 1 \in DOMAIN k.linked /\ tail[i] = k.linked[i + 1]
    BY <1>1, <1>2, <2>1
  <2>3. QED
    BY <1>1, <2>2 DEF LinkedPeople
<1>9. w \notin accompanied => person \in People
  BY <1>4, <1>8 DEF Living
<1>10. GhostsComeFromRaces'
  BY <1>5, <1>9 DEF GhostInv, GhostsComeFromRaces
<1>11. LinkedPeople(j) \subseteq LinkedPeople(k)
  <2>1. j.linked = tail
    BY <1>3, <1>4 DEF JobRecords
  <2>2. QED
    BY <1>8, <2>1 DEF LinkedPeople
<1>12. HandOf("affiliating", j)'
  BY DEF HandOf, Grouping
<1>13. w \notin accompanied => Living("affiliating", j)' /\ Distinct("affiliating", j)'
  <2>1. w \notin accompanied => LinkedPeople(j) \subseteq People'
    BY <1>4, <1>5, <1>11 DEF Living, People
  <2>2. QED
    BY <2>1 DEF Living, Distinct, Grouping, LinkedPeople
<1>14. QED
  BY <1>4, <1>5, <1>6, <1>7, <1>10, <1>12, <1>13, GhostStep

\* Equivalent source people of one cluster, and what they record.
LEMMA SameCluster ==
    ASSUME RecordsOK, NEW cluster, cluster # {}, NEW p, NEW q, NEW x \in Stored,
           \A c \in cluster : c \in Stored, OfCluster(p, cluster), OfCluster(q, cluster), Same(q, x)
    PROVE  Same(p, x)
<1>1. PICK c \in cluster : c \in Stored
  OBVIOUS
<1>2. p \in Stored /\ q \in Stored /\ Same(p, c) /\ Same(q, c)
  BY <1>1 DEF OfCluster
<1>3. Same(c, q)
  BY <1>1, <1>2, SameSymmetric
<1>4. Same(p, q)
  BY <1>1, <1>2, <1>3, SameTransitive
<1>5. QED
  BY <1>2, <1>4, SameTransitive

LEMMA GhostMerge ==
    ASSUME GhostInv, TypeInv', NEW w \in Worker, Merge(w)
    PROVE  GhostInv'
<1>1. PICK k, keep : k = job[w] /\ keep = k.target
  OBVIOUS
<1>2. PICK p \in k.known :
        LET effective == {keep, p} \subseteq People /\ DocumentsOf(p) \ DocumentsOf(keep) # {}
            moved == IF effective THEN RecordedOf(p) \ RecordedOf(keep) ELSE {}
            gone == IF moved # {} THEN {p} ELSE {}
            lost == IF effective THEN DocumentsOf(p) ELSE {}
        IN
        /\ recordedBy' = {l \in recordedBy : l[1] \notin gone} \cup ({keep} \X moved)
        /\ Takes(w, gone, lost)
        /\ job' = [job EXCEPT ![w].known = k.known \ {p}]
        /\ Goes(w, IF k.known = {p} THEN "linking" ELSE "merging")
  BY <1>1 DEF Merge
<1>3. PICK effective, moved, gone, place, j :
        /\ effective = ({keep, p} \subseteq People /\ DocumentsOf(p) \ DocumentsOf(keep) # {})
        /\ moved = IF effective THEN RecordedOf(p) \ RecordedOf(keep) ELSE {}
        /\ gone = IF moved # {} THEN {p} ELSE {}
        /\ place = IF k.known = {p} THEN "linking" ELSE "merging"
        /\ j = [k EXCEPT !.known = k.known \ {p}]
  OBVIOUS
<1>4. /\ recordedBy' = {l \in recordedBy : l[1] \notin gone} \cup ({keep} \X moved)
      /\ externals' = externals \ gone /\ ghosts' = ghosts \ gone
      /\ UNCHANGED <<sourceRecords, equivalences, accompanied, raced>>
      /\ job' = [job EXCEPT ![w] = j] /\ pc' = [pc EXCEPT ![w] = place] /\ pc[w] = "merging"
  BY <1>1, <1>2, <1>3 DEF Merge, Takes, Goes
<1>5. /\ k \in JobRecords /\ HandOf("merging", k) /\ RecordsOK /\ PeopleOK /\ RecordersOK
      /\ JobOf("merging", k)
      /\ w \notin accompanied => Living("merging", k) /\ Distinct("merging", k)
  BY <1>1, <1>4, GhostWorker
<1>6. p \in SourcePerson /\ p \notin Person /\ p # keep
  BY <1>1, <1>2, <1>5, ContributionsAssumption DEF JobRecords, JobOf
<1>7. /\ k.cluster # {} /\ \A c \in k.cluster : c \in Stored
      /\ OfCluster(p, k.cluster) /\ (keep \in Person \/ OfCluster(keep, k.cluster))
  BY <1>1, <1>2, <1>5 DEF HandOf, Grouping, OfCluster
<1>8. Larger
  BY <1>4 DEF Larger, Stored
<1>9. \A x \in moved : keep \in Person \/ (keep \in Stored /\ Same(keep, x))
  <2>1. ASSUME NEW x \in moved, keep \notin Person
        PROVE  keep \in Stored /\ Same(keep, x)
    <3>1. PICK l \in recordedBy : l[1] = p /\ l[2] = x
      BY <1>3, <2>1 DEF RecordedOf
    <3>2. x \in Stored /\ Same(p, x)
      BY <1>5, <1>6, <3>1 DEF RecordersOK, PeopleOK
    <3>3. OfCluster(keep, k.cluster)
      BY <1>7, <2>1
    <3>4. Same(keep, x)
      BY <1>5, <1>7, <3>2, <3>3, SameCluster
    <3>5. QED
      BY <3>3, <3>4 DEF OfCluster
  <2>2. QED
    BY <2>1
<1>10. RecordersOK'
  <2>1. ASSUME NEW l \in recordedBy'
        PROVE  l[1] \in Person \/ (l[1] \in Stored /\ Same(l[1], l[2]))
    BY <1>4, <1>5, <1>9, <2>1 DEF RecordersOK
  <2>2. ASSUME NEW l \in recordedBy'
        PROVE  l[1] \in Person \/ (l[1] \in Stored' /\ Same(l[1], l[2])')
    BY <1>8, <2>1, SameGrows DEF Larger
  <2>3. QED
    BY <2>2 DEF RecordersOK
<1>11. GhostsComeFromRaces'
  BY <1>4 DEF GhostInv, GhostsComeFromRaces
<1>12. /\ j.known = k.known \ {p} /\ j.target = keep /\ j.cluster = k.cluster /\ j.left = k.left
       /\ j.records = k.records /\ LinkedPeople(j) = LinkedPeople(k)
  BY <1>1, <1>3, <1>5 DEF JobRecords, LinkedPeople
<1>13. HandOf(place, j)
  BY <1>1, <1>3, <1>5, <1>12 DEF HandOf, Grouping
<1>14. HandOf(place, j)'
  BY <1>8, <1>13, HandGrows
<1>15. gone \subseteq {p} /\ People' = People \ gone
  BY <1>3, <1>4, <1>6 DEF People
<1>16. w \notin accompanied => Living(place, j)' /\ Distinct(place, j)'
  <2>1. SUFFICES ASSUME w \notin accompanied
                 PROVE  Living(place, j)' /\ Distinct(place, j)'
    OBVIOUS
  <2>2. Distinct(place, j)
    BY <1>3, <1>5, <1>12, <2>1 DEF Distinct, Grouping
  <2>3. Distinct(place, j)'
    BY <1>4, <2>2, DistinctStays
  <2>4. p \notin LinkedPeople(k)
    <3>1. p \in LinkedPeople(k) => Apart(p, k.cluster)
      BY <1>5, <1>6, <2>1 DEF Distinct, Grouping
    <3>2. QED
      BY <1>7, <3>1 DEF Apart, OfCluster
  <2>5. /\ LinkedPeople(k) \subseteq People /\ k.known \subseteq externals /\ keep \in People
    BY <1>1, <1>5, <2>1 DEF Living
  <2>6. /\ LinkedPeople(j) \subseteq People' /\ j.known \subseteq externals' /\ j.target \in People'
    BY <1>4, <1>6, <1>12, <1>15, <2>4, <2>5
  <2>7. QED
    BY <2>3, <2>6 DEF Living, LinkedPeople
<1>17. QED
  BY <1>4, <1>8, <1>10, <1>11, <1>14, <1>16, GhostStep

LEMMA LinkedOf ==
    ASSUME NEW linked \in Seq(Links), NEW person, NEW cluster, NEW n \in DOMAIN Linked(linked, person, cluster)
    PROVE  \/ Linked(linked, person, cluster)[n].person = person
           \/ n \in DOMAIN linked /\ Linked(linked, person, cluster)[n].person = linked[n].person
<1>1. PICK same : same = {m \in DOMAIN linked : linked[m].person = person}
  OBVIOUS
<1>2. CASE same = {}
  <2>1. Linked(linked, person, cluster) = Append(linked, [person |-> person, cluster |-> cluster])
    BY <1>1, <1>2 DEF Linked
  <2>2. PICK link, new : link = [person |-> person, cluster |-> cluster] /\ new = Append(linked, link)
    OBVIOUS
  <2>3. DOMAIN new = 1 .. Len(linked) + 1 /\ Len(linked) \in Nat /\ DOMAIN linked = 1 .. Len(linked)
    <3>1. linked \in Seq(Links \cup {link})
      OBVIOUS
    <3>2. QED
      BY <2>2, <3>1
  <2>4. new[Len(linked) + 1] = link /\ \A m \in DOMAIN linked : new[m] = linked[m]
    <3>1. linked \in Seq(Links \cup {link})
      OBVIOUS
    <3>2. QED
      BY <2>2, <3>1
  <2>5. link.person = person
    BY <2>2
  <2>6. n \in DOMAIN linked \/ n = Len(linked) + 1
    BY <2>1, <2>2, <2>3
  <2>7. QED
    BY <2>1, <2>2, <2>4, <2>5, <2>6
<1>3. CASE same # {}
  <2>1. Linked(linked, person, cluster) = [m \in DOMAIN linked |->
            IF m \in same THEN [linked[m] EXCEPT !.cluster = cluster] ELSE linked[m]]
    BY <1>1, <1>3 DEF Linked
  <2>2. n \in DOMAIN linked /\ linked[n] \in Links
    BY <2>1
  <2>3. [linked[n] EXCEPT !.cluster = cluster].person = linked[n].person
    BY <2>2 DEF Links
  <2>4. QED
    BY <2>1, <2>2, <2>3
<1>4. QED
  BY <1>2, <1>3

LEMMA GhostLink ==
    ASSUME GhostInv, TypeInv', NEW w \in Worker, Link(w)
    PROVE  GhostInv'
<1>1. PICK k, person, cluster, gone :
        k = job[w] /\ person = k.target /\ cluster = k.cluster /\ gone = Gone(w)
  OBVIOUS
<1>2. PICK linked, place : /\ linked = Linked(k.linked, person, cluster)
                           /\ place = IF k.left = {} THEN "contributing" ELSE "matching"
  OBVIOUS
<1>3. PICK j : j = [k EXCEPT !.linked = linked, !.target = "", !.cluster = {}]
  OBVIOUS
<1>4. /\ k \in JobRecords /\ HandOf("linking", k) /\ RecordsOK /\ PeopleOK /\ RecordersOK
      /\ w \notin accompanied => Living("linking", k) /\ Distinct("linking", k)
  BY <1>1, GhostWorker DEF Link
<1>5. /\ recordedBy' = {l \in recordedBy : l[1] \notin gone}
            \cup (IF person \in People THEN {person} \X cluster ELSE {})
      /\ externals' = externals \ gone /\ ghosts' = ghosts \ gone
      /\ UNCHANGED <<sourceRecords, equivalences, accompanied, raced>>
      /\ pc' = [pc EXCEPT ![w] = place] /\ pc[w] = "linking"
  BY <1>1, <1>2 DEF Link, Takes, Goes
<1>6. job' = [job EXCEPT ![w] = j]
  <2>1. job' = [job EXCEPT ![w].linked = Linked(@, person, cluster), ![w].target = "",
                            ![w].cluster = {}]
    BY <1>1 DEF Link
  <2>2. QED
    BY <1>1, <1>2, <1>3, <1>4, <2>1 DEF JobRecords
<1>7. gone \subseteq externals /\ person \notin gone /\ gone \cap Person = {}
  BY <1>1, <1>4, ContributionsAssumption DEF Gone, PeopleOK
<1>8. cluster # {} /\ (\A c \in cluster : c \in Stored) /\ (person \in Person \/ OfCluster(person, cluster))
  BY <1>1, <1>4 DEF HandOf, Grouping, OfCluster
<1>9. Larger
  BY <1>5 DEF Larger, Stored
<1>10. RecordersOK'
  <2>1. ASSUME NEW l \in recordedBy'
        PROVE  l[1] \in Person \/ (l[1] \in Stored /\ Same(l[1], l[2]))
    BY <1>4, <1>5, <1>8, <2>1 DEF RecordersOK, OfCluster
  <2>2. ASSUME NEW l \in recordedBy'
        PROVE  l[1] \in Person \/ (l[1] \in Stored' /\ Same(l[1], l[2])')
    BY <1>9, <2>1, SameGrows DEF Larger
  <2>3. QED
    BY <2>2 DEF RecordersOK
<1>11. GhostsComeFromRaces'
  BY <1>5 DEF GhostInv, GhostsComeFromRaces
<1>12. /\ j.linked = linked /\ j.left = k.left /\ j.records = k.records
  BY <1>3, <1>4 DEF JobRecords
<1>13. HandOf(place, j)'
  <2>1. HandOf(place, j)
    BY <1>2, <1>4, <1>12 DEF HandOf, Grouping
  <2>2. QED
    BY <1>9, <2>1, HandGrows
<1>14. LinkedPeople(j) \subseteq LinkedPeople(k) \cup {person}
  <2>1. k.linked \in Seq(Links)
    BY <1>4 DEF JobRecords, Links
  <2>2. \A n \in DOMAIN linked : linked[n].person \in LinkedPeople(k) \cup {person}
    BY <1>2, <2>1, LinkedOf DEF LinkedPeople
  <2>3. QED
    BY <1>12, <2>2 DEF LinkedPeople
<1>15. w \notin accompanied => Living(place, j)' /\ Distinct(place, j)'
  <2>1. SUFFICES ASSUME w \notin accompanied
                 PROVE  Living(place, j)' /\ Distinct(place, j)'
    OBVIOUS
  <2>2. person \in People /\ LinkedPeople(k) \subseteq People
    BY <1>1, <1>4, <2>1 DEF Living
  <2>3. ASSUME NEW q \in LinkedPeople(k)
        PROVE  q \notin gone
    <3>1. SUFFICES ASSUME q \in gone
                   PROVE  FALSE
      OBVIOUS
    <3>2. q \notin Person
      BY <1>7, <3>1
    <3>3. Apart(q, cluster)
      BY <1>1, <1>4, <2>1, <2>3, <3>2 DEF Distinct, Grouping
    <3>4. PICK x \in cluster : x \in RecordedOf(q)
      BY <1>1, <3>1 DEF Gone
    <3>5. Same(q, x)
      BY <1>4, <3>2, <3>4 DEF RecordedOf, RecordersOK
    <3>6. QED
      BY <3>3, <3>5 DEF Apart
  <2>4. People' = People \ gone
    BY <1>5, <1>7 DEF People
  <2>5. LinkedPeople(j) \subseteq People'
    BY <1>7, <1>14, <2>2, <2>3, <2>4
  <2>6. ASSUME NEW q \in LinkedPeople(j) \ Person
        PROVE  q \in Stored /\ Apart(q, k.left)
    <3>1. CASE q \in LinkedPeople(k)
      BY <1>4, <2>1, <2>6, <3>1 DEF Distinct, Grouping
    <3>2. CASE q = person
      <4>1. OfCluster(person, cluster) /\ \A c \in cluster : Apart(c, k.left)
        BY <1>1, <1>4, <1>8, <2>1, <2>6, <3>2 DEF Distinct, Grouping
      <4>2. ASSUME NEW x \in k.left, Same(person, x)
            PROVE  FALSE
        <5>1. PICK c \in cluster : c \in Stored /\ OfCluster(c, cluster)
          BY <1>1, <1>4, <1>8 DEF HandOf, Grouping
        <5>2. x \in Stored
          <6>1. x \in ContributorsIn(k.records)
            BY <1>4, <4>2 DEF HandOf, Grouping
          <6>2. QED
            BY <1>1, <1>5, <6>1, GhostWorker DEF JobOf
        <5>3. Same(c, x)
          BY <1>4, <1>8, <4>1, <4>2, <5>1, <5>2, SameCluster
        <5>4. QED
          BY <4>1, <4>2, <5>1, <5>3 DEF Apart
      <4>3. QED
        BY <3>2, <4>1, <4>2 DEF Apart, OfCluster
    <3>3. QED
      BY <1>14, <2>6, <3>1, <3>2
  <2>7. Distinct(place, j)
    BY <1>2, <1>12, <2>6 DEF Distinct, Grouping
  <2>8. Distinct(place, j)'
    BY <1>5, <2>7, DistinctStays
  <2>9. QED
    BY <1>2, <2>5, <2>8 DEF Living, LinkedPeople
<1>16. QED
  BY <1>5, <1>6, <1>9, <1>10, <1>11, <1>13, <1>15, GhostStep

LEMMA GhostEnds ==
    ASSUME GhostInv, TypeInv',
           UNCHANGED <<sourceRecords, equivalences, externals, ghosts, recordedBy, accompanied, raced>>,
           NEW w \in Worker, pc[w] # "idle", Ends(w)
    PROVE  GhostInv'
<1>1. PICK j : j = NoJob
  OBVIOUS
<1>2. j.linked = <<>>
  BY <1>1 DEF NoJob, Job
<1>3. job' = [job EXCEPT ![w] = j] /\ pc' = [pc EXCEPT ![w] = "idle"]
  BY <1>1 DEF Ends, Goes
<1>4. QED
  BY <1>2, <1>3, PlainStep DEF Grouping

LEMMA GhostAffiliating ==
    ASSUME GhostInv, TypeInv', NEW w \in Worker,
           CallOrganization(w) \/ TreatOrganization(w) \/ Affiliate(w)
    PROVE  GhostInv'
<1>1. PICK k : /\ k = job[w] /\ k \in JobRecords
               /\ pc \in [Worker -> PC] /\ job \in [Worker -> JobRecords]
  BY GhostWorker, WorkerOf
<1>2. /\ UNCHANGED <<sourceRecords, equivalences, externals, ghosts, recordedBy, accompanied, raced>>
      /\ pc[w] = "affiliating"
  BY DEF CallOrganization, TreatOrganization, Affiliate, Affiliated, Free, personVars, historyVars
<1>3. CASE CallOrganization(w)
  <2>1. PICK o : job' = [job EXCEPT ![w].left = k.left \ O!Cluster(o), ![w].found = Found(w)]
    BY <1>1, <1>3 DEF CallOrganization
  <2>2. PICK j : j = [k EXCEPT !.left = k.left \ O!Cluster(o), !.found = Found(w)]
    OBVIOUS
  <2>3. j.linked = k.linked
    BY <1>1, <2>2 DEF JobRecords
  <2>4. job' = [job EXCEPT ![w] = j] /\ pc' = [pc EXCEPT ![w] = "affiliating"]
    BY <1>1, <1>2, <1>3, <2>1, <2>2 DEF CallOrganization
  <2>5. QED
    BY <1>1, <1>2, <2>3, <2>4, PlainStep DEF Grouping
<1>4. CASE TreatOrganization(w)
  <2>1. job' = [job EXCEPT ![w] = k] /\ pc' = [pc EXCEPT ![w] = "affiliating"]
    BY <1>1, <1>2, <1>4 DEF TreatOrganization
  <2>2. QED
    BY <1>1, <1>2, <2>1, PlainStep DEF Grouping
<1>5. CASE Affiliate(w)
  <2>1. PICK j : j = [k EXCEPT !.target = "", !.cluster = {}, !.found = {}]
    OBVIOUS
  <2>2. j.linked = k.linked
    BY <1>1, <2>1 DEF JobRecords
  <2>3. job' = [job EXCEPT ![w] = j] /\ pc' = [pc EXCEPT ![w] = "contributing"]
    BY <1>1, <1>5, <2>1 DEF Affiliate, Goes
  <2>4. QED
    BY <1>1, <1>2, <2>2, <2>3, PlainStep DEF Grouping
<1>6. QED
  BY <1>3, <1>4, <1>5

LEMMA GhostFinish ==
    ASSUME GhostInv, TypeInv', NEW w \in Worker, Finish(w)
    PROVE  GhostInv'
<1>1. /\ UNCHANGED <<sourceRecords, equivalences, externals, ghosts, recordedBy, accompanied, raced>>
      /\ pc[w] = "contributing"
      /\ IF job[w].todo = {} THEN Ends(w)
         ELSE Goes(w, "starting") /\ job' = [job EXCEPT ![w] = Job(job[w].event, job[w].todo)]
  BY DEF Finish, personVars, historyVars
<1>2. CASE Ends(w)
  BY <1>1, <1>2, GhostEnds
<1>3. CASE Goes(w, "starting") /\ job' = [job EXCEPT ![w] = Job(job[w].event, job[w].todo)]
  <2>1. PICK j : j = Job(job[w].event, job[w].todo)
    OBVIOUS
  <2>2. j.linked = <<>>
    BY <2>1 DEF Job
  <2>3. QED
    BY <1>1, <1>3, <2>1, <2>2, PlainStep DEF Goes, Grouping
<1>4. QED
  BY <1>1, <1>2, <1>3

LEMMA GhostStops ==
    ASSUME GhostInv, TypeInv', NEW w \in Worker, GiveUp(w) \/ FailCall(w) \/ Fail(w)
    PROVE  GhostInv'
<1>1. /\ UNCHANGED <<sourceRecords, equivalences, externals, ghosts, recordedBy, accompanied, raced>>
      /\ pc[w] # "idle" /\ Ends(w)
  BY DEF GiveUp, Refused, FailCall, Fail, Returned, Affiliated, Free, personVars
<1>2. QED
  BY <1>1, GhostEnds

LEMMA GhostNext == GhostInv /\ [Next]_vars => GhostInv'
<1> SUFFICES ASSUME GhostInv, [Next]_vars
             PROVE  GhostInv'
  OBVIOUS
<1>1. TypeInv'
  BY TypeStep DEF GhostInv
<1>2. CASE UNCHANGED vars
  <2>1. UNCHANGED <<sourceRecords, equivalences, externals, ghosts, recordedBy, accompanied, raced,
                    pc, job>>
    BY <1>2 DEF vars, personVars, historyVars
  <2>2. Larger
    BY <2>1 DEF Larger, Stored
  <2>3. RecordersOK' /\ GhostsComeFromRaces'
    BY <2>1, <2>2, RecordersGrow DEF GhostInv, RecordersOK, GhostsComeFromRaces
  <2>4. ASSUME NEW w \in Worker
        PROVE  /\ HandOf(pc[w], job[w])'
               /\ w \notin accompanied => Living(pc[w], job[w])' /\ Distinct(pc[w], job[w])'
    <3>1. PICK p, k : p = pc[w] /\ k = job[w]
      OBVIOUS
    <3>2. HandOf(p, k) /\ (w \notin accompanied => Living(p, k) /\ Distinct(p, k))
      BY <3>1 DEF GhostInv
    <3>3. HandOf(p, k)'
      BY <2>2, <3>2, HandGrows
    <3>4. w \notin accompanied => Living(p, k)' /\ Distinct(p, k)'
      BY <2>1, <3>2, DistinctStays DEF Living, LinkedPeople, People
    <3>5. QED
      BY <2>1, <3>1, <3>3, <3>4
         DEF HandOf, Living, Distinct, LinkedPeople, OfCluster, Apart, Grouping, Same
  <2>5. QED
    BY <1>1, <2>1, <2>3, <2>4 DEF GhostInv
<1>3. ASSUME NEW w \in Worker, Take(w) \/ Work(w) \/ Fail(w)
      PROVE  GhostInv'
  BY <1>1, <1>3, GhostTake, GhostStart, GhostRelate, GhostMatch, GhostSearch, GhostCreateExternal,
     GhostMerge, GhostLink, GhostContribute, GhostAffiliating, GhostFinish, GhostStops
  DEF Work
<1>4. QED
  BY <1>2, <1>3 DEF Next

LEMMA GhostInit == Init => GhostInv
<1> SUFFICES ASSUME Init
             PROVE  GhostInv
  OBVIOUS
<1>1. TypeInv
  BY TypeInit
<1>2. PICK nobody : nobody = NoJob
  OBVIOUS
<1>3. nobody.linked = <<>>
  BY <1>2 DEF NoJob, Job
<1>4. /\ recordedBy = {} /\ ghosts = {}
      /\ \A w \in Worker : pc[w] = "idle" /\ job[w] = nobody
  BY <1>2 DEF Init
<1>5. HandOf("idle", nobody) /\ Living("idle", nobody) /\ Distinct("idle", nobody)
  BY <1>3 DEF HandOf, Living, Distinct, LinkedPeople, Grouping
<1>6. QED
  BY <1>1, <1>4, <1>5 DEF GhostInv, RecordersOK, GhostsComeFromRaces

(***************************************************************************)
(* A contribution only brings a deleted person back if its worker met      *)
(* another one, for any documents, equivalences and workers, and whatever  *)
(* fails: the people a worker matched record source people of clusters     *)
(* that are apart from those it matches next, so it deletes none of them.  *)
(***************************************************************************)
THEOREM GhostsFollowRaces == Spec => []GhostsComeFromRaces
<1>1. GhostInv => GhostsComeFromRaces
  BY DEF GhostInv
<1>2. QED
  BY <1>1, GhostInit, GhostNext, PTL DEF Spec

=============================================================================
