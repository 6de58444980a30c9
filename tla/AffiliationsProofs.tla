------------------------ MODULE AffiliationsProofs ------------------------
(***************************************************************************)
(* Proofs about the affiliations of contributors, for any records, people  *)
(* and workers, and any organizations but those that have identifiers and  *)
(* none that can be used: the states of these have no identifiers.         *)
(***************************************************************************)
EXTENDS ContributorsProofs

HasUsable == \A o \in SourceOrganization : Described[o].ids # {} => O!Usable(o) # {}

---------------------------------------------------------------------------
(***************************************************************************)
(* The identifiers of the cluster of an organization; those of a state are *)
(* about it if they are some of them.  Clusters that have an identifier in *)
(* common are the same, and clusters only grow.                            *)
(***************************************************************************)
IdsOf(o) == UNION {Described[p].ids : p \in O!Cluster(o)}
About(ids, o) == ids # {} /\ ids \subseteq IdsOf(o)

Neighbours(p, q) == Described[p].ids \cap Described[q].ids # {}
ClosedOrgs(S) ==
    /\ S \in SUBSET SourceOrganization
    /\ \A p \in organizations, q \in S : Neighbours(p, q) => p \in S

LEMMA InCluster ==
    ASSUME NEW o, NEW p
    PROVE  p \in O!Cluster(o) <=> /\ p \in organizations \cup {o}
                                  /\ \A S : ClosedOrgs(S) /\ o \in S => p \in S
<1>1. \A S : ClosedOrgs(S) <=> S \in SUBSET SourceOrganization /\ O!Sharing(S) \subseteq S
  BY DEF ClosedOrgs, Neighbours, O!Sharing
<1>2. QED
  BY <1>1 DEF O!Cluster

LEMMA ClusterHas == \A o : o \in O!Cluster(o)
BY InCluster

LEMMA ClusterReaches ==
    ASSUME NEW o, NEW p \in O!Cluster(o), NEW q \in organizations, Neighbours(q, p)
    PROVE  q \in O!Cluster(o)
<1>1. ASSUME NEW S, ClosedOrgs(S), o \in S
      PROVE  q \in S
  BY <1>1, InCluster DEF ClosedOrgs
<1>2. QED
  BY <1>1, InCluster

LEMMA ClusterIncludes ==
    ASSUME NEW o \in organizations, NEW p \in O!Cluster(o)
    PROVE  O!Cluster(p) \subseteq O!Cluster(o)
<1>1. p \in organizations
  BY InCluster
<1>2. ASSUME NEW q \in O!Cluster(p)
      PROVE  q \in O!Cluster(o)
  <2>1. ASSUME NEW S, ClosedOrgs(S), o \in S
        PROVE  q \in S
    BY <1>2, <2>1, InCluster
  <2>2. q \in organizations
    BY <1>1, <1>2, InCluster
  <2>3. QED
    BY <2>1, <2>2, InCluster
<1>3. QED
  BY <1>2

\* The organizations out of a closed set are closed too.
LEMMA ClusterBack ==
    ASSUME organizations \subseteq SourceOrganization, NEW o \in organizations, NEW p \in O!Cluster(o)
    PROVE  o \in O!Cluster(p)
<1>1. SUFFICES ASSUME NEW S, ClosedOrgs(S), p \in S, o \notin S
               PROVE  FALSE
  BY InCluster
<1>2. ClosedOrgs(organizations \ S)
  BY <1>1 DEF ClosedOrgs, Neighbours
<1>3. QED
  BY <1>1, <1>2, InCluster

LEMMA ClustersMeet ==
    ASSUME organizations \subseteq SourceOrganization, NEW o \in organizations, NEW p \in organizations,
           IdsOf(o) \cap IdsOf(p) # {}
    PROVE  IdsOf(o) = IdsOf(p)
<1>1. PICK x \in O!Cluster(o), y \in O!Cluster(p) : Neighbours(x, y)
  BY DEF IdsOf, Neighbours
<1>2. Neighbours(y, x) /\ x \in organizations /\ y \in organizations
  BY <1>1, InCluster DEF Neighbours
<1>3. y \in O!Cluster(o) /\ x \in O!Cluster(p)
  BY <1>1, <1>2, ClusterReaches
<1>4. O!Cluster(y) \subseteq O!Cluster(o) /\ O!Cluster(x) \subseteq O!Cluster(p)
  BY <1>3, ClusterIncludes
<1>5. p \in O!Cluster(y) /\ o \in O!Cluster(x)
  BY <1>1, ClusterBack
<1>6. O!Cluster(p) \subseteq O!Cluster(o) /\ O!Cluster(o) \subseteq O!Cluster(p)
  BY <1>4, <1>5, ClusterIncludes
<1>7. QED
  BY <1>6 DEF IdsOf

LEMMA AboutSame ==
    ASSUME organizations \subseteq SourceOrganization, NEW o \in organizations, NEW p \in organizations,
           NEW I, About(I, o), NEW J, About(J, p), I \cap J # {}
    PROVE  IdsOf(o) = IdsOf(p) /\ About(I, p) /\ About(J, o)
<1>1. IdsOf(o) = IdsOf(p)
  BY ClustersMeet DEF About
<1>2. QED
  BY <1>1 DEF About

LEMMA AboutOwn ==
    ASSUME NEW o, Described[o].ids # {}
    PROVE  About(Described[o].ids, o)
BY ClusterHas DEF About, IdsOf

\* The members of a cluster have its identifiers.
LEMMA AboutMember ==
    ASSUME organizations \subseteq SourceOrganization, NEW o \in organizations, NEW p \in O!Cluster(o),
           Described[p].ids # {}
    PROVE  p \in organizations /\ IdsOf(p) = IdsOf(o)
<1>1. p \in organizations
  BY InCluster
<1>2. About(Described[p].ids, p) /\ About(Described[p].ids, o)
  BY AboutOwn DEF About, IdsOf
<1>3. QED
  BY <1>1, <1>2, ClustersMeet DEF About

LEMMA AboutGrowing ==
    ASSUME organizations \subseteq organizations', NEW o, NEW I, About(I, o)
    PROVE  About(I, o)'
<1>1. O!Cluster(o) \subseteq O!Cluster(o)'
  <2>1. ASSUME NEW p \in O!Cluster(o)
        PROVE  p \in O!Cluster(o)'
    <3>1. \A S : ClosedOrgs(S)' => ClosedOrgs(S)
      BY DEF ClosedOrgs, Neighbours
    <3>2. \A S : ClosedOrgs(S)' /\ o \in S => p \in S
      BY <3>1, InCluster
    <3>3. p \in organizations' \cup {o}
      BY InCluster
    <3>4. (p \in O!Cluster(o) <=> /\ p \in organizations \cup {o}
                                 /\ \A S : ClosedOrgs(S) /\ o \in S => p \in S)'
      BY InCluster, PTL
    <3>5. QED
      BY <3>2, <3>3, <3>4
  <2>2. QED
    BY <2>1
<1>2. IdsOf(o) \subseteq IdsOf(o)'
  BY <1>1 DEF IdsOf
<1>3. QED
  BY <1>2 DEF About

---------------------------------------------------------------------------
(***************************************************************************)
(* The states a cluster is split into have the usable identifiers of their *)
(* organizations; there is one at least, and without identifiers only one. *)
(***************************************************************************)
Gathers(orgs, s) ==
    /\ s.orgs # {} /\ s.orgs \subseteq orgs
    /\ s.ids = UNION {O!Usable(p) : p \in s.orgs}
SplitGathers(orgs, split) ==
    /\ SplitOf(orgs, split)
    /\ \A i \in DOMAIN split.states : Gathers(orgs, split.states[i])

LEMMA AttachedGathers ==
    ASSUME NEW orgs, NEW s \in StateRecords, NEW o \in orgs, Gathers(orgs, s) \/ s = O!NewState
    PROVE  Gathers(orgs, O!Attached(s, o))
<1>1. PICK t : t = O!Attached(s, o)
  OBVIOUS
<1>2. t.orgs = s.orgs \cup {o} /\ t.ids = s.ids \cup O!Usable(o)
  BY <1>1 DEF O!Attached, StateRecords
<1>3. CASE s = O!NewState
  <2>1. t.orgs = {o} /\ t.ids = O!Usable(o)
    BY <1>2, <1>3 DEF O!NewState
  <2>2. QED
    BY <1>1, <2>1 DEF Gathers
<1>4. CASE Gathers(orgs, s)
  <2>1. t.ids = UNION {O!Usable(p) : p \in t.orgs}
    BY <1>2, <1>4 DEF Gathers
  <2>2. QED
    BY <1>1, <1>2, <1>4, <2>1 DEF Gathers
<1>5. QED
  BY <1>3, <1>4

LEMMA PlacedGathers ==
    ASSUME NEW orgs \in SUBSET SourceOrganization, NEW split, SplitGathers(orgs, split), NEW o \in orgs
    PROVE  /\ SplitGathers(orgs, O!Placed(orgs, split, o))
           /\ O!Placed(orgs, split, o).states # <<>>
           /\ split.states = <<>> =>
                /\ O!Placed(orgs, split, o).rootOnly = split.rootOnly
                /\ Len(O!Placed(orgs, split, o).states) = 1
<1> DEFINE fits == {i \in DOMAIN split.states : O!Compatible(split.states[i], o)}
           after == O!Placed(orgs, split, o)
<1>0. SplitOf(orgs, after)
  BY PlacedOf DEF SplitGathers
<1>1. PICK sts, n : sts = split.states /\ n \in Nat /\ DOMAIN sts = 1 .. n
  BY DEF SplitGathers, SplitOf, SplitRecords
<1>2. /\ sts \in Seq(StateRecords) /\ \A i \in 1 .. n : Gathers(orgs, sts[i])
      /\ split \in SplitRecords
  BY <1>1 DEF SplitGathers, SplitOf, SplitRecords
<1>3. CASE O!Cardinality(fits) = 1
  <2>1. PICK next : next = [i \in 1 .. n |-> IF i \in fits THEN O!Attached(sts[i], o) ELSE sts[i]]
    OBVIOUS
  <2>2. after.states = next
    <3>1. after = [split EXCEPT !.states = [i \in DOMAIN split.states |->
                      IF i \in fits THEN O!Attached(split.states[i], o) ELSE split.states[i]]]
      BY <1>3 DEF O!Placed
    <3>2. QED
      BY <1>1, <1>2, <2>1, <3>1 DEF SplitRecords
  <2>3. \A i \in 1 .. n : Gathers(orgs, next[i])
    BY <1>1, <1>2, <2>1, AttachedGathers
  <2>4. fits # {}
    BY <1>3, SameSizes, FS_EmptySet
  <2>5. n # 0
    BY <1>1, <2>4
  <2>6. split.states # <<>> /\ after.states # <<>>
    BY <1>1, <2>1, <2>2, <2>5
  <2>7. QED
    BY <1>0, <2>1, <2>2, <2>3, <2>6 DEF SplitGathers
<1>4. CASE O!Cardinality(fits) # 1 /\ (O!Conflicts(o, orgs) # {} \/ sts = <<>>)
  <2>1. PICK new : new = O!Attached(O!NewState, o) /\ Gathers(orgs, new)
    BY NewStateOf, AttachedGathers DEF StateOf
  <2>2. PICK next : next = Append(sts, new)
    OBVIOUS
  <2>3. after.states = next /\ after.rootOnly = split.rootOnly
    <3>1. after = [split EXCEPT !.states = Append(split.states, O!Attached(O!NewState, o))]
      <4>1. O!Conflicts(o, orgs) # {} \/ split.states = <<>>
        BY <1>1, <1>4
      <4>2. QED
        BY <1>4, <4>1 DEF O!Placed
    <3>2. QED
      BY <1>1, <1>2, <2>1, <2>2, <3>1 DEF SplitRecords
  <2>4. /\ \A i \in DOMAIN next : Gathers(orgs, next[i])
        /\ Len(next) = Len(sts) + 1 /\ next # <<>>
    BY <1>1, <1>2, <2>1, <2>2
  <2>5. QED
    BY <1>0, <1>1, <2>3, <2>4 DEF SplitGathers
<1>5. CASE O!Cardinality(fits) # 1 /\ ~ (O!Conflicts(o, orgs) # {} \/ sts = <<>>)
  <2>1. after = [split EXCEPT !.rootOnly = @ \cup {o}]
    <3>1. ~ (O!Conflicts(o, orgs) # {} \/ split.states = <<>>)
      BY <1>1, <1>5
    <3>2. QED
      BY <1>5, <3>1 DEF O!Placed
  <2>2. after.states = split.states
    BY <1>2, <2>1 DEF SplitRecords
  <2>3. QED
    BY <1>0, <1>1, <1>2, <1>5, <2>2 DEF SplitGathers
<1>6. QED
  BY <1>3, <1>4, <1>5

\* By the least counterexample, as in SplittingOf.
LEMMA SplittingGathers ==
    ASSUME NEW cluster \in SUBSET SourceOrganization, cluster # {}, NEW order \in O!Orders(cluster)
    PROVE  LET last == O!Splitting(order, cluster)[Len(order)] IN
           /\ SplitGathers(cluster, last) /\ last.states # <<>>
           /\ Cardinality(cluster) = 1 => last.rootOnly = {} /\ Len(last.states) = 1
<1>1. PICK n : n = Cardinality(cluster) /\ n \in Nat \ {0}
  BY CallAssumption, SameSizes, FS_Subset, FS_CardinalityType, FS_EmptySet DEF O!OrganizationsAssumption
<1>2. order \in [1 .. n -> cluster] /\ Len(order) = n
  BY <1>1, SameSizes DEF O!Orders
<1>3. PICK f : f = O!Splitting(order, cluster)
  OBVIOUS
<1>4. IsSplitting(order, cluster, n, f)
  <2>1. f = CHOOSE g : IsSplitting(order, cluster, n, g)
    BY <1>2, <1>3 DEF O!Splitting, IsSplitting
  <2>2. QED
    BY <1>1, <2>1, SplittingExists
<1>5. f[0] = O!NoSplit /\ \A i \in 1 .. n : f[i] = O!Placed(cluster, f[i - 1], order[i])
  BY <1>1, <1>4 DEF IsSplitting
<1>6. SplitGathers(cluster, O!NoSplit) /\ O!NoSplit.states = <<>> /\ O!NoSplit.rootOnly = {}
  BY DEF SplitGathers, SplitOf, SplitRecords, O!NoSplit
<1> DEFINE wrong == {i \in Nat : i <= n /\ ~ SplitGathers(cluster, f[i])}
<1>7. wrong = {}
  <2>1. SUFFICES ASSUME wrong # {}
                 PROVE  FALSE
    OBVIOUS
  <2>2. PICK i \in wrong : \A k \in wrong : ~ (<<k, i>> \in OpToRel(<, Nat))
    BY <2>1, NatLessThanWellFounded, WFMin
  <2>3. i \in Nat /\ i <= n /\ i # 0
    BY <1>5, <1>6, <2>2
  <2>4. i - 1 \in Nat /\ i - 1 <= n /\ <<i - 1, i>> \in OpToRel(<, Nat)
    BY <1>1, <2>3 DEF OpToRel
  <2>5. SplitGathers(cluster, f[i - 1])
    BY <2>2, <2>4
  <2>6. f[i] = O!Placed(cluster, f[i - 1], order[i]) /\ order[i] \in cluster
    BY <1>1, <1>2, <1>5, <2>3
  <2>7. QED
    BY <2>2, <2>5, <2>6, PlacedGathers
<1>8. /\ SplitGathers(cluster, f[n - 1]) /\ SplitGathers(cluster, f[n])
      /\ f[n] = O!Placed(cluster, f[n - 1], order[n]) /\ order[n] \in cluster
  BY <1>1, <1>2, <1>5, <1>7
<1>9. f[n].states # <<>>
  BY <1>8, PlacedGathers
<1>10. CASE n = 1
  <2>1. f[n - 1] = O!NoSplit
    BY <1>5, <1>10
  <2>2. f[n].rootOnly = {} /\ Len(f[n].states) = 1
    BY <1>6, <1>8, <2>1, PlacedGathers
  <2>3. QED
    BY <1>2, <1>3, <1>8, <1>9, <2>2
<1>11. QED
  BY <1>1, <1>2, <1>3, <1>8, <1>9, <1>10

LEMMA SplitsGather ==
    ASSUME NEW cluster \in SUBSET SourceOrganization, cluster # {}, NEW split \in O!Splits[cluster]
    PROVE  /\ \A i \in DOMAIN split.states : Gathers(cluster, split.states[i])
           /\ split.states # <<>>
           /\ Cardinality(cluster) = 1 => split.rootOnly = {} /\ Len(split.states) = 1
<1>1. PICK order \in O!Orders(cluster) : split = O!Split(order, cluster)
  BY DEF O!Splits
<1>2. PICK last : /\ last = O!Splitting(order, cluster)[Len(order)]
                  /\ SplitGathers(cluster, last) /\ last.states # <<>>
                  /\ Cardinality(cluster) = 1 => last.rootOnly = {} /\ Len(last.states) = 1
  BY SplittingGathers
<1>3. PICK sts, n : sts = last.states /\ n \in Nat /\ DOMAIN sts = 1 .. n /\ Len(sts) = n
  BY <1>2 DEF SplitGathers, SplitOf, SplitRecords
<1>4. /\ sts \in Seq(StateRecords) /\ \A i \in 1 .. n : Gathers(cluster, sts[i])
      /\ last \in SplitRecords
  BY <1>2, <1>3 DEF SplitGathers, SplitOf, SplitRecords
<1>5. PICK named : named = [i \in 1 .. n |-> O!Named(sts[i])]
  OBVIOUS
<1>6. split.states = named /\ split.rootOnly = last.rootOnly
  <2>1. split = [last EXCEPT !.states = [i \in DOMAIN last.states |-> O!Named(last.states[i])]]
    BY <1>1, <1>2 DEF O!Split
  <2>2. QED
    BY <1>3, <1>4, <1>5, <2>1 DEF SplitRecords
<1>7. ASSUME NEW i \in 1 .. n
      PROVE  Gathers(cluster, named[i])
  <2>1. PICK s, name : s = sts[i] /\ s \in StateRecords /\ name = O!LongestName(s.orgs)
    BY <1>3, <1>4
  <2>2. named[i] = [s EXCEPT !.name = name]
    BY <1>5, <2>1 DEF O!Named
  <2>3. named[i].ids = s.ids /\ named[i].orgs = s.orgs
    BY <2>1, <2>2 DEF StateRecords
  <2>4. QED
    BY <1>4, <2>1, <2>3 DEF Gathers
<1>8. Len(named) = n /\ DOMAIN named = 1 .. n /\ n # 0
  <2>1. DOMAIN named = 1 .. n
    BY <1>5
  <2>2. n # 0
    BY <1>2, <1>3, <1>4
  <2>3. QED
    BY <1>3, <2>1, <2>2
<1>9. named # <<>>
  BY <1>8
<1>10. QED
  BY <1>2, <1>3, <1>6, <1>7, <1>8, <1>9

---------------------------------------------------------------------------
(***************************************************************************)
(* The calls.  A call for a cluster with identifiers only goes on with     *)
(* states about it, and has one at least left to find, or kept; it leads   *)
(* to a root of such states, or to the only one.  A call for a cluster     *)
(* without finds one state by its name, and never attaches it.             *)
(***************************************************************************)
AllAbout(S, o) == \A s \in S : About(states[s].ids, o)
Fits(result, o) == \A s \in result.states : About(states[s.uid].ids, o)

Rooting == {"reading", "attaching", "relinking", "renewing", "getting"}
KeptBy(call) == {call.kept[i] : i \in DOMAIN call.kept}
HoldsRoot(call, r) ==
    /\ call.at \in Rooting
    /\ \/ r \in call.toRead
       \/ \E u \in call.usable : u.uid = r
       \/ call.at # "reading" /\ call.root = r

Identified(call, o) ==
    /\ o \in organizations /\ call.at \notin {"none", "homonyms"}
    /\ \A i \in DOMAIN call.left : About(call.left[i].ids, o)
    /\ AllAbout(KeptBy(call), o)
    /\ call.at = "updating" => About(states[call.state].ids, o) /\ About(call.copy.ids, o)
    /\ call.at \in Rooting => call.left = <<>>
    /\ call.left # <<>> \/ call.kept # <<>>
    /\ call.at = "returned" => Fits(call.result, o)
NamedOnly(call) ==
    /\ call.at \notin {"updating", "reading", "attaching", "relinking", "renewing"}
    /\ \A i \in DOMAIN call.left : call.left[i].ids = {}
    /\ Len(call.left) <= 1 /\ Len(call.kept) <= 1 /\ call.rootOnly = {}
    /\ call.left = <<>> \/ call.kept = <<>>
    /\ call.at = "getting" => call.kept = <<>>
Fresh(call) == call.at \in {"finding", "creating", "updating", "homonyms"} => call.usable = {}
CallAbout(call) == Fresh(call) /\ (NamedOnly(call) \/ \E o \in organizations : Identified(call, o))

(***************************************************************************)
(* The identifiers of a state are about one cluster; so are the states of  *)
(* a root, and those that workers keep which may attach them to it.        *)
(***************************************************************************)
StatesAbout ==
    \A s \in DOMAIN states : states[s].ids = {} \/ \E o \in organizations : About(states[s].ids, o)
RootAbout(r, o) ==
    /\ AllAbout(O!StatesOf(r), o)
    /\ \A w \in Worker : HoldsRoot(orgCall[w], r) => AllAbout(KeptBy(orgCall[w]), o)
RootsAbout == \A r \in DOMAIN roots : \E o \in organizations : RootAbout(r, o)
OrgAbout == StatesAbout /\ RootsAbout /\ \A w \in Worker : CallAbout(orgCall[w])

AboutGrows ==
    /\ organizations \subseteq organizations'
    /\ \A s \in DOMAIN states, o \in organizations :
        About(states[s].ids, o) => About(states[s].ids, o)'

LEMMA OrganizationsIn ==
    ASSUME OrgInv
    PROVE  organizations \subseteq SourceOrganization
BY DEF OrgInv, OrgGraph

LEMMA GrowsQuietly ==
    ASSUME organizations \subseteq organizations', UNCHANGED states
    PROVE  AboutGrows
<1>1. ASSUME NEW s \in DOMAIN states, NEW o \in organizations, About(states[s].ids, o)
      PROVE  About(states[s].ids, o)'
  <2>1. PICK I : I = states[s].ids
    OBVIOUS
  <2>2. About(I, o)'
    BY <1>1, <2>1, AboutGrowing
  <2>3. states'[s].ids = I
    BY <2>1
  <2>4. QED
    BY <2>2, <2>3
<1>2. QED
  BY <1>1 DEF AboutGrows

LEMMA StatesQuietly ==
    ASSUME organizations \subseteq organizations', UNCHANGED states, StatesAbout
    PROVE  StatesAbout'
<1>1. AboutGrows
  BY GrowsQuietly
<1>2. QED
  BY <1>1 DEF StatesAbout, AboutGrows

LEMMA IdentifiedStays ==
    ASSUME NEW call, CallOf(call), AboutGrows, NEW o, Identified(call, o)
    PROVE  Identified(call, o)'
<1>1. o \in organizations /\ o \in organizations'
  BY DEF Identified, AboutGrows
<1>2. \A I : About(I, o) => About(I, o)'
  BY AboutGrowing DEF AboutGrows
<1>3. AllAbout(KeptBy(call), o)'
  BY <1>1 DEF Identified, AllAbout, KeptBy, CallOf, AboutGrows
<1>4. call.at = "updating" => About(states[call.state].ids, o)'
  BY <1>1 DEF Identified, CallOf, AboutGrows
<1>5. call.at = "returned" => Fits(call.result, o)'
  BY <1>1 DEF Identified, Fits, CallOf, ResultOf, AboutGrows
<1>6. QED
  BY <1>1, <1>2, <1>3, <1>4, <1>5 DEF Identified

\* The other calls go on as they did.
Advance ==
    \A v \in Worker, o \in organizations : Identified(orgCall[v], o) => Identified(orgCall[v], o)'

LEMMA AboutStep ==
    ASSUME OrgInv, OrgAbout, AboutGrows, StatesAbout', RootsAbout',
           NEW w \in Worker, NEW call, orgCall' = [orgCall EXCEPT ![w] = call], Fresh(call),
           NamedOnly(orgCall[w]) => NamedOnly(call),
           \A o \in organizations : Identified(orgCall[w], o) => Identified(call, o)'
    PROVE  OrgAbout' /\ Advance
<1>1. orgCall \in [Worker -> CallRecords]
  BY DEF OrgInv
<1>2. ASSUME NEW v \in Worker, NEW o \in organizations, Identified(orgCall[v], o)
      PROVE  Identified(orgCall[v], o)'
  <2>1. CASE v = w
    <3>1. orgCall'[v] = call /\ Identified(call, o)'
      BY <1>1, <1>2, <2>1
    <3>2. QED
      BY <3>1 DEF Identified, AllAbout, KeptBy, Fits, Rooting
  <2>2. CASE v # w
    <3>1. PICK c : c = orgCall[v] /\ CallOf(c) /\ orgCall'[v] = c
      BY <1>1, <2>2, CallFields
    <3>2. Identified(c, o)'
      BY <1>2, <3>1, IdentifiedStays
    <3>3. QED
      BY <3>1, <3>2 DEF Identified, AllAbout, KeptBy, Fits, Rooting
  <2>3. QED
    BY <2>1, <2>2
<1>3. ASSUME NEW v \in Worker
      PROVE  CallAbout(orgCall[v])'
  <2>1. CallAbout(orgCall[v])
    BY DEF OrgAbout
  <2>2. Fresh(orgCall'[v]) /\ (NamedOnly(orgCall[v]) => NamedOnly(orgCall'[v]))
    <3>1. orgCall'[v] = IF v = w THEN call ELSE orgCall[v]
      BY <1>1
    <3>2. QED
      BY <2>1, <3>1 DEF CallAbout
  <2>3. CASE NamedOnly(orgCall[v])
    BY <2>2, <2>3 DEF CallAbout, Fresh, NamedOnly
  <2>4. CASE ~ NamedOnly(orgCall[v])
    <3>1. PICK o \in organizations : Identified(orgCall[v], o)
      BY <2>1, <2>4 DEF CallAbout
    <3>2. Identified(orgCall[v], o)' /\ o \in organizations'
      BY <1>2, <3>1 DEF AboutGrows
    <3>3. QED
      BY <2>2, <3>2 DEF CallAbout, Fresh
  <2>5. QED
    BY <2>3, <2>4
<1>4. QED
  BY <1>2, <1>3 DEF OrgAbout, Advance

\* A step after which a worker holds no root it did not hold.
LEMMA RootsKept ==
    ASSUME OrgInv, RootsAbout, AboutGrows, UNCHANGED hasStates, DOMAIN roots' = DOMAIN roots,
           NEW w \in Worker, NEW call, orgCall' = [orgCall EXCEPT ![w] = call],
           \A r : HoldsRoot(call, r) => HoldsRoot(orgCall[w], r) /\ KeptBy(call) = KeptBy(orgCall[w])
    PROVE  RootsAbout'
<1>1. /\ orgCall \in [Worker -> CallRecords] /\ \A v \in Worker : KeptBy(orgCall[v]) \subseteq DOMAIN states
      /\ hasStates \subseteq (DOMAIN roots) \X (DOMAIN states)
  BY DEF OrgInv, OrgGraph, CallOf, KeptBy
<1>2. ASSUME NEW r \in DOMAIN roots', NEW o \in organizations, RootAbout(r, o)
      PROVE  RootAbout(r, o)'
  <2>1. \A s : s \in O!StatesOf(r)' => s \in O!StatesOf(r) /\ s \in DOMAIN states
    BY <1>1 DEF O!StatesOf, O!State
  <2>2. AllAbout(O!StatesOf(r), o)'
    BY <1>2, <2>1 DEF RootAbout, AllAbout, AboutGrows
  <2>3. ASSUME NEW v \in Worker, HoldsRoot(orgCall'[v], r)
        PROVE  AllAbout(KeptBy(orgCall[v]), o)'
    <3>1. orgCall'[v] = IF v = w THEN call ELSE orgCall[v]
      BY <1>1
    <3>2. HoldsRoot(orgCall[v], r) /\ KeptBy(orgCall'[v]) = KeptBy(orgCall[v])
      BY <2>3, <3>1
    <3>3. \A s \in KeptBy(orgCall'[v]) : s \in DOMAIN states /\ About(states[s].ids, o)
      BY <1>1, <1>2, <3>2 DEF RootAbout, AllAbout
    <3>4. \A s \in KeptBy(orgCall'[v]) : About(states[s].ids, o)'
      BY <3>3 DEF AboutGrows
    <3>5. QED
      BY <3>4 DEF AllAbout, KeptBy
  <2>4. QED
    BY <2>2, <2>3 DEF RootAbout, HoldsRoot, Rooting
<1>3. QED
  BY <1>2 DEF RootsAbout, AboutGrows

LEMMA AboutQuiet ==
    ASSUME OrgInv, OrgAbout, UNCHANGED <<organizations, states, hasStates>>,
           DOMAIN roots' = DOMAIN roots,
           NEW w \in Worker, NEW call, orgCall' = [orgCall EXCEPT ![w] = call], Fresh(call),
           NamedOnly(orgCall[w]) => NamedOnly(call),
           \A o \in organizations : Identified(orgCall[w], o) => Identified(call, o),
           \A r : HoldsRoot(call, r) => HoldsRoot(orgCall[w], r) /\ KeptBy(call) = KeptBy(orgCall[w])
    PROVE  OrgAbout' /\ AboutGrows /\ Advance
<1>1. AboutGrows /\ StatesAbout'
  BY GrowsQuietly, StatesQuietly DEF OrgAbout
<1>2. RootsAbout'
  BY <1>1, RootsKept DEF OrgAbout
<1>3. ASSUME NEW o \in organizations, Identified(call, o)
      PROVE  Identified(call, o)'
  <2>1. \A I : About(I, o) => About(I, o)'
    BY AboutGrowing
  <2>2. QED
    BY <1>3, <2>1 DEF Identified, AllAbout, KeptBy, Fits
<1>4. QED
  BY <1>1, <1>2, <1>3, AboutStep

---------------------------------------------------------------------------
(* States are found. *)

LEMMA DesiredFirst ==
    ASSUME OrgInv, NEW w \in Worker, orgCall[w].left # <<>>
    PROVE  /\ 1 \in DOMAIN orgCall[w].left /\ O!Desired(w) = orgCall[w].left[1]
           /\ \A o : Identified(orgCall[w], o) => About(O!Desired(w).ids, o)
           /\ NamedOnly(orgCall[w]) => O!Desired(w).ids = {} /\ orgCall[w].kept = <<>>
<1>1. orgCall[w].left \in Seq(StateRecords)
  BY CallFields DEF CallRecords
<1>2. 1 \in DOMAIN orgCall[w].left /\ O!Desired(w) = orgCall[w].left[1]
  BY <1>1 DEF O!Desired
<1>3. QED
  BY <1>2 DEF Identified, NamedOnly

LEMMA AboutFindByIdentifiers ==
    ASSUME OrgInv, OrgAbout, NEW w \in Worker, O!FindByIdentifiers(w)
    PROVE  OrgAbout' /\ AboutGrows /\ Advance
<1>1. PICK c, d : /\ c = orgCall[w] /\ c \in CallRecords /\ CallOf(c) /\ CallAbout(c)
                  /\ d = O!Desired(w)
  BY CallFields DEF OrgAbout
<1>2. /\ c.at = "finding" /\ c.left # <<>> /\ d.ids # {} /\ organizations \subseteq SourceOrganization
      /\ UNCHANGED <<organizations, states, roots, hasStates>>
  BY <1>1, OrganizationsIn DEF O!FindByIdentifiers
<1>3. ~ NamedOnly(c) /\ (\A o : Identified(c, o) => About(d.ids, o)) /\ c.usable = {}
  BY <1>1, <1>2, DesiredFirst DEF CallAbout, Fresh
<1>4. CASE O!Goes(w, "creating")
  <2>1. PICK call : call = [c EXCEPT !.at = "creating"]
    OBVIOUS
  <2>2. orgCall' = [orgCall EXCEPT ![w] = call]
    BY <1>1, <1>4, <2>1 DEF O!Goes
  <2>3. call.at = "creating" /\ call.left = c.left /\ call.kept = c.kept /\ call.usable = {}
    BY <1>1, <1>3, <2>1 DEF CallRecords
  <2>4. \A o : Identified(c, o) => Identified(call, o)
    BY <1>2, <2>3 DEF Identified, KeptBy, Rooting
  <2>5. Fresh(call) /\ \A r : ~ HoldsRoot(call, r)
    BY <2>3 DEF Fresh, HoldsRoot, Rooting
  <2>6. QED
    BY <1>1, <1>2, <1>3, <2>2, <2>4, <2>5, AboutQuiet
<1>5. ASSUME NEW s \in O!Candidates(d),
             orgCall' = [orgCall EXCEPT
                    ![w].at = "updating", ![w].state = s,
                    ![w].copy = O!Completed(states[s], d)]
      PROVE  OrgAbout' /\ AboutGrows /\ Advance
  <2>1. PICK old, copy : old = states[s] /\ copy = O!Completed(old, d)
    OBVIOUS
  <2>2. s \in DOMAIN states /\ old \in StateRecords /\ old.ids \cap d.ids # {}
    BY <2>1, CallFields DEF O!Candidates, O!State, OrgGraph
  <2>3. copy.ids = old.ids \cup d.ids
    BY <2>1, <2>2 DEF O!Completed, StateRecords
  <2>4. PICK call : call = [c EXCEPT !.at = "updating", !.state = s, !.copy = copy]
    OBVIOUS
  <2>5. orgCall' = [orgCall EXCEPT ![w] = call]
    BY <1>1, <1>5, <2>1, <2>4, CallFields
  <2>6. /\ call.at = "updating" /\ call.left = c.left /\ call.kept = c.kept /\ call.usable = {}
        /\ call.state = s /\ call.copy = copy
    BY <1>1, <1>3, <2>4 DEF CallRecords
  <2>7. ASSUME NEW o \in organizations, Identified(c, o)
        PROVE  Identified(call, o)
    <3>1. PICK p \in organizations : About(old.ids, p)
      BY <2>1, <2>2 DEF OrgAbout, StatesAbout
    <3>2. About(d.ids, o) /\ About(old.ids, o)
      BY <1>2, <1>3, <2>2, <2>7, <3>1, AboutSame
    <3>3. About(copy.ids, o)
      BY <2>3, <3>2 DEF About
    <3>4. QED
      BY <1>2, <2>1, <2>6, <2>7, <3>2, <3>3 DEF Identified, KeptBy, Rooting
  <2>8. Fresh(call) /\ \A r : ~ HoldsRoot(call, r)
    BY <2>6 DEF Fresh, HoldsRoot, Rooting
  <2>9. QED
    BY <1>1, <1>2, <1>3, <2>5, <2>7, <2>8, AboutQuiet
<1>6. QED
  BY <1>1, <1>4, <1>5 DEF O!FindByIdentifiers

\* The first state left is settled, and kept.
Next1(c, s) == [c EXCEPT !.kept = Append(c.kept, s), !.left = Tail(c.left), !.at = "finding"]
LEMMA Keeping ==
    ASSUME NEW c \in CallRecords, c.left # <<>>, NEW s \in Nat
    PROVE  /\ Next1(c, s).at = "finding" /\ Next1(c, s).usable = c.usable
           /\ Next1(c, s).rootOnly = c.rootOnly /\ Next1(c, s).kept # <<>>
           /\ KeptBy(Next1(c, s)) = KeptBy(c) \cup {s}
           /\ \A i \in DOMAIN Next1(c, s).left : i + 1 \in DOMAIN c.left /\ Next1(c, s).left[i] = c.left[i + 1]
           /\ NamedOnly(c) => NamedOnly(Next1(c, s))
           /\ \A r : ~ HoldsRoot(Next1(c, s), r)
<1>1. PICK call : call = Next1(c, s)
  OBVIOUS
<1>2. PICK kept, left, n, m : /\ kept = c.kept /\ left = c.left /\ kept \in Seq(Nat)
                              /\ left \in Seq(StateRecords) /\ n = Len(kept) /\ m = Len(left)
                              /\ n \in Nat /\ m \in Nat \ {0}
  <2>1. c.kept \in Seq(Nat) /\ c.left \in Seq(StateRecords)
    BY DEF CallRecords
  <2>2. Len(c.kept) \in Nat /\ Len(c.left) \in Nat \ {0}
    BY <2>1
  <2>3. QED
    BY <2>1, <2>2
<1>3. /\ call.kept = Append(kept, s) /\ call.left = Tail(left) /\ call.at = "finding"
      /\ call.usable = c.usable /\ call.rootOnly = c.rootOnly
  BY <1>1, <1>2 DEF Next1, CallRecords
<1>4. /\ Len(call.kept) = n + 1 /\ call.kept # <<>> /\ DOMAIN call.kept = 1 .. n + 1
      /\ DOMAIN kept = 1 .. n
      /\ \A i \in 1 .. n + 1 : call.kept[i] = IF i = n + 1 THEN s ELSE kept[i]
  BY <1>2, <1>3
<1>5. KeptBy(call) = KeptBy(c) \cup {s}
  <2>1. \A x : x \in KeptBy(call) <=> \E i \in 1 .. n + 1 : x = call.kept[i]
    BY <1>4 DEF KeptBy
  <2>2. \A x : x \in KeptBy(c) <=> \E i \in 1 .. n : x = kept[i]
    BY <1>2, <1>4 DEF KeptBy
  <2>3. \A x : (\E i \in 1 .. n + 1 : x = call.kept[i]) <=> (x = s \/ \E i \in 1 .. n : x = kept[i])
    <3>1. n + 1 \in 1 .. n + 1 /\ call.kept[n + 1] = s
      BY <1>2, <1>4
    <3>2. \A i \in 1 .. n : i \in 1 .. n + 1 /\ call.kept[i] = kept[i]
      BY <1>2, <1>4
    <3>3. \A i \in 1 .. n + 1 : i = n + 1 \/ i \in 1 .. n
      BY <1>2
    <3>4. QED
      BY <3>1, <3>2, <3>3
  <2>4. QED
    BY <2>1, <2>2, <2>3
<1>6. /\ Len(call.left) = m - 1 /\ DOMAIN call.left = 1 .. m - 1 /\ DOMAIN left = 1 .. m
      /\ \A i \in 1 .. m - 1 : call.left[i] = left[i + 1]
      /\ m = 1 => call.left = <<>>
  <2>1. left # <<>> /\ DOMAIN left = 1 .. m
    BY <1>2
  <2>2. /\ Tail(left) \in Seq(StateRecords) /\ Len(Tail(left)) = m - 1
        /\ \A i \in 1 .. m - 1 : Tail(left)[i] = left[i + 1]
    BY <1>2, <2>1
  <2>3. m = 1 => Tail(left) = <<>>
    <3>1. \A q \in Seq(StateRecords) : Len(q) = 0 => q = <<>>
      OBVIOUS
    <3>2. Tail(left) \in Seq(StateRecords) /\ (m = 1 => Len(Tail(left)) = 0)
      BY <1>2, <2>2
    <3>3. QED
      BY <3>1, <3>2
  <2>4. QED
    BY <1>2, <1>3, <2>1, <2>2, <2>3
<1>7. \A i \in DOMAIN call.left : i + 1 \in DOMAIN c.left /\ call.left[i] = c.left[i + 1]
  BY <1>2, <1>6
<1>8. ASSUME NamedOnly(c)
      PROVE  NamedOnly(call)
  <2>1. n = 0 /\ m = 1
    <3>1. kept = <<>> /\ m <= 1
      BY <1>2, <1>8 DEF NamedOnly
    <3>2. Len(<<>>) = 0
      OBVIOUS
    <3>3. n = Len(kept) /\ m \in Nat \ {0}
      BY <1>2
    <3>4. n = 0
      BY <3>1, <3>2, <3>3
    <3>5. m = 1
      BY <3>1, <3>3
    <3>6. QED
      BY <3>4, <3>5
  <2>2. Len(call.kept) <= 1 /\ Len(call.left) <= 1 /\ call.left = <<>> /\ call.rootOnly = {}
    BY <1>3, <1>4, <1>6, <1>8, <2>1 DEF NamedOnly
  <2>3. QED
    BY <1>3, <1>6, <2>1, <2>2 DEF NamedOnly
<1>9. \A r : ~ HoldsRoot(call, r)
  BY <1>3 DEF HoldsRoot, Rooting
<1>10. QED
  BY <1>1, <1>3, <1>4, <1>5, <1>7, <1>8, <1>9

LEMMA KeepsNext ==
    ASSUME OrgInv, NEW w \in Worker, NEW s, O!Keeps(w, s)
    PROVE  orgCall' = [orgCall EXCEPT ![w] = Next1(orgCall[w], s)]
<1>1. PICK c : c = orgCall[w] /\ c \in CallRecords
  BY CallFields
<1>2. orgCall \in [Worker -> CallRecords]
  BY CallFields
<1>3. orgCall' = [orgCall EXCEPT ![w] = [c EXCEPT !.kept = Append(@, s), !.left = Tail(@),
                                                  !.at = "finding"]]
  BY <1>1, <1>2 DEF O!Keeps
<1>4. [c EXCEPT !.kept = Append(@, s), !.left = Tail(@), !.at = "finding"] = Next1(c, s)
  BY <1>1 DEF Next1, CallRecords
<1>5. QED
  BY <1>1, <1>3, <1>4

\* Steps of a call that only moves on by names.
LEMMA AboutByName ==
    ASSUME OrgInv, OrgAbout, UNCHANGED <<organizations, states, roots, hasStates>>,
           NEW w \in Worker, \A o \in organizations : ~ Identified(orgCall[w], o),
           NEW call, orgCall' = [orgCall EXCEPT ![w] = call],
           NamedOnly(call) /\ Fresh(call), \A r : HoldsRoot(call, r) => KeptBy(call) = {}
    PROVE  OrgAbout' /\ AboutGrows /\ Advance
<1>1. AboutGrows /\ StatesAbout'
  BY GrowsQuietly, StatesQuietly DEF OrgAbout
<1>2. RootsAbout'
  <2>1. /\ orgCall \in [Worker -> CallRecords]
        /\ hasStates \subseteq (DOMAIN roots) \X (DOMAIN states) /\ RootsAbout
    BY DEF OrgInv, OrgGraph, OrgAbout
  <2>2. ASSUME NEW r \in DOMAIN roots', NEW o \in organizations, RootAbout(r, o)
        PROVE  RootAbout(r, o)'
    <3>1. \A I : About(I, o) => About(I, o)'
      BY AboutGrowing
    <3>2. AllAbout(O!StatesOf(r), o)'
      BY <2>2, <3>1 DEF RootAbout, AllAbout, O!StatesOf, O!State
    <3>3. ASSUME NEW v \in Worker, HoldsRoot(orgCall'[v], r)
          PROVE  AllAbout(KeptBy(orgCall[v]), o)'
      <4>1. orgCall'[v] = IF v = w THEN call ELSE orgCall[v]
        BY <2>1
      <4>2. \A s \in KeptBy(orgCall'[v]) : About(states[s].ids, o)
        BY <2>2, <3>3, <4>1 DEF RootAbout, AllAbout
      <4>3. \A s \in KeptBy(orgCall'[v]) : About(states[s].ids, o)'
        BY <3>1, <4>2
      <4>4. QED
        BY <4>3 DEF AllAbout, KeptBy
    <3>4. QED
      BY <3>2, <3>3 DEF RootAbout, HoldsRoot, Rooting
  <2>3. QED
    BY <2>1, <2>2 DEF RootsAbout
<1>3. QED
  BY <1>1, <1>2, AboutStep

LEMMA NamedWhenBare ==
    ASSUME OrgInv, OrgAbout, NEW w \in Worker, orgCall[w].left # <<>>, O!Desired(w).ids = {}
    PROVE  NamedOnly(orgCall[w]) /\ \A o : ~ Identified(orgCall[w], o)
<1>1. \A o : ~ Identified(orgCall[w], o)
  BY DesiredFirst DEF About
<1>2. QED
  BY <1>1 DEF OrgAbout, CallAbout

LEMMA AboutFindByName ==
    ASSUME OrgInv, OrgAbout, NEW w \in Worker, O!FindByName(w)
    PROVE  OrgAbout' /\ AboutGrows /\ Advance
<1>1. PICK c, namesakes, bare :
        /\ c = orgCall[w] /\ c \in CallRecords /\ CallAbout(c)
        /\ namesakes = {s \in O!State : states[s].name = O!Desired(w).name}
        /\ bare = {s \in namesakes : states[s].ids = {}}
  BY CallFields DEF OrgAbout
<1>2. /\ c.at = "finding" /\ c.left # <<>> /\ O!Desired(w).ids = {}
      /\ UNCHANGED <<organizations, states, roots, hasStates>>
      /\ \/ O!Goes(w, "creating")
         \/ \E s \in namesakes : O!Keeps(w, s)
         \/ orgCall' = [orgCall EXCEPT ![w].at = "homonyms", ![w].homonyms = namesakes]
  BY <1>1 DEF O!FindByName
<1>3. NamedOnly(c) /\ (\A o : ~ Identified(c, o)) /\ c.usable = {}
  BY <1>1, <1>2, NamedWhenBare DEF CallAbout, Fresh
<1>4. orgCall \in [Worker -> CallRecords] /\ \A s \in namesakes : s \in Nat
  BY <1>1, CallFields DEF O!State, OrgGraph
<1>5. CASE O!Goes(w, "creating")
  <2>1. PICK call : call = [c EXCEPT !.at = "creating"]
    OBVIOUS
  <2>2. orgCall' = [orgCall EXCEPT ![w] = call]
    BY <1>1, <1>5, <2>1 DEF O!Goes
  <2>3. /\ call.at = "creating" /\ call.left = c.left /\ call.kept = c.kept /\ call.usable = {}
        /\ call.rootOnly = c.rootOnly
    BY <1>1, <1>3, <2>1 DEF CallRecords
  <2>4. NamedOnly(call) /\ Fresh(call) /\ \A r : ~ HoldsRoot(call, r)
    BY <1>3, <2>3 DEF NamedOnly, Fresh, HoldsRoot, Rooting
  <2>5. QED
    BY <1>1, <1>2, <1>3, <2>2, <2>4, AboutByName
<1>6. ASSUME NEW s \in namesakes, O!Keeps(w, s)
      PROVE  OrgAbout' /\ AboutGrows /\ Advance
  <2>1. PICK call : call = Next1(c, s) /\ orgCall' = [orgCall EXCEPT ![w] = call]
    BY <1>1, <1>6, KeepsNext
  <2>2. NamedOnly(call) /\ Fresh(call) /\ \A r : ~ HoldsRoot(call, r)
    BY <1>1, <1>2, <1>3, <1>4, <2>1, Keeping DEF Fresh
  <2>3. QED
    BY <1>1, <1>2, <1>3, <2>1, <2>2, AboutByName
<1>7. CASE orgCall' = [orgCall EXCEPT ![w].at = "homonyms", ![w].homonyms = namesakes]
  <2>1. PICK call : call = [c EXCEPT !.at = "homonyms", !.homonyms = namesakes]
    OBVIOUS
  <2>2. orgCall' = [orgCall EXCEPT ![w] = call]
    BY <1>1, <1>4, <1>7, <2>1
  <2>3. /\ call.at = "homonyms" /\ call.left = c.left /\ call.kept = c.kept /\ call.usable = {}
        /\ call.rootOnly = c.rootOnly
    BY <1>1, <1>3, <2>1 DEF CallRecords
  <2>4. NamedOnly(call) /\ Fresh(call) /\ \A r : ~ HoldsRoot(call, r)
    BY <1>3, <2>3 DEF NamedOnly, Fresh, HoldsRoot, Rooting
  <2>5. QED
    BY <1>1, <1>2, <1>3, <2>2, <2>4, AboutByName
<1>8. QED
  BY <1>2, <1>5, <1>6, <1>7

LEMMA AboutLeaveOut ==
    ASSUME OrgInv, OrgAbout, NEW w \in Worker, O!LeaveOut(w)
    PROVE  OrgAbout' /\ AboutGrows /\ Advance
<1>1. PICK c, left, m : /\ c = orgCall[w] /\ c \in CallRecords /\ CallAbout(c) /\ left = Tail(c.left)
                        /\ m = Len(c.left)
  BY CallFields DEF OrgAbout
<1>2. /\ c.at = "finding" /\ c.left # <<>> /\ O!Desired(w).ids = {}
      /\ UNCHANGED <<organizations, states, roots, hasStates>>
  BY <1>1 DEF O!LeaveOut
<1>3. NamedOnly(c) /\ (\A o : ~ Identified(c, o)) /\ c.usable = {}
  BY <1>1, <1>2, NamedWhenBare DEF CallAbout, Fresh
<1>4. PICK call : call = [c EXCEPT !.left = left]
  OBVIOUS
<1>5. orgCall' = [orgCall EXCEPT ![w] = call]
  <2>1. orgCall' = [orgCall EXCEPT ![w].left = Tail(@)]
    BY DEF O!LeaveOut
  <2>2. QED
    BY <1>1, <1>4, <2>1, CallFields
<1>6. /\ call.at = "finding" /\ call.left = left /\ call.kept = c.kept /\ call.usable = {}
      /\ call.rootOnly = c.rootOnly
  BY <1>1, <1>2, <1>3, <1>4 DEF CallRecords
<1>7. left = <<>>
  <2>1. c.left \in Seq(StateRecords) /\ c.left # <<>> /\ m <= 1
    BY <1>1, <1>2, <1>3 DEF CallRecords, NamedOnly
  <2>2. m \in Nat \ {0} /\ Tail(c.left) \in Seq(StateRecords) /\ Len(Tail(c.left)) = m - 1
    BY <1>1, <2>1
  <2>3. Len(Tail(c.left)) = 0
    <3>1. m <= 1 /\ m \in Nat \ {0}
      BY <2>1, <2>2
    <3>2. m - 1 = 0
      BY <3>1
    <3>3. Len(Tail(c.left)) = m - 1
      BY <2>2
    <3>4. QED
      BY <3>2, <3>3, Zenon
  <2>4. \A q \in Seq(StateRecords) : Len(q) = 0 => q = <<>>
    OBVIOUS
  <2>5. QED
    BY <1>1, <2>2, <2>3, <2>4
<1>8. Len(<<>>) = 0 /\ DOMAIN <<>> = {}
  OBVIOUS
<1>9. NamedOnly(call) /\ Fresh(call) /\ \A r : ~ HoldsRoot(call, r)
  BY <1>3, <1>6, <1>7, <1>8 DEF NamedOnly, Fresh, HoldsRoot, Rooting
<1>10. QED
  BY <1>1, <1>2, <1>3, <1>5, <1>9, AboutByName

LEMMA AboutFindHomonymsRoot ==
    ASSUME OrgInv, OrgAbout, NEW w \in Worker, O!FindHomonymsRoot(w)
    PROVE  OrgAbout' /\ AboutGrows /\ Advance
<1>1. PICK c : c = orgCall[w] /\ c \in CallRecords /\ CallAbout(c) /\ CallOf(c)
  BY CallFields DEF OrgAbout
<1>2. c.at = "homonyms" /\ UNCHANGED <<organizations, states, roots, hasStates>> /\ c.left # <<>>
  BY <1>1 DEF O!FindHomonymsRoot, CallOf
<1>3. NamedOnly(c) /\ (\A o : ~ Identified(c, o)) /\ c.usable = {} /\ c.kept = <<>>
  BY <1>1, <1>2 DEF CallAbout, Fresh, Identified, NamedOnly
<1>4. PICK place, r : orgCall' = [orgCall EXCEPT ![w] = [c EXCEPT !.at = place, !.root = r]]
                      /\ place \in {"getting", "creating"}
  <2>1. \/ O!Goes(w, "creating")
        \/ \E r : orgCall' = [orgCall EXCEPT ![w].at = "getting", ![w].root = r]
    BY DEF O!FindHomonymsRoot
  <2>2. CASE O!Goes(w, "creating")
    <3>1. orgCall' = [orgCall EXCEPT ![w] = [c EXCEPT !.at = "creating"]]
      BY <1>1, <2>2 DEF O!Goes
    <3>2. [c EXCEPT !.at = "creating"] = [c EXCEPT !.at = "creating", !.root = c.root]
      BY <1>1 DEF CallRecords
    <3>3. QED
      BY <3>1, <3>2
  <2>3. ASSUME NEW r, orgCall' = [orgCall EXCEPT ![w].at = "getting", ![w].root = r]
        PROVE  orgCall' = [orgCall EXCEPT ![w] = [c EXCEPT !.at = "getting", !.root = r]]
    BY <1>1, <2>3, CallFields
  <2>4. QED
    BY <2>1, <2>2, <2>3
<1>5. PICK call : call = [c EXCEPT !.at = place, !.root = r]
  OBVIOUS
<1>6. /\ call.at = place /\ call.left = c.left /\ call.kept = <<>> /\ call.usable = {}
      /\ call.rootOnly = c.rootOnly
  BY <1>1, <1>3, <1>5 DEF CallRecords
<1>7. NamedOnly(call) /\ Fresh(call) /\ KeptBy(call) = {}
  BY <1>3, <1>4, <1>6 DEF NamedOnly, Fresh, KeptBy
<1>8. QED
  BY <1>1, <1>2, <1>3, <1>4, <1>5, <1>7, AboutByName

---------------------------------------------------------------------------
(* States are created and completed. *)

LEMMA AboutWritten ==
    ASSUME OrgInv, OrgAbout, UNCHANGED <<organizations, roots, hasStates>>,
           NEW w \in Worker, orgCall[w].left # <<>>, orgCall[w].at \in {"creating", "updating"},
           NEW s \in Nat, NEW state, O!Told(w, s, state), DOMAIN states' = DOMAIN states \cup {s},
           NEW ids, states'[s].ids = ids,
           \A t \in DOMAIN states \ {s} : states'[t].ids = states[t].ids,
           NamedOnly(orgCall[w]) => ids = {},
           \A o : Identified(orgCall[w], o) => About(ids, o),
           s \in DOMAIN states => \A o \in organizations : About(states[s].ids, o) => About(ids, o)
    PROVE  OrgAbout' /\ AboutGrows /\ Advance
<1>1. \A I, o : About(I, o) => About(I, o)'
  BY AboutGrowing
<1>2. AboutGrows
  <2>1. ASSUME NEW t \in DOMAIN states, NEW o \in organizations, About(states[t].ids, o)
        PROVE  About(states[t].ids, o)'
    <3>1. PICK I : I = states'[t].ids /\ About(I, o)
      BY <2>1
    <3>2. About(I, o)'
      BY <1>1, <3>1
    <3>3. QED
      BY <3>1, <3>2
  <2>2. QED
    BY <2>1 DEF AboutGrows
<1>3. PICK c : /\ c = orgCall[w] /\ c \in CallRecords /\ CallOf(c) /\ CallAbout(c)
               /\ c.left # <<>> /\ c.usable = {}
  BY CallFields DEF OrgAbout, CallAbout, Fresh
<1>4. StatesAbout'
  <2>1. ASSUME NEW t \in DOMAIN states'
        PROVE  states'[t].ids = {} \/ \E o \in organizations' : About(states[t].ids, o)'
    <3>1. CASE t # s
      <4>1. t \in DOMAIN states /\ states'[t].ids = states[t].ids
        BY <2>1, <3>1
      <4>2. states[t].ids = {} \/ \E o \in organizations : About(states[t].ids, o)
        BY <4>1 DEF OrgAbout, StatesAbout
      <4>3. QED
        BY <1>2, <4>1, <4>2 DEF AboutGrows
    <3>2. CASE t = s /\ NamedOnly(c)
      BY <1>3, <3>2
    <3>3. ASSUME t = s, NEW o \in organizations, Identified(c, o)
          PROVE  About(states[t].ids, o)'
      <4>1. About(ids, o)'
        BY <1>1, <1>3, <3>3
      <4>2. QED
        BY <3>3, <4>1
    <3>4. QED
      BY <1>3, <3>1, <3>2, <3>3 DEF CallAbout
  <2>2. QED
    BY <2>1 DEF StatesAbout
<1>5. PICK call : /\ call = Next1(c, s) \/ call = [c EXCEPT !.at = "refused"]
                  /\ orgCall' = [orgCall EXCEPT ![w] = call]
  BY <1>3, KeepsNext DEF O!Told, O!Goes
<1>6. /\ call.at \in {"finding", "refused"} /\ call.usable = {}
      /\ call.left # <<>> \/ call.kept # <<>>
      /\ KeptBy(call) \subseteq KeptBy(c) \cup {s}
      /\ \A i \in DOMAIN call.left : \E j \in DOMAIN c.left : call.left[i] = c.left[j]
      /\ NamedOnly(c) => NamedOnly(call)
      /\ \A r : ~ HoldsRoot(call, r)
  <2>1. CASE call = Next1(c, s)
    BY <1>3, <2>1, Keeping
  <2>2. CASE call = [c EXCEPT !.at = "refused"]
    <3>1. /\ call.at = "refused" /\ call.left = c.left /\ call.kept = c.kept
          /\ call.usable = c.usable /\ call.rootOnly = c.rootOnly
      BY <1>3, <2>2 DEF CallRecords
    <3>2. QED
      BY <1>3, <3>1 DEF NamedOnly, HoldsRoot, Rooting, KeptBy
  <2>3. QED
    BY <1>5, <2>1, <2>2
<1>7. RootsAbout'
  BY <1>2, <1>5, <1>6, RootsKept DEF OrgAbout
<1>8. ASSUME NEW o \in organizations, Identified(c, o)
      PROVE  Identified(call, o)'
  <2>1. \A i \in DOMAIN call.left : About(call.left[i].ids, o)'
    BY <1>1, <1>6, <1>8 DEF Identified
  <2>2. ASSUME NEW t \in KeptBy(call)
        PROVE  About(states[t].ids, o)'
    <3>1. CASE t \in KeptBy(c)
      BY <1>2, <1>3, <1>8, <3>1 DEF Identified, AllAbout, AboutGrows, CallOf, KeptBy
    <3>2. CASE t = s
      <4>1. About(ids, o)'
        BY <1>1, <1>3, <1>8
      <4>2. QED
        BY <3>2, <4>1
    <3>3. QED
      BY <1>6, <2>2, <3>1, <3>2
  <2>3. AllAbout(KeptBy(call), o)'
    BY <2>2 DEF AllAbout, KeptBy
  <2>4. QED
    BY <1>6, <2>1, <2>3 DEF Identified, Rooting
<1>9. Fresh(call)
  BY <1>6 DEF Fresh
<1>10. QED
  BY <1>2, <1>3, <1>4, <1>5, <1>6, <1>7, <1>8, <1>9, AboutStep

LEMMA AboutCreate ==
    ASSUME OrgInv, OrgAbout, NEW w \in Worker, O!Create(w)
    PROVE  OrgAbout' /\ AboutGrows /\ Advance
<1>1. orgCall[w].at = "creating" /\ UNCHANGED <<organizations, roots, hasStates>>
  BY DEF O!Create
<1>2. orgCall[w].left # <<>> /\ states \in Seq(StateRecords)
  BY <1>1, CallFields DEF CallOf, OrgGraph
<1>3. PICK d : d = O!Desired(w) /\ d \in StateRecords
  BY <1>2, DesiredOf
<1>4. /\ NamedOnly(orgCall[w]) => d.ids = {}
      /\ \A o : Identified(orgCall[w], o) => About(d.ids, o)
  BY <1>2, <1>3, DesiredFirst
<1>5. CASE states' = Append(states, d) /\ O!Told(w, Len(states) + 1, d)
  <2>1. PICK n : n = Len(states) + 1 /\ n \in Nat /\ n \notin DOMAIN states
    BY <1>2
  <2>2. /\ DOMAIN states' = DOMAIN states \cup {n} /\ states'[n] = d
        /\ \A t \in DOMAIN states : states'[t] = states[t]
    BY <1>2, <1>3, <1>5, <2>1
  <2>3. QED
    BY <1>1, <1>2, <1>4, <1>5, <2>1, <2>2, AboutWritten
<1>6. ASSUME NEW s \in O!Signed(d.ids), states' = [states EXCEPT ![s] = d], O!Told(w, s, d)
      PROVE  OrgAbout' /\ AboutGrows /\ Advance
  <2>1. s \in DOMAIN states /\ states[s].ids = d.ids /\ s \in Nat
    BY <1>2 DEF O!Signed, O!State
  <2>2. /\ DOMAIN states' = DOMAIN states \cup {s} /\ states'[s] = d
        /\ \A t \in DOMAIN states \ {s} : states'[t] = states[t]
    BY <1>2, <1>3, <1>6, <2>1
  <2>3. QED
    BY <1>1, <1>2, <1>4, <1>6, <2>1, <2>2, AboutWritten
<1>7. QED
  BY <1>3, <1>5, <1>6 DEF O!Create

LEMMA AboutUpdate ==
    ASSUME OrgInv, OrgAbout, NEW w \in Worker, O!Update(w)
    PROVE  OrgAbout' /\ AboutGrows /\ Advance
<1>1. PICK c, s, copy : /\ c = orgCall[w] /\ c \in CallRecords /\ CallOf(c) /\ CallAbout(c)
                        /\ s = c.state /\ copy = c.copy
  BY CallFields DEF OrgAbout
<1>2. /\ c.at = "updating" /\ UNCHANGED <<organizations, roots, hasStates>>
      /\ organizations \subseteq SourceOrganization /\ states \in Seq(StateRecords)
  BY <1>1, CallFields, OrganizationsIn DEF O!Update, OrgGraph
<1>3. c.left # <<>> /\ s \in DOMAIN states /\ s \in Nat /\ ~ NamedOnly(c) /\ c.usable = {}
  BY <1>1, <1>2 DEF CallOf, NamedOnly, CallRecords, CallAbout, Fresh
<1>4. PICK p \in organizations : Identified(c, p)
  BY <1>1, <1>3 DEF CallAbout
<1>5. CASE O!Goes(w, "failed") /\ UNCHANGED states
  <2>1. PICK call : call = [c EXCEPT !.at = "failed"]
    OBVIOUS
  <2>2. orgCall' = [orgCall EXCEPT ![w] = call]
    BY <1>1, <1>5, <2>1 DEF O!Goes
  <2>3. call.at = "failed" /\ call.left = c.left /\ call.kept = c.kept
    BY <1>1, <2>1 DEF CallRecords
  <2>4. \A o : Identified(c, o) => Identified(call, o)
    BY <2>3 DEF Identified, KeptBy, Rooting
  <2>5. Fresh(call) /\ \A r : ~ HoldsRoot(call, r)
    BY <2>3 DEF Fresh, HoldsRoot, Rooting
  <2>6. QED
    BY <1>1, <1>2, <1>3, <1>5, <2>2, <2>4, <2>5, AboutQuiet
<1>6. CASE states' = [states EXCEPT ![s] = copy] /\ O!Told(w, s, copy)
  <2>1. /\ DOMAIN states' = DOMAIN states \cup {s} /\ states'[s] = copy
        /\ \A t \in DOMAIN states \ {s} : states'[t] = states[t]
    BY <1>2, <1>3, <1>6
  <2>2. \A o : Identified(c, o) => About(copy.ids, o)
    BY <1>1, <1>2 DEF Identified
  <2>3. ASSUME NEW o \in organizations, About(states[s].ids, o)
        PROVE  About(copy.ids, o)
    <3>1. PICK I : I = states[s].ids /\ About(I, p) /\ About(I, o) /\ I \cap I # {}
      BY <1>1, <1>2, <1>4, <2>3 DEF Identified, About
    <3>2. IdsOf(p) = IdsOf(o)
      BY <1>2, <3>1, AboutSame
    <3>3. QED
      BY <1>4, <2>2, <3>2 DEF About
  <2>4. QED
    BY <1>1, <1>2, <1>3, <1>6, <2>1, <2>2, <2>3, AboutWritten
<1>7. QED
  BY <1>1, <1>5, <1>6 DEF O!Update

---------------------------------------------------------------------------
(* The root of the states. *)

LEMMA AboutReturnState ==
    ASSUME OrgInv, OrgAbout, NEW w \in Worker, O!ReturnState(w)
    PROVE  OrgAbout' /\ AboutGrows /\ Advance
<1>1. PICK c, result :
        /\ c = orgCall[w] /\ c \in CallRecords /\ CallAbout(c)
        /\ result = [root |-> 0, states |-> {[uid |-> s, orgs |-> {}] : s \in O!Kept(w)}]
  BY CallFields DEF OrgAbout
<1>2. c.at = "finding" /\ UNCHANGED <<organizations, states, roots, hasStates>>
  BY <1>1 DEF O!ReturnState
<1>3. PICK call : call = [c EXCEPT !.at = "returned", !.result = result]
  OBVIOUS
<1>4. orgCall' = [orgCall EXCEPT ![w] = call]
  BY <1>1, <1>3, CallFields DEF O!ReturnState
<1>5. /\ call.at = "returned" /\ call.left = c.left /\ call.kept = c.kept
      /\ call.rootOnly = c.rootOnly /\ call.result = result
  BY <1>1, <1>3 DEF CallRecords
<1>6. \A o : AllAbout(KeptBy(c), o) => Fits(result, o)
  <2>1. \A f \in result.states : f.uid \in KeptBy(c)
    BY <1>1 DEF O!Kept, KeptBy
  <2>2. QED
    BY <2>1 DEF AllAbout, Fits
<1>7. \A o : Identified(c, o) => Identified(call, o)
  BY <1>2, <1>5, <1>6 DEF Identified, KeptBy, Rooting
<1>8. Fresh(call) /\ (NamedOnly(c) => NamedOnly(call)) /\ \A r : ~ HoldsRoot(call, r)
  BY <1>2, <1>5 DEF Fresh, NamedOnly, HoldsRoot, Rooting
<1>9. QED
  BY <1>1, <1>2, <1>4, <1>7, <1>8, AboutQuiet

\* The roots after a step that leaves the states: each may be about the same cluster as before.
LEMMA RootsNext ==
    ASSUME OrgInv, AboutGrows, NEW w \in Worker, NEW call, orgCall' = [orgCall EXCEPT ![w] = call],
           KeptBy(call) \subseteq DOMAIN states, \A l \in hasStates' : l[2] \in DOMAIN states,
           \A r \in DOMAIN roots' : \E o \in organizations :
              /\ \A s : <<r, s>> \in hasStates' => About(states[s].ids, o)
              /\ \A v \in Worker \ {w} : HoldsRoot(orgCall[v], r) => AllAbout(KeptBy(orgCall[v]), o)
              /\ HoldsRoot(call, r) => AllAbout(KeptBy(call), o)
    PROVE  RootsAbout'
<1>1. orgCall \in [Worker -> CallRecords] /\ \A v \in Worker : KeptBy(orgCall[v]) \subseteq DOMAIN states
  BY DEF OrgInv, CallOf, KeptBy
<1>2. ASSUME NEW r \in DOMAIN roots'
      PROVE  \E o \in organizations' : RootAbout(r, o)'
  <2>1. PICK o \in organizations :
          /\ \A s : <<r, s>> \in hasStates' => About(states[s].ids, o)
          /\ \A v \in Worker \ {w} : HoldsRoot(orgCall[v], r) => AllAbout(KeptBy(orgCall[v]), o)
          /\ HoldsRoot(call, r) => AllAbout(KeptBy(call), o)
    OBVIOUS
  <2>2. \A s \in O!StatesOf(r)' : s \in DOMAIN states /\ About(states[s].ids, o)
    BY <2>1 DEF O!StatesOf
  <2>3. AllAbout(O!StatesOf(r), o)'
    BY <2>2 DEF AllAbout, AboutGrows
  <2>4. ASSUME NEW v \in Worker, HoldsRoot(orgCall'[v], r)
        PROVE  AllAbout(KeptBy(orgCall[v]), o)'
    <3>1. orgCall'[v] = IF v = w THEN call ELSE orgCall[v]
      BY <1>1
    <3>2. \A s \in KeptBy(orgCall'[v]) : s \in DOMAIN states /\ About(states[s].ids, o)
      BY <1>1, <2>1, <2>4, <3>1 DEF AllAbout
    <3>3. \A s \in KeptBy(orgCall'[v]) : About(states[s].ids, o)'
      BY <3>2 DEF AboutGrows
    <3>4. QED
      BY <3>3 DEF AllAbout, KeptBy
  <2>5. QED
    BY <2>3, <2>4 DEF RootAbout, HoldsRoot, Rooting, AboutGrows
<1>3. QED
  BY <1>2 DEF RootsAbout

LEMMA RootWitness ==
    ASSUME OrgInv, OrgAbout, NEW r \in DOMAIN roots
    PROVE  \E o \in organizations :
              /\ \A s : <<r, s>> \in hasStates => s \in DOMAIN states /\ About(states[s].ids, o)
              /\ \A v \in Worker : HoldsRoot(orgCall[v], r) => AllAbout(KeptBy(orgCall[v]), o)
<1>1. hasStates \subseteq (DOMAIN roots) \X (DOMAIN states)
  BY DEF OrgInv, OrgGraph
<1>2. QED
  BY <1>1 DEF OrgAbout, RootsAbout, RootAbout, AllAbout, O!StatesOf, O!State

LEMMA AboutFindRoots ==
    ASSUME OrgInv, OrgAbout, NEW w \in Worker, O!FindRoots(w)
    PROVE  OrgAbout' /\ AboutGrows /\ Advance
<1>1. PICK c, found : /\ c = orgCall[w] /\ c \in CallRecords /\ CallOf(c) /\ CallAbout(c)
                      /\ found = O!RootsOf(O!Kept(w))
  BY CallFields DEF OrgAbout
<1>2. /\ c.at = "finding" /\ c.left = <<>> /\ (Len(c.kept) > 1 \/ c.rootOnly # {})
      /\ UNCHANGED <<organizations, states, roots, hasStates>>
      /\ organizations \subseteq SourceOrganization
  BY <1>1, OrganizationsIn DEF O!FindRoots
<1>3. ~ NamedOnly(c) /\ c.usable = {}
  <2>1. Len(c.kept) \in Nat
    BY <1>1 DEF CallRecords
  <2>2. QED
    BY <1>1, <1>2, <2>1 DEF NamedOnly, CallAbout, Fresh
<1>4. PICK p \in organizations : Identified(c, p)
  BY <1>1, <1>3 DEF CallAbout
<1>5. PICK call, known : /\ call = [c EXCEPT !.at = "reading", !.toRead = found, !.known = known]
                         /\ orgCall' = [orgCall EXCEPT ![w] = call]
  BY <1>1, CallFields DEF O!FindRoots
<1>6. /\ call.at = "reading" /\ call.left = c.left /\ call.kept = c.kept /\ call.usable = {}
      /\ call.toRead = found
  BY <1>1, <1>3, <1>5 DEF CallRecords
<1>7. \A o : Identified(c, o) => Identified(call, o)
  BY <1>2, <1>6 DEF Identified, KeptBy
<1>8. AboutGrows /\ StatesAbout' /\ (\A I, o : About(I, o) => About(I, o)')
  BY <1>2, GrowsQuietly, StatesQuietly, AboutGrowing DEF OrgAbout
<1>9. KeptBy(call) = KeptBy(c) /\ KeptBy(c) \subseteq DOMAIN states /\ O!Kept(w) = KeptBy(c)
  BY <1>1, <1>6 DEF KeptBy, CallOf, O!Kept
<1>10. RootsAbout'
  <2>1. ASSUME NEW r \in DOMAIN roots'
        PROVE  \E o \in organizations :
                  /\ \A s : <<r, s>> \in hasStates' => About(states[s].ids, o)
                  /\ \A v \in Worker \ {w} : HoldsRoot(orgCall[v], r) => AllAbout(KeptBy(orgCall[v]), o)
                  /\ HoldsRoot(call, r) => AllAbout(KeptBy(call), o)
    <3>1. PICK o \in organizations :
            /\ \A s : <<r, s>> \in hasStates => About(states[s].ids, o)
            /\ \A v \in Worker : HoldsRoot(orgCall[v], r) => AllAbout(KeptBy(orgCall[v]), o)
      BY <1>2, <2>1, RootWitness
    <3>2. ASSUME HoldsRoot(call, r)
          PROVE  AllAbout(KeptBy(call), o)
      <4>1. r \in found
        BY <1>6, <3>2 DEF HoldsRoot
      <4>2. PICK s \in KeptBy(c) : <<r, s>> \in hasStates
        BY <1>1, <1>9, <4>1 DEF O!RootsOf
      <4>3. PICK I : I = states[s].ids /\ About(I, o) /\ About(I, p) /\ I \cap I # {}
        BY <1>4, <3>1, <4>2 DEF Identified, AllAbout, About
      <4>4. IdsOf(o) = IdsOf(p)
        BY <1>2, <4>3, AboutSame
      <4>5. QED
        BY <1>4, <1>9, <4>4 DEF Identified, AllAbout, About
    <3>3. QED
      BY <1>2, <3>1, <3>2
  <2>2. \A l \in hasStates' : l[2] \in DOMAIN states
    BY <1>2 DEF OrgInv, OrgGraph
  <2>3. QED
    BY <1>5, <1>8, <1>9, <2>1, <2>2, RootsNext
<1>11. ASSUME NEW o \in organizations, Identified(c, o)
       PROVE  Identified(call, o)'
  <2>1. Identified(call, o)
    BY <1>7, <1>11
  <2>2. QED
    BY <1>2, <1>8, <2>1 DEF Identified, AllAbout, KeptBy, Fits
<1>12. Fresh(call)
  BY <1>6 DEF Fresh
<1>13. QED
  BY <1>1, <1>3, <1>5, <1>8, <1>10, <1>11, <1>12, AboutStep

LEMMA AboutReadRoot ==
    ASSUME OrgInv, OrgAbout, NEW w \in Worker, O!ReadRoot(w)
    PROVE  OrgAbout' /\ AboutGrows /\ Advance
<1>1. PICK c : c = orgCall[w] /\ c \in CallRecords /\ CallAbout(c)
  BY CallFields DEF OrgAbout
<1>2. c.at = "reading" /\ UNCHANGED <<organizations, states, roots, hasStates>>
  BY <1>1 DEF O!ReadRoot
<1>3. PICK r \in c.toRead :
        orgCall' = [orgCall EXCEPT
            ![w].toRead = @ \ {r},
            ![w].usable = IF O!StatesOf(r) \subseteq O!Kept(w)
                          THEN @ \cup {[uid |-> r, size |-> O!Cardinality(O!StatesOf(r))]} ELSE @]
  BY <1>1 DEF O!ReadRoot
<1>4. PICK usable, size : /\ size = O!Cardinality(O!StatesOf(r))
                          /\ usable = IF O!StatesOf(r) \subseteq O!Kept(w)
                                      THEN c.usable \cup {[uid |-> r, size |-> size]} ELSE c.usable
  OBVIOUS
<1>5. \A u \in usable : u \in c.usable \/ u.uid = r
  BY <1>4
<1>6. PICK call : call = [c EXCEPT !.toRead = @ \ {r}, !.usable = usable]
  OBVIOUS
<1>7. orgCall' = [orgCall EXCEPT ![w] = call]
  BY <1>1, <1>3, <1>4, <1>6, CallFields
<1>8. /\ call.at = "reading" /\ call.left = c.left /\ call.kept = c.kept
      /\ call.usable = usable /\ call.toRead = c.toRead \ {r}
  BY <1>1, <1>2, <1>6 DEF CallRecords
<1>9. \A o : Identified(c, o) => Identified(call, o)
  BY <1>2, <1>8 DEF Identified, KeptBy, Rooting
<1>10. \A q : HoldsRoot(call, q) => HoldsRoot(c, q) /\ KeptBy(call) = KeptBy(c)
  BY <1>2, <1>3, <1>5, <1>8 DEF HoldsRoot, Rooting, KeptBy
<1>11. Fresh(call) /\ ~ NamedOnly(c)
  BY <1>2, <1>8 DEF Fresh, NamedOnly
<1>12. QED
  BY <1>1, <1>2, <1>7, <1>9, <1>10, <1>11, AboutQuiet

LEMMA AboutCreateRoot ==
    ASSUME OrgInv, OrgAbout, NEW w \in Worker, O!CreateRoot(w)
    PROVE  OrgAbout' /\ AboutGrows /\ Advance
<1>1. PICK c, new : /\ c = orgCall[w] /\ c \in CallRecords /\ CallOf(c) /\ CallAbout(c)
                    /\ new = Len(roots) + 1
  BY CallFields DEF OrgAbout
<1>2. /\ c.at = "reading" /\ c.toRead = {} /\ c.usable = {}
      /\ UNCHANGED <<organizations, states, hasStates>> /\ roots' = Append(roots, c.rootOnly)
      /\ roots \in Seq(SUBSET organizations) /\ c.rootOnly \in SUBSET organizations
      /\ hasStates \subseteq (DOMAIN roots) \X (DOMAIN states)
  BY <1>1, CallFields DEF O!CreateRoot, OrgGraph, CallOf
<1>3. DOMAIN roots' = DOMAIN roots \cup {new} /\ new \notin DOMAIN roots
  BY <1>1, <1>2
<1>4. PICK p \in organizations : Identified(c, p)
  BY <1>1, <1>2 DEF CallAbout, NamedOnly
<1>5. PICK call : call = [c EXCEPT !.at = "attaching", !.root = new]
  OBVIOUS
<1>6. orgCall' = [orgCall EXCEPT ![w] = call]
  BY <1>1, <1>5, CallFields DEF O!CreateRoot
<1>7. /\ call.at = "attaching" /\ call.left = c.left /\ call.kept = c.kept /\ call.usable = {}
      /\ call.toRead = {} /\ call.root = new
  BY <1>1, <1>2, <1>5 DEF CallRecords
<1>8. AboutGrows /\ StatesAbout' /\ (\A I, o : About(I, o) => About(I, o)')
  BY <1>2, GrowsQuietly, StatesQuietly, AboutGrowing DEF OrgAbout
<1>9. KeptBy(call) = KeptBy(c) /\ KeptBy(c) \subseteq DOMAIN states
  BY <1>1, <1>7 DEF KeptBy, CallOf
<1>10. \A r : HoldsRoot(call, r) => r = new
  BY <1>7 DEF HoldsRoot
<1>11. \A v \in Worker : ~ HoldsRoot(orgCall[v], new)
  <2>1. ASSUME NEW v \in Worker, HoldsRoot(orgCall[v], new)
        PROVE  new \in DOMAIN roots
    BY <2>1, CallFields DEF HoldsRoot, Rooting, CallOf
  <2>2. QED
    BY <1>3, <2>1
<1>12. RootsAbout'
  <2>1. ASSUME NEW r \in DOMAIN roots'
        PROVE  \E o \in organizations :
                  /\ \A s : <<r, s>> \in hasStates' => About(states[s].ids, o)
                  /\ \A v \in Worker \ {w} : HoldsRoot(orgCall[v], r) => AllAbout(KeptBy(orgCall[v]), o)
                  /\ HoldsRoot(call, r) => AllAbout(KeptBy(call), o)
    <3>1. CASE r \in DOMAIN roots
      <4>1. PICK o \in organizations :
              /\ \A s : <<r, s>> \in hasStates => About(states[s].ids, o)
              /\ \A v \in Worker : HoldsRoot(orgCall[v], r) => AllAbout(KeptBy(orgCall[v]), o)
        BY <3>1, RootWitness
      <4>2. ~ HoldsRoot(call, r)
        BY <1>3, <1>10, <3>1
      <4>3. QED
        BY <1>2, <4>1, <4>2
    <3>2. CASE r = new
      <4>1. \A s : <<r, s>> \notin hasStates'
        BY <1>2, <1>3, <3>2
      <4>2. AllAbout(KeptBy(call), p)
        BY <1>4, <1>9 DEF Identified
      <4>3. QED
        BY <1>11, <3>2, <4>1, <4>2
    <3>3. QED
      BY <1>3, <2>1, <3>1, <3>2
  <2>2. \A l \in hasStates' : l[2] \in DOMAIN states
    BY <1>2
  <2>3. QED
    BY <1>6, <1>8, <1>9, <2>1, <2>2, RootsNext
<1>13. ASSUME NEW o \in organizations, Identified(c, o)
       PROVE  Identified(call, o)'
  <2>1. Identified(call, o)
    BY <1>2, <1>7, <1>13 DEF Identified, KeptBy, Rooting
  <2>2. QED
    BY <1>2, <1>8, <2>1 DEF Identified, AllAbout, KeptBy, Fits
<1>14. Fresh(call) /\ ~ NamedOnly(c)
  BY <1>2, <1>7 DEF Fresh, NamedOnly
<1>15. QED
  BY <1>1, <1>6, <1>8, <1>12, <1>13, <1>14, AboutStep

LEMMA AboutReadLinks ==
    ASSUME OrgInv, OrgAbout, NEW w \in Worker, O!ReadLinks(w)
    PROVE  OrgAbout' /\ AboutGrows /\ Advance
<1>1. PICK c : /\ c = orgCall[w] /\ c \in CallRecords /\ CallOf(c) /\ CallAbout(c)
  BY CallFields DEF OrgAbout
<1>2. /\ c.at \in {"attaching", "reading"} /\ UNCHANGED <<organizations, states, roots, hasStates>>
  BY <1>1 DEF O!ReadLinks
<1>3. PICK r, others :
        /\ r \in O!Elected(w)
        /\ orgCall' = [orgCall EXCEPT ![w].at = "relinking", ![w].root = r, ![w].others = others]
  BY DEF O!ReadLinks
<1>4. HoldsRoot(c, r)
  <2>1. CASE c.at = "attaching"
    BY <1>1, <1>3, <2>1 DEF O!Elected, HoldsRoot, Rooting
  <2>2. CASE c.at # "attaching"
    BY <1>1, <1>2, <1>3, <2>2 DEF O!Elected, HoldsRoot, Rooting
  <2>3. QED
    BY <2>1, <2>2
<1>5. PICK call : call = [c EXCEPT !.at = "relinking", !.root = r, !.others = others]
  OBVIOUS
<1>6. orgCall' = [orgCall EXCEPT ![w] = call]
  BY <1>1, <1>3, <1>5, CallFields
<1>7. /\ call.at = "relinking" /\ call.left = c.left /\ call.kept = c.kept
      /\ call.usable = c.usable /\ call.toRead = c.toRead /\ call.root = r
  BY <1>1, <1>5 DEF CallRecords
<1>8. \A q : HoldsRoot(call, q) => HoldsRoot(c, q) /\ KeptBy(call) = KeptBy(c)
  <2>1. c.at \in Rooting
    BY <1>2 DEF Rooting
  <2>2. QED
    BY <1>4, <1>7, <2>1 DEF HoldsRoot, KeptBy
<1>9. \A o : Identified(c, o) => Identified(call, o)
  BY <1>2, <1>7 DEF Identified, KeptBy, Rooting
<1>10. Fresh(call) /\ ~ NamedOnly(c)
  BY <1>2, <1>7 DEF Fresh, NamedOnly
<1>11. QED
  BY <1>1, <1>2, <1>6, <1>8, <1>9, <1>10, AboutQuiet

LEMMA AboutAttach ==
    ASSUME OrgInv, OrgAbout, NEW w \in Worker, O!Attach(w)
    PROVE  OrgAbout' /\ AboutGrows /\ Advance
<1>1. PICK c : /\ c = orgCall[w] /\ c \in CallRecords /\ CallOf(c) /\ CallAbout(c)
  BY CallFields DEF OrgAbout
<1>2. /\ c.at = "relinking" /\ UNCHANGED <<organizations, states, roots>>
      /\ hasStates \subseteq (DOMAIN roots) \X (DOMAIN states)
  BY <1>1, CallFields DEF O!Attach, OrgGraph
<1>3. PICK r, place :
        /\ place \in {"getting", "renewing"} /\ r = c.root
        /\ hasStates' = O!LinksAfterAttach(r, O!Kept(w), c.others)
        /\ orgCall' = [orgCall EXCEPT ![w].others = {}, ![w].at = place]
  BY <1>1 DEF O!Attach
<1>4. HoldsRoot(c, r)
  BY <1>2, <1>3 DEF HoldsRoot, Rooting
<1>5. PICK call : call = [c EXCEPT !.others = {}, !.at = place]
  OBVIOUS
<1>6. orgCall' = [orgCall EXCEPT ![w] = call]
  BY <1>1, <1>3, <1>5, CallFields
<1>7. /\ call.at = place /\ call.left = c.left /\ call.kept = c.kept /\ call.usable = c.usable
      /\ call.toRead = c.toRead /\ call.root = r
  BY <1>1, <1>3, <1>5 DEF CallRecords, Places
<1>8. AboutGrows /\ StatesAbout' /\ (\A I, o : About(I, o) => About(I, o)')
  BY <1>2, GrowsQuietly, StatesQuietly, AboutGrowing DEF OrgAbout
<1>9. KeptBy(call) = KeptBy(c) /\ KeptBy(c) \subseteq DOMAIN states /\ O!Kept(w) = KeptBy(c)
  BY <1>1, <1>7 DEF KeptBy, CallOf, O!Kept
<1>10. \A q : HoldsRoot(call, q) => HoldsRoot(c, q)
  <2>1. c.at \in Rooting
    BY <1>2 DEF Rooting
  <2>2. QED
    BY <1>4, <1>7, <2>1 DEF HoldsRoot
<1>11. RootsAbout'
  <2>1. ASSUME NEW q \in DOMAIN roots'
        PROVE  \E o \in organizations :
                  /\ \A s : <<q, s>> \in hasStates' => About(states[s].ids, o)
                  /\ \A v \in Worker \ {w} : HoldsRoot(orgCall[v], q) => AllAbout(KeptBy(orgCall[v]), o)
                  /\ HoldsRoot(call, q) => AllAbout(KeptBy(call), o)
    <3>1. PICK o \in organizations :
            /\ \A s : <<q, s>> \in hasStates => About(states[s].ids, o)
            /\ \A v \in Worker : HoldsRoot(orgCall[v], q) => AllAbout(KeptBy(orgCall[v]), o)
      BY <1>2, <2>1, RootWitness
    <3>2. HoldsRoot(call, q) => AllAbout(KeptBy(call), o)
      BY <1>1, <1>9, <1>10, <3>1
    <3>3. \A s : <<q, s>> \in hasStates' => <<q, s>> \in hasStates \/ (q = r /\ s \in KeptBy(c))
      BY <1>3, <1>9 DEF O!LinksAfterAttach
    <3>4. q = r => AllAbout(KeptBy(c), o)
      BY <1>1, <1>4, <3>1
    <3>5. \A s : <<q, s>> \in hasStates' => About(states[s].ids, o)
      BY <3>1, <3>3, <3>4 DEF AllAbout
    <3>6. QED
      BY <3>1, <3>2, <3>5
  <2>2. \A l \in hasStates' : l[2] \in DOMAIN states
    BY <1>2, <1>3, <1>9 DEF O!LinksAfterAttach
  <2>3. QED
    BY <1>6, <1>8, <1>9, <2>1, <2>2, RootsNext
<1>12. ASSUME NEW o \in organizations, Identified(c, o)
       PROVE  Identified(call, o)'
  <2>1. Identified(call, o)
    BY <1>2, <1>3, <1>7, <1>12 DEF Identified, KeptBy, Rooting
  <2>2. QED
    BY <1>2, <1>8, <2>1 DEF Identified, AllAbout, KeptBy, Fits
<1>13. Fresh(call) /\ ~ NamedOnly(c)
  BY <1>2, <1>3, <1>7 DEF Fresh, NamedOnly
<1>14. QED
  BY <1>1, <1>6, <1>8, <1>11, <1>12, <1>13, AboutStep

LEMMA AboutReturns ==
    ASSUME OrgInv, OrgAbout, UNCHANGED <<organizations, states, hasStates>>,
           DOMAIN roots' = DOMAIN roots, NEW w \in Worker,
           orgCall[w].at \in {"renewing", "getting"}, O!Returns(w, orgCall[w].root)
    PROVE  OrgAbout' /\ AboutGrows /\ Advance
<1>1. PICK c, r, result : /\ c = orgCall[w] /\ c \in CallRecords /\ CallOf(c) /\ CallAbout(c)
                          /\ r = c.root /\ result = O!Read(r)
  BY CallFields DEF OrgAbout
<1>2. PICK call : call = [c EXCEPT !.at = "returned", !.result = result]
  OBVIOUS
<1>3. orgCall' = [orgCall EXCEPT ![w] = call]
  BY <1>1, <1>2, CallFields DEF O!Returns
<1>4. /\ call.at = "returned" /\ call.left = c.left /\ call.kept = c.kept
      /\ call.rootOnly = c.rootOnly /\ call.result = result
  BY <1>1, <1>2 DEF CallRecords
<1>5. r \in DOMAIN roots /\ HoldsRoot(c, r) /\ organizations \subseteq SourceOrganization
  BY <1>1, OrganizationsIn DEF CallOf, HoldsRoot, Rooting
<1>6. PICK p \in organizations :
        /\ \A s : <<r, s>> \in hasStates => About(states[s].ids, p)
        /\ \A v \in Worker : HoldsRoot(orgCall[v], r) => AllAbout(KeptBy(orgCall[v]), p)
  BY <1>5, RootWitness
<1>7. ASSUME NEW o \in organizations, Identified(c, o)
      PROVE  Identified(call, o)
  <2>1. c.kept # <<>> /\ c.kept \in Seq(Nat)
    BY <1>1, <1>7 DEF Identified, Rooting, CallRecords
  <2>2. PICK s : s \in KeptBy(c)
    <3>1. 1 \in DOMAIN c.kept
      BY <2>1
    <3>2. QED
      BY <3>1 DEF KeptBy
  <2>3. PICK I : I = states[s].ids /\ About(I, p) /\ About(I, o) /\ I \cap I # {}
    BY <1>1, <1>5, <1>6, <1>7, <2>2 DEF Identified, AllAbout, About
  <2>4. IdsOf(p) = IdsOf(o)
    BY <1>5, <2>3, AboutSame
  <2>5. \A f \in result.states : <<r, f.uid>> \in hasStates
    <3>1. result.states = {[uid |-> t, orgs |-> states[t].orgs] : t \in O!StatesOf(r)}
      BY <1>1 DEF O!Read
    <3>2. \A f \in result.states : \E t \in O!StatesOf(r) : f.uid = t
      BY <3>1
    <3>3. QED
      BY <3>2 DEF O!StatesOf
  <2>6. Fits(result, o)
    BY <1>6, <2>4, <2>5 DEF Fits, About
  <2>7. QED
    BY <1>4, <1>7, <2>6 DEF Identified, KeptBy, Rooting
<1>8. Fresh(call) /\ (NamedOnly(c) => NamedOnly(call)) /\ \A q : ~ HoldsRoot(call, q)
  BY <1>4 DEF Fresh, NamedOnly, HoldsRoot, Rooting
<1>9. QED
  BY <1>1, <1>3, <1>7, <1>8, AboutQuiet

LEMMA AboutUpdateRoot ==
    ASSUME OrgInv, OrgAbout, NEW w \in Worker, O!UpdateRoot(w)
    PROVE  OrgAbout' /\ AboutGrows /\ Advance
<1>1. PICK c : /\ c = orgCall[w] /\ c \in CallRecords /\ CallOf(c) /\ CallAbout(c)
  BY CallFields DEF OrgAbout
<1>2. /\ c.at = "renewing" /\ UNCHANGED <<organizations, states, hasStates>>
      /\ roots' = [roots EXCEPT ![c.root] = c.rootOnly]
      /\ O!Returns(w, c.root) \/ O!Goes(w, "getting")
  BY <1>1 DEF O!UpdateRoot
<1>3. DOMAIN roots' = DOMAIN roots
  BY <1>2
<1>4. CASE O!Returns(w, c.root)
  BY <1>1, <1>2, <1>3, <1>4, AboutReturns
<1>5. CASE O!Goes(w, "getting")
  <2>1. PICK call : call = [c EXCEPT !.at = "getting"]
    OBVIOUS
  <2>2. orgCall' = [orgCall EXCEPT ![w] = call]
    BY <1>1, <1>5, <2>1 DEF O!Goes
  <2>3. /\ call.at = "getting" /\ call.left = c.left /\ call.kept = c.kept
        /\ call.toRead = c.toRead /\ call.usable = c.usable /\ call.root = c.root
    BY <1>1, <2>1 DEF CallRecords
  <2>4. \A o : Identified(c, o) => Identified(call, o)
    BY <1>2, <2>3 DEF Identified, KeptBy, Rooting
  <2>5. \A r : HoldsRoot(call, r) => HoldsRoot(c, r) /\ KeptBy(call) = KeptBy(c)
    BY <1>2, <2>3 DEF HoldsRoot, Rooting, KeptBy
  <2>6. Fresh(call) /\ ~ NamedOnly(c)
    BY <1>2, <2>3 DEF Fresh, NamedOnly
  <2>7. QED
    BY <1>1, <1>2, <1>3, <2>2, <2>4, <2>5, <2>6, AboutQuiet
<1>6. QED
  BY <1>2, <1>4, <1>5

LEMMA AboutWork ==
    ASSUME OrgInv, OrgAbout, NEW w \in Worker, O!Work(w)
    PROVE  OrgAbout' /\ AboutGrows /\ Advance
<1>1. CASE O!GetRoot(w)
  BY <1>1, AboutReturns DEF O!GetRoot
<1>2. CASE \/ O!FindByIdentifiers(w) \/ O!FindByName(w) \/ O!LeaveOut(w) \/ O!FindHomonymsRoot(w)
           \/ O!Create(w) \/ O!Update(w)
  BY <1>2, AboutFindByIdentifiers, AboutFindByName, AboutLeaveOut, AboutFindHomonymsRoot,
     AboutCreate, AboutUpdate
<1>3. CASE \/ O!ReturnState(w) \/ O!FindRoots(w) \/ O!ReadRoot(w) \/ O!CreateRoot(w)
           \/ O!ReadLinks(w) \/ O!Attach(w) \/ O!UpdateRoot(w)
  BY <1>3, AboutReturnState, AboutFindRoots, AboutReadRoot, AboutCreateRoot, AboutReadLinks,
     AboutAttach, AboutUpdateRoot
<1>4. QED
  BY <1>1, <1>2, <1>3 DEF O!Work

---------------------------------------------------------------------------
(* Calls begin and end. *)

LEMMA ClusterNamed ==
    ASSUME organizations \subseteq SourceOrganization, NEW o \in organizations,
           NEW q \in O!Cluster(o), Described[q].ids = {}
    PROVE  q = o
<1>1. SUFFICES ASSUME q # o
               PROVE  FALSE
  OBVIOUS
<1>2. ClosedOrgs(SourceOrganization \ {q})
  BY DEF ClosedOrgs, Neighbours
<1>3. QED
  BY <1>1, <1>2, InCluster

LEMMA ClusterAlone ==
    ASSUME organizations \subseteq SourceOrganization, NEW o \in organizations, Described[o].ids = {}
    PROVE  O!Cluster(o) = {o}
<1>1. ClosedOrgs({o})
  BY DEF ClosedOrgs, Neighbours
<1>2. QED
  BY <1>1, InCluster

LEMMA AboutCalls ==
    ASSUME HasUsable, OrgInv, NEW o \in organizations, NEW call \in O!Calls(O!Cluster(o))
    PROVE  /\ CallAbout(call) /\ \A r : ~ HoldsRoot(call, r)
           /\ \A p \in O!Cluster(o) : Described[p].ids # {} => Identified(call, p)
<1>1. PICK cluster : cluster = O!Cluster(o)
  OBVIOUS
<1>2. /\ organizations \subseteq SourceOrganization /\ cluster \subseteq organizations
      /\ cluster \in SUBSET SourceOrganization /\ o \in cluster
  BY <1>1, OrganizationsIn, ClusterIn, ClusterHas
<1>3. PICK split \in O!Splits[cluster] :
        call = [O!NoCall EXCEPT !.at = "finding", !.left = split.states, !.rootOnly = split.rootOnly]
  BY <1>1 DEF O!Calls
<1>4. /\ call.at = "finding" /\ call.left = split.states /\ call.kept = <<>> /\ call.usable = {}
      /\ call.rootOnly = split.rootOnly
  BY <1>3 DEF O!NoCall
<1>5. /\ \A i \in DOMAIN split.states : Gathers(cluster, split.states[i])
      /\ split.states # <<>>
      /\ Cardinality(cluster) = 1 => split.rootOnly = {} /\ Len(split.states) = 1
  BY <1>2, SplitsGather
<1>6. Fresh(call) /\ \A r : ~ HoldsRoot(call, r)
  BY <1>4 DEF Fresh, HoldsRoot, Rooting
<1>7. ASSUME NEW p \in cluster, Described[p].ids # {}
      PROVE  Identified(call, p)
  <2>1. IdsOf(p) = IdsOf(o) /\ p \in organizations
    BY <1>1, <1>2, <1>7, AboutMember
  <2>2. \A q \in cluster : Described[q].ids # {}
    <3>1. \A q \in O!Cluster(o) : Described[q].ids = {} => q = o
      BY <1>2, ClusterNamed
    <3>2. Described[o].ids = {} => cluster = {o}
      BY <1>1, <1>2, ClusterAlone
    <3>3. QED
      BY <1>1, <1>7, <3>1, <3>2
  <2>3. ASSUME NEW i \in DOMAIN call.left
        PROVE  About(call.left[i].ids, p)
    <3>1. PICK s : s = call.left[i] /\ Gathers(cluster, s)
      BY <1>4, <1>5, <2>3
    <3>2. \A q \in s.orgs : /\ O!Usable(q) # {} /\ O!Usable(q) \subseteq Described[q].ids
                            /\ Described[q].ids \subseteq IdsOf(o)
      BY <1>1, <1>2, <2>2, <3>1 DEF Gathers, HasUsable, O!Usable, IdsOf
    <3>3. s.ids # {} /\ s.ids \subseteq IdsOf(o)
      BY <3>1, <3>2 DEF Gathers
    <3>4. QED
      BY <2>1, <3>1, <3>3 DEF About
  <2>4. AllAbout(KeptBy(call), p)
    BY <1>4 DEF AllAbout, KeptBy
  <2>5. QED
    BY <1>4, <1>5, <2>1, <2>3, <2>4 DEF Identified, Rooting
<1>8. ASSUME Described[o].ids = {}
      PROVE  NamedOnly(call)
  <2>1. cluster = {o} /\ Cardinality(cluster) = 1
    <3>1. cluster = {o}
      BY <1>1, <1>2, <1>8, ClusterAlone
    <3>2. QED
      BY <3>1, FS_Singleton
  <2>2. \A i \in DOMAIN call.left : call.left[i].ids = {}
    <3>1. O!Usable(o) = {}
      BY <1>8 DEF O!Usable
    <3>2. QED
      BY <1>4, <1>5, <2>1, <3>1 DEF Gathers
  <2>3. Len(call.left) = 1 /\ call.rootOnly = {} /\ Len(call.kept) = 0
    BY <1>4, <1>5, <2>1
  <2>4. QED
    BY <1>4, <2>2, <2>3 DEF NamedOnly
<1>9. CallAbout(call)
  BY <1>2, <1>6, <1>7, <1>8 DEF CallAbout
<1>10. QED
  BY <1>1, <1>6, <1>7, <1>9

LEMMA AboutNoCall ==
    CallAbout(O!NoCall) /\ \A r : ~ HoldsRoot(O!NoCall, r)
<1>1. PICK call : call = O!NoCall
  OBVIOUS
<1>2. /\ call.at = "none" /\ call.left = <<>> /\ call.kept = <<>> /\ call.rootOnly = {}
      /\ Len(<<>>) = 0 /\ DOMAIN <<>> = {}
  BY <1>1 DEF O!NoCall
<1>3. NamedOnly(call) /\ Fresh(call) /\ \A r : ~ HoldsRoot(call, r)
  BY <1>2 DEF NamedOnly, Fresh, HoldsRoot, Rooting
<1>4. QED
  BY <1>1, <1>3 DEF CallAbout

LEMMA AboutReplaced ==
    ASSUME OrgInv, OrgAbout, UNCHANGED <<organizations, states, roots, hasStates>>,
           NEW w \in Worker, NEW call, orgCall' = [orgCall EXCEPT ![w] = call],
           CallAbout(call), \A r : ~ HoldsRoot(call, r)
    PROVE  /\ OrgAbout' /\ AboutGrows
           /\ \A o : Identified(call, o) => Identified(orgCall[w], o)'
           /\ \A v \in Worker \ {w}, o \in organizations :
                Identified(orgCall[v], o) => Identified(orgCall[v], o)'
<1>1. AboutGrows /\ StatesAbout' /\ (\A I, o : About(I, o) => About(I, o)')
  BY GrowsQuietly, StatesQuietly, AboutGrowing DEF OrgAbout
<1>2. RootsAbout'
  BY <1>1, RootsKept DEF OrgAbout
<1>3. \A c, o : Identified(c, o) => Identified(c, o)'
  BY <1>1 DEF Identified, AllAbout, KeptBy, Fits
<1>4. orgCall \in [Worker -> CallRecords]
  BY CallFields
<1>5. ASSUME NEW v \in Worker, NEW c, orgCall'[v] = c, NEW o, Identified(c, o)
      PROVE  Identified(orgCall[v], o)'
  <2>1. Identified(c, o)'
    BY <1>3, <1>5
  <2>2. QED
    BY <1>5, <2>1 DEF Identified, AllAbout, KeptBy, Fits, Rooting
<1>6. ASSUME NEW v \in Worker
      PROVE  CallAbout(orgCall[v])'
  <2>1. PICK c : c = orgCall'[v] /\ CallAbout(c)
    BY <1>4 DEF OrgAbout
  <2>2. CASE NamedOnly(c)
    BY <2>1, <2>2 DEF CallAbout, NamedOnly, Fresh
  <2>3. ASSUME NEW o \in organizations, Identified(c, o)
        PROVE  CallAbout(orgCall[v])'
    <3>1. Identified(orgCall[v], o)'
      BY <1>5, <2>1, <2>3
    <3>2. QED
      BY <2>1, <2>3, <3>1 DEF CallAbout, Fresh
  <2>4. QED
    BY <2>1, <2>2, <2>3 DEF CallAbout
<1>7. orgCall'[w] = call /\ \A v \in Worker \ {w} : orgCall'[v] = orgCall[v]
  BY <1>4
<1>8. QED
  BY <1>1, <1>2, <1>5, <1>6, <1>7 DEF OrgAbout

LEMMA AboutStored ==
    ASSUME OrgInv, OrgAbout, organizations \subseteq organizations', NEW w \in Worker,
           UNCHANGED <<states, roots, hasStates, orgCall>>
    PROVE  OrgAbout' /\ AboutGrows /\ Advance
<1>1. AboutGrows /\ StatesAbout'
  BY GrowsQuietly, StatesQuietly DEF OrgAbout
<1>2. PICK call : call = orgCall[w] /\ CallOf(call) /\ CallAbout(call)
  BY CallFields DEF OrgAbout
<1>3. orgCall' = [orgCall EXCEPT ![w] = call]
  BY <1>2, CallFields
<1>4. RootsAbout'
  BY <1>1, <1>2, <1>3, RootsKept DEF OrgAbout
<1>5. \A o \in organizations : Identified(call, o) => Identified(call, o)'
  BY <1>1, <1>2, IdentifiedStays
<1>6. QED
  BY <1>1, <1>2, <1>3, <1>4, <1>5, AboutStep DEF CallAbout

LEMMA AboutInit == Init => OrgAbout
<1>1. ASSUME Init
      PROVE  OrgAbout
  <2>1. states = <<>> /\ roots = <<>> /\ orgCall = [w \in Worker |-> O!NoCall] /\ DOMAIN <<>> = {}
    BY <1>1 DEF Init, O!Init
  <2>2. \A w \in Worker : CallAbout(orgCall[w])
    BY <2>1, AboutNoCall
  <2>3. StatesAbout /\ RootsAbout
    BY <2>1 DEF StatesAbout, RootsAbout
  <2>4. QED
    BY <2>2, <2>3 DEF OrgAbout
<1>2. QED
  BY <1>1

---------------------------------------------------------------------------
(***************************************************************************)
(* The affiliations of the person a worker treats: each organization with  *)
(* identifiers is still to be called for, is being treated, or led to      *)
(* states that are about its cluster.                                      *)
(***************************************************************************)
Sought(o, j, call) ==
    o \in j.left \/ (\E f \in j.found : Fits(f, o)) \/ Identified(call, o)
Seeking(place, j, call) ==
    place = "affiliating" => \A o \in AffiliationsIn(j.records, j.cluster) :
        Described[o].ids # {} => Sought(o, j, call)
SeekInv ==
    FollowInv /\ OrgAbout /\ \A w \in Worker : Seeking(pc[w], job[w], orgCall[w])

LEMMA SeekWorker ==
    ASSUME SeekInv, NEW w \in Worker
    PROVE  /\ FollowInv /\ TypeInv /\ OrgInv /\ OrgAbout /\ job[w] \in JobRecords
           /\ JobOf(pc[w], job[w]) /\ Seeking(pc[w], job[w], orgCall[w])
           /\ pc \in [Worker -> PC] /\ job \in [Worker -> JobRecords]
           /\ orgCall \in [Worker -> CallRecords]
BY FollowWorker, CallFields DEF SeekInv, TypeInv

LEMMA AffiliationsStored ==
    ASSUME NEW place, NEW j \in JobRecords, JobOf(place, j)
    PROVE  \A C : AffiliationsIn(j.records, C) \subseteq organizations
BY RecordsHold DEF JobRecords, JobOf

LEMMA FitsStays ==
    ASSUME AboutGrows, NEW f, ResultOf(f), NEW o \in organizations, Fits(f, o)
    PROVE  Fits(f, o)'
BY DEF Fits, ResultOf, AboutGrows

LEMMA IdentifiedIs ==
    ASSUME NEW v, NEW call, orgCall'[v] = call, NEW o
    PROVE  Identified(orgCall[v], o)' <=> Identified(call, o)'
BY DEF Identified, AllAbout, KeptBy, Fits, Rooting

LEMMA SeekStep ==
    ASSUME TypeInv, \A v \in Worker : Seeking(pc[v], job[v], orgCall[v]), AboutGrows,
           NEW w \in Worker, NEW place, NEW j,
           \A v \in Worker \ {w}, o \in organizations :
                Identified(orgCall[v], o) => Identified(orgCall[v], o)',
           pc' = [pc EXCEPT ![w] = place], job' = [job EXCEPT ![w] = j],
           Seeking(place, j, orgCall[w])'
    PROVE  (\A v \in Worker : Seeking(pc[v], job[v], orgCall[v]))'
<1>1. pc \in [Worker -> PC] /\ job \in [Worker -> JobRecords]
  BY WorkerOf
<1>2. ASSUME NEW v \in Worker, v # w
      PROVE  Seeking(pc[v], job[v], orgCall[v])'
  <2>1. PICK p, k, call, next :
          /\ p = pc[v] /\ k = job[v] /\ call = orgCall[v] /\ next = orgCall'[v]
          /\ k \in JobRecords /\ JobOf(p, k) /\ Seeking(p, k, call)
    BY WorkerOf
  <2>2. pc'[v] = p /\ job'[v] = k
    BY <1>1, <1>2, <2>1
  <2>3. ASSUME p = "affiliating", NEW o \in AffiliationsIn(k.records, k.cluster),
               Described[o].ids # {}
        PROVE  o \in k.left \/ (\E f \in k.found : Fits(f, o)') \/ Identified(next, o)'
    <3>1. o \in organizations /\ Sought(o, k, call)
      BY <2>1, <2>3, AffiliationsStored DEF Seeking
    <3>2. \A f \in k.found : Fits(f, o) => Fits(f, o)'
      BY <2>1, <3>1, FitsStays DEF JobOf
    <3>3. Identified(call, o) => Identified(next, o)'
      BY <1>2, <2>1, <3>1, IdentifiedIs
    <3>4. QED
      BY <3>1, <3>2, <3>3 DEF Sought
  <2>4. QED
    BY <2>1, <2>2, <2>3, IdentifiedIs DEF Seeking, Sought, Fits, AffiliationsIn, ContributionsIn
<1>3. Seeking(pc[w], job[w], orgCall[w])'
  <2>1. pc'[w] = place /\ job'[w] = j
    BY <1>1
  <2>2. QED
    BY <2>1 DEF Seeking, Sought, Fits, AffiliationsIn, ContributionsIn
<1>4. QED
  BY <1>2, <1>3

\* A step that leaves the organizations, and the worker is not about affiliations after it.
LEMMA SeekElsewhere ==
    ASSUME SeekInv, organizations \subseteq organizations', UNCHANGED orgVars,
           NEW w \in Worker, NEW place, place # "affiliating", NEW j,
           pc' = [pc EXCEPT ![w] = place], job' = [job EXCEPT ![w] = j]
    PROVE  /\ OrgAbout' /\ AboutGrows
           /\ (\A v \in Worker : Seeking(pc[v], job[v], orgCall[v]))'
<1>1. OrgAbout' /\ AboutGrows /\ Advance
  BY SeekWorker, AboutStored DEF orgVars
<1>2. Seeking(place, j, orgCall[w])'
  BY DEF Seeking
<1>3. QED
  BY <1>1, <1>2, SeekStep, SeekWorker DEF SeekInv, Advance

LEMMA SeekEnds ==
    ASSUME SeekInv, UNCHANGED <<organizations, states, roots, hasStates>>,
           NEW w \in Worker, orgCall' = [orgCall EXCEPT ![w] = O!NoCall],
           NEW place, place # "affiliating", NEW j,
           pc' = [pc EXCEPT ![w] = place], job' = [job EXCEPT ![w] = j]
    PROVE  /\ OrgAbout' /\ AboutGrows
           /\ (\A v \in Worker : Seeking(pc[v], job[v], orgCall[v]))'
<1>1. PICK call : call = O!NoCall /\ CallAbout(call) /\ \A r : ~ HoldsRoot(call, r)
  BY AboutNoCall
<1>2. /\ OrgAbout' /\ AboutGrows
      /\ \A v \in Worker \ {w}, o \in organizations :
           Identified(orgCall[v], o) => Identified(orgCall[v], o)'
  BY <1>1, SeekWorker, AboutReplaced
<1>3. Seeking(place, j, orgCall[w])'
  BY DEF Seeking
<1>4. QED
  BY <1>2, <1>3, SeekStep, SeekWorker DEF SeekInv

LEMMA Elsewhere ==
    ASSUME TypeInv, NEW w \in Worker,
           \/ Take(w) \/ Start(w) \/ Relate(w) \/ Match(w) \/ Search(w) \/ CreateExternal(w)
           \/ Merge(w) \/ Link(w) \/ Finish(w)
    PROVE  /\ organizations \subseteq organizations' /\ UNCHANGED orgVars
           /\ \E place, j : /\ place # "affiliating"
                            /\ pc' = [pc EXCEPT ![w] = place] /\ job' = [job EXCEPT ![w] = j]
<1>1. organizations \subseteq organizations' /\ UNCHANGED orgVars
  BY DEF Take, Start, Relate, Match, Search, CreateExternal, Merge, Link, Finish
<1>2. PICK j : j = job'[w]
  OBVIOUS
<1>3. pc \in [Worker -> PC] /\ job \in [Worker -> JobRecords]
  BY WorkerOf
<1>4. CASE Take(w)
  <2>1. job' = [job EXCEPT ![w] = j] /\ pc' = [pc EXCEPT ![w] = "starting"]
    BY <1>2, <1>3, <1>4 DEF Take, Goes
  <2>2. QED
    BY <1>1, <2>1
<1>5. CASE Start(w)
  <2>1. job' = [job EXCEPT ![w] = j] /\ pc' = [pc EXCEPT ![w] = "relating"]
    BY <1>2, <1>3, <1>5 DEF Start, Goes
  <2>2. QED
    BY <1>1, <2>1
<1>6. CASE Relate(w)
  <2>1. PICK place \in {"contributing", "matching"} : pc' = [pc EXCEPT ![w] = place]
    BY <1>6 DEF Relate, Goes
  <2>2. job' = [job EXCEPT ![w] = j]
    BY <1>2, <1>3, <1>6 DEF Relate
  <2>3. QED
    BY <1>1, <2>1, <2>2
<1>7. CASE Match(w)
  <2>1. PICK p \in job[w].left :
          LET cluster == Equivalents(p) \cap ContributorsIn(job[w].records)
              next == [job[w] EXCEPT !.left = @ \ Equivalents(p), !.cluster = cluster]
          IN
          \/ \E q : job' = [job EXCEPT ![w] = [next EXCEPT !.target = q]] /\ Goes(w, "linking")
          \/ /\ job' = [job EXCEPT ![w] = [next EXCEPT !.search = cluster, !.known = {}]]
             /\ Goes(w, "searching")
    BY <1>7, Zenon DEF Match
  <2>2. PICK next : next = [job[w] EXCEPT !.left = @ \ Equivalents(p),
                              !.cluster = Equivalents(p) \cap ContributorsIn(job[w].records)]
    OBVIOUS
  <2>3. \/ \E q : job' = [job EXCEPT ![w] = [next EXCEPT !.target = q]] /\ Goes(w, "linking")
        \/ /\ job' = [job EXCEPT ![w] = [next EXCEPT !.known = {},
                            !.search = Equivalents(p) \cap ContributorsIn(job[w].records)]]
           /\ Goes(w, "searching")
    BY <2>1, <2>2
  <2>4. PICK place \in {"linking", "searching"} : pc' = [pc EXCEPT ![w] = place]
    BY <2>3 DEF Goes
  <2>5. job' = [job EXCEPT ![w] = j]
    BY <1>2, <1>3, <2>3
  <2>6. QED
    BY <1>1, <2>4, <2>5
<1>8. CASE Search(w)
  <2>1. PICK left, known : Searched(w, left, known)
    BY <1>8 DEF Search
  <2>2. pc[w] = "searching"
    BY <1>8 DEF Search
  <2>3. PICK next : next = [job[w] EXCEPT !.search = left, !.known = known]
    OBVIOUS
  <2>4. \/ job' = [job EXCEPT ![w] = next] /\ UNCHANGED pc
        \/ job' = [job EXCEPT ![w] = next] /\ Goes(w, "creating")
        \/ /\ \E q \in known :
                 job' = [job EXCEPT ![w] = [next EXCEPT !.target = q, !.known = @ \ {q}]]
           /\ Goes(w, IF Cardinality(known) = 1 THEN "linking" ELSE "merging")
    BY <2>1, <2>3 DEF Searched
  <2>5. PICK place : place # "affiliating" /\ pc' = [pc EXCEPT ![w] = place]
    <3>1. UNCHANGED pc => pc' = [pc EXCEPT ![w] = "searching"]
      BY <1>3, <2>2
    <3>2. QED
      BY <2>4, <3>1 DEF Goes
  <2>6. job' = [job EXCEPT ![w] = j]
    BY <1>2, <1>3, <2>4
  <2>7. QED
    BY <1>1, <2>5, <2>6
<1>9. CASE CreateExternal(w)
  <2>1. job' = [job EXCEPT ![w] = j] /\ pc' = [pc EXCEPT ![w] = "linking"]
    BY <1>2, <1>3, <1>9 DEF CreateExternal, Goes
  <2>2. QED
    BY <1>1, <2>1
<1>10. CASE Merge(w)
  <2>1. PICK place \in {"linking", "merging"} : pc' = [pc EXCEPT ![w] = place]
    BY <1>10 DEF Merge, Goes
  <2>2. job' = [job EXCEPT ![w] = j]
    BY <1>2, <1>3, <1>10 DEF Merge
  <2>3. QED
    BY <1>1, <2>1, <2>2
<1>11. CASE Link(w)
  <2>1. PICK place \in {"contributing", "matching"} : pc' = [pc EXCEPT ![w] = place]
    BY <1>11 DEF Link, Goes
  <2>2. job' = [job EXCEPT ![w] = j]
    <3>1. PICK person, cluster :
            job' = [job EXCEPT ![w].linked = Linked(@, person, cluster), ![w].target = "",
                               ![w].cluster = {}]
      BY <1>11 DEF Link
    <3>2. QED
      BY <1>2, <1>3, <3>1
  <2>3. QED
    BY <1>1, <2>1, <2>2
<1>12. CASE Finish(w)
  <2>1. PICK place, next : /\ place \in {"idle", "starting"}
                           /\ pc' = [pc EXCEPT ![w] = place] /\ job' = [job EXCEPT ![w] = next]
    BY <1>12 DEF Finish, Ends, Goes
  <2>2. QED
    BY <1>1, <2>1
<1>13. QED
  BY <1>4, <1>5, <1>6, <1>7, <1>8, <1>9, <1>10, <1>11, <1>12

LEMMA SeekContribute ==
    ASSUME SeekInv, NEW w \in Worker, Contribute(w)
    PROVE  /\ OrgAbout' /\ AboutGrows
           /\ (\A v \in Worker : Seeking(pc[v], job[v], orgCall[v]))'
<1>1. PICK k, one : k = job[w] /\ k \in JobRecords /\ one = Head(k.linked)
  BY SeekWorker
<1>2. PICK j : j = [k EXCEPT !.linked = Tail(k.linked), !.target = one.person,
                        !.cluster = one.cluster, !.current = @ \cup {one.person},
                        !.left = AffiliationsIn(k.records, one.cluster)]
  OBVIOUS
<1>3. /\ job' = [job EXCEPT ![w] = j] /\ pc' = [pc EXCEPT ![w] = "affiliating"]
      /\ UNCHANGED <<organizations, orgVars>>
  <2>1. job' = [job EXCEPT ![w].linked = Tail(@), ![w].target = one.person,
                           ![w].cluster = one.cluster, ![w].current = @ \cup {one.person},
                           ![w].left = AffiliationsIn(k.records, one.cluster)]
    BY <1>1 DEF Contribute
  <2>2. job' = [job EXCEPT ![w] = j]
    BY <1>1, <1>2, <2>1, SeekWorker DEF JobRecords
  <2>3. QED
    BY <2>2 DEF Contribute, Goes
<1>4. OrgAbout' /\ AboutGrows /\ Advance
  BY <1>3, SeekWorker, AboutStored DEF orgVars
<1>5. j.left = AffiliationsIn(j.records, j.cluster)
  BY <1>1, <1>2 DEF JobRecords
<1>6. Seeking("affiliating", j, orgCall[w])'
  BY <1>5 DEF Seeking, Sought, AffiliationsIn, ContributionsIn
<1>7. QED
  BY <1>3, <1>4, <1>6, SeekStep, SeekWorker DEF SeekInv, Advance

\* Each organization called for is in a cluster of identifiers that the call is about.
LEMMA SeekCallOrganization ==
    ASSUME HasUsable, SeekInv, NEW w \in Worker, CallOrganization(w)
    PROVE  /\ OrgAbout' /\ AboutGrows
           /\ (\A v \in Worker : Seeking(pc[v], job[v], orgCall[v]))'
<1>1. PICK o \in job[w].left :
        /\ \E call \in O!Calls(O!Cluster(o)) : orgCall' = [orgCall EXCEPT ![w] = call]
        /\ job' = [job EXCEPT ![w].left = job[w].left \ O!Cluster(o), ![w].found = Found(w)]
  BY DEF CallOrganization
<1>2. PICK k, cluster, left, found, call :
        /\ k = job[w] /\ cluster = O!Cluster(o) /\ left = k.left \ cluster /\ found = Found(w)
        /\ call \in O!Calls(O!Cluster(o)) /\ orgCall' = [orgCall EXCEPT ![w] = call]
  BY <1>1
<1>3. PICK j : j = [k EXCEPT !.left = left, !.found = found]
  OBVIOUS
<1>4. /\ UNCHANGED <<organizations, states, roots, hasStates, pc>>
      /\ pc[w] = "affiliating" /\ orgCall[w].at \in {"none", "returned"}
      /\ k \in JobRecords /\ JobOf("affiliating", k) /\ o \in organizations
  BY <1>2, SeekWorker DEF CallOrganization, Free, JobOf
<1>5. /\ CallAbout(call) /\ \A r : ~ HoldsRoot(call, r)
      /\ \A p \in cluster : Described[p].ids # {} => Identified(call, p)
  BY <1>2, <1>4, AboutCalls, SeekWorker
<1>6. /\ OrgAbout' /\ AboutGrows
      /\ \A p : Identified(call, p) => Identified(orgCall[w], p)'
      /\ \A v \in Worker \ {w}, p \in organizations :
           Identified(orgCall[v], p) => Identified(orgCall[v], p)'
  BY <1>2, <1>4, <1>5, AboutReplaced, SeekWorker
<1>7. /\ job' = [job EXCEPT ![w] = j] /\ pc' = [pc EXCEPT ![w] = "affiliating"]
      /\ j.left = left /\ j.found = found /\ j.records = k.records /\ j.cluster = k.cluster
  BY <1>1, <1>2, <1>3, <1>4, SeekWorker DEF JobRecords
<1>8. ASSUME NEW p \in AffiliationsIn(j.records, j.cluster), Described[p].ids # {}
      PROVE  Sought(p, j, orgCall[w])'
  <2>1. Sought(p, k, orgCall[w]) /\ p \in organizations
    BY <1>2, <1>4, <1>7, <1>8, SeekWorker, AffiliationsStored DEF Seeking
  <2>2. CASE p \in k.left
    BY <1>2, <1>5, <1>6, <1>7, <1>8, <2>2 DEF Sought
  <2>3. ASSUME NEW f \in found, ResultOf(f), Fits(f, p)
        PROVE  Sought(p, j, orgCall[w])'
    BY <1>6, <1>7, <2>1, <2>3, FitsStays DEF Sought
  <2>4. \A f \in found : ResultOf(f)
    BY <1>2, SeekWorker, FoundIn
  <2>5. \A f \in k.found : f \in found
    BY <1>2 DEF Found
  <2>6. Identified(orgCall[w], p) => orgCall[w].result \in found /\ Fits(orgCall[w].result, p)
    BY <1>2, <1>4 DEF Identified, Found
  <2>7. QED
    BY <2>1, <2>2, <2>3, <2>4, <2>5, <2>6 DEF Sought
<1>9. Seeking("affiliating", j, orgCall[w])'
  BY <1>8 DEF Seeking, AffiliationsIn, ContributionsIn
<1>10. QED
  BY <1>6, <1>7, <1>9, SeekStep, SeekWorker DEF SeekInv

LEMMA SeekTreatOrganization ==
    ASSUME SeekInv, NEW w \in Worker, TreatOrganization(w)
    PROVE  /\ OrgAbout' /\ AboutGrows
           /\ (\A v \in Worker : Seeking(pc[v], job[v], orgCall[v]))'
<1>1. PICK k, call, next : /\ k = job[w] /\ call = orgCall[w] /\ next = orgCall'[w]
                           /\ k \in JobRecords /\ JobOf("affiliating", k)
                           /\ Seeking("affiliating", k, call) /\ pc[w] = "affiliating"
  BY SeekWorker DEF TreatOrganization
<1>2. /\ job' = [job EXCEPT ![w] = k] /\ pc' = [pc EXCEPT ![w] = "affiliating"]
  BY <1>1, SeekWorker DEF TreatOrganization
<1>3. OrgAbout' /\ AboutGrows /\ Advance
  BY SeekWorker, AboutWork DEF TreatOrganization
<1>4. ASSUME NEW o \in AffiliationsIn(k.records, k.cluster), Described[o].ids # {}
      PROVE  o \in k.left \/ (\E f \in k.found : Fits(f, o)') \/ Identified(next, o)'
  <2>1. o \in organizations /\ Sought(o, k, call)
    BY <1>1, <1>4, AffiliationsStored DEF Seeking
  <2>2. \A f \in k.found : Fits(f, o) => Fits(f, o)'
    BY <1>1, <1>3, <2>1, FitsStays DEF JobOf
  <2>3. Identified(call, o) => Identified(next, o)'
    BY <1>1, <1>3, <2>1, IdentifiedIs DEF Advance
  <2>4. QED
    BY <2>1, <2>2, <2>3 DEF Sought
<1>5. Seeking("affiliating", k, orgCall[w])'
  BY <1>1, <1>4, IdentifiedIs DEF Seeking, Sought, Fits, AffiliationsIn, ContributionsIn
<1>6. QED
  BY <1>2, <1>3, <1>5, SeekStep, SeekWorker DEF SeekInv, Advance

LEMMA SeekLeaves ==
    ASSUME SeekInv, NEW w \in Worker, Affiliate(w) \/ GiveUp(w) \/ FailCall(w) \/ Fail(w)
    PROVE  /\ OrgAbout' /\ AboutGrows
           /\ (\A v \in Worker : Seeking(pc[v], job[v], orgCall[v]))'
<1>1. /\ UNCHANGED <<organizations, states, roots, hasStates>>
      /\ orgCall' = [orgCall EXCEPT ![w] = O!NoCall]
  BY DEF Affiliate, GiveUp, FailCall, Fail, Returned
<1>2. PICK place, j : /\ place # "affiliating" /\ pc' = [pc EXCEPT ![w] = place]
                      /\ job' = [job EXCEPT ![w] = j]
  <2>1. CASE Affiliate(w)
    <3>1. PICK j : j = job'[w]
      OBVIOUS
    <3>2. job' = [job EXCEPT ![w] = j] /\ pc' = [pc EXCEPT ![w] = "contributing"]
      BY <2>1, <3>1, SeekWorker DEF Affiliate, Goes
    <3>3. QED
      BY <3>2
  <2>2. CASE GiveUp(w) \/ FailCall(w) \/ Fail(w)
    <3>1. pc' = [pc EXCEPT ![w] = "idle"] /\ job' = [job EXCEPT ![w] = NoJob]
      BY <2>2 DEF GiveUp, FailCall, Fail, Returned, Ends, Goes
    <3>2. QED
      BY <3>1
  <2>3. QED
    BY <2>1, <2>2
<1>3. QED
  BY <1>1, <1>2, SeekEnds

LEMMA SeekNext == HasUsable /\ SeekInv /\ [Next]_vars => SeekInv' /\ AboutGrows
<1> SUFFICES ASSUME HasUsable, SeekInv, [Next]_vars
             PROVE  SeekInv' /\ AboutGrows
  OBVIOUS
<1>1. FollowInv'
  BY FollowNext DEF SeekInv
<1>2. CASE UNCHANGED vars
  <2>1. UNCHANGED <<organizations, states, roots, hasStates, orgCall, pc, job>>
    BY <1>2 DEF vars, orgVars
  <2>2. AboutGrows
    BY <2>1, GrowsQuietly
  <2>3. OrgAbout' /\ \A w \in Worker : Seeking(pc[w], job[w], orgCall[w])'
    <3>1. CASE Worker = {}
      <4>1. StatesAbout'
        BY <2>1, <2>2, StatesQuietly DEF SeekInv, OrgAbout
      <4>2. ASSUME NEW r \in DOMAIN roots', NEW o \in organizations, RootAbout(r, o)
            PROVE  RootAbout(r, o)'
        BY <2>1, <2>2, <3>1, <4>2 DEF RootAbout, AllAbout, AboutGrows, O!StatesOf, O!State
      <4>3. QED
        BY <2>1, <3>1, <4>1, <4>2 DEF SeekInv, OrgAbout, RootsAbout
    <3>2. ASSUME NEW w \in Worker
          PROVE  OrgAbout' /\ \A v \in Worker : Seeking(pc[v], job[v], orgCall[v])'
      <4>1. OrgAbout' /\ Advance
        BY <2>1, AboutStored, SeekWorker
      <4>2. PICK p, k : p = pc[w] /\ k = job[w]
        OBVIOUS
      <4>3. Seeking(p, k, orgCall[w])'
        <5>1. ASSUME p = "affiliating", NEW o \in AffiliationsIn(k.records, k.cluster),
                     Described[o].ids # {}
              PROVE  Sought(o, k, orgCall[w])'
          <6>1. o \in organizations /\ Sought(o, k, orgCall[w])
            BY <4>2, <5>1, SeekWorker, AffiliationsStored DEF Seeking
          <6>2. \A f \in k.found : Fits(f, o) => Fits(f, o)'
            BY <2>2, <4>2, <6>1, SeekWorker, FitsStays DEF JobOf
          <6>3. QED
            BY <4>1, <6>1, <6>2 DEF Sought, Advance
        <5>2. QED
          BY <5>1 DEF Seeking, AffiliationsIn, ContributionsIn
      <4>4. pc' = [pc EXCEPT ![w] = p] /\ job' = [job EXCEPT ![w] = k]
        BY <2>1, <4>2, SeekWorker
      <4>5. QED
        BY <2>2, <4>1, <4>3, <4>4, SeekStep, SeekWorker DEF SeekInv, Advance
    <3>3. QED
      BY <3>1, <3>2
  <2>4. QED
    BY <1>1, <2>2, <2>3 DEF SeekInv
<1>3. ASSUME NEW w \in Worker,
             \/ Take(w) \/ Start(w) \/ Relate(w) \/ Match(w) \/ Search(w) \/ CreateExternal(w)
             \/ Merge(w) \/ Link(w) \/ Finish(w)
      PROVE  SeekInv' /\ AboutGrows
  <2>1. organizations \subseteq organizations' /\ UNCHANGED orgVars
    BY <1>3, Elsewhere, SeekWorker
  <2>2. PICK place, j : /\ place # "affiliating"
                        /\ pc' = [pc EXCEPT ![w] = place] /\ job' = [job EXCEPT ![w] = j]
    BY <1>3, Elsewhere, SeekWorker
  <2>3. QED
    BY <1>1, <2>1, <2>2, SeekElsewhere DEF SeekInv
<1>4. ASSUME NEW w \in Worker,
             \/ Contribute(w) \/ CallOrganization(w) \/ TreatOrganization(w) \/ Affiliate(w)
             \/ GiveUp(w) \/ FailCall(w) \/ Fail(w)
      PROVE  SeekInv' /\ AboutGrows
  BY <1>1, <1>4, SeekContribute, SeekCallOrganization, SeekTreatOrganization, SeekLeaves DEF SeekInv
<1>5. QED
  BY <1>2, <1>3, <1>4 DEF Next, Work

---------------------------------------------------------------------------
(***************************************************************************)
(* The groups of source people of a document: those that are together with *)
(* one of a group are in it.  The affiliations of a group are stated for a *)
(* person that records one of it: each organization with identifiers is    *)
(* covered by a root, or by a state that is about its cluster.             *)
(***************************************************************************)
Group(d, cluster) ==
    /\ cluster # {} /\ cluster \subseteq PeopleOf(d)
    /\ \A p \in cluster, q \in PeopleOf(d) : Together(d, p, q) => q \in cluster
Entry(d, q, cluster) == Group(d, cluster) /\ \E p \in cluster : Records(q, p)
Covered(S, o) == \E t \in S : t[1] = "root" \/ About(states[t[2]].ids, o)
Declared(d, cluster, S) ==
    \A o \in AffiliationsIn(sourceRecords[d], cluster) : Described[o].ids # {} => Covered(S, o)
Stated(d, q, S) ==
    \E cluster \in SUBSET SourcePerson : Entry(d, q, cluster) /\ Declared(d, cluster, S)

(***************************************************************************)
(* A worker links people to groups, then states the affiliations of one    *)
(* person after the other; when it ends, those of each contributor are.    *)
(***************************************************************************)
Declaring(d, place, j) ==
    /\ \A n \in DOMAIN j.linked : Entry(d, j.linked[n].person, j.linked[n].cluster)
    /\ place \in Grouping => Group(d, j.cluster)
    /\ \A q \in j.current : \/ Stated(d, q, statements[<<d, q>>])
                            \/ place = "affiliating" /\ q = j.target
    /\ place = "affiliating" => j.target \in j.current /\ Entry(d, j.target, j.cluster)
DocumentStated(d) ==
    /\ \A w \in On(d) : Declaring(d, pc[w], job[w])
    /\ On(d) = {} => \A q \in ContributorsOf(d) : Stated(d, q, statements[<<d, q>>])
StatedInv == SeekInv /\ \A d \in Document \ disturbed : DocumentStated(d)

LEMMA GroupStays ==
    ASSUME NEW d, NEW gone, Kept(d, gone), NEW cluster, Group(d, cluster)
    PROVE  Group(d, cluster)'
BY PeopleStay DEF Kept, Group

LEMMA EntryStays ==
    ASSUME NEW d, NEW gone, Kept(d, gone), NEW cluster, NEW q, q \notin gone, Entry(d, q, cluster)
    PROVE  Entry(d, q, cluster)'
BY GroupStays DEF Kept, Entry

LEMMA CoveredStays ==
    ASSUME AboutGrows, NEW S \in SUBSET Targets, NEW o \in organizations, Covered(S, o)
    PROVE  Covered(S, o)'
<1>1. PICK t \in S : t[1] = "root" \/ About(states[t[2]].ids, o)
  BY DEF Covered
<1>2. CASE t[1] = "root"
  BY <1>2 DEF Covered
<1>3. CASE t[1] # "root"
  <2>1. t[2] \in DOMAIN states
    BY <1>3 DEF Targets
  <2>2. About(states[t[2]].ids, o)'
    BY <1>1, <1>3, <2>1 DEF AboutGrows
  <2>3. QED
    BY <2>2 DEF Covered
<1>4. QED
  BY <1>2, <1>3

LEMMA AffiliationsOf ==
    ASSUME TypeInv, NEW d \in Document, NEW cluster \in SUBSET SourcePerson
    PROVE  AffiliationsIn(sourceRecords[d], cluster) \subseteq organizations
BY DEF TypeInv, RecordsOK, AffiliationsIn

LEMMA DeclaredStays ==
    ASSUME TypeInv, AboutGrows, NEW d \in Document, sourceRecords'[d] = sourceRecords[d],
           NEW cluster \in SUBSET SourcePerson, NEW S \in SUBSET Targets, Declared(d, cluster, S)
    PROVE  Declared(d, cluster, S)'
<1>1. PICK orgs : orgs = AffiliationsIn(sourceRecords[d], cluster) /\ orgs \subseteq organizations
  BY AffiliationsOf
<1>2. \A o \in orgs : Described[o].ids # {} => Covered(S, o)'
  BY <1>1, CoveredStays DEF Declared
<1>3. AffiliationsIn(sourceRecords[d], cluster)' = orgs
  BY <1>1 DEF AffiliationsIn, ContributionsIn
<1>4. QED
  BY <1>2, <1>3 DEF Declared

LEMMA StatedStays ==
    ASSUME TypeInv, AboutGrows, NEW d \in Document, NEW gone, Kept(d, gone), NEW q, q \notin gone,
           NEW S \in SUBSET Targets, Stated(d, q, S)
    PROVE  Stated(d, q, S)'
<1>1. PICK cluster \in SUBSET SourcePerson : Entry(d, q, cluster) /\ Declared(d, cluster, S)
  BY DEF Stated
<1>2. Entry(d, q, cluster)' /\ Declared(d, cluster, S)'
  BY <1>1, EntryStays, DeclaredStays DEF Kept
<1>3. QED
  BY <1>2 DEF Stated

LEMMA StatedIs ==
    ASSUME NEW d, NEW q, NEW S, statements'[<<d, q>>] = S, Stated(d, q, S)'
    PROVE  Stated(d, q, statements[<<d, q>>])'
BY DEF Stated, Entry, Group, Records, Declared, Covered

LEMMA DeclaringStays ==
    ASSUME TypeInv, AboutGrows, NEW d \in Document, NEW gone, Kept(d, gone),
           NEW place, NEW j \in JobRecords, Declaring(d, place, j),
           LinkedPeople(j) \cap gone = {}, j.current \cap gone = {},
           \A q \in j.current : statements'[<<d, q>>] = statements[<<d, q>>]
    PROVE  Declaring(d, place, j)'
<1>1. \A n \in DOMAIN j.linked : Entry(d, j.linked[n].person, j.linked[n].cluster)'
  BY EntryStays DEF Declaring, LinkedPeople
<1>2. place \in Grouping => Group(d, j.cluster)'
  BY GroupStays DEF Declaring
<1>3. ASSUME NEW q \in j.current, Stated(d, q, statements[<<d, q>>])
      PROVE  Stated(d, q, statements[<<d, q>>])'
  <2>1. PICK S : S = statements[<<d, q>>] /\ S \in SUBSET Targets
    BY DEF TypeInv, PeopleOK, JobRecords
  <2>2. Stated(d, q, S)'
    BY <1>3, <2>1, StatedStays
  <2>3. statements'[<<d, q>>] = S
    BY <2>1
  <2>4. QED
    BY <2>2, <2>3, StatedIs
<1>4. place = "affiliating" => j.target \in j.current /\ Entry(d, j.target, j.cluster)'
  BY EntryStays DEF Declaring
<1>5. QED
  BY <1>1, <1>2, <1>3, <1>4 DEF Declaring, Grouping

LEMMA DeclaringIs ==
    ASSUME NEW v, NEW place, NEW j, pc'[v] = place, job'[v] = j, NEW d, Declaring(d, place, j)'
    PROVE  Declaring(d, pc[v], job[v])'
BY DEF Declaring, Stated, Entry, Group, Records, Declared, Covered

\* Nothing is declared before source people are matched.
LEMMA NothingDeclared ==
    ASSUME NEW d, NEW place, place \notin Grouping \cup {"affiliating"},
           NEW j, j.linked = <<>>, j.current = {}
    PROVE  Declaring(d, place, j)'
<1>1. DOMAIN j.linked = {}
  OBVIOUS
<1>2. QED
  BY <1>1 DEF Declaring, Grouping

---------------------------------------------------------------------------
(* Steps of a worker, and the documents they are not about. *)

LEMMA StatedWorker ==
    ASSUME StatedInv, NEW w \in Worker
    PROVE  /\ SeekInv /\ FollowInv /\ TypeInv /\ job[w] \in JobRecords /\ PeopleOK
           /\ pc \in [Worker -> PC] /\ job \in [Worker -> JobRecords] /\ "" \notin Document
           /\ pc[w] \in {"idle", "starting"} => job[w].document = ""
BY SeekWorker, FollowWorker DEF StatedInv, FollowInv

\* The people a worker goes on with, while nothing disturbs its document.
LEMMA CurrentOf ==
    ASSUME NEW d, NEW place, NEW j, Progress(d, place, j), place \in PC \ {"idle", "starting"}
    PROVE  j.current \subseteq ContributorsOf(d)
BY DEF Progress, Contributing, PC, Grouping

LEMMA StatedBystander ==
    ASSUME StatedInv, AboutGrows, NEW w \in Worker, NEW place, NEW j,
           pc' = [pc EXCEPT ![w] = place], job' = [job EXCEPT ![w] = j],
           NEW d \in Document \ disturbed, job[w].document # d, j.document # d,
           NEW gone, Kept(d, gone), Spared(d, gone),
           \A r : <<d, r>> \in contributions' <=> <<d, r>> \in contributions,
           \A r \in AnyPerson : statements'[<<d, r>>] = statements[<<d, r>>]
    PROVE  DocumentStated(d)'
<1>1. /\ pc \in [Worker -> PC] /\ job \in [Worker -> JobRecords] /\ TypeInv
      /\ DocumentOK(d) /\ DocumentStated(d) /\ "" \notin Document
      /\ \A v \in Worker : pc[v] \in {"idle", "starting"} => job[v].document = ""
  BY StatedWorker DEF StatedInv, FollowInv
<1>2. On(d)' = On(d) /\ w \notin On(d)
  BY <1>1 DEF On
<1>3. ASSUME NEW v \in On(d)
      PROVE  Declaring(d, pc[v], job[v])'
  <2>1. PICK p, k : /\ p = pc[v] /\ k = job[v] /\ k \in JobRecords
                    /\ Progress(d, p, k) /\ Declaring(d, p, k)
    BY <1>1, <1>3 DEF DocumentOK, DocumentStated, On
  <2>2. pc'[v] = p /\ job'[v] = k
    BY <1>1, <1>2, <1>3, <2>1 DEF On
  <2>3. p \in PC \ {"idle", "starting"}
    BY <1>1, <1>3, <2>1 DEF On
  <2>4. LinkedPeople(k) \cap gone = {}
    BY <1>3, <2>1 DEF Spared, Matched, LinkedPeople
  <2>5. k.current \cap gone = {}
    BY <2>1, <2>3, CurrentOf DEF Spared, ContributorsOf
  <2>6. Declaring(d, p, k)'
    <3>1. \A q \in k.current : statements'[<<d, q>>] = statements[<<d, q>>]
      BY <2>1 DEF JobRecords
    <3>2. QED
      BY <1>1, <2>1, <2>4, <2>5, <3>1, DeclaringStays
  <2>7. QED
    BY <2>2, <2>6, DeclaringIs
<1>4. ASSUME On(d) = {}, NEW q \in ContributorsOf(d)
      PROVE  Stated(d, q, statements[<<d, q>>])'
  <2>1. PICK S : S = statements[<<d, q>>] /\ S \in SUBSET Targets /\ Stated(d, q, S)
    BY <1>1, <1>4 DEF DocumentStated, ContributorsOf, TypeInv, PeopleOK
  <2>2. q \notin gone
    BY <1>4 DEF ContributorsOf, Spared
  <2>3. Stated(d, q, S)'
    BY <1>1, <2>1, <2>2, StatedStays
  <2>4. statements'[<<d, q>>] = S
    BY <1>4, <2>1 DEF ContributorsOf
  <2>5. QED
    BY <2>3, <2>4, StatedIs
<1>5. ContributorsOf(d)' = ContributorsOf(d)
  BY DEF ContributorsOf
<1>6. QED
  BY <1>2, <1>3, <1>4, <1>5 DEF DocumentStated

LEMMA OwnStated ==
    ASSUME StatedInv, NEW w \in Worker, NEW place, NEW j,
           pc' = [pc EXCEPT ![w] = place], job' = [job EXCEPT ![w] = j],
           NEW d \in Document, On(d) \subseteq {w}, j.document = d, Declaring(d, place, j)'
    PROVE  DocumentStated(d)'
<1>1. pc'[w] = place /\ job'[w] = j /\ job \in [Worker -> JobRecords]
  BY StatedWorker
<1>2. On(d)' = {w}
  BY <1>1 DEF On
<1>3. Declaring(d, pc[w], job[w])'
  BY <1>1, DeclaringIs
<1>4. QED
  BY <1>2, <1>3 DEF DocumentStated

Untouched(d) ==
    /\ \A r : <<d, r>> \in contributions' <=> <<d, r>> \in contributions
    /\ \A r \in AnyPerson : statements'[<<d, r>>] = statements[<<d, r>>]

\* A step about the document of the worker, if any.
LEMMA StatedStep ==
    ASSUME StatedInv, SeekInv', AboutGrows, NEW w \in Worker, NEW place, NEW j,
           pc' = [pc EXCEPT ![w] = place], job' = [job EXCEPT ![w] = j],
           disturbed \subseteq disturbed', j.document \in {job[w].document, ""}, NEW gone,
           \A d \in Document \ disturbed' : d # job[w].document =>
              Kept(d, gone) /\ Spared(d, gone) /\ Untouched(d),
           \A d \in Document \ disturbed' :
              d = job[w].document /\ DocumentOK(d) /\ DocumentStated(d) => DocumentStated(d)'
    PROVE  StatedInv'
<1>1. ASSUME NEW d \in Document \ disturbed'
      PROVE  DocumentStated(d)'
  <2>1. d \in Document \ disturbed /\ d # ""
    BY <1>1, StatedWorker
  <2>2. DocumentOK(d) /\ DocumentStated(d)
    BY <2>1, StatedWorker DEF StatedInv, FollowInv
  <2>3. CASE d = job[w].document
    BY <1>1, <2>2, <2>3
  <2>4. CASE d # job[w].document
    BY <1>1, <2>1, <2>4, StatedBystander DEF Untouched
  <2>5. QED
    BY <2>3, <2>4
<1>2. QED
  BY <1>1 DEF StatedInv

LEMMA StatedWork ==
    ASSUME StatedInv, SeekInv', AboutGrows, NEW w \in Worker, NEW place, NEW j,
           pc' = [pc EXCEPT ![w] = place], job' = [job EXCEPT ![w] = j],
           disturbed \subseteq disturbed', j.document = job[w].document, NEW gone,
           \A d \in Document \ disturbed' : d # job[w].document =>
              Kept(d, gone) /\ Spared(d, gone) /\ Untouched(d),
           \A d \in Document \ disturbed' :
              d = job[w].document /\ Progress(d, pc[w], job[w]) /\ Declaring(d, pc[w], job[w])
                => Declaring(d, place, j)'
    PROVE  StatedInv'
<1>1. ASSUME NEW d \in Document \ disturbed', d = job[w].document, DocumentOK(d), DocumentStated(d)
      PROVE  DocumentStated(d)'
  <2>1. /\ w \in On(d) /\ On(d) \subseteq {w} /\ Progress(d, pc[w], job[w])
        /\ Declaring(d, pc[w], job[w])
    BY <1>1 DEF DocumentOK, DocumentStated, On
  <2>2. Declaring(d, place, j)'
    BY <1>1, <2>1
  <2>3. QED
    BY <1>1, <2>1, <2>2, OwnStated
<1>2. QED
  BY <1>1, StatedStep

\* Steps that change nothing of what documents share, but for people who come.
LEMMA StatedQuietly ==
    ASSUME StatedInv, SeekInv', AboutGrows, NEW w \in Worker, NEW place, NEW j \in JobRecords,
           pc' = [pc EXCEPT ![w] = place], job' = [job EXCEPT ![w] = j],
           j.document = job[w].document,
           UNCHANGED <<sourceRecords, equivalences, recordedBy, statements, disturbed, regrouped>>,
           People \subseteq People',
           \A d \in Document : d # job[w].document => Untouched(d),
           \A d \in Document : d = job[w].document /\ Progress(d, pc[w], job[w])
                                  /\ Declaring(d, pc[w], job[w]) => Declaring(d, place, j)
    PROVE  StatedInv'
<1>1. \A d : Kept(d, {}) /\ Spared(d, {})
  BY KeptAll
<1>2. ASSUME NEW d \in Document, Declaring(d, place, j)
      PROVE  Declaring(d, place, j)'
  <2>1. TypeInv /\ Kept(d, {}) /\ LinkedPeople(j) \cap {} = {} /\ j.current \cap {} = {}
    BY <1>1, StatedWorker
  <2>2. \A q \in j.current : statements'[<<d, q>>] = statements[<<d, q>>]
    OBVIOUS
  <2>3. QED
    BY <1>2, <2>1, <2>2, DeclaringStays
<1>3. QED
  BY <1>1, <1>2, StatedWork

---------------------------------------------------------------------------
(* The groups are matched. *)

\* A step that leaves the group a worker works on.
SameGroup(k, j) == SameWork(k, j) /\ j.cluster = k.cluster

LEMMA DeclaringGroup ==
    ASSUME NEW d, NEW from \in Grouping, NEW place \in Grouping, NEW k, NEW j, SameGroup(k, j),
           Declaring(d, from, k)
    PROVE  Declaring(d, place, j)
BY DEF Declaring, SameGroup, SameWork, Grouping

LEMMA MovesTo ==
    ASSUME TypeInv, NEW w \in Worker,
           \/ Take(w) \/ Start(w) \/ Relate(w) \/ Match(w) \/ Search(w) \/ CreateExternal(w)
           \/ Merge(w) \/ Link(w) \/ Finish(w)
    PROVE  \E place, j : /\ place = pc'[w] /\ j = job'[w]
                         /\ pc' = [pc EXCEPT ![w] = place] /\ job' = [job EXCEPT ![w] = j]
<1>1. pc \in [Worker -> PC] /\ job \in [Worker -> JobRecords]
  BY WorkerOf
<1>2. PICK place, j : pc' = [pc EXCEPT ![w] = place] /\ job' = [job EXCEPT ![w] = j]
  BY Elsewhere
<1>3. place = pc'[w] /\ j = job'[w]
  BY <1>1, <1>2
<1>4. QED
  BY <1>2, <1>3

LEMMA SearchedGroup ==
    ASSUME TypeInv, NEW w \in Worker, pc[w] = "searching", NEW left, NEW known, Searched(w, left, known)
    PROVE  pc'[w] \in Grouping /\ SameGroup(job[w], job'[w])
<1>1. PICK k, next : k = job[w] /\ next = [k EXCEPT !.search = left, !.known = known]
  OBVIOUS
<1>2. k \in JobRecords /\ pc \in [Worker -> PC] /\ job \in [Worker -> JobRecords]
  BY <1>1, WorkerOf
<1>3. SameGroup(k, next)
  BY <1>1, <1>2 DEF JobRecords, SameGroup, SameWork
<1>4. \/ job' = [job EXCEPT ![w] = next] /\ UNCHANGED pc
      \/ job' = [job EXCEPT ![w] = next] /\ Goes(w, "creating")
      \/ /\ \E q \in known : job' = [job EXCEPT ![w] = [next EXCEPT !.target = q, !.known = @ \ {q}]]
         /\ Goes(w, IF Cardinality(known) = 1 THEN "linking" ELSE "merging")
  BY <1>1 DEF Searched
<1>5. pc'[w] \in Grouping
  BY <1>2, <1>4 DEF Goes, Grouping
<1>6. CASE job' = [job EXCEPT ![w] = next]
  BY <1>1, <1>2, <1>3, <1>5, <1>6
<1>7. ASSUME NEW q \in known, job' = [job EXCEPT ![w] = [next EXCEPT !.target = q, !.known = @ \ {q}]]
      PROVE  SameGroup(k, job'[w])
  <2>1. PICK j : j = [next EXCEPT !.target = q, !.known = @ \ {q}]
    OBVIOUS
  <2>2. job'[w] = j
    BY <1>2, <1>7, <2>1
  <2>3. SameGroup(k, j)
    BY <1>1, <1>2, <2>1 DEF JobRecords, SameGroup, SameWork
  <2>4. QED
    BY <2>2, <2>3
<1>8. QED
  BY <1>1, <1>4, <1>5, <1>6, <1>7

LEMMA GroupKept ==
    ASSUME TypeInv, NEW w \in Worker, Search(w) \/ CreateExternal(w) \/ Merge(w)
    PROVE  pc[w] \in Grouping /\ pc'[w] \in Grouping /\ SameGroup(job[w], job'[w])
<1>1. PICK k : k = job[w] /\ k \in JobRecords
  BY WorkerOf
<1>2. pc \in [Worker -> PC] /\ job \in [Worker -> JobRecords]
  BY WorkerOf
<1>3. CASE Search(w)
  <2>1. \E left, known : Searched(w, left, known)
    BY <1>3 DEF Search
  <2>2. QED
    BY <1>3, <2>1, SearchedGroup DEF Search, Grouping
<1>4. CASE CreateExternal(w)
  <2>1. PICK p : job' = [job EXCEPT ![w].target = p]
    BY <1>4 DEF CreateExternal
  <2>2. PICK j : j = [k EXCEPT !.target = p]
    OBVIOUS
  <2>3. SameGroup(k, j) /\ job'[w] = j
    <3>1. SameGroup(k, j)
      BY <1>1, <2>2 DEF JobRecords, SameGroup, SameWork
    <3>2. job'[w] = j
      BY <1>1, <1>2, <2>1, <2>2
    <3>3. QED
      BY <3>1, <3>2
  <2>4. QED
    BY <1>1, <1>2, <1>4, <2>2, <2>3 DEF CreateExternal, Goes, Grouping
<1>5. CASE Merge(w)
  <2>1. PICK p : job' = [job EXCEPT ![w].known = @ \ {p}]
    BY <1>5 DEF Merge
  <2>2. PICK j : j = [k EXCEPT !.known = @ \ {p}]
    OBVIOUS
  <2>3. SameGroup(k, j) /\ job'[w] = j
    <3>1. SameGroup(k, j)
      BY <1>1, <2>2 DEF JobRecords, SameGroup, SameWork
    <3>2. job'[w] = j
      BY <1>1, <1>2, <2>1, <2>2
    <3>3. QED
      BY <3>1, <3>2
  <2>4. QED
    BY <1>1, <1>2, <1>5, <2>2, <2>3 DEF Merge, Goes, Grouping
<1>6. QED
  BY <1>3, <1>4, <1>5

LEMMA StatedSearch ==
    ASSUME StatedInv, SeekInv', AboutGrows, NEW w \in Worker, Search(w) \/ CreateExternal(w)
    PROVE  StatedInv'
<1>1. PICK place, j : /\ place = pc'[w] /\ j = job'[w]
                      /\ pc' = [pc EXCEPT ![w] = place] /\ job' = [job EXCEPT ![w] = j]
  BY MovesTo, StatedWorker
<1>2. pc[w] \in Grouping /\ place \in Grouping /\ SameGroup(job[w], j)
  BY <1>1, GroupKept, StatedWorker
<1>3. /\ UNCHANGED <<sourceRecords, equivalences, ghosts, recordedBy, contributions, statements,
                     disturbed, regrouped>>
      /\ externals \subseteq externals'
  BY DEF Search, CreateExternal, personVars, contributionVars, historyVars
<1>4. j \in JobRecords
  BY <1>1, StatedWorker DEF SeekInv, FollowInv, GhostInv, TypeInv
<1>5. \A d : Declaring(d, pc[w], job[w]) => Declaring(d, place, j)
  BY <1>2, DeclaringGroup
<1>6. People \subseteq People' /\ j.document = job[w].document /\ \A d : Untouched(d)
  BY <1>2, <1>3 DEF People, SameGroup, SameWork, Untouched
<1>7. QED
  BY <1>1, <1>3, <1>4, <1>5, <1>6, StatedQuietly

LEMMA StatedMatch ==
    ASSUME StatedInv, SeekInv', AboutGrows, NEW w \in Worker, Match(w)
    PROVE  StatedInv'
<1>1. PICK place, j : /\ place = pc'[w] /\ j = job'[w]
                      /\ pc' = [pc EXCEPT ![w] = place] /\ job' = [job EXCEPT ![w] = j]
  BY MovesTo, StatedWorker
<1>2. PICK p \in job[w].left :
        LET cluster == Equivalents(p) \cap ContributorsIn(job[w].records)
            next == [job[w] EXCEPT !.left = job[w].left \ Equivalents(p), !.cluster = cluster]
        IN
        \/ \E q : job' = [job EXCEPT ![w] = [next EXCEPT !.target = q]] /\ Goes(w, "linking")
        \/ /\ job' = [job EXCEPT ![w] = [next EXCEPT !.search = cluster, !.known = {}]]
           /\ Goes(w, "searching")
  BY Zenon DEF Match
<1>3. PICK k, cluster : k = job[w] /\ cluster = Equivalents(p) \cap ContributorsIn(k.records)
  OBVIOUS
<1>4. PICK next : next = [k EXCEPT !.left = k.left \ Equivalents(p), !.cluster = cluster]
  OBVIOUS
<1>5. /\ k \in JobRecords /\ pc[w] = "matching" /\ HandOf("matching", k) /\ RecordsOK
      /\ UNCHANGED <<sourceRecords, equivalences, recordedBy, contributions, statements, disturbed,
                     regrouped, externals, ghosts>>
      /\ job \in [Worker -> JobRecords] /\ pc \in [Worker -> PC]
  BY <1>3, StatedWorker, FollowWorker DEF Match, personVars, contributionVars, historyVars
<1>6. SameWork(k, next) /\ next.cluster = cluster
  BY <1>4, <1>5 DEF JobRecords, SameWork
<1>7. place \in {"linking", "searching"} /\ SameWork(k, j) /\ j.cluster = cluster
  <2>1. \/ \E q : job' = [job EXCEPT ![w] = [next EXCEPT !.target = q]] /\ Goes(w, "linking")
        \/ /\ job' = [job EXCEPT ![w] = [next EXCEPT !.search = cluster, !.known = {}]]
           /\ Goes(w, "searching")
    BY <1>2, <1>3, <1>4
  <2>2. place \in {"linking", "searching"}
    BY <1>1, <1>5, <2>1 DEF Goes
  <2>3. ASSUME NEW q, job' = [job EXCEPT ![w] = [next EXCEPT !.target = q]]
        PROVE  SameWork(k, j) /\ j.cluster = cluster
    <3>1. PICK i : i = [next EXCEPT !.target = q]
      OBVIOUS
    <3>2. j = i
      BY <1>1, <1>5, <2>3, <3>1
    <3>3. SameWork(next, i) /\ i.cluster = next.cluster
      BY <1>4, <1>5, <3>1 DEF JobRecords, SameWork
    <3>4. QED
      BY <1>6, <3>2, <3>3 DEF SameWork
  <2>4. ASSUME job' = [job EXCEPT ![w] = [next EXCEPT !.search = cluster, !.known = {}]]
        PROVE  SameWork(k, j) /\ j.cluster = cluster
    <3>1. PICK i : i = [next EXCEPT !.search = cluster, !.known = {}]
      OBVIOUS
    <3>2. j = i
      BY <1>1, <1>5, <2>4, <3>1
    <3>3. SameWork(next, i) /\ i.cluster = next.cluster
      BY <1>4, <1>5, <3>1 DEF JobRecords, SameWork
    <3>4. QED
      BY <1>6, <3>2, <3>3 DEF SameWork
  <2>5. QED
    BY <2>1, <2>2, <2>3, <2>4
<1>8. ASSUME NEW d \in Document, Progress(d, "matching", k), Declaring(d, "matching", k)
      PROVE  Declaring(d, place, j)
  <2>1. k.records = sourceRecords[d] /\ k.current = {}
    BY <1>8 DEF Progress
  <2>2. PeopleOf(d) = ContributorsIn(k.records) /\ PeopleOf(d) \subseteq Stored
    BY <1>5, <2>1, StoredAre DEF PeopleOf
  <2>3. p \in PeopleOf(d) /\ p \in Stored
    BY <1>3, <1>5, <2>2 DEF HandOf
  <2>4. p \in cluster /\ cluster \subseteq PeopleOf(d)
    BY <1>3, <2>2, <2>3, SameReflexive DEF Same
  <2>5. ASSUME NEW q \in cluster, NEW r \in PeopleOf(d), Together(d, q, r)
        PROVE  r \in cluster
    <3>1. Same(p, q) /\ q \in Stored /\ r \in Stored
      BY <1>3, <2>2, <2>4, <2>5 DEF Same
    <3>2. Same(p, r)
      BY <2>5, <3>1, SameTransitive DEF Together
    <3>3. QED
      BY <1>3, <2>2, <2>5, <3>2 DEF Same
  <2>6. Group(d, cluster)
    BY <2>4, <2>5 DEF Group
  <2>7. QED
    BY <1>7, <1>8, <2>1, <2>6 DEF Declaring, SameWork
<1>9. j \in JobRecords
  BY <1>1, StatedWorker DEF SeekInv, FollowInv, GhostInv, TypeInv
<1>10. People \subseteq People' /\ j.document = job[w].document /\ \A d : Untouched(d)
  BY <1>3, <1>5, <1>7 DEF People, SameWork, Untouched
<1>11. \A d \in Document : d = job[w].document /\ Progress(d, pc[w], job[w])
                             /\ Declaring(d, pc[w], job[w]) => Declaring(d, place, j)
  BY <1>3, <1>5, <1>8
<1>12. QED
  BY <1>1, <1>5, <1>9, <1>10, <1>11, StatedQuietly

LEMMA StatedRelate ==
    ASSUME StatedInv, SeekInv', AboutGrows, NEW w \in Worker, Relate(w)
    PROVE  StatedInv'
<1>1. PICK place, j : /\ place = pc'[w] /\ j = job'[w]
                      /\ pc' = [pc EXCEPT ![w] = place] /\ job' = [job EXCEPT ![w] = j]
  BY MovesTo, StatedWorker
<1>2. PICK k, people : k = job[w] /\ people = ContributorsIn(k.records)
  OBVIOUS
<1>3. /\ k \in JobRecords /\ pc[w] = "relating" /\ HandOf("relating", k)
      /\ pc \in [Worker -> PC] /\ job \in [Worker -> JobRecords]
  BY <1>2, StatedWorker, FollowWorker DEF Relate
<1>4. /\ UNCHANGED <<sourceRecords, externals, ghosts, recordedBy, contributions, statements, disturbed>>
      /\ regrouped' = (regrouped \cup Regrouped) \ {k.document}
  BY <1>2 DEF Relate, contributionVars
<1>5. place \in {"contributing", "matching"} /\ SameWork(k, j)
  <2>1. PICK i : i = [k EXCEPT !.left = people]
    OBVIOUS
  <2>2. j = i
    BY <1>1, <1>2, <1>3, <2>1 DEF Relate
  <2>3. SameWork(k, i)
    BY <1>3, <2>1 DEF JobRecords, SameWork
  <2>4. place \in {"contributing", "matching"}
    BY <1>1, <1>3 DEF Relate, Goes
  <2>5. QED
    BY <2>2, <2>3, <2>4
<1>6. ASSUME NEW d \in Document, d # k.document
      PROVE  Kept(d, {}) /\ Spared(d, {})
  <2>1. CASE d \in Regrouped
    BY <1>4, <1>6, <2>1 DEF Kept, Spared, Together, Records, People
  <2>2. CASE d \notin Regrouped
    BY <1>4, <1>6, <2>2, KeptApart
  <2>3. QED
    BY <2>1, <2>2
<1>7. ASSUME NEW d \in Document, Progress(d, "relating", k)
      PROVE  Declaring(d, place, j)'
  <2>1. j.linked = <<>> /\ j.current = {}
    BY <1>3, <1>5, <1>7 DEF HandOf, Progress, SameWork
  <2>2. QED
    BY <1>5, <2>1, NothingDeclared DEF Grouping
<1>8. \A d \in Document : d = job[w].document /\ Progress(d, pc[w], job[w]) => Declaring(d, place, j)'
  BY <1>2, <1>3, <1>7
<1>9. j.document = job[w].document /\ \A d : Untouched(d)
  BY <1>2, <1>4, <1>5 DEF SameWork, Untouched
<1>10. QED
  BY <1>1, <1>2, <1>4, <1>6, <1>8, <1>9, StatedWork

LEMMA StatedMerge ==
    ASSUME StatedInv, SeekInv', AboutGrows, NEW w \in Worker, Merge(w)
    PROVE  StatedInv'
<1>1. PICK place, j : /\ place = pc'[w] /\ j = job'[w]
                      /\ pc' = [pc EXCEPT ![w] = place] /\ job' = [job EXCEPT ![w] = j]
  BY MovesTo, StatedWorker
<1>2. PICK k, keep : k = job[w] /\ keep = k.target
  OBVIOUS
<1>3. PICK p, effective, moved, gone, lost :
        /\ effective = ({keep, p} \subseteq People /\ DocumentsOf(p) \ DocumentsOf(keep) # {})
        /\ moved = IF effective THEN RecordedOf(p) \ RecordedOf(keep) ELSE {}
        /\ gone = IF moved # {} THEN {p} ELSE {}
        /\ lost = IF effective THEN DocumentsOf(p) ELSE {}
        /\ contributions' = contributions \ (lost \X {p})
        /\ statements' = [c \in DOMAIN statements |->
                IF c \in lost \X {p} THEN {} ELSE statements[c]]
        /\ recordedBy' = {l \in recordedBy : l[1] \notin gone} \cup ({keep} \X moved)
        /\ Takes(w, gone, lost)
  <2>1. PICK p :
          LET effective == {job[w].target, p} \subseteq People
                             /\ DocumentsOf(p) \ DocumentsOf(job[w].target) # {}
              moved == IF effective THEN RecordedOf(p) \ RecordedOf(job[w].target) ELSE {}
              gone == IF moved # {} THEN {p} ELSE {}
              lost == IF effective THEN DocumentsOf(p) ELSE {}
          IN
          /\ contributions' = contributions \ (lost \X {p})
          /\ statements' = [c \in DOMAIN statements |->
                  IF c \in lost \X {p} THEN {} ELSE statements[c]]
          /\ recordedBy' = {l \in recordedBy : l[1] \notin gone} \cup ({job[w].target} \X moved)
          /\ Takes(w, gone, lost)
    BY Zenon DEF Merge
  <2>2. PICK effective, moved, gone, lost :
          /\ effective = ({keep, p} \subseteq People /\ DocumentsOf(p) \ DocumentsOf(keep) # {})
          /\ moved = IF effective THEN RecordedOf(p) \ RecordedOf(keep) ELSE {}
          /\ gone = IF moved # {} THEN {p} ELSE {}
          /\ lost = IF effective THEN DocumentsOf(p) ELSE {}
    OBVIOUS
  <2>3. /\ contributions' = contributions \ (lost \X {p})
        /\ statements' = [c \in DOMAIN statements |->
                IF c \in lost \X {p} THEN {} ELSE statements[c]]
        /\ recordedBy' = {l \in recordedBy : l[1] \notin gone} \cup ({keep} \X moved)
        /\ Takes(w, gone, lost)
    BY <1>2, <2>1, <2>2
  <2>4. QED
    BY <2>2, <2>3
<1>4. /\ k \in JobRecords /\ pc[w] = "merging" /\ PeopleOK /\ TypeInv
      /\ UNCHANGED <<sourceRecords, equivalences>>
  BY <1>2, StatedWorker DEF Merge
<1>5. place \in Grouping /\ SameGroup(k, j)
  BY <1>1, <1>2, <1>4, GroupKept
<1>6. lost \in SUBSET Document /\ (gone # {} => gone = {p} /\ lost = DocumentsOf(p))
  BY <1>3, <1>4, DocumentsIn
<1>7. \A c \in contributions : c[2] \in gone => c[1] \in lost
  <2>1. \A c \in contributions : c[1] \in DocumentsOf(c[2])
    BY <1>4 DEF DocumentsOf
  <2>2. QED
    BY <1>6, <2>1
<1>8. /\ disturbed \subseteq disturbed' /\ \A d : Kept(d, gone)
      /\ \A d \in Document \ disturbed' : d # k.document => Spared(d, gone) /\ d \notin lost
      /\ \A d \in Document \ disturbed' : d = k.document => LinkedPeople(k) \cap gone = {}
  <2>1. Takes(w, gone, lost) /\ \A l \in recordedBy : l[1] \notin gone => l \in recordedBy'
    BY <1>3
  <2>2. QED
    BY <1>2, <1>4, <1>6, <1>7, <2>1, StatedWorker, FollowTakes
<1>9. ASSUME NEW d \in Document \ disturbed', d # k.document
      PROVE  Untouched(d)
  <2>1. d \in Document /\ d \notin lost
    BY <1>8, <1>9
  <2>2. \A r : <<d, r>> \in contributions' <=> <<d, r>> \in contributions
    BY <1>3, <2>1
  <2>3. \A r \in AnyPerson : statements'[<<d, r>>] = statements[<<d, r>>]
    BY <1>3, <1>4, <2>1 DEF PeopleOK
  <2>4. QED
    BY <2>2, <2>3 DEF Untouched
<1>10. ASSUME NEW d \in Document \ disturbed', d = k.document, Progress(d, "merging", k),
              Declaring(d, "merging", k)
       PROVE  Declaring(d, place, j)'
  <2>1. Declaring(d, place, j)
    BY <1>5, <1>10, DeclaringGroup DEF Grouping
  <2>2. LinkedPeople(j) = LinkedPeople(k) /\ j.current = {}
    BY <1>5, <1>10 DEF Progress, Grouping, LinkedPeople, SameGroup, SameWork
  <2>3. j \in JobRecords
    BY <1>1, StatedWorker DEF SeekInv, FollowInv, GhostInv, TypeInv
  <2>4. QED
    BY <1>4, <1>8, <1>10, <2>1, <2>2, <2>3, DeclaringStays
<1>11. \A d \in Document \ disturbed' :
         d = job[w].document /\ Progress(d, pc[w], job[w]) /\ Declaring(d, pc[w], job[w])
           => Declaring(d, place, j)'
  BY <1>2, <1>4, <1>10
<1>12. j.document = job[w].document
  BY <1>2, <1>5 DEF SameGroup, SameWork
<1>13. QED
  BY <1>1, <1>2, <1>8, <1>9, <1>11, <1>12, StatedWork

---------------------------------------------------------------------------
(* People are linked to groups, and get contributions and statements. *)

LEMMA LinkedEntries ==
    ASSUME NEW linked \in Seq(Links), NEW person, NEW cluster,
           NEW new, new = Linked(linked, person, cluster), NEW n \in DOMAIN new
    PROVE  \/ new[n].person = person /\ new[n].cluster = cluster
           \/ n \in DOMAIN linked /\ new[n] = linked[n]
<1>1. PICK same : same = {m \in DOMAIN linked : linked[m].person = person}
  OBVIOUS
<1>2. CASE same = {}
  <2>1. PICK link : link = [person |-> person, cluster |-> cluster]
    OBVIOUS
  <2>2. new = Append(linked, link)
    BY <1>1, <1>2, <2>1 DEF Linked
  <2>3. linked \in Seq(Links \cup {link})
    OBVIOUS
  <2>4. /\ DOMAIN new = 1 .. Len(linked) + 1 /\ Len(linked) \in Nat /\ DOMAIN linked = 1 .. Len(linked)
        /\ new[Len(linked) + 1] = link /\ \A m \in DOMAIN linked : new[m] = linked[m]
    BY <2>2, <2>3
  <2>5. link.person = person /\ link.cluster = cluster
    BY <2>1
  <2>6. n \in DOMAIN linked \/ n = Len(linked) + 1
    BY <2>4
  <2>7. QED
    BY <2>4, <2>5, <2>6
<1>3. CASE same # {}
  <2>1. new = [m \in DOMAIN linked |->
            IF m \in same THEN [linked[m] EXCEPT !.cluster = cluster] ELSE linked[m]]
    BY <1>1, <1>3 DEF Linked
  <2>2. n \in DOMAIN linked /\ linked[n] \in Links
    BY <2>1
  <2>3. [linked[n] EXCEPT !.cluster = cluster].person = linked[n].person
        /\ [linked[n] EXCEPT !.cluster = cluster].cluster = cluster
    BY <2>2 DEF Links
  <2>4. QED
    BY <1>1, <2>1, <2>2, <2>3
<1>4. QED
  BY <1>2, <1>3

LEMMA StatedLink ==
    ASSUME StatedInv, SeekInv', AboutGrows, NEW w \in Worker, Link(w)
    PROVE  StatedInv'
<1>1. PICK place, j : /\ place = pc'[w] /\ j = job'[w]
                      /\ pc' = [pc EXCEPT ![w] = place] /\ job' = [job EXCEPT ![w] = j]
  BY MovesTo, StatedWorker
<1>2. PICK k, person, cluster, gone :
        k = job[w] /\ person = k.target /\ cluster = k.cluster /\ gone = Gone(w)
  OBVIOUS
<1>3. PICK linked, lost : /\ linked = Linked(k.linked, person, cluster)
                          /\ lost = UNION {DocumentsOf(p) : p \in gone}
  OBVIOUS
<1>4. /\ k \in JobRecords /\ HandOf("linking", k) /\ PeopleOK /\ TypeInv /\ pc[w] = "linking"
      /\ pc \in [Worker -> PC] /\ job \in [Worker -> JobRecords]
  BY <1>2, StatedWorker, FollowWorker DEF Link
<1>5. /\ recordedBy' = {l \in recordedBy : l[1] \notin gone}
            \cup (IF person \in People THEN {person} \X cluster ELSE {})
      /\ contributions' = {c \in contributions : c[2] \notin gone}
      /\ statements' = [c \in DOMAIN statements |-> IF c[2] \in gone THEN {} ELSE statements[c]]
      /\ Takes(w, gone, lost)
      /\ UNCHANGED <<sourceRecords, equivalences>>
      /\ pc' = [pc EXCEPT ![w] = IF k.left = {} THEN "contributing" ELSE "matching"]
  BY <1>2, <1>3 DEF Link, Goes
<1>6. /\ place \in {"contributing", "matching"} /\ j.linked = linked
      /\ j.current = k.current /\ j.document = k.document
  <2>1. PICK i : i = [k EXCEPT !.linked = linked, !.target = "", !.cluster = {}]
    OBVIOUS
  <2>2. job' = [job EXCEPT ![w].linked = Linked(@, person, cluster), ![w].target = "",
                           ![w].cluster = {}]
    BY <1>2 DEF Link
  <2>3. j = i
    BY <1>1, <1>2, <1>3, <1>4, <2>1, <2>2 DEF JobRecords
  <2>4. i.linked = linked /\ i.current = k.current /\ i.document = k.document
    BY <1>4, <2>1 DEF JobRecords
  <2>5. place \in {"contributing", "matching"}
    BY <1>1, <1>4, <1>5
  <2>6. QED
    BY <2>3, <2>4, <2>5
<1>7. lost \in SUBSET Document /\ \A c \in contributions : c[2] \in gone => c[1] \in lost
  <2>1. \A p : DocumentsOf(p) \in SUBSET Document
    BY <1>4, DocumentsIn
  <2>2. \A c \in contributions : c[1] \in DocumentsOf(c[2])
    BY <1>4 DEF PeopleOK, DocumentsOf
  <2>3. QED
    BY <1>3, <2>1, <2>2
<1>8. /\ disturbed \subseteq disturbed' /\ \A d : Kept(d, gone)
      /\ \A d \in Document \ disturbed' : d # k.document => Spared(d, gone) /\ d \notin lost
      /\ \A d \in Document \ disturbed' : d = k.document => LinkedPeople(k) \cap gone = {}
  <2>1. /\ Takes(w, gone, lost) /\ UNCHANGED <<sourceRecords, equivalences>>
        /\ \A l \in recordedBy : l[1] \notin gone => l \in recordedBy'
    BY <1>5
  <2>2. QED
    BY <1>2, <1>7, <2>1, StatedWorker, FollowTakes
<1>9. ASSUME NEW d \in Document \ disturbed', d # k.document
      PROVE  Untouched(d)
  <2>1. d \in Document /\ d \notin lost
    BY <1>8, <1>9
  <2>2. \A r : <<d, r>> \in contributions' <=> <<d, r>> \in contributions
    BY <1>5, <1>7, <2>1
  <2>3. ASSUME NEW r \in AnyPerson
        PROVE  statements'[<<d, r>>] = statements[<<d, r>>]
    <3>1. <<d, r>> \in DOMAIN statements /\ (statements[<<d, r>>] # {} => <<d, r>> \in contributions)
      BY <1>4, <2>1 DEF PeopleOK
    <3>2. CASE r \in gone
      <4>1. <<d, r>> \notin contributions
        BY <1>7, <2>1, <3>2
      <4>2. QED
        BY <1>5, <3>1, <3>2, <4>1
    <3>3. CASE r \notin gone
      BY <1>5, <3>1, <3>3
    <3>4. QED
      BY <3>2, <3>3
  <2>4. QED
    BY <2>2, <2>3 DEF Untouched
<1>10. ASSUME NEW d \in Document \ disturbed', d = k.document, Progress(d, "linking", k),
              Declaring(d, "linking", k)
       PROVE  Declaring(d, place, j)'
  <2>1. k.current = {} /\ Matching(d, "linking", k) /\ Kept(d, gone)
    BY <1>8, <1>10 DEF Progress, Grouping
  <2>2. person \in People /\ cluster # {}
    BY <1>2, <1>4, <2>1 DEF Matching, Grouping, HandOf
  <2>3. Group(d, cluster)'
    BY <1>2, <1>10, <2>1, GroupStays DEF Declaring, Grouping
  <2>4. \A c \in cluster : Records(person, c)'
    BY <1>5, <2>2 DEF Records
  <2>5. Entry(d, person, cluster)'
    BY <2>2, <2>3, <2>4 DEF Entry
  <2>6. ASSUME NEW n \in DOMAIN linked
        PROVE  Entry(d, linked[n].person, linked[n].cluster)'
    <3>1. k.linked \in Seq(Links)
      BY <1>4 DEF JobRecords, Links
    <3>2. \/ linked[n].person = person /\ linked[n].cluster = cluster
          \/ n \in DOMAIN k.linked /\ linked[n] = k.linked[n]
      BY <1>3, <2>6, <3>1, LinkedEntries
    <3>3. ASSUME n \in DOMAIN k.linked, linked[n] = k.linked[n]
          PROVE  Entry(d, linked[n].person, linked[n].cluster)'
      <4>1. PICK q, C : q = k.linked[n].person /\ C = k.linked[n].cluster
        OBVIOUS
      <4>2. Entry(d, q, C) /\ q \notin gone
        BY <1>8, <1>10, <3>3, <4>1 DEF Declaring, LinkedPeople
      <4>3. Entry(d, q, C)'
        BY <2>1, <4>2, EntryStays
      <4>4. QED
        BY <3>3, <4>1, <4>3 DEF Entry, Group
    <3>4. QED
      BY <2>5, <3>2, <3>3 DEF Entry, Group
  <2>7. QED
    BY <1>6, <2>1, <2>6 DEF Declaring, Grouping, Entry, Group
<1>11. \A d \in Document \ disturbed' :
         d = job[w].document /\ Progress(d, pc[w], job[w]) /\ Declaring(d, pc[w], job[w])
           => Declaring(d, place, j)'
  BY <1>2, <1>4, <1>10
<1>12. j.document = job[w].document
  BY <1>2, <1>6
<1>13. QED
  BY <1>1, <1>2, <1>8, <1>9, <1>11, <1>12, StatedWork

LEMMA StatedContribute ==
    ASSUME StatedInv, SeekInv', AboutGrows, NEW w \in Worker, Contribute(w)
    PROVE  StatedInv'
<1>1. PICK k, one, person, left :
        /\ k = job[w] /\ one = Head(k.linked) /\ person = one.person
        /\ left = AffiliationsIn(k.records, one.cluster)
  OBVIOUS
<1>2. PICK tail, current : tail = Tail(k.linked) /\ current = k.current \cup {person}
  OBVIOUS
<1>3. PICK j : j = [k EXCEPT !.linked = tail, !.target = person, !.cluster = one.cluster,
                             !.current = current, !.left = left]
  OBVIOUS
<1>4. /\ k \in JobRecords /\ pc[w] = "contributing" /\ k.linked # <<>>
      /\ job \in [Worker -> JobRecords]
  BY <1>1, StatedWorker DEF Contribute
<1>5. /\ job' = [job EXCEPT ![w] = j] /\ pc' = [pc EXCEPT ![w] = "affiliating"]
      /\ UNCHANGED <<sourceRecords, equivalences, externals, recordedBy, statements, disturbed, regrouped>>
      /\ ghosts' = ghosts \cup ({person} \ People)
      /\ contributions' = contributions \cup {<<k.document, person>>}
  <2>1. job' = [job EXCEPT ![w].linked = Tail(@), ![w].target = person,
                           ![w].cluster = one.cluster, ![w].current = @ \cup {person},
                           ![w].left = left]
    BY <1>1 DEF Contribute
  <2>2. job' = [job EXCEPT ![w] = j]
    BY <1>1, <1>2, <1>3, <1>4, <2>1 DEF JobRecords
  <2>3. QED
    BY <1>1, <2>2 DEF Contribute, Goes
<1>6. /\ j.linked = tail /\ j.current = current /\ j.document = k.document
      /\ j.target = person /\ j.cluster = one.cluster
  BY <1>3, <1>4 DEF JobRecords
<1>7. /\ 1 \in DOMAIN k.linked /\ one = k.linked[1]
      /\ \A i \in DOMAIN tail : i + 1 \in DOMAIN k.linked /\ tail[i] = k.linked[i + 1]
  <2>1. k.linked \in Seq(Links) /\ k.linked # <<>>
    BY <1>4 DEF JobRecords, Links
  <2>2. QED
    BY <1>1, <1>2, <2>1
<1>8. ASSUME NEW d, Declaring(d, "contributing", k)
      PROVE  Declaring(d, "affiliating", j)
  <2>1. \A n \in DOMAIN tail : Entry(d, tail[n].person, tail[n].cluster)
    BY <1>7, <1>8 DEF Declaring
  <2>2. Entry(d, person, one.cluster)
    BY <1>1, <1>7, <1>8 DEF Declaring
  <2>3. \A q \in k.current : Stated(d, q, statements[<<d, q>>])
    BY <1>8 DEF Declaring
  <2>4. QED
    BY <1>2, <1>6, <2>1, <2>2, <2>3 DEF Declaring, Grouping
<1>9. j \in JobRecords
  <2>1. job'[w] = j
    BY <1>4, <1>5
  <2>2. QED
    BY <2>1, StatedWorker DEF SeekInv, FollowInv, GhostInv, TypeInv
<1>10. People \subseteq People' /\ \A d : d # job[w].document => Untouched(d)
  BY <1>1, <1>5 DEF People, Untouched
<1>11. QED
  BY <1>1, <1>4, <1>5, <1>6, <1>8, <1>9, <1>10, StatedQuietly

LEMMA StatedCalls ==
    ASSUME StatedInv, SeekInv', AboutGrows, NEW w \in Worker, CallOrganization(w) \/ TreatOrganization(w)
    PROVE  StatedInv'
<1>1. PICK k : k = job[w] /\ k \in JobRecords
  BY StatedWorker
<1>2. /\ pc \in [Worker -> PC] /\ job \in [Worker -> JobRecords] /\ pc[w] = "affiliating"
      /\ UNCHANGED <<sourceRecords, equivalences, externals, ghosts, recordedBy, contributions,
                     statements, disturbed, regrouped, pc>>
  BY StatedWorker DEF CallOrganization, TreatOrganization, Free, personVars, contributionVars,
     historyVars
<1>3. PICK j : /\ job' = [job EXCEPT ![w] = j] /\ SameGroup(k, j) /\ j.target = k.target
  <2>1. CASE CallOrganization(w)
    <3>1. PICK o \in k.left :
            job' = [job EXCEPT ![w].left = @ \ O!Cluster(o), ![w].found = Found(w)]
      BY <1>1, <2>1 DEF CallOrganization
    <3>2. PICK left, found : left = k.left \ O!Cluster(o) /\ found = Found(w)
      OBVIOUS
    <3>3. PICK j : j = [k EXCEPT !.left = left, !.found = found]
      OBVIOUS
    <3>4. job' = [job EXCEPT ![w] = j]
      BY <1>1, <1>2, <3>1, <3>2, <3>3 DEF JobRecords
    <3>5. SameGroup(k, j) /\ j.target = k.target
      BY <1>1, <3>3 DEF JobRecords, SameGroup, SameWork
    <3>6. QED
      BY <3>4, <3>5
  <2>2. CASE TreatOrganization(w)
    <3>1. job' = [job EXCEPT ![w] = k]
      BY <1>1, <1>2, <2>2 DEF TreatOrganization
    <3>2. QED
      BY <3>1 DEF SameGroup, SameWork
  <2>3. QED
    BY <2>1, <2>2
<1>4. pc' = [pc EXCEPT ![w] = "affiliating"]
  BY <1>2
<1>5. j \in JobRecords
  <2>1. job'[w] = j
    BY <1>2, <1>3
  <2>2. QED
    BY <2>1, StatedWorker DEF SeekInv, FollowInv, GhostInv, TypeInv
<1>6. \A d : Declaring(d, "affiliating", k) => Declaring(d, "affiliating", j)
  BY <1>3 DEF Declaring, SameGroup, SameWork, Grouping
<1>7. People \subseteq People' /\ j.document = job[w].document /\ \A d : Untouched(d)
  BY <1>1, <1>2, <1>3 DEF People, SameGroup, SameWork, Untouched
<1>8. QED
  BY <1>1, <1>2, <1>3, <1>4, <1>5, <1>6, <1>7, StatedQuietly

\* The target for an organization found: its root, or one of its states.
LEMMA TargetIs ==
    ASSUME NEW f \in Results, f.states # {}, NEW orgs
    PROVE  \/ Target(f, orgs)[1] = "root"
           \/ \E s \in f.states : Target(f, orgs)[2] = s.uid
<1>1. PICK own : own = {s \in f.states : s.orgs \cap orgs # {}}
  OBVIOUS
<1>2. CASE Cardinality(f.states) = 1
  <2>1. PICK s : s = CHOOSE t \in f.states : TRUE
    OBVIOUS
  <2>2. Target(f, orgs) = <<"state", s.uid>>
    BY <1>2, <2>1 DEF Target
  <2>3. s \in f.states
    BY <2>1
  <2>4. QED
    BY <2>2, <2>3
<1>3. CASE Cardinality(f.states) # 1 /\ Cardinality(own) = 1
  <2>1. PICK s : s = CHOOSE t \in own : TRUE
    OBVIOUS
  <2>2. Target(f, orgs) = <<"state", s.uid>>
    BY <1>1, <1>3, <2>1 DEF Target
  <2>3. own # {}
    BY <1>3, FS_EmptySet
  <2>4. s \in f.states
    BY <1>1, <2>1, <2>3
  <2>5. QED
    BY <2>2, <2>4
<1>4. CASE Cardinality(f.states) # 1 /\ Cardinality(own) # 1
  <2>1. Target(f, orgs) = <<"root", f.root>>
    BY <1>1, <1>4 DEF Target
  <2>2. QED
    BY <2>1
<1>5. QED
  BY <1>2, <1>3, <1>4

\* The targets of the organizations found cover those of the person.
LEMMA AffiliateCovers ==
    ASSUME SeekInv, NEW w \in Worker, Affiliate(w), NEW orgs,
           NEW targets, targets = {Target(f, orgs) : f \in Found(w)},
           NEW o \in AffiliationsIn(job[w].records, job[w].cluster), Described[o].ids # {}
    PROVE  Covered(targets, o)
<1>1. PICK k, call : k = job[w] /\ call = orgCall[w] /\ Seeking(pc[w], k, call)
  BY SeekWorker
<1>2. /\ pc[w] = "affiliating" /\ call.at \in {"none", "returned"} /\ k.left = {}
      /\ \A f \in Found(w) : f.states # {}
  BY <1>1 DEF Affiliate, Affiliated, Free, Empty
<1>3. (\E f \in k.found : Fits(f, o)) \/ Identified(call, o)
  BY <1>1, <1>2 DEF Seeking, Sought
<1>4. PICK f \in Found(w) : Fits(f, o)
  <2>1. CASE Identified(call, o)
    <3>1. call.at = "returned" /\ Fits(call.result, o)
      BY <1>2, <2>1 DEF Identified
    <3>2. QED
      BY <1>1, <3>1 DEF Found
  <2>2. QED
    BY <1>1, <1>3, <2>1 DEF Found
<1>5. f \in Results /\ f.states # {}
  BY <1>2, FoundIn, SeekWorker
<1>6. PICK t : t = Target(f, orgs) /\ t \in targets
  OBVIOUS
<1>7. t[1] = "root" \/ \E s \in f.states : t[2] = s.uid
  BY <1>5, <1>6, TargetIs
<1>8. t[1] = "root" \/ About(states[t[2]].ids, o)
  BY <1>4, <1>7 DEF Fits
<1>9. QED
  BY <1>6, <1>8 DEF Covered

LEMMA StatedAffiliate ==
    ASSUME StatedInv, SeekInv', AboutGrows, NEW w \in Worker, Affiliate(w)
    PROVE  StatedInv'
<1>1. PICK k, c, orgs, targets, S :
        /\ k = job[w] /\ c = <<k.document, k.target>>
        /\ orgs = AffiliationsIn(k.records, k.cluster)
        /\ targets = {Target(found, orgs) : found \in Found(w)} /\ S = statements[c]
  OBVIOUS
<1>2. /\ statements' = IF targets # {} /\ c \in contributions
                       THEN [statements EXCEPT ![c] = targets] ELSE statements
      /\ pc[w] = "affiliating"
      /\ job' = [job EXCEPT ![w].target = "", ![w].cluster = {}, ![w].found = {}]
      /\ pc' = [pc EXCEPT ![w] = "contributing"]
      /\ UNCHANGED <<sourceRecords, equivalences, externals, ghosts, recordedBy, contributions,
                     disturbed, regrouped, states>>
  BY <1>1 DEF Affiliate, Affiliated, Free, Goes, personVars, historyVars
<1>3. /\ k \in JobRecords /\ PeopleOK /\ TypeInv
      /\ pc \in [Worker -> PC] /\ job \in [Worker -> JobRecords]
  BY <1>1, StatedWorker
<1>4. PICK j : j = [k EXCEPT !.target = "", !.cluster = {}, !.found = {}]
  OBVIOUS
<1>5. job' = [job EXCEPT ![w] = j] /\ SameWork(k, j)
  <2>1. job' = [job EXCEPT ![w] = j]
    BY <1>1, <1>2, <1>3, <1>4 DEF JobRecords
  <2>2. SameWork(k, j)
    BY <1>3, <1>4 DEF JobRecords, SameWork
  <2>3. QED
    BY <2>1, <2>2
<1>6. \A d : Kept(d, {}) /\ Spared(d, {})
  BY <1>2, KeptAll DEF People
<1>7. ASSUME NEW d \in Document, d # k.document
      PROVE  Untouched(d)
  <2>1. \A r \in AnyPerson : <<d, r>> \in DOMAIN statements /\ <<d, r>> # c
    BY <1>1, <1>3, <1>7 DEF PeopleOK
  <2>2. QED
    BY <1>2, <2>1 DEF Untouched
<1>8. ASSUME NEW d \in Document, d = k.document, Progress(d, "affiliating", k),
             Declaring(d, "affiliating", k)
      PROVE  Declaring(d, "contributing", j)'
  <2>1. k.records = sourceRecords[d] /\ k.current \subseteq ContributorsOf(d)
    BY <1>8 DEF Progress, Contributing
  <2>2. k.target \in k.current /\ Entry(d, k.target, k.cluster)
    BY <1>8 DEF Declaring
  <2>3. c \in contributions /\ c = <<d, k.target>>
    BY <1>1, <1>8, <2>1, <2>2 DEF ContributorsOf
  <2>4. Stated(d, k.target, statements[<<d, k.target>>])'
    <3>1. PICK T : T = statements'[c]
      OBVIOUS
    <3>2. \A o \in orgs : Described[o].ids # {} => Covered(targets, o)
      <4>1. SeekInv /\ orgs = AffiliationsIn(job[w].records, job[w].cluster)
        BY <1>1, StatedWorker
      <4>2. targets = {Target(f, orgs) : f \in Found(w)}
        BY <1>1
      <4>3. ASSUME NEW o \in orgs, Described[o].ids # {}
            PROVE  Covered(targets, o)
        BY <4>1, <4>2, <4>3, AffiliateCovers
      <4>4. QED
        BY <4>3
    <3>3. \A o \in orgs : Described[o].ids # {} => Covered(T, o)
      <4>1. CASE targets = {}
        BY <3>2, <4>1 DEF Covered
      <4>2. CASE targets # {}
        <5>1. statements' = [statements EXCEPT ![c] = targets] /\ c \in DOMAIN statements
          BY <1>2, <1>3, <2>3, <4>2 DEF PeopleOK, People, AnyPerson
        <5>2. T = targets
          BY <3>1, <5>1
        <5>3. QED
          BY <3>2, <5>2
      <4>3. QED
        BY <4>1, <4>2
    <3>4. Declared(d, k.cluster, T) /\ k.cluster \in SUBSET SourcePerson
      BY <1>1, <1>3, <2>1, <3>3 DEF Declared, JobRecords
    <3>5. Entry(d, k.target, k.cluster)'
      BY <1>6, <2>2, EntryStays
    <3>6. T \in SUBSET Targets
      <4>1. PeopleOK' /\ Targets' = Targets
        <5>1. UNCHANGED <<states, roots>>
          BY DEF Affiliate
        <5>2. QED
          BY <5>1 DEF Targets, SeekInv, FollowInv, GhostInv, TypeInv
      <4>2. c \in Document \X AnyPerson
        BY <1>3, <2>3 DEF PeopleOK, People, AnyPerson
      <4>3. QED
        BY <3>1, <4>1, <4>2 DEF PeopleOK
    <3>7. Declared(d, k.cluster, T)'
      BY <1>2, <1>3, <3>4, <3>6, DeclaredStays
    <3>8. Stated(d, k.target, T)'
      BY <3>4, <3>5, <3>7 DEF Stated
    <3>9. QED
      BY <2>3, <3>1, <3>8, StatedIs
  <2>5. ASSUME NEW q \in k.current, q # k.target
        PROVE  Stated(d, q, statements[<<d, q>>])'
    <3>1. PICK T : T = statements[<<d, q>>] /\ T \in SUBSET Targets
      BY <1>3 DEF PeopleOK, JobRecords
    <3>2. Stated(d, q, T)
      BY <1>8, <2>5, <3>1 DEF Declaring
    <3>3. Stated(d, q, T)'
      <4>1. PICK gone : gone = {} /\ Kept(d, gone) /\ q \notin gone
        BY <1>6
      <4>2. QED
        BY <1>3, <3>1, <3>2, <4>1, StatedStays
    <3>4. statements'[<<d, q>>] = T
      <4>1. <<d, q>> # c /\ <<d, q>> \in DOMAIN statements
        BY <1>3, <2>3, <2>5 DEF PeopleOK, JobRecords
      <4>2. QED
        BY <1>2, <3>1, <4>1
    <3>5. QED
      BY <3>3, <3>4, StatedIs
  <2>6. \A n \in DOMAIN k.linked : Entry(d, k.linked[n].person, k.linked[n].cluster)'
    BY <1>6, <1>8, EntryStays DEF Declaring
  <2>7. QED
    BY <1>5, <2>4, <2>5, <2>6 DEF Declaring, Grouping, SameWork, Entry, Group, Stated, Declared,
       Covered
<1>9. \A d \in Document : d = job[w].document /\ Progress(d, pc[w], job[w])
                            /\ Declaring(d, pc[w], job[w]) => Declaring(d, "contributing", j)'
  BY <1>1, <1>2, <1>8
<1>10. QED
  BY <1>1, <1>2, <1>5, <1>6, <1>7, <1>9, StatedWork DEF SameWork

---------------------------------------------------------------------------
(* The recomputation of a document begins and ends. *)

LEMMA StatedFinish ==
    ASSUME StatedInv, SeekInv', AboutGrows, NEW w \in Worker, Finish(w)
    PROVE  StatedInv'
<1>1. PICK k : k = job[w] /\ k \in JobRecords /\ PeopleOK /\ TypeInv /\ job \in [Worker -> JobRecords]
  BY StatedWorker
<1>2. /\ pc[w] = "contributing" /\ k.linked = <<>>
      /\ UNCHANGED <<sourceRecords, equivalences, externals, ghosts, recordedBy, disturbed, regrouped>>
      /\ contributions' = {c \in contributions : c[1] = k.document => c[2] \in k.current}
      /\ statements' = [c \in DOMAIN statements |-> IF c \in Stale(w) THEN {} ELSE statements[c]]
      /\ \A c \in Stale(w) : c[1] = k.document /\ c[2] \notin k.current
  BY <1>1 DEF Finish, Stale, personVars, historyVars
<1>3. PICK place, j : /\ pc' = [pc EXCEPT ![w] = place] /\ job' = [job EXCEPT ![w] = j]
                      /\ j.document = ""
  <2>1. CASE Ends(w)
    <3>1. NoJob.document = ""
      BY DEF NoJob, Job
    <3>2. QED
      BY <2>1, <3>1 DEF Ends, Goes
  <2>2. CASE Goes(w, "starting") /\ job' = [job EXCEPT ![w] = Job(job[w].event, job[w].todo)]
    <3>1. Job(job[w].event, job[w].todo).document = ""
      BY DEF Job
    <3>2. QED
      BY <2>2, <3>1 DEF Goes
  <2>3. QED
    BY <2>1, <2>2 DEF Finish
<1>4. \A d : Kept(d, {}) /\ Spared(d, {})
  BY <1>2, KeptAll DEF People
<1>5. \A d \in Document, r \in AnyPerson :
        d # k.document \/ r \in k.current => statements'[<<d, r>>] = statements[<<d, r>>]
  <2>1. ASSUME NEW d \in Document, NEW r \in AnyPerson, d # k.document \/ r \in k.current
        PROVE  statements'[<<d, r>>] = statements[<<d, r>>]
    <3>1. <<d, r>> \in DOMAIN statements
      BY <1>1 DEF PeopleOK
    <3>2. <<d, r>> \notin Stale(w)
      BY <1>2, <2>1
    <3>3. QED
      BY <1>2, <3>1, <3>2
  <2>2. QED
    BY <2>1
<1>6. \A d \in Document : d # k.document => Untouched(d)
  BY <1>2, <1>5 DEF Untouched
<1>7. ASSUME NEW d \in Document, d = k.document, DocumentOK(d), DocumentStated(d)
      PROVE  DocumentStated(d)'
  <2>1. w \in On(d) /\ On(d) \subseteq {w} /\ Declaring(d, "contributing", k)
    BY <1>1, <1>2, <1>7 DEF DocumentOK, DocumentStated, On
  <2>2. On(d)' = {}
    <3>1. "" \notin Document
      BY StatedWorker
    <3>2. QED
      BY <1>1, <1>3, <1>7, <2>1, <3>1 DEF On
  <2>3. ASSUME NEW q \in ContributorsOf(d)'
        PROVE  Stated(d, q, statements[<<d, q>>])'
    <3>1. q \in AnyPerson /\ q \in k.current
      BY <1>2, <1>7, <2>3 DEF ContributorsOf
    <3>2. PICK S : S = statements[<<d, q>>] /\ S \in SUBSET Targets
      BY <1>1, <3>1 DEF PeopleOK
    <3>3. Stated(d, q, S)
      BY <2>1, <3>1, <3>2 DEF Declaring
    <3>4. PICK gone : gone = {} /\ Kept(d, gone) /\ q \notin gone
      BY <1>4
    <3>5. Stated(d, q, S)'
      BY <1>1, <3>2, <3>3, <3>4, StatedStays
    <3>6. statements'[<<d, q>>] = S
      BY <1>5, <3>1, <3>2
    <3>7. QED
      BY <3>5, <3>6, StatedIs
  <2>4. QED
    BY <2>2, <2>3 DEF DocumentStated
<1>8. \A d \in Document \ disturbed' :
        d = job[w].document /\ DocumentOK(d) /\ DocumentStated(d) => DocumentStated(d)'
  BY <1>1, <1>7
<1>9. disturbed \subseteq disturbed'
  BY <1>2
<1>10. \A d \in Document \ disturbed' : d # job[w].document =>
         Kept(d, {}) /\ Spared(d, {}) /\ Untouched(d)
  BY <1>1, <1>4, <1>6
<1>11. QED
  BY <1>3, <1>8, <1>9, <1>10, StatedStep

LEMMA StatedTake ==
    ASSUME StatedInv, SeekInv', AboutGrows, NEW w \in Worker, Take(w)
    PROVE  StatedInv'
<1>1. PICK e \in SourceRecord \X Document :
        LET todo == {e[2]} \cup {d \in Document : e[1] \in sourceRecords[d]}
        IN
        /\ sourceRecords' = [d \in Document |->
                IF d = e[2] THEN sourceRecords[d] \cup {e[1]} ELSE sourceRecords[d] \ {e[1]}]
        /\ job' = [job EXCEPT ![w] = Job(e, todo)]
        /\ disturbed' = disturbed \cup todo
  BY DEF Take
<1>2. PICK todo : todo = {e[2]} \cup {d \in Document : e[1] \in sourceRecords[d]}
  OBVIOUS
<1>3. PICK j : j = Job(e, todo)
  OBVIOUS
<1>4. /\ job' = [job EXCEPT ![w] = j] /\ pc' = [pc EXCEPT ![w] = "starting"] /\ pc[w] = "idle"
      /\ UNCHANGED <<externals, ghosts, recordedBy, contributions, statements>>
      /\ disturbed' = disturbed \cup todo /\ regrouped' = regrouped \cup Regrouped
  BY <1>1, <1>2, <1>3 DEF Take, Goes, personVars, contributionVars
<1>5. j.document = "" /\ job[w].document = "" /\ "" \notin Document
  BY <1>3, <1>4, StatedWorker DEF Job
<1>6. ASSUME NEW d \in Document \ disturbed'
      PROVE  Kept(d, {}) /\ Spared(d, {}) /\ Untouched(d)
  <2>1. sourceRecords'[d] = sourceRecords[d]
    BY <1>1, <1>2, <1>4, <1>6
  <2>2. CASE d \in Regrouped
    BY <1>4, <2>1, <2>2 DEF Kept, Spared, Together, Records, People, Untouched
  <2>3. CASE d \notin Regrouped
    BY <1>4, <2>1, <2>3, KeptApart DEF Untouched
  <2>4. QED
    BY <2>2, <2>3
<1>7. \A d \in Document \ disturbed' :
        d = job[w].document /\ DocumentOK(d) /\ DocumentStated(d) => DocumentStated(d)'
  BY <1>5
<1>8. QED
  BY <1>4, <1>5, <1>6, <1>7, StatedStep

LEMMA StatedStart ==
    ASSUME StatedInv, SeekInv', AboutGrows, NEW w \in Worker, Start(w)
    PROVE  StatedInv'
<1>1. PICK d \in job[w].todo :
        /\ job' = [job EXCEPT ![w] = [Job(job[w].event, job[w].todo \ {d}) EXCEPT
                      !.document = d, !.records = sourceRecords[d]]]
        /\ disturbed' = IF On(d) = {} THEN disturbed \ {d} ELSE disturbed \cup {d}
  BY DEF Start
<1>2. PICK j : j = [Job(job[w].event, job[w].todo \ {d}) EXCEPT
                       !.document = d, !.records = sourceRecords[d]]
  OBVIOUS
<1>3. /\ job' = [job EXCEPT ![w] = j] /\ pc' = [pc EXCEPT ![w] = "relating"]
      /\ UNCHANGED <<sourceRecords, equivalences, externals, ghosts, recordedBy, contributions,
                     statements, regrouped>>
      /\ job[w].document = ""
  BY <1>1, <1>2, StatedWorker DEF Start, Goes, personVars, contributionVars
<1>4. j.document = d /\ j.linked = <<>> /\ j.current = {}
  BY <1>2 DEF Job
<1>5. d \in Document /\ "" \notin Document
  BY StatedWorker DEF JobRecords
<1>6. ASSUME NEW e \in Document \ disturbed'
      PROVE  DocumentStated(e)'
  <2>1. CASE e = d
    <3>1. On(e) = {}
      BY <1>1, <1>6, <2>1
    <3>2. Declaring(e, "relating", j)'
      BY <1>4, NothingDeclared DEF Grouping
    <3>3. QED
      BY <1>3, <1>4, <1>5, <2>1, <3>1, <3>2, OwnStated
  <2>2. CASE e # d
    <3>1. Kept(e, {}) /\ Spared(e, {})
      BY <1>3, KeptAll DEF People
    <3>2. e \notin disturbed
      BY <1>1, <1>6, <2>2
    <3>3. QED
      BY <1>3, <1>4, <1>5, <1>6, <2>2, <3>1, <3>2, StatedBystander
  <2>3. QED
    BY <2>1, <2>2
<1>7. QED
  BY <1>6 DEF StatedInv

LEMMA StatedStops ==
    ASSUME StatedInv, SeekInv', AboutGrows, NEW w \in Worker, GiveUp(w) \/ FailCall(w) \/ Fail(w)
    PROVE  StatedInv'
<1>1. /\ UNCHANGED <<sourceRecords, equivalences, externals, ghosts, recordedBy, contributions,
                     statements, regrouped>>
      /\ disturbed \subseteq disturbed'
      /\ disturbed' = disturbed \cup {job[w].document}
           \/ disturbed' = disturbed \cup ({job[w].document} \ {""})
      /\ Ends(w)
  BY DEF GiveUp, FailCall, Fail, Returned, personVars, contributionVars
<1>2. PICK j : j = NoJob
  OBVIOUS
<1>3. /\ pc' = [pc EXCEPT ![w] = "idle"] /\ job' = [job EXCEPT ![w] = j] /\ j.document = ""
  BY <1>1, <1>2 DEF Ends, Goes, NoJob, Job
<1>4. \A d : Kept(d, {}) /\ Spared(d, {}) /\ Untouched(d)
  BY <1>1, KeptAll DEF People, Untouched
<1>5. \A d \in Document \ disturbed' : d # job[w].document
  <2>1. "" \notin Document
    BY StatedWorker
  <2>2. QED
    BY <1>1, <2>1
<1>6. QED
  BY <1>1, <1>3, <1>4, <1>5, StatedStep

LEMMA StatedNext == HasUsable /\ StatedInv /\ [Next]_vars => StatedInv'
<1> SUFFICES ASSUME HasUsable, StatedInv, [Next]_vars
             PROVE  StatedInv'
  OBVIOUS
<1>1. SeekInv' /\ AboutGrows
  BY SeekNext DEF StatedInv
<1>2. CASE UNCHANGED vars
  <2>1. UNCHANGED <<sourceRecords, equivalences, externals, ghosts, recordedBy, contributions,
                    statements, disturbed, regrouped, pc, job>>
    BY <1>2 DEF vars, personVars, contributionVars, historyVars
  <2>2. ASSUME NEW d \in Document \ disturbed
        PROVE  DocumentStated(d)'
    <3>1. TypeInv /\ DocumentStated(d) /\ job \in [Worker -> JobRecords]
      BY <2>2 DEF StatedInv, SeekInv, FollowInv, GhostInv, TypeInv
    <3>2. PICK gone : gone = {} /\ Kept(d, gone)
      BY <2>1, KeptAll DEF People
    <3>3. On(d)' = On(d) /\ ContributorsOf(d)' = ContributorsOf(d)
      BY <2>1 DEF On, ContributorsOf
    <3>4. ASSUME NEW v \in On(d)
          PROVE  Declaring(d, pc[v], job[v])'
      <4>1. PICK p, k : p = pc[v] /\ k = job[v] /\ k \in JobRecords /\ Declaring(d, p, k)
        BY <3>1, <3>4 DEF DocumentStated, On
      <4>2. \A q \in k.current : statements'[<<d, q>>] = statements[<<d, q>>]
        BY <2>1
      <4>3. Declaring(d, p, k)'
        BY <1>1, <3>1, <3>2, <4>1, <4>2, DeclaringStays
      <4>4. QED
        BY <2>1, <4>1, <4>3, DeclaringIs
    <3>5. ASSUME NEW q \in ContributorsOf(d), Stated(d, q, statements[<<d, q>>])
          PROVE  Stated(d, q, statements[<<d, q>>])'
      <4>1. PICK S : S = statements[<<d, q>>] /\ S \in SUBSET Targets
        BY <3>1 DEF TypeInv, PeopleOK, ContributorsOf
      <4>2. Stated(d, q, S) /\ q \notin gone
        BY <3>2, <3>5, <4>1
      <4>3. Stated(d, q, S)'
        BY <1>1, <3>1, <3>2, <4>1, <4>2, StatedStays
      <4>4. statements'[<<d, q>>] = S
        BY <2>1, <4>1
      <4>5. QED
        BY <4>3, <4>4, StatedIs
    <3>6. QED
      BY <3>1, <3>3, <3>4, <3>5 DEF DocumentStated
  <2>3. QED
    BY <1>1, <2>1, <2>2 DEF StatedInv
<1>3. ASSUME NEW w \in Worker, Take(w) \/ Work(w) \/ Fail(w)
      PROVE  StatedInv'
  BY <1>1, <1>3, StatedTake, StatedStart, StatedRelate, StatedMatch, StatedSearch, StatedMerge,
     StatedLink, StatedContribute, StatedCalls, StatedAffiliate, StatedFinish, StatedStops DEF Work
<1>4. QED
  BY <1>2, <1>3 DEF Next

LEMMA StatedInit == Init => StatedInv
<1> SUFFICES ASSUME Init
             PROVE  StatedInv
  OBVIOUS
<1>1. FollowInv
  BY FollowInit
<1>2. OrgAbout
  BY AboutInit
<1>3. \A w \in Worker : pc[w] = "idle" /\ job[w].document = ""
  BY DEF Init, NoJob, Job
<1>4. \A w \in Worker : Seeking(pc[w], job[w], orgCall[w])
  BY <1>3 DEF Seeking
<1>5. ASSUME NEW d \in Document
      PROVE  DocumentStated(d)
  <2>1. On(d) = {}
    BY <1>3, ContributionsAssumption DEF On
  <2>2. ContributorsOf(d) = {}
    BY DEF Init, ContributorsOf
  <2>3. QED
    BY <2>1, <2>2 DEF DocumentStated
<1>6. QED
  BY <1>1, <1>2, <1>4, <1>5 DEF StatedInv, SeekInv

(***************************************************************************)
(* A root gathers the states of one cluster of organizations, although     *)
(* workers look for roots, create them and attach states at the same time, *)
(* and clusters merge as records come: the identifiers of its states are   *)
(* some of those of the cluster.                                           *)
(***************************************************************************)
RootsOfOneCluster == \A r \in DOMAIN roots : \E o \in organizations : AllAbout(O!StatesOf(r), o)
THEOREM RootsGather == ASSUME HasUsable PROVE Spec => []RootsOfOneCluster
<1>1. StatedInv => RootsOfOneCluster
  BY DEF StatedInv, SeekInv, OrgAbout, RootsAbout, RootAbout, RootsOfOneCluster
<1>2. QED
  BY <1>1, StatedInit, StatedNext, PTL DEF Spec

(***************************************************************************)
(* Each organization with identifiers that a contributor is affiliated to  *)
(* is stated, by a root or by a state that shares an identifier with its   *)
(* cluster, for any records, people and workers, and whatever fails: if    *)
(* an organization has identifiers, one of them can be used.               *)
(***************************************************************************)
THEOREM AffiliationsStated == ASSUME HasUsable PROVE Spec => []AffiliationsAreStated
<1>1. StatedInv => AffiliationsAreStated
  <2> SUFFICES ASSUME StatedInv, NEW c \in contributions, Settled(c[1]), OneCluster(c[1], c[2]),
                      NEW o \in AffiliationsIn(sourceRecords[c[1]], RecordedOf(c[2])),
                      Described[o].ids # {}
               PROVE  \E t \in statements[c] : t[1] = "root" \/ Shares(t[2], o)
    BY DEF AffiliationsAreStated
  <2>1. TypeInv /\ PeopleOK
    BY DEF StatedInv, SeekInv, FollowInv, GhostInv, TypeInv
  <2>2. PICK d \in Document, q \in AnyPerson : c = <<d, q>>
    BY <2>1 DEF PeopleOK, People, AnyPerson
  <2>3. PICK records, mine : records = sourceRecords[d] /\ mine = RecordedOf(q)
    OBVIOUS
  <2>4. /\ d \notin disturbed /\ On(d) = {} /\ q \in ContributorsOf(d)
        /\ OneCluster(d, q) /\ o \in AffiliationsIn(records, mine)
    BY <2>2, <2>3 DEF Settled, Due, On, ContributorsOf
  <2>5. PICK cluster \in SUBSET SourcePerson :
          Entry(d, q, cluster) /\ Declared(d, cluster, statements[<<d, q>>])
    BY <2>4 DEF StatedInv, DocumentStated, Stated
  <2>6. mine \cap PeopleOf(d) \subseteq cluster
    <3>1. PICK p \in cluster : Records(q, p) /\ p \in PeopleOf(d)
      BY <2>5 DEF Entry, Group
    <3>2. p \in mine \cap PeopleOf(d)
      BY <2>3, <3>1 DEF Records, RecordedOf
    <3>3. ASSUME NEW r \in mine \cap PeopleOf(d)
          PROVE  r \in cluster
      <4>1. d \notin regrouped /\ Same(p, r)
        BY <2>3, <2>4, <3>2, <3>3 DEF OneCluster, PeopleOf, Same
      <4>2. QED
        BY <2>5, <3>1, <3>3, <4>1 DEF Entry, Group, Together
    <3>4. QED
      BY <3>3
  <2>7. o \in AffiliationsIn(records, cluster)
    <3>1. PICK a \in ContributionsIn(records) : a.contributor \in mine /\ o \in a.affiliations
      BY <2>4 DEF AffiliationsIn
    <3>2. a.contributor \in PeopleOf(d)
      BY <2>3, <3>1 DEF PeopleOf, ContributorsIn
    <3>3. QED
      BY <2>6, <3>1, <3>2 DEF AffiliationsIn
  <2>8. PICK t \in statements[<<d, q>>] : t[1] = "root" \/ About(states[t[2]].ids, o)
    BY <2>3, <2>5, <2>7 DEF Declared, Covered
  <2>9. About(states[t[2]].ids, o) => Shares(t[2], o)
    BY DEF About, IdsOf, Shares
  <2>10. QED
    BY <2>2, <2>8, <2>9
<1>2. QED
  BY <1>1, StatedInit, StatedNext, PTL DEF Spec

=============================================================================
