---------------------- MODULE AuthorityOrganizations ----------------------
(***************************************************************************)
(* The authority organizations (AuthorityOrganizationService, with its     *)
(* DAO): source organizations that share identifiers are one cluster; its  *)
(* organizations are split into states, whose identifiers do not           *)
(* contradict each other; each state is looked for in the graph, completed *)
(* or created, and several states have a root in common.  A worker calls   *)
(* get_or_create_authority_organization for one cluster and goes on when   *)
(* the call returned or failed; a step is one transaction of the call.     *)
(***************************************************************************)
EXTENDS Naturals, FiniteSets, Sequences

CONSTANTS
    SourceOrganization,
    Described,   \* of each: its name, "" for none, and ids, as <<type, value>>
    NameLength,  \* length of each name; the longest of a state is its name
    Unlocatable, \* those whose ROR record may lack what the search of addresses reads
    Worker       \* workers of the publications topic

OrganizationsAssumption ==
    /\ IsFiniteSet(SourceOrganization)
    /\ \A o \in SourceOrganization :
        /\ IsFiniteSet(Described[o].ids)
        /\ Described[o].name # "" => NameLength[Described[o].name] \in Nat

VARIABLES
    organizations,  \* SourceOrganization nodes
    states,         \* AuthorityOrganizationState nodes, in the order of creation
    roots,          \* AuthorityOrganizationRoot nodes: the organizations of no state
    hasStates,      \* HAS_STATES, as <<root, state>>
    contested,      \* history: states attached by transactions that overlapped
    orgCall         \* the call of each worker

State == DOMAIN states
StatesOf(r) == {s \in State : <<r, s>> \in hasStates}
RootsOf(S) == {r \in DOMAIN roots : \E s \in S : <<r, s>> \in hasStates}

NewState == [name |-> "", ids |-> {}, excluded |-> {}, orgs |-> {}]
NoSplit == [states |-> <<>>, rootOnly |-> {}]
NothingFound == [root |-> 0, states |-> {}]
NoCall == [at |-> "none", left |-> <<>>, rootOnly |-> {}, kept |-> <<>>, state |-> 0,
           copy |-> NewState, homonyms |-> {}, root |-> 0, others |-> {},
           toRead |-> {}, usable |-> {}, known |-> 0, result |-> NothingFound]

Init ==
    /\ organizations = {} /\ states = <<>> /\ roots = <<>>
    /\ hasStates = {} /\ contested = {}
    /\ orgCall = [w \in Worker |-> NoCall]

---------------------------------------------------------------------------
(* The split of a cluster into states, in memory. *)

(***************************************************************************)
(* The organizations reached from o through identifiers, ambiguous or not: *)
(* those of the least set with o that shares none with the others.         *)
(***************************************************************************)
Sharing(S) ==
    {p \in organizations : \E q \in S : Described[p].ids \cap Described[q].ids # {}}
Cluster(o) ==
    LET closed == {S \in SUBSET SourceOrganization : o \in S /\ Sharing(S) \subseteq S}
    IN  {p \in organizations \cup {o} : \A S \in closed : p \in S}

Types(ids) == {i[1] : i \in ids}
Contradict(ids, others) == \E i \in ids, j \in others : i[1] = j[1] /\ i[2] # j[2]

\* A type an organization has several values of is ambiguous, and not used.
Usable(o) == {i \in Described[o].ids : \A j \in Described[o].ids : i[1] = j[1] => i = j}
Ambiguous(o) == Types(Described[o].ids) \ Types(Usable(o))

Incompatible(o, p) ==
    /\ o # p
    /\ \/ Contradict(Usable(o), Usable(p))
       \/ Ambiguous(o) \cap Types(Usable(p)) # {}
       \/ Ambiguous(p) \cap Types(Usable(o)) # {}

(***************************************************************************)
(* _is_compatible.                                                         *)
(***************************************************************************)
Compatible(state, o) ==
    /\ \A p \in state.orgs : ~ Incompatible(o, p)
    /\ Ambiguous(o) \cap Types(state.ids) = {}
    /\ state.excluded \cap Types(Usable(o)) = {}
    /\ ~ Contradict(state.ids, Usable(o))

Attached(state, o) ==
    [state EXCEPT !.orgs = @ \cup {o}, !.ids = @ \cup Usable(o),
                  !.excluded = @ \cup Ambiguous(o)]

(***************************************************************************)
(* The organizations in conflict with others come first, those with the    *)
(* most conflicts before: each joins the one state it fits, or starts a    *)
(* new one; without conflicts the first organization starts the only       *)
(* state.  The others join the one state they fit, or none.                *)
(***************************************************************************)
Conflicts(o, cluster) == {p \in cluster : Incompatible(o, p)}
Orders(cluster) ==
    {order \in [1 .. Cardinality(cluster) -> cluster] : \A i, j \in DOMAIN order : i < j =>
        /\ order[i] # order[j]
        /\ Cardinality(Conflicts(order[i], cluster)) >= Cardinality(Conflicts(order[j], cluster))}

Placed(cluster, split, o) ==
    LET fits == {i \in DOMAIN split.states : Compatible(split.states[i], o)} IN
    IF Cardinality(fits) = 1
    THEN [split EXCEPT !.states = [i \in DOMAIN @ |->
            IF i \in fits THEN Attached(@[i], o) ELSE @[i]]]
    ELSE IF Conflicts(o, cluster) # {} \/ split.states = <<>>
    THEN [split EXCEPT !.states = Append(@, Attached(NewState, o))]
    ELSE [split EXCEPT !.rootOnly = @ \cup {o}]

LongestName(orgs) ==
    LET names == {Described[o].name : o \in orgs} \ {""} IN
    IF names = {} THEN ""
    ELSE CHOOSE n \in names : \A m \in names : NameLength[m] <= NameLength[n]
Named(state) == [state EXCEPT !.name = LongestName(state.orgs)]

\* The split after the first n organizations of the order.
Splitting(order, cluster) ==
    LET split[n \in 0 .. Len(order)] ==
            IF n = 0 THEN NoSplit ELSE Placed(cluster, split[n - 1], order[n])
    IN  split
Split(order, cluster) ==
    [Splitting(order, cluster)[Len(order)] EXCEPT !.states = [i \in DOMAIN @ |-> Named(@[i])]]

Splits ==
    [cluster \in SUBSET SourceOrganization |->
        {Split(order, cluster) : order \in Orders(cluster)}]

\* The call, after the cluster was read, in any order.
Calls(cluster) ==
    {[NoCall EXCEPT !.at = "finding", !.left = split.states, !.rootOnly = split.rootOnly] :
        split \in Splits[cluster]}

Desired(w) == Head(orgCall[w].left)
Goes(w, place) == orgCall' = [orgCall EXCEPT ![w].at = place]
Keeps(w, s) ==
    orgCall' = [orgCall EXCEPT ![w].kept = Append(@, s), ![w].left = Tail(@),
                               ![w].at = "finding"]

\* The receiver of the signal of a state that was written looks for its addresses, and raises
\* on the record of an organization it cannot read.
Told(w, s, state) ==
    \/ Keeps(w, s)
    \/ state.orgs \cap Unlocatable # {} /\ Goes(w, "refused")

---------------------------------------------------------------------------
(* A state is found, completed or created. *)

(***************************************************************************)
(* By identifiers: a state that has one of them and contradicts none, the  *)
(* exclusions of both respected; of several, one with the most             *)
(* identifiers.  It is completed in memory, but keeps its organizations.   *)
(***************************************************************************)
CandidatesByIdentifier(desired) ==  \* mutant
    {s \in State : states[s].ids \cap desired.ids # {}}
Candidates(desired) ==
    {s \in State :
        /\ states[s].ids \cap desired.ids # {}
        /\ ~ Contradict(states[s].ids, desired.ids)
        /\ states[s].excluded \cap Types(desired.ids) = {}
        /\ desired.excluded \cap Types(states[s].ids) = {}}

Completed(state, desired) ==
    [state EXCEPT !.ids = @ \cup desired.ids, !.excluded = @ \cup desired.excluded,
                  !.name = desired.name]

FindByIdentifiers(w) ==
    LET candidates == Candidates(Desired(w)) IN
    /\ orgCall[w].at = "finding" /\ orgCall[w].left # <<>>
    /\ Desired(w).ids # {}
    /\ \/ candidates = {} /\ Goes(w, "creating")
       \/ \E s \in candidates :
            /\ \A t \in candidates : Cardinality(states[t].ids) <= Cardinality(states[s].ids)
            /\ orgCall' = [orgCall EXCEPT
                    ![w].at = "updating", ![w].state = s,
                    ![w].copy = Completed(states[s], Desired(w))]
    /\ UNCHANGED <<organizations, states, roots, hasStates, contested>>

(***************************************************************************)
(* Without identifiers: the only state of that name, else one of them      *)
(* without identifiers; a state without name either is left out.           *)
(***************************************************************************)
FindByName(w) ==
    LET namesakes == {s \in State : states[s].name = Desired(w).name}
        bare == {s \in namesakes : states[s].ids = {}}
    IN
    /\ orgCall[w].at = "finding" /\ orgCall[w].left # <<>>
    /\ Desired(w).ids = {} /\ Desired(w).name # ""
    /\ \/ namesakes = {} /\ Goes(w, "creating")
       \/ \E s \in (IF Cardinality(namesakes) = 1 THEN namesakes ELSE bare) : Keeps(w, s)
       \/ /\ Cardinality(namesakes) > 1 /\ bare = {}
          /\ orgCall' = [orgCall EXCEPT ![w].at = "homonyms", ![w].homonyms = namesakes]
    /\ UNCHANGED <<organizations, states, roots, hasStates, contested>>

LeaveOut(w) ==
    /\ orgCall[w].at = "finding" /\ orgCall[w].left # <<>>
    /\ Desired(w).ids = {} /\ Desired(w).name = ""
    /\ orgCall' = [orgCall EXCEPT ![w].left = Tail(@)]
    /\ UNCHANGED <<organizations, states, roots, hasStates, contested>>

\* Homonyms with one root: it is returned at once.
FindHomonymsRoot(w) ==
    LET common == RootsOf(orgCall[w].homonyms) IN
    /\ orgCall[w].at = "homonyms"
    /\ IF Cardinality(common) = 1
       THEN orgCall' = [orgCall EXCEPT ![w].at = "getting",
                                       ![w].root = CHOOSE r \in common : TRUE]
       ELSE Goes(w, "creating")
    /\ UNCHANGED <<organizations, states, roots, hasStates, contested>>

(***************************************************************************)
(* A state is merged by the signature of its identifiers: the state that   *)
(* has them already keeps its uid, and loses its name, organizations and   *)
(* exclusions.  All states without identifiers have one signature.         *)
(***************************************************************************)
Signed(ids) == {s \in State : states[s].ids = ids}

Create(w) ==
    LET same == Signed(Desired(w).ids) IN
    /\ orgCall[w].at = "creating"
    /\ IF same = {}
       THEN /\ states' = Append(states, Desired(w))
            /\ Told(w, Len(states) + 1, Desired(w))
       ELSE \E s \in same :
            /\ states' = [states EXCEPT ![s] = Desired(w)]
            /\ Told(w, s, Desired(w))
    /\ UNCHANGED <<organizations, roots, hasStates, contested>>

(***************************************************************************)
(* The copy is written; its signature is unique.                           *)
(***************************************************************************)
Update(w) ==
    LET s == orgCall[w].state
        copy == orgCall[w].copy
    IN
    /\ orgCall[w].at = "updating"
    /\ IF Signed(copy.ids) \ {s} # {}
       THEN Goes(w, "failed") /\ UNCHANGED states
       ELSE /\ states' = [states EXCEPT ![s] = copy]
            /\ Told(w, s, copy)
    /\ UNCHANGED <<organizations, roots, hasStates, contested>>

---------------------------------------------------------------------------
(* The root of the states. *)

Kept(w) == {orgCall[w].kept[i] : i \in DOMAIN orgCall[w].kept}

\* One state, and no organization but its own, needs no root.
ReturnState(w) ==
    /\ orgCall[w].at = "finding" /\ orgCall[w].left = <<>>
    /\ Len(orgCall[w].kept) <= 1 /\ orgCall[w].rootOnly = {}
    /\ orgCall' = [orgCall EXCEPT
            ![w].at = "returned",
            ![w].result = [root |-> 0, states |-> {[uid |-> s, orgs |-> {}] : s \in Kept(w)}]]
    /\ UNCHANGED <<organizations, states, roots, hasStates, contested>>

FindRoots(w) ==
    LET found == RootsOf(Kept(w)) IN
    /\ orgCall[w].at = "finding" /\ orgCall[w].left = <<>>
    /\ Len(orgCall[w].kept) > 1 \/ orgCall[w].rootOnly # {}
    /\ orgCall' = [orgCall EXCEPT ![w].at = "reading", ![w].toRead = found,
                                  ![w].known = Cardinality(found)]
    /\ UNCHANGED <<organizations, states, roots, hasStates, contested>>

(***************************************************************************)
(* The states of each root are read: it can be used if all of them are     *)
(* states of the cluster.                                                  *)
(***************************************************************************)
ReadRoot(w) ==
    /\ orgCall[w].at = "reading"
    /\ \E r \in orgCall[w].toRead :
        orgCall' = [orgCall EXCEPT
            ![w].toRead = @ \ {r},
            ![w].usable = IF StatesOf(r) \subseteq Kept(w)
                          THEN @ \cup {[uid |-> r, size |-> Cardinality(StatesOf(r))]} ELSE @]
    /\ UNCHANGED <<organizations, states, roots, hasStates, contested>>

CreateRoot(w) ==
    /\ orgCall[w].at = "reading" /\ orgCall[w].toRead = {} /\ orgCall[w].usable = {}
    /\ roots' = Append(roots, orgCall[w].rootOnly)
    /\ orgCall' = [orgCall EXCEPT ![w].at = "attaching", ![w].root = Len(roots) + 1]
    /\ UNCHANGED <<organizations, states, hasStates, contested>>

\* The root is the usable one with the most states, or a new one.
Elected(w) ==
    IF orgCall[w].at = "attaching" THEN {orgCall[w].root}
    ELSE {r.uid : r \in {r \in orgCall[w].usable :
                            \A q \in orgCall[w].usable : q.size <= r.size}}

(***************************************************************************)
(* One transaction reads the links of the states to other roots, before it *)
(* locks anything, deletes those it read, and links the root.              *)
(***************************************************************************)
ReadLinks(w) ==
    /\ \/ orgCall[w].at = "attaching"
       \/ orgCall[w].at = "reading" /\ orgCall[w].toRead = {} /\ orgCall[w].usable # {}
    /\ \E r \in Elected(w) :
        orgCall' = [orgCall EXCEPT
            ![w].at = "relinking", ![w].root = r,
            ![w].others = {l \in hasStates : l[2] \in Kept(w) /\ l[1] # r}]
    /\ UNCHANGED <<organizations, states, roots, hasStates, contested>>

LinksAfterAttachShared(r, S, others) ==  \* mutant
    hasStates \cup ({r} \X S)
LinksAfterAttach(r, S, others) == (hasStates \ others) \cup ({r} \X S)

AlsoAttached(w) ==
    {s \in Kept(w) : \E v \in Worker \ {w} : orgCall[v].at = "relinking" /\ s \in Kept(v)}

Attach(w) ==
    /\ orgCall[w].at = "relinking"
    /\ hasStates' = LinksAfterAttach(orgCall[w].root, Kept(w), orgCall[w].others)
    /\ contested' = contested \cup AlsoAttached(w)
    /\ orgCall' = [orgCall EXCEPT
            ![w].others = {},
            ![w].at = IF orgCall[w].usable = {} THEN "getting" ELSE "renewing"]
    /\ UNCHANGED <<organizations, states, roots>>

\* What a root is read with.
Read(r) == [root |-> r, states |-> {[uid |-> s, orgs |-> states[s].orgs] : s \in StatesOf(r)}]
Returns(w, r) ==
    orgCall' = [orgCall EXCEPT ![w].at = "returned", ![w].result = Read(r)]

\* An elected root is updated, and read again if it was one of several.
UpdateRoot(w) ==
    LET r == orgCall[w].root IN
    /\ orgCall[w].at = "renewing"
    /\ roots' = [roots EXCEPT ![r] = orgCall[w].rootOnly]
    /\ IF orgCall[w].known = 1 THEN Returns(w, r) ELSE Goes(w, "getting")
    /\ UNCHANGED <<organizations, states, hasStates, contested>>

GetRoot(w) ==
    /\ orgCall[w].at = "getting"
    /\ Returns(w, orgCall[w].root)
    /\ UNCHANGED <<organizations, states, roots, hasStates, contested>>

---------------------------------------------------------------------------
Work(w) ==
    \/ FindByIdentifiers(w) \/ FindByName(w) \/ LeaveOut(w) \/ FindHomonymsRoot(w)
    \/ Create(w) \/ Update(w)
    \/ ReturnState(w) \/ FindRoots(w) \/ ReadRoot(w) \/ CreateRoot(w)
    \/ ReadLinks(w) \/ Attach(w) \/ UpdateRoot(w) \/ GetRoot(w)

---------------------------------------------------------------------------
(***************************************************************************)
(* Types: states and roots are made of organizations that were stored.     *)
(***************************************************************************)
TypeOK ==
    /\ organizations \subseteq SourceOrganization
    /\ \A s \in State : states[s].orgs \subseteq organizations
    /\ \A r \in DOMAIN roots : roots[r] \subseteq organizations
    /\ hasStates \subseteq (DOMAIN roots) \X State
    /\ contested \subseteq State

(***************************************************************************)
(* The identifiers of a state never contradict each other, and none has a  *)
(* type the state excludes, although states are completed from copies that *)
(* other workers may have made stale.                                      *)
(***************************************************************************)
StatesAreConsistent ==
    \A s \in State :
        /\ ~ Contradict(states[s].ids, states[s].ids)
        /\ states[s].excluded \cap Types(states[s].ids) = {}

(***************************************************************************)
(* A state has at most one root, although each worker looks for the roots  *)
(* several transactions before it attaches the states.  Two transactions   *)
(* that attach a state at the same time do not see each other's links:     *)
(* only such a state may keep two.                                         *)
(***************************************************************************)
OneRootPerState == \A s \in State \ contested : Cardinality(RootsOf({s})) <= 1
===========================================================================
