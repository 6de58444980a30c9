-------------------------- MODULE Contributions --------------------------
(***************************************************************************)
(* The contributions of documents (SourceContributorMappingService, called *)
(* when the source records of a document change): the source people of the *)
(* records are related across platforms, each cluster of them is matched   *)
(* with a person, internal or external, and each person gets a             *)
(* contribution to the document, with statements of affiliation.           *)
(* AuthorityOrganizations is the call it makes for affiliations.           *)
(*                                                                         *)
(* Source people, external people and authority organizations are shared   *)
(* by documents; documents are recomputed by several workers.  A step is   *)
(* one transaction, but the records of a document are read in one.         *)
(***************************************************************************)
EXTENDS Naturals, FiniteSets, Sequences
LOCAL INSTANCE Functions

CONSTANTS
    SourceRecord, Document,
    Recorded,          \* what each record holds: its owners and contributions
    Person,            \* internal people
    SourcePerson,
    Rank,              \* of each source person: that of its platform among harvesting sources
    Identifiers,       \* of each internal and source person
    Similar,           \* pairs of a person and a source person with similar names
    Distance,          \* of the pairs of source people whose names are close enough
    Reluctance,        \* reluctance_to_fuzzy_match_authors
    SourceOrganization, Described, NameLength, Unlocatable,  \* see AuthorityOrganizations
    Event,             \* changes of the clusters of records, as <<record, document>>
    Worker,            \* workers of the publications topic
    Past               \* bound: events treated one by one at first, and how many events
                       \* and failures are to come

ASSUME ContributionsAssumption ==
    /\ "" \notin Document /\ Event \subseteq SourceRecord \X Document
    /\ Person \cap SourcePerson = {}
    /\ \A r \in SourceRecord :
        /\ Recorded[r].owners \subseteq Person
        /\ \A c \in Recorded[r].contributions :
            c.contributor \in SourcePerson /\ c.affiliations \subseteq SourceOrganization
    /\ Rank \in [SourcePerson -> Nat]
    /\ Similar \subseteq Person \X SourcePerson
    /\ DOMAIN Distance \subseteq SourcePerson \X SourcePerson
    /\ \A p \in Past : Range(p.events) \subseteq SourceRecord \X Document /\ p.coming \in Nat

VARIABLES
    sourceRecords,  \* RECORDED_BY: the records of each document
    equivalences,   \* CONTEXTUAL_EQUIVALENT, of source people
    externals,      \* Person nodes with external = true, which have uids of source people
    ghosts,         \* Person nodes created with a contribution, with nothing but a uid
    recordedBy,     \* RECORDED_BY: the person of each source person, as <<person, source person>>
    contributions,  \* Contribution nodes, as <<document, person>>
    orphans,        \* documents with contributions of nobody
    statements,     \* HAS_AFFILIATION_STATEMENT of each contribution
    organizations, states, roots, hasStates, contested, orgCall,
    pc,             \* where each worker is
    job,            \* the local variables of each worker
    past,           \* past events still to come
    coming,         \* events and failures that may still come after them
    requeued,       \* events whose message is to be delivered again
    disturbed,      \* history: documents since whose recomputation something was taken
    accompanied,    \* history: workers that met another one since they took their event
    raced,          \* history: people created anew by an accompanied worker
    regrouped       \* history: documents with source people found equivalent since they
                    \* were matched

O == INSTANCE AuthorityOrganizations

ASSUME CallAssumption == O!OrganizationsAssumption

personVars == <<equivalences, externals, ghosts, recordedBy>>
contributionVars == <<contributions, orphans, statements>>
orgVars == <<states, roots, hasStates, contested, orgCall>>
countVars == <<past, coming, requeued>>
historyVars == <<disturbed, accompanied, raced, regrouped>>
vars == <<sourceRecords, personVars, contributionVars, organizations, orgVars, pc, job,
          countVars, historyVars>>

PC == {"idle", "starting", "relating", "matching", "searching", "creating", "merging",
       "linking", "contributing", "affiliating"}

AnyPerson == Person \cup SourcePerson
People == Person \cup externals \cup ghosts

---------------------------------------------------------------------------
(* What the records of a document say. *)

ContributionsIn(records) == UNION {Recorded[r].contributions : r \in records}
ContributorsIn(records) == {c.contributor : c \in ContributionsIn(records)}
AffiliationsIn(records, cluster) ==
    UNION {c.affiliations : c \in {c \in ContributionsIn(records) : c.contributor \in cluster}}
OwnersIn(records) == UNION {Recorded[r].owners : r \in records}

Stored == ContributorsIn(UNION {sourceRecords[d] : d \in Document})

(***************************************************************************)
(* _create_contextual_equivalences: a path goes through people of several  *)
(* platforms, in the order of the sources, with close names.  Paths are    *)
(* taken from the most efficient on, if they meet none taken before: the   *)
(* ways to do so, whatever the order of those that are equally efficient.  *)
(***************************************************************************)
Paths(people) ==
    LET platforms == Cardinality({Rank[p] : p \in people}) IN
    {path \in UNION {[1 .. n -> people] : n \in 2 .. platforms} :
        \A i \in 1 .. Len(path) - 1 :
            /\ Rank[path[i]] < Rank[path[i + 1]]
            /\ <<path[i], path[i + 1]>> \in DOMAIN Distance}

Couples(path) == {<<path[i], path[i + 1]>> : i \in 1 .. Len(path) - 1}
Cost(path) == Reluctance + SumFunction([i \in 1 .. Len(path) - 1 |->
                                            Distance[<<path[i], path[i + 1]>>]])
AsEfficient(p, q) == Cost(p) * (Len(q) + 1) <= Cost(q) * (Len(p) + 1)
Meet(p, q) == Range(p) \cap Range(q) # {}

Selections ==
    [people \in SUBSET SourcePerson |->
        {S \in SUBSET Paths(people) :
            /\ \A p, q \in S : Meet(p, q) => p = q
            /\ \A p \in Paths(people) \ S : \E q \in S : Meet(p, q) /\ AsEfficient(q, p)}]

(***************************************************************************)
(* get_equivalents: the source people reached through identifiers and      *)
(* equivalences, those of other documents included.  The query stops at    *)
(* maxLevel: paths of 100 links, which no group modelled has.              *)
(***************************************************************************)
Alike(q, r) ==
    \/ Identifiers[q] \cap Identifiers[r] # {}
    \/ <<q, r>> \in equivalences \/ <<r, q>> \in equivalences
Equivalents(p) ==
    LET closed == {S \in SUBSET SourcePerson :
                      p \in S /\ \A q \in Stored : (\E r \in S : Alike(q, r)) => q \in S}
    IN  {q \in Stored \cup {p} : \A S \in closed : q \in S}

(***************************************************************************)
(* Equivalences and the source people of other documents may relate those  *)
(* of a document, which is not recomputed for this.                        *)
(***************************************************************************)
Regrouped ==
    {d \in Document : \E p, q \in ContributorsIn(sourceRecords[d]) :
        q \in Equivalents(p)' /\ q \notin Equivalents(p)}

RecordedOf(p) == {l[2] : l \in {l \in recordedBy : l[1] = p}}
RecordersOf(p) == {l[1] : l \in {l \in recordedBy : l[2] = p}}
DocumentsOf(p) == {c[1] : c \in {c \in contributions : c[2] = p}}

---------------------------------------------------------------------------
(***************************************************************************)
(* The local variables of a worker.                                        *)
(***************************************************************************)
NoEvent == <<"", "">>
Job(event, todo) ==
    [event |-> event, todo |-> todo, document |-> "", records |-> {}, left |-> {},
     cluster |-> {}, search |-> {}, target |-> "", known |-> {}, linked |-> <<>>,
     current |-> {}, found |-> {}]
NoJob == Job(NoEvent, {})

Goes(w, place) == pc' = [pc EXCEPT ![w] = place]
Ends(w) == Goes(w, "idle") /\ job' = [job EXCEPT ![w] = NoJob]
On(d) == {w \in Worker : job[w].document = d}
Due(d) == {w \in Worker : job[w].document = d \/ d \in job[w].todo}

Init ==
    /\ sourceRecords = [d \in Document |-> {}]
    /\ equivalences = {} /\ externals = {} /\ ghosts = {} /\ recordedBy = {}
    /\ contributions = {} /\ orphans = {}
    /\ statements = [c \in Document \X AnyPerson |-> {}]
    /\ O!Init
    /\ pc = [w \in Worker |-> "idle"] /\ job = [w \in Worker |-> NoJob]
    /\ \E p \in Past : past = p.events /\ coming = p.coming
    /\ requeued = {}
    /\ disturbed = {} /\ accompanied = {} /\ raced = {} /\ regrouped = {}

(***************************************************************************)
(* A record joins a document, maybe from another one (DocumentClusters):   *)
(* both are to be recomputed.  One worker treats the past events; which    *)
(* one makes no difference.                                                *)
(***************************************************************************)
Others(w) == {v \in Worker \ {w} : pc[v] # "idle"}
First == CHOOSE w \in Worker : TRUE

Take(w) ==
    /\ pc[w] = "idle"
    /\ \E e \in SourceRecord \X Document :
        LET r == e[1]
            todo == {e[2]} \cup {d \in Document : r \in sourceRecords[d]}
        IN
        /\ \/ /\ past # <<>> /\ e = Head(past)
              /\ w = First /\ Others(w) = {}
              /\ past' = Tail(past) /\ UNCHANGED <<coming, requeued>>
           \/ /\ past = <<>> /\ e \in Event /\ coming > 0
              /\ coming' = coming - 1 /\ UNCHANGED <<past, requeued>>
           \/ /\ e \in requeued
              /\ requeued' = requeued \ {e} /\ UNCHANGED <<past, coming>>
        /\ sourceRecords' = [d \in Document |->
                IF d = e[2] THEN sourceRecords[d] \cup {r} ELSE sourceRecords[d] \ {r}]
        /\ organizations' = organizations \cup AffiliationsIn({r}, SourcePerson)
        /\ job' = [job EXCEPT ![w] = Job(e, todo)]
        /\ disturbed' = disturbed \cup todo
    /\ accompanied' = IF Others(w) = {} THEN {} ELSE accompanied \cup Others(w) \cup {w}
    /\ Goes(w, "starting")
    /\ UNCHANGED <<personVars, contributionVars, orgVars, raced>>
    /\ regrouped' = regrouped \cup Regrouped

\* The recomputation of a document: its records are read.
Start(w) ==
    /\ pc[w] = "starting"
    /\ \E d \in job[w].todo :
        /\ job' = [job EXCEPT ![w] = [Job(job[w].event, job[w].todo \ {d}) EXCEPT
                      !.document = d, !.records = sourceRecords[d]]]
        /\ disturbed' = IF On(d) = {} THEN disturbed \ {d} ELSE disturbed \cup {d}
    /\ Goes(w, "relating")
    /\ UNCHANGED <<sourceRecords, personVars, contributionVars, organizations, orgVars,
                   countVars, accompanied, raced, regrouped>>

---------------------------------------------------------------------------
(* The source people are related, and matched with people. *)

(***************************************************************************)
(* Equivalences are added, if both records are still of the document, and  *)
(* never removed.                                                          *)
(***************************************************************************)
EquivalencesWith(couples, document) ==
    LET still == ContributorsIn(sourceRecords[document]) IN
    equivalences \cup (couples \cap (still \X still))

Relate(w) ==
    LET people == ContributorsIn(job[w].records) IN
    /\ pc[w] = "relating"
    /\ \E selection \in Selections[people] :
        equivalences' = EquivalencesWith(UNION {Couples(path) : path \in selection},
                                         job[w].document)
    /\ job' = [job EXCEPT ![w].left = people]
    /\ Goes(w, IF people = {} THEN "contributing" ELSE "matching")
    /\ UNCHANGED <<sourceRecords, externals, ghosts, recordedBy, contributionVars,
                   organizations, orgVars, countVars, disturbed, accompanied, raced>>
    /\ regrouped' = (regrouped \cup Regrouped) \ {job[w].document}

(***************************************************************************)
(* A cluster is the equivalents of a source person among those of the      *)
(* document.  It is matched with a person that has one of its identifiers, *)
(* else with an owner of the records that has a similar name, else with an *)
(* external person.                                                        *)
(***************************************************************************)
ByIdentifiers(cluster) ==
    {q \in Person : \E p \in cluster : Identifiers[q] \cap Identifiers[p] # {}}
ByName(cluster, records) ==
    {q \in OwnersIn(records) : \E p \in cluster : <<q, p>> \in Similar}

Match(w) ==
    /\ pc[w] = "matching"
    /\ \E p \in job[w].left :
        LET cluster == Equivalents(p) \cap ContributorsIn(job[w].records)
            identified == ByIdentifiers(cluster)
            matches == IF identified # {} THEN identified
                       ELSE ByName(cluster, job[w].records)
            next == [job[w] EXCEPT !.left = @ \ Equivalents(p), !.cluster = cluster]
        IN
        \/ \E q \in matches :
            job' = [job EXCEPT ![w] = [next EXCEPT !.target = q]] /\ Goes(w, "linking")
        \/ /\ matches = {}
           /\ job' = [job EXCEPT ![w] = [next EXCEPT !.search = cluster, !.known = {}]]
           /\ Goes(w, "searching")
    /\ UNCHANGED <<sourceRecords, personVars, contributionVars, organizations, orgVars,
                   countVars, historyVars>>

(***************************************************************************)
(* The external person of each source person of the cluster, if any.  Of   *)
(* several people found, any is kept.                                      *)
(***************************************************************************)
SearchedInVain(w, left, known) ==  \* mutant
    LET next == [job[w] EXCEPT !.search = left, !.known = known] IN
    \/ left # {} /\ job' = [job EXCEPT ![w] = next] /\ UNCHANGED pc
    \/ /\ left = {} /\ Goes(w, IF Cardinality(known) = 1 THEN "linking" ELSE "merging")
       /\ job' = [job EXCEPT ![w] = next]
Searched(w, left, known) ==
    LET next == [job[w] EXCEPT !.search = left, !.known = known] IN
    \/ left # {} /\ job' = [job EXCEPT ![w] = next] /\ UNCHANGED pc
    \/ /\ left = {} /\ known = {}
       /\ job' = [job EXCEPT ![w] = next] /\ Goes(w, "creating")
    \/ /\ left = {}
       /\ \E q \in known : job' = [job EXCEPT ![w] = [next EXCEPT !.target = q, !.known = @ \ {q}]]
       /\ Goes(w, IF Cardinality(known) = 1 THEN "linking" ELSE "merging")

Search(w) ==
    /\ pc[w] = "searching"
    /\ \E p \in job[w].search :
        LET recorders == RecordersOf(p) \cap externals IN
        \/ recorders = {} /\ Searched(w, job[w].search \ {p}, job[w].known)
        \/ \E q \in recorders : Searched(w, job[w].search \ {p}, job[w].known \cup {q})
    /\ UNCHANGED <<sourceRecords, personVars, contributionVars, organizations, orgVars,
                   countVars, historyVars>>

\* It has the uid of the source person of the first platform; a conflict is no matter.
CreateExternal(w) ==
    /\ pc[w] = "creating"
    /\ \E p \in job[w].cluster :
        /\ \A q \in job[w].cluster : Rank[p] <= Rank[q]
        /\ externals' = IF p \in ghosts THEN externals ELSE externals \cup {p}
        /\ job' = [job EXCEPT ![w].target = p]
    /\ Goes(w, "linking")
    /\ UNCHANGED <<sourceRecords, equivalences, ghosts, recordedBy, contributionVars,
                   organizations, orgVars, countVars, historyVars>>

(***************************************************************************)
(* People are deleted, and contributions of documents, also those another  *)
(* worker needs; or this one, when the cluster of a person it had matched  *)
(* has grown since.                                                        *)
(***************************************************************************)
Matched(v, p) == \E n \in DOMAIN job[v].linked : job[v].linked[n].person = p
Searches(v, p) == p = job[v].target \/ p \in job[v].known

Takes(w, gone, documents) ==
    LET robbed == {v \in Worker : \E p \in gone : Matched(v, p) \/ (v # w /\ Searches(v, p))} IN
    /\ disturbed' = disturbed \cup (documents \ {job[w].document})
                              \cup ({job[v].document : v \in robbed} \ {""})
    /\ externals' = externals \ gone
    /\ ghosts' = ghosts \ gone
    /\ UNCHANGED <<accompanied, raced, regrouped>>

(***************************************************************************)
(* merge_people: nothing is done when the person has no contribution to a  *)
(* document the person to keep does not contribute to; else its            *)
(* contributions are handed over, then deleted, and it is deleted itself   *)
(* if it recorded another source person.                                   *)
(***************************************************************************)
Merge(w) ==
    LET keep == job[w].target IN
    /\ pc[w] = "merging"
    /\ \E p \in job[w].known :
        LET effective == {keep, p} \subseteq People /\ DocumentsOf(p) \ DocumentsOf(keep) # {}
            moved == IF effective THEN RecordedOf(p) \ RecordedOf(keep) ELSE {}
            gone == IF moved # {} THEN {p} ELSE {}
            lost == IF effective THEN DocumentsOf(p) ELSE {}
        IN
        /\ contributions' = contributions \ (lost \X {p})
        /\ statements' = [c \in DOMAIN statements |->
                IF c \in lost \X {p} THEN {} ELSE statements[c]]
        /\ recordedBy' = {l \in recordedBy : l[1] \notin gone} \cup ({keep} \X moved)
        /\ Takes(w, gone, lost)
        /\ job' = [job EXCEPT ![w].known = @ \ {p}]
        /\ Goes(w, IF job[w].known = {p} THEN "linking" ELSE "merging")
    /\ UNCHANGED <<sourceRecords, equivalences, orphans, organizations, orgVars, countVars>>

(***************************************************************************)
(* link_to_person: other external people that record one of the cluster    *)
(* are deleted, even if they record source people of other documents;      *)
(* their contributions then stay, without a person.                        *)
(***************************************************************************)
Linked(linked, person, cluster) ==
    LET same == {n \in DOMAIN linked : linked[n].person = person} IN
    IF same = {} THEN Append(linked, [person |-> person, cluster |-> cluster])
    ELSE [n \in DOMAIN linked |->
            IF n \in same THEN [linked[n] EXCEPT !.cluster = cluster] ELSE linked[n]]

GoneWithTarget(w) ==  \* mutant
    {p \in externals : RecordedOf(p) \cap job[w].cluster # {}}
Gone(w) ==
    {p \in externals \ {job[w].target} : RecordedOf(p) \cap job[w].cluster # {}}

Link(w) ==
    LET person == job[w].target
        cluster == job[w].cluster
        lost == UNION {DocumentsOf(p) : p \in Gone(w)}
    IN
    /\ pc[w] = "linking"
    /\ recordedBy' = {l \in recordedBy : l[1] \notin Gone(w)}
            \cup (IF person \in People THEN {person} \X cluster ELSE {})
    /\ contributions' = {c \in contributions : c[2] \notin Gone(w)}
    /\ statements' = [c \in DOMAIN statements |-> IF c[2] \in Gone(w) THEN {} ELSE statements[c]]
    /\ orphans' = orphans \cup
            UNION {DocumentsOf(p) : p \in {p \in Gone(w) : ~ RecordedOf(p) \subseteq cluster}}
    /\ Takes(w, Gone(w), lost)
    /\ job' = [job EXCEPT ![w].linked = Linked(@, person, cluster),
                          ![w].target = "", ![w].cluster = {}]
    /\ Goes(w, IF job[w].left = {} THEN "contributing" ELSE "matching")
    /\ UNCHANGED <<sourceRecords, equivalences, organizations, orgVars, countVars>>

---------------------------------------------------------------------------
(* The contributions of the document. *)

(***************************************************************************)
(* The contribution is merged, and so is its person: one that was deleted  *)
(* meanwhile is created anew.                                              *)
(***************************************************************************)
Contribute(w) ==
    LET one == Head(job[w].linked) IN
    /\ pc[w] = "contributing" /\ job[w].linked # <<>>
    /\ contributions' = contributions \cup {<<job[w].document, one.person>>}
    /\ ghosts' = ghosts \cup ({one.person} \ People)
    /\ raced' = IF w \in accompanied THEN raced \cup ({one.person} \ People) ELSE raced
    /\ job' = [job EXCEPT ![w].linked = Tail(@), ![w].target = one.person,
                          ![w].cluster = one.cluster, ![w].current = @ \cup {one.person},
                          ![w].left = AffiliationsIn(job[w].records, one.cluster)]
    /\ Goes(w, "affiliating")
    /\ UNCHANGED <<sourceRecords, equivalences, externals, recordedBy, orphans, statements,
                   organizations, orgVars, countVars, disturbed, accompanied, regrouped>>

(***************************************************************************)
(* The clusters of the organizations of the person, one call after the     *)
(* other.                                                                  *)
(***************************************************************************)
Free(w) == pc[w] = "affiliating" /\ orgCall[w].at \in {"none", "returned"}
FoundLast(w) ==  \* mutant
    IF orgCall[w].at = "returned" THEN {orgCall[w].result} ELSE {}
Found(w) == job[w].found \cup
    (IF orgCall[w].at = "returned" THEN {orgCall[w].result} ELSE {})

CallOrganization(w) ==
    /\ Free(w)
    /\ \E o \in job[w].left :
        LET cluster == O!Cluster(o) IN
        /\ \E call \in O!Calls(cluster) : orgCall' = [orgCall EXCEPT ![w] = call]
        /\ job' = [job EXCEPT ![w].left = @ \ cluster, ![w].found = Found(w)]
    /\ UNCHANGED <<sourceRecords, personVars, contributionVars, organizations, states, roots,
                   hasStates, contested, pc, countVars, historyVars>>

TreatOrganization(w) ==
    /\ pc[w] = "affiliating" /\ O!Work(w)
    /\ UNCHANGED <<sourceRecords, personVars, contributionVars, pc, job, countVars, historyVars>>

(***************************************************************************)
(* One target for each organization found: its only state, else the only   *)
(* state with an organization of the person, else the root.  A root left   *)
(* without states is an assertion that fails: the message is given up.     *)
(* Without targets the statements stay as they are.                        *)
(***************************************************************************)
TargetAmongOwn(found, orgs) ==  \* mutant
    LET own == {s \in found.states : s.orgs \cap orgs # {}} IN
    IF Cardinality(own) = 1 THEN <<"state", (CHOOSE s \in own : TRUE).uid>>
    ELSE <<"root", found.root>>
Target(found, orgs) ==
    LET own == {s \in found.states : s.orgs \cap orgs # {}} IN
    CASE Cardinality(found.states) = 1 -> <<"state", (CHOOSE s \in found.states : TRUE).uid>>
      [] Cardinality(found.states) # 1 /\ Cardinality(own) = 1 ->
            <<"state", (CHOOSE s \in own : TRUE).uid>>
      [] OTHER -> <<"root", found.root>>

Affiliated(w) == Free(w) /\ job[w].left = {}
Empty(w) == \E found \in Found(w) : found.states = {}

Affiliate(w) ==
    LET c == <<job[w].document, job[w].target>>
        orgs == AffiliationsIn(job[w].records, job[w].cluster)
        targets == {Target(found, orgs) : found \in Found(w)}
    IN
    /\ Affiliated(w) /\ ~ Empty(w)
    /\ statements' = IF targets # {} /\ c \in contributions
                     THEN [statements EXCEPT ![c] = targets] ELSE statements
    /\ job' = [job EXCEPT ![w].target = "", ![w].cluster = {}, ![w].found = {}]
    /\ orgCall' = [orgCall EXCEPT ![w] = O!NoCall]
    /\ Goes(w, "contributing")
    /\ UNCHANGED <<sourceRecords, personVars, contributions, orphans, organizations, states,
                   roots, hasStates, contested, countVars, historyVars>>

Refused(w) == pc[w] = "affiliating" /\ orgCall[w].at = "refused"

GiveUp(w) ==
    /\ Refused(w) \/ (Affiliated(w) /\ Empty(w))
    /\ disturbed' = disturbed \cup {job[w].document}
    /\ orgCall' = [orgCall EXCEPT ![w] = O!NoCall]
    /\ Ends(w)
    /\ UNCHANGED <<sourceRecords, personVars, contributionVars, organizations, states, roots,
                   hasStates, contested, countVars, accompanied, raced, regrouped>>

(***************************************************************************)
(* The other contributions of the document are deleted; then its metadata  *)
(* are merged (DocumentClusters), and the next document is recomputed.     *)
(***************************************************************************)
StaleIfExternal(w) ==  \* mutant
    {c \in contributions : c[1] = job[w].document /\ c[2] \in externals \ job[w].current}
Stale(w) == {c \in contributions : c[1] = job[w].document /\ c[2] \notin job[w].current}

Finish(w) ==
    LET d == job[w].document IN
    /\ pc[w] = "contributing" /\ job[w].linked = <<>>
    /\ contributions' = contributions \ Stale(w)
    /\ statements' = [c \in DOMAIN statements |-> IF c \in Stale(w) THEN {} ELSE statements[c]]
    /\ orphans' = orphans \ {d}
    /\ IF job[w].todo = {} THEN Ends(w)
       ELSE Goes(w, "starting") /\ job' = [job EXCEPT ![w] = Job(job[w].event, job[w].todo)]
    /\ UNCHANGED <<sourceRecords, personVars, organizations, orgVars, countVars, historyVars>>

---------------------------------------------------------------------------
(***************************************************************************)
(* A failure of the database, or a crash: what the worker did stays, and   *)
(* the message comes back.                                                 *)
(***************************************************************************)
Returned(w) ==
    /\ requeued' = requeued \cup {job[w].event}
    /\ disturbed' = disturbed \cup ({job[w].document} \ {""})
    /\ orgCall' = [orgCall EXCEPT ![w] = O!NoCall]
    /\ Ends(w)
    /\ UNCHANGED <<sourceRecords, personVars, contributionVars, organizations, states, roots,
                   hasStates, contested, past, accompanied, raced, regrouped>>

\* The signature of a state that is written is that of another one.
FailCall(w) ==
    /\ pc[w] = "affiliating" /\ orgCall[w].at = "failed"
    /\ Returned(w) /\ UNCHANGED coming

Fail(w) ==
    /\ pc[w] # "idle" /\ past = <<>>
    /\ coming > 0 /\ coming' = coming - 1
    /\ Returned(w)

---------------------------------------------------------------------------
Work(w) ==
    \/ Start(w) \/ Relate(w) \/ Match(w) \/ Search(w) \/ CreateExternal(w) \/ Merge(w)
    \/ Link(w) \/ Contribute(w)
    \/ CallOrganization(w) \/ TreatOrganization(w)
    \/ Affiliate(w) \/ GiveUp(w) \/ Finish(w) \/ FailCall(w)

Next == \E w \in Worker : Take(w) \/ Work(w) \/ Fail(w)

Spec == Init /\ [][Next]_vars

(***************************************************************************)
(* A worker with a message goes on: its coroutine is scheduled again.      *)
(***************************************************************************)
FairSpec == Spec /\ \A w \in Worker : WF_vars(Work(w))

---------------------------------------------------------------------------
(***************************************************************************)
(* Types: source people are recorded by people, contributions are of       *)
(* documents and people, statements of states and roots.                   *)
(***************************************************************************)
TypeOK ==
    /\ O!TypeOK
    /\ \A d, e \in Document : d # e => sourceRecords[d] \cap sourceRecords[e] = {}
    /\ equivalences \subseteq Stored \X Stored
    /\ externals \cup ghosts \subseteq SourcePerson /\ externals \cap ghosts = {}
    /\ recordedBy \subseteq People \X Stored
    /\ contributions \subseteq Document \X People
    /\ \A c \in DOMAIN statements :
        /\ statements[c] # {} => c \in contributions
        /\ statements[c] \subseteq ({"state"} \X O!State) \cup ({"root"} \X DOMAIN roots)
    /\ pc \in [Worker -> PC]
    /\ coming \in Nat
    /\ requeued \subseteq SourceRecord \X Document
    /\ disturbed \cup regrouped \subseteq Document /\ raced \subseteq SourcePerson

Settled(d) == d \notin disturbed /\ Due(d) = {}

(***************************************************************************)
(* Each source person of a document that was recomputed is recorded by a   *)
(* contributor, and each contributor records one, although people come     *)
(* from other documents too; unless the recomputation of another document  *)
(* took a contribution since, or two recomputations of it met.  Source     *)
(* people that were equivalent when they were matched have a contributor   *)
(* in common.                                                              *)
(***************************************************************************)
ContributorsFollowRecords ==
    \A d \in Document :
        LET people == ContributorsIn(sourceRecords[d])
            contributors(p) == {q \in RecordersOf(p) : <<d, q>> \in contributions}
        IN Settled(d) =>
            /\ d \notin orphans
            /\ \A p \in people : contributors(p) # {}
            /\ d \notin regrouped =>
                  \A p \in people : \A q \in people \cap Equivalents(p) :
                      contributors(p) \cap contributors(q) # {}
            /\ \A c \in contributions : c[1] = d => RecordedOf(c[2]) \cap people # {}

(***************************************************************************)
(* A contribution only brings a deleted person back in a race: a worker    *)
(* alone never deletes a person it has matched, although it matches the    *)
(* clusters of a document one by one, and deletes people as it goes.       *)
(***************************************************************************)
GhostsComeFromRaces == ghosts \subseteq raced

(***************************************************************************)
(* Each organization with identifiers that a contributor is affiliated to  *)
(* is stated: by a root, or by a state that shares an identifier with its  *)
(* cluster, although workers complete and attach states at the same time.  *)
(* It is about the people that record one cluster of the document: of two  *)
(* matched with one person, only the affiliations of the last are stated.  *)
(***************************************************************************)
Shares(s, o) == \E p \in O!Cluster(o) : states[s].ids \cap Described[p].ids # {}
OneCluster(d, q) ==
    LET people == RecordedOf(q) \cap ContributorsIn(sourceRecords[d]) IN
    d \notin regrouped /\ \A p \in people : people \subseteq Equivalents(p)
AffiliationsAreStated ==
    \A c \in contributions : Settled(c[1]) /\ OneCluster(c[1], c[2]) =>
        \A o \in AffiliationsIn(sourceRecords[c[1]], RecordedOf(c[2])) :
            Described[o].ids # {} => \E t \in statements[c] :
                t[1] = "root" \/ Shares(t[2], o)

(***************************************************************************)
(* The recomputations of every event end, although the treatment of a root *)
(* or of a person may fail.                                                *)
(***************************************************************************)
RecomputationsEnd == \A w \in Worker : pc[w] # "idle" ~> pc[w] = "idle"

(***************************************************************************)
(* The identifiers of a state do not contradict each other: see            *)
(* AuthorityOrganizations, _is_compatible and find_compatible_states.      *)
(***************************************************************************)
StatesAreConsistent == O!StatesAreConsistent

(***************************************************************************)
(* A state has one root at most, unless transactions that attach it        *)
(* overlap.                                                                *)
(***************************************************************************)
OneRootPerState == O!OneRootPerState
===========================================================================
