------------------------- MODULE DocumentClusters -------------------------
(***************************************************************************)
(* How source records become documents (EquivalenceService, with           *)
(* DocumentService.merge_documents and the signal that recomputes the      *)
(* metadata of a document): the records that share publication identifiers *)
(* are inferred to be equivalent, users assert other equivalences by       *)
(* merging documents, and each cluster of equivalent records is recorded   *)
(* by one document.  When a record is created or changes, the service      *)
(* links it to the records it shares identifiers with, detaches those it   *)
(* no longer does, puts these in a list to be treated in turn, and moves   *)
(* the records between documents.                                          *)
(*                                                                         *)
(* A step is one write to the graph, with the reads that prepare it; the   *)
(* records a document is recomputed from are read in a step of their own.  *)
(***************************************************************************)
EXTENDS Naturals, FiniteSets, Sequences

CONSTANTS
    RecordCount,   \* number of source records
    Identifier,    \* publication identifiers (DOI, HAL id, ...)
    Worker,        \* workers of the publications and user actions topics
    MaxDocuments,  \* bound: documents ever created
    MaxEvents,     \* bound: messages received
    MaxErrors      \* bound: failures of a database call

Record == 1 .. RecordCount
Doc == 1 .. MaxDocuments

ASSUME ClustersAssumption ==
    /\ RecordCount \in Nat \ {0}
    /\ MaxDocuments \in Nat /\ RecordCount <= MaxDocuments
    /\ MaxEvents \in Nat /\ MaxErrors \in Nat

VARIABLES
    present,      \* the source records stored so far
    identifiers,  \* HAS_IDENTIFIER: the identifiers of each record
    inferred,     \* INFERRED_EQUIVALENT, as pairs of records
    asserted,     \* ASSERTED_EQUIVALENT, as pairs of records
    documents,    \* the Document nodes
    recordedBy,   \* RECORDED_BY: the records of each document
    heirs,        \* TO_BE_MERGED_INTO: the documents each one was merged into
    deleted,      \* the documents flagged to_be_deleted
    computed,     \* the records the metadata of each document come from
    overtaken,    \* history: documents last recomputed from records that changed meanwhile
    waiting,      \* source_records_to_update_uids of each EquivalenceService
    pc,           \* where each worker is
    job,          \* the local variables of each worker
    events,       \* messages so far
    errors        \* failures so far

recordVars == <<present, identifiers>>
linkVars == <<inferred, asserted>>
documentVars == <<documents, recordedBy, heirs, deleted, computed, overtaken>>
countVars == <<events, errors>>
vars == <<present, identifiers, inferred, asserted, documents, recordedBy, heirs,
          deleted, computed, overtaken, waiting, pc, job, events, errors>>

PC == {"idle", "received", "stored", "detaching", "linking", "gathering",
       "writing", "signalling"}

(***************************************************************************)
(* The service connected to the signals is one object for all workers; a   *)
(* merge of documents creates one of its own.                              *)
(***************************************************************************)
Service == {"connected"} \cup Worker

---------------------------------------------------------------------------
(* The graph. *)

(***************************************************************************)
(* apoc.path.subgraphNodes: the records reached from r through the pairs,  *)
(* which are those of the least set with r that no pair leaves.  The query *)
(* stops at maxLevel: paths of 100 pairs, which no cluster modelled has.   *)
(***************************************************************************)
Closed(S, pairs) == \A p \in pairs : p \cap S # {} => p \subseteq S
Reached(r, pairs) ==
    LET closed == {S \in SUBSET Record : r \in S /\ Closed(S, pairs)}
    IN  {s \in Record : \A S \in closed : s \in S}

Pairs(S, T) == {{r, s} : r \in S, s \in T} \ {{r} : r \in S}
Sharing ==
    {p \in Pairs(present, present) :
        \A r, s \in p : identifiers[r] \cap identifiers[s] # {}}
Linked == {p \in Pairs(present, present) : \A r \in p : p \subseteq Reached(r, Sharing)}
Unused == Doc \ (documents \cup UNION {DOMAIN job[w].copies : w \in Worker})
RecordedIn(r) == {d \in documents : r \in recordedBy[d]}

Message(r, ids, merged) == [record |-> r, identifiers |-> ids, merged |-> merged]
NoCopies == [d \in {} |-> {}]
Job(message) ==
    [message |-> message, service |-> "connected", origin |-> message.record,
     shared |-> {}, equivalent |-> {}, copies |-> NoCopies, flagged |-> {}, main |-> 0,
     left |-> {}, document |-> 0, read |-> {}]
NoJob == Job(Message(0, {}, {}))

(***************************************************************************)
(* The graph when every record present was treated and nothing was merged; *)
(* the document of a cluster has the number of its first record.           *)
(***************************************************************************)
Init ==
    /\ present \in SUBSET Record
    /\ identifiers \in [Record -> SUBSET Identifier]
    /\ \A r \in Record \ present : identifiers[r] = {}
    /\ asserted = {} /\ inferred = Linked
    /\ documents = {r \in present : \A s \in Reached(r, Sharing) : r <= s}
    /\ recordedBy = [d \in Doc |-> IF d \in documents THEN Reached(d, Sharing) ELSE {}]
    /\ computed = recordedBy /\ overtaken = {}
    /\ heirs = [d \in Doc |-> {}] /\ deleted = {}
    /\ waiting = [s \in Service |-> <<>>]
    /\ pc = [w \in Worker |-> "idle"]
    /\ job = [w \in Worker |-> NoJob]
    /\ events = 0 /\ errors = 0

---------------------------------------------------------------------------
(* The messages. *)

Receives(w, r, ids, merged) ==
    /\ pc[w] = "idle"
    /\ events < MaxEvents
    /\ events' = events + 1
    /\ pc' = [pc EXCEPT ![w] = "received"]
    /\ job' = [job EXCEPT ![w] = Job(Message(r, ids, merged))]
    /\ UNCHANGED <<recordVars, linkVars, documentVars, waiting, errors>>

ReceiveRecord(w) ==
    \E r \in Record, ids \in SUBSET Identifier : Receives(w, r, ids, {})

ReceiveMerge(w) ==
    \E d, e \in documents : d # e /\ Receives(w, 0, {}, {d, e})

(***************************************************************************)
(* The record is created, or updated with all its identifiers replaced.    *)
(***************************************************************************)
StoreWithoutNode(w) ==  \* mutant
    LET r == job[w].message.record IN
    /\ pc[w] = "received" /\ job[w].message.merged = {}
    /\ identifiers' = [identifiers EXCEPT ![r] = job[w].message.identifiers]
    /\ pc' = [pc EXCEPT ![w] = "stored"]
    /\ UNCHANGED <<present, linkVars, documentVars, waiting, job, countVars>>
Store(w) ==
    LET r == job[w].message.record IN
    /\ pc[w] = "received" /\ job[w].message.merged = {}
    /\ present' = present \cup {r}
    /\ identifiers' = [identifiers EXCEPT ![r] = job[w].message.identifiers]
    /\ pc' = [pc EXCEPT ![w] = "stored"]
    /\ UNCHANGED <<linkVars, documentVars, waiting, job, countVars>>

(***************************************************************************)
(* merge_documents asserts that the records of one document are equivalent *)
(* to those of the other, and goes on with any of them as origin.          *)
(***************************************************************************)
Asserted(groups) ==
    UNION {Pairs(g[1], g[2]) : g \in {g \in groups \X groups : g[1] # g[2]}}

Merge(w) ==
    LET groups == {recordedBy[d] : d \in job[w].message.merged} IN
    /\ pc[w] = "received" /\ job[w].message.merged # {}
    /\ asserted' = asserted \cup Asserted(groups)
    /\ \/ \E r \in UNION groups :
            /\ job' = [job EXCEPT ![w].origin = r, ![w].service = w]
            /\ pc' = [pc EXCEPT ![w] = "stored"]
       \/ /\ UNION groups = {}
          /\ job' = [job EXCEPT ![w] = NoJob]
          /\ pc' = [pc EXCEPT ![w] = "idle"]
    /\ UNCHANGED <<recordVars, inferred, documentVars, waiting, countVars>>

---------------------------------------------------------------------------
(* EquivalenceService. *)

(***************************************************************************)
(* Take the first record of the list, read the records it shares           *)
(* identifiers with, and those an inferred equivalence still attaches to   *)
(* them without reason.                                                    *)
(***************************************************************************)
Scans(w, list) ==
    LET r == Head(list)
        shared == Reached(r, Sharing)
        found == UNION {Reached(s, inferred) : s \in shared}
    IN  /\ waiting' = [waiting EXCEPT ![job[w].service] = Tail(list)]
        /\ job' = [job EXCEPT ![w] = [job[w] EXCEPT
                      !.origin = r, !.shared = shared, !.left = found \ shared]]
        /\ pc' = [pc EXCEPT ![w] = "detaching"]

\* update_source_record: append and take the first are one step of the loop.
Update(w) ==
    /\ pc[w] = "stored"
    /\ Scans(w, Append(waiting[job[w].service], job[w].origin))
    /\ UNCHANGED <<recordVars, linkVars, documentVars, countVars>>

DetachedForgotten(w, r) ==  \* mutant
    /\ job' = [job EXCEPT ![w].left = @ \ {r}]
    /\ UNCHANGED <<recordVars, asserted, documentVars, pc, countVars, waiting>>
Detached(w, r) ==
    /\ waiting' = [waiting EXCEPT ![job[w].service] = Append(@, r)]
    /\ job' = [job EXCEPT ![w].left = @ \ {r}]
    /\ UNCHANGED <<recordVars, asserted, documentVars, pc, countVars>>

DetachKeepingLinks(w) ==  \* mutant
    /\ pc[w] = "detaching"
    /\ \E r \in job[w].left : Detached(w, r)
    /\ UNCHANGED inferred
Detach(w) ==
    /\ pc[w] = "detaching"
    /\ \E r \in job[w].left :
          /\ inferred' = inferred \ Pairs({r}, job[w].shared)
          /\ Detached(w, r)

Link(w) ==
    /\ pc[w] = "detaching" /\ job[w].left = {}
    /\ inferred' = inferred \cup Pairs(job[w].shared, job[w].shared)
    /\ pc' = [pc EXCEPT ![w] = "gathering"]
    /\ job' = [job EXCEPT ![w].shared = {}]
    /\ UNCHANGED <<recordVars, asserted, documentVars, waiting, countVars>>

(***************************************************************************)
(* _update_documents: the equivalents of the origin, and a document of     *)
(* each that has one; a new document if there is none.  The main document  *)
(* is one of those with the most records.                                  *)
(***************************************************************************)
Gather(w) ==
    LET equivalent == Reached(job[w].origin, inferred \cup asserted)
        recorded == {r \in equivalent : RecordedIn(r) # {}}
        first == {{d} : d \in {d \in Unused : \A e \in Unused : d <= e}}
        founds == {f \in [recorded -> documents] : \A r \in recorded : f[r] \in RecordedIn(r)}
    IN
    /\ pc[w] = "gathering"
    /\ \E read \in IF recorded = {} THEN first ELSE {{f[r] : r \in recorded} : f \in founds} :
          \E main \in {d \in read : \A e \in read :
                          Cardinality(recordedBy[d]) >= Cardinality(recordedBy[e])} :
              job' = [job EXCEPT ![w] = [job[w] EXCEPT
                         !.origin = 0, !.equivalent = equivalent, !.main = main, !.left = read,
                         !.copies = [d \in read |-> recordedBy[d]],
                         !.flagged = read \cap deleted]]
    /\ pc' = [pc EXCEPT ![w] = "writing"]
    /\ UNCHANGED <<recordVars, linkVars, documentVars, waiting, countVars>>

(***************************************************************************)
(* Each document is written back with the records it keeps: the main one   *)
(* gets all the equivalents.  One without records is merged into the main  *)
(* one and flagged; the flag of the others is the one that was read, and   *)
(* is removed from a document that others are merged into.                 *)
(***************************************************************************)
KeptAndGained(w, d) ==  \* mutant
    job[w].copies[d] \cup IF d = job[w].main THEN job[w].equivalent ELSE {}
Kept(w, d) ==
    IF d = job[w].main THEN job[w].equivalent ELSE job[w].copies[d] \ job[w].equivalent

FlaggedAsRead(w, d) == d \in job[w].flagged  \* mutant
Flagged(w, d) ==
    \/ Kept(w, d) = {}
    \/ d \in job[w].flagged /\ ~(d = job[w].main /\ Cardinality(DOMAIN job[w].copies) > 1)

\* Every document read is signalled, not only those that changed.
SignalledExisting(w) == documents \cap DOMAIN job[w].copies  \* mutant
Signalled(w) == DOMAIN job[w].copies

Write(w) ==
    /\ pc[w] = "writing"
    /\ \E d \in job[w].left :
          /\ documents' = documents \cup {d}
          /\ recordedBy' = [recordedBy EXCEPT ![d] = Kept(w, d)]
          /\ deleted' = IF Flagged(w, d) THEN deleted \cup {d} ELSE deleted \ {d}
          /\ heirs' = IF Kept(w, d) = {} THEN [heirs EXCEPT ![d] = @ \cup {job[w].main}] ELSE heirs
          /\ job' = [job EXCEPT ![w] =
                        IF job[w].left = {d}
                        THEN [Job(job[w].message) EXCEPT !.service = job[w].service,
                                                         !.left = Signalled(w)]
                        ELSE [job[w] EXCEPT !.left = @ \ {d}]]
          /\ pc' = [pc EXCEPT ![w] = IF job[w].left = {d} THEN "signalling" ELSE @]
    /\ UNCHANGED <<recordVars, linkVars, computed, overtaken, waiting, countVars>>

(***************************************************************************)
(* The signal about a document reads the records it has, and later writes  *)
(* the metadata computed from them; without records nothing is written.    *)
(***************************************************************************)
ReadSources(w) ==
    /\ pc[w] = "signalling" /\ job[w].document = 0
    /\ \E d \in job[w].left :
          job' = [job EXCEPT ![w].document = d, ![w].read = recordedBy[d]]
    /\ UNCHANGED <<recordVars, linkVars, documentVars, waiting, pc, countVars>>

Recompute(w) ==
    LET d == job[w].document
        read == job[w].read
    IN
    /\ pc[w] = "signalling" /\ d # 0
    /\ IF read = {}
       THEN UNCHANGED <<computed, deleted, overtaken>>
       ELSE /\ computed' = [computed EXCEPT ![d] = read]
            /\ deleted' = deleted \ {d}
            /\ overtaken' = IF recordedBy[d] = read THEN overtaken \ {d} ELSE overtaken \cup {d}
    /\ job' = [job EXCEPT ![w].left = @ \ {d}, ![w].document = 0, ![w].read = {}]
    /\ UNCHANGED <<recordVars, linkVars, documents, recordedBy, heirs, waiting, pc, countVars>>

(***************************************************************************)
(* Go on until the list is empty; recursion_level is never passed on, so   *)
(* nothing else ends the recursion.                                        *)
(***************************************************************************)
Continue(w) ==
    /\ pc[w] = "signalling" /\ job[w].left = {}
    /\ IF waiting[job[w].service] # <<>>
       THEN Scans(w, waiting[job[w].service])
       ELSE /\ pc' = [pc EXCEPT ![w] = "idle"]
            /\ job' = [job EXCEPT ![w] = NoJob]
            /\ UNCHANGED waiting
    /\ UNCHANGED <<recordVars, linkVars, documentVars, countVars>>

---------------------------------------------------------------------------
(***************************************************************************)
(* A call to the database fails: the message of a record is put back in    *)
(* its queue and delivered again; the change that asked for a merge is     *)
(* marked as failed and its redelivered message is skipped.                *)
(***************************************************************************)
Fail(w) ==
    /\ pc[w] # "idle"
    /\ errors < MaxErrors
    /\ errors' = errors + 1
    /\ IF job[w].message.merged = {}
       THEN /\ pc' = [pc EXCEPT ![w] = "received"]
            /\ job' = [job EXCEPT ![w] = Job(job[w].message)]
       ELSE /\ pc' = [pc EXCEPT ![w] = "idle"]
            /\ job' = [job EXCEPT ![w] = NoJob]
    /\ waiting' = [waiting EXCEPT ![w] = <<>>]
    /\ UNCHANGED <<recordVars, linkVars, documentVars, events>>

Work(w) ==
    \/ Store(w) \/ Merge(w) \/ Update(w) \/ Detach(w) \/ Link(w)
    \/ Gather(w) \/ Write(w) \/ ReadSources(w) \/ Recompute(w) \/ Continue(w)

Next ==
    \E w \in Worker : ReceiveRecord(w) \/ ReceiveMerge(w) \/ Work(w) \/ Fail(w)

Spec == Init /\ [][Next]_vars

\* Every worker gets its turn.
FairSpec == Spec /\ \A w \in Worker : WF_vars(Work(w))

---------------------------------------------------------------------------
(* Properties.  What holds between messages holds for one worker. *)

Settled == \A w \in Worker : pc[w] = "idle"

(***************************************************************************)
(* Every variable has its type.                                            *)
(***************************************************************************)
TypeOK ==
    /\ present \subseteq Record
    /\ identifiers \in [Record -> SUBSET Identifier]
    /\ inferred \subseteq Pairs(present, present)
    /\ asserted \subseteq Pairs(present, present)
    /\ documents \subseteq Doc /\ deleted \subseteq documents
    /\ recordedBy \in [Doc -> SUBSET present]
    /\ computed \in [Doc -> SUBSET present] /\ overtaken \subseteq documents
    /\ heirs \in [Doc -> SUBSET documents]
    /\ waiting \in [Service -> Seq(present)]
    /\ pc \in [Worker -> PC]
    /\ \A w \in Worker : job[w].left \subseteq (Record \cup Doc)
    /\ events \in Nat /\ errors \in Nat

(***************************************************************************)
(* Between two messages the inferred equivalences are exactly those of the *)
(* identifiers, however clusters were split and joined.                    *)
(***************************************************************************)
LinksFollowIdentifiers == Settled => inferred = Linked

(***************************************************************************)
(* Between two messages the documents are the clusters: each record is     *)
(* recorded by one document, with all the records shared identifiers or    *)
(* asserted equivalences lead to, and with no other.                       *)
(***************************************************************************)
DocumentsAreClusters ==
    Settled =>
        \A r \in present : \E d \in documents :
            /\ RecordedIn(r) = {d}
            /\ recordedBy[d] = Reached(r, Sharing \cup asserted)

(***************************************************************************)
(* Between two messages a document without records is flagged, and was     *)
(* merged, in one or several steps, into one that has records.             *)
(***************************************************************************)
Successors(d) ==
    LET closed == {S \in SUBSET documents : d \in S /\ \A e \in S : heirs[e] \subseteq S}
    IN  {e \in documents : \A S \in closed : e \in S}

EmptiedHaveAnHeir ==
    Settled =>
        \A d \in documents :
            /\ d \in deleted <=> recordedBy[d] = {}
            /\ \E e \in Successors(d) : recordedBy[e] # {}

(***************************************************************************)
(* Between two messages, and unless one failed, the metadata of a document *)
(* come from the records it has, although several workers move records and *)
(* recompute at the same time: every document that gained or lost one was  *)
(* signalled.  Only a recomputation that read the records before another   *)
(* worker changed them leaves older metadata.                              *)
(***************************************************************************)
MetadataAreFresh ==
    Settled /\ errors = 0 =>
        \A d \in documents \ (deleted \cup overtaken) : computed[d] = recordedBy[d]

(***************************************************************************)
(* The treatment of a message ends, although the limit on the recursion is *)
(* never reached: detaching records only makes finitely many others wait.  *)
(***************************************************************************)
UpdateEnds == \A w \in Worker : pc[w] # "idle" ~> pc[w] = "idle"

(***************************************************************************)
(* "Add any detached source records to the list of records to update" and  *)
(* "Loop until the source_records_to_update list is empty": when nothing   *)
(* is under way, a record that lost its document because its cluster was   *)
(* split got another one (merges by users left aside).                     *)
(***************************************************************************)
DetachedAreTreated ==
    Settled /\ asserted = {} => \A r \in present : RecordedIn(r) # {}
=============
