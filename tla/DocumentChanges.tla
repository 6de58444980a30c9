-------------------------- MODULE DocumentChanges --------------------------
(***************************************************************************)
(* The edits users make to one document (app/services/changes): each is a  *)
(* Change node of the graph, applied when its message arrives              *)
(* (ChangeService.create_and_apply_change) and replayed after every        *)
(* recomputation of the document from its source records                   *)
(* (DocumentService._compute_document_from_source_records), which rewrites *)
(* all its metadata.  Both run concurrently, one database transaction at a *)
(* time, and both go through ChangeService.apply_change.                   *)
(*                                                                         *)
(* Changes are numbered in the order of their timestamps.  The content of  *)
(* the document is the set of the elements (a title, a subject, its        *)
(* type...) it has; a change adds one, removes one, or replaces the type.  *)
(* MERGE changes, which are never replayed, are not in this module, and    *)
(* the document keeps at least one source record.                          *)
(***************************************************************************)
EXTENDS Naturals, FiniteSets

CONSTANTS
    ChangeCount,       \* number of changes users make to the document
    Element,           \* what a change may add or remove
    DocumentType,      \* the elements that are types: the document has one at most
    ElementOf,         \* the element of each change
    Adding,            \* the changes whose action is ADD or UPDATE, the others are REMOVE
    Malformed,         \* changes whose processor raises ValueError
    Poison,            \* changes whose processor always raises DatabaseError
    Handler,           \* workers of the user actions topic
    Recomputation,     \* workers that recompute the document
    FaultKinds,        \* the faults that may happen
    MaxFaults,         \* bound: faults of a behaviour
    MaxRecomputations  \* bound: recomputations of a behaviour

Change == 1 .. ChangeCount
Process == Handler \cup Recomputation

ASSUME ChangesAssumption ==
    /\ ChangeCount \in Nat
    /\ ElementOf \in [Change -> Element]
    /\ DocumentType \subseteq Element
    /\ Adding \subseteq Change
    /\ \A c \in Change : ElementOf[c] \in DocumentType => c \in Adding
    /\ Malformed \subseteq Change /\ Poison \subseteq Change
    /\ Malformed \cap Poison = {}
    /\ Handler \cap Recomputation = {}
    /\ FaultKinds \subseteq {"handler_error", "replay_error", "recompute_error", "channel", "crash"}
    /\ MaxFaults \in Nat
    /\ MaxRecomputations \in Nat

VARIABLES
    queue,           \* the messages that wait at the broker
    outcome,         \* how the message of each change was settled
    live,            \* the workers whose delivery can still be settled
    exists,          \* whether the Document node exists
    contents,        \* the elements the document has
    status,          \* the Change nodes: their status, or "absent"
    pc,              \* where each worker is
    todo,            \* the changes each worker still has to apply
    undisturbed,     \* recomputations that wrote without failing and alone since their reset
    interrupted,     \* whether one was given up and no other one read the changes since
    recomputations,  \* recomputations so far
    faults           \* faults so far

messageVars == <<queue, outcome, live>>
graphVars == <<exists, contents, status>>
vars == <<queue, outcome, live, exists, contents, status, pc, todo,
          undisturbed, interrupted, recomputations, faults>>

Settling == {"ack", "drop", "requeue"}
PC == {"idle", "lookup", "target", "create", "apply", "mark",
       "mark_failed", "mark_invalid", "pending", "rewritten", "recomputed"} \cup Settling
Status == {"absent", "created", "applied", "failed"}

Stored == {c \in Change : status[c] # "absent"}

(***************************************************************************)
(* Changes are replayed in the order of their timestamps.                  *)
(***************************************************************************)
CurrentFromLast(p) == CHOOSE c \in todo[p] : \A d \in todo[p] : d <= c  \* mutant
Current(p) == CHOOSE c \in todo[p] : \A d \in todo[p] : c <= d

(***************************************************************************)
(* What a change is about: one element, or the type, which it replaces.    *)
(***************************************************************************)
Field(e) == IF e \in DocumentType THEN DocumentType ELSE {e}
Left(c) == IF c \in Adding THEN {ElementOf[c]} ELSE {}
Edited(c) == (contents \ Field(ElementOf[c])) \cup Left(c)

Contents == {S \in SUBSET Element : Cardinality(S \cap DocumentType) <= 1}

Inject(kind) ==
    /\ kind \in FaultKinds
    /\ faults < MaxFaults
    /\ faults' = faults + 1

(***************************************************************************)
(* A call of a DAO fails (handle_database_errors): the worker goes on at   *)
(* next.                                                                   *)
(***************************************************************************)
Fails(p, next) ==
    /\ Inject(IF p \in Handler THEN "handler_error" ELSE "replay_error")
    /\ pc' = [pc EXCEPT ![p] = next]

Goes(p, next) ==
    /\ pc' = [pc EXCEPT ![p] = next]
    /\ UNCHANGED faults

(***************************************************************************)
(* Who is left undisturbed when p writes, or fails to write, to the graph. *)
(***************************************************************************)
Writing(p) == undisturbed' = undisturbed \cap {p}
FailingToWrite == undisturbed' = {}

Init ==
    /\ queue = Change
    /\ outcome = [c \in Change |-> "none"]
    /\ live = {}
    /\ exists \in BOOLEAN
    /\ contents = {}
    /\ status = [c \in Change |-> "absent"]
    /\ pc = [p \in Process |-> "idle"]
    /\ todo = [p \in Process |-> {}]
    /\ undisturbed = {}
    /\ interrupted = FALSE
    /\ recomputations = 0
    /\ faults = 0

---------------------------------------------------------------------------
(* The message of a change: AMQPUserActionsMessageProcessor and            *)
(* ChangeService.create_and_apply_change.                                  *)

Receive(h, c) ==
    /\ pc[h] = "idle" /\ c \in queue
    /\ queue' = queue \ {c}
    /\ live' = live \cup {h}
    /\ todo' = [todo EXCEPT ![h] = {c}]
    /\ Goes(h, "lookup")
    /\ UNCHANGED <<outcome, graphVars, undisturbed, interrupted, recomputations>>

(***************************************************************************)
(* get_by_uid.  A change that was applied or that failed is skipped.       *)
(***************************************************************************)
SkippedIfApplied == {"applied"}  \* mutant
SkippedIfKnown == {"created", "applied", "failed"}  \* mutant
Skipped == {"applied", "failed"}

Lookup(h) ==
    /\ pc[h] = "lookup"
    /\ \/ status[Current(h)] \in Skipped /\ Goes(h, "ack")
       \/ status[Current(h)] \in {"created", "failed"} \ Skipped /\ Goes(h, "apply")
       \/ status[Current(h)] = "absent" /\ Goes(h, "target")
       \/ Fails(h, "requeue")
    /\ UNCHANGED <<messageVars, graphVars, todo, undisturbed, interrupted, recomputations>>

(***************************************************************************)
(* create_change: the target must exist, otherwise ValueError.             *)
(***************************************************************************)
TargetWithoutCreation(h) ==  \* mutant
    /\ pc[h] = "target"
    /\ Goes(h, IF exists THEN "apply" ELSE "drop")
    /\ UNCHANGED <<messageVars, graphVars, todo, undisturbed, interrupted, recomputations>>
Target(h) ==
    /\ pc[h] = "target"
    /\ \/ exists /\ Goes(h, "create")
       \/ ~exists /\ Goes(h, "drop")
       \/ Fails(h, "requeue")
    /\ UNCHANGED <<messageVars, graphVars, todo, undisturbed, interrupted, recomputations>>

(***************************************************************************)
(* create_document_change merges on the uid and sets all properties: the   *)
(* status is "created" again if another worker was faster.  A write that   *)
(* fails may have been committed.                                          *)
(***************************************************************************)
Create(h) ==
    /\ pc[h] = "create"
    /\ \/ /\ status' = [status EXCEPT ![Current(h)] = "created"]
          /\ Goes(h, "apply")
          /\ Writing(h)
       \/ /\ status' \in {status, [status EXCEPT ![Current(h)] = "created"]}
          /\ Fails(h, "requeue")
          /\ FailingToWrite
    /\ UNCHANGED <<messageVars, exists, contents, todo, interrupted, recomputations>>

(***************************************************************************)
(* The message is acknowledged, dropped (ValueError) or put back in its    *)
(* queue (DatabaseError); a stale delivery cannot be settled.  The topic   *)
(* has a dead-letter queue, which nothing consumes.                        *)
(***************************************************************************)
Settle(h) ==
    /\ pc[h] \in Settling
    /\ IF h \in live
       THEN /\ outcome' = [outcome EXCEPT ![Current(h)] =
                              CASE pc[h] = "ack"  -> "acked"
                                [] pc[h] = "drop" -> "dropped"
                                [] OTHER          -> "none"]
            /\ queue' = IF pc[h] = "requeue" THEN queue \cup {Current(h)} ELSE queue
       ELSE UNCHANGED <<queue, outcome>>
    /\ live' = live \ {h}
    /\ todo' = [todo EXCEPT ![h] = {}]
    /\ Goes(h, "idle")
    /\ UNCHANGED <<graphVars, undisturbed, interrupted, recomputations>>

---------------------------------------------------------------------------
(* The recomputation of the document. *)

(***************************************************************************)
(* A message about a source record of the document arrives.                *)
(***************************************************************************)
Harvest(r) ==
    /\ pc[r] = "idle"
    /\ recomputations < MaxRecomputations
    /\ recomputations' = recomputations + 1
    /\ Goes(r, "pending")
    /\ UNCHANGED <<messageVars, graphVars, todo, undisturbed, interrupted>>

(***************************************************************************)
(* The equivalence service creates the document or writes it as it read it *)
(* some time ago; then the metadata computed from the source records, that *)
(* were read some time ago too, replace the contents.                      *)
(***************************************************************************)
Rewrite(r) ==
    /\ pc[r] = "pending"
    /\ exists' = TRUE
    /\ contents' \in Contents
    /\ Goes(r, "rewritten")
    /\ Writing(r)
    /\ UNCHANGED <<messageVars, status, todo, interrupted, recomputations>>

Recompute(r) ==
    /\ pc[r] = "rewritten"
    /\ contents' \in Contents
    /\ Goes(r, "recomputed")
    /\ undisturbed' = {r}
    /\ UNCHANGED <<messageVars, exists, status, todo, interrupted, recomputations>>

(***************************************************************************)
(* apply_changes_to_node: all the changes of the document, whatever their  *)
(* status, in the order of their timestamps.                               *)
(***************************************************************************)
ReplayedApplied == {c \in Change : status[c] = "applied"}  \* mutant
Replayed == Stored

ReadChanges(r) ==
    /\ pc[r] = "recomputed"
    /\ todo' = [todo EXCEPT ![r] = Replayed]
    /\ Goes(r, IF Replayed = {} THEN "idle" ELSE "apply")
    /\ interrupted' = FALSE
    /\ UNCHANGED <<messageVars, graphVars, undisturbed, recomputations>>

(***************************************************************************)
(* An exception of the recomputation, or one that the replay does not      *)
(* catch, stops it.  A DatabaseError puts the message of the source record *)
(* back in its queue, any other exception gives it up; and a message that  *)
(* comes again recomputes the documents it then changes, this one or not.  *)
(***************************************************************************)
Abandon(r) ==
    /\ pc[r] # "idle"
    /\ Inject("recompute_error")
    /\ \E next \in {"pending", "idle"} : pc' = [pc EXCEPT ![r] = next]
    /\ todo' = [todo EXCEPT ![r] = {}]
    /\ interrupted' = (interrupted \/ pc[r] # "pending")
    /\ FailingToWrite
    /\ UNCHANGED <<messageVars, graphVars, recomputations>>

---------------------------------------------------------------------------
(* ChangeService.apply_change, for both. *)

(***************************************************************************)
(* The processor of the change: it refuses what is malformed, or runs one  *)
(* transaction.                                                            *)
(***************************************************************************)
Apply(p) ==
    /\ pc[p] = "apply"
    /\ \/ /\ Current(p) \in Malformed
          /\ Goes(p, "mark_invalid")
          /\ UNCHANGED <<contents, undisturbed>>
       \/ /\ Current(p) \in Poison
          /\ Goes(p, "mark_failed")
          /\ UNCHANGED <<contents, undisturbed>>
       \/ /\ Current(p) \notin Malformed \cup Poison
          /\ contents' = Edited(Current(p))
          /\ Goes(p, "mark")
          /\ Writing(p)
       \/ /\ Current(p) \notin Malformed \cup Poison
          /\ contents' \in {contents, Edited(Current(p))}
          /\ Fails(p, "mark_failed")
          /\ FailingToWrite
    /\ UNCHANGED <<messageVars, exists, status, todo, interrupted, recomputations>>

(***************************************************************************)
(* What follows the last transaction of apply_change: a handler settles    *)
(* its message; a replay, which swallows the errors, goes on with the next *)
(* change.                                                                 *)
(***************************************************************************)
Rest(p) == IF p \in Handler THEN todo[p] ELSE todo[p] \ {Current(p)}
ReturnsRaising(p, verdict) ==  \* mutant
    IF p \in Handler THEN verdict
    ELSE IF verdict # "ack" THEN "pending" ELSE IF Rest(p) = {} THEN "idle" ELSE "apply"
ReturnsWith(p, verdict) ==
    IF p \in Handler THEN verdict ELSE IF Rest(p) = {} THEN "idle" ELSE "apply"

(***************************************************************************)
(* APPLIED is written, then the listeners of the update are told (which    *)
(* changes nothing here).  An error of either leads to FAILED, also when   *)
(* APPLIED was committed.                                                  *)
(***************************************************************************)
MarkApplied(p) ==
    /\ pc[p] = "mark"
    /\ \/ /\ status' = [status EXCEPT ![Current(p)] = "applied"]
          /\ todo' = [todo EXCEPT ![p] = Rest(p)]
          /\ Goes(p, ReturnsWith(p, "ack"))
          /\ Writing(p)
       \/ /\ status' \in {status, [status EXCEPT ![Current(p)] = "applied"]}
          /\ UNCHANGED todo
          /\ Fails(p, "mark_failed")
          /\ FailingToWrite
    /\ UNCHANGED <<messageVars, exists, contents, interrupted, recomputations>>

MarkFailed(p) ==
    /\ pc[p] \in {"mark_failed", "mark_invalid"}
    /\ todo' = [todo EXCEPT ![p] = Rest(p)]
    /\ \/ /\ status' = [status EXCEPT ![Current(p)] = "failed"]
          /\ Goes(p, ReturnsWith(p, IF pc[p] = "mark_invalid" THEN "drop" ELSE "requeue"))
          /\ Writing(p)
       \/ /\ status' \in {status, [status EXCEPT ![Current(p)] = "failed"]}
          /\ Fails(p, ReturnsWith(p, "requeue"))
          /\ FailingToWrite
    /\ UNCHANGED <<messageVars, exists, contents, interrupted, recomputations>>

---------------------------------------------------------------------------
(* Faults. *)

(***************************************************************************)
(* The channel of the user actions is lost: the messages under way return  *)
(* to the queue and the workers go on with them.                           *)
(***************************************************************************)
ChannelLost ==
    /\ Inject("channel")
    /\ queue' = queue \cup {Current(h) : h \in live}
    /\ live' = {}
    /\ UNCHANGED <<outcome, graphVars, pc, todo, undisturbed, interrupted, recomputations>>

(***************************************************************************)
(* The process is killed: the broker gives all its messages again.  Those  *)
(* of the source records recompute the documents they then change, this    *)
(* one or not.                                                             *)
(***************************************************************************)
Crash ==
    /\ Inject("crash")
    /\ queue' = queue \cup {Current(h) : h \in live}
    /\ live' = {}
    /\ \E again \in SUBSET {r \in Recomputation : pc[r] # "idle"} :
          pc' = [p \in Process |-> IF p \in again THEN "pending" ELSE "idle"]
    /\ todo' = [p \in Process |-> {}]
    /\ interrupted' = (interrupted \/ \E r \in Recomputation : pc[r] \notin {"idle", "pending"})
    /\ FailingToWrite
    /\ UNCHANGED <<outcome, graphVars, recomputations>>

---------------------------------------------------------------------------
ApplyChange(p) == Apply(p) \/ MarkApplied(p) \/ MarkFailed(p)
Handle(h) == Lookup(h) \/ Target(h) \/ Create(h) \/ ApplyChange(h) \/ Settle(h)
Replay(r) == Rewrite(r) \/ Recompute(r) \/ ReadChanges(r) \/ ApplyChange(r)

Next ==
    \/ \E h \in Handler : (\E c \in Change : Receive(h, c)) \/ Handle(h)
    \/ \E r \in Recomputation : Harvest(r) \/ Replay(r) \/ Abandon(r)
    \/ ChannelLost \/ Crash

Spec == Init /\ [][Next]_vars

(***************************************************************************)
(* Every worker gets its turn and every message is delivered in the end.   *)
(***************************************************************************)
Fairness ==
    /\ \A c \in Change : SF_vars(\E h \in Handler : Receive(h, c))
    /\ \A h \in Handler : WF_vars(Handle(h))
    /\ \A r \in Recomputation : WF_vars(Replay(r))

FairSpec == Spec /\ Fairness

---------------------------------------------------------------------------
(* Properties. *)

(***************************************************************************)
(* Every variable has its type; a worker has a current change exactly when *)
(* it works on one; only stored changes are being applied.                 *)
(***************************************************************************)
TypeOK ==
    /\ queue \subseteq Change
    /\ outcome \in [Change -> {"none", "acked", "dropped"}]
    /\ live \subseteq Handler
    /\ exists \in BOOLEAN
    /\ contents \in Contents
    /\ status \in [Change -> Status]
    /\ pc \in [Process -> PC]
    /\ todo \in [Process -> SUBSET Change]
    /\ \A p \in Process : todo[p] = {} <=>
          pc[p] \in {"idle", "pending", "rewritten", "recomputed"}
    /\ \A p \in Process :
          pc[p] \in {"apply", "mark", "mark_failed", "mark_invalid"} => Current(p) \in Stored
    /\ undisturbed \subseteq Recomputation /\ interrupted \in BOOLEAN
    /\ recomputations \in Nat /\ faults \in Nat

(***************************************************************************)
(* A recomputation that ends never takes an edit away: when none is under  *)
(* way, a title, a subject or the type that an applied change is about is  *)
(* as a change left it, not the source records - in any interleaving of    *)
(* handlers and recomputations, duplicate deliveries and crashes.  This is *)
(* why a change is stored before it is applied, and why the replay reads   *)
(* the changes after the metadata are written.  A recomputation that was   *)
(* given up after it wrote leaves the edits out until the next one reaches *)
(* the changes: that is excepted.  Errors of the replay itself, which the  *)
(* code swallows, are excluded by FaultKinds.                              *)
(***************************************************************************)
Sound(e) == {c \in Stored \ (Malformed \cup Poison) : ElementOf[c] \in Field(e)}
EditsSurvive ==
    ~ interrupted /\ (\A r \in Recomputation : pc[r] = "idle") =>
        \A e \in Element :
            (\E c \in Sound(e) : status[c] = "applied") =>
                \E c \in Sound(e) : contents \cap Field(e) = Left(c)

(***************************************************************************)
(* After a recomputation nothing interfered with, each edited element, and *)
(* the type, is as the change with the last timestamp left it, in whatever *)
(* order the messages came and whichever of them had failed.               *)
(***************************************************************************)
Latest(e) == {c \in Sound(e) : \A d \in Sound(e) : d <= c}
ReplayIsFaithful ==
    \A r \in undisturbed : pc[r] = "idle" =>
        \A e \in Element : \A c \in Latest(e) : contents \cap Field(e) = Left(c)

(***************************************************************************)
(* A message is acknowledged only when its change was decided: applied, or *)
(* recorded as failed.  No crash between the creation, the application and *)
(* the status leaves a change that its redelivered message then skips.     *)
(***************************************************************************)
AckedIsDecided ==
    \A c \in Change : outcome[c] = "acked" => status[c] \in {"applied", "failed"}

(***************************************************************************)
(* What the log line of create_and_apply_change says of a failed change,   *)
(* "had failed. Retrying.": a well-formed change whose message was         *)
(* consumed has been applied.                                              *)
(***************************************************************************)
FailedIsRetried ==
    \A c \in Change \ (Malformed \cup Poison) : outcome[c] = "acked" => status[c] = "applied"

(***************************************************************************)
(* Every message leaves the queue, also that of a change the database      *)
(* always refuses.                                                         *)
(***************************************************************************)
EveryMessageLeaves == <>(\A c \in Change : outcome[c] # "none")

(***************************************************************************)
(* Every recomputation ends, also with changes that always fail.           *)
(***************************************************************************)
RecomputationEnds ==
    \A r \in Recomputation : pc[r] = "pending" ~> pc[r] = "idle"
============================================================================
