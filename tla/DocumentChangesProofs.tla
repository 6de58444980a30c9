---------------------- MODULE DocumentChangesProofs ----------------------
(***************************************************************************)
(* Proofs about the changes of one document, for every number of changes,  *)
(* handlers, recomputations and faults.                                    *)
(***************************************************************************)
EXTENDS DocumentChanges, FiniteSetTheorems, WellFoundedInduction, TLAPS

---------------------------------------------------------------------------
(* The inductive invariants. *)

Applying == {"apply", "mark", "mark_failed", "mark_invalid"}
HandlerPC == {"idle", "lookup", "target", "create"} \cup Applying \cup Settling
ReplayPC == {"idle", "pending", "rewritten", "recomputed"} \cup Applying

(***************************************************************************)
(* Where each worker may be: a handler has one change at a time, a worker  *)
(* only applies changes that are stored, and no delivery is live that no   *)
(* handler works on.                                                       *)
(***************************************************************************)
Resting == {"idle", "pending", "rewritten", "recomputed"}
Places ==
    /\ pc \in [Process -> PC] /\ todo \in [Process -> SUBSET Change]
    /\ \A p \in Process : todo[p] = {} <=> pc[p] \in Resting
    /\ \A h \in Handler : pc[h] \in HandlerPC /\ \A c, d \in todo[h] : c = d
    /\ \A r \in Recomputation : pc[r] \in ReplayPC
    /\ \A p \in Process : pc[p] \in Applying => todo[p] \subseteq Stored
    /\ live \subseteq Handler /\ \A h \in live : todo[h] # {}

Contained ==
    /\ queue \subseteq Change /\ outcome \in [Change -> {"none", "acked", "dropped"}]
    /\ exists \in BOOLEAN /\ contents \in Contents
    /\ undisturbed \subseteq Recomputation /\ interrupted \in BOOLEAN
    /\ recomputations \in Nat /\ faults \in Nat

TypeInv == Contained /\ status \in [Change -> Status] /\ Places

(***************************************************************************)
(* Without a loss of the channel a message is in one place: in the queue,  *)
(* with one handler, or settled; and it is only to be acknowledged once    *)
(* its change is decided.                                                  *)
(***************************************************************************)
Decided == {"applied", "failed"}
OnePlace ==
    /\ \A h, k \in Handler : h # k => todo[h] \cap todo[k] = {}
    /\ \A h \in Handler : todo[h] \cap queue = {}
    /\ \A c \in Change : outcome[c] = "acked" => c \notin queue /\ \A h \in Handler : c \notin todo[h]
AckInv ==
    /\ TypeInv /\ OnePlace /\ AckedIsDecided
    /\ \A h \in Handler : pc[h] = "ack" => \A c \in todo[h] : status[c] \in Decided

(***************************************************************************)
(* The changes a worker has still to apply; those before are marked.       *)
(***************************************************************************)
ToApply(p) == IF pc[p] = "apply" THEN todo[p] ELSE {c \in todo[p] : c # Current(p)}

(***************************************************************************)
(* Unless a recomputation was given up after it wrote, an edit that was    *)
(* applied, or that is to be marked as applied, is in the document, or a   *)
(* recomputation that wrote has still to read the changes, or to apply one *)
(* of those it read.                                                       *)
(***************************************************************************)
IsApplied(e) ==
    \E c \in Sound(e) : status[c] = "applied" \/ \E p \in Process : pc[p] = "mark" /\ Current(p) = c
Kept(e) == \E c \in Sound(e) : contents \cap Field(e) = Left(c)
Coming(r, e) ==
    \/ pc[r] \in {"rewritten", "recomputed"}
    \/ pc[r] \in Applying /\ ToApply(r) \cap Sound(e) # {}
EditsInv ==
    /\ TypeInv
    /\ \A e \in Element :
          ~ interrupted /\ IsApplied(e) => Kept(e) \/ \E r \in Recomputation : Coming(r, e)

(***************************************************************************)
(* What an undisturbed recomputation has still to apply are the last of    *)
(* the stored changes, and each field is as the last of the others left it.*)
(***************************************************************************)
LastApplied(r, e) ==
    {c \in Sound(e) \ ToApply(r) : \A d \in Sound(e) \ ToApply(r) : d <= c}
InOrder(r) == \A c \in ToApply(r), d \in Stored : c <= d => d \in ToApply(r)
Faithful(r) ==
    InOrder(r) /\ \A e \in Element : \A c \in LastApplied(r, e) : contents \cap Field(e) = Left(c)
FaithfulInv ==
    /\ TypeInv
    /\ \A r \in undisturbed : pc[r] \in Applying \cup {"idle"} => Faithful(r)

---------------------------------------------------------------------------
(* The current change, and the fields of the document. *)

\* A nonempty set of changes has a first one, which is the current one.
LEMMA EarliestChange ==
    ASSUME NEW S \in SUBSET Change, S # {}
    PROVE  LET first == CHOOSE c \in S : \A d \in S : c <= d
           IN  first \in S /\ \A d \in S : first <= d
<1>1. S \in SUBSET Nat
  BY ChangesAssumption DEF Change
<1>2. \E c \in S : \A d \in S : c <= d
  <2>1. PICK c \in S : \A d \in S : <<d, c>> \notin OpToRel(<, Nat)
    BY <1>1, NatLessThanWellFounded, WFMin
  <2>2. \A d \in S : ~ (d < c)
    BY <1>1, <2>1 DEF OpToRel
  <2>3. QED
    BY <1>1, <2>2
<1>3. QED
  BY <1>2

\* A worker with changes to apply is about to apply the first of them.
LEMMA CurrentIsFirst ==
    ASSUME NEW p \in Process, todo[p] \in SUBSET Change, todo[p] # {}
    PROVE  /\ Current(p) \in todo[p] /\ Current(p) \in Change
           /\ \A d \in todo[p] : Current(p) <= d
BY EarliestChange DEF Current

\* Two elements have the same field or fields without a common element.
LEMMA FieldsPartition ==
    ASSUME NEW d, NEW e, d \in Field(e)
    PROVE  Field(d) = Field(e)
BY DEF Field

\* A change leaves its field as it wants it, and the others as they are.
LEMMA EditedFields ==
    ASSUME NEW c \in Change, NEW e
    PROVE  /\ ElementOf[c] \in Field(e) => Edited(c) \cap Field(e) = Left(c)
           /\ ElementOf[c] \notin Field(e) => Edited(c) \cap Field(e) = contents \cap Field(e)
BY DEF Field, Edited, Left

\* The document keeps one type at most.
LEMMA EditedContents ==
    ASSUME NEW c \in Change, contents \in Contents
    PROVE  Edited(c) \in Contents
<1>1. Edited(c) \subseteq Element
  BY ChangesAssumption DEF Edited, Left, Contents
<1>2. CASE ElementOf[c] \in DocumentType
  <2>1. Edited(c) \cap DocumentType = {ElementOf[c]}
    BY <1>2, ChangesAssumption DEF Edited, Left, Field
  <2>2. Cardinality({ElementOf[c]}) = 1
    BY FS_Singleton
  <2>3. QED
    BY <1>1, <2>1, <2>2 DEF Contents
<1>3. CASE ElementOf[c] \notin DocumentType
  <2>1. Edited(c) \cap DocumentType = contents \cap DocumentType
    BY <1>3 DEF Edited, Left, Field
  <2>2. QED
    BY <1>1, <2>1 DEF Contents
<1>4. QED
  BY <1>2, <1>3

---------------------------------------------------------------------------
(* Types. *)

\* Places and types imply the type invariant of the specification.
LEMMA TypesFollow == TypeInv => TypeOK
<1> SUFFICES ASSUME TypeInv PROVE TypeOK
  OBVIOUS
<1>1. ASSUME NEW p \in Process, pc[p] \in Applying
      PROVE  Current(p) \in Stored
  <2>1. todo[p] \in SUBSET Change /\ todo[p] # {} /\ todo[p] \subseteq Stored
    BY <1>1 DEF TypeInv, Places, Applying, Resting
  <2>2. QED
    BY <2>1, CurrentIsFirst
<1>2. QED
  BY <1>1 DEF TypeInv, TypeOK, Places, Contained, Applying, Resting

\* The initial states.
LEMMA InitTypes == Init => TypeInv
<1> SUFFICES ASSUME Init PROVE TypeInv
  OBVIOUS
<1>1. {} \in Contents
  <2>1. {} \cap DocumentType = {} /\ Cardinality({}) = 0
    BY FS_EmptySet
  <2>2. QED
    BY <2>1 DEF Contents
<1>2. Contained /\ status \in [Change -> Status]
  BY <1>1 DEF Init, Contained, Status
<1>3. Places
  BY ChangesAssumption
     DEF Init, Places, PC, HandlerPC, ReplayPC, Applying, Process, Settling, Resting
<1>4. QED
  BY <1>2, <1>3 DEF TypeInv

\* A change is stored once its status is written, and stays so.
LEMMA StoredGrows ==
    ASSUME NEW c \in Change, status \in [Change -> Status], NEW s \in Status \ {"absent"},
           status' \in {status, [status EXCEPT ![c] = s]}
    PROVE  Stored \subseteq Stored' /\ status' \in [Change -> Status]
BY DEF Stored

\* A worker of the queue has one change, its current one.
LEMMA HandlerHasOne ==
    ASSUME Places, NEW h \in Handler, pc[h] # "idle"
    PROVE  Current(h) \in Change /\ todo[h] = {Current(h)}
<1>1. todo[h] \in SUBSET Change /\ h \in Process /\ pc[h] \in HandlerPC
  BY DEF Places, Process
<1>2. todo[h] # {}
  BY <1>1 DEF Places, HandlerPC, Applying, Settling, Resting
<1>3. Current(h) \in todo[h]
  BY <1>1, <1>2, CurrentIsFirst
<1>4. QED
  BY <1>1, <1>3 DEF Places

\* A worker that applies changes has a current one, which is stored.
LEMMA ApplyingHasCurrent ==
    ASSUME Places, NEW p \in Process, pc[p] \in Applying
    PROVE  /\ Current(p) \in todo[p] /\ Current(p) \in Change /\ Current(p) \in Stored
           /\ todo[p] \subseteq Stored
           /\ \A d \in todo[p] : Current(p) <= d
<1>1. todo[p] \in SUBSET Change /\ todo[p] # {} /\ todo[p] \subseteq Stored
  BY DEF Places, Applying, Resting
<1>2. QED
  BY <1>1, CurrentIsFirst

(***************************************************************************)
(* The worker p goes to another place, with the changes T, that are stored *)
(* if it is to apply them; the others stay where they are.                 *)
(***************************************************************************)
Moves(p, next, T) ==
    /\ pc' = [pc EXCEPT ![p] = next] /\ T \subseteq Change /\ todo' = [todo EXCEPT ![p] = T]
    /\ p \in Handler => next \in HandlerPC /\ \A c, d \in T : c = d
    /\ p \in Recomputation => next \in ReplayPC
    /\ T = {} <=> next \in Resting
    /\ next \in Applying => T \subseteq Stored'
    /\ Stored \subseteq Stored'
    /\ live' \subseteq Handler /\ \A h \in live' : todo'[h] # {}

\* Such a move keeps every worker in a place it may be in.
LEMMA MovePlaces ==
    ASSUME Places, NEW p \in Process, NEW next, NEW T, Moves(p, next, T)
    PROVE  Places'
BY DEF Moves, Places, Process, HandlerPC, ReplayPC, Applying, Settling, PC

\* The steps of a handler before the change is applied.
LEMMA HandlerTypes ==
    ASSUME TypeInv, NEW h \in Handler,
           \/ \E c \in Change : Receive(h, c)
           \/ Lookup(h) \/ Target(h) \/ Create(h) \/ Settle(h)
    PROVE  TypeInv'
<1> USE DEF messageVars, graphVars, Goes, Fails, Inject
<1>0. /\ Contained /\ status \in [Change -> Status] /\ Places
      /\ h \in Process /\ h \notin Recomputation /\ pc[h] \in HandlerPC
      /\ live \subseteq Handler /\ \A k \in live : k \in Process /\ todo[k] # {}
      /\ todo \in [Process -> SUBSET Change]
  BY ChangesAssumption DEF Process, TypeInv, Places
<1>1. ASSUME NEW c \in Change, Receive(h, c)
      PROVE  TypeInv'
  <2>1. /\ pc' = [pc EXCEPT ![h] = "lookup"] /\ todo' = [todo EXCEPT ![h] = {c}]
        /\ live' = live \cup {h} /\ UNCHANGED status
    BY <1>1 DEF Receive
  <2>2. live' \subseteq Handler /\ (\A k \in live' : todo'[k] # {}) /\ Stored' = Stored
    BY <1>0, <2>1 DEF Stored
  <2>3. "lookup" \in HandlerPC /\ "lookup" \notin Applying /\ "lookup" \notin Resting
    BY DEF HandlerPC, Applying, Resting
  <2>4. Places'
    <3>1. Moves(h, "lookup", {c})
      BY <1>0, <2>1, <2>2, <2>3 DEF Moves
    <3>2. QED
      BY <1>0, <3>1, MovePlaces
  <2>5. Contained'
    BY <1>0, <1>1 DEF Contained, Receive
  <2>6. QED
    BY <1>0, <2>1, <2>4, <2>5 DEF TypeInv
<1>2. ASSUME Lookup(h) \/ Target(h) \/ Create(h)
      PROVE  TypeInv'
  <2>1. pc[h] \in {"lookup", "target", "create"}
    BY <1>2 DEF Lookup, Target, Create
  <2>2. Current(h) \in Change /\ todo[h] = {Current(h)}
    BY <1>0, <2>1, HandlerHasOne
  <2>3. PICK next \in {"ack", "drop", "requeue", "apply", "target", "create"} :
              pc' = [pc EXCEPT ![h] = next] /\ (next = "apply" => Current(h) \in Stored')
    BY <1>0, <1>2, <2>2 DEF Lookup, Target, Create, Skipped, Stored, Status
  <2>4. /\ UNCHANGED <<messageVars, exists, contents, todo, interrupted, recomputations>>
        /\ status' \in {status, [status EXCEPT ![Current(h)] = "created"]}
        /\ undisturbed' \subseteq undisturbed /\ faults' \in Nat
    BY <1>0, <1>2 DEF Lookup, Target, Create, Writing, FailingToWrite, Contained
  <2>5. Stored \subseteq Stored' /\ status' \in [Change -> Status]
    BY <1>0, <2>2, <2>4, StoredGrows DEF Status
  <2>6. todo' = [todo EXCEPT ![h] = todo[h]]
    BY <1>0, <2>4
  <2>7. next \in HandlerPC /\ next \notin Resting /\ (next \in Applying => next = "apply")
    BY <2>3 DEF Settling, HandlerPC, Applying, Resting
  <2>8. todo[h] \in SUBSET Change /\ todo[h] # {} /\ \A c, d \in todo[h] : c = d
    BY <2>2
  <2>9. live' \subseteq Handler /\ \A k \in live' : todo'[k] # {}
    BY <1>0, <2>4
  <2>10. Places'
    <3>1. Moves(h, next, todo[h])
      BY <1>0, <2>2, <2>3, <2>5, <2>6, <2>7, <2>8, <2>9 DEF Moves
    <3>2. QED
      BY <1>0, <3>1, MovePlaces
  <2>11. QED
    BY <1>0, <2>4, <2>5, <2>10 DEF TypeInv, Contained
<1>3. ASSUME Settle(h)
      PROVE  TypeInv'
  <2>1. Current(h) \in Change /\ todo[h] = {Current(h)}
    BY <1>0, <1>3, HandlerHasOne DEF Settle, Settling
  <2>2. /\ UNCHANGED <<exists, contents, status, undisturbed, interrupted, recomputations, faults>>
        /\ pc' = [pc EXCEPT ![h] = "idle"] /\ todo' = [todo EXCEPT ![h] = {}]
        /\ live' = live \ {h} /\ Stored' = Stored
    BY <1>3 DEF Settle, Stored
  <2>3. queue' \subseteq Change /\ outcome' \in [Change -> {"none", "acked", "dropped"}]
    <3>1. CASE h \in live
      BY <1>0, <1>3, <2>1, <3>1 DEF Settle, Contained
    <3>2. CASE h \notin live
      BY <1>0, <1>3, <3>2 DEF Settle, Contained
    <3>3. QED
      BY <3>1, <3>2
  <2>4. live' \subseteq Handler /\ \A k \in live' : todo'[k] # {}
    BY <1>0, <2>2
  <2>5. "idle" \in HandlerPC /\ "idle" \in Resting /\ "idle" \notin Applying
    BY DEF HandlerPC, Resting, Applying
  <2>6. Places'
    <3>1. Moves(h, "idle", {})
      BY <1>0, <2>2, <2>4, <2>5 DEF Moves
    <3>2. QED
      BY <1>0, <3>1, MovePlaces
  <2>7. QED
    BY <1>0, <2>2, <2>3, <2>6 DEF TypeInv, Contained
<1>4. QED
  BY <1>1, <1>2, <1>3

\* The steps of a recomputation before it applies the changes.
LEMMA ReplayTypes ==
    ASSUME TypeInv, NEW r \in Recomputation,
           Harvest(r) \/ Rewrite(r) \/ Recompute(r) \/ ReadChanges(r) \/ Abandon(r)
    PROVE  TypeInv'
<1>0. /\ Contained /\ status \in [Change -> Status] /\ Places
      /\ r \in Process /\ r \notin Handler /\ Stored \subseteq Change
      /\ live \subseteq Handler /\ \A k \in live : todo[k] # {}
  BY ChangesAssumption DEF Process, TypeInv, Places, Stored
<1>1. /\ UNCHANGED <<queue, outcome, live, status>>
      /\ exists' \in BOOLEAN /\ contents' \in Contents /\ interrupted' \in BOOLEAN
      /\ undisturbed' \subseteq Recomputation /\ recomputations' \in Nat /\ faults' \in Nat
  <2> USE <1>0 DEF Goes, Inject, messageVars, graphVars, Writing, FailingToWrite, Contained
  <2>1. CASE Harvest(r)
    BY <2>1 DEF Harvest
  <2>2. CASE Rewrite(r)
    BY <2>2 DEF Rewrite
  <2>3. CASE Recompute(r)
    BY <2>3 DEF Recompute
  <2>4. CASE ReadChanges(r)
    BY <2>4 DEF ReadChanges
  <2>5. CASE Abandon(r)
    BY <2>5 DEF Abandon
  <2>6. QED
    BY <2>1, <2>2, <2>3, <2>4, <2>5
<1>2. Stored' = Stored
  BY <1>1 DEF Stored
<1>3. todo \in [Process -> SUBSET Change] /\ (pc[r] \in Resting => todo[r] = {})
  BY <1>0 DEF Places
<1>4. PICK next, T : /\ pc' = [pc EXCEPT ![r] = next] /\ todo' = [todo EXCEPT ![r] = T]
                     /\ \/ next \in Resting /\ T = {}
                        \/ next = "apply" /\ T = Stored /\ T # {}
  <2>1. CASE Harvest(r) \/ Rewrite(r) \/ Recompute(r)
    <3>1. pc[r] \in Resting /\ UNCHANGED todo
      BY <2>1 DEF Harvest, Rewrite, Recompute, Resting
    <3>2. todo' = [todo EXCEPT ![r] = {}]
      BY <1>3, <3>1
    <3>3. PICK next \in Resting : pc' = [pc EXCEPT ![r] = next]
      BY <2>1 DEF Harvest, Rewrite, Recompute, Goes, Resting
    <3>4. QED
      BY <3>2, <3>3
  <2>2. CASE ReadChanges(r)
    BY <2>2 DEF ReadChanges, Goes, Resting, Replayed
  <2>3. CASE Abandon(r)
    BY <2>3 DEF Abandon, Resting
  <2>4. QED
    BY <2>1, <2>2, <2>3
<1>5. Moves(r, next, T)
  <2>1. next \in ReplayPC /\ (T = {} <=> next \in Resting) /\ (next \in Applying => T = Stored)
    BY <1>4 DEF ReplayPC, Resting, Applying
  <2>2. \A k \in live : k # r
    BY <1>0
  <2>3. \A k \in live' : todo'[k] # {}
    BY <1>0, <1>1, <1>4, <2>2
  <2>4. QED
    BY <1>0, <1>1, <1>2, <1>4, <2>1, <2>3 DEF Moves
<1>6. QED
  BY <1>0, <1>1, <1>5, MovePlaces DEF TypeInv, Contained

\* What follows the last transaction about a change.
LEMMA ReturnPlaces ==
    ASSUME Places, NEW p \in Process, pc[p] \in Applying, NEW verdict \in Settling
    PROVE  /\ Rest(p) \subseteq todo[p]
           /\ Rest(p) = {} <=> ReturnsWith(p, verdict) \in Resting
           /\ p \in Handler => ReturnsWith(p, verdict) = verdict
           /\ p \in Recomputation => ReturnsWith(p, verdict) \in {"idle", "apply"}
           /\ Rest(p) = {c \in todo[p] : p \in Recomputation => c # Current(p)}
<1>1. Current(p) \in todo[p]
  BY ApplyingHasCurrent
<1>2. p \in Handler <=> p \notin Recomputation
  BY ChangesAssumption DEF Process
<1>3. QED
  BY <1>1, <1>2 DEF Rest, ReturnsWith, Settling, Resting

\* The steps of apply_change.
LEMMA ApplyTypes ==
    ASSUME TypeInv, NEW p \in Process, ApplyChange(p)
    PROVE  TypeInv'
<1>0. /\ Contained /\ status \in [Change -> Status] /\ Places
      /\ pc[p] \in Applying /\ live \subseteq Handler /\ \A k \in live : todo[k] # {}
      /\ todo \in [Process -> SUBSET Change] /\ todo[p] # {}
      /\ (p \in Handler => \A c, d \in todo[p] : c = d)
  BY DEF ApplyChange, Apply, MarkApplied, MarkFailed, TypeInv, Places, Resting, Applying
<1>1. Current(p) \in Change /\ todo[p] \subseteq Stored /\ Current(p) \in todo[p]
  BY <1>0, ApplyingHasCurrent
<1>2. /\ UNCHANGED <<queue, outcome, live, exists, interrupted, recomputations>>
      /\ undisturbed' \subseteq Recomputation /\ faults' \in Nat
  BY <1>0 DEF ApplyChange, Apply, MarkApplied, MarkFailed, Goes, Fails, Inject, messageVars,
              Writing, FailingToWrite, Contained
<1>3. contents' \in Contents
  <2>1. Edited(Current(p)) \in Contents
    BY <1>0, <1>1, EditedContents DEF Contained
  <2>2. QED
    BY <1>0, <2>1 DEF ApplyChange, Apply, MarkApplied, MarkFailed, Contained
<1>4. Stored \subseteq Stored' /\ status' \in [Change -> Status]
  <2>1. CASE Apply(p)
    BY <1>0, <2>1 DEF Apply, Stored
  <2>2. CASE MarkApplied(p)
    <3>1. status' \in {status, [status EXCEPT ![Current(p)] = "applied"]}
      BY <2>2 DEF MarkApplied
    <3>2. QED
      BY <1>0, <1>1, <3>1, StoredGrows DEF Status
  <2>3. CASE MarkFailed(p)
    <3>1. status' \in {status, [status EXCEPT ![Current(p)] = "failed"]}
      BY <2>3 DEF MarkFailed
    <3>2. QED
      BY <1>0, <1>1, <3>1, StoredGrows DEF Status
  <2>4. QED
    BY <2>1, <2>2, <2>3 DEF ApplyChange
<1>5. PICK next, T : /\ pc' = [pc EXCEPT ![p] = next] /\ todo' = [todo EXCEPT ![p] = T]
                     /\ \/ next \in Applying /\ T = todo[p]
                        \/ T = Rest(p) /\ \E verdict \in Settling : next = ReturnsWith(p, verdict)
  <2>1. todo \in [Process -> SUBSET Change] /\ [todo EXCEPT ![p] = todo[p]] = todo
    BY <1>0
  <2>2. CASE Apply(p)
    <3>1. PICK next \in Applying : pc' = [pc EXCEPT ![p] = next]
      BY <2>2 DEF Apply, Goes, Fails, Applying
    <3>2. UNCHANGED todo
      BY <2>2 DEF Apply
    <3>3. QED
      BY <2>1, <3>1, <3>2
  <2>3. CASE MarkApplied(p)
    <3>1. CASE todo' = [todo EXCEPT ![p] = Rest(p)] /\ Goes(p, ReturnsWith(p, "ack"))
      BY <3>1 DEF Goes, Settling
    <3>2. CASE UNCHANGED todo /\ Fails(p, "mark_failed")
      BY <2>1, <3>2 DEF Fails, Applying
    <3>3. QED
      BY <2>3, <3>1, <3>2 DEF MarkApplied
  <2>4. CASE MarkFailed(p)
    <3>1. PICK verdict \in Settling : pc' = [pc EXCEPT ![p] = ReturnsWith(p, verdict)]
      BY <2>4 DEF MarkFailed, Goes, Fails, Settling
    <3>2. QED
      BY <2>4, <3>1 DEF MarkFailed
  <2>5. QED
    BY <2>2, <2>3, <2>4 DEF ApplyChange
<1>6. Moves(p, next, T)
  <2>1. T \subseteq todo[p]
    BY <1>0, <1>5, ReturnPlaces
  <2>2. /\ p \in Handler => next \in HandlerPC /\ T # {}
        /\ p \in Recomputation => next \in ReplayPC
        /\ T = {} <=> next \in Resting
    <3>1. Applying \cap Resting = {} /\ Settling \cap Resting = {} /\ Settling \cup Applying \subseteq HandlerPC
          /\ {"idle", "apply"} \cup Applying \subseteq ReplayPC
      BY DEF Applying, Resting, Settling, HandlerPC, ReplayPC
    <3>2. QED
      BY <1>0, <1>5, <3>1, ReturnPlaces
  <2>3. \A k \in live' : todo'[k] # {}
    BY <1>0, <1>2, <1>5, <2>2
  <2>4. QED
    BY <1>0, <1>1, <1>2, <1>4, <1>5, <2>1, <2>2, <2>3 DEF Moves
<1>7. QED
  BY <1>0, <1>2, <1>3, <1>4, <1>6, MovePlaces DEF TypeInv, Contained

\* Every step keeps the types.
LEMMA TypeStep == TypeInv /\ [Next]_vars => TypeInv'
<1> SUFFICES ASSUME TypeInv, [Next]_vars PROVE TypeInv'
  OBVIOUS
<1>0. /\ Contained /\ status \in [Change -> Status] /\ Places
      /\ todo \in [Process -> SUBSET Change] /\ live \subseteq Handler
      /\ Handler \subseteq Process
  BY DEF TypeInv, Places, Process
<1>1. ASSUME NEW h \in live PROVE Current(h) \in Change
  BY <1>0, <1>1, CurrentIsFirst DEF Places
<1>2. ASSUME NEW h \in Handler, (\E c \in Change : Receive(h, c)) \/ Handle(h) PROVE TypeInv'
  BY <1>0, <1>2, HandlerTypes, ApplyTypes DEF Handle
<1>3. ASSUME NEW r \in Recomputation, Harvest(r) \/ Replay(r) \/ Abandon(r) PROVE TypeInv'
  BY <1>3, ReplayTypes, ApplyTypes DEF Replay, Process
<1>4. CASE ChannelLost
  <2>1. Contained'
    BY <1>0, <1>1, <1>4 DEF ChannelLost, Contained, Inject, graphVars
  <2>2. Places' /\ status' = status
    BY <1>0, <1>4 DEF ChannelLost, Places, graphVars, Stored
  <2>3. QED
    BY <1>0, <2>1, <2>2 DEF TypeInv
<1>5. CASE Crash
  <2>1. Contained'
    BY <1>0, <1>1, <1>5 DEF Crash, Contained, Inject, graphVars, FailingToWrite
  <2>2. Places' /\ status' = status
    BY <1>0, <1>5, ChangesAssumption
       DEF Crash, Places, graphVars, PC, HandlerPC, ReplayPC, Resting, Applying, Process
  <2>3. QED
    BY <1>0, <2>1, <2>2 DEF TypeInv
<1>6. CASE UNCHANGED vars
  BY <1>0, <1>6 DEF vars, TypeInv, Contained, Places, Stored
<1>7. QED
  BY <1>2, <1>3, <1>4, <1>5, <1>6 DEF Next

\* Every variable of the changes of a document keeps its type, and only
\* stored changes are applied, for all constants.
THEOREM TypeCorrect == Spec => []TypeOK
<1>1. QED
  BY InitTypes, TypeStep, TypesFollow, PTL DEF Spec

---------------------------------------------------------------------------
(* Acknowledgements. *)

\* Applying a change to the document, or marking it, decides it or leaves
\* its status; a handler acknowledges what it has marked as applied.
LEMMA ApplyDecides ==
    ASSUME TypeInv, NEW p \in Process, ApplyChange(p)
    PROVE  /\ UNCHANGED <<queue, outcome>>
           /\ \A c \in Change : status'[c] = status[c] \/ status'[c] \in Decided
           /\ \A h \in Handler : todo'[h] = todo[h]
           /\ \A h \in Handler : pc'[h] = "ack" =>
                 pc[h] = "ack" \/ \A c \in todo[h] : status'[c] \in Decided
<1>0. /\ Places /\ status \in [Change -> Status] /\ pc \in [Process -> PC]
      /\ todo \in [Process -> SUBSET Change]
      /\ pc[p] \in Applying /\ Handler \subseteq Process
      /\ \A h \in Handler : Rest(h) = todo[h]
  BY DEF TypeInv, Places, Process, ApplyChange, Apply, MarkApplied, MarkFailed, Applying, Rest
<1>1. Current(p) \in Change
  BY <1>0, ApplyingHasCurrent
<1>2. ASSUME p \in Handler PROVE todo[p] = {Current(p)}
  BY <1>0, <1>2, HandlerHasOne DEF Applying
<1>3. CASE Apply(p)
  BY <1>0, <1>3 DEF Apply, messageVars, Goes, Fails
<1>4. CASE MarkApplied(p)
  <2>1. \A c \in Change : status'[c] = status[c] \/ status'[c] \in Decided
    BY <1>0, <1>1, <1>4 DEF MarkApplied, Decided
  <2>2. \A h \in Handler : todo'[h] = todo[h]
    BY <1>0, <1>4 DEF MarkApplied
  <2>3. ASSUME NEW h \in Handler, pc'[h] = "ack", pc[h] # "ack"
        PROVE  \A c \in todo[h] : status'[c] \in Decided
    <3>1. h = p /\ status' = [status EXCEPT ![Current(p)] = "applied"]
      BY <1>0, <1>4, <2>3 DEF MarkApplied, Goes, Fails
    <3>2. QED
      BY <1>0, <1>1, <1>2, <3>1 DEF Decided
  <2>4. QED
    BY <1>4, <2>1, <2>2, <2>3 DEF MarkApplied, messageVars
<1>5. CASE MarkFailed(p)
  <2>1. \A c \in Change : status'[c] = status[c] \/ status'[c] \in Decided
    BY <1>0, <1>1, <1>5 DEF MarkFailed, Decided
  <2>2. \A h \in Handler : todo'[h] = todo[h]
    BY <1>0, <1>5 DEF MarkFailed
  <2>3. \A h \in Handler : pc'[h] = "ack" => pc[h] = "ack"
    BY <1>0, <1>5, ChangesAssumption DEF MarkFailed, Goes, Fails, ReturnsWith
  <2>4. QED
    BY <1>5, <2>1, <2>2, <2>3 DEF MarkFailed, messageVars
<1>6. QED
  BY <1>3, <1>4, <1>5 DEF ApplyChange

\* As long as the channel holds, every step keeps the acknowledgements right.
LEMMA AckStep ==
    ASSUME "channel" \notin FaultKinds, AckInv, [Next]_vars
    PROVE  AckInv'
<1>0. /\ TypeInv' /\ TypeInv /\ OnePlace /\ AckedIsDecided /\ Places
      /\ status \in [Change -> Status] /\ pc \in [Process -> PC]
      /\ outcome \in [Change -> {"none", "acked", "dropped"}]
      /\ todo \in [Process -> SUBSET Change] /\ live \subseteq Handler
      /\ Handler \subseteq Process
      /\ \A h \in Handler : pc[h] = "ack" => \A c \in todo[h] : status[c] \in Decided
  BY TypeStep DEF AckInv, TypeInv, Places, Process, Contained
<1> USE <1>0
<1> DEFINE Acks == OnePlace' /\ AckedIsDecided' /\
                    \A h \in Handler : pc'[h] = "ack" => \A c \in todo'[h] : status'[c] \in Decided
<1> SUFFICES Acks
  BY DEF AckInv
<1>1. ASSUME NEW h \in Handler, NEW c \in Change, Receive(h, c) PROVE Acks
  BY <1>1 DEF Receive, Goes, graphVars, OnePlace, AckedIsDecided
<1>2. ASSUME NEW h \in Handler, Lookup(h) \/ Target(h) \/ Create(h) PROVE Acks
  <2>1. Current(h) \in Change /\ todo[h] = {Current(h)}
    BY <1>2, HandlerHasOne DEF Lookup, Target, Create
  <2>2. UNCHANGED <<queue, outcome, todo>>
    BY <1>2 DEF Lookup, Target, Create, messageVars
  <2>3. \A c \in Change : c \notin todo[h] => status'[c] = status[c]
    BY <1>2, <2>1 DEF Lookup, Target, Create, graphVars
  <2>4. pc'[h] = "ack" => status'[Current(h)] \in Decided
    BY <1>2, <2>1 DEF Lookup, Target, Create, graphVars, Goes, Fails, Skipped, Decided
  <2>5. \A k \in Handler : k # h => pc'[k] = pc[k]
    BY <1>2 DEF Lookup, Target, Create, Goes, Fails
  <2>6. OnePlace'
    BY <2>2 DEF OnePlace
  <2>7. AckedIsDecided'
    BY <2>2, <2>3 DEF OnePlace, AckedIsDecided
  <2>8. ASSUME NEW k \in Handler, pc'[k] = "ack", NEW c \in todo'[k] PROVE status'[c] \in Decided
    <3>1. CASE k = h
      BY <2>1, <2>2, <2>4, <2>8, <3>1
    <3>2. CASE k # h
      BY <2>2, <2>3, <2>5, <2>8, <3>2 DEF OnePlace
    <3>3. QED
      BY <3>1, <3>2
  <2>9. QED
    BY <2>6, <2>7, <2>8
<1>3. ASSUME NEW h \in Handler, Settle(h) PROVE Acks
  <2>1. Current(h) \in Change /\ todo[h] = {Current(h)}
    BY <1>3, HandlerHasOne DEF Settle, Settling
  <2>2. /\ status' = status /\ todo' = [todo EXCEPT ![h] = {}] /\ pc' = [pc EXCEPT ![h] = "idle"]
        /\ \A c \in Change \ {Current(h)} : outcome'[c] = outcome[c]
        /\ queue' \subseteq queue \cup {Current(h)}
        /\ \/ UNCHANGED <<queue, outcome>>
           \/ outcome'[Current(h)] # "acked"
           \/ pc[h] = "ack" /\ queue' = queue
    BY <1>3, <2>1 DEF Settle, graphVars, Goes, Settling
  <2>3. OnePlace'
    BY <2>1, <2>2 DEF OnePlace
  <2>4. AckedIsDecided'
    BY <2>1, <2>2 DEF OnePlace, AckedIsDecided, Decided
  <2>5. QED
    BY <2>1, <2>2, <2>3, <2>4
<1>4. ASSUME NEW r \in Recomputation,
             Harvest(r) \/ Rewrite(r) \/ Recompute(r) \/ ReadChanges(r) \/ Abandon(r)
      PROVE  Acks
  <2>1. UNCHANGED <<queue, outcome, status>>
    BY <1>4 DEF Harvest, Rewrite, Recompute, ReadChanges, Abandon, messageVars, graphVars
  <2>2. \A h \in Handler : todo'[h] = todo[h] /\ pc'[h] = pc[h]
    BY <1>4, ChangesAssumption DEF Harvest, Rewrite, Recompute, ReadChanges, Abandon, Goes
  <2>3. QED
    BY <2>1, <2>2 DEF OnePlace, AckedIsDecided
<1>5. ASSUME NEW p \in Process, ApplyChange(p) PROVE Acks
  BY <1>5, ApplyDecides DEF OnePlace, AckedIsDecided, Decided
<1>6. ~ ChannelLost
  BY DEF ChannelLost, Inject, AckInv
<1>7. CASE Crash
  <2>1. \A h \in live : Current(h) \in todo[h]
    BY CurrentIsFirst DEF Places
  <2>2. /\ queue' = queue \cup {Current(h) : h \in live} /\ UNCHANGED <<outcome, status>>
        /\ \A h \in Handler : todo'[h] = {} /\ pc'[h] = "idle"
    BY <1>7, ChangesAssumption DEF Crash, graphVars
  <2>3. \A c \in queue' : c \in queue \/ \E h \in Handler : c \in todo[h]
    BY <2>1, <2>2
  <2>4. OnePlace'
    BY <2>2, <2>3 DEF OnePlace
  <2>5. AckedIsDecided'
    BY <2>2 DEF AckedIsDecided
  <2>6. QED
    BY <2>2, <2>4, <2>5
<1>8. CASE UNCHANGED vars
  <2>1. UNCHANGED <<queue, outcome, status, pc, todo>>
    BY <1>8 DEF vars
  <2>2. OnePlace' /\ AckedIsDecided'
    BY <2>1 DEF OnePlace, AckedIsDecided
  <2>3. QED
    BY <2>1, <2>2
<1>9. QED
  <2> HIDE DEF Acks
  <2>1. ASSUME NEW h \in Handler, (\E c \in Change : Receive(h, c)) \/ Handle(h) PROVE Acks
    BY <1>1, <1>2, <1>3, <1>5, <2>1 DEF Handle
  <2>2. ASSUME NEW r \in Recomputation, Harvest(r) \/ Replay(r) \/ Abandon(r) PROVE Acks
    BY <1>4, <1>5, <2>2 DEF Replay, Process
  <2>3. QED
    BY <1>6, <1>7, <1>8, <2>1, <2>2 DEF Next

\* A message is only acknowledged once its change is applied or recorded as
\* failed, whatever crashes and database errors, if the channel holds.
THEOREM AcknowledgedAreDecided ==
    ASSUME "channel" \notin FaultKinds
    PROVE  Spec => []AckedIsDecided
<1>1. Init => AckInv
  BY InitTypes DEF Init, AckInv, OnePlace, AckedIsDecided, Process
<1>2. AckInv /\ [Next]_vars => AckInv'
  BY AckStep
<1>3. AckInv => AckedIsDecided
  BY DEF AckInv
<1>4. QED
  BY <1>1, <1>2, <1>3, PTL DEF Spec

---------------------------------------------------------------------------
(* Edits. *)

\* A worker whose changes are the same has the same current one.
LEMMA CurrentUnchanged ==
    ASSUME NEW p, todo'[p] = todo[p]
    PROVE  Current(p)' = Current(p)
BY DEF Current

\* A worker with the same place and changes has the same changes to apply.
LEMMA ToApplyUnchanged ==
    ASSUME NEW p, todo'[p] = todo[p], pc'[p] = pc[p]
    PROVE  ToApply(p)' = ToApply(p)
BY CurrentUnchanged DEF ToApply

\* What apply_change leaves to apply, after the processor and after the status.
LEMMA ToApplyNext ==
    ASSUME TypeInv, NEW p \in Process, ApplyChange(p)
    PROVE  /\ Apply(p) => /\ ToApply(p) = todo[p] /\ pc'[p] \in Applying \ {"apply"}
                          /\ ToApply(p)' = todo[p] \ {Current(p)}
           /\ ~ Apply(p) /\ p \in Recomputation /\ todo' # todo =>
                          /\ ToApply(p) = todo[p] \ {Current(p)}
                          /\ ToApply(p)' = ToApply(p)
                          /\ pc'[p] = (IF ToApply(p) = {} THEN "idle" ELSE "apply")
           /\ \A q \in Process \ {p} : pc'[q] = pc[q] /\ todo'[q] = todo[q] /\ ToApply(q)' = ToApply(q)
<1>0. Places /\ pc \in [Process -> PC] /\ todo \in [Process -> SUBSET Change]
  BY DEF TypeInv, Places
<1>1. ASSUME Apply(p)
      PROVE  /\ ToApply(p) = todo[p] /\ pc'[p] \in Applying \ {"apply"}
             /\ ToApply(p)' = todo[p] \ {Current(p)} /\ todo' = todo
  <2>1. pc[p] = "apply" /\ todo' = todo /\ pc'[p] \in Applying \ {"apply"}
    BY <1>0, <1>1 DEF Apply, Goes, Fails, Applying
  <2>2. Current(p)' = Current(p)
    BY <2>1, CurrentUnchanged
  <2>3. QED
    BY <2>1, <2>2 DEF ToApply, Applying
<1>2. ASSUME ~ Apply(p), p \in Recomputation, todo' # todo
      PROVE  /\ ToApply(p) = todo[p] \ {Current(p)}
             /\ ToApply(p)' = ToApply(p)
             /\ pc'[p] = (IF ToApply(p) = {} THEN "idle" ELSE "apply")
  <2>1. p \notin Handler
    BY <1>2, ChangesAssumption
  <2>2. pc[p] # "apply"
    BY <1>2 DEF ApplyChange, MarkApplied, MarkFailed
  <2>3. ToApply(p) = todo[p] \ {Current(p)}
    BY <2>2 DEF ToApply
  <2>4. Rest(p) = ToApply(p)
    BY <2>1, <2>3 DEF Rest
  <2>5. todo'[p] = ToApply(p)
    BY <1>0, <1>2, <2>4 DEF ApplyChange, MarkApplied, MarkFailed
  <2>6. pc'[p] = (IF ToApply(p) = {} THEN "idle" ELSE "apply")
    <3>1. CASE MarkApplied(p)
      BY <1>0, <1>2, <2>1, <2>4, <3>1 DEF MarkApplied, Goes, ReturnsWith
    <3>2. CASE MarkFailed(p)
      BY <1>0, <1>2, <2>1, <2>4, <3>2 DEF MarkFailed, Goes, Fails, ReturnsWith
    <3>3. QED
      BY <1>2, <3>1, <3>2 DEF ApplyChange
  <2>7. ToApply(p)' = ToApply(p)
    BY <2>5, <2>6 DEF ToApply
  <2>8. QED
    BY <2>3, <2>6, <2>7
<1>3. ASSUME NEW q \in Process \ {p}
      PROVE  pc'[q] = pc[q] /\ todo'[q] = todo[q] /\ ToApply(q)' = ToApply(q)
  <2>1. pc'[q] = pc[q] /\ todo'[q] = todo[q]
    BY <1>0 DEF ApplyChange, Apply, MarkApplied, MarkFailed, Goes, Fails
  <2>2. QED
    BY <2>1, ToApplyUnchanged
<1>4. QED
  BY <1>1, <1>2, <1>3

\* An edit is about a change that is stored and not refused.
LEMMA SoundGrows ==
    ASSUME NEW e, Stored \subseteq Stored'
    PROVE  Sound(e) \subseteq Sound(e)' /\ Sound(e)' \cap Stored \subseteq Sound(e)
BY DEF Sound

\* Steps that leave the contents, and the recomputations that wrote, and mark
\* nothing as applied, do not touch the edits.
LEMMA EditsUntouched ==
    ASSUME EditsInv, ~ interrupted, contents' = contents, Stored \subseteq Stored',
           \A c \in Change : status'[c] = "applied" => status[c] = "applied",
           \A p \in Process : pc'[p] = "mark" => pc[p] = "mark" /\ todo'[p] = todo[p],
           \A r \in Recomputation : \/ pc'[r] = pc[r] /\ todo'[r] = todo[r]
                                    \/ pc[r] \in {"idle", "pending"},
           NEW e \in Element, IsApplied(e)'
    PROVE  Kept(e)' \/ \E r \in Recomputation : Coming(r, e)'
<1>0. Places /\ TypeInv
  BY DEF EditsInv, TypeInv
<1>1. Sound(e) \subseteq Sound(e)' /\ Sound(e)' \cap Stored \subseteq Sound(e)
  BY SoundGrows
<1>2. IsApplied(e)
  <2>1. PICK c \in Sound(e)' : \/ status'[c] = "applied"
                               \/ \E p \in Process : pc'[p] = "mark" /\ Current(p)' = c
    BY DEF IsApplied
  <2>2. c \in Change
    BY <2>1 DEF Sound, Stored
  <2>3. CASE status'[c] = "applied"
    <3>1. status[c] = "applied" /\ c \in Stored
      BY <2>2, <2>3 DEF Stored
    <3>2. QED
      BY <1>1, <2>1, <3>1 DEF IsApplied
  <2>4. ASSUME NEW p \in Process, pc'[p] = "mark", Current(p)' = c
        PROVE  IsApplied(e)
    <3>1. pc[p] = "mark" /\ Current(p) = c
      BY <2>4, CurrentUnchanged
    <3>2. c \in Stored
      BY <1>0, <3>1, ApplyingHasCurrent DEF Applying
    <3>3. QED
      BY <1>1, <2>1, <3>1, <3>2 DEF IsApplied
  <2>5. QED
    BY <2>1, <2>3, <2>4
<1>3. CASE Kept(e)
  <2>1. PICK c \in Sound(e) : contents \cap Field(e) = Left(c)
    BY <1>3 DEF Kept
  <2>2. QED
    BY <1>1, <2>1 DEF Kept
<1>4. ASSUME NEW r \in Recomputation, Coming(r, e)
      PROVE  Coming(r, e)'
  <2>1. pc[r] \notin {"idle", "pending"}
    BY <1>4 DEF Coming, Applying
  <2>2. CASE pc'[r] = pc[r] /\ todo'[r] = todo[r]
    BY <1>1, <1>4, <2>2, ToApplyUnchanged DEF Coming
  <2>3. QED
    BY <2>1, <2>2
<1>5. QED
  BY <1>2, <1>3, <1>4 DEF EditsInv

\* The steps of a handler before the change is applied, the loss of the channel
\* and the end of a recomputation that wrote nothing do not touch the edits.
LEMMA HandlerEdits ==
    ASSUME EditsInv, TypeInv',
           \/ \E h \in Handler : \/ \E c \in Change : Receive(h, c)
                                 \/ Lookup(h) \/ Target(h) \/ Create(h) \/ Settle(h)
           \/ \E r \in Recomputation : Harvest(r) \/ Abandon(r)
           \/ ChannelLost \/ Crash \/ UNCHANGED vars,
           ~ interrupted',
           NEW e \in Element, IsApplied(e)'
    PROVE  Kept(e)' \/ \E r \in Recomputation : Coming(r, e)'
<1>0. /\ Places /\ status \in [Change -> Status] /\ pc \in [Process -> PC]
      /\ todo \in [Process -> SUBSET Change] /\ Handler \cap Recomputation = {}
      /\ Handler \subseteq Process /\ Recomputation \subseteq Process
  BY ChangesAssumption DEF EditsInv, TypeInv, Places, Process
<1> DEFINE Untouched ==
        /\ ~ interrupted /\ contents' = contents /\ Stored \subseteq Stored'
        /\ \A c \in Change : status'[c] = "applied" => status[c] = "applied"
        /\ \A p \in Process : pc'[p] = "mark" => pc[p] = "mark" /\ todo'[p] = todo[p]
        /\ \A r \in Recomputation : \/ pc'[r] = pc[r] /\ todo'[r] = todo[r]
                                    \/ pc[r] \in {"idle", "pending"}
<1> SUFFICES Untouched
  BY EditsUntouched
<1>1. ASSUME NEW h \in Handler, NEW c \in Change, Receive(h, c) PROVE Untouched
  BY <1>0, <1>1 DEF Receive, Goes, graphVars, Stored
<1>2. ASSUME NEW h \in Handler, Lookup(h) \/ Target(h) PROVE Untouched
  BY <1>0, <1>2 DEF Lookup, Target, Goes, Fails, graphVars, Stored
<1>3. ASSUME NEW h \in Handler, Create(h) PROVE Untouched
  <2>1. Current(h) \in Change
    BY <1>0, <1>3, HandlerHasOne DEF Create
  <2>2. status' \in {status, [status EXCEPT ![Current(h)] = "created"]}
    BY <1>3 DEF Create
  <2>3. Stored \subseteq Stored'
    BY <1>0, <2>1, <2>2, StoredGrows DEF Status
  <2>4. QED
    BY <1>0, <1>3, <2>1, <2>2, <2>3 DEF Create, Goes, Fails
<1>4. ASSUME NEW h \in Handler, Settle(h) PROVE Untouched
  BY <1>0, <1>4 DEF Settle, Goes, graphVars, Stored
<1>5. ASSUME NEW r \in Recomputation, Harvest(r) PROVE Untouched
  BY <1>0, <1>5 DEF Harvest, Goes, graphVars, Stored
<1>6. CASE ChannelLost
  BY <1>0, <1>6 DEF ChannelLost, graphVars, Stored
<1>7. CASE Crash
  <2>1. contents' = contents /\ status' = status /\ Stored' = Stored
    BY <1>7 DEF Crash, graphVars, Stored
  <2>2. \A p \in Process : pc'[p] # "mark"
    BY <1>7 DEF Crash
  <2>3. ~ interrupted /\ \A r \in Recomputation : pc[r] \in {"idle", "pending"}
    BY <1>7 DEF Crash
  <2>4. QED
    BY <2>1, <2>2, <2>3
<1>9. ASSUME NEW r \in Recomputation, Abandon(r) PROVE Untouched
  BY <1>0, <1>9 DEF Abandon, graphVars, Stored
<1>8. CASE UNCHANGED vars
  BY <1>0, <1>8 DEF vars, Stored
<1> HIDE DEF Untouched
<1>10. QED
  BY <1>1, <1>2, <1>3, <1>4, <1>5, <1>6, <1>7, <1>8, <1>9

\* What a recomputation writes is followed by what it replays: all that is
\* stored when it reads the changes.
LEMMA ReplayEdits ==
    ASSUME EditsInv, NEW r \in Recomputation, Rewrite(r) \/ Recompute(r) \/ ReadChanges(r),
           NEW e \in Element, IsApplied(e)'
    PROVE  Kept(e)' \/ \E q \in Recomputation : Coming(q, e)'
<1>0. /\ Places /\ pc \in [Process -> PC] /\ todo \in [Process -> SUBSET Change] /\ r \in Process
  BY DEF EditsInv, TypeInv, Places, Process
<1>1. CASE pc'[r] \in {"rewritten", "recomputed"}
  BY <1>1 DEF Coming
<1>2. CASE pc'[r] \notin {"rewritten", "recomputed"}
  <2>1. /\ todo'[r] = Stored /\ pc'[r] = (IF Stored = {} THEN "idle" ELSE "apply")
        /\ Stored' = Stored
    BY <1>0, <1>2 DEF Rewrite, Recompute, ReadChanges, Goes, Replayed, graphVars, Stored
  <2>2. Sound(e)' # {} /\ Sound(e)' \subseteq Stored
    BY <2>1 DEF IsApplied, Sound
  <2>3. pc'[r] = "apply" /\ ToApply(r)' = Stored
    BY <2>1, <2>2 DEF ToApply
  <2>4. QED
    BY <2>2, <2>3 DEF Coming, Applying
<1>3. QED
  BY <1>1, <1>2

\* Applying a change leaves its edit in the document, and the others as they
\* are; an error of a handler does one or the other.
LEMMA ApplyEdits ==
    ASSUME "replay_error" \notin FaultKinds, EditsInv, NEW p \in Process, Apply(p),
           ~ interrupted', NEW e \in Element, IsApplied(e)'
    PROVE  Kept(e)' \/ \E r \in Recomputation : Coming(r, e)'
<1>0. /\ Places /\ TypeInv /\ pc \in [Process -> PC] /\ status' = status /\ todo' = todo
      /\ ~ interrupted
      /\ Stored' = Stored /\ Sound(e)' = Sound(e) /\ pc[p] = "apply"
  BY DEF EditsInv, TypeInv, Places, Process, Apply, Stored, Sound
<1>1. /\ Current(p) \in Change /\ Current(p) \in Stored
      /\ \A q \in Process : Current(q)' = Current(q)
      /\ \A q \in Process \ {p} : pc'[q] = pc[q] /\ ToApply(q)' = ToApply(q)
      /\ ToApply(p) = todo[p] /\ ToApply(p)' = todo[p] \ {Current(p)}
      /\ pc'[p] \in Applying \ {"apply"}
  BY <1>0, ApplyingHasCurrent, ToApplyNext, CurrentUnchanged DEF Applying, ApplyChange
<1>2. CASE Current(p) \in Sound(e) /\ contents' = Edited(Current(p))
  <2>1. contents' \cap Field(e) = Left(Current(p))
    BY <1>1, <1>2, EditedFields DEF Sound
  <2>2. QED
    BY <1>0, <1>2, <2>1 DEF Kept
<1>3. CASE Current(p) \in Sound(e) /\ contents' # Edited(Current(p))
  <2>1. contents' = contents /\ pc'[p] = "mark_failed" /\ p \notin Recomputation
    BY <1>0, <1>3, ChangesAssumption DEF Apply, Sound, Fails, Inject, Process
  <2>2. IsApplied(e)
    BY <1>0, <1>1, <2>1 DEF IsApplied
  <2>3. \A r \in Recomputation : Coming(r, e) => Coming(r, e)'
    BY <1>0, <1>1, <2>1 DEF Coming, Process
  <2>4. Kept(e) => Kept(e)'
    BY <1>0, <2>1 DEF Kept
  <2>5. QED
    BY <1>0, <2>2, <2>3, <2>4 DEF EditsInv
<1>4. CASE Current(p) \notin Sound(e)
  <2>1. IsApplied(e)
    <3>1. PICK c \in Sound(e) : \/ status[c] = "applied"
                                \/ \E q \in Process : pc'[q] = "mark" /\ Current(q) = c
      BY <1>0, <1>1 DEF IsApplied
    <3>2. QED
      BY <1>1, <1>4, <3>1 DEF IsApplied
  <2>2. contents' \cap Field(e) = contents \cap Field(e)
    <3>1. CASE contents' = contents
      BY <3>1
    <3>2. CASE contents' # contents
      <4>1. Current(p) \notin Malformed \cup Poison /\ contents' = Edited(Current(p))
        BY <3>2 DEF Apply
      <4>2. ElementOf[Current(p)] \notin Field(e)
        BY <1>1, <1>4, <4>1 DEF Sound
      <4>3. QED
        BY <1>1, <4>1, <4>2, EditedFields
    <3>3. QED
      BY <3>1, <3>2
  <2>3. Kept(e) => Kept(e)'
    BY <1>0, <2>2 DEF Kept
  <2>4. ASSUME NEW r \in Recomputation, Coming(r, e) PROVE Coming(r, e)'
    <3>1. CASE r = p
      BY <1>0, <1>1, <1>4, <2>4, <3>1 DEF Coming
    <3>2. CASE r # p
      BY <1>0, <1>1, <2>4, <3>2 DEF Coming, Process
    <3>3. QED
      BY <3>1, <3>2
  <2>5. QED
    BY <1>0, <2>1, <2>3, <2>4 DEF EditsInv
<1>5. QED
  BY <1>2, <1>3, <1>4

\* Marking a change concerns the current one, which is stored already.
LEMMA MarkStatus ==
    ASSUME Places, status \in [Change -> Status], NEW p \in Process,
           MarkApplied(p) \/ MarkFailed(p)
    PROVE  /\ \A c \in Change : status'[c] = "applied" =>
                  status[c] = "applied" \/ (c = Current(p) /\ pc[p] = "mark")
           /\ Stored' = Stored
<1>0. Current(p) \in Change /\ Current(p) \in Stored
  BY ApplyingHasCurrent DEF MarkApplied, MarkFailed, Applying
<1>1. PICK s \in {"applied", "failed"} :
          /\ status' \in {status, [status EXCEPT ![Current(p)] = s]}
          /\ s = "applied" => pc[p] = "mark"
  BY DEF MarkApplied, MarkFailed
<1>2. \A c \in Change : \/ status'[c] = status[c]
                        \/ c = Current(p) /\ status'[c] = s /\ status[c] # "absent"
  BY <1>0, <1>1 DEF Stored
<1>3. \A c \in Change : status'[c] = "absent" <=> status[c] = "absent"
  BY <1>1, <1>2
<1>4. Stored' = Stored
  BY <1>3 DEF Stored
<1>5. ASSUME NEW c \in Change, status'[c] = "applied", status[c] # "applied"
      PROVE  c = Current(p) /\ pc[p] = "mark"
  <2>1. c = Current(p) /\ s = "applied"
    BY <1>2, <1>5
  <2>2. QED
    BY <1>1, <2>1
<1>6. QED
  BY <1>4, <1>5

\* Marking a change takes no edit away; a replay goes on with the next one.
LEMMA MarkEdits ==
    ASSUME "replay_error" \notin FaultKinds, EditsInv, NEW p \in Process,
           MarkApplied(p) \/ MarkFailed(p),
           ~ interrupted', NEW e \in Element, IsApplied(e)'
    PROVE  Kept(e)' \/ \E r \in Recomputation : Coming(r, e)'
<1>0. /\ Places /\ TypeInv /\ pc \in [Process -> PC] /\ contents' = contents
      /\ ~ interrupted
      /\ status \in [Change -> Status] /\ todo \in [Process -> SUBSET Change]
      /\ pc[p] \in Applying /\ ~ Apply(p) /\ ApplyChange(p) /\ Recomputation \subseteq Process
  BY DEF EditsInv, TypeInv, Places, MarkApplied, MarkFailed, Applying, Apply, ApplyChange, Process
<1>1. Current(p) \in Change /\ Current(p) \in Stored /\ Current(p) \in todo[p]
  BY <1>0, ApplyingHasCurrent
<1>2. /\ \A c \in Change : status'[c] = "applied" =>
             status[c] = "applied" \/ (c = Current(p) /\ pc[p] = "mark")
      /\ Stored' = Stored
  BY <1>0, MarkStatus
<1>3. Sound(e)' = Sound(e)
  BY <1>2 DEF Sound
<1>4. pc'[p] # "mark"
  BY <1>0 DEF MarkApplied, MarkFailed, Goes, Fails, ReturnsWith
<1>5. \A q \in Process \ {p} : /\ pc'[q] = pc[q] /\ ToApply(q)' = ToApply(q)
                               /\ Current(q)' = Current(q)
  BY <1>0, ToApplyNext, CurrentUnchanged
<1>6. IsApplied(e)
  <2>1. PICK c \in Sound(e) : \/ status'[c] = "applied"
                              \/ \E q \in Process : pc'[q] = "mark" /\ Current(q)' = c
    BY <1>3 DEF IsApplied
  <2>2. c \in Change
    BY <2>1 DEF Sound, Stored
  <2>3. QED
    BY <1>2, <1>4, <1>5, <2>1, <2>2 DEF IsApplied
<1>7. Kept(e) => Kept(e)'
  BY <1>0, <1>3 DEF Kept
<1>8. ASSUME NEW r \in Recomputation, Coming(r, e) PROVE Coming(r, e)'
  <2>1. CASE r # p
    BY <1>0, <1>3, <1>5, <1>8, <2>1 DEF Coming
  <2>2. CASE r = p
    <3>1. p \notin Handler
      BY <2>2, ChangesAssumption
    <3>2. todo' # todo
      <4>1. todo'[p] = todo[p] \ {Current(p)}
        BY <1>0, <3>1 DEF MarkApplied, MarkFailed, Fails, Inject, Rest
      <4>2. QED
        BY <1>1, <4>1
    <3>3. ToApply(p)' = ToApply(p) /\ pc'[p] = (IF ToApply(p) = {} THEN "idle" ELSE "apply")
      BY <1>0, <2>2, <3>2, ToApplyNext
    <3>4. QED
      BY <1>0, <1>3, <1>8, <2>2, <3>3 DEF Coming, Applying
  <2>3. QED
    BY <2>1, <2>2
<1>9. QED
  BY <1>0, <1>6, <1>7, <1>8 DEF EditsInv

\* Every step keeps the edits, if the replay meets no error.
LEMMA EditsStep ==
    ASSUME "replay_error" \notin FaultKinds, EditsInv, [Next]_vars
    PROVE  EditsInv'
<1>1. TypeInv'
  BY TypeStep DEF EditsInv
<1>2. SUFFICES ASSUME ~ interrupted', NEW e \in Element, IsApplied(e)'
               PROVE  Kept(e)' \/ \E r \in Recomputation : Coming(r, e)'
  BY <1>1 DEF EditsInv
<1>3. ASSUME NEW p \in Process, ApplyChange(p)
      PROVE  Kept(e)' \/ \E r \in Recomputation : Coming(r, e)'
  BY <1>2, <1>3, ApplyEdits, MarkEdits DEF ApplyChange
<1>4. CASE \E r \in Recomputation : Rewrite(r) \/ Recompute(r) \/ ReadChanges(r)
  BY <1>2, <1>4, ReplayEdits
<1>5. CASE \/ \E h \in Handler : \/ \E c \in Change : Receive(h, c)
                                 \/ Lookup(h) \/ Target(h) \/ Create(h) \/ Settle(h)
           \/ \E r \in Recomputation : Harvest(r) \/ Abandon(r)
           \/ ChannelLost \/ Crash \/ UNCHANGED vars
  BY <1>1, <1>2, <1>5, HandlerEdits
<1>6. QED
  BY <1>3, <1>4, <1>5 DEF Next, Handle, Replay, Process

\* Whatever the interleaving of handlers and recomputations, duplicate
\* deliveries, losses of the channel, errors and crashes, no edit is missing
\* unless a recomputation was given up after it wrote and none has read the
\* changes since; errors of the replay itself, which are swallowed, are excluded.
THEOREM RecomputationKeepsEdits ==
    ASSUME "replay_error" \notin FaultKinds
    PROVE  Spec => []EditsSurvive
<1>1. Init => EditsInv
  BY InitTypes DEF Init, EditsInv, IsApplied, Sound, Stored
<1>2. EditsInv /\ [Next]_vars => EditsInv'
  BY EditsStep
<1>3. EditsInv => EditsSurvive
  <2> SUFFICES ASSUME EditsInv, ~ interrupted, \A r \in Recomputation : pc[r] = "idle",
                      NEW e \in Element, NEW c \in Sound(e), status[c] = "applied"
               PROVE  \E d \in Sound(e) : contents \cap Field(e) = Left(d)
    BY DEF EditsSurvive
  <2>1. \A r \in Recomputation : ~ Coming(r, e)
    BY DEF Coming, Applying
  <2>2. QED
    BY <2>1 DEF EditsInv, IsApplied, Kept
<1>4. QED
  BY <1>1, <1>2, <1>3, PTL DEF Spec

---------------------------------------------------------------------------
(* The order of the replay. *)

\* An undisturbed recomputation makes the step, or nothing it relies on changes.
LEMMA OnlyItsOwnSteps ==
    ASSUME TypeInv, TypeInv', [Next]_vars, NEW r \in undisturbed'
    PROVE  \/ r \in undisturbed /\ UNCHANGED <<contents, status, pc[r], todo[r]>>
           \/ Harvest(r) \/ Replay(r)
<1>0. /\ r \in Recomputation /\ r \notin Handler /\ r \in Process
      /\ pc \in [Process -> PC] /\ todo \in [Process -> SUBSET Change]
  BY ChangesAssumption DEF TypeInv, Contained, Places, Process
<1> DEFINE Alone == r \in undisturbed /\ UNCHANGED <<contents, status, pc[r], todo[r]>>
<1>1. ASSUME NEW p \in Process, p # r, ApplyChange(p) PROVE Alone
  BY <1>0, <1>1 DEF ApplyChange, Apply, MarkApplied, MarkFailed, Goes, Fails, Writing, FailingToWrite
<1>2. ASSUME NEW h \in Handler, (\E c \in Change : Receive(h, c)) \/ Handle(h) PROVE Alone
  <2>1. h # r /\ h \in Process
    BY <1>0 DEF Process
  <2>2. CASE \E c \in Change : Receive(h, c)
    BY <1>0, <2>1, <2>2 DEF Receive, Goes, graphVars
  <2>3. CASE Lookup(h) \/ Target(h) \/ Settle(h)
    BY <1>0, <2>1, <2>3 DEF Lookup, Target, Settle, Goes, Fails, graphVars
  <2>4. ~ Create(h)
    BY <2>1 DEF Create, Writing, FailingToWrite
  <2>5. QED
    BY <1>1, <1>2, <2>1, <2>2, <2>3, <2>4 DEF Handle
<1>3. ASSUME NEW q \in Recomputation, q # r, Harvest(q) \/ Replay(q) PROVE Alone
  <2>1. q \in Process
    BY DEF Process
  <2>2. CASE Harvest(q) \/ ReadChanges(q)
    BY <1>0, <1>3, <2>1, <2>2
       DEF Harvest, ReadChanges, Goes, Fails, FailingToWrite, graphVars
  <2>3. ~ Rewrite(q) /\ ~ Recompute(q)
    BY <1>3 DEF Rewrite, Recompute, Writing, FailingToWrite
  <2>4. QED
    BY <1>1, <1>3, <2>1, <2>2, <2>3 DEF Replay
<1>4. CASE ChannelLost \/ UNCHANGED vars
  BY <1>4 DEF ChannelLost, graphVars, vars
<1>5. ~ Crash /\ ~ \E q \in Recomputation : Abandon(q)
  BY DEF Crash, Abandon, FailingToWrite
<1>6. QED
  <2> HIDE DEF Alone
  <2>1. CASE Alone
    BY <2>1 DEF Alone
  <2>2. QED
    BY <1>2, <1>3, <1>4, <1>5, <2>1 DEF Next

\* What is faithful stays so when nothing it relies on changes.
LEMMA FaithfulKept ==
    ASSUME NEW r, Faithful(r), contents' = contents, Stored' = Stored,
           ToApply(r)' = ToApply(r)
    PROVE  Faithful(r)'
<1>1. \A e : LastApplied(r, e)' = LastApplied(r, e)
  BY DEF LastApplied, Sound
<1>2. QED
  BY <1>1 DEF Faithful, InOrder

\* Having read the changes, it has all those that are stored to apply.
LEMMA ReadFaithful ==
    ASSUME TypeInv, NEW r \in undisturbed', r \in Recomputation, ReadChanges(r),
           pc'[r] \in Applying \cup {"idle"}
    PROVE  Faithful(r)'
<1>1. pc \in [Process -> PC] /\ todo \in [Process -> SUBSET Change] /\ r \in Process
  BY DEF TypeInv, Places, Process
<1>2. /\ todo'[r] = Stored /\ pc'[r] = (IF Stored = {} THEN "idle" ELSE "apply")
      /\ Stored' = Stored
  BY <1>1 DEF ReadChanges, Goes, FailingToWrite, Replayed, graphVars, Stored
<1>3. ToApply(r)' = Stored'
  BY <1>2 DEF ToApply
<1>4. \A e \in Element : LastApplied(r, e)' = {}
  BY <1>3 DEF LastApplied, Sound
<1>5. QED
  BY <1>3, <1>4 DEF Faithful, InOrder

\* Applying the first of the changes that are left makes it the last applied.
LEMMA ApplyFaithful ==
    ASSUME TypeInv, NEW r \in undisturbed', r \in Process, Apply(r), Faithful(r)
    PROVE  Faithful(r)'
<1> DEFINE c == Current(r)
<1>0. /\ Places /\ pc[r] = "apply" /\ Stored' = Stored /\ todo' = todo
      /\ Stored \subseteq Change /\ Change \subseteq Nat
  BY ChangesAssumption DEF TypeInv, Apply, Stored, Change
<1>1. /\ c \in todo[r] /\ c \in Change /\ todo[r] \subseteq Stored
      /\ \A d \in todo[r] : c <= d
      /\ ToApply(r) = todo[r] /\ ToApply(r)' = todo[r] \ {c}
  BY <1>0, ApplyingHasCurrent, ToApplyNext DEF Applying, ApplyChange
<1>2. /\ c \in Malformed \cup Poison => contents' = contents
      /\ c \notin Malformed \cup Poison => contents' = Edited(c)
  BY DEF Apply, FailingToWrite
<1> HIDE DEF c
<1>3. InOrder(r)
  BY DEF Faithful
<1>4. InOrder(r)'
  <2>1. SUFFICES ASSUME NEW b \in todo[r] \ {c}, NEW d \in Stored, b <= d
                 PROVE  d \in todo[r] \ {c}
    BY <1>0, <1>1 DEF InOrder
  <2>2. d \in todo[r]
    BY <1>1, <1>3, <2>1 DEF InOrder
  <2>3. b \in Nat /\ c \in Nat /\ c <= b
    BY <1>0, <1>1, <2>1
  <2>4. d # c
    BY <2>1, <2>3
  <2>5. QED
    BY <2>2, <2>4
<1>5. ASSUME NEW e \in Element, NEW last \in LastApplied(r, e)'
      PROVE  contents' \cap Field(e) = Left(last)
  <2>1. /\ last \in Sound(e) \ (todo[r] \ {c})
        /\ \A d \in Sound(e) \ (todo[r] \ {c}) : d <= last
    BY <1>0, <1>1, <1>5 DEF LastApplied, Sound
  <2>2. CASE c \in Sound(e)
    <3>1. c <= last /\ last \in Stored
      BY <2>1, <2>2 DEF Sound
    <3>2. last = c
      BY <1>1, <1>3, <2>1, <3>1 DEF InOrder
    <3>3. QED
      BY <1>1, <1>2, <2>2, <3>2, EditedFields DEF Sound
  <2>3. CASE c \notin Sound(e)
    <3>1. last \in LastApplied(r, e)
      BY <1>1, <2>1, <2>3 DEF LastApplied
    <3>2. contents' \cap Field(e) = contents \cap Field(e)
      BY <1>0, <1>1, <1>2, <2>3, EditedFields DEF Sound
    <3>3. QED
      BY <3>1, <3>2 DEF Faithful
  <2>4. QED
    BY <2>2, <2>3
<1>6. QED
  BY <1>4, <1>5 DEF Faithful

\* Marking a change takes it off the list it was already counted off.
LEMMA MarkFaithful ==
    ASSUME TypeInv, NEW r \in undisturbed', r \in Recomputation,
           MarkApplied(r) \/ MarkFailed(r), Faithful(r)
    PROVE  Faithful(r)'
<1>1. /\ Places /\ r \in Process /\ r \notin Handler /\ status \in [Change -> Status]
      /\ todo \in [Process -> SUBSET Change]
      /\ ApplyChange(r) /\ ~ Apply(r) /\ contents' = contents /\ pc[r] \in Applying
  BY ChangesAssumption
     DEF TypeInv, Places, Process, ApplyChange, Apply, MarkApplied, MarkFailed, Applying
<1>2. todo'[r] = todo[r] \ {Current(r)} /\ Current(r) \in todo[r]
  BY <1>1, ApplyingHasCurrent DEF MarkApplied, MarkFailed, FailingToWrite, Rest
<1>3. ToApply(r)' = ToApply(r) /\ Stored' = Stored
  BY <1>1, <1>2, ToApplyNext, MarkStatus
<1>4. QED
  BY <1>1, <1>3, FaithfulKept

\* Every step keeps the undisturbed recomputations faithful.
LEMMA FaithfulStep == FaithfulInv /\ [Next]_vars => FaithfulInv'
<1> SUFFICES ASSUME FaithfulInv, [Next]_vars PROVE FaithfulInv'
  OBVIOUS
<1>0. TypeInv /\ TypeInv'
  BY TypeStep DEF FaithfulInv
<1>1. SUFFICES ASSUME NEW r \in undisturbed', pc'[r] \in Applying \cup {"idle"}
               PROVE  Faithful(r)'
  BY <1>0 DEF FaithfulInv
<1>2. /\ r \in Recomputation /\ r \in Process
      /\ pc \in [Process -> PC] /\ todo \in [Process -> SUBSET Change]
  BY <1>0, <1>1 DEF TypeInv, Contained, Places, Process
<1>3. CASE r \in undisturbed /\ UNCHANGED <<contents, status, pc[r], todo[r]>>
  <2>1. Faithful(r)
    BY <1>1, <1>3 DEF FaithfulInv
  <2>2. Stored' = Stored
    BY <1>3 DEF Stored
  <2>3. QED
    BY <1>3, <2>1, <2>2, ToApplyUnchanged, FaithfulKept
<1>4. ~ Harvest(r) /\ ~ Rewrite(r) /\ ~ Recompute(r)
  BY <1>1, <1>2 DEF Harvest, Rewrite, Recompute, Goes, Fails, Applying
<1>5. CASE ReadChanges(r)
  BY <1>0, <1>1, <1>2, <1>5, ReadFaithful
<1>6. CASE ApplyChange(r)
  <2>1. r \in undisturbed /\ pc[r] \in Applying
    BY <1>1, <1>6 DEF ApplyChange, Apply, MarkApplied, MarkFailed, Writing, FailingToWrite, Applying
  <2>2. Faithful(r)
    BY <2>1 DEF FaithfulInv
  <2>3. QED
    BY <1>0, <1>1, <1>2, <1>6, <2>2, ApplyFaithful, MarkFaithful DEF ApplyChange
<1>7. QED
  BY <1>0, <1>1, <1>3, <1>4, <1>5, <1>6, OnlyItsOwnSteps DEF Replay

\* After a recomputation nothing interfered with, each edited element is as
\* the change with the last timestamp left it.
THEOREM ReplayFollowsTimestamps == Spec => []ReplayIsFaithful
<1>1. Init => FaithfulInv
  BY InitTypes DEF Init, FaithfulInv
<1>2. FaithfulInv /\ [Next]_vars => FaithfulInv'
  BY FaithfulStep
<1>3. FaithfulInv => ReplayIsFaithful
  <2> SUFFICES ASSUME FaithfulInv, NEW r \in undisturbed, pc[r] = "idle",
                      NEW e \in Element, NEW c \in Latest(e)
               PROVE  contents \cap Field(e) = Left(c)
    BY DEF ReplayIsFaithful
  <2>1. todo[r] = {} /\ Faithful(r)
    BY DEF FaithfulInv, TypeInv, Contained, Places, Resting, Process
  <2>2. c \in LastApplied(r, e)
    BY <2>1 DEF LastApplied, Latest, ToApply
  <2>3. QED
    BY <2>1, <2>2 DEF Faithful
<1>4. QED
  BY <1>1, <1>2, <1>3, PTL DEF Spec

=============================================================================
