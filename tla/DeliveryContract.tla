------------------------- MODULE DeliveryContract -------------------------
(***************************************************************************)
(* What the consumer of one topic promises to the broker and to the        *)
(* publishers of the topic, whatever happens inside the process: a message *)
(* is either queued at the broker, leased to the process, or settled; at   *)
(* most Prefetch are leased; only a leased message is settled, once and    *)
(* for ever; and a message is acknowledged only after one complete run of  *)
(* its processing.  Delivery is at least once: a lease can be given back   *)
(* any number of times and a message can be handled more than once.        *)
(***************************************************************************)
EXTENDS Naturals, FiniteSets

CONSTANTS
    Message,   \* the messages published on the topic
    Prefetch   \* how many may be leased at the same time

VARIABLES
    queued,    \* messages the broker may hand out
    leased,    \* messages handed out and not settled
    fate,      \* how each message was settled, "none" while it is not
    handled    \* messages whose processing ran to its end at least once

vars == <<queued, leased, fate, handled>>

Fate == {"none", "acked", "dead_lettered", "discarded"}

Init ==
    /\ queued = Message
    /\ leased = {}
    /\ fate = [m \in Message |-> "none"]
    /\ handled = {}

Lease(m) ==
    /\ m \in queued
    /\ Cardinality(leased) < Prefetch
    /\ queued' = queued \ {m}
    /\ leased' = leased \cup {m}
    /\ UNCHANGED <<fate, handled>>

Handle(m) ==
    /\ handled' = handled \cup {m}
    /\ UNCHANGED <<queued, leased, fate>>

(***************************************************************************)
(* Some leased messages are settled and some are given back, in one step.  *)
(***************************************************************************)
Return(acked, dropped, released, verdict) ==
    /\ acked \cup dropped \cup released \subseteq leased
    /\ acked \cap dropped = {}
    /\ released \cap (acked \cup dropped) = {}
    /\ acked \subseteq handled
    /\ verdict \in {"dead_lettered", "discarded"}
    /\ queued' = queued \cup released
    /\ leased' = leased \ (acked \cup dropped \cup released)
    /\ fate' = [m \in Message |-> CASE m \in acked   -> "acked"
                                    [] m \in dropped -> verdict
                                    [] OTHER         -> fate[m]]
    /\ UNCHANGED handled

Next ==
    \/ \E m \in Message : Lease(m) \/ Handle(m)
    \/ \E acked, dropped, released \in SUBSET leased,
          verdict \in {"dead_lettered", "discarded"} :
          Return(acked, dropped, released, verdict)

Spec == Init /\ [][Next]_vars
===========================================================================
