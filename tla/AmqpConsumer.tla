--------------------------- MODULE AmqpConsumer ---------------------------
(***************************************************************************)
(* The consumption of one topic by app/amqp: the broker's queue, the       *)
(* listener task that moves deliveries to an in-process asyncio.Queue      *)
(* (AMQPInterface.listen), the workers that take them from it and settle   *)
(* them (AMQPMessageProcessor.wait_for_message), and the process's life:   *)
(* start, crash, loss of the channel, graceful shutdown (stop_listening).  *)
(*                                                                         *)
(* Messages are numbered in publication order.  A delivery is "live" while *)
(* the channel that brought it is the one the process has now: a stale     *)
(* delivery is still processed, but its acknowledgement fails.             *)
(*                                                                         *)
(* asyncio runs the tasks of one loop in the order they became ready, so   *)
(* a task that was made ready before the listener suspends runs before the *)
(* listener's next turn: such a worker is "due".                           *)
(***************************************************************************)
EXTENDS Naturals, Sequences, FiniteSets

CONSTANTS
    MessageCount,      \* number of messages published on the topic
    Prefetch,          \* settings.amqp_prefetch_count
    Parallelism,       \* settings.amqp_task_parallelism_limit
    HasDLX,            \* whether the queue was declared with_dlq
    Poison,            \* messages whose processing always ends in DatabaseError
    FaultKinds,        \* the faults that may happen
    MaxWorkers,        \* bound: worker tasks of one process
    MaxFaults,         \* bound: faults of a behaviour
    MaxDatabaseErrors  \* bound: transient DatabaseErrors of a behaviour

Message == 1 .. MessageCount
Worker == 1 .. MaxWorkers

ASSUME ConsumerAssumption ==
    /\ MessageCount \in Nat
    /\ Prefetch \in Nat \ {0}
    /\ Parallelism \in Nat \ {0}
    /\ MaxWorkers \in Nat /\ Parallelism <= MaxWorkers
    /\ HasDLX \in BOOLEAN
    /\ Poison \subseteq Message
    /\ FaultKinds \subseteq {"listener", "channel", "crash", "shutdown"}
    /\ MaxFaults \in Nat
    /\ MaxDatabaseErrors \in Nat

VARIABLES
    ready,          \* broker: messages that wait to be delivered
    unacked,        \* broker: messages delivered on the channel, not settled
    fate,           \* broker: how each message left the queue
    handled,        \* messages whose processing succeeded at least once
    refused,        \* messages whose processing raised an error other than DatabaseError
    buffer,         \* deliveries in the iterator of the pika queue
    inner,          \* inner_tasks_queues[topic]
    pc,             \* where each worker task is
    task,           \* the delivery each worker holds
    listening,      \* whether the listener task is alive
    phase,          \* the life of the process
    faults,         \* faults so far
    databaseErrors  \* transient DatabaseErrors so far

brokerVars == <<ready, unacked, fate>>
historyVars == <<handled, refused>>
countVars == <<faults, databaseErrors>>
vars == <<ready, unacked, fate, handled, refused, buffer, inner, pc, task,
          listening, phase, faults, databaseErrors>>

Delivery == [msg : Message, live : BOOLEAN]
NoDelivery == [msg |-> 0, live |-> FALSE]
Holding == {"processing", "succeeded", "refused", "failed"}
PC == {"absent", "due", "waiting", "yielding"} \cup Holding
Phase == {"down", "up", "joining", "stopping"}

(***************************************************************************)
(* nack(requeue=False): the queue of the user actions has a dead-letter    *)
(* exchange, the other queues have none and the broker drops the message.  *)
(***************************************************************************)
Discarded == IF HasDLX THEN "dead_lettered" ELSE "discarded"

InState(states) == {w \in Worker : pc[w] \in states}
Live(d) == d.live
LiveMessages(s) == {s[i].msg : i \in {j \in DOMAIN s : Live(s[j])}}

Inject(kind) ==
    /\ kind \in FaultKinds
    /\ faults < MaxFaults
    /\ faults' = faults + 1
    /\ UNCHANGED databaseErrors

Init ==
    /\ ready = Message
    /\ unacked = {}
    /\ fate = [m \in Message |-> "none"]
    /\ handled = {} /\ refused = {}
    /\ buffer = <<>> /\ inner = <<>>
    /\ pc = [w \in Worker |-> "absent"]
    /\ task = [w \in Worker |-> NoDelivery]
    /\ listening = FALSE
    /\ phase = "down"
    /\ faults = 0 /\ databaseErrors = 0

---------------------------------------------------------------------------
(* The broker and the listener. *)

(***************************************************************************)
(* open_rabbitmq_connexion retries until the broker answers; connect then  *)
(* attaches the workers, and the listener task is created after them.      *)
(***************************************************************************)
Start ==
    /\ phase = "down"
    /\ phase' = "up"
    /\ listening' = TRUE
    /\ pc' = [w \in Worker |-> IF w <= Parallelism THEN "due" ELSE "absent"]
    /\ UNCHANGED <<brokerVars, historyVars, buffer, inner, task, countVars>>

(***************************************************************************)
(* The broker pushes messages in order, those that came back at their old  *)
(* place, as long as fewer than Prefetch are unacknowledged.               *)
(***************************************************************************)
Deliver(m) ==
    /\ phase # "down" /\ listening
    /\ m \in ready /\ \A other \in ready : m <= other
    /\ Cardinality(unacked) < Prefetch
    /\ ready' = ready \ {m}
    /\ unacked' = unacked \cup {m}
    /\ buffer' = Append(buffer, [msg |-> m, live |-> TRUE])
    /\ UNCHANGED <<fate, historyVars, inner, pc, task, listening, phase, countVars>>

(***************************************************************************)
(* One turn of the listener.  put() never waits (the inner queue holds     *)
(* 10000) and wakes one of the workers that wait in get(), if there is     *)
(* one.  A worker is attached when, before the put, the inner queue holds  *)
(* exactly two messages fewer than the prefetch count.  Those workers and  *)
(* the ones in sleep(0) run before the next turn.                          *)
(***************************************************************************)
AlmostFullOneEarlier == Len(inner) + 3 = Prefetch  \* mutant
AlmostFull == Len(inner) + 2 = Prefetch

Attached ==
    IF AlmostFull
    THEN {w \in InState({"absent"}) : \A v \in InState({"absent"}) : w <= v}
    ELSE {}

WakeNone == {{}}  \* mutant
Wakeable ==
    IF InState({"waiting"}) = {} THEN {{}} ELSE {{w} : w \in InState({"waiting"})}

Receive ==
    /\ phase # "down" /\ listening
    /\ buffer # <<>>
    /\ InState({"due"}) = {}
    /\ buffer' = Tail(buffer)
    /\ inner' = Append(inner, Head(buffer))
    /\ \E woken \in Wakeable :
          pc' = [w \in Worker |->
                    IF w \in woken \cup Attached \cup InState({"yielding"})
                    THEN "due" ELSE pc[w]]
    /\ UNCHANGED <<brokerVars, historyVars, task, listening, phase, countVars>>

---------------------------------------------------------------------------
(* The workers: AMQPMessageProcessor.wait_for_message. *)

(***************************************************************************)
(* get() takes the head of the inner queue, or waits when it is empty.     *)
(***************************************************************************)
Take(w) ==
    /\ pc[w] \in {"due", "yielding"}
    /\ inner # <<>>
    /\ task' = [task EXCEPT ![w] = Head(inner)]
    /\ inner' = Tail(inner)
    /\ pc' = [pc EXCEPT ![w] = "processing"]
    /\ UNCHANGED <<brokerVars, historyVars, buffer, listening, phase, countVars>>

Wait(w) ==
    /\ pc[w] \in {"due", "yielding"}
    /\ inner = <<>>
    /\ pc' = [pc EXCEPT ![w] = "waiting"]
    /\ UNCHANGED <<brokerVars, historyVars, buffer, inner, task, listening, phase, countVars>>

(***************************************************************************)
(* The three ways _process_message ends: it returns, it raises ValueError  *)
(* or an unexpected exception, or it raises DatabaseError.                 *)
(***************************************************************************)
Succeed(w) ==
    /\ pc[w] = "processing" /\ task[w].msg \notin Poison
    /\ handled' = handled \cup {task[w].msg}
    /\ pc' = [pc EXCEPT ![w] = "succeeded"]
    /\ UNCHANGED <<brokerVars, refused, buffer, inner, task, listening, phase, countVars>>

Refuse(w) ==
    /\ pc[w] = "processing" /\ task[w].msg \notin Poison
    /\ refused' = refused \cup {task[w].msg}
    /\ pc' = [pc EXCEPT ![w] = "refused"]
    /\ UNCHANGED <<brokerVars, handled, buffer, inner, task, listening, phase, countVars>>

DatabaseFailure(w) ==
    /\ pc[w] = "processing"
    /\ \/ task[w].msg \in Poison /\ UNCHANGED databaseErrors
       \/ /\ task[w].msg \notin Poison /\ databaseErrors < MaxDatabaseErrors
          /\ databaseErrors' = databaseErrors + 1
    /\ pc' = [pc EXCEPT ![w] = "failed"]
    /\ UNCHANGED <<brokerVars, historyVars, buffer, inner, task, listening, phase, faults>>

(***************************************************************************)
(* ack and nack reach the broker only for a live delivery: on a channel    *)
(* that was closed they raise, the outer handler logs it and the worker    *)
(* goes on.  task_done and sleep(0) follow in every case.                  *)
(***************************************************************************)
FinishedWithMessageKept(w) ==  \* mutant
    /\ pc' = [pc EXCEPT ![w] = "yielding"]
    /\ UNCHANGED task
FinishedForGood(w) ==  \* mutant
    /\ task' = [task EXCEPT ![w] = NoDelivery]
    /\ pc' = [pc EXCEPT ![w] = IF pc[w] = "refused" THEN "absent" ELSE "yielding"]
Finished(w) ==
    /\ task' = [task EXCEPT ![w] = NoDelivery]
    /\ pc' = [pc EXCEPT ![w] = "yielding"]

Settle(w, verdict) ==
    /\ IF Live(task[w])
       THEN /\ unacked' = unacked \ {task[w].msg}
            /\ fate' = [fate EXCEPT ![task[w].msg] = verdict]
            /\ ready' = IF verdict = "none" THEN ready \cup {task[w].msg} ELSE ready
       ELSE UNCHANGED brokerVars
    /\ Finished(w)
    /\ UNCHANGED <<historyVars, buffer, inner, listening, phase, countVars>>

AckOnArrival(w) ==  \* mutant
    /\ pc[w] = "processing"
    /\ Settle(w, "acked")
Ack(w) ==
    /\ pc[w] = "succeeded"
    /\ Settle(w, "acked")

RequeueNever(w) == FALSE  \* mutant
Requeue(w) == pc[w] = "failed"

Nack(w) ==
    /\ pc[w] \in {"refused", "failed"}
    /\ Settle(w, IF Requeue(w) THEN "none" ELSE Discarded)

---------------------------------------------------------------------------
(* Faults and the end of the process. *)

(***************************************************************************)
(* An exception in the listener ends it for the life of the process; the   *)
(* iterator, on its way out, gives back what it had buffered.              *)
(***************************************************************************)
ListenerFails ==
    /\ phase # "down" /\ listening
    /\ Inject("listener")
    /\ listening' = FALSE
    /\ ready' = ready \cup LiveMessages(buffer)
    /\ unacked' = unacked \ LiveMessages(buffer)
    /\ buffer' = <<>>
    /\ UNCHANGED <<fate, historyVars, inner, pc, task, phase>>

(***************************************************************************)
(* The channel is closed (network, consumer timeout): the broker takes all *)
(* unacknowledged messages back, connect_robust opens another channel, and *)
(* what the process holds is stale.                                        *)
(***************************************************************************)
StillLive(d) == d  \* mutant
Stale(d) == [msg |-> d.msg, live |-> FALSE]

ChannelLost ==
    /\ phase # "down"
    /\ Inject("channel")
    /\ ready' = ready \cup unacked
    /\ unacked' = {}
    /\ buffer' = [i \in DOMAIN buffer |-> Stale(buffer[i])]
    /\ inner' = [i \in DOMAIN inner |-> Stale(inner[i])]
    /\ task' = [w \in Worker |-> Stale(task[w])]
    /\ UNCHANGED <<fate, historyVars, pc, listening, phase>>

MemoryLost ==
    /\ buffer' = <<>> /\ inner' = <<>>
    /\ pc' = [w \in Worker |-> "absent"]
    /\ task' = [w \in Worker |-> NoDelivery]
    /\ listening' = FALSE
    /\ phase' = "down"

Crash ==
    /\ phase # "down"
    /\ Inject("crash")
    /\ MemoryLost
    /\ ready' = ready \cup unacked
    /\ unacked' = {}
    /\ UNCHANGED <<fate, historyVars>>

(***************************************************************************)
(* stop_listening joins the inner queues one after the other, each within  *)
(* a timeout, while the listener goes on.  The first timeout ends the      *)
(* joins, so they may end at any time.  Besides the injected shutdowns a   *)
(* process whose listener is dead is restarted, as loop-restart.sh does.   *)
(***************************************************************************)
BeginShutdown ==
    /\ phase = "up"
    /\ \/ Inject("shutdown")
       \/ ~listening /\ "shutdown" \in FaultKinds /\ UNCHANGED countVars
    /\ phase' = "joining"
    /\ UNCHANGED <<brokerVars, historyVars, buffer, inner, pc, task, listening>>

JoinWithoutTimeout ==  \* mutant
    /\ phase = "joining"
    /\ inner = <<>> /\ InState(Holding) = {}
    /\ phase' = "stopping"
    /\ UNCHANGED <<brokerVars, historyVars, buffer, inner, pc, task, listening, countVars>>
JoinEnds ==
    /\ phase = "joining"
    /\ phase' = "stopping"
    /\ UNCHANGED <<brokerVars, historyVars, buffer, inner, pc, task, listening, countVars>>

(***************************************************************************)
(* The workers are cancelled and the channel is closed at once.  A worker  *)
(* cancelled in its message goes through the inner finally with requeue    *)
(* still FALSE: its nack, or the ack it was sending, may or may not leave  *)
(* before the channel closes.  The broker takes the rest back.             *)
(***************************************************************************)
CancelAndClose ==
    /\ phase = "stopping"
    /\ \E nacked \in SUBSET {w \in InState(Holding) : Live(task[w])} :
       \E acking \in SUBSET (InState({"succeeded"}) \cap nacked) :
          LET acked == {task[w].msg : w \in acking}
              dropped == {task[w].msg : w \in nacked \ acking}
          IN  /\ fate' = [m \in Message |-> CASE m \in acked   -> "acked"
                                              [] m \in dropped -> Discarded
                                              [] OTHER         -> fate[m]]
              /\ ready' = ready \cup (unacked \ (acked \cup dropped))
    /\ unacked' = {}
    /\ MemoryLost
    /\ UNCHANGED <<historyVars, countVars>>

---------------------------------------------------------------------------
Work(w) ==
    \/ Take(w) \/ Wait(w)
    \/ Succeed(w) \/ Refuse(w) \/ DatabaseFailure(w)
    \/ Ack(w) \/ Nack(w)

Next ==
    \/ Start
    \/ \E m \in Message : Deliver(m)
    \/ Receive
    \/ \E w \in Worker : Work(w)
    \/ ListenerFails \/ ChannelLost \/ Crash
    \/ BeginShutdown \/ JoinEnds \/ CancelAndClose

Spec == Init /\ [][Next]_vars

(***************************************************************************)
(* Every task of the loop gets its turn, the broker goes on pushing while  *)
(* the prefetch window is open, a stopped process is started again, and a  *)
(* process without listener is stopped by the restart loop.                *)
(***************************************************************************)
Fairness ==
    /\ WF_vars(Start) /\ WF_vars(Receive)
    /\ \A m \in Message : SF_vars(Deliver(m))
    /\ \A w \in Worker : WF_vars(Work(w))
    /\ WF_vars(BeginShutdown /\ ~listening)
    /\ WF_vars(JoinEnds) /\ WF_vars(CancelAndClose)

FairSpec == Spec /\ Fairness

---------------------------------------------------------------------------
(* Properties. *)

(***************************************************************************)
(* Every variable has its type; a worker holds a delivery exactly while it *)
(* is between get() and task_done().                                       *)
(***************************************************************************)
TypeOK ==
    /\ ready \subseteq Message /\ unacked \subseteq Message
    /\ fate \in [Message -> {"none", "acked", Discarded}]
    /\ handled \subseteq Message /\ refused \subseteq Message
    /\ buffer \in Seq(Delivery) /\ inner \in Seq(Delivery)
    /\ pc \in [Worker -> PC]
    /\ task \in [Worker -> Delivery \cup {NoDelivery}]
    /\ \A w \in Worker : (task[w] # NoDelivery) <=> (pc[w] \in Holding)
    /\ listening \in BOOLEAN
    /\ phase \in Phase
    /\ faults \in Nat /\ databaseErrors \in Nat

(***************************************************************************)
(* The broker's view and the process's view agree: an unsettled message is *)
(* ready or unacknowledged, and the unacknowledged ones are those of the   *)
(* live deliveries, one for each, whatever was requeued, lost with a       *)
(* channel or redelivered.  A leak would use up a slot of the prefetch     *)
(* window for ever; a second copy would be acknowledged twice, which       *)
(* closes the channel.                                                     *)
(***************************************************************************)
Custody ==
    /\ ready \cap unacked = {}
    /\ ready \cup unacked = {m \in Message : fate[m] = "none"}
Held == {task[w].msg : w \in {v \in InState(Holding) : Live(task[v])}}
NoRepeat(s) ==
    \A i, j \in DOMAIN s : Live(s[i]) /\ Live(s[j]) /\ s[i].msg = s[j].msg => i = j
HeldOnce ==
    \A v, w \in InState(Holding) :
        Live(task[v]) /\ Live(task[w]) /\ task[v].msg = task[w].msg => v = w

OneLiveCopy ==
    /\ Custody
    /\ unacked = LiveMessages(buffer) \cup LiveMessages(inner) \cup Held
    /\ NoRepeat(buffer) /\ NoRepeat(inner) /\ HeldOnce
    /\ LiveMessages(buffer) \cap LiveMessages(inner) = {}
    /\ (LiveMessages(buffer) \cup LiveMessages(inner)) \cap Held = {}

(***************************************************************************)
(* A message leaves the queue without having been handled only because its *)
(* processing refused it.  This is what the requeue flags of the code mean *)
(* to ensure: a DatabaseError, a crash, a lost channel, a dead listener    *)
(* bring the message back.                                                 *)
(***************************************************************************)
NoUnrefusedLoss ==
    \A m \in Message : fate[m] \notin {"none", "acked"} => m \in refused

(***************************************************************************)
(* The consumer implements its contract: custody of each message, prefetch *)
(* window, settled once and for ever, acknowledged only after processing.  *)
(***************************************************************************)
Contract == INSTANCE DeliveryContract WITH queued <- ready, leased <- unacked
ImplementsContract == Contract!Spec

(***************************************************************************)
(* While a worker waits in get(), each delivery of the inner queue has a   *)
(* worker on its way: no wake-up is lost when a worker that comes out of   *)
(* its sleep(0) takes the delivery another one was woken for.              *)
(***************************************************************************)
NoLostWakeup ==
    InState({"waiting"}) # {} => Len(inner) <= Cardinality(InState({"due"}))

(***************************************************************************)
(* The pool never grows past three workers, or past the number it started  *)
(* with, for a prefetch count of three or more and as long as the channel  *)
(* holds: the attachment of workers, which nothing ever undoes, stays      *)
(* bounded because the prefetch window leaves at most one message to the   *)
(* workers when the inner queue is almost full.                            *)
(***************************************************************************)
PoolBound ==
    Cardinality(Worker \ InState({"absent"})) <= IF Parallelism > 3 THEN Parallelism ELSE 3

(***************************************************************************)
(* Every message that does not fail for ever leaves the queue, also when   *)
(* others fail and come back for ever, provided they do not fill the       *)
(* prefetch window.                                                        *)
(***************************************************************************)
HealthySettled == \A m \in Message \ Poison : <>(fate[m] # "none")

(***************************************************************************)
(* A shutdown ends even if the inner queue is never empty.                 *)
(***************************************************************************)
ShutdownCompletes == phase = "joining" ~> phase = "down"
===========================================================================
