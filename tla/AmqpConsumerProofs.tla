------------------------ MODULE AmqpConsumerProofs ------------------------
(***************************************************************************)
(* Proofs about the consumer of one topic, for every number of messages,   *)
(* prefetch count, number of workers and number of faults.                 *)
(***************************************************************************)
EXTENDS AmqpConsumer, SequenceTheorems, FiniteSetTheorems, TLAPS

USE DEF Live

---------------------------------------------------------------------------
(* Sequences of deliveries. *)

LiveOf(d) == IF Live(d) THEN {d.msg} ELSE {}

\* The live messages of a sequence after an append.
LEMMA AppendLive ==
    ASSUME NEW s \in Seq(Delivery), NEW d \in Delivery
    PROVE  /\ Append(s, d) \in Seq(Delivery)
           /\ LiveMessages(Append(s, d)) = LiveMessages(s) \cup LiveOf(d)
           /\ NoRepeat(s) /\ LiveOf(d) \cap LiveMessages(s) = {}
                 => NoRepeat(Append(s, d))
<1> DEFINE t == Append(s, d)
<1>1. /\ t \in Seq(Delivery)
      /\ Len(t) = Len(s) + 1
      /\ \A i \in 1 .. Len(s) : t[i] = s[i]
      /\ t[Len(s) + 1] = d
      /\ DOMAIN s = 1 .. Len(s) /\ DOMAIN t = 1 .. Len(s) + 1
      /\ Len(s) \in Nat
  BY AppendProperties, LenProperties
<1> HIDE DEF t
<1>2. LiveMessages(t) = LiveMessages(s) \cup LiveOf(d)
  <2>1. ASSUME NEW m \in LiveMessages(t)
        PROVE  m \in LiveMessages(s) \cup LiveOf(d)
    <3>1. PICK i \in DOMAIN t : t[i].live /\ m = t[i].msg
      BY DEF LiveMessages
    <3>2. CASE i = Len(s) + 1
      BY <1>1, <3>1, <3>2 DEF LiveOf
    <3>3. CASE i \in 1 .. Len(s)
      BY <1>1, <3>1, <3>3 DEF LiveMessages
    <3>4. QED
      BY <1>1, <3>2, <3>3
  <2>2. ASSUME NEW m \in LiveMessages(s) \cup LiveOf(d)
        PROVE  m \in LiveMessages(t)
    <3>1. CASE m \in LiveMessages(s)
      <4>1. PICK i \in DOMAIN s : s[i].live /\ m = s[i].msg
        BY <3>1 DEF LiveMessages
      <4>2. i \in DOMAIN t /\ t[i].live /\ m = t[i].msg
        BY <1>1, <4>1
      <4>3. QED
        BY <4>2 DEF LiveMessages
    <3>2. CASE m \in LiveOf(d)
      <4>1. Len(s) + 1 \in DOMAIN t /\ t[Len(s) + 1].live /\ m = t[Len(s) + 1].msg
        BY <1>1, <3>2 DEF LiveOf
      <4>2. QED
        BY <4>1 DEF LiveMessages
    <3>3. QED
      BY <2>2, <3>1, <3>2
  <2>3. QED
    BY <2>1, <2>2
<1>3. ASSUME NoRepeat(s), LiveOf(d) \cap LiveMessages(s) = {}
      PROVE  NoRepeat(t)
  <2> SUFFICES ASSUME NEW i \in DOMAIN t, NEW j \in DOMAIN t,
                      t[i].live, t[j].live, t[i].msg = t[j].msg
               PROVE  i = j
    BY DEF NoRepeat
  <2>1. \A k \in 1 .. Len(s) : s[k].live => s[k].msg \in LiveMessages(s)
    BY <1>1 DEF LiveMessages
  <2>2. CASE i \in 1 .. Len(s) /\ j \in 1 .. Len(s)
    BY <1>1, <1>3, <2>2 DEF NoRepeat
  <2>3. CASE i = Len(s) + 1 /\ j \in 1 .. Len(s)
    BY <1>1, <1>3, <2>1, <2>3 DEF LiveOf
  <2>4. CASE j = Len(s) + 1 /\ i \in 1 .. Len(s)
    BY <1>1, <1>3, <2>1, <2>4 DEF LiveOf
  <2>5. QED
    BY <1>1, <2>2, <2>3, <2>4
<1>4. QED
  BY <1>1, <1>2, <1>3 DEF t

\* The live messages of a sequence when its head is removed.
LEMMA TailLive ==
    ASSUME NEW s \in Seq(Delivery), s # <<>>
    PROVE  /\ Head(s) \in Delivery
           /\ Tail(s) \in Seq(Delivery)
           /\ LiveMessages(s) = LiveMessages(Tail(s)) \cup LiveOf(Head(s))
           /\ NoRepeat(s) => /\ NoRepeat(Tail(s))
                             /\ LiveMessages(Tail(s)) \cap LiveOf(Head(s)) = {}
<1> DEFINE t == Tail(s)
<1>1. /\ t \in Seq(Delivery)
      /\ Head(s) = s[1] /\ s[1] \in Delivery
      /\ Len(s) \in Nat \ {0}
      /\ DOMAIN s = 1 .. Len(s) /\ DOMAIN t = 1 .. Len(s) - 1
      /\ \A i \in 1 .. Len(s) - 1 : t[i] = s[i + 1]
  <2>1. Len(s) \in Nat \ {0}
    BY EmptySeq
  <2>2. /\ t \in Seq(Delivery) /\ Len(t) = Len(s) - 1
        /\ \A i \in 1 .. Len(t) : t[i] = s[i + 1]
    BY HeadTailProperties
  <2>3. DOMAIN s = 1 .. Len(s) /\ DOMAIN t = 1 .. Len(t)
    BY <2>2, LenProperties
  <2>4. s[1] \in Delivery
    BY <2>1, ElementOfSeq
  <2>5. Head(s) = s[1]
    BY <2>1
  <2>6. QED
    BY <2>1, <2>2, <2>3, <2>4, <2>5
<1> HIDE DEF t
<1>2. LiveMessages(s) = LiveMessages(t) \cup LiveOf(s[1])
  <2>1. ASSUME NEW m \in LiveMessages(s)
        PROVE  m \in LiveMessages(t) \cup LiveOf(s[1])
    <3>1. PICK i \in DOMAIN s : s[i].live /\ m = s[i].msg
      BY DEF LiveMessages
    <3>2. CASE i = 1
      BY <3>1, <3>2 DEF LiveOf
    <3>3. CASE i # 1
      <4>1. i - 1 \in DOMAIN t /\ t[i - 1] = s[i]
        BY <1>1, <3>3
      <4>2. QED
        BY <3>1, <4>1 DEF LiveMessages
    <3>4. QED
      BY <3>2, <3>3
  <2>2. ASSUME NEW m \in LiveMessages(t)
        PROVE  m \in LiveMessages(s)
    <3>1. PICK i \in DOMAIN t : t[i].live /\ m = t[i].msg
      BY DEF LiveMessages
    <3>2. i + 1 \in DOMAIN s /\ s[i + 1] = t[i]
      BY <1>1
    <3>3. QED
      BY <3>1, <3>2 DEF LiveMessages
  <2>3. LiveOf(s[1]) \subseteq LiveMessages(s)
    BY <1>1 DEF LiveOf, LiveMessages
  <2>4. QED
    BY <2>1, <2>2, <2>3
<1>3. ASSUME NoRepeat(s)
      PROVE  NoRepeat(t)
  <2> SUFFICES ASSUME NEW i \in DOMAIN t, NEW j \in DOMAIN t,
                      t[i].live, t[j].live, t[i].msg = t[j].msg
               PROVE  i = j
    BY DEF NoRepeat
  <2>1. /\ i + 1 \in DOMAIN s /\ j + 1 \in DOMAIN s
        /\ s[i + 1] = t[i] /\ s[j + 1] = t[j]
    BY <1>1
  <2>2. i + 1 = j + 1
    BY <1>3, <2>1 DEF NoRepeat
  <2>3. QED
    BY <1>1, <2>2
<1>4. ASSUME NoRepeat(s), NEW m \in LiveMessages(t), m \in LiveOf(s[1])
      PROVE  FALSE
  <2>1. PICK i \in DOMAIN t : t[i].live /\ m = t[i].msg
    BY DEF LiveMessages
  <2>2. /\ i + 1 \in DOMAIN s /\ s[i + 1] = t[i] /\ i + 1 # 1
        /\ 1 \in DOMAIN s /\ s[1].live /\ m = s[1].msg
    BY <1>1, <1>4 DEF LiveOf
  <2>3. QED
    BY <1>4, <2>1, <2>2 DEF NoRepeat
<1>5. QED
  BY <1>1, <1>2, <1>3, <1>4 DEF t

\* A sequence whose deliveries are all stale.
LEMMA StaleSequence ==
    ASSUME NEW s \in Seq(Delivery)
    PROVE  LET t == [i \in DOMAIN s |-> Stale(s[i])]
           IN  t \in Seq(Delivery) /\ LiveMessages(t) = {} /\ NoRepeat(t)
<1> DEFINE t == [i \in DOMAIN s |-> Stale(s[i])]
<1>1. /\ DOMAIN s = 1 .. Len(s) /\ Len(s) \in Nat
      /\ \A i \in DOMAIN s : s[i] \in Delivery
  BY LenProperties, ElementOfSeq
<1>2. \A i \in DOMAIN s : t[i] \in Delivery /\ ~t[i].live
  BY <1>1 DEF Stale, Delivery
<1>3. t \in Seq(Delivery)
  BY <1>1, <1>2
<1>4. LiveMessages(t) = {} /\ NoRepeat(t)
  BY <1>2 DEF LiveMessages, NoRepeat
<1>5. QED
  BY <1>3, <1>4

\* An empty sequence holds nothing.
LEMMA EmptySequence ==
    << >> \in Seq(Delivery) /\ LiveMessages(<< >>) = {} /\ NoRepeat(<< >>)
  BY DEF LiveMessages, NoRepeat

\* What a sequence of deliveries holds are messages.
LEMMA LiveAreMessages ==
    ASSUME NEW s \in Seq(Delivery)
    PROVE  LiveMessages(s) \subseteq Message
<1>1. DOMAIN s = 1 .. Len(s) /\ \A i \in 1 .. Len(s) : s[i] \in Delivery
  BY LenProperties, ElementOfSeq
<1>2. QED
  BY <1>1 DEF LiveMessages, Delivery

---------------------------------------------------------------------------
(* Types. *)

\* A process that is down holds nothing.
DownIsEmpty ==
    phase = "down" => /\ buffer = <<>> /\ inner = <<>>
                      /\ ~listening
                      /\ pc = [w \in Worker |-> "absent"]
                      /\ task = [w \in Worker |-> NoDelivery]

TypeInv == TypeOK /\ DownIsEmpty

\* Memory that is lost has the type of memory.
LEMMA MemoryLostType ==
    ASSUME MemoryLost
    PROVE  /\ buffer' \in Seq(Delivery) /\ inner' \in Seq(Delivery)
           /\ pc' \in [Worker -> PC]
           /\ task' \in [Worker -> Delivery \cup {NoDelivery}]
           /\ \A w \in Worker : (task[w] # NoDelivery)' <=> (pc[w] \in Holding)'
           /\ listening' \in BOOLEAN /\ phase' \in Phase
           /\ DownIsEmpty'
  BY EmptySequence DEF MemoryLost, PC, Holding, Phase, DownIsEmpty

\* Each step of a worker preserves the types.
LEMMA WorkType ==
    ASSUME TypeInv, NEW w \in Worker, Work(w)
    PROVE  TypeInv'
<1> USE DEF TypeInv, TypeOK, PC, Holding
<1>1. phase # "down"
  BY DEF DownIsEmpty, Work, Take, Wait, Succeed, Refuse, DatabaseFailure, Ack, Nack
<1>2. DownIsEmpty'
  BY <1>1 DEF DownIsEmpty, Work, Take, Wait, Succeed, Refuse, DatabaseFailure, Ack, Nack, Settle
<1>3. task[w] # NoDelivery => task[w] \in Delivery /\ task[w].msg \in Message
  BY DEF Delivery
<1>4. \A d \in Delivery : d # NoDelivery
  BY DEF Delivery, NoDelivery, Message
<1>5. CASE Take(w)
  <2>1. Head(inner) \in Delivery /\ Tail(inner) \in Seq(Delivery)
    BY <1>5, TailLive DEF Take
  <2>2. QED
    BY <1>2, <1>4, <1>5, <2>1 DEF Take, brokerVars, historyVars, countVars
<1>6. CASE Wait(w)
  BY <1>2, <1>6 DEF Wait, brokerVars, historyVars, countVars
<1>7. CASE Succeed(w)
  BY <1>2, <1>3, <1>7 DEF Succeed, brokerVars, countVars
<1>8. CASE Refuse(w)
  BY <1>2, <1>3, <1>8 DEF Refuse, brokerVars, countVars
<1>9. CASE DatabaseFailure(w)
  BY <1>2, <1>9 DEF DatabaseFailure, brokerVars, historyVars
<1>10. ASSUME NEW verdict \in {"none", "acked", Discarded}, Settle(w, verdict), pc[w] \in Holding
       PROVE  TypeInv'
  <2>1. /\ ready' \subseteq Message /\ unacked' \subseteq Message
        /\ fate' \in [Message -> {"none", "acked", Discarded}]
    BY <1>3, <1>10 DEF Settle, brokerVars
  <2>2. /\ pc' \in [Worker -> PC]
        /\ task' \in [Worker -> Delivery \cup {NoDelivery}]
        /\ \A v \in Worker : (task[v] # NoDelivery)' <=> (pc[v] \in Holding)'
    BY <1>10 DEF Settle, Finished
  <2>3. QED
    BY <1>2, <1>10, <2>1, <2>2 DEF Settle, historyVars, countVars
<1>11. CASE Ack(w)
  BY <1>10, <1>11 DEF Ack
<1>12. CASE Nack(w)
  BY <1>10, <1>12 DEF Nack
<1>13. QED
  BY <1>5, <1>6, <1>7, <1>8, <1>9, <1>11, <1>12 DEF Work

\* Every other step does too.
LEMMA TypeStep ==
    ASSUME TypeInv, [Next]_vars
    PROVE  TypeInv'
<1> USE DEF TypeInv, TypeOK, PC, Holding, Phase
<1>1. CASE Start
  BY <1>1 DEF Start, DownIsEmpty, brokerVars, historyVars, countVars
<1>2. ASSUME NEW m \in Message, Deliver(m)
      PROVE  TypeInv'
  <2>1. [msg |-> m, live |-> TRUE] \in Delivery
    BY DEF Delivery
  <2>2. buffer' \in Seq(Delivery)
    BY <1>2, <2>1, AppendLive DEF Deliver
  <2>3. QED
    BY <1>2, <2>2 DEF Deliver, DownIsEmpty, historyVars, countVars
<1>3. CASE Receive
  <2>1. Head(buffer) \in Delivery /\ buffer' \in Seq(Delivery)
    BY <1>3, TailLive DEF Receive
  <2>2. inner' \in Seq(Delivery)
    BY <1>3, <2>1, AppendLive DEF Receive
  <2>3. PICK woken \in Wakeable :
            pc' = [w \in Worker |-> IF w \in woken \cup Attached \cup InState({"yielding"})
                                    THEN "due" ELSE pc[w]]
    BY <1>3 DEF Receive
  <2>4. \A w \in woken \cup Attached \cup InState({"yielding"}) : pc[w] \notin Holding
    BY <2>3 DEF Wakeable, Attached, InState
  <2>5. /\ pc' \in [Worker -> PC]
        /\ \A w \in Worker : pc'[w] \in Holding <=> pc[w] \in Holding
    BY <2>3, <2>4
  <2>6. QED
    BY <1>3, <2>1, <2>2, <2>5 DEF Receive, DownIsEmpty, brokerVars, historyVars, countVars
<1>4. ASSUME NEW w \in Worker, Work(w)
      PROVE  TypeInv'
  BY <1>4, WorkType
<1>5. CASE ListenerFails
  <2>1. LiveMessages(buffer) \subseteq Message
    BY LiveAreMessages
  <2>2. buffer' \in Seq(Delivery)
    BY <1>5, EmptySequence DEF ListenerFails
  <2>3. ready' \subseteq Message /\ unacked' \subseteq Message
    BY <1>5, <2>1 DEF ListenerFails
  <2>4. DownIsEmpty'
    BY <1>5 DEF ListenerFails, DownIsEmpty
  <2>5. /\ UNCHANGED <<fate, handled, refused, inner, pc, task, phase, databaseErrors>>
        /\ listening' \in BOOLEAN /\ faults' = faults + 1
    BY <1>5 DEF ListenerFails, Inject, historyVars
  <2>6. QED
    BY <2>2, <2>3, <2>4, <2>5
<1>6. CASE ChannelLost
  <2>1. buffer' \in Seq(Delivery) /\ inner' \in Seq(Delivery)
    BY <1>6, StaleSequence DEF ChannelLost
  <2>2. \A d \in Delivery : Stale(d) \in Delivery /\ d # NoDelivery
    BY DEF Stale, Delivery, NoDelivery, Message
  <2>3. Stale(NoDelivery) = NoDelivery
    BY DEF Stale, NoDelivery
  <2>4. /\ task' \in [Worker -> Delivery \cup {NoDelivery}]
        /\ \A w \in Worker : task'[w] # NoDelivery <=> task[w] # NoDelivery
    BY <1>6, <2>2, <2>3 DEF ChannelLost
  <2>5. QED
    BY <1>6, <2>1, <2>4 DEF ChannelLost, Inject, DownIsEmpty, historyVars
<1>7. CASE Crash
  BY <1>7, MemoryLostType DEF Crash, Inject, historyVars
<1>8. CASE BeginShutdown
  BY <1>8 DEF BeginShutdown, Inject, DownIsEmpty, brokerVars, historyVars, countVars
<1>9. CASE JoinEnds
  BY <1>9 DEF JoinEnds, DownIsEmpty, brokerVars, historyVars, countVars
<1>10. CASE CancelAndClose
  <2>1. ready' \subseteq Message /\ unacked' \subseteq Message
    BY <1>10 DEF CancelAndClose
  <2>2. fate' \in [Message -> {"none", "acked", Discarded}]
    BY <1>10 DEF CancelAndClose
  <2>3. QED
    BY <1>10, <2>1, <2>2, MemoryLostType DEF CancelAndClose, historyVars, countVars
<1>11. CASE UNCHANGED vars
  BY <1>11 DEF vars, DownIsEmpty
<1>12. QED
  BY <1>1, <1>2, <1>3, <1>4, <1>5, <1>6, <1>7, <1>8, <1>9, <1>10, <1>11 DEF Next

\* The initial state has the types, and holds nothing.
LEMMA InitType == Init => TypeInv
<1>1. Init => /\ buffer \in Seq(Delivery) /\ inner \in Seq(Delivery)
              /\ listening \in BOOLEAN
  BY EmptySequence DEF Init
<1>2. Init => DownIsEmpty
  BY DEF Init, DownIsEmpty
<1>3. Init => TypeOK
  BY <1>1 DEF Init, TypeOK, PC, Holding, Phase
<1>4. QED
  BY <1>2, <1>3 DEF TypeInv

\* The variables of the consumer keep their types, whatever the number of
\* messages, workers and faults, and a process that is down holds nothing.
THEOREM TypeCorrect == Spec => []TypeOK
<1>1. Init => TypeInv
  BY InitType
<1>2. TypeInv /\ [Next]_vars => TypeInv'
  BY TypeStep
<1>3. TypeInv => TypeOK
  BY DEF TypeInv
<1>4. QED
  BY <1>1, <1>2, <1>3, PTL DEF Spec

---------------------------------------------------------------------------
(* One live copy of each unacknowledged message. *)

\* The live deliveries of the workers do not change when no worker takes or
\* finishes a delivery.
LEMMA HeldUnchanged ==
    ASSUME UNCHANGED task,
           \A w \in Worker : pc'[w] \in Holding <=> pc[w] \in Holding
    PROVE  Held' = Held /\ (HeldOnce => HeldOnce')
<1>1. InState(Holding)' = InState(Holding)
  BY DEF InState
<1>2. QED
  BY <1>1 DEF Held, HeldOnce

\* Nor do they exist when every worker's delivery is stale or none works.
LEMMA HeldNothing ==
    ASSUME \A w \in Worker : pc'[w] \notin Holding \/ ~task'[w].live
    PROVE  Held' = {} /\ HeldOnce'
  BY DEF Held, HeldOnce, InState

\* A worker that takes a delivery adds what the delivery holds.
LEMMA HeldTaken ==
    ASSUME TypeInv, HeldOnce, NEW w \in Worker, NEW d \in Delivery,
           pc[w] \notin Holding,
           pc' = [pc EXCEPT ![w] = "processing"],
           task' = [task EXCEPT ![w] = d],
           LiveOf(d) \cap Held = {}
    PROVE  Held' = Held \cup LiveOf(d) /\ HeldOnce'
<1>1. InState(Holding)' = InState(Holding) \cup {w} /\ w \notin InState(Holding)
  BY DEF InState, Holding, TypeInv, TypeOK
<1>2. task'[w] = d /\ \A v \in InState(Holding) : v # w /\ task'[v] = task[v]
  BY <1>1 DEF InState, TypeInv, TypeOK
<1>3. Held' = Held \cup LiveOf(d)
  <2>1. ASSUME NEW m \in Held'
        PROVE  m \in Held \cup LiveOf(d)
    <3>1. PICK v \in InState(Holding)' : task'[v].live /\ m = task'[v].msg
      BY <2>1 DEF Held
    <3>2. CASE v = w
      BY <1>2, <3>1, <3>2 DEF LiveOf
    <3>3. CASE v # w
      BY <1>1, <1>2, <3>1, <3>3 DEF Held
    <3>4. QED
      BY <3>2, <3>3
  <2>2. ASSUME NEW m \in Held
        PROVE  m \in Held'
    BY <1>1, <1>2, <2>2 DEF Held
  <2>3. LiveOf(d) \subseteq Held'
    BY <1>1, <1>2 DEF Held, LiveOf
  <2>4. QED
    BY <2>1, <2>2, <2>3
<1>4. HeldOnce'
  <2> SUFFICES ASSUME NEW u \in InState(Holding)', NEW v \in InState(Holding)',
                      task'[u].live, task'[v].live, task'[u].msg = task'[v].msg
               PROVE  u = v
    BY DEF HeldOnce
  <2>1. \A x \in InState(Holding) : task[x].live => task[x].msg \in Held
    BY DEF Held
  <2>2. CASE u # w /\ v # w
    BY <1>1, <1>2, <2>2 DEF HeldOnce
  <2>3. CASE u = w /\ v # w
    BY <1>1, <1>2, <2>1, <2>3 DEF LiveOf
  <2>4. CASE u # w /\ v = w
    BY <1>1, <1>2, <2>1, <2>4 DEF LiveOf
  <2>5. QED
    BY <2>2, <2>3, <2>4
<1>5. QED
  BY <1>3, <1>4

\* A worker that finishes takes away what its delivery held, and only that.
LEMMA HeldFinished ==
    ASSUME TypeInv, HeldOnce, NEW w \in Worker, pc[w] \in Holding, Finished(w)
    PROVE  Held' = Held \ LiveOf(task[w]) /\ HeldOnce' /\ LiveOf(task[w]) \subseteq Held
<1>1. InState(Holding)' = InState(Holding) \ {w} /\ w \in InState(Holding)
  BY DEF InState, Holding, TypeInv, TypeOK, Finished
<1>2. \A v \in InState(Holding) \ {w} : task'[v] = task[v]
  BY DEF InState, TypeInv, TypeOK, Finished
<1>3. LiveOf(task[w]) \subseteq Held
  BY <1>1 DEF Held, LiveOf
<1>4. HeldOnce'
  BY <1>1, <1>2 DEF HeldOnce
<1>5. ASSUME NEW m \in Held'
      PROVE  m \in Held \ LiveOf(task[w])
  <2>1. PICK v \in InState(Holding)' : task'[v].live /\ m = task'[v].msg
    BY <1>5 DEF Held
  <2>2. v # w /\ v \in InState(Holding) /\ task[v].live /\ m = task[v].msg
    BY <1>1, <1>2, <2>1
  <2>3. m \notin LiveOf(task[w])
    BY <1>1, <2>2 DEF HeldOnce, LiveOf
  <2>4. QED
    BY <2>2, <2>3 DEF Held
<1>6. ASSUME NEW m \in Held, m \notin LiveOf(task[w])
      PROVE  m \in Held'
  <2>1. PICK v \in InState(Holding) : task[v].live /\ m = task[v].msg
    BY <1>6 DEF Held
  <2>2. v # w
    BY <1>6, <2>1 DEF LiveOf
  <2>3. QED
    BY <1>1, <1>2, <2>1, <2>2 DEF Held
<1>7. QED
  BY <1>3, <1>4, <1>5, <1>6

CopyInv == TypeInv /\ OneLiveCopy

\* Each step of a worker keeps one live copy of each unacknowledged message.
LEMMA WorkCopies ==
    ASSUME CopyInv, NEW w \in Worker, Work(w)
    PROVE  OneLiveCopy'
<1> USE DEF CopyInv, OneLiveCopy
<1>1. CASE Take(w)
  <2> DEFINE d == Head(inner)
  <2>1. /\ d \in Delivery /\ inner' = Tail(inner) /\ NoRepeat(inner')
        /\ LiveMessages(inner) = LiveMessages(inner') \cup LiveOf(d)
        /\ LiveMessages(inner') \cap LiveOf(d) = {}
    BY <1>1, TailLive DEF Take, TypeInv, TypeOK
  <2>2. pc[w] \notin Holding
    BY <1>1 DEF Take, Holding
  <2>3. /\ pc' = [pc EXCEPT ![w] = "processing"] /\ task' = [task EXCEPT ![w] = d]
        /\ UNCHANGED <<ready, unacked, fate, buffer>>
    BY <1>1 DEF Take, brokerVars
  <2> HIDE DEF d
  <2>4. LiveOf(d) \cap Held = {}
    BY <2>1
  <2>5. Held' = Held \cup LiveOf(d) /\ HeldOnce'
    BY <2>1, <2>2, <2>3, <2>4, HeldTaken
  <2>6. Custody' /\ LiveMessages(buffer)' = LiveMessages(buffer) /\ NoRepeat(buffer)'
    BY <2>3 DEF Custody, LiveMessages, NoRepeat
  <2>7. QED
    BY <2>1, <2>3, <2>5, <2>6
<1>2. ASSUME UNCHANGED <<ready, unacked, fate, buffer, inner, task>>,
             pc[w] \in Holding <=> pc'[w] \in Holding,
             \E state : pc' = [pc EXCEPT ![w] = state]
      PROVE  OneLiveCopy'
  <2>1. Held' = Held /\ HeldOnce'
    BY <1>2, HeldUnchanged DEF TypeInv, TypeOK
  <2>2. QED
    BY <1>2, <2>1 DEF Custody, LiveMessages, NoRepeat
<1>3. CASE Wait(w)
  BY <1>2, <1>3 DEF Wait, brokerVars, Holding, TypeInv, TypeOK
<1>4. CASE Succeed(w)
  BY <1>2, <1>4 DEF Succeed, brokerVars, Holding, TypeInv, TypeOK
<1>5. CASE Refuse(w)
  BY <1>2, <1>5 DEF Refuse, brokerVars, Holding, TypeInv, TypeOK
<1>6. CASE DatabaseFailure(w)
  BY <1>2, <1>6 DEF DatabaseFailure, brokerVars, Holding, TypeInv, TypeOK
<1>7. ASSUME NEW verdict, pc[w] \in Holding, Settle(w, verdict)
      PROVE  OneLiveCopy'
  <2>1. /\ Held' = Held \ LiveOf(task[w]) /\ HeldOnce'
        /\ LiveOf(task[w]) \subseteq Held
    BY <1>7, HeldFinished DEF Settle
  <2>2. /\ UNCHANGED <<buffer, inner>>
        /\ LiveMessages(buffer)' = LiveMessages(buffer) /\ NoRepeat(buffer)'
        /\ LiveMessages(inner)' = LiveMessages(inner) /\ NoRepeat(inner)'
    BY <1>7 DEF Settle, LiveMessages, NoRepeat
  <2>3. unacked' = unacked \ LiveOf(task[w])
    BY <1>7 DEF Settle, LiveOf, brokerVars
  <2>4. Custody'
    <3>1. CASE ~task[w].live
      BY <1>7, <3>1 DEF Settle, brokerVars, Custody
    <3>2. CASE task[w].live
      <4>1. task[w].msg \in unacked
        BY <2>1, <3>2 DEF LiveOf
      <4>2. QED
        BY <1>7, <3>2, <4>1 DEF Settle, Custody, TypeInv, TypeOK
    <3>3. QED
      BY <3>1, <3>2
  <2>5. QED
    BY <2>1, <2>2, <2>3, <2>4
<1>8. CASE Ack(w)
  BY <1>7, <1>8 DEF Ack, Holding
<1>9. CASE Nack(w)
  BY <1>7, <1>9 DEF Nack, Holding
<1>10. QED
  BY <1>1, <1>3, <1>4, <1>5, <1>6, <1>8, <1>9 DEF Work

\* Every other step does too.
LEMMA CopyStep ==
    ASSUME CopyInv, [Next]_vars
    PROVE  OneLiveCopy'
<1> USE DEF CopyInv, OneLiveCopy
<1>1. ASSUME UNCHANGED <<ready, unacked, fate, buffer, inner, task>>,
             \A w \in Worker : pc'[w] \in Holding <=> pc[w] \in Holding
      PROVE  OneLiveCopy'
  <2>1. Held' = Held /\ HeldOnce'
    BY <1>1, HeldUnchanged
  <2>2. QED
    BY <1>1, <2>1 DEF Custody, LiveMessages, NoRepeat
<1>2. CASE Start
  BY <1>1, <1>2 DEF Start, brokerVars, Holding, TypeInv, DownIsEmpty
<1>3. ASSUME NEW m \in Message, Deliver(m)
      PROVE  OneLiveCopy'
  <2> DEFINE d == [msg |-> m, live |-> TRUE]
  <2>1. d \in Delivery /\ LiveOf(d) = {m}
    BY DEF Delivery, LiveOf
  <2>2. /\ buffer' = Append(buffer, d)
        /\ ready' = ready \ {m} /\ unacked' = unacked \cup {m} /\ m \in ready
        /\ UNCHANGED <<fate, inner, pc, task>>
    BY <1>3 DEF Deliver
  <2> HIDE DEF d
  <2>3. m \notin unacked
    BY <2>2 DEF Custody
  <2>4. /\ LiveMessages(buffer)' = LiveMessages(buffer) \cup {m}
        /\ NoRepeat(buffer)'
    BY <2>1, <2>2, <2>3, AppendLive DEF TypeInv, TypeOK
  <2>5. /\ LiveMessages(inner)' = LiveMessages(inner) /\ NoRepeat(inner)'
        /\ Held' = Held /\ HeldOnce'
    BY <2>2, HeldUnchanged DEF LiveMessages, NoRepeat
  <2>6. Custody'
    BY <2>2, <2>3 DEF Custody
  <2>7. QED
    BY <2>2, <2>3, <2>4, <2>5, <2>6
<1>4. CASE Receive
  <2> DEFINE d == Head(buffer)
  <2>1. /\ d \in Delivery /\ buffer' = Tail(buffer) /\ NoRepeat(buffer')
        /\ LiveMessages(buffer) = LiveMessages(buffer') \cup LiveOf(d)
        /\ LiveMessages(buffer') \cap LiveOf(d) = {}
    BY <1>4, TailLive DEF Receive, TypeInv, TypeOK
  <2>2. inner' = Append(inner, d)
    BY <1>4 DEF Receive
  <2> HIDE DEF d
  <2>3. LiveMessages(inner') = LiveMessages(inner) \cup LiveOf(d) /\ NoRepeat(inner')
    BY <2>1, <2>2, AppendLive DEF TypeInv, TypeOK
  <2>4. PICK woken \in Wakeable :
            pc' = [w \in Worker |-> IF w \in woken \cup Attached \cup InState({"yielding"})
                                    THEN "due" ELSE pc[w]]
    BY <1>4 DEF Receive
  <2>5. \A w \in woken \cup Attached \cup InState({"yielding"}) : pc[w] \notin Holding
    BY <2>4 DEF Wakeable, Attached, InState, Holding
  <2>6. \A w \in Worker : pc'[w] \in Holding <=> pc[w] \in Holding
    BY <2>4, <2>5 DEF Holding
  <2>7. Held' = Held /\ HeldOnce'
    BY <1>4, <2>6, HeldUnchanged DEF Receive
  <2>8. UNCHANGED <<ready, unacked, fate>> /\ Custody'
    BY <1>4 DEF Receive, brokerVars, Custody
  <2>9. QED
    BY <2>1, <2>3, <2>7, <2>8
<1>5. ASSUME NEW w \in Worker, Work(w)
      PROVE  OneLiveCopy'
  BY <1>5, WorkCopies
<1>6. CASE ListenerFails
  <2>1. LiveMessages(buffer') = {} /\ NoRepeat(buffer')
    BY <1>6, EmptySequence DEF ListenerFails
  <2>2. /\ LiveMessages(inner)' = LiveMessages(inner) /\ NoRepeat(inner)'
        /\ Held' = Held /\ HeldOnce'
    BY <1>6, HeldUnchanged DEF ListenerFails, LiveMessages, NoRepeat
  <2>3. Custody'
    BY <1>6 DEF ListenerFails, Custody
  <2>4. unacked' = unacked \ LiveMessages(buffer)
    BY <1>6 DEF ListenerFails
  <2>5. QED
    BY <2>1, <2>2, <2>3, <2>4
<1>7. CASE ChannelLost
  <2>1. /\ LiveMessages(buffer') = {} /\ NoRepeat(buffer')
        /\ LiveMessages(inner') = {} /\ NoRepeat(inner')
    BY <1>7, StaleSequence DEF ChannelLost, TypeInv, TypeOK
  <2>2. Held' = {} /\ HeldOnce'
    BY <1>7, HeldNothing DEF ChannelLost, Stale
  <2>3. Custody' /\ unacked' = {}
    BY <1>7 DEF ChannelLost, Custody
  <2>4. QED
    BY <2>1, <2>2, <2>3
<1>8. ASSUME MemoryLost
      PROVE  /\ LiveMessages(buffer') = {} /\ NoRepeat(buffer')
             /\ LiveMessages(inner') = {} /\ NoRepeat(inner')
             /\ Held' = {} /\ HeldOnce'
  BY <1>8, EmptySequence, HeldNothing DEF MemoryLost, Holding
<1>9. CASE Crash
  <2>1. Custody' /\ unacked' = {}
    BY <1>9 DEF Crash, Custody
  <2>2. QED
    BY <1>8, <1>9, <2>1 DEF Crash
<1>10. CASE BeginShutdown
  BY <1>1, <1>10 DEF BeginShutdown, brokerVars
<1>11. CASE JoinEnds
  BY <1>1, <1>11 DEF JoinEnds, brokerVars
<1>12. CASE CancelAndClose
  <2>0. PICK nacked \in SUBSET {w \in InState(Holding) : Live(task[w])} :
        \E acking \in SUBSET (InState({"succeeded"}) \cap nacked) :
          LET acked == {task[w].msg : w \in acking}
              dropped == {task[w].msg : w \in nacked \ acking}
          IN  /\ fate' = [m \in Message |-> CASE m \in acked   -> "acked"
                                              [] m \in dropped -> Discarded
                                              [] OTHER         -> fate[m]]
              /\ ready' = ready \cup (unacked \ (acked \cup dropped))
    BY <1>12 DEF CancelAndClose
  <2>1. PICK acking \in SUBSET (InState({"succeeded"}) \cap nacked) :
          LET acked == {task[w].msg : w \in acking}
              dropped == {task[w].msg : w \in nacked \ acking}
          IN  /\ fate' = [m \in Message |-> CASE m \in acked   -> "acked"
                                              [] m \in dropped -> Discarded
                                              [] OTHER         -> fate[m]]
              /\ ready' = ready \cup (unacked \ (acked \cup dropped))
    BY <2>0
  <2> DEFINE acked == {task[w].msg : w \in acking}
             dropped == {task[w].msg : w \in nacked \ acking}
  <2>2. acked \cup dropped \subseteq Held
    BY DEF Held
  <2>3. unacked' = {} /\ acked \cup dropped \subseteq unacked
    BY <1>12, <2>2 DEF CancelAndClose
  <2> HIDE DEF acked, dropped
  <2>4. \A m \in Message : fate'[m] = "none" <=> fate[m] = "none" /\ m \notin acked \cup dropped
    BY <2>1 DEF acked, dropped, Discarded
  <2>5. ready' = (ready \cup unacked) \ (acked \cup dropped)
    BY <2>1, <2>3 DEF acked, dropped, Custody
  <2>6. Custody'
    BY <2>3, <2>4, <2>5 DEF Custody
  <2>7. QED
    BY <1>8, <1>12, <2>3, <2>6 DEF CancelAndClose
<1>13. CASE UNCHANGED vars
  BY <1>1, <1>13 DEF vars
<1>14. QED
  BY <1>2, <1>3, <1>4, <1>5, <1>6, <1>7, <1>9, <1>10, <1>11, <1>12, <1>13 DEF Next

\* The initial state has no copy.
LEMMA InitCopies == Init => CopyInv
<1>1. Init => TypeInv
  BY InitType
<1>2. Init => OneLiveCopy
  <2> SUFFICES ASSUME Init
               PROVE  OneLiveCopy
    OBVIOUS
  <2>1. /\ LiveMessages(buffer) = {} /\ NoRepeat(buffer)
        /\ LiveMessages(inner) = {} /\ NoRepeat(inner)
    BY EmptySequence DEF Init
  <2>2. Held = {} /\ HeldOnce
    BY DEF Init, Held, HeldOnce, InState, Holding
  <2>3. Custody
    BY DEF Init, Custody
  <2>4. QED
    BY <2>1, <2>2, <2>3 DEF Init, OneLiveCopy
<1>3. QED
  BY <1>1, <1>2 DEF CopyInv

\* At all times the unacknowledged messages of the broker are those of the
\* live deliveries of the process, one for each, and a message that is not
\* settled is ready or unacknowledged, whatever faults happen.
THEOREM CopiesCorrect == Spec => []OneLiveCopy
<1>1. Init => CopyInv
  BY InitCopies
<1>2. CopyInv /\ [Next]_vars => CopyInv'
  BY CopyStep, TypeStep DEF CopyInv
<1>3. CopyInv => OneLiveCopy
  BY DEF CopyInv
<1>4. QED
  BY <1>1, <1>2, <1>3, PTL DEF Spec

---------------------------------------------------------------------------
(* Nothing is lost without having been refused, when no shutdown cancels   *)
(* the workers.                                                            *)

NoShutdown == phase \in {"down", "up"}
RefusedKnown == \A w \in Worker : pc[w] = "refused" => task[w].msg \in refused
LossInv == TypeInv /\ NoUnrefusedLoss /\ RefusedKnown /\ NoShutdown

\* Each step of a worker preserves it.
LEMMA WorkLoss ==
    ASSUME LossInv, NEW w \in Worker, Work(w)
    PROVE  NoUnrefusedLoss' /\ RefusedKnown' /\ NoShutdown'
<1> USE DEF LossInv, TypeInv, TypeOK
<1>1. NoShutdown'
  BY DEF NoShutdown, Work, Take, Wait, Succeed, Refuse, DatabaseFailure, Ack, Nack, Settle
<1>2. CASE Take(w) \/ Wait(w) \/ Succeed(w) \/ Refuse(w) \/ DatabaseFailure(w)
  <2>1. fate' = fate /\ refused \subseteq refused'
    BY <1>2 DEF Take, Wait, Succeed, Refuse, DatabaseFailure, brokerVars, historyVars
  <2>2. RefusedKnown'
    BY <1>2 DEF RefusedKnown, Take, Wait, Succeed, Refuse, DatabaseFailure, historyVars
  <2>3. QED
    BY <1>1, <2>1, <2>2 DEF NoUnrefusedLoss
<1>3. ASSUME NEW verdict \in {"none", "acked", Discarded}, Settle(w, verdict),
             verdict \in {"none", "acked"} \/ pc[w] = "refused"
      PROVE  NoUnrefusedLoss' /\ RefusedKnown'
  <2>1. /\ refused' = refused
        /\ pc' = [pc EXCEPT ![w] = "yielding"]
        /\ \A v \in Worker \ {w} : task'[v] = task[v]
    BY <1>3 DEF Settle, Finished, historyVars
  <2>2. RefusedKnown'
    BY <2>1 DEF RefusedKnown
  <2>3. ASSUME NEW m \in Message, fate'[m] \notin {"none", "acked"}
        PROVE  m \in refused'
    <3>1. CASE fate'[m] = fate[m]
      BY <2>1, <2>3, <3>1 DEF NoUnrefusedLoss
    <3>2. CASE fate'[m] # fate[m]
      <4>1. m = task[w].msg /\ fate'[m] = verdict
        BY <1>3, <3>2 DEF Settle, brokerVars
      <4>2. QED
        BY <1>3, <2>1, <2>3, <4>1 DEF RefusedKnown
    <3>3. QED
      BY <3>1, <3>2
  <2>4. QED
    BY <2>2, <2>3 DEF NoUnrefusedLoss
<1>4. CASE Ack(w)
  BY <1>1, <1>3, <1>4 DEF Ack
<1>5. CASE Nack(w)
  <2>1. CASE pc[w] = "failed"
    BY <1>1, <1>3, <1>5, <2>1 DEF Nack, Requeue
  <2>2. CASE pc[w] = "refused"
    BY <1>1, <1>3, <1>5, <2>2 DEF Nack, Requeue
  <2>3. QED
    BY <1>5, <2>1, <2>2 DEF Nack
<1>6. QED
  BY <1>2, <1>4, <1>5 DEF Work

\* A topic whose process is never shut down gracefully loses only messages
\* that were refused: DatabaseErrors, crashes, lost channels and a dead
\* listener all bring the message back.
THEOREM LossOnlyByRefusal ==
    ASSUME "shutdown" \notin FaultKinds
    PROVE  Spec => []NoUnrefusedLoss
<1>1. Init => LossInv
  <2>1. Init => NoUnrefusedLoss /\ RefusedKnown /\ NoShutdown
    BY DEF Init, NoUnrefusedLoss, RefusedKnown, NoShutdown
  <2>2. QED
    BY <2>1, InitType DEF LossInv
<1>2. LossInv /\ [Next]_vars => LossInv'
  <2> SUFFICES ASSUME LossInv, [Next]_vars
               PROVE  NoUnrefusedLoss' /\ RefusedKnown' /\ NoShutdown'
    BY TypeStep DEF LossInv
  <2> USE DEF LossInv, NoShutdown
  <2>1. ASSUME UNCHANGED <<fate, refused>>, phase' \in {"down", "up"},
               \A w \in Worker : \/ pc'[w] # "refused"
                                 \/ pc[w] = "refused" /\ task'[w].msg = task[w].msg
        PROVE  NoUnrefusedLoss' /\ RefusedKnown' /\ NoShutdown'
    BY <2>1 DEF NoUnrefusedLoss, RefusedKnown
  <2>2. CASE Start
    BY <2>1, <2>2 DEF Start, brokerVars, historyVars
  <2>3. ASSUME NEW m \in Message, Deliver(m)
        PROVE  NoUnrefusedLoss' /\ RefusedKnown' /\ NoShutdown'
    BY <2>1, <2>3 DEF Deliver, historyVars
  <2>4. CASE Receive
    <3>1. PICK woken \in Wakeable :
              pc' = [w \in Worker |-> IF w \in woken \cup Attached \cup InState({"yielding"})
                                      THEN "due" ELSE pc[w]]
      BY <2>4 DEF Receive
    <3>2. QED
      BY <2>1, <2>4, <3>1 DEF Receive, brokerVars, historyVars
  <2>5. ASSUME NEW w \in Worker, Work(w)
        PROVE  NoUnrefusedLoss' /\ RefusedKnown' /\ NoShutdown'
    BY <2>5, WorkLoss
  <2>6. CASE ListenerFails
    BY <2>1, <2>6 DEF ListenerFails, historyVars
  <2>7. CASE ChannelLost
    BY <2>1, <2>7 DEF ChannelLost, Stale, historyVars
  <2>8. CASE Crash
    BY <2>1, <2>8 DEF Crash, MemoryLost, historyVars
  <2>9. CASE BeginShutdown \/ JoinEnds \/ CancelAndClose
    BY <2>9 DEF BeginShutdown, JoinEnds, CancelAndClose, Inject
  <2>10. CASE UNCHANGED vars
    BY <2>1, <2>10 DEF vars
  <2>11. QED
    BY <2>2, <2>3, <2>4, <2>5, <2>6, <2>7, <2>8, <2>9, <2>10 DEF Next
<1>3. LossInv => NoUnrefusedLoss
  BY DEF LossInv
<1>4. QED
  BY <1>1, <1>2, <1>3, PTL DEF Spec

---------------------------------------------------------------------------
(* The consumer implements the delivery contract. *)

SuccessHandled == \A w \in Worker : pc[w] = "succeeded" => task[w].msg \in handled
ContractInv == CopyInv /\ SuccessHandled

\* A worker that is about to acknowledge has handled its message.
LEMMA SuccessStep ==
    ASSUME ContractInv, [Next]_vars
    PROVE  SuccessHandled'
<1> USE DEF ContractInv, CopyInv, TypeInv, TypeOK
<1>1. ASSUME handled \subseteq handled',
             \A w \in Worker : \/ pc'[w] # "succeeded"
                               \/ pc[w] = "succeeded" /\ task'[w].msg = task[w].msg
      PROVE  SuccessHandled'
  BY <1>1 DEF SuccessHandled
<1>2. CASE Start \/ Crash \/ CancelAndClose
  BY <1>2 DEF SuccessHandled, Start, Crash, CancelAndClose, MemoryLost
<1>3. ASSUME NEW m \in Message, Deliver(m)
      PROVE  SuccessHandled'
  BY <1>1, <1>3 DEF Deliver, historyVars
<1>4. CASE Receive
  <2>1. PICK woken \in Wakeable :
            pc' = [w \in Worker |-> IF w \in woken \cup Attached \cup InState({"yielding"})
                                    THEN "due" ELSE pc[w]]
    BY <1>4 DEF Receive
  <2>2. QED
    BY <1>1, <1>4, <2>1 DEF Receive, historyVars
<1>5. ASSUME NEW w \in Worker, Work(w)
      PROVE  SuccessHandled'
  <2>1. CASE Take(w) \/ Wait(w) \/ Refuse(w) \/ DatabaseFailure(w)
    BY <1>1, <2>1 DEF Take, Wait, Refuse, DatabaseFailure, historyVars
  <2>2. CASE Succeed(w)
    BY <2>2 DEF Succeed, SuccessHandled
  <2>3. CASE Ack(w) \/ Nack(w)
    BY <1>1, <2>3 DEF Ack, Nack, Settle, Finished, historyVars
  <2>4. QED
    BY <1>5, <2>1, <2>2, <2>3 DEF Work
<1>6. CASE ListenerFails
  BY <1>1, <1>6 DEF ListenerFails, historyVars
<1>7. CASE ChannelLost
  BY <1>1, <1>7 DEF ChannelLost, Stale, historyVars
<1>8. CASE BeginShutdown \/ JoinEnds
  BY <1>1, <1>8 DEF BeginShutdown, JoinEnds, historyVars
<1>9. CASE UNCHANGED vars
  BY <1>1, <1>9 DEF vars
<1>10. QED
  BY <1>2, <1>3, <1>4, <1>5, <1>6, <1>7, <1>8, <1>9 DEF Next

\* A step that returns leased messages is a step of the contract when it
\* settles and releases only unacknowledged ones.
LEMMA ReturnStep ==
    ASSUME NEW acked \in SUBSET unacked, NEW dropped \in SUBSET unacked,
           NEW released \in SUBSET unacked,
           NEW verdict \in {"dead_lettered", "discarded"},
           Contract!Return(acked, dropped, released, verdict)
    PROVE  Contract!Next
  BY DEF Contract!Next

\* Each step of a worker is a step of the contract or changes nothing of it.
LEMMA WorkContract ==
    ASSUME ContractInv, NEW w \in Worker, Work(w)
    PROVE  Contract!Next \/ UNCHANGED Contract!vars
<1> USE DEF ContractInv, CopyInv, TypeInv, TypeOK
<1>1. task[w] # NoDelivery => task[w].msg \in Message
  BY DEF Delivery
<1>2. CASE Take(w) \/ Wait(w) \/ Refuse(w) \/ DatabaseFailure(w)
  BY <1>2 DEF Take, Wait, Refuse, DatabaseFailure, brokerVars, historyVars, Contract!vars
<1>3. CASE Succeed(w)
  <2>1. task[w].msg \in Message
    BY <1>1, <1>3 DEF Succeed, Holding
  <2>2. Contract!Handle(task[w].msg)
    BY <1>3 DEF Succeed, brokerVars, Contract!Handle
  <2>3. QED
    BY <2>1, <2>2 DEF Contract!Next
<1>4. ASSUME NEW verdict \in {"none", "acked", Discarded}, Settle(w, verdict),
             pc[w] \in Holding,
             verdict = "acked" => task[w].msg \in handled
      PROVE  Contract!Next \/ UNCHANGED Contract!vars
  <2> DEFINE m == task[w].msg
  <2>1. CASE ~task[w].live
    BY <1>4, <2>1 DEF Settle, brokerVars, historyVars, Contract!vars
  <2>2. CASE task[w].live
    <3>1. m \in unacked /\ m \in Message /\ fate[m] = "none"
      <4>1. m \in Held
        BY <1>4, <2>2 DEF Held, InState
      <4>2. QED
        BY <4>1 DEF OneLiveCopy, Custody
    <3>2. /\ unacked' = unacked \ {m}
          /\ fate' = [fate EXCEPT ![m] = verdict]
          /\ ready' = IF verdict = "none" THEN ready \cup {m} ELSE ready
          /\ handled' = handled
      BY <1>4, <2>2 DEF Settle, historyVars
    <3> HIDE DEF m
    <3>3. CASE verdict = "none"
      <4>1. fate' = [k \in Message |-> fate[k]]
        BY <3>1, <3>2, <3>3
      <4>2. Contract!Return({}, {}, {m}, "discarded")
        BY <3>1, <3>2, <3>3, <4>1 DEF Contract!Return
      <4>3. QED
        BY <3>1, <4>2, ReturnStep
    <3>4. CASE verdict = "acked"
      <4>1. fate' = [k \in Message |-> IF k = m THEN "acked" ELSE fate[k]]
        BY <3>1, <3>2, <3>4
      <4>2. Contract!Return({m}, {}, {}, "discarded")
        BY <1>4, <3>1, <3>2, <3>4, <4>1 DEF Contract!Return, m
      <4>3. QED
        BY <3>1, <4>2, ReturnStep
    <3>5. CASE verdict = Discarded
      <4>1. Discarded \in {"dead_lettered", "discarded"}
        BY DEF Discarded
      <4>2. fate' = [k \in Message |-> IF k = m THEN Discarded ELSE fate[k]]
        BY <3>1, <3>2, <3>5
      <4>3. Contract!Return({}, {m}, {}, Discarded)
        BY <3>1, <3>2, <3>5, <4>1, <4>2 DEF Contract!Return
      <4>4. QED
        BY <3>1, <4>1, <4>3, ReturnStep
    <3>6. QED
      BY <1>4, <3>3, <3>4, <3>5
  <2>3. QED
    BY <2>1, <2>2
<1>5. CASE Ack(w)
  BY <1>4, <1>5 DEF Ack, Holding, SuccessHandled
<1>6. CASE Nack(w)
  <2>1. PICK verdict \in {"none", Discarded} : Settle(w, verdict)
    BY <1>6 DEF Nack
  <2>2. Discarded # "acked"
    BY DEF Discarded
  <2>3. QED
    BY <1>4, <1>6, <2>1, <2>2 DEF Nack, Holding
<1>7. QED
  BY <1>2, <1>3, <1>5, <1>6 DEF Work

\* The end of a process is a step of the contract: what the cancelled workers
\* settle is leased, and acknowledged only if it was handled.
LEMMA CancelContract ==
    ASSUME ContractInv, CancelAndClose
    PROVE  Contract!Next
<1> USE DEF ContractInv, CopyInv, TypeInv, TypeOK
<1>1. PICK nacked \in SUBSET {w \in InState(Holding) : Live(task[w])} :
      \E acking \in SUBSET (InState({"succeeded"}) \cap nacked) :
          LET acked == {task[w].msg : w \in acking}
              dropped == {task[w].msg : w \in nacked \ acking}
          IN  /\ fate' = [m \in Message |-> CASE m \in acked   -> "acked"
                                              [] m \in dropped -> Discarded
                                              [] OTHER         -> fate[m]]
              /\ ready' = ready \cup (unacked \ (acked \cup dropped))
  BY DEF CancelAndClose
<1>2. PICK acking \in SUBSET (InState({"succeeded"}) \cap nacked) :
          LET acked == {task[w].msg : w \in acking}
              dropped == {task[w].msg : w \in nacked \ acking}
          IN  /\ fate' = [m \in Message |-> CASE m \in acked   -> "acked"
                                              [] m \in dropped -> Discarded
                                              [] OTHER         -> fate[m]]
              /\ ready' = ready \cup (unacked \ (acked \cup dropped))
  BY <1>1
<1> DEFINE acked == {task[w].msg : w \in acking}
           dropped == {task[w].msg : w \in nacked \ acking}
           released == unacked \ (acked \cup dropped)
<1>3. acked \cup dropped \subseteq unacked
  BY DEF Held, OneLiveCopy
<1>4. acked \cap dropped = {}
  <2>1. \A v \in acking, w \in nacked \ acking : task[v].msg # task[w].msg
    BY DEF OneLiveCopy, HeldOnce
  <2>2. QED
    BY <2>1
<1>5. acked \subseteq handled
  BY DEF SuccessHandled, InState
<1>6. Discarded \in {"dead_lettered", "discarded"}
  BY DEF Discarded
<1>7. /\ fate' = [m \in Message |-> CASE m \in acked   -> "acked"
                                      [] m \in dropped -> Discarded
                                      [] OTHER         -> fate[m]]
      /\ ready' = ready \cup released
      /\ unacked' = {} /\ handled' = handled
  BY <1>2 DEF CancelAndClose, historyVars
<1> HIDE DEF acked, dropped
<1>8. Contract!Return(acked, dropped, released, Discarded)
  BY <1>3, <1>4, <1>5, <1>6, <1>7 DEF Contract!Return
<1>9. QED
  BY <1>3, <1>6, <1>8, ReturnStep

\* The consumer implements its delivery contract: custody, prefetch window,
\* at least once delivery, acknowledgement after processing only.
THEOREM ImplementsDelivery == Spec => ImplementsContract
<1>1. Init => ContractInv
  <2>1. Init => SuccessHandled
    BY DEF Init, SuccessHandled
  <2>2. QED
    BY <2>1, InitCopies DEF ContractInv
<1>2. ContractInv /\ [Next]_vars => ContractInv'
  BY CopyStep, TypeStep, SuccessStep DEF ContractInv, CopyInv
<1>3. Init => Contract!Init
  BY DEF Init, Contract!Init
<1>4. ContractInv /\ [Next]_vars => Contract!Next \/ UNCHANGED Contract!vars
  <2> SUFFICES ASSUME ContractInv, [Next]_vars
               PROVE  Contract!Next \/ UNCHANGED Contract!vars
    OBVIOUS
  <2> USE DEF ContractInv, CopyInv, TypeInv, TypeOK
  <2>1. ASSUME NEW m \in Message, Deliver(m)
        PROVE  Contract!Next
    <3>1. /\ m \in ready
          /\ Cardinality(unacked) < Prefetch
          /\ ready' = ready \ {m}
          /\ unacked' = unacked \cup {m}
          /\ UNCHANGED <<fate, handled>>
      BY <2>1 DEF Deliver, historyVars
    <3>2. Contract!Lease(m)
      BY ONLY <3>1 DEF Contract!Lease, Contract!Cardinality, Cardinality
    <3>3. QED
      BY <3>2 DEF Contract!Next
  <2>2. CASE Start \/ Receive \/ BeginShutdown \/ JoinEnds
    BY <2>2 DEF Start, Receive, BeginShutdown, JoinEnds, brokerVars, historyVars, Contract!vars
  <2>3. ASSUME NEW w \in Worker, Work(w)
        PROVE  Contract!Next \/ UNCHANGED Contract!vars
    BY <2>3, WorkContract
  <2>4. ASSUME NEW released \in SUBSET unacked,
               ready' = ready \cup released, unacked' = unacked \ released,
               UNCHANGED <<fate, handled>>
        PROVE  Contract!Next
    <3>1. fate' = [k \in Message |-> fate[k]]
      BY <2>4
    <3>2. Contract!Return({}, {}, released, "discarded")
      BY <2>4, <3>1 DEF Contract!Return
    <3>3. QED
      BY <3>2, ReturnStep
  <2>5. CASE ListenerFails
    BY <2>4, <2>5 DEF ListenerFails, historyVars, OneLiveCopy
  <2>6. CASE ChannelLost \/ Crash
    BY <2>4, <2>6 DEF ChannelLost, Crash, historyVars
  <2>7. CASE CancelAndClose
    BY <2>7, CancelContract
  <2>8. CASE UNCHANGED vars
    BY <2>8 DEF vars, Contract!vars
  <2>9. QED
    BY <2>1, <2>2, <2>3, <2>5, <2>6, <2>7, <2>8 DEF Next
<1>5. QED
  BY <1>1, <1>2, <1>3, <1>4, PTL DEF Spec, ImplementsContract, Contract!Spec

---------------------------------------------------------------------------
(* No wake-up is lost. *)

WakeInv == TypeInv /\ NoLostWakeup

\* Any set of workers is finite.
LEMMA WorkersFinite ==
    ASSUME NEW S \in SUBSET Worker
    PROVE  IsFiniteSet(S) /\ Cardinality(S) \in Nat
<1>1. IsFiniteSet(Worker)
  BY FS_Interval, ConsumerAssumption DEF Worker
<1>2. IsFiniteSet(S)
  BY <1>1, FS_Subset
<1>3. QED
  BY <1>2, FS_CardinalityType

\* A worker that takes a delivery takes the place of at most one that is due.
LEMMA TakeWakes ==
    ASSUME WakeInv, NEW w \in Worker, Take(w)
    PROVE  NoLostWakeup'
<1> USE DEF WakeInv, TypeInv, TypeOK
<1>1. PICK due \in SUBSET Worker, left \in SUBSET Worker :
        due = InState({"due"}) /\ left = InState({"due"})' /\ left = due \ {w}
  <2>1. InState({"due"})' = InState({"due"}) \ {w}
    BY DEF Take, InState
  <2>2. InState({"due"}) \in SUBSET Worker
    BY DEF InState
  <2>3. InState({"due"}) \ {w} \in SUBSET Worker
    BY <2>2
  <2>4. QED
    BY <2>1, <2>2, <2>3
<1>2. InState({"waiting"})' = InState({"waiting"})
  BY DEF Take, InState
<1>3. Len(inner) \in Nat \ {0} /\ Len(inner') = Len(inner) - 1
  BY EmptySeq, HeadTailProperties DEF Take
<1>4. PICK n \in Nat, k \in Nat, l \in Nat :
        n = Len(inner) /\ k = Cardinality(due) /\ l = Cardinality(left)
  BY <1>1, <1>3, WorkersFinite
<1>5. l = IF w \in due THEN k - 1 ELSE k
  BY <1>1, <1>4, WorkersFinite, FS_RemoveElement
<1>6. InState({"waiting"})' # {} => n <= k
  BY <1>1, <1>2, <1>4 DEF NoLostWakeup
<1>7. InState({"waiting"})' # {} => n - 1 <= l
  BY <1>5, <1>6
<1>8. QED
  BY <1>1, <1>3, <1>4, <1>7 DEF NoLostWakeup

\* The listener wakes one of the workers that wait, if there is one.
LEMMA ReceiveWakes ==
    ASSUME WakeInv, Receive
    PROVE  NoLostWakeup'
<1> USE DEF WakeInv, TypeInv, TypeOK
<1>1. PICK woken \in Wakeable :
          pc' = [w \in Worker |-> IF w \in woken \cup Attached \cup InState({"yielding"})
                                  THEN "due" ELSE pc[w]]
  BY DEF Receive
<1>2. CASE InState({"waiting"}) = {}
  <2>1. InState({"waiting"})' = {}
    BY <1>1, <1>2 DEF InState
  <2>2. QED
    BY <2>1 DEF NoLostWakeup
<1>3. CASE InState({"waiting"}) # {}
  <2>1. Len(inner') = 1
    <3>0. Cardinality(InState({"due"})) = 0
      BY FS_EmptySet DEF Receive
    <3>1. Len(inner) \in Nat /\ Len(inner) <= 0
      BY <1>3, <3>0 DEF NoLostWakeup
    <3>2. Len(inner') = Len(inner) + 1
      BY TailLive, AppendProperties DEF Receive
    <3>3. QED
      BY <3>1, <3>2
  <2>2. PICK w \in Worker : woken = {w}
    BY <1>1, <1>3 DEF Wakeable, InState
  <2>3. PICK due \in SUBSET Worker : due = InState({"due"})' /\ w \in due
    BY <1>1, <2>2 DEF InState
  <2>4. 1 <= Cardinality(due)
    <3>1. IsFiniteSet(due) /\ {w} \in SUBSET due /\ Cardinality({w}) = 1
      BY <2>3, WorkersFinite, FS_Singleton
    <3>2. QED
      BY <3>1, FS_Subset
  <2>5. QED
    BY <2>1, <2>3, <2>4 DEF NoLostWakeup
<1>4. QED
  BY <1>2, <1>3

LEMMA WakeStep ==
    ASSUME WakeInv, [Next]_vars
    PROVE  NoLostWakeup'
<1> USE DEF WakeInv, TypeInv, TypeOK
<1>1. ASSUME InState({"waiting"})' = {}
      PROVE  NoLostWakeup'
  BY <1>1 DEF NoLostWakeup
<1>2. ASSUME InState({"waiting"})' = InState({"waiting"}),
             InState({"due"})' = InState({"due"}), Len(inner') = Len(inner)
      PROVE  NoLostWakeup'
  BY <1>2 DEF NoLostWakeup
<1>3. CASE Start \/ Crash \/ CancelAndClose
  BY <1>1, <1>3 DEF Start, Crash, CancelAndClose, MemoryLost, InState
<1>4. ASSUME NEW m \in Message, Deliver(m)
      PROVE  NoLostWakeup'
  BY <1>2, <1>4 DEF Deliver, InState
<1>5. CASE Receive
  BY <1>5, ReceiveWakes
<1>6. ASSUME NEW w \in Worker, Work(w)
      PROVE  NoLostWakeup'
  <2>1. CASE Take(w)
    BY <2>1, TakeWakes
  <2>2. CASE Wait(w)
    <3>1. Len(inner') = 0
      BY <2>2, EmptySeq DEF Wait
    <3>2. PICK due \in SUBSET Worker : due = InState({"due"})'
      BY DEF InState
    <3>3. Cardinality(due) \in Nat
      BY WorkersFinite
    <3>4. QED
      BY <3>1, <3>2, <3>3 DEF NoLostWakeup
  <2>3. CASE Succeed(w) \/ Refuse(w) \/ DatabaseFailure(w)
    BY <1>2, <2>3 DEF Succeed, Refuse, DatabaseFailure, InState
  <2>4. CASE Ack(w) \/ Nack(w)
    BY <1>2, <2>4 DEF Ack, Nack, Settle, Finished, InState
  <2>5. QED
    BY <1>6, <2>1, <2>2, <2>3, <2>4 DEF Work
<1>7. CASE ListenerFails
  BY <1>2, <1>7 DEF ListenerFails, InState
<1>8. CASE ChannelLost
  <2>1. Len(inner') = Len(inner)
    BY <1>8 DEF ChannelLost
  <2>2. QED
    BY <1>2, <1>8, <2>1 DEF ChannelLost, InState
<1>9. CASE BeginShutdown \/ JoinEnds
  BY <1>2, <1>9 DEF BeginShutdown, JoinEnds, InState
<1>10. CASE UNCHANGED vars
  BY <1>2, <1>10 DEF vars, InState
<1>11. QED
  BY <1>3, <1>4, <1>5, <1>6, <1>7, <1>8, <1>9, <1>10 DEF Next

\* While a worker waits in get(), each delivery of the inner queue has a
\* worker on its way, although a worker that comes out of its sleep(0) may
\* take the delivery that another one was woken for.
THEOREM WakeupsKept == Spec => []NoLostWakeup
<1>1. Init => WakeInv
  <2>1. Init => NoLostWakeup
    BY DEF Init, NoLostWakeup, InState
  <2>2. QED
    BY <2>1, InitType DEF WakeInv
<1>2. WakeInv /\ [Next]_vars => WakeInv'
  BY WakeStep, TypeStep DEF WakeInv
<1>3. WakeInv => NoLostWakeup
  BY DEF WakeInv
<1>4. QED
  BY <1>1, <1>2, <1>3, PTL DEF Spec

---------------------------------------------------------------------------
(* The pool of workers stays bounded as long as the channel holds. *)

AllLive(s) == \A i \in DOMAIN s : s[i].live
HoldLive == \A w \in InState(Holding) : task[w].live
Window == Cardinality(unacked) <= Prefetch
Present == Worker \ InState({"absent"})

(***************************************************************************)
(* A worker that came back from a message has freed a place of the window; *)
(* until the listener's next turn, which makes it due, the place is filled *)
(* by nothing the workers know of.                                         *)
(***************************************************************************)
Crowd == InState(Holding \cup {"yielding"})
CrowdBound == Len(inner) + Cardinality(Crowd) <= Prefetch
PoolInv == /\ CopyInv /\ NoLostWakeup /\ PoolBound
           /\ AllLive(buffer) /\ AllLive(inner) /\ HoldLive
           /\ Window /\ CrowdBound

\* Deliveries that are live are as many as their messages.
LEMMA LiveCount ==
    ASSUME NEW s \in Seq(Delivery), AllLive(s), NoRepeat(s)
    PROVE  IsFiniteSet(LiveMessages(s)) /\ Cardinality(LiveMessages(s)) = Len(s)
<1> DEFINE f == [i \in 1 .. Len(s) |-> s[i].msg]
<1>1. Len(s) \in Nat /\ DOMAIN s = 1 .. Len(s)
  BY LenProperties
<1>2. LiveMessages(s) = {s[i].msg : i \in 1 .. Len(s)}
  BY <1>1 DEF LiveMessages, AllLive
<1>3. f \in Bijection(1 .. Len(s), LiveMessages(s))
  <2>1. \A i, j \in 1 .. Len(s) : s[i].msg = s[j].msg => i = j
    BY <1>1 DEF NoRepeat, AllLive
  <2>2. f \in [1 .. Len(s) -> LiveMessages(s)]
    BY <1>2
  <2>3. \A m \in LiveMessages(s) : \E i \in 1 .. Len(s) : f[i] = m
    BY <1>2
  <2>4. QED
    BY <2>1, <2>2, <2>3 DEF Bijection, Injection, Surjection, IsInjective
<1>4. IsFiniteSet(1 .. Len(s)) /\ Cardinality(1 .. Len(s)) = Len(s)
  BY <1>1, FS_Interval
<1>5. QED
  BY <1>3, <1>4, FS_Bijection DEF ExistsBijection

\* So are those of the workers.
LEMMA HeldCount ==
    ASSUME HeldOnce, HoldLive
    PROVE  IsFiniteSet(Held) /\ Cardinality(Held) = Cardinality(InState(Holding))
<1> DEFINE S == InState(Holding)
           f == [w \in S |-> task[w].msg]
<1>1. S \in SUBSET Worker
  BY DEF InState
<1>2. Held = {task[w].msg : w \in S}
  BY DEF Held, HoldLive
<1>3. f \in Bijection(S, Held)
  <2>1. \A v, w \in S : task[v].msg = task[w].msg => v = w
    BY DEF HeldOnce, HoldLive
  <2> HIDE DEF S
  <2>2. f \in [S -> Held]
    BY <1>2
  <2>3. \A m \in Held : \E w \in S : f[w] = m
    BY <1>2
  <2>4. QED
    BY <2>1, <2>2, <2>3 DEF Bijection, Injection, Surjection, IsInjective
<1>4. IsFiniteSet(S)
  BY <1>1, WorkersFinite
<1> HIDE DEF f
<1>5. QED
  BY <1>3, <1>4, FS_Bijection DEF ExistsBijection

LEMMA DisjointUnion ==
    ASSUME NEW S, NEW T, IsFiniteSet(S), IsFiniteSet(T), S \cap T = {}
    PROVE  IsFiniteSet(S \cup T) /\ Cardinality(S \cup T) = Cardinality(S) + Cardinality(T)
<1>1. /\ IsFiniteSet(S \cup T)
      /\ Cardinality(S \cup T) = Cardinality(S) + Cardinality(T) - Cardinality(S \cap T)
  BY FS_Union
<1>2. Cardinality(S \cap T) = 0
  BY FS_EmptySet
<1>3. Cardinality(S) \in Nat /\ Cardinality(T) \in Nat
  BY FS_CardinalityType
<1>4. QED
  BY <1>1, <1>2, <1>3

\* What the listener is to put has its place in the window.
LEMMA RoomToPut ==
    ASSUME PoolInv, buffer # <<>>
    PROVE  Len(inner) + 1 + Cardinality(InState(Holding)) <= Prefetch
<1>1. /\ buffer \in Seq(Delivery) /\ inner \in Seq(Delivery)
      /\ NoRepeat(buffer) /\ NoRepeat(inner) /\ HeldOnce
  BY DEF PoolInv, CopyInv, TypeInv, TypeOK, OneLiveCopy
<1>2. PICK b, n, h :
        /\ b = LiveMessages(buffer) /\ n = LiveMessages(inner) /\ h = Held
        /\ unacked = b \cup n \cup h /\ b \cap n = {} /\ (b \cup n) \cap h = {}
  BY DEF PoolInv, CopyInv, OneLiveCopy
<1>3. PICK p \in Nat, q \in Nat, k \in Nat :
        /\ p = Len(buffer) /\ q = Len(inner) /\ k = Cardinality(InState(Holding)) /\ p # 0
  <2>1. InState(Holding) \in SUBSET Worker
    BY DEF InState
  <2>2. QED
    BY <1>1, <2>1, WorkersFinite, LenProperties, EmptySeq
<1>4. /\ IsFiniteSet(b) /\ Cardinality(b) = p
      /\ IsFiniteSet(n) /\ Cardinality(n) = q
      /\ IsFiniteSet(h) /\ Cardinality(h) = k
  BY <1>1, <1>2, <1>3, LiveCount, HeldCount DEF PoolInv
<1>5. IsFiniteSet(b \cup n) /\ Cardinality(b \cup n) = p + q
  BY <1>2, <1>4, DisjointUnion
<1>6. Cardinality(unacked) = p + q + k
  BY <1>2, <1>4, <1>5, DisjointUnion
<1>7. p + q + k <= Prefetch
  BY <1>6 DEF PoolInv, Window
<1>8. QED
  BY <1>3, <1>7, ConsumerAssumption

\* Appends and tails of live deliveries.
LEMMA AllLiveSteps ==
    ASSUME NEW s \in Seq(Delivery), AllLive(s)
    PROVE  /\ \A d \in Delivery : d.live => AllLive(Append(s, d))
           /\ s # <<>> => AllLive(Tail(s)) /\ Head(s).live
<1>1. ASSUME NEW d \in Delivery, d.live PROVE AllLive(Append(s, d))
  <2>1. /\ Len(Append(s, d)) = Len(s) + 1 /\ Len(s) \in Nat
        /\ \A i \in 1 .. Len(s) : Append(s, d)[i] = s[i]
        /\ Append(s, d)[Len(s) + 1] = d
        /\ DOMAIN s = 1 .. Len(s) /\ DOMAIN Append(s, d) = 1 .. Len(s) + 1
    BY AppendProperties, LenProperties
  <2>2. QED
    BY <1>1, <2>1 DEF AllLive
<1>2. ASSUME s # <<>> PROVE AllLive(Tail(s)) /\ Head(s).live
  <2>1. Len(s) \in Nat \ {0} /\ DOMAIN s = 1 .. Len(s) /\ Head(s) = s[1]
    BY <1>2, EmptySeq, LenProperties
  <2>2. /\ Tail(s) \in Seq(Delivery) /\ Len(Tail(s)) = Len(s) - 1
        /\ \A i \in 1 .. Len(Tail(s)) : Tail(s)[i] = s[i + 1]
    BY <1>2, HeadTailProperties
  <2>3. DOMAIN Tail(s) = 1 .. Len(Tail(s))
    BY <2>2, LenProperties
  <2>4. QED
    BY <2>1, <2>2, <2>3 DEF AllLive
<1>3. QED
  BY <1>1, <1>2

\* The deliveries stay live.
LEMMA LiveStep ==
    ASSUME PoolInv, "channel" \notin FaultKinds, [Next]_vars
    PROVE  AllLive(buffer)' /\ AllLive(inner)' /\ HoldLive'
<1> USE DEF PoolInv, CopyInv, TypeInv, TypeOK
<1>1. AllLive(<<>>)
  BY DEF AllLive
<1>2. ASSUME UNCHANGED <<buffer, inner>>, HoldLive'
      PROVE  AllLive(buffer)' /\ AllLive(inner)' /\ HoldLive'
  BY <1>2 DEF AllLive
<1>3. ASSUME UNCHANGED task, \A w \in Worker : pc'[w] \in Holding => pc[w] \in Holding
      PROVE  HoldLive'
  BY <1>3 DEF HoldLive, InState
<1>4. CASE Start
  BY <1>2, <1>3, <1>4 DEF Start, Holding
<1>5. ASSUME NEW m \in Message, Deliver(m)
      PROVE  AllLive(buffer)' /\ AllLive(inner)' /\ HoldLive'
  <2>1. AllLive(Append(buffer, [msg |-> m, live |-> TRUE]))
    BY AllLiveSteps DEF Delivery
  <2>2. QED
    BY <1>3, <1>5, <2>1 DEF Deliver, AllLive
<1>6. CASE Receive
  <2>1. Head(buffer) \in Delivery /\ Head(buffer).live /\ AllLive(Tail(buffer))
    BY <1>6, AllLiveSteps, TailLive DEF Receive
  <2>2. AllLive(Append(inner, Head(buffer)))
    BY <2>1, AllLiveSteps
  <2>3. PICK woken \in Wakeable :
            pc' = [w \in Worker |-> IF w \in woken \cup Attached \cup InState({"yielding"})
                                    THEN "due" ELSE pc[w]]
    BY <1>6 DEF Receive
  <2>4. HoldLive'
    BY <1>3, <1>6, <2>3 DEF Receive, Holding
  <2>5. QED
    BY <1>6, <2>1, <2>2, <2>4 DEF Receive, AllLive
<1>7. ASSUME NEW w \in Worker, Work(w)
      PROVE  AllLive(buffer)' /\ AllLive(inner)' /\ HoldLive'
  <2>1. CASE Take(w)
    <3>1. Head(inner).live /\ AllLive(Tail(inner))
      BY <2>1, AllLiveSteps DEF Take
    <3>2. HoldLive'
      BY <2>1, <3>1 DEF Take, HoldLive, InState
    <3>3. QED
      BY <2>1, <3>1, <3>2 DEF Take, AllLive
  <2>2. CASE Wait(w) \/ Succeed(w) \/ Refuse(w) \/ DatabaseFailure(w)
    BY <1>2, <1>3, <2>2 DEF Wait, Succeed, Refuse, DatabaseFailure, Holding
  <2>3. CASE Ack(w) \/ Nack(w)
    <3>1. HoldLive'
      BY <2>3 DEF Ack, Nack, Settle, Finished, HoldLive, InState, Holding
    <3>2. QED
      BY <1>2, <2>3, <3>1 DEF Ack, Nack, Settle
  <2>4. QED
    BY <1>7, <2>1, <2>2, <2>3 DEF Work
<1>8. CASE ListenerFails
  BY <1>1, <1>3, <1>8 DEF ListenerFails, AllLive
<1>9. CASE ChannelLost
  BY <1>9 DEF ChannelLost, Inject
<1>10. CASE Crash \/ CancelAndClose
  BY <1>1, <1>10 DEF Crash, CancelAndClose, MemoryLost, AllLive, HoldLive, InState, Holding
<1>11. CASE BeginShutdown \/ JoinEnds
  BY <1>2, <1>3, <1>11 DEF BeginShutdown, JoinEnds
<1>12. CASE UNCHANGED vars
  BY <1>2, <1>3, <1>12 DEF vars
<1>13. QED
  BY <1>4, <1>5, <1>6, <1>7, <1>8, <1>9, <1>10, <1>11, <1>12 DEF Next

\* The broker keeps the window.
LEMMA WindowStep ==
    ASSUME TypeInv, Window, [Next]_vars
    PROVE  Window'
<1> USE DEF TypeInv, TypeOK
<1>1. IsFiniteSet(unacked)
  <2>1. IsFiniteSet(Message) /\ unacked \in SUBSET Message
    BY FS_Interval, ConsumerAssumption DEF Message
  <2>2. QED
    BY <2>1, FS_Subset
<1>2. ASSUME unacked' \subseteq unacked
      PROVE  Window'
  <2>1. PICK left \in SUBSET unacked : left = unacked'
    BY <1>2
  <2>2. IsFiniteSet(left) /\ Cardinality(left) <= Cardinality(unacked)
    BY <1>1, FS_Subset
  <2>3. Cardinality(left) \in Nat /\ Cardinality(unacked) \in Nat /\ Prefetch \in Nat
    BY <1>1, <2>2, FS_CardinalityType, ConsumerAssumption
  <2>4. QED
    BY <2>1, <2>2, <2>3 DEF Window
<1>3. ASSUME NEW m \in Message, Deliver(m)
      PROVE  Window'
  <2>1. PICK k \in Nat : k = Cardinality(unacked) /\ k < Prefetch
    BY <1>1, <1>3, FS_CardinalityType DEF Deliver
  <2>2. Cardinality(unacked \cup {m}) \in {k, k + 1}
    BY <1>1, <2>1, FS_AddElement
  <2>3. Cardinality(unacked \cup {m}) <= Prefetch
    BY <2>1, <2>2, ConsumerAssumption
  <2>4. QED
    BY <1>3, <2>3 DEF Deliver, Window
<1>4. ASSUME NEW w \in Worker, Work(w)
      PROVE  unacked' \subseteq unacked
  BY <1>4 DEF Work, Take, Wait, Succeed, Refuse, DatabaseFailure, Ack, Nack, Settle, brokerVars
<1>5. CASE ~ \E m \in Message : Deliver(m)
  BY <1>2, <1>4, <1>5 DEF Next, Start, Receive, ListenerFails, ChannelLost, Crash, BeginShutdown,
     JoinEnds, CancelAndClose, brokerVars, vars
<1>6. QED
  BY <1>3, <1>5

\* A crowd and a queue that do not grow leave the bound as it was.
LEMMA CrowdSmaller ==
    ASSUME PoolInv, NEW crowd, crowd = Crowd', crowd \subseteq Crowd, NEW n \in Nat,
           n = Len(inner'), n <= Len(inner)
    PROVE  CrowdBound'
<1>1. Crowd \in SUBSET Worker
  BY DEF Crowd, InState
<1>2. PICK old \in SUBSET Worker : old = Crowd
  BY <1>1
<1>3. crowd \in SUBSET old /\ crowd \in SUBSET Worker
  BY <1>2
<1>4. PICK k \in Nat, l \in Nat : k = Cardinality(old) /\ l = Cardinality(crowd) /\ l <= k
  <2>1. Cardinality(crowd) <= Cardinality(old)
    BY <1>2, <1>3, WorkersFinite, FS_Subset
  <2>2. QED
    BY <2>1, <1>2, <1>3, WorkersFinite
<1>5. PICK p \in Nat : p = Len(inner) /\ p + k <= Prefetch
  BY <1>2, <1>4, LenProperties DEF PoolInv, CopyInv, TypeInv, TypeOK, CrowdBound
<1>6. n + l <= Prefetch
  BY <1>4, <1>5, ConsumerAssumption
<1>7. QED
  BY <1>4, <1>6 DEF CrowdBound

\* The workers that hold a message, or come back from one, and the messages
\* that wait for them fit into the window.
LEMMA CrowdStep ==
    ASSUME PoolInv, "channel" \notin FaultKinds, [Next]_vars
    PROVE  CrowdBound'
<1> USE DEF PoolInv, CopyInv, TypeInv, TypeOK
<1>0. Len(inner) \in Nat
  BY LenProperties
<1>1. ASSUME Crowd' \subseteq Crowd, Len(inner') \in Nat, Len(inner') <= Len(inner)
      PROVE  CrowdBound'
  <2>1. PICK crowd, n : crowd = Crowd' /\ n = Len(inner')
    OBVIOUS
  <2>2. QED
    BY <1>1, <2>1, CrowdSmaller
<1>2. ASSUME UNCHANGED inner, \A w \in Worker : pc'[w] \in Holding \cup {"yielding"} =>
                                                pc[w] \in Holding \cup {"yielding"}
      PROVE  CrowdBound'
  <2>1. Crowd' \subseteq Crowd
    BY <1>2 DEF Crowd, InState
  <2>2. QED
    BY <1>0, <1>1, <1>2, <2>1
<1>3. CASE Start
  BY <1>2, <1>3 DEF Start, Holding
<1>4. CASE Receive
  <2>1. Len(inner') = Len(inner) + 1
    BY <1>4, TailLive, AppendProperties DEF Receive
  <2>2. PICK woken \in Wakeable :
            pc' = [w \in Worker |-> IF w \in woken \cup Attached \cup InState({"yielding"})
                                    THEN "due" ELSE pc[w]]
    BY <1>4 DEF Receive
  <2>3. Crowd' = InState(Holding)
    <3>1. \A w \in woken \cup Attached \cup InState({"yielding"}) : w \notin InState(Holding)
      BY <2>2 DEF Wakeable, Attached, InState, Holding
    <3>2. QED
      BY <2>2, <3>1 DEF Crowd, InState, Holding
  <2>4. Len(inner) + 1 + Cardinality(InState(Holding)) <= Prefetch
    BY <1>4, RoomToPut DEF Receive
  <2>5. QED
    BY <2>1, <2>3, <2>4 DEF CrowdBound
<1>5. ASSUME NEW w \in Worker, Take(w)
      PROVE  CrowdBound'
  <2>1. PICK n \in Nat : n + 1 = Len(inner) /\ Len(inner') = n
    <3>1. Len(inner) \in Nat \ {0} /\ Len(inner') = Len(inner) - 1
      BY <1>5, EmptySeq, HeadTailProperties DEF Take
    <3>2. Len(inner) - 1 \in Nat /\ (Len(inner) - 1) + 1 = Len(inner)
      BY <3>1
    <3>3. QED
      BY <3>1, <3>2
  <2>2. Crowd' = Crowd \cup {w}
    BY <1>5 DEF Take, Crowd, InState, Holding
  <2>3. Crowd \in SUBSET Worker
    BY DEF Crowd, InState
  <2>4. PICK k \in Nat : k = Cardinality(Crowd)
    BY <2>3, WorkersFinite
  <2>5. Cardinality(Crowd \cup {w}) \in {k, k + 1}
    BY <2>3, <2>4, WorkersFinite, FS_AddElement
  <2>6. n + 1 + k <= Prefetch
    BY <2>1, <2>4 DEF CrowdBound
  <2>7. n + Cardinality(Crowd \cup {w}) <= Prefetch
    BY <2>5, <2>6, ConsumerAssumption
  <2>8. QED
    BY <2>1, <2>2, <2>7 DEF CrowdBound
<1>6. ASSUME NEW w \in Worker, Work(w)
      PROVE  CrowdBound'
  <2>1. CASE Wait(w) \/ Succeed(w) \/ Refuse(w) \/ DatabaseFailure(w)
    BY <1>2, <2>1 DEF Wait, Succeed, Refuse, DatabaseFailure, Holding
  <2>2. CASE Ack(w) \/ Nack(w)
    BY <1>2, <2>2 DEF Ack, Nack, Settle, Finished, Holding
  <2>3. QED
    BY <1>5, <1>6, <2>1, <2>2 DEF Work
<1>7. CASE Crash \/ CancelAndClose
  <2>1. Crowd' = {} /\ Len(inner') = 0
    BY <1>7, EmptySeq DEF Crash, CancelAndClose, MemoryLost, Crowd, InState, Holding
  <2>2. QED
    BY <1>0, <1>1, <2>1
<1>8. CASE ChannelLost
  BY <1>8 DEF ChannelLost, Inject
<1>9. CASE (\E m \in Message : Deliver(m)) \/ ListenerFails \/ BeginShutdown \/ JoinEnds
  BY <1>2, <1>9 DEF Deliver, ListenerFails, BeginShutdown, JoinEnds
<1>10. CASE UNCHANGED vars
  BY <1>2, <1>10 DEF vars
<1>11. QED
  BY <1>3, <1>4, <1>6, <1>7, <1>8, <1>9, <1>10 DEF Next

\* A worker is attached only when two others are left to come.
LEMMA AttachStep ==
    ASSUME PoolInv, Prefetch > 2, Receive, AlmostFull
    PROVE  PoolBound'
<1> USE DEF PoolInv, CopyInv, TypeInv, TypeOK
<1>1. InState({"due"}) = {} /\ InState({"waiting"}) = {}
  <2>1. InState({"due"}) = {} /\ Cardinality(InState({"due"})) = 0
    BY FS_EmptySet DEF Receive
  <2>2. Len(inner) \in Nat /\ Len(inner) > 0
    BY LenProperties, ConsumerAssumption DEF AlmostFull
  <2>3. QED
    BY <2>1, <2>2 DEF NoLostWakeup
<1>2. Present = Crowd
  BY <1>1 DEF Present, Crowd, InState, PC, Holding
<1>3. PICK k \in Nat : k = Cardinality(Crowd) /\ k <= 2
  <2>1. Crowd \in SUBSET Worker
    BY DEF Crowd, InState
  <2>2. Cardinality(Crowd) \in Nat
    BY <2>1, WorkersFinite
  <2>3. Len(inner) \in Nat /\ Len(inner) + 2 = Prefetch
    BY LenProperties DEF AlmostFull
  <2>4. QED
    BY <2>2, <2>3 DEF CrowdBound
<1>4. PICK a : Attached \subseteq {a}
  BY DEF Attached, AlmostFull, InState, Worker
<1>5. Present' \subseteq Crowd \cup {a}
  <2>1. PICK woken \in Wakeable :
            pc' = [w \in Worker |-> IF w \in woken \cup Attached \cup InState({"yielding"})
                                    THEN "due" ELSE pc[w]]
    BY DEF Receive
  <2>2. woken = {}
    BY <1>1, <2>1 DEF Wakeable
  <2>3. \A w \in Worker : pc'[w] # "absent" => w \in Attached \/ pc[w] # "absent"
    BY <2>1, <2>2 DEF InState
  <2>4. QED
    BY <1>2, <1>4, <2>3 DEF Present, InState
<1>6. IsFiniteSet(Crowd \cup {a}) /\ Cardinality(Crowd \cup {a}) <= 3
  <2>1. Crowd \in SUBSET Worker
    BY DEF Crowd, InState
  <2>2. Cardinality(Crowd \cup {a}) \in {k, k + 1} /\ IsFiniteSet(Crowd \cup {a})
    BY <1>3, <2>1, WorkersFinite, FS_AddElement
  <2>3. QED
    BY <1>3, <2>2
<1>7. PICK present : present = Present' /\ present \in SUBSET (Crowd \cup {a})
  BY <1>5
<1>8. Cardinality(present) \in Nat /\ Cardinality(present) <= 3
  <2>1. IsFiniteSet(present) /\ Cardinality(present) <= Cardinality(Crowd \cup {a})
    BY <1>6, <1>7, FS_Subset
  <2>2. Cardinality(present) \in Nat /\ Cardinality(Crowd \cup {a}) \in Nat
    BY <1>6, <2>1, FS_CardinalityType
  <2>3. QED
    BY <1>6, <2>1, <2>2
<1>9. QED
  BY <1>7, <1>8, ConsumerAssumption DEF PoolBound, Present

LEMMA PoolStep ==
    ASSUME PoolInv, Prefetch > 2, [Next]_vars
    PROVE  PoolBound'
<1> USE DEF PoolInv, CopyInv, TypeInv, TypeOK
<1>1. ASSUME \A w \in Worker : pc'[w] # "absent" => pc[w] # "absent"
      PROVE  PoolBound'
  <2>1. PICK old \in SUBSET Worker, new \in SUBSET Worker :
          old = Present /\ new = Present' /\ new \in SUBSET old
    <3>1. Present \in SUBSET Worker /\ Present' \in SUBSET Present
      BY <1>1 DEF Present, InState
    <3>2. QED
      BY <3>1
  <2>2. Cardinality(new) <= Cardinality(old)
    BY <2>1, WorkersFinite, FS_Subset
  <2>3. Cardinality(new) \in Nat /\ Cardinality(old) \in Nat
    BY <2>1, WorkersFinite
  <2>4. QED
    BY <2>1, <2>2, <2>3, ConsumerAssumption DEF PoolBound, Present
<1>2. CASE Start
  <2>1. Present' = 1 .. Parallelism
    BY <1>2, ConsumerAssumption DEF Start, Present, InState, Worker
  <2>2. Cardinality(1 .. Parallelism) = Parallelism
    BY FS_Interval, ConsumerAssumption
  <2>3. Cardinality(Present') = Parallelism
    BY <2>1, <2>2
  <2>4. QED
    BY <2>3, ConsumerAssumption DEF PoolBound, Present
<1>3. CASE Receive
  <2>1. CASE AlmostFull
    BY <1>3, <2>1, AttachStep
  <2>2. CASE ~ AlmostFull
    <3>1. PICK woken \in Wakeable :
              pc' = [w \in Worker |-> IF w \in woken \cup Attached \cup InState({"yielding"})
                                      THEN "due" ELSE pc[w]]
      BY <1>3 DEF Receive
    <3>2. \A w \in woken \cup Attached \cup InState({"yielding"}) : pc[w] # "absent"
      BY <2>2, <3>1 DEF Wakeable, Attached, InState
    <3>3. QED
      BY <1>1, <3>1, <3>2
  <2>3. QED
    BY <2>1, <2>2
<1>4. ASSUME NEW w \in Worker, Work(w)
      PROVE  PoolBound'
  BY <1>1, <1>4 DEF Work, Take, Wait, Succeed, Refuse, DatabaseFailure, Ack, Nack, Settle, Finished
<1>5. CASE Crash \/ CancelAndClose
  BY <1>1, <1>5 DEF Crash, CancelAndClose, MemoryLost
<1>6. CASE (\E m \in Message : Deliver(m)) \/ ListenerFails \/ ChannelLost \/ BeginShutdown \/ JoinEnds
  BY <1>1, <1>6 DEF Deliver, ListenerFails, ChannelLost, BeginShutdown, JoinEnds
<1>7. CASE UNCHANGED vars
  BY <1>1, <1>7 DEF vars
<1>8. QED
  BY <1>2, <1>3, <1>4, <1>5, <1>6, <1>7 DEF Next

\* With a prefetch count of three or more, and a channel that is not lost,
\* the workers that listen() attaches, and that nothing removes, are never
\* more than three, or than those the process started with.
THEOREM PoolBounded ==
    ASSUME "channel" \notin FaultKinds, Prefetch > 2
    PROVE  Spec => []PoolBound
<1>1. Init => PoolInv
  <2> SUFFICES ASSUME Init PROVE PoolInv
    OBVIOUS
  <2>1. CopyInv
    BY InitCopies
  <2>2. NoLostWakeup
    BY DEF Init, NoLostWakeup, InState
  <2>3. AllLive(buffer) /\ AllLive(inner) /\ HoldLive
    BY DEF Init, AllLive, HoldLive, InState, Holding
  <2>4. Present = {} /\ Crowd = {} /\ Len(inner) = 0
    BY EmptySeq DEF Init, Present, Crowd, InState, Holding
  <2>5. Cardinality({}) = 0
    BY FS_EmptySet
  <2>6. Window /\ CrowdBound /\ PoolBound
    <3>1. Cardinality(unacked) = 0 /\ Cardinality(Crowd) = 0 /\ Cardinality(Present) = 0
      BY <2>4, <2>5 DEF Init
    <3>2. Window /\ CrowdBound
      BY <2>4, <3>1, ConsumerAssumption DEF Window, CrowdBound
    <3>3. PoolBound
      BY <3>1, ConsumerAssumption DEF PoolBound, Present
    <3>4. QED
      BY <3>2, <3>3
  <2>7. QED
    BY <2>1, <2>2, <2>3, <2>6 DEF PoolInv
<1>2. PoolInv /\ [Next]_vars => PoolInv'
  <2> SUFFICES ASSUME PoolInv, [Next]_vars PROVE PoolInv'
    OBVIOUS
  <2>1. CopyInv' /\ NoLostWakeup'
    BY TypeStep, CopyStep, WakeStep DEF PoolInv, CopyInv, WakeInv
  <2>2. Window'
    BY WindowStep DEF PoolInv, CopyInv
  <2>3. QED
    BY <2>1, <2>2, LiveStep, CrowdStep, PoolStep DEF PoolInv
<1>3. PoolInv => PoolBound
  BY DEF PoolInv
<1>4. QED
  BY <1>1, <1>2, <1>3, PTL DEF Spec

=============================================================================
