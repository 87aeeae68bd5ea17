-------------------------- MODULE OrderSagaProofs ---------------------------
(***************************************************************************)
(* Proofs about OrderSaga for any number of orders and couriers, and any   *)
(* number of crashes and failing calls.                                    *)
(***************************************************************************)
EXTENDS OrderSaga, TLAPS

\* Offsets stay within their topics, and a running handler has a message.
OffsetsOK ==
    \A c \in Consumers :
        /\ committed[c] <= pos[c] /\ pos[c] <= Len(log[TopicOf(c)])
        /\ pc[c] # "idle" => pos[c] < Len(log[TopicOf(c)])

BusOK == BusTypeOK /\ OffsetsOK

-----------------------------------------------------------------------------
(***************************************************************************)
(* Facts about the bus.                                                    *)
(***************************************************************************)
\* Every consumer group of the platform reads a topic of pkg/events.
LEMMA TopicOfType == \A c \in Consumers : TopicOf(c) \in Topics
  BY DEF Consumers, OrderGroups, PaymentGroups, RestaurantGroups, DeliveryGroups,
         TopicOf, Topics

\* Whatever its topic, a message is about an order.
LEMMA PayloadType ==
    /\ \A t \in Topics : Payload(t) \subseteq Message
    /\ \A m \in Message : m.order \in Orders
    /\ \A o \in Orders, k \in Couriers :
          [order |-> o, courier |-> k] \in Payload("courier.assigned")
    /\ \A o \in Orders, b \in BOOLEAN :
          [order |-> o, refundRequired |-> b] \in Payload("order.cancelled")
    /\ \A o \in Orders, s \in Statuses :
          [order |-> o, status |-> s] \in Payload("order.status.changed")
    /\ \A o \in Orders :
          \A t \in Topics \ {"courier.assigned", "order.cancelled", "order.status.changed"} :
             [order |-> o] \in Payload(t)
  <1>1. \A t \in Topics : Payload(t) \subseteq Message
    BY DEF Message
  <1>2. ASSUME NEW t \in Topics, NEW m \in Payload(t)
        PROVE  m.order \in Orders
    BY DEF Payload
  <1>3. \A m \in Message : m.order \in Orders
    BY <1>2 DEF Message
  <1> QED
    BY <1>1, <1>3 DEF Payload

\* The message a consumer has before it was published, about some order.
LEMMA CurrentMessage ==
    ASSUME BusOK, NEW c \in Consumers, pos[c] < Len(log[TopicOf(c)])
    PROVE  /\ Current(c) \in Payload(TopicOf(c))
           /\ OrderOf(c) \in Orders
           /\ Published(TopicOf(c), OrderOf(c))
  <1>1. TopicOf(c) \in Topics
    BY TopicOfType
  <1>2. log[TopicOf(c)] \in Seq(Payload(TopicOf(c))) /\ pos[c] \in Nat
    BY <1>1 DEF BusOK, BusTypeOK
  <1>3. pos[c] + 1 \in 1..Len(log[TopicOf(c)])
    BY <1>2
  <1>4. Current(c) \in Payload(TopicOf(c))
    BY <1>2, <1>3 DEF Current
  <1> QED
    BY <1>1, <1>3, <1>4, PayloadType DEF OrderOf, Published, Current

\* Writing keeps what is in a topic and adds at most one message to it.
LEMMA WriteKeeps ==
    ASSUME BusOK, NEW t \in Topics, NEW m \in Payload(t), Write(t, m)
    PROVE  /\ log' \in [Topics -> Seq(Message)]
           /\ \A u \in Topics : log'[u] \in Seq(Payload(u))
           /\ \A u \in Topics : Len(log[u]) <= Len(log'[u])
           /\ \A u \in Topics : \A i \in 1..Len(log[u]) : log'[u][i] = log[u][i]
           /\ \A u \in Topics, o \in Orders :
                Published(u, o)' => Published(u, o) \/ (u = t /\ o = m.order)
  <1>0. m \in Message
    BY PayloadType
  <1>1. log \in [Topics -> Seq(Message)] /\ log' = [log EXCEPT ![t] = Append(@, m)]
    BY DEF BusOK, BusTypeOK, Write
  <1>2. log' \in [Topics -> Seq(Message)]
    BY <1>0, <1>1
  <1>3. \A u \in Topics : u # t => log'[u] = log[u]
    BY <1>1
  <1>4. /\ log'[t] = Append(log[t], m) /\ log[t] \in Seq(Message)
        /\ Len(log'[t]) = Len(log[t]) + 1 /\ Len(log[t]) \in Nat
        /\ \A i \in 1..Len(log[t]) : log'[t][i] = log[t][i]
        /\ log'[t][Len(log[t]) + 1] = m
    BY <1>0, <1>1
  <1>5. ASSUME NEW u \in Topics
        PROVE  log'[u] \in Seq(Payload(u))
    <2>1. log[u] \in Seq(Payload(u))
      BY DEF BusOK, BusTypeOK
    <2>2. CASE u # t
      BY <1>3, <2>1, <2>2
    <2>3. CASE u = t
      <3> DEFINE P == Payload(t)
      <3>1. log[t] \in Seq(P) /\ m \in P
        BY <2>1, <2>3
      <3> HIDE DEF P
      <3>2. Append(log[t], m) \in Seq(P)
        BY <3>1
      <3> QED
        BY <1>4, <2>3, <3>2 DEF P
    <2> QED
      BY <2>2, <2>3
  <1>6. \A u \in Topics : Len(log[u]) <= Len(log'[u])
    BY <1>1, <1>3, <1>4
  <1>7. \A u \in Topics : \A i \in 1..Len(log[u]) : log'[u][i] = log[u][i]
    BY <1>3, <1>4
  <1>8. ASSUME NEW u \in Topics, NEW o \in Orders, Published(u, o)'
        PROVE  Published(u, o) \/ (u = t /\ o = m.order)
    <2>1. PICK i \in 1..Len(log'[u]) : log'[u][i].order = o
      BY <1>8 DEF Published
    <2>2. CASE u # t
      BY <1>3, <2>1, <2>2 DEF Published
    <2>3. CASE u = t /\ i \in 1..Len(log[t])
      BY <1>4, <2>1, <2>3 DEF Published
    <2>4. CASE u = t /\ i = Len(log[t]) + 1
      BY <1>4, <2>1, <2>4
    <2> QED
      BY <1>4, <2>1, <2>2, <2>3, <2>4
  <1> QED
    BY <1>2, <1>5, <1>6, <1>7, <1>8

-----------------------------------------------------------------------------
(***************************************************************************)
(* Every step of a handler is an instance of HandlerStep, and every step   *)
(* of a request or of a goroutine an instance of GoroutineStep.            *)
(***************************************************************************)
LogStep == UNCHANGED log \/ \E t \in Topics : \E m \in Payload(t) : Write(t, m)

HandlerStep(c) ==
    /\ pos[c] < Len(log[TopicOf(c)])
    /\ Stay \/ Finish(c) \/ \E s \in Steps : Goto(c, s)
    /\ NoError \/ OneError
    /\ LogStep
    /\ UNCHANGED <<committed, crashes>>

GoroutineStep ==
    /\ NoError \/ OneError
    /\ LogStep
    /\ UNCHANGED <<committed, crashes, pc, pos>>

\* A topic is append-only, and only messages of its type get into it.
LEMMA LogStepKeeps ==
    ASSUME BusOK, LogStep
    PROVE  /\ log' \in [Topics -> Seq(Message)]
           /\ \A u \in Topics : log'[u] \in Seq(Payload(u))
           /\ \A u \in Topics : Len(log[u]) <= Len(log'[u])
           /\ \A u \in Topics : \A i \in 1..Len(log[u]) : log'[u][i] = log[u][i]
  <1>1. CASE UNCHANGED log
    <2>1. log \in [Topics -> Seq(Message)] /\ \A u \in Topics : log[u] \in Seq(Payload(u))
      BY DEF BusOK, BusTypeOK
    <2>2. \A u \in Topics : Len(log[u]) \in Nat
      BY <2>1
    <2> QED
      BY <1>1, <2>1, <2>2
  <1>2. CASE \E t \in Topics : \E m \in Payload(t) : Write(t, m)
    BY <1>2, WriteKeeps
  <1> QED
    BY <1>1, <1>2 DEF LogStep

\* A step of a handler keeps the offsets within their topics: it moves past a
\* message that is there, and nothing that is there goes away.
LEMMA HandlerStepOK ==
    ASSUME BusOK, NEW c \in Consumers, HandlerStep(c)
    PROVE  BusOK'
  <1>1. /\ log' \in [Topics -> Seq(Message)]
        /\ \A u \in Topics : log'[u] \in Seq(Payload(u))
        /\ \A u \in Topics : Len(log[u]) <= Len(log'[u])
    BY LogStepKeeps DEF HandlerStep
  <1>2. \A d \in Consumers : /\ TopicOf(d) \in Topics
                             /\ Len(log[TopicOf(d)]) \in Nat
                             /\ Len(log'[TopicOf(d)]) \in Nat
                             /\ Len(log[TopicOf(d)]) <= Len(log'[TopicOf(d)])
    BY <1>1, TopicOfType DEF BusOK, BusTypeOK
  <1>3. errors' \in 0..MaxErrors /\ crashes' \in 0..MaxCrashes
    BY BoundsAssumption DEF BusOK, BusTypeOK, HandlerStep, NoError, OneError
  <1>4. /\ pos \in [Consumers -> Nat] /\ committed \in [Consumers -> Nat]
        /\ pc \in [Consumers -> Steps] /\ committed' = committed
        /\ "idle" \in Steps
    BY DEF BusOK, BusTypeOK, HandlerStep, Steps
  <1>5. CASE Stay
    <2>1. pc' = pc /\ pos' = pos
      BY <1>5 DEF Stay
    <2> QED
      BY <1>1, <1>2, <1>3, <1>4, <2>1 DEF BusOK, BusTypeOK, OffsetsOK
  <1>6. CASE Finish(c)
    <2>1. pc' = [pc EXCEPT ![c] = "idle"] /\ pos' = [pos EXCEPT ![c] = @ + 1]
      BY <1>6 DEF Finish
    <2>2. pc' \in [Consumers -> Steps] /\ pos' \in [Consumers -> Nat]
      BY <1>4, <2>1
    <2>3. \A d \in Consumers :
            /\ committed'[d] <= pos'[d] /\ pos'[d] <= Len(log'[TopicOf(d)])
            /\ pc'[d] # "idle" => pos'[d] < Len(log'[TopicOf(d)])
      BY <1>2, <1>4, <2>1 DEF BusOK, OffsetsOK, HandlerStep
    <2> QED
      BY <1>1, <1>3, <1>4, <2>2, <2>3 DEF BusOK, BusTypeOK, OffsetsOK
  <1>7. ASSUME NEW s \in Steps, Goto(c, s) PROVE BusOK'
    <2>1. pc' = [pc EXCEPT ![c] = s] /\ pos' = pos
      BY <1>7 DEF Goto
    <2>2. pc' \in [Consumers -> Steps]
      BY <1>4, <2>1
    <2>3. \A d \in Consumers :
            /\ committed'[d] <= pos'[d] /\ pos'[d] <= Len(log'[TopicOf(d)])
            /\ pc'[d] # "idle" => pos'[d] < Len(log'[TopicOf(d)])
      BY <1>2, <1>4, <2>1 DEF BusOK, OffsetsOK, HandlerStep
    <2> QED
      BY <1>1, <1>3, <1>4, <2>1, <2>2, <2>3 DEF BusOK, BusTypeOK, OffsetsOK
  <1> QED
    BY <1>5, <1>6, <1>7 DEF HandlerStep

\* A step in which no consumer moves keeps the offsets within their topics.
LEMMA GoroutineStepOK ==
    ASSUME BusOK, GoroutineStep
    PROVE  BusOK'
  <1>1. /\ log' \in [Topics -> Seq(Message)]
        /\ \A u \in Topics : log'[u] \in Seq(Payload(u))
        /\ \A u \in Topics : Len(log[u]) <= Len(log'[u])
    BY LogStepKeeps DEF GoroutineStep
  <1>2. \A d \in Consumers : /\ TopicOf(d) \in Topics
                             /\ Len(log[TopicOf(d)]) \in Nat
                             /\ Len(log'[TopicOf(d)]) \in Nat
                             /\ Len(log[TopicOf(d)]) <= Len(log'[TopicOf(d)])
    BY <1>1, TopicOfType DEF BusOK, BusTypeOK
  <1>3. errors' \in 0..MaxErrors
    BY BoundsAssumption DEF BusOK, BusTypeOK, GoroutineStep, NoError, OneError
  <1> QED
    BY <1>1, <1>2, <1>3 DEF BusOK, BusTypeOK, OffsetsOK, GoroutineStep

\* After a restart a group is between its stored offset and its old position.
LEMMA RestartOK ==
    ASSUME BusOK, NEW groups, groups \subseteq Consumers, Restart(groups)
    PROVE  /\ BusOK'
           /\ log' = log
           /\ pc' = [c \in Consumers |-> IF c \in groups THEN "idle" ELSE pc[c]]
           /\ \A c \in Consumers \ groups : pos'[c] = pos[c]
  <1>1. PICK f \in StoredOffsets(groups) :
          /\ pos' = [c \in Consumers |-> IF c \in groups THEN f[c] ELSE pos[c]]
          /\ committed' = [c \in Consumers |-> IF c \in groups THEN f[c] ELSE committed[c]]
    BY DEF Restart
  <1>2. pos \in [Consumers -> Nat] /\ committed \in [Consumers -> Nat]
    BY DEF BusOK, BusTypeOK
  <1>3. \A c \in groups : f[c] \in committed[c]..pos[c]
    BY <1>1 DEF StoredOffsets
  <1>4. \A c \in groups : f[c] \in Nat /\ f[c] <= pos[c]
    BY <1>2, <1>3
  <1>5. /\ log' = log /\ errors' = errors
        /\ crashes' \in 0..MaxCrashes
        /\ pc' = [c \in Consumers |-> IF c \in groups THEN "idle" ELSE pc[c]]
    BY BoundsAssumption DEF Restart, BusOK, BusTypeOK
  <1>6. /\ pos' \in [Consumers -> Nat] /\ committed' \in [Consumers -> Nat]
        /\ pc' \in [Consumers -> Steps]
    BY <1>1, <1>2, <1>4, <1>5 DEF BusOK, BusTypeOK, Steps
  <1>7. \A c \in Consumers : TopicOf(c) \in Topics /\ Len(log[TopicOf(c)]) \in Nat
    BY TopicOfType DEF BusOK, BusTypeOK
  <1>8. \A c \in Consumers :
          /\ committed'[c] <= pos'[c] /\ pos'[c] <= Len(log[TopicOf(c)])
          /\ pc'[c] # "idle" => pos'[c] < Len(log[TopicOf(c)])
    BY <1>1, <1>2, <1>4, <1>5, <1>7 DEF BusOK, OffsetsOK
  <1> QED
    BY <1>1, <1>5, <1>6, <1>8 DEF BusOK, BusTypeOK, OffsetsOK

-----------------------------------------------------------------------------
(***************************************************************************)
(* What a consumer does to the bus: it handles a message that was          *)
(* published to its topic, and publishes about the same order.             *)
(***************************************************************************)
Writes(topics, o) ==
    UNCHANGED log \/ \E t \in topics \cap Topics : \E m \in Payload(t) : m.order = o /\ Write(t, m)

BusEffect(c, topics) ==
    /\ HandlerStep(c)
    /\ Writes(topics, OrderOf(c))
    /\ OrderOf(c) \in Orders
    /\ Published(TopicOf(c), OrderOf(c))
    /\ \A u \in Topics, o \in Orders :
          Published(u, o)' => Published(u, o) \/ (u \in topics /\ o = OrderOf(c))

\* A consumer that fetches a message and decides what to do publishes nothing.
LEMMA FetchEffect ==
    ASSUME BusOK, NEW c \in Consumers, HasMessage(c), NEW topics,
           Finish(c) \/ \E step \in Steps : Goto(c, step),
           NoError \/ OneError,
           UNCHANGED <<log, committed, crashes>>
    PROVE  BusEffect(c, topics)
  <1>1. HandlerStep(c)
    BY DEF HandlerStep, HasMessage, LogStep
  <1> QED
    BY <1>1, CurrentMessage DEF BusEffect, HandlerStep, Published, Writes

\* The same for the handlers that ignore some of their messages.
LEMMA ReceiveEffect ==
    ASSUME BusOK, NEW c \in Consumers, NEW ignored, NEW step \in Steps, NEW topics,
           Receive(c, ignored, step), UNCHANGED <<committed, crashes>>
    PROVE  BusEffect(c, topics)
  BY FetchEffect DEF Receive, Fails

\* A consumer that calls its database publishes nothing, and returns or goes on.
LEMMA CallEffect ==
    ASSUME BusOK, NEW c \in Consumers, pc[c] # "idle", NEW step \in Steps, NEW topics,
           \/ Returns(c, step)
           \/ Fails(c)
           \/ Continue(c, step) /\ (NoError \/ OneError),
           UNCHANGED <<log, committed, crashes>>
    PROVE  BusEffect(c, topics)
  <1>1. HandlerStep(c)
    BY DEF Returns, Fails, Continue, HandlerStep, LogStep, BusOK, OffsetsOK
  <1> QED
    BY <1>1, CurrentMessage DEF BusEffect, HandlerStep, Published, Writes

\* A consumer that publishes does so about the order of its message.
LEMMA EmitEffect ==
    ASSUME BusOK, NEW c \in Consumers, pc[c] # "idle",
           NEW topics, NEW t \in Topics, t \in topics,
           NEW m \in Payload(t), m.order = OrderOf(c),
           NEW step \in Steps, NEW onError \in Steps,
           Emit(c, t, m, step, onError), UNCHANGED <<committed, crashes>>
    PROVE  BusEffect(c, topics)
  <1>1. HandlerStep(c)
    BY DEF Emit, Continue, HandlerStep, LogStep, BusOK, OffsetsOK
  <1>2. OrderOf(c) \in Orders /\ Published(TopicOf(c), OrderOf(c))
    BY <1>1, CurrentMessage DEF HandlerStep
  <1>3. CASE Write(t, m)
    BY <1>1, <1>2, <1>3, WriteKeeps DEF BusEffect, Writes
  <1>4. CASE UNCHANGED log
    BY <1>1, <1>2, <1>4 DEF BusEffect, Published, Writes
  <1> QED
    BY <1>3, <1>4 DEF Emit

\* What is published to some topics is published to those and more.
LEMMA WiderEffect ==
    ASSUME NEW c, NEW topics, NEW more, topics \subseteq more, BusEffect(c, topics)
    PROVE  BusEffect(c, more)
  <1>1. topics \cap Topics \subseteq more \cap Topics
    OBVIOUS
  <1>2. Writes(more, OrderOf(c))
    BY <1>1 DEF BusEffect, Writes
  <1> QED
    BY <1>2 DEF BusEffect

\* What a consumer does to the bus keeps the bus well formed.
LEMMA BusEffectOK ==
    ASSUME BusOK, NEW c \in Consumers, NEW topics, BusEffect(c, topics)
    PROVE  BusOK'
  BY HandlerStepOK DEF BusEffect

\* A consumer that does not move keeps its message.
LEMMA CurrentKept ==
    ASSUME BusOK, LogStep, NEW c \in Consumers, pc[c] # "idle", pos'[c] = pos[c]
    PROVE  Current(c)' = Current(c) /\ OrderOf(c)' = OrderOf(c)
  <1>1. /\ TopicOf(c) \in Topics
        /\ pos[c] + 1 \in 1..Len(log[TopicOf(c)])
    BY TopicOfType DEF BusOK, BusTypeOK, OffsetsOK
  <1>2. log'[TopicOf(c)][pos[c] + 1] = log[TopicOf(c)][pos[c] + 1]
    BY <1>1, LogStepKeeps
  <1>3. Current(c)' = Current(c)
    BY <1>2 DEF Current
  <1> QED
    BY <1>3 DEF OrderOf

-----------------------------------------------------------------------------
(***************************************************************************)
(* The consumers of order-svc: which statuses each of them may write, and  *)
(* to which topics it may publish.                                         *)
(***************************************************************************)
StatusEffect(c, new, topics) ==
    /\ BusEffect(c, topics)
    /\ status' \in [Orders -> Statuses]
    /\ \A o \in Orders : status'[o] = status[o] \/ (o = OrderOf(c) /\ status'[o] \in new)

\* A step that writes no status writes only allowed ones.
LEMMA SameStatus ==
    ASSUME OrderTypeOK, NEW c, NEW new, NEW topics, BusEffect(c, topics), UNCHANGED status
    PROVE  StatusEffect(c, new, topics)
  BY DEF StatusEffect, OrderTypeOK

\* UPDATE orders SET status writes its status to the order of the message.
LEMMA UpdateStatusEffect ==
    ASSUME BusOK, OrderTypeOK, NEW c \in Consumers, pc[c] # "idle",
           NEW new, NEW topics, NEW s \in Statuses, s \in new, NEW step \in Steps,
           UpdateStatus(c, OrderOf(c), s, step), UNCHANGED <<committed, crashes>>
    PROVE  StatusEffect(c, new, topics)
  <1>1. UNCHANGED log /\ (Returns(c, step) \/ Fails(c))
    BY DEF UpdateStatus
  <1>2. BusEffect(c, topics)
    BY <1>1, CallEffect
  <1> QED
    BY <1>2 DEF UpdateStatus, StatusEffect, BusEffect, OrderTypeOK

\* order.status.changed is the only topic that announcing a status writes to.
LEMMA PublishStatusEffect ==
    ASSUME BusOK, OrderTypeOK, NEW c \in Consumers, pc[c] # "idle",
           NEW new, NEW topics, "order.status.changed" \in topics,
           NEW s \in Statuses, NEW step \in Steps,
           PublishStatus(c, OrderOf(c), s, step), UNCHANGED <<committed, crashes>>
    PROVE  StatusEffect(c, new, topics)
  <1> DEFINE m == [order |-> OrderOf(c), status |-> s]
  <1>1. "order.status.changed" \in Topics /\ "idle" \in Steps
    BY DEF Topics, Steps
  <1>2. OrderOf(c) \in Orders
    BY CurrentMessage DEF BusOK, OffsetsOK
  <1>3. m \in Payload("order.status.changed") /\ m.order = OrderOf(c)
    BY <1>2, PayloadType
  <1>4. Emit(c, "order.status.changed", m, step, "idle") /\ UNCHANGED status
    BY DEF PublishStatus
  <1>5. BusEffect(c, topics)
    BY <1>1, <1>3, <1>4, EmitEffect
  <1> QED
    BY <1>4, <1>5, SameStatus

\* payment.processed: the order is PAID and order.paid is published.
LEMMA HandlePaymentProcessedEffect ==
    ASSUME BusOK, OrderTypeOK, HandlePaymentProcessed
    PROVE  /\ StatusEffect("order-svc-payment", {"PAID"}, {"order.paid", "order.status.changed"})
           /\ OrderTypeOK'
  <1> DEFINE c == "order-svc-payment"
             o == OrderOf(c)
             topics == {"order.paid", "order.status.changed"}
  <1>1. /\ c \in Consumers /\ "PAID" \in Statuses
        /\ "order.paid" \in Topics \ {"courier.assigned", "order.cancelled", "order.status.changed"}
        /\ {"idle", "update", "publish", "announce"} \subseteq Steps
    BY DEF Consumers, OrderGroups, Statuses, Topics, Steps
  <1>2. UNCHANGED <<committed, crashes, courierOf, creating, refund>>
    BY DEF HandlePaymentProcessed
  <1> SUFFICES StatusEffect(c, {"PAID"}, topics)
    BY <1>2 DEF StatusEffect, OrderTypeOK
  <1>3. CASE Receive(c, AlreadyPaid(o), "update") /\ UNCHANGED status
    <2>1. BusEffect(c, topics)
      BY <1>1, <1>2, <1>3, ReceiveEffect
    <2> QED
      BY <1>3, <2>1, SameStatus
  <1>4. CASE pc[c] = "update" /\ UpdateStatus(c, o, "PAID", "publish")
    BY <1>1, <1>2, <1>4, UpdateStatusEffect
  <1>5. CASE /\ pc[c] = "publish"
             /\ Emit(c, "order.paid", [order |-> o], "announce", "idle")
             /\ UNCHANGED status
    <2>1. o \in Orders
      BY <1>1, <1>5, CurrentMessage DEF BusOK, OffsetsOK
    <2>2. [order |-> o] \in Payload("order.paid") /\ [order |-> o].order = o
      BY <1>1, <2>1, PayloadType
    <2>3. BusEffect(c, topics)
      BY <1>1, <1>2, <1>5, <2>2, EmitEffect
    <2> QED
      BY <1>5, <2>3, SameStatus
  <1>6. CASE pc[c] = "announce" /\ PublishStatus(c, o, "PAID", "idle")
    BY <1>1, <1>2, <1>6, PublishStatusEffect
  <1> QED
    BY <1>3, <1>4, <1>5, <1>6 DEF HandlePaymentProcessed

\* payment.refunded: the order is REFUNDED, whatever it was.
LEMMA HandlePaymentRefundedEffect ==
    ASSUME BusOK, OrderTypeOK, HandlePaymentRefunded
    PROVE  /\ StatusEffect("order-svc-refunded", {"REFUNDED"}, {"order.status.changed"})
           /\ OrderTypeOK'
  <1> DEFINE c == "order-svc-refunded"
             o == OrderOf(c)
             topics == {"order.status.changed"}
  <1>1. /\ c \in Consumers /\ "REFUNDED" \in Statuses
        /\ {"idle", "update", "announce"} \subseteq Steps
    BY DEF Consumers, OrderGroups, Statuses, Steps
  <1>2. UNCHANGED <<committed, crashes, courierOf, creating, refund>>
    BY DEF HandlePaymentRefunded
  <1> SUFFICES StatusEffect(c, {"REFUNDED"}, topics)
    BY <1>2 DEF StatusEffect, OrderTypeOK
  <1>3. CASE Receive(c, AlreadyRefunded(o), "update") /\ UNCHANGED status
    <2>1. BusEffect(c, topics)
      BY <1>1, <1>2, <1>3, ReceiveEffect
    <2> QED
      BY <1>3, <2>1, SameStatus
  <1>4. CASE pc[c] = "update" /\ UpdateStatus(c, o, "REFUNDED", "announce")
    BY <1>1, <1>2, <1>4, UpdateStatusEffect
  <1>5. CASE pc[c] = "announce" /\ PublishStatus(c, o, "REFUNDED", "idle")
    BY <1>1, <1>2, <1>5, PublishStatusEffect
  <1> QED
    BY <1>3, <1>4, <1>5 DEF HandlePaymentRefunded

\* order.delivered: the order is DELIVERED unless it is already.
LEMMA HandleOrderDeliveredEffect ==
    ASSUME BusOK, OrderTypeOK, HandleOrderDelivered
    PROVE  /\ StatusEffect("order-svc-delivered", {"DELIVERED"}, {"order.status.changed"})
           /\ OrderTypeOK'
  <1> DEFINE c == "order-svc-delivered"
             o == OrderOf(c)
             topics == {"order.status.changed"}
  <1>1. /\ c \in Consumers /\ "DELIVERED" \in Statuses
        /\ {"idle", "update", "announce"} \subseteq Steps
    BY DEF Consumers, OrderGroups, Statuses, Steps
  <1>2. UNCHANGED <<committed, crashes, courierOf, creating, refund>>
    BY DEF HandleOrderDelivered
  <1> SUFFICES StatusEffect(c, {"DELIVERED"}, topics)
    BY <1>2 DEF StatusEffect, OrderTypeOK
  <1>3. CASE Receive(c, AlreadyDelivered(o), "update") /\ UNCHANGED status
    <2>1. BusEffect(c, topics)
      BY <1>1, <1>2, <1>3, ReceiveEffect
    <2> QED
      BY <1>3, <2>1, SameStatus
  <1>4. CASE pc[c] = "update" /\ UpdateStatus(c, o, "DELIVERED", "announce")
    BY <1>1, <1>2, <1>4, UpdateStatusEffect
  <1>5. CASE pc[c] = "announce" /\ PublishStatus(c, o, "DELIVERED", "idle")
    BY <1>1, <1>2, <1>5, PublishStatusEffect
  <1> QED
    BY <1>3, <1>4, <1>5 DEF HandleOrderDelivered

\* courier.assigned: the order is DELIVERING, with the courier of the message.
LEMMA HandleCourierAssignedEffect ==
    ASSUME BusOK, OrderTypeOK, HandleCourierAssigned
    PROVE  /\ StatusEffect("order-svc-courier", {"DELIVERING"}, {})
           /\ OrderTypeOK'
  <1> DEFINE c == "order-svc-courier"
             o == OrderOf(c)
  <1>1. /\ c \in Consumers /\ "DELIVERING" \in Statuses /\ {"idle", "update"} \subseteq Steps
        /\ TopicOf(c) = "courier.assigned"
    BY DEF Consumers, OrderGroups, Statuses, Steps, TopicOf
  <1>2. UNCHANGED <<committed, crashes, creating, refund>>
    BY DEF HandleCourierAssigned
  <1>3. CASE Receive(c, AlreadyAssigned(o), "update") /\ UNCHANGED <<status, courierOf>>
    <2>1. BusEffect(c, {})
      BY <1>1, <1>2, <1>3, ReceiveEffect
    <2> QED
      BY <1>2, <1>3, <2>1, SameStatus DEF OrderTypeOK
  <1>4. CASE pc[c] = "update" /\ AssignCourier(c, o, Current(c).courier)
    <2>1. Current(c) \in Payload("courier.assigned") /\ o \in Orders
      BY <1>1, <1>4, CurrentMessage DEF BusOK, OffsetsOK
    <2>2. Current(c).courier \in Couriers
      BY <2>1 DEF Payload
    <2>3. UNCHANGED log /\ (Returns(c, "idle") \/ Fails(c))
      BY <1>4 DEF AssignCourier
    <2>4. BusEffect(c, {})
      BY <1>1, <1>2, <1>4, <2>3, CallEffect
    <2>5. StatusEffect(c, {"DELIVERING"}, {})
      BY <1>1, <1>4, <2>1, <2>4 DEF AssignCourier, StatusEffect, OrderTypeOK
    <2> QED
      BY <1>2, <1>4, <2>2, <2>5 DEF AssignCourier, StatusEffect, OrderTypeOK
  <1> QED
    BY <1>3, <1>4 DEF HandleCourierAssigned

-----------------------------------------------------------------------------
(***************************************************************************)
(* Cancellation in order-svc.                                              *)
(***************************************************************************)
SayCancelled == {"order.status.changed", "order.cancelled"}
CancelTopics == SayCancelled \cup {"payment.refund.requested"}

\* cancelOrder writes CANCELLED and says so.
LEMMA CancelOrderEffect ==
    ASSUME BusOK, OrderTypeOK, NEW c \in CancelGroups, CancelOrder(c, OrderOf(c)),
           UNCHANGED <<committed, crashes>>
    PROVE  StatusEffect(c, {"CANCELLED"}, SayCancelled)
  <1> DEFINE o == OrderOf(c)
             m == [order |-> o, refundRequired |-> refund[c]]
  <1>1. /\ c \in Consumers /\ "CANCELLED" \in Statuses
        /\ "order.cancelled" \in Topics
        /\ {"order.cancelled", "order.status.changed"} \subseteq SayCancelled
        /\ {"idle", "announceCancel", "publishCancelled", "requestRefund"} \subseteq Steps
    BY DEF CancelGroups, Consumers, OrderGroups, Statuses, Topics, SayCancelled, Steps
  <1>2. CASE pc[c] = "cancel" /\ UpdateStatus(c, o, "CANCELLED", "announceCancel")
    BY <1>1, <1>2, UpdateStatusEffect
  <1>3. CASE pc[c] = "announceCancel" /\ PublishStatus(c, o, "CANCELLED", "publishCancelled")
    BY <1>1, <1>3, PublishStatusEffect
  <1>4. CASE /\ pc[c] = "publishCancelled"
             /\ Emit(c, "order.cancelled", m, AfterCancel(c), "idle")
             /\ UNCHANGED status
    <2>1. o \in Orders
      BY <1>1, <1>4, CurrentMessage DEF BusOK, OffsetsOK
    <2>2. m \in Payload("order.cancelled") /\ m.order = o /\ AfterCancel(c) \in Steps
      BY <1>1, <2>1, PayloadType DEF OrderTypeOK, AfterCancel
    <2>3. BusEffect(c, SayCancelled)
      BY <1>1, <1>4, <2>2, EmitEffect
    <2> QED
      BY <1>4, <2>3, SameStatus
  <1> QED
    BY <1>2, <1>3, <1>4 DEF CancelOrder

\* payment.failed: the order is CANCELLED.
LEMMA HandlePaymentFailedEffect ==
    ASSUME BusOK, OrderTypeOK, HandlePaymentFailed
    PROVE  /\ StatusEffect("order-svc-payment-failed", {"CANCELLED"}, SayCancelled)
           /\ OrderTypeOK'
  <1> DEFINE c == "order-svc-payment-failed"
             o == OrderOf(c)
  <1>1. c \in Consumers /\ c \in CancelGroups /\ "cancel" \in Steps
    BY DEF Consumers, OrderGroups, CancelGroups, Steps
  <1>2. UNCHANGED <<committed, crashes, courierOf, creating, refund>>
    BY DEF HandlePaymentFailed
  <1> SUFFICES StatusEffect(c, {"CANCELLED"}, SayCancelled)
    BY <1>2 DEF StatusEffect, OrderTypeOK
  <1>3. CASE Receive(c, AlreadyCancelled(o), "cancel") /\ UNCHANGED status
    <2>1. BusEffect(c, SayCancelled)
      BY <1>1, <1>2, <1>3, ReceiveEffect
    <2> QED
      BY <1>3, <2>1, SameStatus
  <1>4. CASE CancelOrder(c, o)
    BY <1>1, <1>2, <1>4, CancelOrderEffect
  <1> QED
    BY <1>3, <1>4 DEF HandlePaymentFailed

\* order.preparation.failed and delivery.failed: CANCELLED, with a refund.
LEMMA CancelWithRefundEffect ==
    ASSUME BusOK, OrderTypeOK,
           NEW c \in {"order-svc-prep-failed", "order-svc-delivery-failed"},
           CancelWithRefund(c)
    PROVE  /\ StatusEffect(c, {"CANCELLED"}, CancelTopics)
           /\ OrderTypeOK'
  <1> DEFINE o == OrderOf(c)
  <1>1. /\ c \in Consumers /\ c \in CancelGroups
        /\ {"idle", "recheck", "cancel", "requestRefund"} \subseteq Steps
        /\ AfterCancel(c) \in Steps
        /\ "payment.refund.requested" \in CancelTopics
        /\ "payment.refund.requested" \in
              Topics \ {"courier.assigned", "order.cancelled", "order.status.changed"}
    BY DEF Consumers, OrderGroups, CancelGroups, Steps, AfterCancel, Topics, CancelTopics
  <1>2. UNCHANGED <<committed, crashes, courierOf, creating>>
    BY DEF CancelWithRefund
  <1>3. refund' \in [CancelGroups -> BOOLEAN]
    BY DEF CancelWithRefund, OrderTypeOK
  <1> SUFFICES StatusEffect(c, {"CANCELLED"}, CancelTopics)
    BY <1>2, <1>3 DEF StatusEffect, OrderTypeOK
  <1>4. CASE Receive(c, AlreadyCancelled(o), "recheck") /\ UNCHANGED status
    <2>1. BusEffect(c, CancelTopics)
      BY <1>1, <1>2, <1>4, ReceiveEffect
    <2> QED
      BY <1>4, <2>1, SameStatus
  <1>5. CASE /\ pc[c] = "recheck"
             /\ \/ Continue(c, AfterCancel(c)) /\ NoError
                \/ Goto(c, "cancel") /\ NoError
                \/ Fails(c)
             /\ UNCHANGED <<log, status>>
    <2>1. \/ Continue(c, AfterCancel(c)) /\ (NoError \/ OneError)
          \/ Continue(c, "cancel") /\ (NoError \/ OneError)
          \/ Fails(c)
      BY <1>5 DEF Continue
    <2>2. BusEffect(c, CancelTopics)
      BY <1>1, <1>2, <1>5, <2>1, CallEffect
    <2> QED
      BY <1>5, <2>2, SameStatus
  <1>6. CASE CancelOrder(c, o)
    <2>1. StatusEffect(c, {"CANCELLED"}, SayCancelled)
      BY <1>1, <1>2, <1>6, CancelOrderEffect
    <2>2. SayCancelled \subseteq CancelTopics
      BY DEF SayCancelled, CancelTopics
    <2> QED
      BY <2>1, <2>2, WiderEffect DEF StatusEffect
  <1>7. CASE /\ pc[c] = "requestRefund"
             /\ Emit(c, "payment.refund.requested", [order |-> o], "idle", "idle")
             /\ UNCHANGED status
    <2>1. o \in Orders
      BY <1>1, <1>7, CurrentMessage DEF BusOK, OffsetsOK
    <2>2. /\ [order |-> o] \in Payload("payment.refund.requested")
          /\ [order |-> o].order = o
      BY <1>1, <2>1, PayloadType
    <2>3. BusEffect(c, CancelTopics)
      BY <1>1, <1>2, <1>7, <2>2, EmitEffect
    <2> QED
      BY <1>7, <2>3, SameStatus
  <1> QED
    BY <1>4, <1>5, <1>6, <1>7 DEF CancelWithRefund

-----------------------------------------------------------------------------
(***************************************************************************)
(* Requests and goroutines: they publish about one order, and no consumer  *)
(* moves.                                                                  *)
(***************************************************************************)
GoroutineEffect(o, topics) ==
    /\ GoroutineStep
    /\ Writes(topics, o)
    /\ \A u \in Topics, p \in Orders :
          Published(u, p)' => Published(u, p) \/ (u \in topics /\ p = o)

\* A publish whose error is dropped writes to its topic or to none.
LEMMA EmitAndForgetEffect ==
    ASSUME BusOK, NEW t \in Topics, NEW m \in Payload(t),
           Write(t, m) \/ UNCHANGED log,
           NoError \/ OneError,
           UNCHANGED <<pos, committed, pc, crashes>>
    PROVE  GoroutineEffect(m.order, {t})
  <1>1. GoroutineStep
    BY DEF GoroutineStep, LogStep
  <1>2. CASE Write(t, m)
    BY <1>1, <1>2, WriteKeeps DEF GoroutineEffect, Writes
  <1>3. CASE UNCHANGED log
    BY <1>1, <1>3 DEF GoroutineEffect, Published, Writes
  <1> QED
    BY <1>2, <1>3

\* POST /orders inserts a PENDING row and publishes nothing yet.
LEMMA CreateOrderEffect ==
    ASSUME BusOK, OrderTypeOK, NEW o \in Orders, CreateOrder(o)
    PROVE  /\ GoroutineEffect(o, {})
           /\ OrderTypeOK'
           /\ \A p \in Orders : status'[p] = status[p] \/ status'[p] = "PENDING"
  <1>1. GoroutineStep /\ UNCHANGED log
    BY DEF CreateOrder, GoroutineStep, LogStep
  <1>2. GoroutineEffect(o, {})
    BY <1>1 DEF GoroutineEffect, Published, Writes
  <1>3. "PENDING" \in Statuses
    BY DEF Statuses
  <1> QED
    BY <1>2, <1>3 DEF CreateOrder, OrderTypeOK

\* The second half of POST /orders publishes order.created and writes no row.
LEMMA PublishCreatedEffect ==
    ASSUME BusOK, OrderTypeOK, NEW o \in Orders, PublishCreated(o)
    PROVE  GoroutineEffect(o, {"order.created"}) /\ OrderTypeOK' /\ UNCHANGED status
  <1> DEFINE m == [order |-> o]
  <1>1. "order.created" \in Topics \ {"courier.assigned", "order.cancelled", "order.status.changed"}
    BY DEF Topics
  <1>2. m \in Payload("order.created") /\ m.order = o
    BY <1>1, PayloadType
  <1>3. /\ Write("order.created", m) \/ UNCHANGED log
        /\ NoError \/ OneError
        /\ UNCHANGED <<pos, committed, pc, crashes>>
    BY DEF PublishCreated, EmitAndForget
  <1>4. GoroutineEffect(o, {"order.created"})
    BY <1>1, <1>2, <1>3, EmitAndForgetEffect
  <1> QED
    BY <1>4 DEF PublishCreated, EmitAndForget, OrderTypeOK

\* A restart of order-svc changes no row and no message.
LEMMA OrderRestartEffect ==
    ASSUME BusOK, OrderTypeOK, OrderRestart
    PROVE  BusOK' /\ OrderTypeOK' /\ UNCHANGED <<log, status>>
  <1>1. OrderGroups \subseteq Consumers
    BY DEF Consumers
  <1>2. BusOK' /\ UNCHANGED log
    BY <1>1, RestartOK DEF OrderRestart
  <1> QED
    BY <1>2 DEF OrderRestart, OrderTypeOK

-----------------------------------------------------------------------------
(***************************************************************************)
(* payment-svc: a charge is never forgotten, and payment.processed is told *)
(* of charged orders only.                                                 *)
(***************************************************************************)
AnnouncesPaid == pc["payment-svc"] = "publishProcessed" => Paid(OrderOf("payment-svc"))

PaidKept == \A o \in Orders : Paid(o) => Paid(o)'

\* INSERT INTO payments never overwrites the row of a charged order.
LEMMA InsertedKeeps ==
    ASSUME PaymentTypeOK, NEW o \in Orders, NEW s \in {"SUCCESS", "FAILED"}, Inserted(o, s)
    PROVE  PaymentTypeOK' /\ PaidKept /\ payments'[o] \in {payments[o], s}
  BY DEF PaymentTypeOK, Inserted, PaidKept, Paid

\* order.created: the order is charged before payment.processed is published,
\* and the handler that is about to publish it knows so.
LEMMA HandleOrderCreatedEffect ==
    ASSUME BusOK, PaymentTypeOK, AnnouncesPaid, HandleOrderCreated
    PROVE  /\ BusEffect("payment-svc", {"payment.failed", "payment.processed"})
           /\ PaymentTypeOK' /\ PaidKept /\ AnnouncesPaid'
           /\ \A o \in Orders : Published("payment.processed", o)' =>
                 Published("payment.processed", o) \/ Paid(o)
  <1> DEFINE c == "payment-svc"
             o == OrderOf(c)
             topics == {"payment.failed", "payment.processed"}
  <1>1. /\ c \in Consumers
        /\ topics \subseteq Topics \ {"courier.assigned", "order.cancelled", "order.status.changed"}
        /\ {"idle", "charge", "publishFailed", "publishProcessed"} \subseteq Steps
    BY DEF Consumers, PaymentGroups, Topics, Steps
  <1>2. UNCHANGED <<committed, crashes>>
    BY DEF HandleOrderCreated
  <1>3. pc \in [Consumers -> Steps]
    BY DEF BusOK, BusTypeOK
  <1>4. CASE FindPayment(c, o)
    <2>1. BusEffect(c, {})
      BY <1>1, <1>2, <1>4, FetchEffect DEF FindPayment
    <2>2. pc'[c] \in {"idle", "charge"}
      BY <1>1, <1>3, <1>4 DEF FindPayment, Finish, Goto
    <2>3. BusEffect(c, topics)
      BY <2>1, WiderEffect
    <2> QED
      BY <1>4, <2>2, <2>3 DEF FindPayment, PaymentTypeOK, PaidKept, Paid, AnnouncesPaid,
                              Published
  <1>5. CASE pc[c] = "charge" /\ Decline(c, o)
    <2>1. BusEffect(c, {}) /\ UNCHANGED log
      <3>1. Continue(c, "publishFailed") /\ (NoError \/ OneError) /\ UNCHANGED log
        BY <1>5 DEF Decline, Continue
      <3> QED
        BY <1>1, <1>2, <1>5, <3>1, CallEffect
    <2>2. PaymentTypeOK' /\ PaidKept
      <3>1. o \in Orders
        BY <2>1 DEF BusEffect
      <3> QED
        BY <1>5, <3>1, InsertedKeeps DEF Decline, PaymentTypeOK, PaidKept, Paid
    <2>3. pc'[c] = "publishFailed"
      BY <1>1, <1>3, <1>5 DEF Decline, Goto
    <2>4. BusEffect(c, topics)
      BY <2>1, WiderEffect
    <2> QED
      BY <2>1, <2>2, <2>3, <2>4 DEF AnnouncesPaid, Published
  <1>6. CASE pc[c] = "charge" /\ Approve(c, o)
    <2>1. BusEffect(c, {}) /\ UNCHANGED log /\ o \in Orders
      <3>1. /\ \/ Returns(c, "publishProcessed") \/ Fails(c)
               \/ Continue(c, "idle") /\ (NoError \/ OneError)
            /\ UNCHANGED log
        BY <1>6 DEF Approve, Continue
      <3>2. BusEffect(c, {})
        BY <1>1, <1>2, <1>6, <3>1, CallEffect
      <3> QED
        BY <3>1, <3>2 DEF BusEffect
    <2>2. PaymentTypeOK' /\ PaidKept
      BY <1>6, <2>1, InsertedKeeps DEF Approve, PaymentTypeOK, PaidKept, Paid
    <2>3. ASSUME pc'[c] = "publishProcessed"
          PROVE  payments'[o] = "SUCCESS" /\ pos'[c] = pos[c]
      <3>1. payments[o] = "NONE" /\ Inserted(o, "SUCCESS") /\ Goto(c, "publishProcessed")
        BY <1>1, <1>3, <1>6, <2>3 DEF Approve, Returns, Fails, Continue, Finish, Goto
      <3> QED
        BY <2>1, <3>1 DEF Inserted, PaymentTypeOK, Goto
    <2>4. AnnouncesPaid'
      BY <1>1, <1>6, <2>1, <2>3, CurrentKept DEF AnnouncesPaid, BusEffect, HandlerStep, Paid
    <2>5. BusEffect(c, topics)
      BY <2>1, WiderEffect
    <2> QED
      BY <2>1, <2>2, <2>4, <2>5 DEF Published
  <1>7. CASE /\ pc[c] = "publishFailed"
             /\ Emit(c, "payment.failed", [order |-> o], "idle", "idle")
             /\ UNCHANGED payments
    <2>1. o \in Orders
      BY <1>1, <1>7, CurrentMessage DEF BusOK, OffsetsOK
    <2>2. [order |-> o] \in Payload("payment.failed") /\ [order |-> o].order = o
      BY <1>1, <2>1, PayloadType
    <2>3. BusEffect(c, {"payment.failed"})
      BY <1>1, <1>2, <1>7, <2>2, EmitEffect
    <2>4. pc'[c] # "publishProcessed"
      BY <1>1, <1>3, <1>7 DEF Emit, Continue, Finish, Stay
    <2>5. BusEffect(c, topics)
      BY <2>3, WiderEffect
    <2>6. \A p \in Orders : Published("payment.processed", p)' => Published("payment.processed", p)
      BY <1>1, <2>3 DEF BusEffect
    <2> QED
      BY <1>7, <2>4, <2>5, <2>6 DEF PaymentTypeOK, PaidKept, Paid, AnnouncesPaid
  <1>8. CASE /\ pc[c] = "publishProcessed"
             /\ Emit(c, "payment.processed", [order |-> o], "idle", "idle")
             /\ UNCHANGED payments
    <2>1. o \in Orders /\ Paid(o)
      BY <1>1, <1>8, CurrentMessage DEF BusOK, OffsetsOK, AnnouncesPaid
    <2>2. [order |-> o] \in Payload("payment.processed") /\ [order |-> o].order = o
      BY <1>1, <2>1, PayloadType
    <2>3. BusEffect(c, {"payment.processed"})
      BY <1>1, <1>2, <1>8, <2>2, EmitEffect
    <2>4. pc'[c] = "publishProcessed" => pos'[c] = pos[c]
      BY <1>1, <1>3, <1>8 DEF Emit, Continue, Finish, Stay
    <2>5. AnnouncesPaid'
      BY <1>1, <1>8, <2>1, <2>3, <2>4, CurrentKept
         DEF AnnouncesPaid, BusEffect, HandlerStep, Paid
    <2>6. BusEffect(c, topics)
      BY <2>3, WiderEffect
    <2>7. \A p \in Orders : Published("payment.processed", p)' =>
             Published("payment.processed", p) \/ p = o
      BY <1>1, <2>3 DEF BusEffect
    <2> QED
      BY <1>8, <2>1, <2>5, <2>6, <2>7 DEF PaymentTypeOK, PaidKept, Paid
  <1> QED
    BY <1>4, <1>5, <1>6, <1>7, <1>8 DEF HandleOrderCreated

\* payment.refund.requested: a refund leaves the order charged once, given back.
LEMMA HandleRefundRequestedEffect ==
    ASSUME BusOK, PaymentTypeOK, HandleRefundRequested
    PROVE  /\ BusEffect("payment-svc-refund", {"payment.refunded"})
           /\ PaymentTypeOK' /\ PaidKept
  <1> DEFINE c == "payment-svc-refund"
             o == OrderOf(c)
             topics == {"payment.refunded"}
  <1>1. /\ c \in Consumers
        /\ topics \subseteq Topics \ {"courier.assigned", "order.cancelled", "order.status.changed"}
        /\ {"idle", "markRefunded", "publishRefunded"} \subseteq Steps
    BY DEF Consumers, PaymentGroups, Topics, Steps
  <1>2. UNCHANGED <<committed, crashes>>
    BY DEF HandleRefundRequested
  <1>3. CASE Receive(c, ~CanRefund(o), "markRefunded") /\ UNCHANGED payments
    <2>1. BusEffect(c, topics)
      BY <1>1, <1>2, <1>3, ReceiveEffect
    <2> QED
      BY <1>3, <2>1 DEF PaymentTypeOK, PaidKept, Paid
  <1>4. CASE /\ pc[c] = "markRefunded"
             /\ \/ MarkedRefunded(o) /\ Returns(c, "publishRefunded")
                \/ UNCHANGED payments /\ Fails(c)
             /\ UNCHANGED log
    <2>1. BusEffect(c, topics)
      BY <1>1, <1>2, <1>4, CallEffect
    <2>2. PaymentTypeOK' /\ PaidKept
      BY <1>4, <2>1 DEF BusEffect, MarkedRefunded, PaymentTypeOK, PaidKept, Paid
    <2> QED
      BY <2>1, <2>2
  <1>5. CASE /\ pc[c] = "publishRefunded"
             /\ Emit(c, "payment.refunded", [order |-> o], "idle", "idle")
             /\ UNCHANGED payments
    <2>1. o \in Orders
      BY <1>1, <1>5, CurrentMessage DEF BusOK, OffsetsOK
    <2>2. [order |-> o] \in Payload("payment.refunded") /\ [order |-> o].order = o
      BY <1>1, <2>1, PayloadType
    <2>3. BusEffect(c, topics)
      BY <1>1, <1>2, <1>5, <2>2, EmitEffect
    <2> QED
      BY <1>5, <2>3 DEF PaymentTypeOK, PaidKept, Paid
  <1> QED
    BY <1>3, <1>4, <1>5 DEF HandleRefundRequested

-----------------------------------------------------------------------------
(***************************************************************************)
(* restaurant-svc.                                                         *)
(***************************************************************************)
\* order.paid: the only order that starts to be cooked is that of the message.
LEMMA HandleOrderPaidEffect ==
    ASSUME BusOK, RestaurantTypeOK, HandleOrderPaid
    PROVE  /\ BusEffect("restaurant-svc", {"order.preparation.failed"})
           /\ RestaurantTypeOK'
           /\ \A o \in Orders : cooking'[o] # cooking[o] => o = OrderOf("restaurant-svc")
  <1> DEFINE c == "restaurant-svc"
             o == OrderOf(c)
             topics == {"order.preparation.failed"}
  <1>1. /\ c \in Consumers
        /\ topics \subseteq Topics \ {"courier.assigned", "order.cancelled", "order.status.changed"}
        /\ {"idle", "publishFailed"} \subseteq Steps
    BY DEF Consumers, RestaurantGroups, Topics, Steps
  <1>2. UNCHANGED <<committed, crashes>>
    BY DEF HandleOrderPaid
  <1>3. CASE /\ HasMessage(c)
             /\ \/ Finish(c) /\ cooking' = [cooking EXCEPT ![o] = @ + 1]
                \/ Goto(c, "publishFailed") /\ UNCHANGED cooking
             /\ UNCHANGED <<log, errors>>
    <2>1. BusEffect(c, topics)
      BY <1>1, <1>2, <1>3, FetchEffect DEF NoError
    <2> QED
      BY <1>3, <2>1 DEF BusEffect, RestaurantTypeOK
  <1>4. CASE /\ pc[c] = "publishFailed"
             /\ Emit(c, "order.preparation.failed", [order |-> o], "idle", "idle")
             /\ UNCHANGED cooking
    <2>1. o \in Orders
      BY <1>1, <1>4, CurrentMessage DEF BusOK, OffsetsOK
    <2>2. [order |-> o] \in Payload("order.preparation.failed") /\ [order |-> o].order = o
      BY <1>1, <2>1, PayloadType
    <2>3. BusEffect(c, topics)
      BY <1>1, <1>2, <1>4, <2>2, EmitEffect
    <2> QED
      BY <1>4, <2>3 DEF RestaurantTypeOK
  <1> QED
    BY <1>3, <1>4 DEF HandleOrderPaid

\* A cook publishes order.ready for the order it has cooked.
LEMMA DishReadyEffect ==
    ASSUME BusOK, RestaurantTypeOK, NEW o \in Orders, DishReady(o)
    PROVE  /\ GoroutineEffect(o, {"order.ready"})
           /\ RestaurantTypeOK'
           /\ cooking[o] > 0
           /\ \A p \in Orders : cooking'[p] > 0 => cooking[p] > 0
  <1> DEFINE m == [order |-> o]
  <1>1. "order.ready" \in Topics \ {"courier.assigned", "order.cancelled", "order.status.changed"}
    BY DEF Topics
  <1>2. m \in Payload("order.ready") /\ m.order = o
    BY <1>1, PayloadType
  <1>3. /\ Write("order.ready", m) \/ UNCHANGED log
        /\ NoError \/ OneError
        /\ UNCHANGED <<pos, committed, pc, crashes>>
    BY DEF DishReady, EmitAndForget
  <1>4. GoroutineEffect(o, {"order.ready"})
    BY <1>1, <1>2, <1>3, EmitAndForgetEffect
  <1>5. \/ cooking' = [cooking EXCEPT ![o] = @ - 1]
        \/ cooking' = cooking
    BY DEF DishReady, EmitAndForget
  <1> QED
    BY <1>4, <1>5 DEF DishReady, RestaurantTypeOK

\* A restart of restaurant-svc forgets what is being cooked.
LEMMA RestaurantRestartEffect ==
    ASSUME BusOK, RestaurantTypeOK, RestaurantRestart
    PROVE  BusOK' /\ RestaurantTypeOK' /\ UNCHANGED log /\ \A o \in Orders : cooking'[o] = 0
  <1>1. RestaurantGroups \subseteq Consumers
    BY DEF Consumers
  <1>2. BusOK' /\ UNCHANGED log
    BY <1>1, RestartOK DEF RestaurantRestart
  <1> QED
    BY <1>2 DEF RestaurantRestart, RestaurantTypeOK

-----------------------------------------------------------------------------
(***************************************************************************)
(* delivery-svc.  The ride of the order being handled starts with the      *)
(* chosen courier, who was found AVAILABLE and then marked BUSY.           *)
(***************************************************************************)
\* The handler holds a courier from the moment it has found one.
ChosenOK ==
    pc["delivery-svc"] \in {"setBusy", "publishAssigned", "release"} => chosen \in Couriers

\* order.ready: a ride begins for the order of the message only.
LEMMA HandleOrderReadyEffect ==
    ASSUME BusOK, DeliveryTypeOK, ChosenOK, HandleOrderReady
    PROVE  /\ BusEffect("delivery-svc", {"delivery.failed", "courier.assigned"})
           /\ DeliveryTypeOK' /\ ChosenOK'
           /\ UNCHANGED arrived
           /\ \A k \in Couriers, o \in Orders :
                 riding'[k][o] # riding[k][o] => o = OrderOf("delivery-svc")
  <1> DEFINE c == "delivery-svc"
             o == OrderOf(c)
             topics == {"delivery.failed", "courier.assigned"}
  <1>1. /\ c \in Consumers
        /\ "delivery.failed" \in Topics \ {"courier.assigned", "order.cancelled", "order.status.changed"}
        /\ "courier.assigned" \in Topics
        /\ {"idle", "publishFailed", "setBusy", "publishAssigned", "release"} \subseteq Steps
    BY DEF Consumers, DeliveryGroups, Topics, Steps
  <1>2. UNCHANGED <<committed, crashes, arrived>>
    BY DEF HandleOrderReady
  <1>3. pc \in [Consumers -> Steps]
    BY DEF BusOK, BusTypeOK
  <1>4. CASE FindAvailableCourier(c)
    <2>1. BusEffect(c, topics)
      BY <1>1, <1>2, <1>4, FetchEffect DEF FindAvailableCourier
    <2>2. \/ pc'[c] = "publishFailed" /\ chosen' = chosen
          \/ pc'[c] = "setBusy" /\ chosen' \in Couriers
      BY <1>1, <1>3, <1>4 DEF FindAvailableCourier, Goto
    <2> QED
      BY <1>2, <1>4, <2>1, <2>2 DEF FindAvailableCourier, DeliveryTypeOK, ChosenOK
  <1>5. CASE /\ pc[c] = "publishFailed"
             /\ Emit(c, "delivery.failed", [order |-> o], "idle", "idle")
             /\ UNCHANGED <<couriers, chosen, riding>>
    <2>1. o \in Orders
      BY <1>1, <1>5, CurrentMessage DEF BusOK, OffsetsOK
    <2>2. [order |-> o] \in Payload("delivery.failed") /\ [order |-> o].order = o
      BY <1>1, <2>1, PayloadType
    <2>3. BusEffect(c, topics)
      BY <1>1, <1>2, <1>5, <2>2, EmitEffect
    <2>4. pc'[c] \in {"idle", "publishFailed"}
      BY <1>1, <1>3, <1>5 DEF Emit, Continue, Finish, Stay
    <2> QED
      BY <1>2, <1>5, <2>3, <2>4 DEF DeliveryTypeOK, ChosenOK
  <1>6. CASE MarkBusy(c)
    <2>1. chosen \in Couriers
      BY <1>6 DEF MarkBusy, ChosenOK
    <2>2. /\ Returns(c, "publishAssigned") \/ Fails(c)
          /\ UNCHANGED log /\ pc[c] = "setBusy"
      BY <1>6 DEF MarkBusy
    <2>3. BusEffect(c, topics)
      BY <1>1, <1>2, <2>2, CallEffect
    <2>4. pc'[c] \in {"idle", "publishAssigned"}
      BY <1>1, <1>3, <2>2 DEF Returns, Fails, Continue, Finish, Goto
    <2>5. /\ couriers' \in [Couriers -> {"AVAILABLE", "BUSY"}]
          /\ chosen' \in Couriers \cup {NoCourier}
          /\ pc'[c] # "idle" => chosen' = chosen
          /\ riding' = riding
      BY <1>6, <2>1 DEF MarkBusy, SetCourierStatus, DeliveryTypeOK
    <2> QED
      BY <1>2, <2>1, <2>3, <2>4, <2>5 DEF DeliveryTypeOK, ChosenOK
  <1>7. CASE Assign(c, o)
    <2>1. chosen \in Couriers /\ pc[c] = "publishAssigned"
      BY <1>7 DEF Assign, ChosenOK
    <2>2. o \in Orders
      BY <1>1, <2>1, CurrentMessage DEF BusOK, OffsetsOK
    <2>3. /\ [order |-> o, courier |-> chosen] \in Payload("courier.assigned")
          /\ [order |-> o, courier |-> chosen].order = o
      BY <2>1, <2>2, PayloadType
    <2>4. BusEffect(c, topics)
      BY <1>1, <1>2, <1>7, <2>1, <2>3, EmitEffect DEF Assign
    <2>5. pc'[c] \in {"idle", "publishAssigned", "release"}
      BY <1>1, <1>3, <1>7, <2>1 DEF Assign, Emit, Continue, Finish, Goto, Stay
    <2>6. CASE pc'[c] = "idle"
      <3>1. riding' = [riding EXCEPT ![chosen][o] = @ + 1] /\ chosen' = NoCourier
        BY <1>7, <2>6 DEF Assign
      <3>2. riding' \in [Couriers -> [Orders -> Nat]]
        BY <2>1, <2>2, <3>1 DEF DeliveryTypeOK
      <3>3. \A k \in Couriers, p \in Orders : riding'[k][p] # riding[k][p] => p = o
        BY <2>1, <2>2, <3>1 DEF DeliveryTypeOK
      <3> QED
        BY <1>2, <1>7, <2>4, <2>6, <3>1, <3>2, <3>3 DEF Assign, DeliveryTypeOK, ChosenOK
    <2>7. CASE pc'[c] # "idle"
      BY <1>2, <1>7, <2>1, <2>4, <2>7 DEF Assign, DeliveryTypeOK, ChosenOK
    <2> QED
      BY <2>6, <2>7
  <1>8. CASE Unassign(c)
    <2>1. chosen \in Couriers /\ pc[c] = "release"
      BY <1>8 DEF Unassign, ChosenOK
    <2>2. Continue(c, "idle") /\ (NoError \/ OneError) /\ UNCHANGED log
      BY <1>8 DEF Unassign, Continue
    <2>3. BusEffect(c, topics)
      BY <1>1, <1>2, <2>1, <2>2, CallEffect
    <2>4. pc'[c] = "idle"
      BY <1>1, <1>3, <1>8 DEF Unassign, Finish
    <2>5. couriers' \in [Couriers -> {"AVAILABLE", "BUSY"}]
      BY <1>8, <2>1 DEF Unassign, SetCourierStatus, DeliveryTypeOK
    <2> QED
      BY <1>2, <1>8, <2>3, <2>4, <2>5 DEF Unassign, DeliveryTypeOK, ChosenOK
  <1> QED
    BY <1>4, <1>5, <1>6, <1>7, <1>8 DEF HandleOrderReady

\* A ride that ends hands its own order over to be announced.
LEMMA RideEndsEffect ==
    ASSUME BusOK, DeliveryTypeOK, NEW k \in Couriers, NEW o \in Orders, RideEnds(k, o)
    PROVE  /\ GoroutineEffect(o, {})
           /\ DeliveryTypeOK' /\ UNCHANGED chosen
           /\ riding[k][o] > 0
           /\ \A j \in Couriers, p \in Orders : riding'[j][p] > 0 => riding[j][p] > 0
           /\ \A p \in Orders : arrived'[p] # arrived[p] => p = o
  <1>1. GoroutineStep /\ UNCHANGED log
    BY DEF RideEnds, GoroutineStep, LogStep
  <1>2. GoroutineEffect(o, {})
    BY <1>1 DEF GoroutineEffect, Published, Writes
  <1>3. /\ riding[k][o] > 0
        /\ riding' = [riding EXCEPT ![k][o] = @ - 1]
        /\ arrived' = [arrived EXCEPT ![o] = @ + 1]
        /\ UNCHANGED chosen
    BY DEF RideEnds
  <1>4. riding' \in [Couriers -> [Orders -> Nat]]
    BY <1>3 DEF DeliveryTypeOK
  <1>5. \A j \in Couriers, p \in Orders : riding'[j][p] > 0 => riding[j][p] > 0
    BY <1>3 DEF DeliveryTypeOK
  <1>6. couriers' \in [Couriers -> {"AVAILABLE", "BUSY"}]
    BY DEF RideEnds, SetCourierStatus, DeliveryTypeOK
  <1>7. arrived' \in [Orders -> Nat] /\ \A p \in Orders : arrived'[p] # arrived[p] => p = o
    BY <1>3 DEF DeliveryTypeOK
  <1> QED
    BY <1>2, <1>3, <1>4, <1>5, <1>6, <1>7 DEF DeliveryTypeOK

\* order.delivered is published for an order whose ride is over.
LEMMA PublishDeliveredEffect ==
    ASSUME BusOK, DeliveryTypeOK, NEW o \in Orders, PublishDelivered(o)
    PROVE  /\ GoroutineEffect(o, {"order.delivered"})
           /\ DeliveryTypeOK' /\ UNCHANGED <<couriers, chosen, riding>>
           /\ arrived[o] > 0
           /\ \A p \in Orders : arrived'[p] > 0 => arrived[p] > 0
  <1> DEFINE m == [order |-> o]
  <1>1. "order.delivered" \in Topics \ {"courier.assigned", "order.cancelled", "order.status.changed"}
    BY DEF Topics
  <1>2. m \in Payload("order.delivered") /\ m.order = o
    BY <1>1, PayloadType
  <1>3. /\ Write("order.delivered", m) \/ UNCHANGED log
        /\ NoError \/ OneError
        /\ UNCHANGED <<pos, committed, pc, crashes>>
    BY DEF PublishDelivered, EmitAndForget
  <1>4. GoroutineEffect(o, {"order.delivered"})
    BY <1>1, <1>2, <1>3, EmitAndForgetEffect
  <1>5. \/ arrived' = [arrived EXCEPT ![o] = @ - 1]
        \/ arrived' = arrived
    BY DEF PublishDelivered, EmitAndForget
  <1> QED
    BY <1>4, <1>5 DEF PublishDelivered, DeliveryTypeOK

\* A restart of delivery-svc forgets its rides and keeps the couriers' status.
LEMMA DeliveryRestartEffect ==
    ASSUME BusOK, DeliveryTypeOK, DeliveryRestart
    PROVE  /\ BusOK' /\ DeliveryTypeOK' /\ ChosenOK' /\ UNCHANGED <<log, couriers>>
           /\ \A k \in Couriers, o \in Orders : riding'[k][o] = 0
           /\ \A o \in Orders : arrived'[o] = 0
  <1>1. DeliveryGroups \subseteq Consumers /\ "delivery-svc" \in DeliveryGroups
    BY DEF Consumers, DeliveryGroups
  <1>2. BusOK' /\ UNCHANGED log /\ pc'["delivery-svc"] = "idle"
    BY <1>1, RestartOK DEF DeliveryRestart
  <1> QED
    BY <1>2 DEF DeliveryRestart, DeliveryTypeOK, ChosenOK

-----------------------------------------------------------------------------
(***************************************************************************)
(* The inductive invariant.  ServedOnlyIfPaid is not inductive: a consumer *)
(* acts on a message alone, so that what is known of an order must be      *)
(* known of every message on the way, from payment.processed to            *)
(* order.delivered, and of the payment that is about to be announced.      *)
(***************************************************************************)
WorkTopics == {"payment.processed", "order.paid", "order.ready",
               "courier.assigned", "order.delivered"}

Work(o) ==
    \/ status[o] \in {"PAID", "DELIVERING", "DELIVERED"}
    \/ cooking[o] > 0
    \/ arrived[o] > 0
    \/ \E k \in Couriers : riding[k][o] > 0
    \/ \E t \in WorkTopics : Published(t, o)

PaidWork == \A o \in Orders : Work(o) => Paid(o)

Typed == /\ BusOK /\ OrderTypeOK /\ PaymentTypeOK
         /\ RestaurantTypeOK /\ DeliveryTypeOK /\ ChosenOK

IInv == Typed /\ AnnouncesPaid /\ PaidWork

\* The new work of a step is for orders that are paid already.
OnlyPaidWork ==
    /\ \A o \in Orders : status'[o] \in {"PAID", "DELIVERING", "DELIVERED"} =>
          status[o] \in {"PAID", "DELIVERING", "DELIVERED"} \/ Paid(o)
    /\ \A o \in Orders : cooking'[o] > 0 => cooking[o] > 0 \/ Paid(o)
    /\ \A o \in Orders : arrived'[o] > 0 => arrived[o] > 0 \/ Paid(o)
    /\ \A k \in Couriers, o \in Orders : riding'[k][o] > 0 => riding[k][o] > 0 \/ Paid(o)
    /\ \A t \in WorkTopics, o \in Orders : Published(t, o)' => Published(t, o) \/ Paid(o)

\* New work for paid orders only keeps all work paid for.
LEMMA PaidWorkKept ==
    ASSUME PaidWork, PaidKept, OnlyPaidWork
    PROVE  PaidWork'
  BY DEF PaidWork, PaidKept, OnlyPaidWork, Work

\* The topics that speak of work are topics of the bus.
LEMMA WorkTopicsType == WorkTopics \subseteq Topics
  BY DEF WorkTopics, Topics

\* A step of one consumer does not move another.
LEMMA OtherConsumerKept ==
    ASSUME BusOK, NEW c \in Consumers, HandlerStep(c), NEW d \in Consumers \ {c}
    PROVE  pc'[d] = pc[d] /\ pos'[d] = pos[d]
  BY DEF HandlerStep, Stay, Finish, Goto, BusOK, BusTypeOK

\* While payment-svc's consumer of order.created does not move, the order it is
\* about to announce stays charged.
LEMMA AnnouncesKept ==
    ASSUME BusOK, AnnouncesPaid, PaidKept, LogStep,
           pc'["payment-svc"] = pc["payment-svc"], pos'["payment-svc"] = pos["payment-svc"]
    PROVE  AnnouncesPaid'
  <1> DEFINE c == "payment-svc"
  <1> SUFFICES ASSUME pc[c] = "publishProcessed"
               PROVE  Paid(OrderOf(c))'
    BY DEF AnnouncesPaid
  <1>1. c \in Consumers /\ pc[c] # "idle"
    BY DEF Consumers, PaymentGroups
  <1>2. OrderOf(c) \in Orders /\ OrderOf(c)' = OrderOf(c)
    BY <1>1, CurrentMessage, CurrentKept DEF BusOK, OffsetsOK
  <1> QED
    BY <1>2 DEF AnnouncesPaid, PaidKept, Paid

-----------------------------------------------------------------------------
(***************************************************************************)
(* Steps of order-svc.                                                     *)
(***************************************************************************)
\* The state of the other three services is not order-svc's to write.
LEMMA OrderFrame ==
    ASSUME Typed, UNCHANGED <<payments, cooking, deliveryVars>>
    PROVE  PaymentTypeOK' /\ RestaurantTypeOK' /\ DeliveryTypeOK' /\ PaidKept
  BY DEF Typed, PaymentTypeOK, RestaurantTypeOK, DeliveryTypeOK, deliveryVars, PaidKept, Paid

\* A consumer of order-svc whose order is paid may do anything for it; one
\* that knows nothing of its order may only cancel it or mark it refunded.
LEMMA OrderConsumerKeeps ==
    ASSUME IInv, UNCHANGED <<payments, cooking, deliveryVars>>,
           NEW c \in OrderGroups, NEW new, NEW topics,
           StatusEffect(c, new, topics), OrderTypeOK',
           \/ Paid(OrderOf(c))
           \/ /\ new \cap {"PAID", "DELIVERING", "DELIVERED"} = {}
              /\ topics \cap WorkTopics = {}
    PROVE  IInv'
  <1>1. /\ c \in Consumers
        /\ "payment-svc" \in Consumers \ {c} /\ "delivery-svc" \in Consumers \ {c}
    BY DEF Consumers, OrderGroups, PaymentGroups, DeliveryGroups
  <1>2. BusEffect(c, topics) /\ HandlerStep(c) /\ LogStep /\ BusOK
    BY DEF StatusEffect, BusEffect, HandlerStep, IInv, Typed
  <1>3. BusOK'
    BY <1>1, <1>2, BusEffectOK
  <1>4. PaymentTypeOK' /\ RestaurantTypeOK' /\ DeliveryTypeOK' /\ PaidKept
    BY OrderFrame DEF IInv
  <1>5. ChosenOK'
    BY <1>1, <1>2, OtherConsumerKept DEF ChosenOK, deliveryVars, IInv, Typed
  <1>6. AnnouncesPaid'
    BY <1>1, <1>2, <1>4, OtherConsumerKept, AnnouncesKept DEF IInv
  <1>7. OnlyPaidWork
    BY <1>2, WorkTopicsType DEF OnlyPaidWork, StatusEffect, BusEffect, deliveryVars
  <1> QED
    BY <1>3, <1>4, <1>5, <1>6, <1>7, PaidWorkKept DEF IInv, Typed

\* The same for a step of order-svc in which no consumer moves.
LEMMA OrderRequestKeeps ==
    ASSUME IInv, UNCHANGED <<payments, cooking, deliveryVars>>,
           NEW o \in Orders, NEW topics, GoroutineEffect(o, topics), OrderTypeOK',
           topics \cap WorkTopics = {},
           \A p \in Orders : status'[p] = status[p] \/ status'[p] = "PENDING"
    PROVE  IInv'
  <1>1. BusOK' /\ LogStep /\ UNCHANGED <<pc, pos>>
    BY GoroutineStepOK DEF IInv, Typed, GoroutineEffect, GoroutineStep
  <1>2. PaymentTypeOK' /\ RestaurantTypeOK' /\ DeliveryTypeOK' /\ PaidKept
    BY OrderFrame DEF IInv
  <1>3. ChosenOK' /\ AnnouncesPaid'
    BY <1>1, <1>2, AnnouncesKept DEF IInv, Typed, ChosenOK, deliveryVars
  <1>4. OnlyPaidWork
    BY WorkTopicsType DEF OnlyPaidWork, GoroutineEffect, deliveryVars
  <1> QED
    BY <1>1, <1>2, <1>3, <1>4, PaidWorkKept DEF IInv, Typed

\* A step of order-svc: what it marks PAID, DELIVERING or DELIVERED was told to
\* it by an event about a paid order.
LEMMA OrderStepKeeps ==
    ASSUME IInv, OrderSvc(OrderNext)
    PROVE  IInv'
  <1>0. /\ OrderNext /\ UNCHANGED <<payments, cooking, deliveryVars>>
        /\ BusOK /\ OrderTypeOK
    BY DEF OrderSvc, IInv, Typed
  <1>1. ASSUME NEW o \in Orders, CreateOrder(o) PROVE IInv'
    BY <1>0, <1>1, CreateOrderEffect, OrderRequestKeeps
  <1>2. ASSUME NEW o \in Orders, PublishCreated(o) PROVE IInv'
    <2>1. {"order.created"} \cap WorkTopics = {}
      BY DEF WorkTopics
    <2> QED
      BY <1>0, <1>2, <2>1, PublishCreatedEffect, OrderRequestKeeps
  <1>3. CASE HandlePaymentProcessed
    <2> DEFINE c == "order-svc-payment"
    <2>1. /\ StatusEffect(c, {"PAID"}, {"order.paid", "order.status.changed"}) /\ OrderTypeOK'
          /\ c \in OrderGroups /\ TopicOf(c) \in WorkTopics
      BY <1>0, <1>3, HandlePaymentProcessedEffect DEF OrderGroups, TopicOf, WorkTopics
    <2>2. Paid(OrderOf(c))
      BY <2>1 DEF StatusEffect, BusEffect, IInv, PaidWork, Work
    <2> QED
      BY <1>0, <2>1, <2>2, OrderConsumerKeeps
  <1>4. CASE HandlePaymentFailed
    <2>1. /\ {"CANCELLED"} \cap {"PAID", "DELIVERING", "DELIVERED"} = {}
          /\ SayCancelled \cap WorkTopics = {}
          /\ "order-svc-payment-failed" \in OrderGroups
      BY DEF SayCancelled, WorkTopics, OrderGroups
    <2> QED
      BY <1>0, <1>4, <2>1, HandlePaymentFailedEffect, OrderConsumerKeeps
  <1>5. ASSUME NEW c \in {"order-svc-prep-failed", "order-svc-delivery-failed"},
               CancelWithRefund(c)
        PROVE  IInv'
    <2>1. /\ {"CANCELLED"} \cap {"PAID", "DELIVERING", "DELIVERED"} = {}
          /\ CancelTopics \cap WorkTopics = {}
          /\ c \in OrderGroups
      BY DEF CancelTopics, SayCancelled, WorkTopics, OrderGroups
    <2> QED
      BY <1>0, <1>5, <2>1, CancelWithRefundEffect, OrderConsumerKeeps
  <1>6. CASE HandlePaymentRefunded
    <2>1. /\ {"REFUNDED"} \cap {"PAID", "DELIVERING", "DELIVERED"} = {}
          /\ {"order.status.changed"} \cap WorkTopics = {}
          /\ "order-svc-refunded" \in OrderGroups
      BY DEF WorkTopics, OrderGroups
    <2> QED
      BY <1>0, <1>6, <2>1, HandlePaymentRefundedEffect, OrderConsumerKeeps
  <1>7. CASE HandleCourierAssigned
    <2> DEFINE c == "order-svc-courier"
    <2>1. /\ StatusEffect(c, {"DELIVERING"}, {}) /\ OrderTypeOK'
          /\ c \in OrderGroups /\ TopicOf(c) \in WorkTopics
      BY <1>0, <1>7, HandleCourierAssignedEffect DEF OrderGroups, TopicOf, WorkTopics
    <2>2. Paid(OrderOf(c))
      BY <2>1 DEF StatusEffect, BusEffect, IInv, PaidWork, Work
    <2> QED
      BY <1>0, <2>1, <2>2, OrderConsumerKeeps
  <1>8. CASE HandleOrderDelivered
    <2> DEFINE c == "order-svc-delivered"
    <2>1. /\ StatusEffect(c, {"DELIVERED"}, {"order.status.changed"}) /\ OrderTypeOK'
          /\ c \in OrderGroups /\ TopicOf(c) \in WorkTopics
      BY <1>0, <1>8, HandleOrderDeliveredEffect DEF OrderGroups, TopicOf, WorkTopics
    <2>2. Paid(OrderOf(c))
      BY <2>1 DEF StatusEffect, BusEffect, IInv, PaidWork, Work
    <2> QED
      BY <1>0, <2>1, <2>2, OrderConsumerKeeps
  <1>9. CASE OrderRestart
    <2>1. BusOK' /\ OrderTypeOK' /\ UNCHANGED <<log, status>>
      BY <1>0, <1>9, OrderRestartEffect
    <2>2. /\ "payment-svc" \in Consumers \ OrderGroups
          /\ "delivery-svc" \in Consumers \ OrderGroups
          /\ OrderGroups \subseteq Consumers
      BY DEF Consumers, OrderGroups, PaymentGroups, DeliveryGroups
    <2>3. \A d \in Consumers \ OrderGroups : pc'[d] = pc[d] /\ pos'[d] = pos[d]
      BY <1>0, <1>9, <2>2, RestartOK DEF OrderRestart
    <2>4. PaymentTypeOK' /\ RestaurantTypeOK' /\ DeliveryTypeOK' /\ PaidKept
      BY <1>0, OrderFrame DEF IInv
    <2>5. ChosenOK' /\ AnnouncesPaid'
      BY <1>0, <2>1, <2>2, <2>3, <2>4, AnnouncesKept
         DEF IInv, Typed, ChosenOK, deliveryVars, LogStep
    <2>6. OnlyPaidWork
      BY <1>0, <2>1 DEF OnlyPaidWork, deliveryVars, Published
    <2> QED
      BY <2>1, <2>4, <2>5, <2>6, PaidWorkKept DEF IInv, Typed
  <1> QED
    BY <1>0, <1>1, <1>2, <1>3, <1>4, <1>5, <1>6, <1>7, <1>8, <1>9
       DEF OrderNext, OrderConsumes

-----------------------------------------------------------------------------
(***************************************************************************)
(* Steps of payment-svc.                                                   *)
(***************************************************************************)
\* The tables of the other three services are not payment-svc's to write.
LEMMA PaymentFrame ==
    ASSUME Typed, UNCHANGED <<orderVars, cooking, deliveryVars>>
    PROVE  /\ OrderTypeOK' /\ RestaurantTypeOK' /\ DeliveryTypeOK'
           /\ UNCHANGED <<status, cooking, chosen, riding, arrived>>
  BY DEF Typed, OrderTypeOK, RestaurantTypeOK, DeliveryTypeOK, orderVars, deliveryVars

\* A step of payment-svc: the only work it may announce is a payment of an
\* order that it has charged.
LEMMA PaymentStepKeeps ==
    ASSUME IInv, PaymentSvc(PaymentNext)
    PROVE  IInv'
  <1>0. /\ PaymentNext /\ BusOK /\ PaymentTypeOK /\ AnnouncesPaid /\ ChosenOK /\ PaidWork
        /\ OrderTypeOK' /\ RestaurantTypeOK' /\ DeliveryTypeOK'
        /\ UNCHANGED <<status, cooking, chosen, riding, arrived>>
    BY PaymentFrame DEF PaymentSvc, IInv, Typed
  <1>1. /\ {"payment-svc", "payment-svc-refund"} \subseteq Consumers
        /\ "payment-svc" \in Consumers \ {"payment-svc-refund"}
        /\ "delivery-svc" \in Consumers \ {"payment-svc", "payment-svc-refund"}
    BY DEF Consumers, PaymentGroups, DeliveryGroups
  <1>2. CASE HandleOrderCreated
    <2> DEFINE c == "payment-svc"
               topics == {"payment.failed", "payment.processed"}
    <2>1. /\ BusEffect(c, topics)
          /\ PaymentTypeOK' /\ PaidKept /\ AnnouncesPaid'
          /\ \A o \in Orders : Published("payment.processed", o)' =>
                Published("payment.processed", o) \/ Paid(o)
      BY <1>0, <1>2, HandleOrderCreatedEffect
    <2>2. BusOK' /\ ChosenOK'
      BY <1>0, <1>1, <2>1, BusEffectOK, OtherConsumerKept DEF BusEffect, ChosenOK
    <2>3. \A t \in WorkTopics \ {"payment.processed"} : t \in Topics /\ t \notin topics
      BY DEF WorkTopics, Topics
    <2>4. OnlyPaidWork
      BY <1>0, <2>1, <2>3 DEF OnlyPaidWork, BusEffect
    <2> QED
      BY <1>0, <2>1, <2>2, <2>4, PaidWorkKept DEF IInv, Typed
  <1>3. CASE HandleRefundRequested
    <2> DEFINE c == "payment-svc-refund"
               topics == {"payment.refunded"}
    <2>1. BusEffect(c, topics) /\ PaymentTypeOK' /\ PaidKept
      BY <1>0, <1>3, HandleRefundRequestedEffect
    <2>2. HandlerStep(c) /\ LogStep /\ BusOK'
      BY <1>0, <1>1, <2>1, BusEffectOK DEF BusEffect, HandlerStep
    <2>3. ChosenOK' /\ AnnouncesPaid'
      BY <1>0, <1>1, <2>1, <2>2, OtherConsumerKept, AnnouncesKept DEF ChosenOK
    <2>4. OnlyPaidWork
      BY <1>0, <2>1, WorkTopicsType DEF OnlyPaidWork, BusEffect, WorkTopics
    <2> QED
      BY <1>0, <2>1, <2>2, <2>3, <2>4, PaidWorkKept DEF IInv, Typed
  <1>4. CASE PaymentRestart
    <2>1. PaymentGroups \subseteq Consumers
      BY DEF Consumers
    <2>2. /\ BusOK' /\ UNCHANGED <<log, payments>>
          /\ pc' = [c \in Consumers |-> IF c \in PaymentGroups THEN "idle" ELSE pc[c]]
      BY <1>0, <1>4, <2>1, RestartOK DEF PaymentRestart
    <2>3. pc'["payment-svc"] = "idle" /\ pc'["delivery-svc"] = pc["delivery-svc"]
      BY <1>1, <2>2 DEF PaymentGroups
    <2>4. ChosenOK' /\ AnnouncesPaid' /\ PaymentTypeOK' /\ PaidKept
      BY <1>0, <2>2, <2>3 DEF ChosenOK, AnnouncesPaid, PaymentTypeOK, PaidKept, Paid
    <2>5. OnlyPaidWork
      BY <1>0, <2>2 DEF OnlyPaidWork, Published
    <2> QED
      BY <1>0, <2>2, <2>4, <2>5, PaidWorkKept DEF IInv, Typed
  <1> QED
    BY <1>0, <1>2, <1>3, <1>4 DEF PaymentNext

-----------------------------------------------------------------------------
(***************************************************************************)
(* Steps of restaurant-svc.                                                *)
(***************************************************************************)
\* The tables of the other three services are not restaurant-svc's to write.
LEMMA RestaurantFrame ==
    ASSUME Typed, UNCHANGED <<orderVars, payments, deliveryVars>>
    PROVE  /\ OrderTypeOK' /\ PaymentTypeOK' /\ DeliveryTypeOK' /\ PaidKept
           /\ UNCHANGED <<status, chosen, riding, arrived>>
  BY DEF Typed, OrderTypeOK, PaymentTypeOK, DeliveryTypeOK, orderVars, deliveryVars,
         PaidKept, Paid

\* A step of restaurant-svc: it cooks what order.paid has told it to, and
\* announces what was cooked.
LEMMA RestaurantStepKeeps ==
    ASSUME IInv, RestaurantSvc(RestaurantNext)
    PROVE  IInv'
  <1>0. /\ RestaurantNext /\ BusOK /\ RestaurantTypeOK /\ AnnouncesPaid /\ ChosenOK
        /\ PaidWork /\ PaidKept
        /\ OrderTypeOK' /\ PaymentTypeOK' /\ DeliveryTypeOK'
        /\ UNCHANGED <<status, chosen, riding, arrived>>
    BY RestaurantFrame DEF RestaurantSvc, IInv, Typed
  <1>1. /\ "restaurant-svc" \in Consumers
        /\ "payment-svc" \in Consumers \ {"restaurant-svc"}
        /\ "delivery-svc" \in Consumers \ {"restaurant-svc"}
    BY DEF Consumers, PaymentGroups, RestaurantGroups, DeliveryGroups
  <1>2. CASE HandleOrderPaid
    <2> DEFINE c == "restaurant-svc"
               topics == {"order.preparation.failed"}
    <2>1. /\ BusEffect(c, topics) /\ RestaurantTypeOK'
          /\ \A o \in Orders : cooking'[o] # cooking[o] => o = OrderOf(c)
      BY <1>0, <1>2, HandleOrderPaidEffect
    <2>2. HandlerStep(c) /\ LogStep /\ BusOK'
      BY <1>0, <1>1, <2>1, BusEffectOK DEF BusEffect, HandlerStep
    <2>3. ChosenOK' /\ AnnouncesPaid'
      BY <1>0, <1>1, <2>2, OtherConsumerKept, AnnouncesKept DEF ChosenOK
    <2>4. OrderOf(c) \in Orders /\ Published("order.paid", OrderOf(c))
      BY <2>1 DEF BusEffect, TopicOf
    <2>5. Paid(OrderOf(c))
      BY <1>0, <2>4 DEF PaidWork, Work, WorkTopics
    <2>6. OnlyPaidWork
      BY <1>0, <2>1, <2>5, WorkTopicsType DEF OnlyPaidWork, BusEffect, WorkTopics
    <2> QED
      BY <1>0, <2>1, <2>2, <2>3, <2>6, PaidWorkKept DEF IInv, Typed
  <1>3. ASSUME NEW o \in Orders, DishReady(o) PROVE IInv'
    <2>1. /\ GoroutineEffect(o, {"order.ready"}) /\ RestaurantTypeOK'
          /\ cooking[o] > 0
          /\ \A p \in Orders : cooking'[p] > 0 => cooking[p] > 0
      BY <1>0, <1>3, DishReadyEffect
    <2>2. BusOK' /\ LogStep /\ UNCHANGED <<pc, pos>>
      BY <1>0, <2>1, GoroutineStepOK DEF GoroutineEffect, GoroutineStep
    <2>3. ChosenOK' /\ AnnouncesPaid'
      BY <1>0, <2>2, AnnouncesKept DEF ChosenOK
    <2>4. Paid(o)
      BY <1>0, <2>1 DEF PaidWork, Work
    <2>5. OnlyPaidWork
      BY <1>0, <2>1, <2>4, WorkTopicsType DEF OnlyPaidWork, GoroutineEffect
    <2> QED
      BY <1>0, <2>1, <2>2, <2>3, <2>5, PaidWorkKept DEF IInv, Typed
  <1>4. CASE RestaurantRestart
    <2>1. RestaurantGroups \subseteq Consumers
      BY DEF Consumers
    <2>2. /\ BusOK' /\ RestaurantTypeOK' /\ UNCHANGED log
          /\ \A o \in Orders : cooking'[o] = 0
      BY <1>0, <1>4, RestaurantRestartEffect
    <2>3. \A d \in Consumers \ RestaurantGroups : pc'[d] = pc[d] /\ pos'[d] = pos[d]
      BY <1>0, <1>4, <2>1, RestartOK DEF RestaurantRestart
    <2>4. "payment-svc" \notin RestaurantGroups /\ "delivery-svc" \notin RestaurantGroups
      BY DEF RestaurantGroups
    <2>5. ChosenOK' /\ AnnouncesPaid'
      BY <1>0, <1>1, <2>2, <2>3, <2>4, AnnouncesKept DEF ChosenOK, LogStep
    <2>6. OnlyPaidWork
      BY <1>0, <2>2 DEF OnlyPaidWork, Published
    <2> QED
      BY <1>0, <2>2, <2>5, <2>6, PaidWorkKept DEF IInv, Typed
  <1> QED
    BY <1>0, <1>2, <1>3, <1>4 DEF RestaurantNext

-----------------------------------------------------------------------------
(***************************************************************************)
(* Steps of delivery-svc.                                                  *)
(***************************************************************************)
\* The tables of the other three services are not delivery-svc's to write.
LEMMA DeliveryFrame ==
    ASSUME Typed, UNCHANGED <<orderVars, payments, cooking>>
    PROVE  /\ OrderTypeOK' /\ PaymentTypeOK' /\ RestaurantTypeOK' /\ PaidKept
           /\ UNCHANGED <<status, cooking>>
  BY DEF Typed, OrderTypeOK, PaymentTypeOK, RestaurantTypeOK, orderVars, PaidKept, Paid

\* A step of delivery-svc: couriers ride for what order.ready has told it,
\* and what is announced has been ridden for.
LEMMA DeliveryStepKeeps ==
    ASSUME IInv, DeliverySvc(DeliveryNext)
    PROVE  IInv'
  <1>0. /\ DeliveryNext /\ BusOK /\ DeliveryTypeOK /\ AnnouncesPaid /\ ChosenOK
        /\ PaidWork /\ PaidKept
        /\ OrderTypeOK' /\ PaymentTypeOK' /\ RestaurantTypeOK'
        /\ UNCHANGED <<status, cooking>>
    BY DeliveryFrame DEF DeliverySvc, IInv, Typed
  <1>1. /\ "delivery-svc" \in Consumers
        /\ "payment-svc" \in Consumers \ {"delivery-svc"}
    BY DEF Consumers, PaymentGroups, DeliveryGroups
  <1>2. CASE HandleOrderReady
    <2> DEFINE c == "delivery-svc"
               topics == {"delivery.failed", "courier.assigned"}
    <2>1. /\ BusEffect(c, topics) /\ DeliveryTypeOK' /\ ChosenOK'
          /\ UNCHANGED arrived
          /\ \A k \in Couriers, o \in Orders : riding'[k][o] # riding[k][o] => o = OrderOf(c)
      BY <1>0, <1>2, HandleOrderReadyEffect
    <2>2. HandlerStep(c) /\ LogStep /\ BusOK'
      BY <1>0, <1>1, <2>1, BusEffectOK DEF BusEffect, HandlerStep
    <2>3. AnnouncesPaid'
      BY <1>0, <1>1, <2>2, OtherConsumerKept, AnnouncesKept
    <2>4. OrderOf(c) \in Orders /\ Published("order.ready", OrderOf(c))
      BY <2>1 DEF BusEffect, TopicOf
    <2>5. Paid(OrderOf(c))
      BY <1>0, <2>4 DEF PaidWork, Work, WorkTopics
    <2>6. OnlyPaidWork
      BY <1>0, <2>1, <2>5, WorkTopicsType DEF OnlyPaidWork, BusEffect, WorkTopics
    <2> QED
      BY <1>0, <2>1, <2>2, <2>3, <2>6, PaidWorkKept DEF IInv, Typed
  <1>3. ASSUME NEW k \in Couriers, NEW o \in Orders, RideEnds(k, o) PROVE IInv'
    <2>1. /\ GoroutineEffect(o, {}) /\ DeliveryTypeOK' /\ UNCHANGED chosen
          /\ riding[k][o] > 0
          /\ \A j \in Couriers, p \in Orders : riding'[j][p] > 0 => riding[j][p] > 0
          /\ \A p \in Orders : arrived'[p] # arrived[p] => p = o
      BY <1>0, <1>3, RideEndsEffect
    <2>2. BusOK' /\ LogStep /\ UNCHANGED <<pc, pos>>
      BY <1>0, <2>1, GoroutineStepOK DEF GoroutineEffect, GoroutineStep
    <2>3. ChosenOK' /\ AnnouncesPaid'
      BY <1>0, <2>1, <2>2, AnnouncesKept DEF ChosenOK
    <2>4. Paid(o)
      BY <1>0, <2>1 DEF PaidWork, Work
    <2>5. OnlyPaidWork
      BY <1>0, <2>1, <2>4, WorkTopicsType DEF OnlyPaidWork, GoroutineEffect
    <2> QED
      BY <1>0, <2>1, <2>2, <2>3, <2>5, PaidWorkKept DEF IInv, Typed
  <1>4. ASSUME NEW o \in Orders, PublishDelivered(o) PROVE IInv'
    <2>1. /\ GoroutineEffect(o, {"order.delivered"}) /\ DeliveryTypeOK'
          /\ UNCHANGED <<chosen, riding>>
          /\ arrived[o] > 0
          /\ \A p \in Orders : arrived'[p] > 0 => arrived[p] > 0
      BY <1>0, <1>4, PublishDeliveredEffect
    <2>2. BusOK' /\ LogStep /\ UNCHANGED <<pc, pos>>
      BY <1>0, <2>1, GoroutineStepOK DEF GoroutineEffect, GoroutineStep
    <2>3. ChosenOK' /\ AnnouncesPaid'
      BY <1>0, <2>1, <2>2, AnnouncesKept DEF ChosenOK
    <2>4. Paid(o)
      BY <1>0, <2>1 DEF PaidWork, Work
    <2>5. OnlyPaidWork
      BY <1>0, <2>1, <2>4, WorkTopicsType DEF OnlyPaidWork, GoroutineEffect
    <2> QED
      BY <1>0, <2>1, <2>2, <2>3, <2>5, PaidWorkKept DEF IInv, Typed
  <1>5. CASE DeliveryRestart
    <2>1. DeliveryGroups \subseteq Consumers /\ "payment-svc" \notin DeliveryGroups
      BY DEF Consumers, DeliveryGroups
    <2>2. /\ BusOK' /\ DeliveryTypeOK' /\ ChosenOK' /\ UNCHANGED log
          /\ \A k \in Couriers, o \in Orders : riding'[k][o] = 0
          /\ \A o \in Orders : arrived'[o] = 0
      BY <1>0, <1>5, DeliveryRestartEffect
    <2>3. \A d \in Consumers \ DeliveryGroups : pc'[d] = pc[d] /\ pos'[d] = pos[d]
      BY <1>0, <1>5, <2>1, RestartOK DEF DeliveryRestart
    <2>4. AnnouncesPaid'
      BY <1>0, <1>1, <2>1, <2>2, <2>3, AnnouncesKept DEF LogStep
    <2>5. OnlyPaidWork
      BY <1>0, <2>2 DEF OnlyPaidWork, Published
    <2> QED
      BY <1>0, <2>2, <2>4, <2>5, PaidWorkKept DEF IInv, Typed
  <1> QED
    BY <1>0, <1>2, <1>3, <1>4, <1>5 DEF DeliveryNext

-----------------------------------------------------------------------------
(***************************************************************************)
(* The invariant holds at the start, is kept by every step, and implies    *)
(* what the runs check.                                                    *)
(***************************************************************************)
\* With no row, no message and no goroutine there is no work.
LEMMA InitOK == Init => IInv
  <1> SUFFICES ASSUME Init PROVE IInv
    OBVIOUS
  <1> USE DEF Init
  <1>1. BusTypeOK
    <2>1. "idle" \in Steps
      BY DEF Steps
    <2>2. log = [t \in Topics |-> <<>>] /\ \A S : <<>> \in Seq(S)
      BY DEF BusInit
    <2>3. log \in [Topics -> Seq(Message)] /\ \A t \in Topics : log[t] \in Seq(Payload(t))
      BY <2>2
    <2> QED
      BY <2>1, <2>3, BoundsAssumption DEF BusInit, BusTypeOK
  <1>2. \A t \in Topics : Len(log[t]) = 0
    BY DEF BusInit
  <1>3. OffsetsOK
    BY <1>2, TopicOfType DEF BusInit, OffsetsOK
  <1>4. OrderTypeOK
    BY DEF OrderInit, OrderTypeOK, Statuses
  <1>5. PaymentTypeOK /\ RestaurantTypeOK /\ DeliveryTypeOK
    BY DEF PaymentInit, PaymentTypeOK, RestaurantInit, RestaurantTypeOK,
           DeliveryInit, DeliveryTypeOK
  <1>6. ChosenOK /\ AnnouncesPaid
    BY DEF BusInit, ChosenOK, AnnouncesPaid, Consumers, PaymentGroups, DeliveryGroups
  <1>7. \A o \in Orders : ~Work(o)
    <2>1. \A t \in WorkTopics, o \in Orders : ~Published(t, o)
      BY <1>2, WorkTopicsType DEF Published
    <2>2. \A o \in Orders : status[o] = "NONE" /\ cooking[o] = 0 /\ arrived[o] = 0
      BY DEF OrderInit, RestaurantInit, DeliveryInit
    <2>3. \A k \in Couriers, o \in Orders : riding[k][o] = 0
      BY DEF DeliveryInit
    <2>4. ASSUME NEW o \in Orders PROVE ~Work(o)
      <3>1. /\ status[o] \notin {"PAID", "DELIVERING", "DELIVERED"}
            /\ ~(cooking[o] > 0) /\ ~(arrived[o] > 0)
        BY <2>2
      <3>2. \A k \in Couriers : ~(riding[k][o] > 0)
        BY <2>3
      <3> QED
        BY <2>1, <3>1, <3>2, Zenon DEF Work
    <2> QED
      BY <2>4
  <1> QED
    BY <1>1, <1>3, <1>4, <1>5, <1>6, <1>7 DEF IInv, Typed, BusOK, PaidWork

\* No service does anything: at most a consumer stops, at the cost of a call.
StandStill ==
    /\ UNCHANGED <<log, pos, committed, pc, crashes, orderVars, payments, cooking, deliveryVars>>
    /\ \/ NoError /\ UNCHANGED stopped
       \/ \E c \in Consumers : RunReturns(c)

\* A step of the saga is a step of one of its services, or all stand still.
LEMMA NextCases ==
    ASSUME [Next]_vars
    PROVE  \/ OrderSvc(OrderNext) \/ PaymentSvc(PaymentNext)
           \/ RestaurantSvc(RestaurantNext) \/ DeliverySvc(DeliveryNext)
           \/ StandStill
  <1>1. CASE ConsumerStops
    <2>1. UNCHANGED <<log, pos, committed, pc, crashes>>
      BY <1>1 DEF ConsumerStops, RunReturns
    <2> QED
      BY <1>1, <2>1 DEF ConsumerStops, StandStill
  <1>2. CASE UNCHANGED vars
    BY <1>2 DEF vars, busVars, StandStill, NoError
  <1> QED
    BY <1>1, <1>2 DEF Next

\* The invariant does not say who has stopped, so that it is kept when all else
\* stays as it is.
LEMMA StandStillKeeps ==
    ASSUME IInv, StandStill
    PROVE  IInv'
  <1> USE DEF StandStill, orderVars, deliveryVars
  <1>1. BusOK'
    <2>1. errors' \in 0..MaxErrors
      BY BoundsAssumption DEF IInv, Typed, BusOK, BusTypeOK, NoError, OneError, RunReturns
    <2> QED
      BY <2>1 DEF IInv, Typed, BusOK, BusTypeOK, OffsetsOK
  <1>2. OrderTypeOK' /\ PaymentTypeOK' /\ RestaurantTypeOK' /\ DeliveryTypeOK' /\ ChosenOK'
    BY DEF IInv, Typed, OrderTypeOK, PaymentTypeOK, RestaurantTypeOK, DeliveryTypeOK, ChosenOK
  <1>3. AnnouncesPaid'
    BY DEF IInv, AnnouncesPaid, Paid, OrderOf, Current
  <1>4. PaidWork'
    BY DEF IInv, PaidWork, Work, Paid, Published
  <1> QED
    BY <1>1, <1>2, <1>3, <1>4 DEF IInv, Typed

\* Every step of the four services keeps the invariant.
LEMMA NextKeeps == IInv /\ [Next]_vars => IInv'
  BY OrderStepKeeps, PaymentStepKeeps, RestaurantStepKeeps, DeliveryStepKeeps,
     StandStillKeeps, NextCases

\* The inductive invariant holds in every state the platform reaches.
THEOREM Inductive == Spec => []IInv
  BY InitOK, NextKeeps, PTL DEF Spec

\* No service stops a consumer itself, and only a restart brings one back.
LEMMA StoppedByNoService ==
    ASSUME \/ OrderSvc(OrderNext) \/ PaymentSvc(PaymentNext)
           \/ RestaurantSvc(RestaurantNext) \/ DeliverySvc(DeliveryNext)
    PROVE  UNCHANGED stopped \/ \E groups \in SUBSET Consumers : Restart(groups)
  <1>1. CASE OrderSvc(OrderNext)
    <2>1. ASSUME NEW o \in Orders, CreateOrder(o) \/ PublishCreated(o) PROVE UNCHANGED stopped
      BY <2>1 DEF CreateOrder, PublishCreated
    <2>2. ASSUME NEW c \in CancelGroups, CancelWithRefund(c) PROVE UNCHANGED stopped
      BY <2>2 DEF CancelWithRefund
    <2>3. CASE HandlePaymentProcessed
      BY <2>3 DEF HandlePaymentProcessed
    <2>4. CASE HandlePaymentFailed
      BY <2>4 DEF HandlePaymentFailed
    <2>5. CASE HandlePaymentRefunded
      BY <2>5 DEF HandlePaymentRefunded
    <2>6. CASE HandleCourierAssigned
      BY <2>6 DEF HandleCourierAssigned
    <2>7. CASE HandleOrderDelivered
      BY <2>7 DEF HandleOrderDelivered
    <2>8. OrderGroups \in SUBSET Consumers
      BY DEF Consumers
    <2> QED
      BY <1>1, <2>1, <2>2, <2>3, <2>4, <2>5, <2>6, <2>7, <2>8
         DEF OrderSvc, OrderNext, OrderConsumes, OrderRestart, CancelGroups
  <1>2. CASE PaymentSvc(PaymentNext)
    <2>1. CASE HandleOrderCreated
      BY <2>1 DEF HandleOrderCreated
    <2>2. CASE HandleRefundRequested
      BY <2>2 DEF HandleRefundRequested
    <2>3. PaymentGroups \in SUBSET Consumers
      BY DEF Consumers
    <2> QED
      BY <1>2, <2>1, <2>2, <2>3 DEF PaymentSvc, PaymentNext, PaymentRestart
  <1>3. CASE RestaurantSvc(RestaurantNext)
    <2>1. CASE HandleOrderPaid
      BY <2>1 DEF HandleOrderPaid
    <2>2. ASSUME NEW o \in Orders, DishReady(o) PROVE UNCHANGED stopped
      BY <2>2 DEF DishReady
    <2>3. RestaurantGroups \in SUBSET Consumers
      BY DEF Consumers
    <2> QED
      BY <1>3, <2>1, <2>2, <2>3 DEF RestaurantSvc, RestaurantNext, RestaurantRestart
  <1>4. CASE DeliverySvc(DeliveryNext)
    <2>1. CASE HandleOrderReady
      BY <2>1 DEF HandleOrderReady
    <2>2. ASSUME NEW k \in Couriers, NEW o \in Orders, RideEnds(k, o) PROVE UNCHANGED stopped
      BY <2>2 DEF RideEnds
    <2>3. ASSUME NEW o \in Orders, PublishDelivered(o) PROVE UNCHANGED stopped
      BY <2>3 DEF PublishDelivered
    <2>4. DeliveryGroups \in SUBSET Consumers
      BY DEF Consumers
    <2> QED
      BY <1>4, <2>1, <2>2, <2>3, <2>4 DEF DeliverySvc, DeliveryNext, DeliveryRestart
  <1> QED
    BY <1>1, <1>2, <1>3, <1>4

\* Who has stopped is a consumer.
LEMMA StoppedInductive == Spec => [](stopped \subseteq Consumers)
  <1>1. Init => stopped \subseteq Consumers
    BY DEF Init, BusInit
  <1>2. stopped \subseteq Consumers /\ [Next]_vars => (stopped \subseteq Consumers)'
    BY NextCases, StoppedByNoService DEF StandStill, RunReturns, Restart
  <1> QED
    BY <1>1, <1>2, PTL DEF Spec

\* Type correctness of the composition, for any number of orders, couriers,
\* crashes and failing calls: offsets stay within their topics, and a handler
\* that is running has a message.
THEOREM TypeCorrect == Spec => []SagaTypeOK
  <1>1. IInv /\ stopped \subseteq Consumers => SagaTypeOK
    BY DEF IInv, Typed, BusOK, OffsetsOK, SagaTypeOK
  <1> QED
    BY <1>1, Inductive, StoppedInductive, PTL

\* Nothing is cooked, carried or shown as paid for an order that payment-svc
\* did not charge, whatever is redelivered, retried, lost or restarted.
THEOREM PaidBeforeServed == Spec => []ServedOnlyIfPaid
  <1>1. IInv => ServedOnlyIfPaid
    BY DEF IInv, PaidWork, Work, WorkTopics, ServedOnlyIfPaid, Served
  <1> QED
    BY <1>1, Inductive, PTL

-----------------------------------------------------------------------------
(***************************************************************************)
(* How a step of a service looks to the others: what the proofs about      *)
(* couriers, events and refunds need to know of it.                        *)
(***************************************************************************)
\* One of its consumers goes on, one of its goroutines publishes, or it dies.
ServiceStep(groups) ==
    \/ \E c \in groups : HandlerStep(c)
    \/ GoroutineStep
    \/ Restart(groups)

\* A consumer of another service stays where it is.
StaysPut(d) == pc'[d] = pc[d] /\ pos'[d] = pos[d]

\* A step of a service moves no consumer of another one, and adds to the topics.
LEMMA ServiceStepFrame ==
    ASSUME BusOK, NEW groups, groups \subseteq Consumers, ServiceStep(groups)
    PROVE  LogStep /\ \A d \in Consumers \ groups : StaysPut(d)
  <1>1. ASSUME NEW c \in groups, HandlerStep(c)
        PROVE  LogStep /\ \A d \in Consumers \ groups : StaysPut(d)
    BY <1>1, OtherConsumerKept DEF StaysPut, HandlerStep
  <1>2. CASE GoroutineStep
    BY <1>2 DEF GoroutineStep, StaysPut
  <1>3. CASE Restart(groups)
    BY <1>3, RestartOK DEF StaysPut, LogStep, BusOK, BusTypeOK
  <1> QED
    BY <1>1, <1>2, <1>3 DEF ServiceStep

\* What order-svc does to the bus.
LEMMA OrderServiceStep ==
    ASSUME IInv, OrderNext
    PROVE  ServiceStep(OrderGroups)
  <1>0. BusOK /\ OrderTypeOK
    BY DEF IInv, Typed
  <1>1. ASSUME NEW o \in Orders, CreateOrder(o) \/ PublishCreated(o)
        PROVE  GoroutineStep
    BY <1>0, <1>1, CreateOrderEffect, PublishCreatedEffect DEF GoroutineEffect
  <1>2. ASSUME OrderConsumes
        PROVE  \E c \in OrderGroups : HandlerStep(c)
    BY <1>0, <1>2, HandlePaymentProcessedEffect, HandlePaymentFailedEffect,
       CancelWithRefundEffect, HandlePaymentRefundedEffect, HandleCourierAssignedEffect,
       HandleOrderDeliveredEffect DEF OrderConsumes, StatusEffect, BusEffect, OrderGroups
  <1> QED
    BY <1>1, <1>2 DEF OrderNext, OrderRestart, ServiceStep

\* What payment-svc does to the bus.
LEMMA PaymentServiceStep ==
    ASSUME IInv, PaymentNext
    PROVE  ServiceStep(PaymentGroups)
  BY HandleOrderCreatedEffect, HandleRefundRequestedEffect
     DEF IInv, Typed, PaymentNext, PaymentRestart, ServiceStep, BusEffect, PaymentGroups

\* What restaurant-svc does to the bus.
LEMMA RestaurantServiceStep ==
    ASSUME IInv, RestaurantNext
    PROVE  ServiceStep(RestaurantGroups)
  BY HandleOrderPaidEffect, DishReadyEffect
     DEF IInv, Typed, RestaurantNext, RestaurantRestart, ServiceStep, BusEffect,
         GoroutineEffect, RestaurantGroups

\* What delivery-svc does to the bus.
LEMMA DeliveryServiceStep ==
    ASSUME IInv, DeliveryNext
    PROVE  ServiceStep(DeliveryGroups)
  BY HandleOrderReadyEffect, RideEndsEffect, PublishDeliveredEffect
     DEF IInv, Typed, DeliveryNext, DeliveryRestart, ServiceStep, BusEffect,
         GoroutineEffect, DeliveryGroups

\* The four services share no consumer group.
LEMMA GroupsApart ==
    /\ Consumers = OrderGroups \cup PaymentGroups \cup RestaurantGroups \cup DeliveryGroups
    /\ OrderGroups \cap (PaymentGroups \cup RestaurantGroups \cup DeliveryGroups) = {}
    /\ PaymentGroups \cap (RestaurantGroups \cup DeliveryGroups) = {}
    /\ RestaurantGroups \cap DeliveryGroups = {}
  BY DEF Consumers, OrderGroups, PaymentGroups, RestaurantGroups, DeliveryGroups

\* Seen from a service, whatever the other three do leaves its consumers where
\* they are and its topics grown.
LEMMA OthersStep ==
    ASSUME IInv, NEW own, NEW groups,
           own \in {OrderGroups, PaymentGroups, RestaurantGroups, DeliveryGroups},
           groups \in {OrderGroups, PaymentGroups, RestaurantGroups, DeliveryGroups},
           own # groups, ServiceStep(groups)
    PROVE  LogStep /\ \A d \in own : StaysPut(d)
  BY ServiceStepFrame, GroupsApart DEF IInv, Typed
=============================================================================
