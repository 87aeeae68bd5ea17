-------------------------- MODULE LifecycleProofs ---------------------------
(***************************************************************************)
(* What holds of the saga whatever crashes and fails: couriers carry one   *)
(* order at a time, events come after their causes, the saga implements    *)
(* OrderLifecycle, and an order sets a bounded number of steps in motion.  *)
(***************************************************************************)
EXTENDS OrderSagaProofs, FiniteSetTheorems

-----------------------------------------------------------------------------
(***************************************************************************)
(* A courier carries one order at a time: FindAvailable and UpdateStatus   *)
(* are two statements without a transaction, rides release couriers        *)
(* concurrently, and any call may fail or any process die in between.      *)
(***************************************************************************)
dispatcher == "delivery-svc"

\* The courier that the handler has found is free until it marks him busy, and
\* does not ride before the handler has announced the assignment.
ChosenIsFree ==
    /\ pc[dispatcher] = "setBusy" => couriers[chosen] = "AVAILABLE"
    /\ pc[dispatcher] \in {"publishAssigned", "release"} =>
          couriers[chosen] = "BUSY" /\ \A o \in Orders : riding[chosen][o] = 0

CourierInv == ChosenIsFree /\ CourierCarriesOneOrder

\* Nobody rides with a courier who is AVAILABLE.
LEMMA AvailableIsIdle ==
    ASSUME Typed, CourierCarriesOneOrder, NEW k \in Couriers, couriers[k] = "AVAILABLE"
    PROVE  \A o \in Orders : riding[k][o] = 0
  BY DEF CourierCarriesOneOrder, Typed, DeliveryTypeOK

\* A step that moves neither the handler nor a courier keeps the invariant.
LEMMA CourierFrame ==
    ASSUME CourierInv, pc'[dispatcher] = pc[dispatcher], UNCHANGED <<couriers, chosen, riding>>
    PROVE  CourierInv'
  BY DEF CourierInv, ChosenIsFree, CourierCarriesOneOrder

-----------------------------------------------------------------------------
\* A courier is found: he is AVAILABLE, or there is none.
LEMMA FindKeepsCouriers ==
    ASSUME IInv, CourierInv, FindAvailableCourier(dispatcher)
    PROVE  CourierInv'
  <1>1. /\ pc \in [Consumers -> Steps] /\ dispatcher \in Consumers
        /\ UNCHANGED <<couriers, riding>>
    BY DEF IInv, Typed, BusOK, BusTypeOK, FindAvailableCourier, dispatcher, Consumers,
           DeliveryGroups
  <1>2. \/ pc'[dispatcher] = "publishFailed"
        \/ pc'[dispatcher] = "setBusy" /\ couriers[chosen'] = "AVAILABLE"
    BY <1>1 DEF FindAvailableCourier, Goto, IsAvailable
  <1> QED
    BY <1>1, <1>2 DEF CourierInv, ChosenIsFree, CourierCarriesOneOrder

\* The courier who is marked BUSY was AVAILABLE, so that he carries nothing.
LEMMA MarkBusyKeepsCouriers ==
    ASSUME IInv, CourierInv, MarkBusy(dispatcher)
    PROVE  CourierInv'
  <1>1. /\ pc \in [Consumers -> Steps] /\ dispatcher \in Consumers
        /\ pc[dispatcher] = "setBusy" /\ UNCHANGED riding
    BY DEF IInv, Typed, BusOK, BusTypeOK, MarkBusy, dispatcher, Consumers, DeliveryGroups
  <1>2. chosen \in Couriers /\ couriers[chosen] = "AVAILABLE"
    BY <1>1 DEF IInv, Typed, ChosenOK, CourierInv, ChosenIsFree, dispatcher
  <1>3. \A o \in Orders : riding[chosen][o] = 0
    BY <1>2, AvailableIsIdle DEF IInv, CourierInv
  <1>4. CASE SetCourierStatus(chosen, "BUSY") /\ Returns(dispatcher, "publishAssigned")
    <2>1. /\ couriers' = [couriers EXCEPT ![chosen] = "BUSY"]
          /\ couriers \in [Couriers -> {"AVAILABLE", "BUSY"}]
      BY <1>4 DEF SetCourierStatus, IInv, Typed, DeliveryTypeOK
    <2>2. pc'[dispatcher] \in {"idle", "publishAssigned"}
      BY <1>1, <1>4 DEF Returns, Fails, Continue, Finish, Goto
    <2>3. pc'[dispatcher] = "publishAssigned" => chosen' = chosen
      BY DEF MarkBusy
    <2>4. ChosenIsFree'
      BY <1>1, <1>2, <1>3, <2>1, <2>2, <2>3 DEF ChosenIsFree
    <2>5. CourierCarriesOneOrder'
      BY <1>1, <1>2, <1>3, <2>1 DEF CourierInv, CourierCarriesOneOrder
    <2> QED
      BY <2>4, <2>5 DEF CourierInv
  <1>5. CASE UNCHANGED couriers /\ Fails(dispatcher)
    <2>1. pc'[dispatcher] = "idle"
      BY <1>1, <1>5 DEF Fails, Finish
    <2> QED
      BY <1>1, <1>5, <2>1 DEF CourierInv, ChosenIsFree, CourierCarriesOneOrder
  <1> QED
    BY <1>4, <1>5 DEF MarkBusy

\* The ride that begins is the only one of its courier.
LEMMA AssignKeepsCouriers ==
    ASSUME IInv, CourierInv, NEW o \in Orders, Assign(dispatcher, o)
    PROVE  CourierInv'
  <1>1. /\ pc \in [Consumers -> Steps] /\ dispatcher \in Consumers
        /\ pc[dispatcher] = "publishAssigned" /\ UNCHANGED couriers
        /\ riding \in [Couriers -> [Orders -> Nat]]
    BY DEF IInv, Typed, BusOK, BusTypeOK, Assign, dispatcher, Consumers, DeliveryGroups,
           DeliveryTypeOK
  <1>2. /\ chosen \in Couriers /\ couriers[chosen] = "BUSY"
        /\ \A p \in Orders : riding[chosen][p] = 0
    BY <1>1 DEF IInv, Typed, ChosenOK, CourierInv, ChosenIsFree, dispatcher
  <1>3. CASE pc'[dispatcher] = "idle"
    <2>1. riding' = [riding EXCEPT ![chosen][o] = @ + 1]
      BY <1>3 DEF Assign
    <2>2. \A p \in Orders : riding'[chosen][p] = IF p = o THEN 1 ELSE 0
      BY <1>1, <1>2, <2>1
    <2>3. \A k \in Couriers \ {chosen} : riding'[k] = riding[k]
      BY <1>1, <2>1
    <2>4. CourierCarriesOneOrder'
      <3> SUFFICES ASSUME NEW k \in Couriers, NEW p \in Orders, riding'[k][p] > 0
                   PROVE  /\ riding'[k][p] = 1 /\ couriers[k] = "BUSY"
                          /\ \A q \in Orders \ {p} : riding'[k][q] = 0
        BY <1>1 DEF CourierCarriesOneOrder
      <3>1. CASE k = chosen
        BY <1>2, <2>2, <3>1
      <3>2. CASE k # chosen
        BY <2>3, <3>2 DEF CourierInv, CourierCarriesOneOrder
      <3> QED
        BY <3>1, <3>2
    <2> QED
      BY <1>3, <2>4 DEF CourierInv, ChosenIsFree
  <1>4. CASE pc'[dispatcher] # "idle"
    <2>1. UNCHANGED <<riding, chosen>>
      BY <1>4 DEF Assign
    <2>2. pc'[dispatcher] \in {"publishAssigned", "release"}
      BY <1>1, <1>4 DEF Assign, Emit, Continue, Finish, Goto, Stay
    <2> QED
      BY <1>1, <1>2, <2>1, <2>2 DEF CourierInv, ChosenIsFree, CourierCarriesOneOrder
  <1> QED
    BY <1>3, <1>4

\* The courier who is given back has not begun to ride.
LEMMA UnassignKeepsCouriers ==
    ASSUME IInv, CourierInv, Unassign(dispatcher)
    PROVE  CourierInv'
  <1>1. /\ pc \in [Consumers -> Steps] /\ dispatcher \in Consumers
        /\ pc[dispatcher] = "release" /\ UNCHANGED riding
        /\ couriers \in [Couriers -> {"AVAILABLE", "BUSY"}]
    BY DEF IInv, Typed, BusOK, BusTypeOK, Unassign, dispatcher, Consumers, DeliveryGroups,
           DeliveryTypeOK
  <1>2. /\ chosen \in Couriers /\ \A p \in Orders : riding[chosen][p] = 0
    BY <1>1 DEF IInv, Typed, ChosenOK, CourierInv, ChosenIsFree, dispatcher
  <1>3. couriers' \in {couriers, [couriers EXCEPT ![chosen] = "AVAILABLE"]}
    BY DEF Unassign, SetCourierStatus
  <1>4. pc'[dispatcher] = "idle"
    BY <1>1 DEF Unassign, Finish
  <1>5. CourierCarriesOneOrder'
    BY <1>1, <1>2, <1>3 DEF CourierInv, CourierCarriesOneOrder
  <1> QED
    BY <1>4, <1>5 DEF CourierInv, ChosenIsFree

\* order.ready.
LEMMA DispatchKeepsCouriers ==
    ASSUME IInv, CourierInv, HandleOrderReady
    PROVE  CourierInv'
  <1>1. /\ pc \in [Consumers -> Steps] /\ dispatcher \in Consumers
        /\ pc[dispatcher] # "idle" => OrderOf(dispatcher) \in Orders
    BY CurrentMessage
       DEF IInv, Typed, BusOK, BusTypeOK, OffsetsOK, dispatcher, Consumers, DeliveryGroups
  <1>2. ASSUME pc[dispatcher] = "publishFailed",
               Emit(dispatcher, "delivery.failed", [order |-> OrderOf(dispatcher)], "idle", "idle"),
               UNCHANGED <<couriers, chosen, riding>>
        PROVE  CourierInv'
    <2>1. pc'[dispatcher] \in {"idle", "publishFailed"}
      BY <1>1, <1>2 DEF Emit, Continue, Finish, Stay
    <2> QED
      BY <1>2, <2>1 DEF CourierInv, ChosenIsFree, CourierCarriesOneOrder
  <1>3. ASSUME Assign(dispatcher, OrderOf(dispatcher))
        PROVE  CourierInv'
    BY <1>1, <1>3, AssignKeepsCouriers DEF Assign
  <1> QED
    BY <1>2, <1>3, FindKeepsCouriers, MarkBusyKeepsCouriers, UnassignKeepsCouriers
       DEF HandleOrderReady, dispatcher

-----------------------------------------------------------------------------
\* The goroutine of a ride releases its own courier, who carried nothing else,
\* and whom the handler therefore has not chosen.
LEMMA RideEndsKeepsCouriers ==
    ASSUME IInv, CourierInv, NEW k \in Couriers, NEW o \in Orders, RideEnds(k, o)
    PROVE  CourierInv'
  <1>1. /\ riding \in [Couriers -> [Orders -> Nat]]
        /\ couriers \in [Couriers -> {"AVAILABLE", "BUSY"}]
        /\ riding[k][o] > 0 /\ riding' = [riding EXCEPT ![k][o] = @ - 1]
        /\ UNCHANGED <<pc, chosen>>
        /\ couriers' \in {couriers, [couriers EXCEPT ![k] = "AVAILABLE"]}
    BY DEF RideEnds, SetCourierStatus, IInv, Typed, DeliveryTypeOK
  <1>2. /\ riding[k][o] = 1 /\ couriers[k] = "BUSY"
        /\ \A p \in Orders \ {o} : riding[k][p] = 0
    BY <1>1 DEF CourierInv, CourierCarriesOneOrder
  <1>3. /\ \A p \in Orders : riding'[k][p] = 0
        /\ \A j \in Couriers \ {k} : riding'[j] = riding[j] /\ couriers'[j] = couriers[j]
    BY <1>1, <1>2
  <1>4. pc[dispatcher] \in {"setBusy", "publishAssigned", "release"} =>
            chosen \in Couriers \ {k}
    BY <1>1, <1>2 DEF CourierInv, ChosenIsFree, IInv, Typed, ChosenOK, dispatcher
  <1>5. ChosenIsFree'
    BY <1>1, <1>3, <1>4 DEF CourierInv, ChosenIsFree
  <1>6. CourierCarriesOneOrder'
    BY <1>1, <1>3 DEF CourierInv, CourierCarriesOneOrder
  <1> QED
    BY <1>5, <1>6 DEF CourierInv

\* A step of delivery-svc.
LEMMA DeliveryKeepsCouriers ==
    ASSUME IInv, CourierInv, DeliveryNext
    PROVE  CourierInv'
  <1>1. ASSUME NEW o \in Orders, PublishDelivered(o) PROVE CourierInv'
    BY <1>1, CourierFrame DEF PublishDelivered
  <1>2. CASE DeliveryRestart
    <2>1. BusOK /\ DeliveryTypeOK
      BY DEF IInv, Typed
    <2>2. \A k \in Couriers, o \in Orders : riding'[k][o] = 0
      BY <1>2, <2>1, DeliveryRestartEffect
    <2>3. pc'[dispatcher] = "idle"
      BY <1>2 DEF DeliveryRestart, Restart, dispatcher, Consumers, DeliveryGroups
    <2> QED
      BY <2>2, <2>3 DEF CourierInv, ChosenIsFree, CourierCarriesOneOrder
  <1> QED
    BY <1>1, <1>2, DispatchKeepsCouriers, RideEndsKeepsCouriers DEF DeliveryNext

\* A step of another service.
LEMMA OthersKeepCouriers ==
    ASSUME IInv, CourierInv,
           NEW groups \in {OrderGroups, PaymentGroups, RestaurantGroups},
           ServiceStep(groups), UNCHANGED deliveryVars
    PROVE  CourierInv'
  <1>1. dispatcher \in Consumers \ groups /\ groups \subseteq Consumers
    BY DEF dispatcher, Consumers, OrderGroups, PaymentGroups, RestaurantGroups, DeliveryGroups
  <1>2. pc'[dispatcher] = pc[dispatcher]
    BY <1>1, ServiceStepFrame DEF IInv, Typed, StaysPut
  <1> QED
    BY <1>2, CourierFrame DEF deliveryVars

\* Every step of the four services keeps the couriers in order.
LEMMA CourierInvKept == IInv /\ CourierInv /\ [Next]_vars => CourierInv'
  <1> SUFFICES ASSUME IInv, CourierInv, [Next]_vars PROVE CourierInv'
    OBVIOUS
  <1>1. CASE OrderSvc(OrderNext)
    BY <1>1, OrderServiceStep, OthersKeepCouriers DEF OrderSvc
  <1>2. CASE PaymentSvc(PaymentNext)
    BY <1>2, PaymentServiceStep, OthersKeepCouriers DEF PaymentSvc
  <1>3. CASE RestaurantSvc(RestaurantNext)
    BY <1>3, RestaurantServiceStep, OthersKeepCouriers DEF RestaurantSvc
  <1>4. CASE DeliverySvc(DeliveryNext)
    BY <1>4, DeliveryKeepsCouriers DEF DeliverySvc
  <1>5. CASE StandStill
    BY <1>5, CourierFrame DEF StandStill, deliveryVars
  <1> QED
    BY <1>1, <1>2, <1>3, <1>4, <1>5, NextCases

\* A courier carries at most one order at a time and is BUSY while he does.
THEOREM OneOrderPerCourier == Spec => []CourierCarriesOneOrder
  <1>1. Init => CourierInv
    BY DEF Init, BusInit, DeliveryInit, CourierInv, ChosenIsFree, CourierCarriesOneOrder,
           dispatcher, Consumers, DeliveryGroups
  <1>2. CourierInv => CourierCarriesOneOrder
    BY DEF CourierInv
  <1> QED
    BY <1>1, <1>2, CourierInvKept, Inductive, PTL DEF Spec

-----------------------------------------------------------------------------
(***************************************************************************)
(* The saga tells the story of EventStory: whatever crashes, fails or is   *)
(* handled again, no event about an order comes before one that can have   *)
(* caused it.                                                              *)
(***************************************************************************)
\* What a goroutine goes on with was told to the handler that started it, or by
\* it: a cook has an order.paid, a ride and an arrival a courier.assigned.
WorkIsCaused ==
    \A o \in Orders :
        /\ cooking[o] > 0 => Published("order.paid", o)
        /\ arrived[o] > 0 => Published("courier.assigned", o)
        /\ \A k \in Couriers : riding[k][o] > 0 => Published("courier.assigned", o)

\* What is published for the first time is order.created, by the request that
\* has inserted the order, or has one of its causes before it.
TellsWithCause ==
    \A t \in Topics, o \in Orders : Published(t, o)' =>
        \/ Published(t, o)
        \/ t = "order.created" /\ o \in creating
        \/ \E u \in Story!Causes(t) : Published(u, o)

-----------------------------------------------------------------------------
\* What was published stays published.
LEMMA PublishedKept ==
    ASSUME BusOK, LogStep
    PROVE  \A t \in Topics, o \in Orders : Published(t, o) => Published(t, o)'
  <1> SUFFICES ASSUME NEW t \in Topics, NEW o \in Orders, NEW i \in 1..Len(log[t]),
                      log[t][i].order = o
               PROVE  \E j \in 1..Len(log'[t]) : log'[t][j].order = o
    BY DEF Published
  <1>1. Len(log[t]) <= Len(log'[t]) /\ log'[t][i] = log[t][i]
    BY LogStepKeeps
  <1>2. Len(log[t]) \in Nat /\ Len(log'[t]) \in Nat
    BY LogStepKeeps DEF BusOK, BusTypeOK
  <1>3. i \in 1..Len(log'[t])
    BY <1>1, <1>2
  <1> QED
    BY <1>1, <1>3

\* What is written is published.
LEMMA WritePublishes ==
    ASSUME BusOK, NEW t \in Topics, NEW m \in Payload(t), Write(t, m)
    PROVE  Published(t, m.order)'
  <1>1. log \in [Topics -> Seq(Message)] /\ m \in Message
    BY PayloadType DEF BusOK, BusTypeOK
  <1>2. log'[t] = Append(log[t], m)
    BY <1>1 DEF Write
  <1>3. /\ Len(log'[t]) \in Nat /\ Len(log'[t]) >= 1
        /\ log'[t][Len(log'[t])] = m
    BY <1>1, <1>2
  <1> QED
    BY <1>3 DEF Published

\* A consumer publishes only on topics that its own topic causes.
LEMMA ConsumerTells ==
    ASSUME NEW c \in Consumers, NEW topics, BusEffect(c, topics),
           \A t \in topics : TopicOf(c) \in Story!Causes(t)
    PROVE  TellsWithCause
  BY DEF TellsWithCause, BusEffect

\* A goroutine publishes about its order, for which there is a cause.
LEMMA GoroutineTells ==
    ASSUME NEW o \in Orders, NEW topics, GoroutineEffect(o, topics),
           \A t \in topics : \/ t = "order.created" /\ o \in creating
                             \/ \E u \in Story!Causes(t) : Published(u, o)
    PROVE  TellsWithCause
  BY DEF TellsWithCause, GoroutineEffect

\* A step that publishes nothing has nothing to justify.
LEMMA SilentTells == ASSUME UNCHANGED log PROVE TellsWithCause
  BY DEF TellsWithCause, Published

-----------------------------------------------------------------------------
(***************************************************************************)
(* The four services, one after the other.                                 *)
(***************************************************************************)
\* order-svc publishes what the event at hand is a cause of, or order.created
\* for a request under way.
LEMMA OrderTells ==
    ASSUME IInv, OrderNext
    PROVE  TellsWithCause
  <1>0. BusOK /\ OrderTypeOK
    BY DEF IInv, Typed
  <1> USE DEF TopicOf, Story!Causes
  <1>1. ASSUME NEW o \in Orders, CreateOrder(o) PROVE TellsWithCause
    BY <1>1, SilentTells DEF CreateOrder
  <1>2. ASSUME NEW o \in Orders, PublishCreated(o) PROVE TellsWithCause
    <2>1. GoroutineEffect(o, {"order.created"}) /\ o \in creating
      BY <1>0, <1>2, PublishCreatedEffect DEF PublishCreated
    <2> QED
      BY <2>1, GoroutineTells
  <1>3. CASE HandlePaymentProcessed
    <2>1. /\ BusEffect("order-svc-payment", {"order.paid", "order.status.changed"})
          /\ "order-svc-payment" \in Consumers
      BY <1>0, <1>3, HandlePaymentProcessedEffect DEF StatusEffect, Consumers, OrderGroups
    <2> QED
      BY <2>1, ConsumerTells
  <1>4. CASE HandlePaymentFailed
    <2>1. /\ BusEffect("order-svc-payment-failed", SayCancelled)
          /\ "order-svc-payment-failed" \in Consumers
      BY <1>0, <1>4, HandlePaymentFailedEffect DEF StatusEffect, Consumers, OrderGroups
    <2> QED
      BY <2>1, ConsumerTells DEF SayCancelled
  <1>5. ASSUME NEW c \in {"order-svc-prep-failed", "order-svc-delivery-failed"},
               CancelWithRefund(c)
        PROVE  TellsWithCause
    <2>1. BusEffect(c, CancelTopics) /\ c \in Consumers
      BY <1>0, <1>5, CancelWithRefundEffect DEF StatusEffect, Consumers, OrderGroups
    <2> QED
      BY <2>1, ConsumerTells DEF CancelTopics, SayCancelled
  <1>6. CASE HandlePaymentRefunded
    <2>1. /\ BusEffect("order-svc-refunded", {"order.status.changed"})
          /\ "order-svc-refunded" \in Consumers
      BY <1>0, <1>6, HandlePaymentRefundedEffect DEF StatusEffect, Consumers, OrderGroups
    <2> QED
      BY <2>1, ConsumerTells
  <1>7. CASE HandleCourierAssigned
    <2>1. BusEffect("order-svc-courier", {}) /\ "order-svc-courier" \in Consumers
      BY <1>0, <1>7, HandleCourierAssignedEffect DEF StatusEffect, Consumers, OrderGroups
    <2> QED
      BY <2>1, ConsumerTells
  <1>8. CASE HandleOrderDelivered
    <2>1. /\ BusEffect("order-svc-delivered", {"order.status.changed"})
          /\ "order-svc-delivered" \in Consumers
      BY <1>0, <1>8, HandleOrderDeliveredEffect DEF StatusEffect, Consumers, OrderGroups
    <2> QED
      BY <2>1, ConsumerTells
  <1>9. CASE OrderRestart
    BY <1>0, <1>9, OrderRestartEffect, SilentTells
  <1> QED
    BY <1>1, <1>2, <1>3, <1>4, <1>5, <1>6, <1>7, <1>8, <1>9 DEF OrderNext, OrderConsumes

\* payment-svc answers order.created and payment.refund.requested.
LEMMA PaymentTells ==
    ASSUME IInv, PaymentNext
    PROVE  TellsWithCause
  <1>0. BusOK /\ PaymentTypeOK /\ AnnouncesPaid
    BY DEF IInv, Typed
  <1>1. {"payment-svc", "payment-svc-refund"} \subseteq Consumers
    BY DEF Consumers, PaymentGroups
  <1> USE DEF TopicOf, Story!Causes
  <1>2. CASE HandleOrderCreated
    BY <1>0, <1>1, <1>2, HandleOrderCreatedEffect, ConsumerTells
  <1>3. CASE HandleRefundRequested
    BY <1>0, <1>1, <1>3, HandleRefundRequestedEffect, ConsumerTells
  <1>4. CASE PaymentRestart
    BY <1>4, SilentTells DEF PaymentRestart, Restart
  <1> QED
    BY <1>2, <1>3, <1>4 DEF PaymentNext

\* restaurant-svc answers order.paid, at once or when the dish is ready.
LEMMA RestaurantTells ==
    ASSUME IInv, WorkIsCaused, RestaurantNext
    PROVE  TellsWithCause
  <1>0. BusOK /\ RestaurantTypeOK /\ "restaurant-svc" \in Consumers
    BY DEF IInv, Typed, Consumers, RestaurantGroups
  <1> USE DEF TopicOf, Story!Causes
  <1>1. CASE HandleOrderPaid
    BY <1>0, <1>1, HandleOrderPaidEffect, ConsumerTells
  <1>2. ASSUME NEW o \in Orders, DishReady(o) PROVE TellsWithCause
    <2>1. GoroutineEffect(o, {"order.ready"}) /\ Published("order.paid", o)
      BY <1>0, <1>2, DishReadyEffect DEF WorkIsCaused
    <2> QED
      BY <2>1, GoroutineTells
  <1>3. CASE RestaurantRestart
    BY <1>3, SilentTells DEF RestaurantRestart, Restart
  <1> QED
    BY <1>1, <1>2, <1>3 DEF RestaurantNext

\* delivery-svc answers order.ready, and announces the end of its rides.
LEMMA DeliveryTells ==
    ASSUME IInv, WorkIsCaused, DeliveryNext
    PROVE  TellsWithCause
  <1>0. BusOK /\ DeliveryTypeOK /\ ChosenOK /\ "delivery-svc" \in Consumers
    BY DEF IInv, Typed, Consumers, DeliveryGroups
  <1> USE DEF TopicOf, Story!Causes
  <1>1. CASE HandleOrderReady
    BY <1>0, <1>1, HandleOrderReadyEffect, ConsumerTells
  <1>2. ASSUME NEW k \in Couriers, NEW o \in Orders, RideEnds(k, o) PROVE TellsWithCause
    BY <1>2, SilentTells DEF RideEnds
  <1>3. ASSUME NEW o \in Orders, PublishDelivered(o) PROVE TellsWithCause
    <2>1. GoroutineEffect(o, {"order.delivered"}) /\ Published("courier.assigned", o)
      BY <1>0, <1>3, PublishDeliveredEffect DEF WorkIsCaused
    <2> QED
      BY <2>1, GoroutineTells
  <1>4. CASE DeliveryRestart
    BY <1>4, SilentTells DEF DeliveryRestart, Restart
  <1> QED
    BY <1>1, <1>2, <1>3, <1>4 DEF DeliveryNext

\* A step of the saga adds to the topics, and only what is caused.
LEMMA NextTells ==
    ASSUME IInv, WorkIsCaused, [Next]_vars
    PROVE  LogStep /\ TellsWithCause
  <1>1. BusOK
    BY DEF IInv, Typed
  <1>2. \A groups \in {OrderGroups, PaymentGroups, RestaurantGroups, DeliveryGroups} :
           groups \subseteq Consumers
    BY DEF Consumers
  <1>3. CASE OrderSvc(OrderNext)
    BY <1>1, <1>2, <1>3, OrderTells, OrderServiceStep, ServiceStepFrame DEF OrderSvc
  <1>4. CASE PaymentSvc(PaymentNext)
    BY <1>1, <1>2, <1>4, PaymentTells, PaymentServiceStep, ServiceStepFrame DEF PaymentSvc
  <1>5. CASE RestaurantSvc(RestaurantNext)
    BY <1>1, <1>2, <1>5, RestaurantTells, RestaurantServiceStep, ServiceStepFrame
       DEF RestaurantSvc
  <1>6. CASE DeliverySvc(DeliveryNext)
    BY <1>1, <1>2, <1>6, DeliveryTells, DeliveryServiceStep, ServiceStepFrame DEF DeliverySvc
  <1>7. CASE StandStill
    BY <1>7, SilentTells DEF StandStill, LogStep
  <1> QED
    BY <1>3, <1>4, <1>5, <1>6, <1>7, NextCases

-----------------------------------------------------------------------------
(***************************************************************************)
(* WorkIsCaused is an invariant.                                           *)
(***************************************************************************)
\* The ride that begins has been announced: simulateDelivery is started after
\* Publish has returned without an error.
LEMMA RideIsAnnounced ==
    ASSUME BusOK, DeliveryTypeOK, ChosenOK, HandleOrderReady
    PROVE  \A k \in Couriers, o \in Orders :
              riding'[k][o] # riding[k][o] => Published("courier.assigned", o)'
  <1> DEFINE c == "delivery-svc"
  <1>1. pc \in [Consumers -> Steps] /\ c \in Consumers /\ "courier.assigned" \in Topics
    BY DEF BusOK, BusTypeOK, Consumers, DeliveryGroups, Topics
  <1>2. CASE ~Assign(c, OrderOf(c))
    BY <1>2 DEF HandleOrderReady, FindAvailableCourier, MarkBusy, Unassign
  <1>3. CASE Assign(c, OrderOf(c)) /\ pc'[c] = "idle"
    <2>1. pc[c] = "publishAssigned" /\ chosen \in Couriers /\ OrderOf(c) \in Orders
      BY <1>1, <1>3, CurrentMessage DEF Assign, ChosenOK, BusOK, OffsetsOK
    <2>2. PICK o \in Orders : o = OrderOf(c)
      BY <2>1
    <2>3. PICK m \in Payload("courier.assigned") :
             m = [order |-> o, courier |-> chosen] /\ m.order = o
      BY <2>1, PayloadType
    <2>4. Write("courier.assigned", m)
      BY <1>1, <1>3, <2>1, <2>2, <2>3 DEF Assign, Emit, Continue, Goto, Stay
    <2>5. Published("courier.assigned", o)'
      BY <1>1, <2>3, <2>4, WritePublishes
    <2>6. \A k \in Couriers, p \in Orders : riding'[k][p] # riding[k][p] => p = o
      BY <1>3, <2>1, <2>2 DEF Assign, DeliveryTypeOK
    <2> QED
      BY <2>5, <2>6
  <1>4. CASE Assign(c, OrderOf(c)) /\ pc'[c] # "idle"
    BY <1>4 DEF Assign
  <1> QED
    BY <1>2, <1>3, <1>4

\* No step starts work without a cause, or loses the cause of work under way.
LEMMA WorkStaysCaused ==
    ASSUME IInv, WorkIsCaused, [Next]_vars
    PROVE  WorkIsCaused'
  <1>0. /\ BusOK /\ RestaurantTypeOK /\ DeliveryTypeOK /\ ChosenOK
        /\ {"restaurant-svc", "delivery-svc"} \subseteq Consumers
        /\ {"order.paid", "courier.assigned"} \subseteq Topics
    BY DEF IInv, Typed, Consumers, RestaurantGroups, DeliveryGroups, Topics
  <1>1. \A t \in Topics, o \in Orders : Published(t, o) => Published(t, o)'
    BY <1>0, NextTells, PublishedKept
  <1>2. CASE UNCHANGED <<cooking, riding, arrived>>
    BY <1>0, <1>1, <1>2 DEF WorkIsCaused
  <1>3. CASE RestaurantSvc(RestaurantNext)
    <2>1. UNCHANGED <<riding, arrived>>
      BY <1>3 DEF RestaurantSvc, deliveryVars
    <2>2. ASSUME NEW o \in Orders, cooking'[o] > 0
          PROVE  Published("order.paid", o)
      <3>1. CASE HandleOrderPaid
        <4>1. Published("order.paid", OrderOf("restaurant-svc"))
          BY <1>0, <3>1, HandleOrderPaidEffect DEF BusEffect, TopicOf
        <4> QED
          BY <1>0, <2>2, <3>1, <4>1, HandleOrderPaidEffect DEF WorkIsCaused
      <3>2. ASSUME NEW p \in Orders, DishReady(p) PROVE Published("order.paid", o)
        BY <1>0, <2>2, <3>2, DishReadyEffect DEF WorkIsCaused
      <3>3. CASE RestaurantRestart
        BY <1>0, <2>2, <3>3, RestaurantRestartEffect
      <3> QED
        BY <1>3, <3>1, <3>2, <3>3 DEF RestaurantSvc, RestaurantNext
    <2> QED
      BY <1>0, <1>1, <2>1, <2>2 DEF WorkIsCaused
  <1>4. CASE DeliverySvc(DeliveryNext)
    <2>1. UNCHANGED cooking
      BY <1>4 DEF DeliverySvc
    <2>2. ASSUME HandleOrderReady
          PROVE  WorkIsCaused'
      BY <1>0, <1>1, <2>1, <2>2, HandleOrderReadyEffect, RideIsAnnounced DEF WorkIsCaused
    <2>3. ASSUME NEW k \in Couriers, NEW o \in Orders, RideEnds(k, o)
          PROVE  WorkIsCaused'
      BY <1>0, <1>1, <2>1, <2>3, RideEndsEffect DEF WorkIsCaused
    <2>4. ASSUME NEW o \in Orders, PublishDelivered(o)
          PROVE  WorkIsCaused'
      BY <1>0, <1>1, <2>1, <2>4, PublishDeliveredEffect DEF WorkIsCaused
    <2>5. ASSUME DeliveryRestart
          PROVE  WorkIsCaused'
      BY <1>0, <1>1, <2>1, <2>5, DeliveryRestartEffect DEF WorkIsCaused
    <2> QED
      BY <1>4, <2>2, <2>3, <2>4, <2>5 DEF DeliverySvc, DeliveryNext
  <1> QED
    BY <1>2, <1>3, <1>4, NextCases DEF OrderSvc, PaymentSvc, deliveryVars, StandStill

-----------------------------------------------------------------------------
(***************************************************************************)
(* The refinement.                                                         *)
(***************************************************************************)
ToldSoFar == [o \in Orders |-> {t \in Topics : Published(t, o)}]

\* A step that publishes tells one event of the story, and every other step is
\* a stutter of it.
LEMMA StepTellsStory ==
    ASSUME IInv, WorkIsCaused, [Next]_vars
    PROVE  (\E t \in Story!Told, o \in Orders : Story!Tell(t, o)) \/ UNCHANGED ToldSoFar
  <1>1. LogStep /\ TellsWithCause /\ BusOK
    BY NextTells DEF IInv, Typed
  <1>2. CASE UNCHANGED log
    BY <1>2 DEF ToldSoFar, Published
  <1>3. ASSUME NEW t \in Topics, NEW m \in Payload(t), Write(t, m)
        PROVE  (\E u \in Story!Told, o \in Orders : Story!Tell(u, o)) \/ UNCHANGED ToldSoFar
    <2> DEFINE o == m.order
    <2>1. o \in Orders /\ t \in Story!Told
      BY PayloadType DEF Story!Told, Topics
    <2>2. \A u \in Topics, p \in Orders :
             Published(u, p)' <=> Published(u, p) \/ (u = t /\ p = o)
      BY <1>1, <1>3, WriteKeeps, WritePublishes, PublishedKept
    <2>3. CASE Published(t, o)
      BY <2>2, <2>3 DEF ToldSoFar
    <2>4. CASE ~Published(t, o)
      <3>1. t = "order.created" \/ Story!Causes(t) \cap ToldSoFar[o] # {}
        <4>1. \A u \in Story!Causes(t) : u \in Topics
          BY DEF Story!Causes, Topics
        <4>2. t = "order.created" \/ \E u \in Story!Causes(t) : Published(u, o)
          BY <1>1, <2>1, <2>2, <2>4 DEF TellsWithCause
        <4> QED
          BY <2>1, <4>1, <4>2 DEF ToldSoFar
      <3>2. ToldSoFar' = [ToldSoFar EXCEPT ![o] = @ \cup {t}]
        BY <2>1, <2>2 DEF ToldSoFar
      <3> QED
        BY <2>1, <3>1, <3>2 DEF Story!Tell, ToldSoFar
    <2> QED
      BY <2>3, <2>4
  <1> QED
    BY <1>1, <1>2, <1>3 DEF LogStep

\* Nothing is under way at the start.
LEMMA WorkHasCauseAtStart == Init => WorkIsCaused
  <1> SUFFICES ASSUME Init PROVE WorkIsCaused
    OBVIOUS
  <1>1. \A o \in Orders : cooking[o] = 0 /\ arrived[o] = 0
    BY DEF Init, RestaurantInit, DeliveryInit
  <1>2. \A k \in Couriers, o \in Orders : riding[k][o] = 0
    BY DEF Init, DeliveryInit
  <1>3. ASSUME NEW o \in Orders
        PROVE  /\ ~(cooking[o] > 0) /\ ~(arrived[o] > 0)
               /\ \A k \in Couriers : ~(riding[k][o] > 0)
    BY <1>1, <1>2
  <1> QED
    BY <1>3 DEF WorkIsCaused

\* Behind every cook there is an order.paid, behind every ride and arrival a
\* courier.assigned about the same order.
THEOREM WorkHasACause == Spec => []WorkIsCaused
  BY WorkHasCauseAtStart, WorkStaysCaused, Inductive, PTL DEF Spec

\* The saga implements the story of its events, for any number of orders,
\* couriers, crashes and failing calls.
THEOREM SagaTellsTheStory == Spec => TellsTheStory
  <1>1. Init => Story!StoryInit
    BY TopicOfType DEF Init, BusInit, Story!StoryInit, Published
  <1>2. IInv /\ WorkIsCaused /\ [Next]_vars => [Story!StoryNext]_ToldSoFar
    BY StepTellsStory DEF Story!StoryNext
  <1> QED
    BY <1>1, <1>2, WorkHasACause, Inductive, PTL
       DEF Spec, TellsTheStory, Story!StorySpec, ToldSoFar

-----------------------------------------------------------------------------
(***************************************************************************)
(* The saga implements OrderLifecycle, and what a customer reads of an     *)
(* order is true of its money: order-svc and payment-svc never read each   *)
(* other's database, so that each of these facts has to travel with the    *)
(* events.                                                                 *)
(***************************************************************************)
\* The consumers of payment.processed and of payment.refund.requested.
cashier  == "order-svc-payment"
refunder == "payment-svc-refund"

\* The events about an order that has left PENDING.
Beyond == {"order.paid", "order.ready", "order.preparation.failed", "courier.assigned",
           "delivery.failed", "order.delivered", "payment.refund.requested",
           "payment.refunded"}

-----------------------------------------------------------------------------
(***************************************************************************)
(* The inductive invariant.  What is true of the status of an order must   *)
(* be true of every event that lets a consumer write it again, and of a    *)
(* consumer that has written and not yet published.                        *)
(***************************************************************************)
\* Nobody knows of an order that has no row.
Known ==
    \A o \in Orders :
        o \in creating \/ payments[o] # "NONE" \/ (\E t \in Topics : Published(t, o))
        => status[o] # "NONE"

\* An order that was handed on is PENDING no more.
Moved == \A o \in Orders : (\E t \in Beyond : Published(t, o)) => status[o] \in Life!Later

\* Nor is the one that is about to be handed on.
AnnouncesMoved ==
    pc[cashier] \in {"publish", "announce"} => status[OrderOf(cashier)] \in Life!Later

\* What is told or shown of a refund is true of the money.
MoneyBack ==
    \A o \in Orders : Published("payment.refunded", o) \/ status[o] = "REFUNDED"
                      => payments[o] = "REFUNDED"

\* The consumer that refunds has found the order charged, and marks it before
\* it tells.
RefundsCharged ==
    /\ pc[refunder] = "markRefunded" => Paid(OrderOf(refunder))
    /\ pc[refunder] = "publishRefunded" => payments[OrderOf(refunder)] = "REFUNDED"

\* Nothing is refunded unasked.
Requested ==
    \A o \in Orders : payments[o] = "REFUNDED" => Published("payment.refund.requested", o)

\* Whatever was said of an order has a cause that was said before.
Caused ==
    \A t \in Topics, o \in Orders : Published(t, o) =>
        t = "order.created" \/ \E u \in Story!Causes(t) : Published(u, o)

LifeInv == /\ WorkIsCaused /\ Caused /\ Known /\ Moved /\ AnnouncesMoved
           /\ MoneyBack /\ RefundsCharged /\ Requested

-----------------------------------------------------------------------------
(***************************************************************************)
(* What a step may do to a status and to a payment.                        *)
(***************************************************************************)
StatusMoves ==
    \A o \in Orders : status'[o] # status[o] =>
        \/ status[o] = "NONE" /\ status'[o] = "PENDING"
        \/ status'[o] = "PAID" /\ Published("payment.processed", o)
        \/ /\ status'[o] = "CANCELLED"
           /\ \E t \in {"payment.failed", "order.preparation.failed", "delivery.failed"} :
                 Published(t, o)
        \/ status'[o] = "REFUNDED" /\ Published("payment.refunded", o)
        \/ status'[o] = "DELIVERING" /\ Published("courier.assigned", o)
        \/ status'[o] = "DELIVERED" /\ Published("order.delivered", o)

PaymentMoves ==
    \A o \in Orders : payments'[o] # payments[o] =>
        \/ /\ payments[o] = "NONE" /\ payments'[o] \in {"SUCCESS", "FAILED"}
           /\ Published("order.created", o)
        \/ /\ payments[o] = "SUCCESS" /\ payments'[o] = "REFUNDED"
           /\ Published("payment.refund.requested", o)

\* One row at a time.
OneRow(table) ==
    \A o, p \in Orders : table'[o] # table[o] /\ table'[p] # table[p] => o = p

\* A consumer of order-svc writes only what its topic tells it.
LEMMA ToldStatus ==
    ASSUME NEW c \in Consumers, NEW new, NEW topics, StatusEffect(c, new, topics),
           \/ new = {"PAID"} /\ TopicOf(c) = "payment.processed"
           \/ /\ new = {"CANCELLED"}
              /\ TopicOf(c) \in {"payment.failed", "order.preparation.failed", "delivery.failed"}
           \/ new = {"REFUNDED"} /\ TopicOf(c) = "payment.refunded"
           \/ new = {"DELIVERING"} /\ TopicOf(c) = "courier.assigned"
           \/ new = {"DELIVERED"} /\ TopicOf(c) = "order.delivered"
    PROVE  StatusMoves /\ OneRow(status)
  <1>1. /\ Published(TopicOf(c), OrderOf(c))
        /\ \A o \in Orders : status'[o] = status[o] \/ (o = OrderOf(c) /\ status'[o] \in new)
    BY DEF StatusEffect, BusEffect
  <1> QED
    BY <1>1 DEF StatusMoves, OneRow

\* order-svc inserts a PENDING row, or writes what one of its seven topics
\* tells it.
LEMMA OrderMoves ==
    ASSUME IInv, OrderNext
    PROVE  StatusMoves /\ OneRow(status)
  <1>0. BusOK /\ OrderTypeOK
    BY DEF IInv, Typed
  <1> USE DEF TopicOf, Consumers, OrderGroups
  <1>1. ASSUME NEW o \in Orders, CreateOrder(o) PROVE StatusMoves /\ OneRow(status)
    BY <1>0, <1>1 DEF CreateOrder, OrderTypeOK, StatusMoves, OneRow
  <1>2. CASE UNCHANGED status
    BY <1>2 DEF StatusMoves, OneRow
  <1>3. CASE HandlePaymentProcessed
    BY <1>0, <1>3, HandlePaymentProcessedEffect, ToldStatus
  <1>4. CASE HandlePaymentFailed
    BY <1>0, <1>4, HandlePaymentFailedEffect, ToldStatus
  <1>5. ASSUME NEW c \in {"order-svc-prep-failed", "order-svc-delivery-failed"},
               CancelWithRefund(c)
        PROVE  StatusMoves /\ OneRow(status)
    BY <1>0, <1>5, CancelWithRefundEffect, ToldStatus
  <1>6. CASE HandlePaymentRefunded
    BY <1>0, <1>6, HandlePaymentRefundedEffect, ToldStatus
  <1>7. CASE HandleCourierAssigned
    BY <1>0, <1>7, HandleCourierAssignedEffect, ToldStatus
  <1>8. CASE HandleOrderDelivered
    BY <1>0, <1>8, HandleOrderDeliveredEffect, ToldStatus
  <1> QED
    BY <1>1, <1>2, <1>3, <1>4, <1>5, <1>6, <1>7, <1>8
       DEF OrderNext, OrderConsumes, PublishCreated, OrderRestart

\* payment-svc settles a payment once and gives it back once, each on the event
\* that asks for it.
LEMMA PaymentMovesOn ==
    ASSUME IInv, PaymentNext
    PROVE  PaymentMoves /\ OneRow(payments)
  <1>0. /\ BusOK /\ PaymentTypeOK /\ AnnouncesPaid
        /\ {"payment-svc", refunder} \subseteq Consumers
    BY DEF IInv, Typed, Consumers, PaymentGroups, refunder
  <1>1. CASE UNCHANGED payments
    BY <1>1 DEF PaymentMoves, OneRow
  <1>2. CASE HandleOrderCreated
    <2> DEFINE o == OrderOf("payment-svc")
    <2>1. o \in Orders /\ Published("order.created", o)
      BY <1>0, <1>2, HandleOrderCreatedEffect DEF BusEffect, TopicOf
    <2>2. \/ UNCHANGED payments
          \/ \E s \in {"SUCCESS", "FAILED"} : Inserted(o, s)
      BY <1>2 DEF HandleOrderCreated, FindPayment, Decline, Approve
    <2> QED
      BY <1>0, <2>1, <2>2 DEF Inserted, PaymentMoves, OneRow, PaymentTypeOK
  <1>3. CASE HandleRefundRequested
    <2> DEFINE o == OrderOf(refunder)
    <2>1. o \in Orders /\ Published("payment.refund.requested", o)
      BY <1>0, <1>3, HandleRefundRequestedEffect DEF BusEffect, TopicOf, refunder
    <2>2. UNCHANGED payments \/ MarkedRefunded(o)
      BY <1>3 DEF HandleRefundRequested, refunder
    <2> QED
      BY <1>0, <2>1, <2>2 DEF MarkedRefunded, PaymentMoves, OneRow, PaymentTypeOK
  <1> QED
    BY <1>1, <1>2, <1>3 DEF PaymentNext, PaymentRestart

\* A step writes at most one order and at most one payment, never both.
LEMMA NextMoves ==
    ASSUME IInv, [Next]_vars
    PROVE  /\ StatusMoves /\ OneRow(status)
           /\ PaymentMoves /\ OneRow(payments)
           /\ UNCHANGED payments \/ UNCHANGED status
  <1>1. CASE UNCHANGED status
    <2>1. CASE UNCHANGED payments
      BY <1>1, <2>1 DEF StatusMoves, PaymentMoves, OneRow
    <2>2. CASE PaymentSvc(PaymentNext)
      BY <1>1, <2>2, PaymentMovesOn DEF PaymentSvc, StatusMoves, OneRow
    <2> QED
      BY <2>1, <2>2, NextCases DEF OrderSvc, RestaurantSvc, DeliverySvc, StandStill
  <1>2. CASE OrderSvc(OrderNext)
    BY <1>2, OrderMoves DEF OrderSvc, PaymentMoves, OneRow
  <1> QED
    BY <1>1, <1>2, NextCases DEF PaymentSvc, RestaurantSvc, DeliverySvc, orderVars, StandStill

-----------------------------------------------------------------------------
(***************************************************************************)
(* The consumers that write first and publish then.                        *)
(***************************************************************************)
\* An order that has left PENDING does not come back to it, and one that has a
\* row keeps it.
LEMMA StatusOnward ==
    ASSUME StatusMoves, NEW o \in Orders
    PROVE  /\ status[o] \in Life!Later => status'[o] \in Life!Later
           /\ status[o] # "NONE" => status'[o] # "NONE"
           /\ status'[o] = "REFUNDED" => status[o] = "REFUNDED" \/ Published("payment.refunded", o)
  BY DEF StatusMoves, Life!Later

\* A charge is given back at most, and money that is back stays back.
LEMMA PaymentOnward ==
    ASSUME PaymentMoves, NEW o \in Orders
    PROVE  /\ Paid(o) => Paid(o)'
           /\ payments[o] = "REFUNDED" => payments'[o] = "REFUNDED"
           /\ payments'[o] # "NONE" => payments[o] # "NONE" \/ Published("order.created", o)
           /\ payments'[o] = "REFUNDED" =>
                 payments[o] = "REFUNDED" \/ Published("payment.refund.requested", o)
  BY DEF PaymentMoves, Paid

\* A consumer that stays keeps what it knows of its order.
LEMMA KnowledgeKept ==
    ASSUME BusOK, LogStep, StatusMoves, PaymentMoves
    PROVE  /\ AnnouncesMoved /\ StaysPut(cashier) => AnnouncesMoved'
           /\ RefundsCharged /\ StaysPut(refunder) => RefundsCharged'
  <1>1. ASSUME NEW c \in {cashier, refunder}, StaysPut(c), pc[c] # "idle"
        PROVE  OrderOf(c) \in Orders /\ OrderOf(c)' = OrderOf(c)
    <2>1. c \in Consumers
      BY DEF cashier, refunder, Consumers, OrderGroups, PaymentGroups
    <2> QED
      BY <1>1, <2>1, CurrentMessage, CurrentKept DEF StaysPut, BusOK, OffsetsOK
  <1>2. ASSUME AnnouncesMoved, StaysPut(cashier) PROVE AnnouncesMoved'
    BY <1>1, <1>2, StatusOnward DEF AnnouncesMoved, StaysPut
  <1>3. ASSUME RefundsCharged, StaysPut(refunder) PROVE RefundsCharged'
    BY <1>1, <1>3, PaymentOnward DEF RefundsCharged, StaysPut, Paid
  <1> QED
    BY <1>2, <1>3

\* payment.processed: the row is PAID before order.paid is published.
LEMMA CashierKeeps ==
    ASSUME IInv, AnnouncesMoved, HandlePaymentProcessed
    PROVE  /\ AnnouncesMoved'
           /\ \A o \in Orders : Published("order.paid", o)' =>
                 Published("order.paid", o) \/ status[o] \in Life!Later
  <1> DEFINE c == cashier
  <1>0. /\ BusOK /\ OrderTypeOK /\ c \in Consumers /\ pc \in [Consumers -> Steps]
        /\ StatusEffect(c, {"PAID"}, {"order.paid", "order.status.changed"})
    BY HandlePaymentProcessedEffect
       DEF IInv, Typed, BusOK, BusTypeOK, cashier, Consumers, OrderGroups
  <1>1. LogStep /\ OrderOf(c) \in Orders
    BY <1>0 DEF StatusEffect, BusEffect, HandlerStep
  <1>2. StatusMoves
    BY <1>0, ToldStatus DEF TopicOf, cashier
  <1>3. pc'[c] \in {"publish", "announce"} => pc[c] # "idle" /\ pos'[c] = pos[c]
    BY <1>0 DEF HandlePaymentProcessed, Receive, UpdateStatus, PublishStatus, Emit, Returns,
                Fails, Continue, Finish, Goto, Stay, cashier
  <1>4. pc'[c] \in {"publish", "announce"} => status'[OrderOf(c)] \in Life!Later
    <2>1. CASE pc[c] = "update"
      BY <1>0, <1>1, <2>1 DEF HandlePaymentProcessed, Receive, HasMessage, UpdateStatus,
         Returns, Fails, Continue, Finish, Goto, cashier, OrderTypeOK, Life!Later
    <2>2. CASE pc[c] \in {"publish", "announce"}
      BY <1>1, <1>2, <2>2, StatusOnward DEF AnnouncesMoved
    <2>3. CASE pc[c] = "idle"
      BY <1>0, <2>3 DEF HandlePaymentProcessed, Receive, Fails, Finish, Goto, cashier
    <2> QED
      BY <1>0, <2>1, <2>2, <2>3 DEF HandlePaymentProcessed, Receive, HasMessage, cashier
  <1>5. AnnouncesMoved'
    BY <1>0, <1>1, <1>3, <1>4, CurrentKept DEF AnnouncesMoved
  <1>6. CASE pc[c] = "publish"
    <2>1. status[OrderOf(c)] \in Life!Later
      BY <1>6 DEF AnnouncesMoved
    <2> QED
      BY <1>0, <1>5, <2>1 DEF StatusEffect, BusEffect, Topics
  <1>7. CASE pc[c] # "publish"
    <2>1. UNCHANGED log \/ PublishStatus(c, OrderOf(c), "PAID", "idle")
      BY <1>7 DEF HandlePaymentProcessed, Receive, UpdateStatus, cashier
    <2>2. CASE UNCHANGED log
      BY <1>5, <2>2 DEF Published
    <2>3. CASE PublishStatus(c, OrderOf(c), "PAID", "idle") /\ pc[c] # "idle"
      <3>1. /\ {"order.status.changed", "order.paid"} \subseteq Topics
            /\ "PAID" \in Statuses /\ "idle" \in Steps
        BY DEF Topics, Statuses, Steps
      <3>2. UNCHANGED <<committed, crashes>>
        BY DEF HandlePaymentProcessed
      <3>3. StatusEffect(c, {}, {"order.status.changed"})
        BY <1>0, <2>3, <3>1, <3>2, PublishStatusEffect
      <3> QED
        BY <1>5, <3>1, <3>3 DEF StatusEffect, BusEffect
    <2> QED
      BY <1>7, <2>1, <2>2, <2>3 DEF HandlePaymentProcessed, Receive, UpdateStatus, cashier
  <1> QED
    BY <1>6, <1>7

\* payment.refund.requested: the payment is REFUNDED before payment.refunded is
\* published, and only a charged one is.
LEMMA RefunderKeeps ==
    ASSUME IInv, RefundsCharged, HandleRefundRequested
    PROVE  /\ RefundsCharged'
           /\ \A o \in Orders : Published("payment.refunded", o)' =>
                 Published("payment.refunded", o) \/ payments[o] = "REFUNDED"
  <1> DEFINE c == refunder
             o == OrderOf(c)
  <1>0. /\ BusOK /\ PaymentTypeOK /\ c \in Consumers /\ pc \in [Consumers -> Steps]
        /\ BusEffect(c, {"payment.refunded"})
    BY HandleRefundRequestedEffect
       DEF IInv, Typed, BusOK, BusTypeOK, refunder, Consumers, PaymentGroups
  <1>1. LogStep /\ o \in Orders
    BY <1>0 DEF BusEffect, HandlerStep
  <1>2. CASE Receive(c, ~CanRefund(o), "markRefunded") /\ UNCHANGED payments
    <2>1. pc'[c] = "markRefunded" => pos' = pos /\ payments'[o] = "SUCCESS"
      BY <1>0, <1>2 DEF Receive, HasMessage, Fails, Finish, Goto, CanRefund
    <2>2. pc'[c] \in {"idle", "markRefunded"} /\ UNCHANGED log
      BY <1>0, <1>2 DEF Receive, Fails, Finish, Goto
    <2>3. pos' = pos => OrderOf(c)' = o
      BY <2>2 DEF OrderOf, Current
    <2> QED
      BY <2>1, <2>2, <2>3 DEF RefundsCharged, Published, Paid
  <1>3. CASE /\ pc[c] = "markRefunded"
             /\ \/ MarkedRefunded(o) /\ Returns(c, "publishRefunded")
                \/ UNCHANGED payments /\ Fails(c)
             /\ UNCHANGED log
    <2>1. pc'[c] = "publishRefunded" => pos' = pos /\ payments'[o] = "REFUNDED"
      BY <1>0, <1>1, <1>3
         DEF RefundsCharged, Paid, MarkedRefunded, PaymentTypeOK, Returns, Fails, Continue,
             Finish, Goto
    <2>2. pc'[c] \in {"idle", "publishRefunded"}
      BY <1>0, <1>3 DEF Returns, Fails, Continue, Finish, Goto
    <2>3. pos' = pos => OrderOf(c)' = o
      BY <1>3 DEF OrderOf, Current
    <2> QED
      BY <1>3, <2>1, <2>2, <2>3 DEF RefundsCharged, Published
  <1>4. CASE /\ pc[c] = "publishRefunded"
             /\ Emit(c, "payment.refunded", [order |-> o], "idle", "idle")
             /\ UNCHANGED payments
    <2>1. payments[o] = "REFUNDED"
      BY <1>4 DEF RefundsCharged
    <2>2. pc'[c] # "idle" => pc'[c] = "publishRefunded" /\ pos'[c] = pos[c]
      BY <1>0, <1>4 DEF Emit, Continue, Finish, Goto, Stay
    <2>3. pos'[c] = pos[c] => OrderOf(c)' = o
      BY <1>0, <1>1, <1>4, CurrentKept
    <2>4. RefundsCharged'
      BY <1>4, <2>1, <2>2, <2>3 DEF RefundsCharged
    <2> QED
      BY <1>0, <2>1, <2>4 DEF BusEffect, Topics
  <1> QED
    BY <1>2, <1>3, <1>4 DEF HandleRefundRequested, refunder

-----------------------------------------------------------------------------
(***************************************************************************)
(* Who speaks on which topic.                                              *)
(***************************************************************************)
OrderSays      == {"order.created", "order.paid", "order.cancelled",
                   "order.status.changed", "payment.refund.requested"}
PaymentSays    == {"payment.processed", "payment.failed", "payment.refunded"}
RestaurantSays == {"order.ready", "order.preparation.failed"}
DeliverySays   == {"courier.assigned", "delivery.failed", "order.delivered"}

\* A step publishes about no other order on topic t than those already there.
Silent(t) == \A o \in Orders : Published(t, o)' => Published(t, o)

\* A step writes to these topics, and about one order.
SpeaksOn(topics) ==
    /\ \A t \in Topics \ topics : Silent(t)
    /\ UNCHANGED log \/ \E o \in Orders : Writes(topics, o)

\* A step that publishes on fewer topics publishes on those.
LEMMA FewerTopics ==
    ASSUME NEW topics, NEW more, topics \subseteq more,
           \/ \E c \in Consumers : BusEffect(c, topics)
           \/ \E o \in Orders : GoroutineEffect(o, topics)
           \/ UNCHANGED log
    PROVE  SpeaksOn(more)
  <1>1. \A t \in Topics \ more : Silent(t)
    BY DEF Silent, BusEffect, GoroutineEffect, Published
  <1>2. topics \cap Topics \subseteq more \cap Topics
    OBVIOUS
  <1>3. \A o : Writes(topics, o) => Writes(more, o)
    BY <1>2 DEF Writes
  <1> QED
    BY <1>1, <1>3 DEF SpeaksOn, BusEffect, GoroutineEffect

\* order-svc speaks of orders, and asks for refunds.
LEMMA OrderSpeaks == ASSUME IInv, OrderNext PROVE SpeaksOn(OrderSays)
  <1>0. BusOK /\ OrderTypeOK
    BY DEF IInv, Typed
  <1> USE DEF OrderSays, SayCancelled, CancelTopics, Consumers, OrderGroups
  <1>1. ASSUME NEW o \in Orders, CreateOrder(o) \/ PublishCreated(o)
        PROVE  SpeaksOn(OrderSays)
    BY <1>0, <1>1, PublishCreatedEffect, FewerTopics DEF CreateOrder
  <1>2. CASE HandlePaymentProcessed
    BY <1>0, <1>2, HandlePaymentProcessedEffect, FewerTopics DEF StatusEffect
  <1>3. CASE HandlePaymentFailed
    BY <1>0, <1>3, HandlePaymentFailedEffect, FewerTopics DEF StatusEffect
  <1>4. ASSUME NEW c \in {"order-svc-prep-failed", "order-svc-delivery-failed"},
               CancelWithRefund(c)
        PROVE  SpeaksOn(OrderSays)
    BY <1>0, <1>4, CancelWithRefundEffect, FewerTopics DEF StatusEffect
  <1>5. CASE HandlePaymentRefunded
    BY <1>0, <1>5, HandlePaymentRefundedEffect, FewerTopics DEF StatusEffect
  <1>6. CASE HandleCourierAssigned
    BY <1>0, <1>6, HandleCourierAssignedEffect, FewerTopics DEF StatusEffect
  <1>7. CASE HandleOrderDelivered
    BY <1>0, <1>7, HandleOrderDeliveredEffect, FewerTopics DEF StatusEffect
  <1>8. CASE OrderRestart
    BY <1>0, <1>8, OrderRestartEffect, FewerTopics
  <1> QED
    BY <1>1, <1>2, <1>3, <1>4, <1>5, <1>6, <1>7, <1>8 DEF OrderNext, OrderConsumes

\* payment-svc speaks of payments.
LEMMA PaymentSpeaks == ASSUME IInv, PaymentNext PROVE SpeaksOn(PaymentSays)
  <1>0. BusOK /\ PaymentTypeOK /\ AnnouncesPaid
    BY DEF IInv, Typed
  <1> USE DEF PaymentSays, Consumers, PaymentGroups
  <1>1. CASE HandleOrderCreated
    BY <1>0, <1>1, HandleOrderCreatedEffect, FewerTopics
  <1>2. CASE HandleRefundRequested
    BY <1>0, <1>2, HandleRefundRequestedEffect, FewerTopics
  <1>3. CASE PaymentRestart
    BY <1>3, FewerTopics DEF PaymentRestart, Restart
  <1> QED
    BY <1>1, <1>2, <1>3 DEF PaymentNext

\* restaurant-svc speaks of dishes.
LEMMA RestaurantSpeaks == ASSUME IInv, RestaurantNext PROVE SpeaksOn(RestaurantSays)
  <1>0. BusOK /\ RestaurantTypeOK
    BY DEF IInv, Typed
  <1> USE DEF RestaurantSays, Consumers, RestaurantGroups
  <1>1. CASE HandleOrderPaid
    BY <1>0, <1>1, HandleOrderPaidEffect, FewerTopics
  <1>2. ASSUME NEW o \in Orders, DishReady(o) PROVE SpeaksOn(RestaurantSays)
    BY <1>0, <1>2, DishReadyEffect, FewerTopics
  <1>3. CASE RestaurantRestart
    BY <1>3, FewerTopics DEF RestaurantRestart, Restart
  <1> QED
    BY <1>1, <1>2, <1>3 DEF RestaurantNext

\* delivery-svc speaks of rides.
LEMMA DeliverySpeaks == ASSUME IInv, DeliveryNext PROVE SpeaksOn(DeliverySays)
  <1>0. BusOK /\ DeliveryTypeOK /\ ChosenOK
    BY DEF IInv, Typed
  <1> USE DEF DeliverySays, Consumers, DeliveryGroups
  <1>1. CASE HandleOrderReady
    BY <1>0, <1>1, HandleOrderReadyEffect, FewerTopics
  <1>2. ASSUME NEW k \in Couriers, NEW o \in Orders, RideEnds(k, o)
        PROVE  SpeaksOn(DeliverySays)
    BY <1>2, FewerTopics DEF RideEnds
  <1>3. ASSUME NEW o \in Orders, PublishDelivered(o) PROVE SpeaksOn(DeliverySays)
    BY <1>0, <1>3, PublishDeliveredEffect, FewerTopics
  <1>4. CASE DeliveryRestart
    BY <1>4, FewerTopics DEF DeliveryRestart, Restart
  <1> QED
    BY <1>1, <1>2, <1>3, <1>4 DEF DeliveryNext

-----------------------------------------------------------------------------
(***************************************************************************)
(* What the invariant needs to know of a step: order.paid is only told of  *)
(* orders that have left PENDING, payment.refunded only of money that is   *)
(* back, and the consumers that are about to tell so still know it.        *)
(***************************************************************************)
NewsIsTrue ==
    /\ AnnouncesMoved' /\ RefundsCharged'
    /\ \A o \in Orders : Published("order.paid", o)' =>
          Published("order.paid", o) \/ status[o] \in Life!Later
    /\ \A o \in Orders : Published("payment.refunded", o)' =>
          Published("payment.refunded", o) \/ payments[o] = "REFUNDED"

\* In order-svc only the consumer of payment.processed is concerned.
LEMMA OrderNews ==
    ASSUME IInv, AnnouncesMoved, OrderNext, StatusMoves, PaymentMoves
    PROVE  /\ AnnouncesMoved'
           /\ \A o \in Orders : Published("order.paid", o)' =>
                 Published("order.paid", o) \/ status[o] \in Life!Later
  <1>0. BusOK /\ OrderTypeOK /\ cashier \in Consumers
    BY DEF IInv, Typed, cashier, Consumers, OrderGroups
  <1>1. CASE HandlePaymentProcessed
    BY <1>1, CashierKeeps
  <1>2. ASSUME NEW c \in Consumers \ {cashier}, NEW new, NEW topics,
               StatusEffect(c, new, topics), "order.paid" \notin topics
        PROVE  AnnouncesMoved' /\ Silent("order.paid")
    <2>1. HandlerStep(c) /\ LogStep
      BY <1>2 DEF StatusEffect, BusEffect, HandlerStep
    <2>2. StaysPut(cashier)
      BY <1>0, <1>2, <2>1, OtherConsumerKept DEF StaysPut
    <2> QED
      BY <1>0, <1>2, <2>1, <2>2, KnowledgeKept DEF StatusEffect, BusEffect, Silent, Topics
  <1>3. ASSUME NEW o \in Orders, CreateOrder(o) \/ PublishCreated(o)
        PROVE  AnnouncesMoved' /\ Silent("order.paid")
    <2>1. GoroutineStep /\ Silent("order.paid")
      BY <1>0, <1>3, CreateOrderEffect, PublishCreatedEffect DEF GoroutineEffect, Silent, Topics
    <2>2. LogStep /\ StaysPut(cashier)
      BY <2>1 DEF GoroutineStep, StaysPut
    <2> QED
      BY <1>0, <2>1, <2>2, KnowledgeKept
  <1>4. CASE OrderRestart
    BY <1>0, <1>4 DEF OrderRestart, Restart, AnnouncesMoved, Published, cashier, OrderGroups
  <1> USE DEF Consumers, OrderGroups, cashier, SayCancelled, CancelTopics
  <1>5. CASE HandlePaymentFailed
    BY <1>0, <1>2, <1>5, HandlePaymentFailedEffect DEF Silent
  <1>6. ASSUME NEW c \in {"order-svc-prep-failed", "order-svc-delivery-failed"},
               CancelWithRefund(c)
        PROVE  AnnouncesMoved' /\ Silent("order.paid")
    BY <1>0, <1>2, <1>6, CancelWithRefundEffect
  <1>7. CASE HandlePaymentRefunded
    BY <1>0, <1>2, <1>7, HandlePaymentRefundedEffect DEF Silent
  <1>8. CASE HandleCourierAssigned
    BY <1>0, <1>2, <1>8, HandleCourierAssignedEffect DEF Silent
  <1>9. CASE HandleOrderDelivered
    BY <1>0, <1>2, <1>9, HandleOrderDeliveredEffect DEF Silent
  <1> QED
    BY <1>1, <1>3, <1>4, <1>5, <1>6, <1>7, <1>8, <1>9 DEF OrderNext, OrderConsumes, Silent

\* In payment-svc only the consumer of payment.refund.requested is.
LEMMA PaymentNews ==
    ASSUME IInv, RefundsCharged, PaymentNext, StatusMoves, PaymentMoves
    PROVE  /\ RefundsCharged'
           /\ \A o \in Orders : Published("payment.refunded", o)' =>
                 Published("payment.refunded", o) \/ payments[o] = "REFUNDED"
  <1>0. /\ BusOK /\ PaymentTypeOK /\ AnnouncesPaid
        /\ refunder \in Consumers /\ "payment-svc" \in Consumers \ {refunder}
    BY DEF IInv, Typed, refunder, Consumers, PaymentGroups
  <1>1. CASE HandleRefundRequested
    BY <1>1, RefunderKeeps
  <1>2. CASE HandleOrderCreated
    <2>1. BusEffect("payment-svc", {"payment.failed", "payment.processed"})
      BY <1>0, <1>2, HandleOrderCreatedEffect
    <2>2. LogStep /\ StaysPut(refunder)
      BY <1>0, <2>1, OtherConsumerKept DEF BusEffect, HandlerStep, StaysPut
    <2> QED
      BY <1>0, <2>1, <2>2, KnowledgeKept DEF BusEffect, Topics
  <1>3. CASE PaymentRestart
    BY <1>0, <1>3 DEF PaymentRestart, Restart, RefundsCharged, Published, refunder,
                      PaymentGroups
  <1> QED
    BY <1>1, <1>2, <1>3 DEF PaymentNext

\* No other service speaks on these topics or moves these consumers.
LEMMA NextNews ==
    ASSUME IInv, AnnouncesMoved, RefundsCharged, [Next]_vars
    PROVE  NewsIsTrue
  <1>1. /\ BusOK /\ StatusMoves /\ PaymentMoves
        /\ cashier \in OrderGroups /\ refunder \in PaymentGroups
    BY NextMoves DEF IInv, Typed, cashier, refunder, OrderGroups, PaymentGroups
  <1>2. OrderGroups # PaymentGroups /\ OrderGroups # RestaurantGroups
    BY GroupsApart, <1>1
  <1>3. OrderGroups # DeliveryGroups /\ PaymentGroups # DeliveryGroups
    BY GroupsApart, <1>1
  <1>4. PaymentGroups # RestaurantGroups
    BY GroupsApart, <1>1
  <1>5. {"order.paid", "payment.refunded"} \subseteq Topics
    BY DEF Topics
  <1>6. ASSUME LogStep, StaysPut(cashier), StaysPut(refunder),
               Silent("order.paid"), Silent("payment.refunded")
        PROVE  NewsIsTrue
    BY <1>1, <1>6, KnowledgeKept DEF NewsIsTrue, Silent
  <1>7. CASE OrderSvc(OrderNext)
    <2>1. LogStep /\ StaysPut(refunder)
      BY <1>1, <1>2, <1>7, OrderServiceStep, OthersStep DEF OrderSvc
    <2>2. Silent("payment.refunded")
      BY <1>5, <1>7, OrderSpeaks DEF OrderSvc, SpeaksOn, OrderSays
    <2> QED
      BY <1>1, <1>7, <2>1, <2>2, OrderNews, KnowledgeKept DEF OrderSvc, NewsIsTrue, Silent
  <1>8. CASE PaymentSvc(PaymentNext)
    <2>1. LogStep /\ StaysPut(cashier)
      BY <1>1, <1>2, <1>8, PaymentServiceStep, OthersStep DEF PaymentSvc
    <2>2. Silent("order.paid")
      BY <1>5, <1>8, PaymentSpeaks DEF PaymentSvc, SpeaksOn, PaymentSays
    <2> QED
      BY <1>1, <1>8, <2>1, <2>2, PaymentNews, KnowledgeKept DEF PaymentSvc, NewsIsTrue, Silent
  <1>9. CASE RestaurantSvc(RestaurantNext)
    <2>1. LogStep /\ StaysPut(cashier) /\ StaysPut(refunder)
      BY <1>1, <1>2, <1>4, <1>9, RestaurantServiceStep, OthersStep DEF RestaurantSvc
    <2>2. Silent("order.paid") /\ Silent("payment.refunded")
      BY <1>5, <1>9, RestaurantSpeaks DEF RestaurantSvc, SpeaksOn, RestaurantSays
    <2> QED
      BY <1>6, <2>1, <2>2
  <1>10. CASE DeliverySvc(DeliveryNext)
    <2>1. LogStep /\ StaysPut(cashier) /\ StaysPut(refunder)
      BY <1>1, <1>3, <1>10, DeliveryServiceStep, OthersStep DEF DeliverySvc
    <2>2. Silent("order.paid") /\ Silent("payment.refunded")
      BY <1>5, <1>10, DeliverySpeaks DEF DeliverySvc, SpeaksOn, DeliverySays
    <2> QED
      BY <1>6, <2>1, <2>2
  <1>11. CASE StandStill
    BY <1>6, <1>11 DEF StandStill, LogStep, StaysPut, Silent, Published
  <1> QED
    BY <1>7, <1>8, <1>9, <1>10, <1>11, NextCases

-----------------------------------------------------------------------------
(***************************************************************************)
(* LifeInv is an invariant.                                                *)
(***************************************************************************)
\* What is said has been caused, and the cause of a cause stays said.
LEMMA CausedKept ==
    ASSUME BusOK, LogStep, TellsWithCause, Caused
    PROVE  Caused'
  <1> SUFFICES ASSUME NEW t \in Topics, NEW o \in Orders, Published(t, o)',
                      t # "order.created"
               PROVE  \E u \in Story!Causes(t) : Published(u, o)'
    BY DEF Caused
  <1>1. PICK u \in Story!Causes(t) : Published(u, o)
    BY DEF TellsWithCause, Caused
  <1>2. u \in Topics
    BY DEF Story!Causes, Topics
  <1> QED
    BY <1>1, <1>2, PublishedKept

\* An event that speaks of an order beyond PENDING is order.paid, or is caused
\* by another one.
LEMMA BeyondIsCaused ==
    ASSUME NEW t \in Beyond
    PROVE  t = "order.paid" \/ Story!Causes(t) \subseteq Beyond
  BY DEF Beyond, Story!Causes

\* A request that is under way has inserted its row.
LEMMA CreatingHasRow ==
    ASSUME IInv, OrderNext, NEW o \in creating'
    PROVE  o \in creating \/ status'[o] # "NONE"
  <1>0. OrderTypeOK
    BY DEF IInv, Typed
  <1>1. ASSUME NEW p \in Orders, CreateOrder(p)
        PROVE  o \in creating \/ status'[o] # "NONE"
    BY <1>0, <1>1 DEF CreateOrder, OrderTypeOK
  <1>2. ASSUME NEW p \in Orders, PublishCreated(p)
        PROVE  o \in creating
    BY <1>2 DEF PublishCreated, EmitAndForget
  <1>3. CASE OrderConsumes
    BY <1>3 DEF OrderConsumes, HandlePaymentProcessed, HandlePaymentFailed, CancelWithRefund,
                HandlePaymentRefunded, HandleCourierAssigned, HandleOrderDelivered
  <1>4. CASE OrderRestart
    BY <1>4 DEF OrderRestart
  <1> QED
    BY <1>1, <1>2, <1>3, <1>4 DEF OrderNext

\* Every step keeps the invariant.
LEMMA LifeInvKept == IInv /\ LifeInv /\ [Next]_vars => LifeInv'
  <1> SUFFICES ASSUME IInv, LifeInv, [Next]_vars
               PROVE  LifeInv'
    OBVIOUS
  <1>1. /\ BusOK /\ OrderTypeOK
        /\ WorkIsCaused /\ Caused /\ Known /\ Moved /\ AnnouncesMoved
        /\ MoneyBack /\ RefundsCharged /\ Requested
    BY DEF LifeInv, IInv, Typed
  <1>2. LogStep /\ TellsWithCause /\ WorkIsCaused'
    BY <1>1, NextTells, WorkStaysCaused
  <1>3. StatusMoves /\ PaymentMoves /\ NewsIsTrue
    BY <1>1, NextMoves, NextNews
  <1>4. Caused'
    BY <1>1, <1>2, CausedKept
  <1>5. \A t \in Topics, o \in Orders : Published(t, o) => Published(t, o)'
    BY <1>1, <1>2, PublishedKept
  <1>6. /\ Beyond \subseteq Topics
        /\ {"order.created", "payment.refund.requested", "payment.refunded"} \subseteq Topics
        /\ \A t \in Topics : Story!Causes(t) \subseteq Topics
    BY DEF Beyond, Topics, Story!Causes
  <1>7. Known'
    <2> SUFFICES ASSUME NEW o \in Orders,
                        \/ o \in creating' \/ payments'[o] # "NONE"
                        \/ \E t \in Topics : Published(t, o)'
                 PROVE  status'[o] # "NONE"
      BY DEF Known
    <2>1. CASE status[o] # "NONE"
      BY <1>3, <2>1, StatusOnward
    <2>2. CASE o \in creating'
      <3>1. CASE UNCHANGED creating
        BY <1>1, <2>1, <2>2, <3>1 DEF Known
      <3>2. CASE OrderSvc(OrderNext)
        BY <1>1, <2>1, <2>2, <3>2, CreatingHasRow DEF OrderSvc, Known
      <3> QED
        BY <3>1, <3>2, NextCases DEF PaymentSvc, RestaurantSvc, DeliverySvc, StandStill, orderVars
    <2>3. CASE payments'[o] # "NONE"
      BY <1>1, <1>3, <1>6, <2>1, <2>3, PaymentOnward DEF Known
    <2>4. ASSUME NEW t \in Topics, Published(t, o)' PROVE status[o] # "NONE"
      BY <1>1, <1>2, <1>6, <2>4 DEF TellsWithCause, Known
    <2> QED
      BY <2>1, <2>2, <2>3, <2>4
  <1>8. Moved'
    <2> SUFFICES ASSUME NEW o \in Orders, NEW t \in Beyond, Published(t, o)'
                 PROVE  status[o] \in Life!Later
      BY <1>3, StatusOnward DEF Moved
    <2>1. CASE Published(t, o)
      BY <1>1, <2>1 DEF Moved
    <2>2. CASE t = "order.paid"
      BY <1>1, <1>3, <2>1, <2>2 DEF NewsIsTrue
    <2>3. CASE t # "order.paid" /\ ~Published(t, o)
      <3>1. t # "order.created" /\ t \in Topics /\ Story!Causes(t) \subseteq Beyond
        BY <1>6, <2>3, BeyondIsCaused DEF Beyond
      <3> QED
        BY <1>1, <1>2, <2>3, <3>1 DEF TellsWithCause, Moved
    <2> QED
      BY <2>1, <2>2, <2>3
  <1>9. MoneyBack'
    <2> SUFFICES ASSUME NEW o \in Orders,
                        Published("payment.refunded", o)' \/ status'[o] = "REFUNDED"
                 PROVE  payments[o] = "REFUNDED"
      BY <1>3, PaymentOnward DEF MoneyBack
    <2> QED
      BY <1>1, <1>3, StatusOnward DEF MoneyBack, NewsIsTrue
  <1>10. Requested'
    BY <1>1, <1>3, <1>5, <1>6, PaymentOnward DEF Requested
  <1> QED
    BY <1>2, <1>3, <1>4, <1>7, <1>8, <1>9, <1>10 DEF LifeInv, NewsIsTrue

\* With nothing said and no row there is nothing to know.
LEMMA LifeInvAtStart == Init => LifeInv
  <1> SUFFICES ASSUME Init PROVE LifeInv
    OBVIOUS
  <1>1. \A t \in Topics, o \in Orders : ~Published(t, o)
    BY DEF Init, BusInit, Published
  <1>2. \A o \in Orders : status[o] = "NONE" /\ payments[o] = "NONE" /\ o \notin creating
    BY DEF Init, OrderInit, PaymentInit
  <1>3. pc[cashier] = "idle" /\ pc[refunder] = "idle"
    BY DEF Init, BusInit, cashier, refunder, Consumers, OrderGroups, PaymentGroups
  <1>4. WorkIsCaused
    BY WorkHasCauseAtStart
  <1>5. Beyond \subseteq Topics /\ "payment.refunded" \in Topics
    BY DEF Beyond, Topics
  <1> QED
    BY <1>1, <1>2, <1>3, <1>4, <1>5
       DEF LifeInv, Caused, Known, Moved, AnnouncesMoved, MoneyBack, RefundsCharged, Requested

\* LifeInv holds in every reachable state.
LEMMA LifeInductive == Spec => []LifeInv
  BY LifeInvAtStart, LifeInvKept, Inductive, PTL DEF Spec

-----------------------------------------------------------------------------
(***************************************************************************)
(* What the runs check.                                                    *)
(***************************************************************************)
\* An order is REFUNDED only when its money is back.
THEOREM MoneyIsBack == Spec => []RefundedOnlyIfMoneyBack
  <1>1. LifeInv => RefundedOnlyIfMoneyBack
    BY DEF LifeInv, MoneyBack, RefundedOnlyIfMoneyBack
  <1> QED
    BY <1>1, LifeInductive, PTL

\* Money goes back only after the kitchen or the dispatcher gave the order up.
THEOREM RefundsAreCaused == Spec => []RefundHasCause
  <1>1. LifeInv => RefundHasCause
    <2> SUFFICES ASSUME LifeInv, NEW o \in Orders, payments[o] = "REFUNDED"
                 PROVE  \E t \in {"order.preparation.failed", "delivery.failed"} : Published(t, o)
      BY DEF RefundHasCause
    <2>1. Published("payment.refund.requested", o)
      BY DEF LifeInv, Requested
    <2>2. /\ "payment.refund.requested" \in Topics
          /\ Story!Causes("payment.refund.requested") =
                {"order.preparation.failed", "delivery.failed"}
      BY DEF Topics, Story!Causes
    <2> QED
      BY <2>1, <2>2 DEF LifeInv, Caused
  <1> QED
    BY <1>1, LifeInductive, PTL

\* A declined order is never more than CANCELLED, and its money, never taken, is
\* never said to be back.
THEOREM DeclinedIsCancelled == Spec => []DeclinedOnlyCancelled
  <1>1. IInv /\ LifeInv => DeclinedOnlyCancelled
    <2> SUFFICES ASSUME IInv, LifeInv, NEW o \in Orders, payments[o] = "FAILED"
                 PROVE  /\ status[o] \in {"PENDING", "CANCELLED"}
                        /\ ~Published("payment.refunded", o)
      BY DEF DeclinedOnlyCancelled
    <2>1. status[o] # "NONE"
      BY DEF LifeInv, Known
    <2>2. status[o] \notin {"PAID", "DELIVERING", "DELIVERED"}
      BY DEF IInv, PaidWork, Work, Paid
    <2>3. status[o] # "REFUNDED" /\ ~Published("payment.refunded", o)
      BY DEF LifeInv, MoneyBack
    <2> QED
      BY <2>1, <2>2, <2>3 DEF IInv, Typed, OrderTypeOK, Statuses
  <1> QED
    BY <1>1, Inductive, LifeInductive, PTL

-----------------------------------------------------------------------------
(***************************************************************************)
(* The refinement.                                                         *)
(***************************************************************************)
\* What OrderLifecycle lets follow on a status.
LEMMA NextStatusesOf ==
    ASSUME NEW o
    PROVE  /\ status[o] = "NONE" => Life!NextStatuses(o) = {"PENDING"}
           /\ status[o] = "PENDING" => Life!NextStatuses(o) = {"PAID", "CANCELLED"}
           /\ status[o] \in Life!Later => Life!NextStatuses(o) = Life!Later \ {status[o]}
  <1>1. CASE status[o] = "NONE"
    <2>1. status[o] # "PENDING" /\ status[o] \notin Life!Later
      BY <1>1 DEF Life!Later
    <2> QED
      BY <1>1, <2>1 DEF Life!NextStatuses
  <1>2. CASE status[o] = "PENDING"
    <2>1. status[o] # "NONE" /\ status[o] \notin Life!Later
      BY <1>2 DEF Life!Later
    <2> QED
      BY <1>2, <2>1 DEF Life!NextStatuses
  <1>3. CASE status[o] \in Life!Later
    <2>1. status[o] # "NONE" /\ status[o] # "PENDING"
      BY <1>3 DEF Life!Later
    <2> QED
      BY <1>3, <2>1 DEF Life!NextStatuses
  <1> QED
    BY <1>1, <1>2, <1>3

\* A step that writes a status is a Move of the order it belongs to.
LEMMA StatusIsMove ==
    ASSUME IInv, LifeInv, [Next]_vars, NEW o \in Orders, status'[o] # status[o]
    PROVE  Life!Move(o)
  <1>1. /\ OrderTypeOK /\ OrderTypeOK' /\ StatusMoves /\ OneRow(status)
        /\ UNCHANGED payments
        /\ Known /\ Moved /\ MoneyBack /\ PaidWork
    BY NextMoves, NextKeeps DEF IInv, Typed, LifeInv
  <1>2. status' = [status EXCEPT ![o] = status'[o]]
    BY <1>1 DEF OrderTypeOK, OneRow
  <1>3. status'[o] \in Life!NextStatuses(o)
    <2>1. CASE status[o] = "NONE"
      BY <1>1, <2>1, NextStatusesOf DEF StatusMoves, Known, Topics
    <2>2. CASE status[o] = "PENDING"
      <3>1. \A t \in Beyond : ~Published(t, o)
        BY <1>1, <2>2 DEF Moved, Life!Later
      <3> QED
        BY <1>1, <2>2, <3>1, NextStatusesOf DEF StatusMoves, Beyond
    <2>3. CASE status[o] \in Life!Later
      BY <1>1, <2>3, StatusOnward, NextStatusesOf
    <2> QED
      BY <1>1, <2>1, <2>2, <2>3 DEF OrderTypeOK, Statuses, Life!Later
  <1>4. status'[o] \in {"PAID", "DELIVERING", "DELIVERED"} => Life!Charged(o)
    BY <1>1 DEF StatusMoves, PaidWork, Work, WorkTopics, Paid, Life!Charged
  <1>5. status'[o] = "REFUNDED" => payments[o] = "REFUNDED"
    BY <1>1 DEF StatusMoves, MoneyBack
  <1> QED
    BY <1>1, <1>2, <1>3, <1>4, <1>5 DEF Life!Move

\* A step that writes a payment is a Pay of the order it is for.
LEMMA PaymentIsPay ==
    ASSUME IInv, LifeInv, [Next]_vars, NEW o \in Orders, payments'[o] # payments[o]
    PROVE  Life!Pay(o)
  <1>1. /\ PaymentTypeOK /\ PaymentTypeOK' /\ PaymentMoves /\ OneRow(payments)
        /\ UNCHANGED status /\ Known
    BY NextMoves, NextKeeps DEF IInv, Typed, LifeInv
  <1>2. payments' = [payments EXCEPT ![o] = payments'[o]]
    BY <1>1 DEF PaymentTypeOK, OneRow
  <1>3. status[o] # "NONE"
    BY <1>1 DEF PaymentMoves, Known, Topics
  <1> QED
    BY <1>1, <1>2, <1>3 DEF PaymentMoves, Life!Pay

\* The saga implements the life of an order and of its payment.
THEOREM SagaFollowsLifecycle == Spec => FollowsLifecycle
  <1>1. Init => Life!LifeInit
    BY DEF Init, OrderInit, PaymentInit, Life!LifeInit
  <1>2. ASSUME IInv, LifeInv, [Next]_vars
        PROVE  [Life!LifeNext]_(Life!lifeVars)
    <2>1. CASE \E o \in Orders : status'[o] # status[o] \/ payments'[o] # payments[o]
      BY <1>2, <2>1, StatusIsMove, PaymentIsPay DEF Life!LifeNext
    <2>2. CASE \A o \in Orders : status'[o] = status[o] /\ payments'[o] = payments[o]
      <3>1. OrderTypeOK /\ OrderTypeOK' /\ PaymentTypeOK /\ PaymentTypeOK'
        BY <1>2, NextKeeps DEF IInv, Typed
      <3>2. status' = status /\ payments' = payments
        BY <2>2, <3>1 DEF OrderTypeOK, PaymentTypeOK
      <3> QED
        BY <3>2 DEF Life!lifeVars
    <2> QED
      BY <2>1, <2>2
  <1> QED
    BY <1>1, <1>2, Inductive, LifeInductive, PTL
       DEF Spec, FollowsLifecycle, Life!LifeSpec
-----------------------------------------------------------------------------
(***************************************************************************)
(* An order sets a bounded number of steps in motion.                      *)
(***************************************************************************)
\* A message costs its handler two steps at least, and no consumer of the saga
\* reads the topics that cost nothing.
LEMMA StepsType ==
    /\ \A t : MessageSteps(t) \in Nat
    /\ \A c \in Consumers : MessageSteps(TopicOf(c)) >= 2
    /\ \A c \in Consumers : \A step : HandlerSteps(c, step) \in Nat /\ HandlerSteps(c, step) > 0
    /\ \A t \in Topics : (\A c \in Consumers : TopicOf(c) # t) => MessageSteps(t) = 0
  <1>1. \A t : MessageSteps(t) \in Nat
    BY DEF MessageSteps
  <1>2. ASSUME NEW c \in Consumers PROVE MessageSteps(TopicOf(c)) >= 2
    <2>1. TopicOf(c) \in {"order.created", "payment.processed", "order.paid", "order.ready",
             "payment.failed", "order.preparation.failed", "delivery.failed",
             "payment.refund.requested", "payment.refunded", "order.delivered",
             "courier.assigned"}
      BY DEF TopicOf, Consumers, OrderGroups, PaymentGroups, RestaurantGroups, DeliveryGroups
    <2> QED
      BY <2>1 DEF MessageSteps
  <1>3. ASSUME NEW c \in Consumers, NEW step
        PROVE  HandlerSteps(c, step) \in Nat /\ HandlerSteps(c, step) > 0
    BY <1>1, <1>2 DEF HandlerSteps
  <1>4. \A c \in Consumers : TopicOf(c) \in Topics
    BY TopicOfType
  <1>5. ASSUME NEW t \in Topics, \A c \in Consumers : TopicOf(c) # t
        PROVE  MessageSteps(t) = 0
    BY <1>5 DEF MessageSteps, Topics, TopicOf, Consumers, OrderGroups, PaymentGroups,
                RestaurantGroups, DeliveryGroups
  <1> QED
    BY <1>1, <1>2, <1>3, <1>5

\* Each topic that costs something has one consumer group.
LEMMA OneConsumer ==
    \A c, d \in Consumers : TopicOf(c) = TopicOf(d) => c = d
  BY DEF TopicOf, Consumers, OrderGroups, PaymentGroups, RestaurantGroups, DeliveryGroups

-----------------------------------------------------------------------------
\* The sum over the consumers.
TotalOf(f) ==
    f["payment-svc"] + f["payment-svc-refund"] + f["restaurant-svc"] + f["delivery-svc"]
      + f["order-svc-payment"] + f["order-svc-payment-failed"]
      + f["order-svc-prep-failed"] + f["order-svc-delivery-failed"]
      + f["order-svc-refunded"] + f["order-svc-courier"] + f["order-svc-delivered"]

LEMMA TotalChanges ==
    ASSUME NEW f \in [Consumers -> Int], NEW g \in [Consumers -> Int], NEW c \in Consumers,
           \A d \in Consumers \ {c} : g[d] = f[d]
    PROVE  TotalOf(g) = TotalOf(f) + (g[c] - f[c])
  <1> DEFINE more == g[c] - f[c]
  <1>1. \A d \in Consumers : f[d] \in Int /\ g[d] = f[d] + (IF d = c THEN more ELSE 0)
    OBVIOUS
  <1>2. more \in Int
    OBVIOUS
  <1> HIDE DEF more
  <1>3. TotalOf(g) = TotalOf(f) + more
    BY <1>1, <1>2 DEF TotalOf, Consumers, OrderGroups, PaymentGroups, RestaurantGroups,
                      DeliveryGroups
  <1> QED
    BY <1>3 DEF more

LEMMA TotalType ==
    ASSUME NEW f \in [Consumers -> Nat] PROVE TotalOf(f) \in Nat
  BY DEF TotalOf, Consumers, OrderGroups, PaymentGroups, RestaurantGroups, DeliveryGroups

-----------------------------------------------------------------------------
LEMMA WaitingIsFinite ==
    ASSUME BusOK, NEW c \in Consumers, NEW o
    PROVE  IsFiniteSet(Waiting(c, o)) /\ Cardinality(Waiting(c, o)) \in Nat
  <1>1. pos[c] + 1 \in Int /\ Len(log[TopicOf(c)]) \in Int
    BY TopicOfType DEF BusOK, BusTypeOK
  <1>2. IsFiniteSet((pos[c] + 1)..Len(log[TopicOf(c)]))
    BY <1>1, FS_Interval
  <1>3. Waiting(c, o) \subseteq (pos[c] + 1)..Len(log[TopicOf(c)])
    BY DEF Waiting
  <1> QED
    BY <1>2, <1>3, FS_Subset, FS_CardinalityType

LEMMA ConsumerWorkType ==
    ASSUME BusOK, NEW c \in Consumers, NEW o
    PROVE  ConsumerWork(c, o) \in Nat
  <1>1. /\ Cardinality(Waiting(c, o)) \in Nat /\ MessageSteps(TopicOf(c)) \in Nat
        /\ HandlerSteps(c, pc[c]) \in Nat
    BY WaitingIsFinite, StepsType
  <1>2. \A i, j \in Nat : i * j \in Nat
    OBVIOUS
  <1> QED
    BY <1>1, <1>2 DEF ConsumerWork

\* A consumer that stays put while its topic does not grow.
LEMMA ConsumerRests ==
    ASSUME NEW c \in Consumers, NEW o, StaysPut(c), log'[TopicOf(c)] = log[TopicOf(c)]
    PROVE  ConsumerWork(c, o)' = ConsumerWork(c, o)
  <1>1. Waiting(c, o)' = Waiting(c, o)
    BY DEF Waiting, StaysPut
  <1>2. OrderOf(c)' = OrderOf(c)
    BY DEF OrderOf, Current, StaysPut
  <1> QED
    BY <1>1, <1>2 DEF ConsumerWork, StaysPut

\* One that stays put while a message is written to its topic.
LEMMA ConsumerIsSent ==
    ASSUME BusOK, NEW c \in Consumers, NEW o \in Orders, StaysPut(c),
           NEW m \in Payload(TopicOf(c)), Write(TopicOf(c), m)
    PROVE  ConsumerWork(c, o)' =
              ConsumerWork(c, o) + (IF m.order = o THEN MessageSteps(TopicOf(c)) ELSE 0)
  <1> DEFINE t == TopicOf(c)
             n == Len(log[t])
  <1>1. /\ t \in Topics /\ m \in Message /\ log \in [Topics -> Seq(Message)]
        /\ n \in Nat /\ pos[c] \in Nat /\ pos[c] <= n
        /\ pc[c] # "idle" => pos[c] < n
    BY TopicOfType, PayloadType DEF BusOK, BusTypeOK, OffsetsOK
  <1>2. /\ Len(log'[t]) = n + 1 /\ log'[t][n + 1] = m
        /\ \A i \in 1..n : log'[t][i] = log[t][i]
    BY <1>1 DEF Write
  <1>3. pc'[c] = pc[c] /\ pos'[c] = pos[c]
    BY DEF StaysPut
  <1> HIDE DEF t, n
  <1>4. Waiting(c, o)' = Waiting(c, o) \cup (IF m.order = o THEN {n + 1} ELSE {})
    BY <1>1, <1>2, <1>3 DEF Waiting, t, n
  <1>5. n + 1 \notin Waiting(c, o)
    BY <1>1 DEF Waiting, t, n
  <1>6. Cardinality(Waiting(c, o)') = Cardinality(Waiting(c, o)) + (IF m.order = o THEN 1 ELSE 0)
    <2>1. IsFiniteSet(Waiting(c, o)) /\ Cardinality(Waiting(c, o)) \in Nat
      BY WaitingIsFinite
    <2>2. Cardinality(Waiting(c, o) \cup {n + 1}) = Cardinality(Waiting(c, o)) + 1
      BY <1>5, <2>1, FS_AddElement
    <2>3. CASE m.order = o
      <3>1. Waiting(c, o)' = Waiting(c, o) \cup {n + 1}
        BY <1>4, <2>3
      <3> QED
        BY <2>2, <2>3, <3>1
    <2>4. CASE m.order # o
      <3>1. Waiting(c, o)' = Waiting(c, o)
        BY <1>4, <2>4
      <3> QED
        BY <2>1, <2>4, <3>1
    <2> QED
      BY <2>3, <2>4
  <1>7. pc[c] # "idle" => OrderOf(c)' = OrderOf(c)
    BY <1>1, <1>2, <1>3 DEF OrderOf, Current, t, n
  <1>8. \A i, j \in Nat : (i + 1) * j = i * j + j
    OBVIOUS
  <1> DEFINE w == Cardinality(Waiting(c, o))
             k == MessageSteps(TopicOf(c))
  <1>9. /\ w \in Nat /\ k \in Nat /\ w * k \in Nat /\ (w + 1) * k = w * k + k
        /\ HandlerSteps(c, pc[c]) \in Nat
    BY <1>8, WaitingIsFinite, StepsType
  <1>10. /\ ConsumerWork(c, o) = w * k + (IF pc[c] # "idle" /\ OrderOf(c) = o
                                         THEN HandlerSteps(c, pc[c]) ELSE 0)
         /\ ConsumerWork(c, o)' = (IF m.order = o THEN w + 1 ELSE w) * k
               + (IF pc[c] # "idle" /\ OrderOf(c) = o THEN HandlerSteps(c, pc[c]) ELSE 0)
    BY <1>3, <1>6, <1>7, <1>9 DEF ConsumerWork
  <1> HIDE DEF w, k
  <1> QED
    BY <1>9, <1>10 DEF k

-----------------------------------------------------------------------------
\* What a consumer with a message at hand still owes, and what it will owe when
\* it has gone on to a step: nothing when it has returned.
Owed(c) == IF pc[c] = "idle" THEN MessageSteps(TopicOf(c)) ELSE HandlerSteps(c, pc[c])

Owing(c, step) == IF step = "idle" THEN 0 ELSE HandlerSteps(c, step)

LEMMA OwedType ==
    \A c \in Consumers : \A step : Owed(c) \in Nat /\ Owing(c, step) \in Nat
  BY StepsType DEF Owed, Owing

\* A consumer that takes its next message, or that goes on with the one it has.
LEMMA ConsumerGoesOn ==
    ASSUME BusOK, NEW c \in Consumers, NEW o, pos[c] < Len(log[TopicOf(c)]),
           NEW step \in Steps, Continue(c, step), log'[TopicOf(c)] = log[TopicOf(c)]
    PROVE  ConsumerWork(c, o)' =
              ConsumerWork(c, o) + (IF OrderOf(c) = o THEN Owing(c, step) - Owed(c) ELSE 0)
  <1> DEFINE t == TopicOf(c)
             n == Len(log[t])
             k == MessageSteps(t)
             w == Cardinality(Waiting(c, o))
  <1>1. /\ t \in Topics /\ n \in Nat /\ pos[c] \in Nat /\ pos[c] < n
        /\ pc \in [Consumers -> Steps] /\ pos \in [Consumers -> Nat]
    BY TopicOfType DEF BusOK, BusTypeOK
  <1>2. /\ pc'[c] = step
        /\ pos'[c] = IF step = "idle" THEN pos[c] + 1 ELSE pos[c]
    BY <1>1 DEF Continue, Finish, Goto
  <1>3. OrderOf(c) = log[t][pos[c] + 1].order
    BY DEF OrderOf, Current
  <1>4. step # "idle" => OrderOf(c)' = OrderOf(c)
    BY <1>2 DEF OrderOf, Current
  <1>5. /\ w \in Nat /\ k \in Nat /\ k >= 2 /\ IsFiniteSet(Waiting(c, o))
        /\ \A s : HandlerSteps(c, s) \in Nat
    BY WaitingIsFinite, StepsType
  <1>6. ConsumerWork(c, o) =
           w * k + (IF pc[c] # "idle" /\ OrderOf(c) = o THEN HandlerSteps(c, pc[c]) ELSE 0)
    BY DEF ConsumerWork
  <1>7. ConsumerWork(c, o)' =
           Cardinality(Waiting(c, o)') * k + (IF OrderOf(c) = o THEN Owing(c, step) ELSE 0)
    BY <1>2, <1>4, <1>5 DEF ConsumerWork, Owing
  <1>8. CASE pc[c] = "idle" /\ OrderOf(c) = o
    <2>1. Waiting(c, o)' = Waiting(c, o) \ {pos[c] + 1}
      BY <1>1, <1>2, <1>8 DEF Waiting
    <2>2. pos[c] + 1 \in Waiting(c, o)
      <3>1. pos[c] + 1 \in (pos[c] + 1)..Len(log[TopicOf(c)])
        BY <1>1
      <3>2. log[TopicOf(c)][pos[c] + 1].order = o
        BY <1>3, <1>8
      <3> QED
        BY <1>8, <3>1, <3>2 DEF Waiting
    <2>3. Cardinality(Waiting(c, o) \ {pos[c] + 1}) = w - 1
      BY <1>5, <2>2, FS_RemoveElement
    <2>4. Cardinality(Waiting(c, o)') = w - 1
      BY <2>1, <2>3
    <2>5. (w - 1) * k = w * k - k
      <3>1. \A i, j \in Int : (i - 1) * j = i * j - j
        OBVIOUS
      <3> HIDE DEF w, k
      <3> QED
        BY <1>5, <3>1
    <2>6. w * k \in Int /\ Owing(c, step) \in Int
      <3>1. \A i, j \in Int : i * j \in Int
        OBVIOUS
      <3> QED
        BY <1>5, <3>1, OwedType
    <2>7. Owed(c) = k
      BY <1>8 DEF Owed
    <2> HIDE DEF w, k
    <2> QED
      BY <1>5, <1>6, <1>7, <1>8, <2>4, <2>5, <2>6, <2>7
  <1>9. CASE ~(pc[c] = "idle" /\ OrderOf(c) = o)
    <2>1. Waiting(c, o)' = Waiting(c, o)
      BY <1>1, <1>2, <1>3, <1>9 DEF Waiting
    <2>2. Cardinality(Waiting(c, o)') = w
      BY <2>1
    <2>3. w * k \in Int /\ Owing(c, step) \in Int /\ HandlerSteps(c, pc[c]) \in Int
      <3>1. \A i, j \in Int : i * j \in Int
        OBVIOUS
      <3> QED
        BY <1>5, <3>1, OwedType
    <2>4. pc[c] # "idle" => Owed(c) = HandlerSteps(c, pc[c])
      BY DEF Owed
    <2> HIDE DEF w, k
    <2> QED
      BY <1>6, <1>7, <1>9, <2>2, <2>3, <2>4
  <1> QED
    BY <1>8, <1>9

-----------------------------------------------------------------------------
\* The work of every consumer about order o.
WorkOf(o) == [c \in Consumers |-> ConsumerWork(c, o)]

LEMMA EventWorkIs ==
    ASSUME NEW o
    PROVE  EventWork(o) = TotalOf(WorkOf(o)) /\ EventWork(o)' = TotalOf(WorkOf(o)')
  <1>1. {"payment-svc", "payment-svc-refund", "restaurant-svc", "delivery-svc",
         "order-svc-payment", "order-svc-payment-failed", "order-svc-prep-failed",
         "order-svc-delivery-failed", "order-svc-refunded", "order-svc-courier",
         "order-svc-delivered"} \subseteq Consumers
    BY DEF Consumers, OrderGroups, PaymentGroups, RestaurantGroups, DeliveryGroups
  <1> QED
    BY <1>1 DEF EventWork, TotalOf, WorkOf

LEMMA EventWorkType ==
    ASSUME BusOK, NEW o
    PROVE  EventWork(o) \in Nat
  <1>1. WorkOf(o) \in [Consumers -> Nat]
    BY ConsumerWorkType DEF WorkOf
  <1> QED
    BY <1>1, EventWorkIs, TotalType

\* A step in which the work of one consumer changes.
LEMMA OneChanges ==
    ASSUME BusOK, BusOK', NEW o, NEW c \in Consumers, NEW more \in Int,
           ConsumerWork(c, o)' = ConsumerWork(c, o) + more,
           \A d \in Consumers \ {c} : ConsumerWork(d, o)' = ConsumerWork(d, o)
    PROVE  EventWork(o)' = EventWork(o) + more
  <1>1. /\ WorkOf(o) \in [Consumers -> Int] /\ WorkOf(o)' \in [Consumers -> Int]
        /\ \A d \in Consumers \ {c} : WorkOf(o)'[d] = WorkOf(o)[d]
        /\ WorkOf(o)'[c] - WorkOf(o)[c] = more
    BY ConsumerWorkType DEF WorkOf
  <1>2. TotalOf(WorkOf(o)') = TotalOf(WorkOf(o)) + (WorkOf(o)'[c] - WorkOf(o)[c])
    BY <1>1, TotalChanges
  <1> QED
    BY <1>1, <1>2, EventWorkIs

\* A step in which the work of two consumers changes.
LEMMA TwoChange ==
    ASSUME BusOK, BusOK', NEW o, NEW c \in Consumers, NEW d \in Consumers, c # d,
           NEW x \in Int, NEW y \in Int,
           ConsumerWork(c, o)' = ConsumerWork(c, o) + x,
           ConsumerWork(d, o)' = ConsumerWork(d, o) + y,
           \A e \in Consumers \ {c, d} : ConsumerWork(e, o)' = ConsumerWork(e, o)
    PROVE  EventWork(o)' = EventWork(o) + x + y
  <1> DEFINE f == WorkOf(o)
             g == WorkOf(o)'
             h == [f EXCEPT ![c] = g[c]]
  <1>1. /\ f \in [Consumers -> Int] /\ g \in [Consumers -> Int]
        /\ g[c] - f[c] = x /\ g[d] - f[d] = y
        /\ \A e \in Consumers \ {c, d} : g[e] = f[e]
    BY ConsumerWorkType DEF WorkOf
  <1>2. EventWork(o) = TotalOf(f) /\ EventWork(o)' = TotalOf(g)
    BY EventWorkIs
  <1> HIDE DEF f, g
  <1>3. /\ h \in [Consumers -> Int]
        /\ \A e \in Consumers \ {c} : h[e] = f[e]
        /\ \A e \in Consumers \ {d} : g[e] = h[e]
        /\ h[c] - f[c] = x /\ g[d] - h[d] = y
    BY <1>1
  <1> HIDE DEF h
  <1>4. TotalOf(h) = TotalOf(f) + x
    BY <1>1, <1>3, TotalChanges
  <1>5. TotalOf(g) = TotalOf(h) + y
    BY <1>1, <1>3, TotalChanges
  <1>6. TotalOf(f) \in Int
    BY <1>2, EventWorkType
  <1> QED
    BY <1>2, <1>4, <1>5, <1>6

-----------------------------------------------------------------------------
\* A consumer that goes on with its message, and publishes nothing.
LEMMA CallWork ==
    ASSUME BusOK, BusOK', NEW c \in Consumers, pos[c] < Len(log[TopicOf(c)]),
           NEW step \in Steps, Continue(c, step), UNCHANGED log, NEW o
    PROVE  EventWork(o)' =
              EventWork(o) + (IF OrderOf(c) = o THEN Owing(c, step) - Owed(c) ELSE 0)
  <1> DEFINE more == IF OrderOf(c) = o THEN Owing(c, step) - Owed(c) ELSE 0
  <1>1. more \in Int
    BY OwedType
  <1>2. ConsumerWork(c, o)' = ConsumerWork(c, o) + more
    BY ConsumerGoesOn
  <1>3. \A d \in Consumers \ {c} : StaysPut(d)
    BY DEF Continue, Finish, Goto, StaysPut, BusOK, BusTypeOK
  <1>4. \A d \in Consumers \ {c} : ConsumerWork(d, o)' = ConsumerWork(d, o)
    BY <1>3, ConsumerRests
  <1> HIDE DEF more
  <1>5. EventWork(o)' = EventWork(o) + more
    BY <1>1, <1>2, <1>4, OneChanges
  <1> QED
    BY <1>5 DEF more

\* A message that is written to a topic is sent to its consumer, if it has one.
LEMMA WriteIsSent ==
    ASSUME BusOK, NEW t \in Topics, NEW m \in Payload(t), Write(t, m), NEW o \in Orders,
           NEW d \in Consumers, StaysPut(d)
    PROVE  ConsumerWork(d, o)' =
             ConsumerWork(d, o) + (IF TopicOf(d) = t /\ m.order = o THEN MessageSteps(t) ELSE 0)
  <1>1. CASE TopicOf(d) = t
    BY <1>1, ConsumerIsSent
  <1>2. CASE TopicOf(d) # t
    <2>1. log'[TopicOf(d)] = log[TopicOf(d)]
      BY <1>2, TopicOfType DEF Write, BusOK, BusTypeOK
    <2>2. ConsumerWork(d, o) \in Nat
      BY ConsumerWorkType
    <2> QED
      BY <1>2, <2>1, <2>2, ConsumerRests
  <1> QED
    BY <1>1, <1>2

\* A request or a goroutine that publishes.
LEMMA SayWork ==
    ASSUME BusOK, BusOK', UNCHANGED <<pc, pos>>, NEW o \in Orders,
           NEW t \in Topics, NEW m \in Payload(t), Write(t, m)
    PROVE  EventWork(o)' = EventWork(o) + (IF m.order = o THEN MessageSteps(t) ELSE 0)
  <1>1. \A d \in Consumers : StaysPut(d)
    BY DEF StaysPut
  <1>2. MessageSteps(t) \in Nat
    BY StepsType
  <1>3. \A d \in Consumers : ConsumerWork(d, o) \in Nat
    BY ConsumerWorkType
  <1>4. ASSUME NEW d \in Consumers, TopicOf(d) # t
        PROVE  ConsumerWork(d, o)' = ConsumerWork(d, o)
    BY <1>1, <1>3, <1>4, WriteIsSent
  <1>5. CASE \E c \in Consumers : TopicOf(c) = t
    <2>1. PICK c \in Consumers : TopicOf(c) = t
      BY <1>5
    <2> DEFINE more == IF m.order = o THEN MessageSteps(t) ELSE 0
    <2>2. ConsumerWork(c, o)' = ConsumerWork(c, o) + more /\ more \in Int
      BY <1>1, <1>2, <2>1, WriteIsSent
    <2>3. \A d \in Consumers \ {c} : ConsumerWork(d, o)' = ConsumerWork(d, o)
      BY <1>4, <2>1, OneConsumer
    <2> HIDE DEF more
    <2>4. EventWork(o)' = EventWork(o) + more
      BY <2>2, <2>3, OneChanges
    <2> QED
      BY <2>4 DEF more
  <1>6. CASE \A c \in Consumers : TopicOf(c) # t
    <2>1. MessageSteps(t) = 0
      BY <1>6, StepsType
    <2>2. PICK c \in Consumers : TRUE
      BY DEF Consumers, PaymentGroups
    <2>3. EventWork(o)' = EventWork(o) + 0
      BY <1>3, <1>4, <1>6, OneChanges
    <2> QED
      BY <2>1, <2>3
  <1> QED
    BY <1>5, <1>6

\* A consumer that goes on with its message and publishes to another topic.
LEMMA EmitWork ==
    ASSUME BusOK, BusOK', NEW c \in Consumers, pos[c] < Len(log[TopicOf(c)]),
           NEW step \in Steps, Continue(c, step), NEW o \in Orders,
           NEW t \in Topics \ {TopicOf(c)}, NEW m \in Payload(t), m.order = OrderOf(c), Write(t, m)
    PROVE  EventWork(o)' = EventWork(o)
             + (IF OrderOf(c) = o THEN Owing(c, step) + MessageSteps(t) - Owed(c) ELSE 0)
  <1> DEFINE x == IF OrderOf(c) = o THEN Owing(c, step) - Owed(c) ELSE 0
             y == IF OrderOf(c) = o THEN MessageSteps(t) ELSE 0
  <1>1. /\ Owing(c, step) \in Int /\ Owed(c) \in Int /\ MessageSteps(t) \in Int
        /\ x \in Int /\ y \in Int /\ EventWork(o) \in Int
    BY OwedType, StepsType, EventWorkType
  <1>2. log'[TopicOf(c)] = log[TopicOf(c)]
    BY TopicOfType DEF Write, BusOK, BusTypeOK
  <1>3. ConsumerWork(c, o)' = ConsumerWork(c, o) + x
    BY <1>2, ConsumerGoesOn
  <1>4. \A d \in Consumers \ {c} : StaysPut(d)
    BY DEF Continue, Finish, Goto, StaysPut, BusOK, BusTypeOK
  <1>5. \A d \in Consumers : ConsumerWork(d, o) \in Nat
    BY ConsumerWorkType
  <1>6. ASSUME NEW d \in Consumers \ {c}, TopicOf(d) # t
        PROVE  ConsumerWork(d, o)' = ConsumerWork(d, o)
    BY <1>4, <1>5, <1>6, WriteIsSent
  <1>7. CASE \E d \in Consumers : TopicOf(d) = t
    <2>1. PICK d \in Consumers : TopicOf(d) = t
      BY <1>7
    <2>2. c # d
      BY <2>1
    <2>3. ConsumerWork(d, o)' = ConsumerWork(d, o) + y
      BY <1>4, <2>1, <2>2, WriteIsSent
    <2>4. \A e \in Consumers \ {c, d} : ConsumerWork(e, o)' = ConsumerWork(e, o)
      BY <1>6, <2>1, OneConsumer
    <2> HIDE DEF x, y
    <2>5. EventWork(o)' = EventWork(o) + x + y
      BY <1>1, <1>3, <2>2, <2>3, <2>4, TwoChange
    <2> QED
      BY <1>1, <2>5 DEF x, y
  <1>8. CASE \A d \in Consumers : TopicOf(d) # t
    <2>1. MessageSteps(t) = 0
      BY <1>8, StepsType
    <2>2. \A d \in Consumers \ {c} : ConsumerWork(d, o)' = ConsumerWork(d, o)
      BY <1>6, <1>8
    <2> HIDE DEF x, y
    <2>3. EventWork(o)' = EventWork(o) + x
      BY <1>1, <1>3, <2>2, OneChanges
    <2> QED
      BY <1>1, <2>1, <2>3 DEF x
  <1> QED
    BY <1>7, <1>8

-----------------------------------------------------------------------------
\* No more couriers ride than have been sent.
RidersFinite == \A o \in Orders : IsFiniteSet(Riders(o))

LEMMA ServiceWorkType ==
    ASSUME IInv, RidersFinite, NEW o \in Orders
    PROVE  ServiceWork(o) \in Nat
  <1>1. cooking[o] \in Nat /\ arrived[o] \in Nat /\ Cardinality(Riders(o)) \in Nat
    BY FS_CardinalityType DEF IInv, Typed, RestaurantTypeOK, DeliveryTypeOK, RidersFinite
  <1> QED
    BY <1>1 DEF ServiceWork

\* A step in which nothing fails and nothing dies.
Calm == errors' = errors /\ crashes' = crashes

LEMMA NothingFails ==
    ASSUME BusOK, Calm
    PROVE  ~OneError /\ \A groups : ~Restart(groups)
  BY DEF BusOK, BusTypeOK, Calm, OneError, Restart

\* The step takes from what order o may still set in motion, and from it alone.
Takes(o) ==
    /\ WorkLeft(o)' < WorkLeft(o)
    /\ \A p \in Orders \ {o} : WorkLeft(p)' = WorkLeft(p)

\* A consumer with a message about order o goes on to a step, and publishes at
\* most one message, about the same order, that costs this much.
Moves(c, o, step, cost) ==
    /\ pos[c] < Len(log[TopicOf(c)]) /\ o = OrderOf(c)
    /\ step \in Steps /\ Continue(c, step) /\ cost \in Nat
    /\ \/ UNCHANGED log /\ cost = 0
       \/ \E t \in Topics \ {TopicOf(c)} : \E m \in Payload(t) :
             m.order = o /\ Write(t, m) /\ cost = MessageSteps(t)

\* A consumer takes from the order of its message, if its next step, what it
\* publishes and what its service has begun cost less than the step it was at.
LEMMA HandlerTakes ==
    ASSUME IInv, BusOK', RidersFinite, NEW c \in Consumers, NEW o, NEW step, NEW cost,
           Moves(c, o, step, cost),
           NEW begun \in Int, ServiceWork(o)' <= ServiceWork(o) + begun, ServiceWork(o)' \in Int,
           \A p \in Orders \ {o} : ServiceWork(p)' = ServiceWork(p),
           Owing(c, step) + cost + begun < Owed(c)
    PROVE  Takes(o)
  <1>1. BusOK /\ o \in Orders
    BY CurrentMessage DEF IInv, Typed, Moves
  <1>2. /\ Owing(c, step) \in Int /\ Owed(c) \in Int
        /\ \A p \in Orders : EventWork(p) \in Int /\ ServiceWork(p) \in Int
    BY <1>1, OwedType, EventWorkType, ServiceWorkType
  <1>3. \A p \in Orders : EventWork(p)' =
            EventWork(p) + (IF o = p THEN Owing(c, step) + cost - Owed(c) ELSE 0)
    <2>1. CASE UNCHANGED log /\ cost = 0
      BY <1>1, <1>2, <2>1, CallWork DEF Moves
    <2>2. ASSUME NEW t \in Topics \ {TopicOf(c)}, NEW m \in Payload(t),
                 m.order = o, Write(t, m), cost = MessageSteps(t)
          PROVE  \A p \in Orders : EventWork(p)' =
                    EventWork(p) + (IF o = p THEN Owing(c, step) + cost - Owed(c) ELSE 0)
      BY <1>1, <2>2, EmitWork DEF Moves
    <2> QED
      BY <2>1, <2>2 DEF Moves
  <1>4. WorkLeft(o)' < WorkLeft(o)
    <2>1. EventWork(o)' = EventWork(o) + (Owing(c, step) + cost - Owed(c))
      BY <1>1, <1>3
    <2> QED
      BY <1>1, <1>2, <2>1 DEF WorkLeft, Moves
  <1>5. ASSUME NEW p \in Orders \ {o} PROVE WorkLeft(p)' = WorkLeft(p)
    <2>1. EventWork(p)' = EventWork(p)
      BY <1>2, <1>3
    <2> QED
      BY <2>1 DEF WorkLeft
  <1> QED
    BY <1>4, <1>5 DEF Takes

\* The same for a request or a goroutine about order o.
LEMMA RequestTakes ==
    ASSUME IInv, BusOK', RidersFinite, UNCHANGED <<pc, pos>>, NEW o \in Orders, NEW cost \in Nat,
           \/ UNCHANGED log /\ cost = 0
           \/ \E t \in Topics : \E m \in Payload(t) :
                 m.order = o /\ Write(t, m) /\ cost = MessageSteps(t),
           ServiceWork(o)' + cost < ServiceWork(o), ServiceWork(o)' \in Int,
           \A p \in Orders \ {o} : ServiceWork(p)' = ServiceWork(p)
    PROVE  Takes(o)
  <1>1. BusOK /\ \A p \in Orders : EventWork(p) \in Int /\ ServiceWork(p) \in Int
    BY EventWorkType, ServiceWorkType DEF IInv, Typed
  <1>2. \A p \in Orders : EventWork(p)' = EventWork(p) + (IF o = p THEN cost ELSE 0)
    <2>1. CASE UNCHANGED log /\ cost = 0
      <3>1. PICK c \in Consumers : TRUE
        BY DEF Consumers, PaymentGroups
      <3>2. \A d \in Consumers, p \in Orders :
               ConsumerWork(d, p)' = ConsumerWork(d, p) /\ ConsumerWork(d, p) \in Int
        BY <1>1, <2>1, ConsumerRests, ConsumerWorkType DEF StaysPut
      <3>3. \A p \in Orders : EventWork(p)' = EventWork(p) + 0
        BY <1>1, <3>1, <3>2, OneChanges
      <3> QED
        BY <1>1, <2>1, <3>3
    <2>2. ASSUME NEW t \in Topics, NEW m \in Payload(t),
                 m.order = o, Write(t, m), cost = MessageSteps(t)
          PROVE  \A p \in Orders : EventWork(p)' = EventWork(p) + (IF o = p THEN cost ELSE 0)
      <3> TAKE p \in Orders
      <3>1. EventWork(p)' = EventWork(p) + (IF m.order = p THEN MessageSteps(t) ELSE 0)
        BY <1>1, <2>2, SayWork
      <3> QED
        BY <2>2, <3>1
    <2> QED
      BY <2>1, <2>2
  <1>3. WorkLeft(o)' < WorkLeft(o)
    <2>1. EventWork(o)' = EventWork(o) + cost
      BY <1>2
    <2> QED
      BY <1>1, <2>1 DEF WorkLeft
  <1>4. ASSUME NEW p \in Orders \ {o} PROVE WorkLeft(p)' = WorkLeft(p)
    <2>1. EventWork(p)' = EventWork(p)
      BY <1>1, <1>2
    <2> QED
      BY <2>1 DEF WorkLeft
  <1> QED
    BY <1>3, <1>4 DEF Takes

-----------------------------------------------------------------------------
\* Calls that do not fail.
LEMMA CalmCalls ==
    ASSUME BusOK, Calm, NEW c \in Consumers, NEW step
    PROVE  /\ Returns(c, step) => Continue(c, step)
           /\ \A ignored : Receive(c, ignored, step) =>
                 /\ pc[c] = "idle" /\ pos[c] < Len(log[TopicOf(c)]) /\ UNCHANGED log
                 /\ Finish(c) \/ Goto(c, step)
           /\ \A t, m, onError : Emit(c, t, m, step, onError) =>
                 Write(t, m) /\ Continue(c, step)
  BY NothingFails DEF Returns, Receive, Emit, Fails, HasMessage

\* A consumer of order-svc that goes on, and writes at most its order's status.
Frugal(c) ==
    \E step, cost : Moves(c, OrderOf(c), step, cost) /\ Owing(c, step) + cost < Owed(c)

\* Fetching a message and going on to a step that costs less.
LEMMA ReceiveIsFrugal ==
    ASSUME BusOK, Calm, NEW c \in Consumers, NEW ignored, NEW step \in Steps \ {"idle"},
           Receive(c, ignored, step), HandlerSteps(c, step) < MessageSteps(TopicOf(c))
    PROVE  Frugal(c)
  <1>1. /\ pc[c] = "idle" /\ pos[c] < Len(log[TopicOf(c)]) /\ UNCHANGED log
        /\ Finish(c) \/ Goto(c, step)
    BY CalmCalls
  <1>2. /\ Owed(c) = MessageSteps(TopicOf(c)) /\ Owed(c) > 0
        /\ Owing(c, "idle") = 0 /\ Owing(c, step) = HandlerSteps(c, step)
        /\ "idle" \in Steps /\ HandlerSteps(c, step) \in Nat
    BY <1>1, StepsType DEF Owed, Owing, Steps
  <1>3. CASE Finish(c)
    <2>1. Moves(c, OrderOf(c), "idle", 0)
      BY <1>1, <1>2, <1>3 DEF Moves, Continue
    <2> QED
      BY <1>2, <2>1 DEF Frugal
  <1>4. CASE Goto(c, step)
    <2>1. Moves(c, OrderOf(c), step, 0)
      BY <1>1, <1>4 DEF Moves, Continue
    <2> QED
      BY <1>2, <2>1 DEF Frugal
  <1> QED
    BY <1>1, <1>3, <1>4

\* Going on after a call.
LEMMA CallIsFrugal ==
    ASSUME BusOK, NEW c \in Consumers, pc[c] # "idle", NEW step \in Steps,
           Continue(c, step), UNCHANGED log, Owing(c, step) < HandlerSteps(c, pc[c])
    PROVE  Frugal(c)
  <1>1. pos[c] < Len(log[TopicOf(c)])
    BY DEF BusOK, OffsetsOK
  <1>2. Moves(c, OrderOf(c), step, 0)
    BY <1>1 DEF Moves
  <1>3. Owing(c, step) + 0 < Owed(c)
    BY OwedType DEF Owed
  <1> QED
    BY <1>2, <1>3 DEF Frugal

\* Publishing, to another topic.
LEMMA EmitIsFrugal ==
    ASSUME BusOK, Calm, NEW c \in Consumers, pc[c] # "idle", NEW step \in Steps,
           NEW t \in Topics \ {TopicOf(c)}, NEW m \in Payload(t), m.order = OrderOf(c),
           NEW onError, Emit(c, t, m, step, onError),
           Owing(c, step) + MessageSteps(t) < HandlerSteps(c, pc[c])
    PROVE  Frugal(c)
  <1>1. pos[c] < Len(log[TopicOf(c)])
    BY DEF BusOK, OffsetsOK
  <1>2. Write(t, m) /\ Continue(c, step)
    BY CalmCalls
  <1>3. Moves(c, OrderOf(c), step, MessageSteps(t))
    BY <1>1, <1>2, StepsType DEF Moves
  <1>4. Owing(c, step) + MessageSteps(t) < Owed(c)
    BY DEF Owed
  <1> QED
    BY <1>3, <1>4 DEF Frugal
-----------------------------------------------------------------------------
\* UPDATE orders, and the announcement of the status.
LEMMA UpdateIsFrugal ==
    ASSUME BusOK, Calm, NEW c \in Consumers, pc[c] # "idle", NEW o, NEW s, NEW step \in Steps,
           UpdateStatus(c, o, s, step), Owing(c, step) < HandlerSteps(c, pc[c])
    PROVE  Frugal(c)
  <1>1. UNCHANGED log /\ Continue(c, step)
    BY NothingFails, CalmCalls DEF UpdateStatus, Fails
  <1> QED
    BY <1>1, CallIsFrugal

LEMMA AnnounceIsFrugal ==
    ASSUME BusOK, Calm, NEW c \in Consumers, pc[c] # "idle", NEW s \in Statuses, NEW step \in Steps,
           PublishStatus(c, OrderOf(c), s, step), Owing(c, step) < HandlerSteps(c, pc[c])
    PROVE  Frugal(c)
  <1> DEFINE t == "order.status.changed"
             m == [order |-> OrderOf(c), status |-> s]
  <1>1. /\ t \in Topics \ {TopicOf(c)} /\ MessageSteps(t) = 0
    BY DEF Topics, MessageSteps, TopicOf, Consumers, OrderGroups, PaymentGroups,
           RestaurantGroups, DeliveryGroups
  <1>2. OrderOf(c) \in Orders
    BY CurrentMessage DEF BusOK, OffsetsOK
  <1>3. m \in Payload(t) /\ m.order = OrderOf(c)
    BY <1>2, PayloadType
  <1>4. Owing(c, step) + MessageSteps(t) < HandlerSteps(c, pc[c])
    BY <1>1, OwedType
  <1> HIDE DEF m
  <1>5. Emit(c, t, m, step, "idle")
    BY DEF PublishStatus, m
  <1> QED
    BY <1>1, <1>3, <1>4, <1>5, EmitIsFrugal

LEMMA ProcessedIsFrugal ==
    ASSUME BusOK, Calm, HandlePaymentProcessed
    PROVE  Frugal("order-svc-payment")
  <1> DEFINE c == "order-svc-payment"
             o == OrderOf(c)
  <1>1. /\ c \in Consumers /\ {"idle", "update", "publish", "announce"} \subseteq Steps
        /\ "PAID" \in Statuses /\ TopicOf(c) = "payment.processed"
        /\ "order.paid" \in Topics \ {"courier.assigned", "order.cancelled", "order.status.changed"}
    BY DEF Consumers, OrderGroups, Steps, Statuses, TopicOf, Topics
  <1>2. /\ MessageSteps(TopicOf(c)) = 20 /\ MessageSteps("order.paid") = 16
        /\ HandlerSteps(c, "update") = 19 /\ HandlerSteps(c, "publish") = 18
        /\ HandlerSteps(c, "announce") = 1
    BY <1>1 DEF MessageSteps, HandlerSteps
  <1>3. /\ Owing(c, "publish") = 18 /\ Owing(c, "announce") = 1 /\ Owing(c, "idle") = 0
    BY <1>2 DEF Owing
  <1>4. ASSUME Receive(c, AlreadyPaid(o), "update") PROVE Frugal(c)
    BY <1>1, <1>2, <1>4, ReceiveIsFrugal
  <1>5. ASSUME pc[c] = "update", UpdateStatus(c, o, "PAID", "publish") PROVE Frugal(c)
    BY <1>1, <1>2, <1>3, <1>5, UpdateIsFrugal
  <1>6. ASSUME pc[c] = "publish", Emit(c, "order.paid", [order |-> o], "announce", "idle")
        PROVE  Frugal(c)
    <2>1. o \in Orders
      BY <1>1, <1>6, CurrentMessage DEF BusOK, OffsetsOK
    <2> DEFINE m == [order |-> o]
    <2>2. m \in Payload("order.paid") /\ m.order = OrderOf(c)
      BY <1>1, <2>1, PayloadType
    <2> HIDE DEF m
    <2>3. Emit(c, "order.paid", m, "announce", "idle")
      BY <1>6 DEF m
    <2> QED
      BY <1>1, <1>2, <1>3, <1>6, <2>2, <2>3, EmitIsFrugal
  <1>7. ASSUME pc[c] = "announce", PublishStatus(c, o, "PAID", "idle") PROVE Frugal(c)
    BY <1>1, <1>2, <1>3, <1>7, AnnounceIsFrugal
  <1> QED
    BY <1>4, <1>5, <1>6, <1>7 DEF HandlePaymentProcessed

\* The two handlers that write a status and announce it.
LEMMA RefundedIsFrugal ==
    ASSUME BusOK, Calm, HandlePaymentRefunded
    PROVE  Frugal("order-svc-refunded")
  <1> DEFINE c == "order-svc-refunded"
             o == OrderOf(c)
  <1>1. /\ c \in Consumers /\ {"idle", "update", "announce"} \subseteq Steps
        /\ "REFUNDED" \in Statuses /\ TopicOf(c) = "payment.refunded"
    BY DEF Consumers, OrderGroups, Steps, Statuses, TopicOf
  <1>2. /\ MessageSteps(TopicOf(c)) = 3 /\ HandlerSteps(c, "update") = 2
        /\ HandlerSteps(c, "announce") = 1
        /\ Owing(c, "announce") = 1 /\ Owing(c, "idle") = 0
    BY <1>1 DEF MessageSteps, HandlerSteps, Owing
  <1>3. ASSUME Receive(c, AlreadyRefunded(o), "update") PROVE Frugal(c)
    BY <1>1, <1>2, <1>3, ReceiveIsFrugal
  <1>4. ASSUME pc[c] = "update", UpdateStatus(c, o, "REFUNDED", "announce") PROVE Frugal(c)
    BY <1>1, <1>2, <1>4, UpdateIsFrugal
  <1>5. ASSUME pc[c] = "announce", PublishStatus(c, o, "REFUNDED", "idle") PROVE Frugal(c)
    BY <1>1, <1>2, <1>5, AnnounceIsFrugal
  <1> QED
    BY <1>3, <1>4, <1>5 DEF HandlePaymentRefunded

LEMMA DeliveredIsFrugal ==
    ASSUME BusOK, Calm, HandleOrderDelivered
    PROVE  Frugal("order-svc-delivered")
  <1> DEFINE c == "order-svc-delivered"
             o == OrderOf(c)
  <1>1. /\ c \in Consumers /\ {"idle", "update", "announce"} \subseteq Steps
        /\ "DELIVERED" \in Statuses /\ TopicOf(c) = "order.delivered"
    BY DEF Consumers, OrderGroups, Steps, Statuses, TopicOf
  <1>2. /\ MessageSteps(TopicOf(c)) = 3 /\ HandlerSteps(c, "update") = 2
        /\ HandlerSteps(c, "announce") = 1
        /\ Owing(c, "announce") = 1 /\ Owing(c, "idle") = 0
    BY <1>1 DEF MessageSteps, HandlerSteps, Owing
  <1>3. ASSUME Receive(c, AlreadyDelivered(o), "update") PROVE Frugal(c)
    BY <1>1, <1>2, <1>3, ReceiveIsFrugal
  <1>4. ASSUME pc[c] = "update", UpdateStatus(c, o, "DELIVERED", "announce") PROVE Frugal(c)
    BY <1>1, <1>2, <1>4, UpdateIsFrugal
  <1>5. ASSUME pc[c] = "announce", PublishStatus(c, o, "DELIVERED", "idle") PROVE Frugal(c)
    BY <1>1, <1>2, <1>5, AnnounceIsFrugal
  <1> QED
    BY <1>3, <1>4, <1>5 DEF HandleOrderDelivered

LEMMA AssignedIsFrugal ==
    ASSUME BusOK, Calm, HandleCourierAssigned
    PROVE  Frugal("order-svc-courier")
  <1> DEFINE c == "order-svc-courier"
             o == OrderOf(c)
  <1>1. c \in Consumers /\ {"idle", "update"} \subseteq Steps /\ TopicOf(c) = "courier.assigned"
    BY DEF Consumers, OrderGroups, Steps, TopicOf
  <1>2. /\ MessageSteps(TopicOf(c)) = 2 /\ HandlerSteps(c, "update") = 1 /\ Owing(c, "idle") = 0
    BY <1>1 DEF MessageSteps, HandlerSteps, Owing
  <1>3. ASSUME Receive(c, AlreadyAssigned(o), "update") PROVE Frugal(c)
    BY <1>1, <1>2, <1>3, ReceiveIsFrugal
  <1>4. ASSUME pc[c] = "update", AssignCourier(c, o, Current(c).courier) PROVE Frugal(c)
    <2>1. UNCHANGED log /\ Continue(c, "idle")
      BY <1>1, <1>4, NothingFails, CalmCalls DEF AssignCourier, Fails
    <2> QED
      BY <1>1, <1>2, <1>4, <2>1, CallIsFrugal
  <1> QED
    BY <1>3, <1>4 DEF HandleCourierAssigned

\* Cancellation, with the refund that it may go on to request.
LEMMA CancelIsFrugal ==
    ASSUME BusOK, OrderTypeOK, Calm, NEW c \in CancelGroups, CancelOrder(c, OrderOf(c))
    PROVE  Frugal(c)
  <1> DEFINE o == OrderOf(c)
             m == [order |-> o, refundRequired |-> refund[c]]
  <1>1. /\ c \in Consumers /\ AfterCancel(c) \in Steps /\ AfterCancel(c) \in {"idle", "requestRefund"}
        /\ {"announceCancel", "publishCancelled"} \subseteq Steps /\ "CANCELLED" \in Statuses
        /\ "order.cancelled" \in Topics \ {TopicOf(c)}
    BY DEF Consumers, OrderGroups, CancelGroups, AfterCancel, Steps, Statuses, Topics, TopicOf
  <1>2. /\ HandlerSteps(c, "cancel") = 10 /\ HandlerSteps(c, "announceCancel") = 9
        /\ HandlerSteps(c, "publishCancelled") = 8 /\ HandlerSteps(c, "requestRefund") = 7
        /\ MessageSteps("order.cancelled") = 0
    BY DEF HandlerSteps, MessageSteps
  <1>3. /\ Owing(c, "announceCancel") = 9 /\ Owing(c, "publishCancelled") = 8
        /\ Owing(c, AfterCancel(c)) \in {0, 7}
    BY <1>1, <1>2 DEF Owing
  <1>4. ASSUME pc[c] = "cancel", UpdateStatus(c, o, "CANCELLED", "announceCancel")
        PROVE  Frugal(c)
    BY <1>1, <1>2, <1>3, <1>4, UpdateIsFrugal
  <1>5. ASSUME pc[c] = "announceCancel", PublishStatus(c, o, "CANCELLED", "publishCancelled")
        PROVE  Frugal(c)
    BY <1>1, <1>2, <1>3, <1>5, AnnounceIsFrugal
  <1>6. ASSUME pc[c] = "publishCancelled", Emit(c, "order.cancelled", m, AfterCancel(c), "idle")
        PROVE  Frugal(c)
    <2>1. o \in Orders /\ refund[c] \in BOOLEAN
      BY <1>1, <1>6, CurrentMessage DEF BusOK, OffsetsOK, OrderTypeOK
    <2>2. m \in Payload("order.cancelled") /\ m.order = OrderOf(c)
      BY <2>1, PayloadType
    <2> HIDE DEF m
    <2> QED
      BY <1>1, <1>2, <1>3, <1>6, <2>2, EmitIsFrugal
  <1> QED
    BY <1>4, <1>5, <1>6 DEF CancelOrder

LEMMA FailedIsFrugal ==
    ASSUME BusOK, OrderTypeOK, Calm, HandlePaymentFailed
    PROVE  Frugal("order-svc-payment-failed")
  <1> DEFINE c == "order-svc-payment-failed"
             o == OrderOf(c)
  <1>1. /\ c \in Consumers /\ c \in CancelGroups /\ "cancel" \in Steps \ {"idle"}
        /\ TopicOf(c) = "payment.failed"
    BY DEF Consumers, OrderGroups, CancelGroups, Steps, TopicOf
  <1>2. MessageSteps(TopicOf(c)) = 12 /\ HandlerSteps(c, "cancel") = 10
    BY <1>1 DEF MessageSteps, HandlerSteps
  <1>3. ASSUME Receive(c, AlreadyCancelled(o), "cancel") PROVE Frugal(c)
    BY <1>1, <1>2, <1>3, ReceiveIsFrugal
  <1> QED
    BY <1>1, <1>3, CancelIsFrugal DEF HandlePaymentFailed

LEMMA CancelWithRefundIsFrugal ==
    ASSUME BusOK, OrderTypeOK, Calm,
           NEW c \in {"order-svc-prep-failed", "order-svc-delivery-failed"}, CancelWithRefund(c)
    PROVE  Frugal(c)
  <1> DEFINE o == OrderOf(c)
             m == [order |-> o]
  <1>1. /\ c \in Consumers /\ c \in CancelGroups
        /\ {"idle", "recheck", "cancel", "requestRefund"} \subseteq Steps
        /\ TopicOf(c) \in {"order.preparation.failed", "delivery.failed"}
        /\ "payment.refund.requested" \in
              Topics \ {TopicOf(c), "courier.assigned", "order.cancelled", "order.status.changed"}
        /\ AfterCancel(c) \in {"idle", "requestRefund"}
    BY DEF Consumers, OrderGroups, CancelGroups, Steps, TopicOf, Topics, AfterCancel
  <1>2. /\ MessageSteps(TopicOf(c)) = 12 /\ HandlerSteps(c, "recheck") = 11
        /\ HandlerSteps(c, "cancel") = 10 /\ HandlerSteps(c, "requestRefund") = 7
        /\ MessageSteps("payment.refund.requested") = 6
    BY <1>1 DEF MessageSteps, HandlerSteps
  <1>3. Owing(c, AfterCancel(c)) < 11 /\ Owing(c, "cancel") = 10 /\ Owing(c, "idle") = 0
    BY <1>1, <1>2 DEF Owing
  <1>4. ASSUME Receive(c, AlreadyCancelled(o), "recheck") PROVE Frugal(c)
    BY <1>1, <1>2, <1>4, ReceiveIsFrugal
  <1>5. ASSUME pc[c] = "recheck", UNCHANGED log,
               Continue(c, AfterCancel(c)) \/ Goto(c, "cancel") \/ Fails(c)
        PROVE  Frugal(c)
    <2>1. Continue(c, AfterCancel(c)) \/ Continue(c, "cancel")
      BY <1>5, NothingFails DEF Continue, Fails
    <2> QED
      BY <1>1, <1>2, <1>3, <1>5, <2>1, CallIsFrugal
  <1>6. ASSUME pc[c] = "requestRefund", Emit(c, "payment.refund.requested", m, "idle", "idle")
        PROVE  Frugal(c)
    <2>1. o \in Orders
      BY <1>1, <1>6, CurrentMessage DEF BusOK, OffsetsOK
    <2>2. m \in Payload("payment.refund.requested") /\ m.order = OrderOf(c)
      BY <1>1, <2>1, PayloadType
    <2> HIDE DEF m
    <2> QED
      BY <1>1, <1>2, <1>3, <1>6, <2>2, EmitIsFrugal
  <1> QED
    BY <1>1, <1>4, <1>5, <1>6, CancelIsFrugal DEF CancelWithRefund

\* payment-svc.
LEMMA ChargeIsFrugal ==
    ASSUME BusOK, Calm, HandleOrderCreated
    PROVE  Frugal("payment-svc")
  <1> DEFINE c == "payment-svc"
             o == OrderOf(c)
             m == [order |-> o]
  <1>1. /\ c \in Consumers /\ TopicOf(c) = "order.created"
        /\ {"idle", "charge", "publishFailed", "publishProcessed"} \subseteq Steps
        /\ {"payment.failed", "payment.processed"} \subseteq
              Topics \ {TopicOf(c), "courier.assigned", "order.cancelled", "order.status.changed"}
    BY DEF Consumers, PaymentGroups, Steps, TopicOf, Topics
  <1>2. /\ MessageSteps(TopicOf(c)) = 23 /\ HandlerSteps(c, "charge") = 22
        /\ HandlerSteps(c, "publishFailed") = 13 /\ HandlerSteps(c, "publishProcessed") = 21
        /\ MessageSteps("payment.failed") = 12 /\ MessageSteps("payment.processed") = 20
    BY <1>1 DEF MessageSteps, HandlerSteps
  <1>3. /\ Owing(c, "publishFailed") = 13 /\ Owing(c, "publishProcessed") = 21
        /\ Owing(c, "idle") = 0
    BY <1>2 DEF Owing
  <1>4. ASSUME FindPayment(c, o) PROVE Frugal(c)
    <2>1. Receive(c, PaymentExists(o), "charge")
      BY <1>4, NothingFails DEF FindPayment, Receive
    <2> QED
      BY <1>1, <1>2, <2>1, ReceiveIsFrugal
  <1>5. ASSUME pc[c] = "charge", Decline(c, o) PROVE Frugal(c)
    <2>1. UNCHANGED log /\ Continue(c, "publishFailed")
      BY <1>5 DEF Decline, Continue
    <2> QED
      BY <1>1, <1>2, <1>3, <1>5, <2>1, CallIsFrugal
  <1>6. ASSUME pc[c] = "charge", Approve(c, o) PROVE Frugal(c)
    <2>1. UNCHANGED log /\ (Continue(c, "publishProcessed") \/ Continue(c, "idle"))
      BY <1>1, <1>6, NothingFails, CalmCalls DEF Approve, Fails, Continue
    <2> QED
      BY <1>1, <1>2, <1>3, <1>6, <2>1, CallIsFrugal
  <1>7. ASSUME NEW t \in {"payment.failed", "payment.processed"}, pc[c] # "idle",
               Emit(c, t, m, "idle", "idle"), MessageSteps(t) < HandlerSteps(c, pc[c])
        PROVE  Frugal(c)
    <2>1. o \in Orders
      BY <1>1, <1>7, CurrentMessage DEF BusOK, OffsetsOK
    <2>2. m \in Payload(t) /\ m.order = OrderOf(c) /\ t \in Topics \ {TopicOf(c)}
      BY <1>1, <2>1, PayloadType
    <2>3. Owing(c, "idle") + MessageSteps(t) < HandlerSteps(c, pc[c])
      BY <1>2, <1>3, <1>7
    <2> HIDE DEF m
    <2> QED
      BY <1>1, <1>7, <2>2, <2>3, EmitIsFrugal
  <1>8. ASSUME pc[c] = "publishFailed", Emit(c, "payment.failed", m, "idle", "idle")
        PROVE  Frugal(c)
    BY <1>2, <1>7, <1>8
  <1>9. ASSUME pc[c] = "publishProcessed", Emit(c, "payment.processed", m, "idle", "idle")
        PROVE  Frugal(c)
    BY <1>2, <1>7, <1>9
  <1> QED
    BY <1>4, <1>5, <1>6, <1>8, <1>9 DEF HandleOrderCreated

LEMMA RefundIsFrugal ==
    ASSUME BusOK, Calm, HandleRefundRequested
    PROVE  Frugal("payment-svc-refund")
  <1> DEFINE c == "payment-svc-refund"
             o == OrderOf(c)
             m == [order |-> o]
  <1>1. /\ c \in Consumers /\ TopicOf(c) = "payment.refund.requested"
        /\ {"idle", "markRefunded", "publishRefunded"} \subseteq Steps
        /\ "payment.refunded" \in
              Topics \ {TopicOf(c), "courier.assigned", "order.cancelled", "order.status.changed"}
    BY DEF Consumers, PaymentGroups, Steps, TopicOf, Topics
  <1>2. /\ MessageSteps(TopicOf(c)) = 6 /\ HandlerSteps(c, "markRefunded") = 5
        /\ HandlerSteps(c, "publishRefunded") = 4 /\ MessageSteps("payment.refunded") = 3
        /\ Owing(c, "publishRefunded") = 4 /\ Owing(c, "idle") = 0
    BY <1>1 DEF MessageSteps, HandlerSteps, Owing
  <1>3. ASSUME Receive(c, ~CanRefund(o), "markRefunded") PROVE Frugal(c)
    BY <1>1, <1>2, <1>3, ReceiveIsFrugal
  <1>4. ASSUME pc[c] = "markRefunded", UNCHANGED log, Returns(c, "publishRefunded") \/ Fails(c)
        PROVE  Frugal(c)
    <2>1. Continue(c, "publishRefunded")
      BY <1>1, <1>4, NothingFails, CalmCalls DEF Fails
    <2> QED
      BY <1>1, <1>2, <1>4, <2>1, CallIsFrugal
  <1>5. ASSUME pc[c] = "publishRefunded", Emit(c, "payment.refunded", m, "idle", "idle")
        PROVE  Frugal(c)
    <2>1. o \in Orders
      BY <1>1, <1>5, CurrentMessage DEF BusOK, OffsetsOK
    <2>2. m \in Payload("payment.refunded") /\ m.order = OrderOf(c)
      BY <1>1, <2>1, PayloadType
    <2> HIDE DEF m
    <2> QED
      BY <1>1, <1>2, <1>5, <2>2, EmitIsFrugal
  <1> QED
    BY <1>3, <1>4, <1>5 DEF HandleRefundRequested

-----------------------------------------------------------------------------
\* A step that begins nothing in the services leaves their work as it is, and
\* what it does to a status can only take from it.
LEMMA FrugalTakes ==
    ASSUME IInv, BusOK', RidersFinite, NEW c \in Consumers, Frugal(c),
           \A p \in Orders : status'[p] = status[p] \/ (p = OrderOf(c) /\ status'[p] # "NONE"),
           UNCHANGED <<creating, cooking, riding, arrived>>
    PROVE  \E o \in Orders : Takes(o)
  <1>1. PICK step, cost : Moves(c, OrderOf(c), step, cost) /\ Owing(c, step) + cost < Owed(c)
    BY DEF Frugal
  <1>2. PICK o \in Orders : o = OrderOf(c)
    BY <1>1, CurrentMessage DEF IInv, Typed, Moves
  <1>3. \A p \in Orders : Riders(p)' = Riders(p)
    BY DEF Riders
  <1>4. \A p \in Orders : /\ cooking[p] \in Nat /\ arrived[p] \in Nat
                          /\ Cardinality(Riders(p)) \in Nat
    BY FS_CardinalityType DEF IInv, Typed, RestaurantTypeOK, DeliveryTypeOK, RidersFinite
  <1>5. \A p \in Orders \ {o} : ServiceWork(p)' = ServiceWork(p)
    BY <1>2, <1>3 DEF ServiceWork
  <1>6. ServiceWork(o)' <= ServiceWork(o) + 0 /\ ServiceWork(o)' \in Int
    BY <1>2, <1>3, <1>4 DEF ServiceWork
  <1>7. Owing(c, step) + cost + 0 < Owed(c)
    BY <1>1, OwedType DEF Moves
  <1> QED
    BY <1>1, <1>2, <1>5, <1>6, <1>7, HandlerTakes

LEMMA OrderTakes ==
    ASSUME IInv, BusOK', RidersFinite, Calm, OrderSvc(OrderNext)
    PROVE  \E o \in Orders : Takes(o)
  <1>1. /\ BusOK /\ OrderTypeOK /\ OrderNext
        /\ UNCHANGED <<cooking, riding, arrived>>
    BY DEF IInv, Typed, OrderSvc, deliveryVars
  <1>2. ASSUME NEW o \in Orders, CreateOrder(o) PROVE Takes(o)
    <2>1. /\ status[o] = "NONE" /\ status' = [status EXCEPT ![o] = "PENDING"]
          /\ creating' = creating \cup {o}
          /\ UNCHANGED <<log, pc, pos>>
      BY <1>1, <1>2, NothingFails DEF CreateOrder
    <2>2. /\ cooking[o] \in Nat /\ arrived[o] \in Nat /\ Cardinality(Riders(o)) \in Nat
          /\ status'[o] = "PENDING" /\ \A p \in Orders \ {o} : status'[p] = status[p]
      BY <1>1, <2>1, FS_CardinalityType
         DEF IInv, Typed, RestaurantTypeOK, DeliveryTypeOK, RidersFinite, OrderTypeOK
    <2>3. \A p \in Orders : Riders(p)' = Riders(p)
      BY <1>1 DEF Riders
    <2>4. ServiceWork(o)' + 0 < ServiceWork(o) /\ ServiceWork(o)' \in Int
      BY <1>1, <2>1, <2>2, <2>3 DEF ServiceWork
    <2>5. \A p \in Orders \ {o} : ServiceWork(p)' = ServiceWork(p)
      BY <1>1, <2>1, <2>2, <2>3 DEF ServiceWork
    <2> QED
      BY <2>1, <2>4, <2>5, RequestTakes
  <1>3. ASSUME NEW o \in Orders, PublishCreated(o) PROVE Takes(o)
    <2> DEFINE m == [order |-> o]
    <2>1. /\ o \in creating /\ creating' = creating \ {o}
          /\ Write("order.created", m) /\ UNCHANGED <<pc, pos, status>>
      BY <1>1, <1>3, NothingFails DEF PublishCreated, EmitAndForget
    <2>2. /\ "order.created" \in Topics \ {"courier.assigned", "order.cancelled", "order.status.changed"}
          /\ MessageSteps("order.created") = 23
      BY DEF Topics, MessageSteps
    <2>3. m \in Payload("order.created") /\ m.order = o
      BY <2>2, PayloadType
    <2> HIDE DEF m
    <2>4. cooking[o] \in Nat /\ arrived[o] \in Nat /\ Cardinality(Riders(o)) \in Nat
      BY FS_CardinalityType DEF IInv, Typed, RestaurantTypeOK, DeliveryTypeOK, RidersFinite
    <2>5. \A p \in Orders : Riders(p)' = Riders(p)
      BY <1>1 DEF Riders
    <2>6. ServiceWork(o)' + 23 < ServiceWork(o) /\ ServiceWork(o)' \in Int
      BY <1>1, <2>1, <2>4, <2>5 DEF ServiceWork
    <2>7. \A p \in Orders \ {o} : ServiceWork(p)' = ServiceWork(p)
      BY <1>1, <2>1, <2>5 DEF ServiceWork
    <2> QED
      BY <2>1, <2>2, <2>3, <2>6, <2>7, RequestTakes
  <1>4. ASSUME NEW c \in Consumers, Frugal(c), NEW new, NEW topics, StatusEffect(c, new, topics),
               "NONE" \notin new, UNCHANGED creating
        PROVE  \E o \in Orders : Takes(o)
    <2>1. \A p \in Orders : status'[p] = status[p] \/ (p = OrderOf(c) /\ status'[p] # "NONE")
      BY <1>4 DEF StatusEffect
    <2>2. UNCHANGED <<creating, cooking, riding, arrived>>
      BY <1>1, <1>4
    <2> QED
      BY <1>4, <2>1, <2>2, FrugalTakes
  <1>5. /\ OrderGroups \subseteq Consumers
        /\ {"order-svc-payment", "order-svc-payment-failed", "order-svc-prep-failed",
            "order-svc-delivery-failed", "order-svc-refunded", "order-svc-courier",
            "order-svc-delivered"} = OrderGroups
    BY DEF Consumers, OrderGroups
  <1>6. CASE HandlePaymentProcessed
    BY <1>1, <1>4, <1>5, <1>6, ProcessedIsFrugal, HandlePaymentProcessedEffect
       DEF HandlePaymentProcessed
  <1>7. CASE HandlePaymentFailed
    BY <1>1, <1>4, <1>5, <1>7, FailedIsFrugal, HandlePaymentFailedEffect
       DEF HandlePaymentFailed
  <1>8. ASSUME NEW c \in {"order-svc-prep-failed", "order-svc-delivery-failed"},
               CancelWithRefund(c)
        PROVE  \E o \in Orders : Takes(o)
    BY <1>1, <1>4, <1>5, <1>8, CancelWithRefundIsFrugal, CancelWithRefundEffect
       DEF CancelWithRefund
  <1>9. CASE HandlePaymentRefunded
    BY <1>1, <1>4, <1>5, <1>9, RefundedIsFrugal, HandlePaymentRefundedEffect
       DEF HandlePaymentRefunded
  <1>10. CASE HandleCourierAssigned
    BY <1>1, <1>4, <1>5, <1>10, AssignedIsFrugal, HandleCourierAssignedEffect
       DEF HandleCourierAssigned
  <1>11. CASE HandleOrderDelivered
    BY <1>1, <1>4, <1>5, <1>11, DeliveredIsFrugal, HandleOrderDeliveredEffect
       DEF HandleOrderDelivered
  <1>12. ~OrderRestart
    BY <1>1, NothingFails DEF OrderRestart
  <1> QED
    BY <1>1, <1>2, <1>3, <1>6, <1>7, <1>8, <1>9, <1>10, <1>11, <1>12
       DEF OrderNext, OrderConsumes

\* A step of a consumer that leaves the rest of its service as it is.
LEMMA OnlyItTakes ==
    ASSUME IInv, BusOK', RidersFinite, NEW c \in Consumers, Frugal(c),
           UNCHANGED <<status, creating, cooking, riding, arrived>>
    PROVE  \E o \in Orders : Takes(o)
  <1>1. \A p \in Orders : status'[p] = status[p] \/ (p = OrderOf(c) /\ status'[p] # "NONE")
    OBVIOUS
  <1>2. UNCHANGED <<creating, cooking, riding, arrived>>
    OBVIOUS
  <1> QED
    BY <1>1, <1>2, FrugalTakes

LEMMA PaymentTakes ==
    ASSUME IInv, BusOK', RidersFinite, Calm, PaymentSvc(PaymentNext)
    PROVE  \E o \in Orders : Takes(o)
  <1>1. /\ BusOK /\ PaymentNext
        /\ UNCHANGED <<status, creating, cooking, riding, arrived>>
    BY DEF IInv, Typed, PaymentSvc, orderVars, deliveryVars
  <1>2. {"payment-svc", "payment-svc-refund"} \subseteq Consumers
    BY DEF Consumers, PaymentGroups
  <1>3. ~PaymentRestart
    BY <1>1, NothingFails DEF PaymentRestart
  <1> QED
    BY <1>1, <1>2, <1>3, OnlyItTakes, ChargeIsFrugal, RefundIsFrugal DEF PaymentNext

\* What the services themselves have under way for an order.
LEMMA UnderWayType ==
    ASSUME IInv, RidersFinite, NEW o \in Orders
    PROVE  cooking[o] \in Nat /\ arrived[o] \in Nat /\ Cardinality(Riders(o)) \in Nat
  BY FS_CardinalityType DEF IInv, Typed, RestaurantTypeOK, DeliveryTypeOK, RidersFinite

-----------------------------------------------------------------------------
\* restaurant-svc: a paid order is cooked or given up.
LEMMA CookTakes ==
    ASSUME IInv, BusOK', RidersFinite, Calm, HandleOrderPaid,
           UNCHANGED <<status, creating, riding, arrived>>
    PROVE  \E o \in Orders : Takes(o)
  <1> DEFINE c == "restaurant-svc"
             m == [order |-> OrderOf(c)]
  <1>1. /\ c \in Consumers /\ TopicOf(c) = "order.paid" /\ {"idle", "publishFailed"} \subseteq Steps
        /\ "order.preparation.failed" \in
              Topics \ {TopicOf(c), "courier.assigned", "order.cancelled", "order.status.changed"}
    BY DEF Consumers, RestaurantGroups, Steps, TopicOf, Topics
  <1>2. /\ MessageSteps(TopicOf(c)) = 16 /\ MessageSteps("order.preparation.failed") = 12
        /\ HandlerSteps(c, "publishFailed") = 13
        /\ Owing(c, "publishFailed") = 13 /\ Owing(c, "idle") = 0
    BY <1>1 DEF MessageSteps, HandlerSteps, Owing
  <1>3. BusOK /\ RestaurantTypeOK
    BY DEF IInv, Typed
  <1>4. ASSUME HasMessage(c), UNCHANGED log, Finish(c),
               cooking' = [cooking EXCEPT ![OrderOf(c)] = @ + 1]
        PROVE  \E o \in Orders : Takes(o)
    <2>1. pos[c] < Len(log[TopicOf(c)]) /\ Owed(c) = 16
      BY <1>2, <1>4 DEF HasMessage, Owed
    <2>2. PICK o \in Orders : o = OrderOf(c)
      BY <1>1, <1>3, <2>1, CurrentMessage
    <2>3. Moves(c, o, "idle", 0)
      BY <1>1, <1>4, <2>1, <2>2 DEF Moves, Continue
    <2>4. /\ cooking[o] \in Nat /\ arrived[o] \in Nat /\ Cardinality(Riders(o)) \in Nat
          /\ cooking'[o] = cooking[o] + 1 /\ \A p \in Orders \ {o} : cooking'[p] = cooking[p]
      BY <1>3, <1>4, <2>2, UnderWayType DEF RestaurantTypeOK
    <2>5. \A p \in Orders : Riders(p)' = Riders(p)
      BY DEF Riders
    <2>6. ServiceWork(o)' <= ServiceWork(o) + 15 /\ ServiceWork(o)' \in Int
      BY <2>4, <2>5 DEF ServiceWork
    <2>7. \A p \in Orders \ {o} : ServiceWork(p)' = ServiceWork(p)
      BY <2>4, <2>5 DEF ServiceWork
    <2>8. Owing(c, "idle") + 0 + 15 < Owed(c)
      BY <1>2, <2>1
    <2> QED
      BY <1>1, <2>2, <2>3, <2>6, <2>7, <2>8, HandlerTakes
  <1>5. ASSUME HasMessage(c), UNCHANGED log, Goto(c, "publishFailed"), UNCHANGED cooking
        PROVE  \E o \in Orders : Takes(o)
    <2>1. pos[c] < Len(log[TopicOf(c)]) /\ Owed(c) = 16
      BY <1>2, <1>5 DEF HasMessage, Owed
    <2>2. Moves(c, OrderOf(c), "publishFailed", 0)
      BY <1>1, <1>5, <2>1 DEF Moves, Continue
    <2>3. Frugal(c)
      BY <1>2, <2>1, <2>2 DEF Frugal
    <2> QED
      BY <1>1, <1>5, <2>3, OnlyItTakes
  <1>6. ASSUME pc[c] = "publishFailed", UNCHANGED cooking,
               Emit(c, "order.preparation.failed", m, "idle", "idle")
        PROVE  \E o \in Orders : Takes(o)
    <2>1. OrderOf(c) \in Orders
      BY <1>1, <1>3, <1>6, CurrentMessage DEF BusOK, OffsetsOK
    <2>2. m \in Payload("order.preparation.failed") /\ m.order = OrderOf(c)
      BY <1>1, <2>1, PayloadType
    <2> HIDE DEF m
    <2>3. Frugal(c)
      BY <1>1, <1>2, <1>3, <1>6, <2>2, EmitIsFrugal
    <2> QED
      BY <1>1, <1>6, <2>3, OnlyItTakes
  <1> QED
    BY <1>4, <1>5, <1>6 DEF HandleOrderPaid

LEMMA RestaurantTakes ==
    ASSUME IInv, BusOK', RidersFinite, Calm, RestaurantSvc(RestaurantNext)
    PROVE  \E o \in Orders : Takes(o)
  <1>1. /\ BusOK /\ RestaurantTypeOK /\ RestaurantNext
        /\ UNCHANGED <<status, creating, riding, arrived>>
    BY DEF IInv, Typed, RestaurantSvc, orderVars, deliveryVars
  <1>2. ASSUME NEW o \in Orders, DishReady(o) PROVE Takes(o)
    <2> DEFINE m == [order |-> o]
    <2>1. /\ cooking[o] > 0 /\ cooking' = [cooking EXCEPT ![o] = @ - 1]
          /\ Write("order.ready", m) /\ UNCHANGED <<pc, pos>>
      BY <1>1, <1>2, NothingFails DEF DishReady, EmitAndForget
    <2>2. /\ "order.ready" \in Topics \ {"courier.assigned", "order.cancelled", "order.status.changed"}
          /\ MessageSteps("order.ready") = 14
      BY DEF Topics, MessageSteps
    <2>3. m \in Payload("order.ready") /\ m.order = o
      BY <2>2, PayloadType
    <2> HIDE DEF m
    <2>4. /\ cooking[o] \in Nat /\ arrived[o] \in Nat /\ Cardinality(Riders(o)) \in Nat
          /\ cooking'[o] = cooking[o] - 1 /\ \A p \in Orders \ {o} : cooking'[p] = cooking[p]
      BY <1>1, <2>1, UnderWayType DEF RestaurantTypeOK
    <2>5. \A p \in Orders : Riders(p)' = Riders(p)
      BY <1>1 DEF Riders
    <2>6. ServiceWork(o)' + 14 < ServiceWork(o) /\ ServiceWork(o)' \in Int
      BY <1>1, <2>4, <2>5 DEF ServiceWork
    <2>7. \A p \in Orders \ {o} : ServiceWork(p)' = ServiceWork(p)
      BY <1>1, <2>4, <2>5 DEF ServiceWork
    <2> QED
      BY <2>1, <2>2, <2>3, <2>6, <2>7, RequestTakes
  <1>3. ~RestaurantRestart
    BY <1>1, NothingFails DEF RestaurantRestart
  <1> QED
    BY <1>1, <1>2, <1>3, CookTakes DEF RestaurantNext

-----------------------------------------------------------------------------
\* delivery-svc: every step of its handler but the one that sends a courier.
LEMMA DispatchIsFrugal ==
    ASSUME IInv, Calm,
           \/ FindAvailableCourier(dispatcher)
           \/ /\ pc[dispatcher] = "publishFailed"
              /\ Emit(dispatcher, "delivery.failed", [order |-> OrderOf(dispatcher)], "idle", "idle")
           \/ MarkBusy(dispatcher) \/ Unassign(dispatcher)
    PROVE  Frugal(dispatcher)
  <1> DEFINE c == dispatcher
             m == [order |-> OrderOf(c)]
  <1>1. /\ c \in Consumers /\ TopicOf(c) = "order.ready"
        /\ {"idle", "publishFailed", "setBusy", "publishAssigned", "release"} \subseteq Steps
        /\ "delivery.failed" \in
              Topics \ {TopicOf(c), "courier.assigned", "order.cancelled", "order.status.changed"}
    BY DEF dispatcher, Consumers, DeliveryGroups, Steps, TopicOf, Topics
  <1>2. /\ MessageSteps(TopicOf(c)) = 14 /\ MessageSteps("delivery.failed") = 12
        /\ HandlerSteps(c, "publishFailed") = 13 /\ HandlerSteps(c, "setBusy") = 9
        /\ HandlerSteps(c, "publishAssigned") = 8 /\ HandlerSteps(c, "release") = 1
    BY <1>1 DEF MessageSteps, HandlerSteps
  <1>3. /\ Owing(c, "publishFailed") = 13 /\ Owing(c, "setBusy") = 9
        /\ Owing(c, "publishAssigned") = 8 /\ Owing(c, "idle") = 0
    BY <1>2 DEF Owing
  <1>4. BusOK
    BY DEF IInv, Typed
  <1>5. ASSUME HasMessage(c), UNCHANGED log, NEW step \in {"setBusy", "publishFailed"}, Goto(c, step)
        PROVE  Frugal(c)
    <2>1. pos[c] < Len(log[TopicOf(c)]) /\ Owed(c) = 14
      BY <1>2, <1>5 DEF HasMessage, Owed
    <2>2. Moves(c, OrderOf(c), step, 0)
      BY <1>1, <1>5, <2>1 DEF Moves, Continue
    <2> QED
      BY <1>3, <1>5, <2>1, <2>2 DEF Frugal
  <1>6. CASE FindAvailableCourier(c)
    BY <1>5, <1>6 DEF FindAvailableCourier
  <1>7. ASSUME pc[c] = "publishFailed", Emit(c, "delivery.failed", m, "idle", "idle")
        PROVE  Frugal(c)
    <2>1. OrderOf(c) \in Orders
      BY <1>1, <1>4, <1>7, CurrentMessage DEF BusOK, OffsetsOK
    <2>2. m \in Payload("delivery.failed") /\ m.order = OrderOf(c)
      BY <1>1, <2>1, PayloadType
    <2> HIDE DEF m
    <2> QED
      BY <1>1, <1>2, <1>3, <1>4, <1>7, <2>2, EmitIsFrugal
  <1>8. CASE MarkBusy(c)
    <2>1. pc[c] = "setBusy" /\ UNCHANGED log /\ Continue(c, "publishAssigned")
      BY <1>1, <1>4, <1>8, NothingFails, CalmCalls DEF MarkBusy, Fails
    <2> QED
      BY <1>1, <1>2, <1>3, <1>4, <2>1, CallIsFrugal
  <1>9. CASE Unassign(c)
    <2>1. pc[c] = "release" /\ UNCHANGED log /\ Continue(c, "idle")
      BY <1>9 DEF Unassign, Continue
    <2> QED
      BY <1>1, <1>2, <1>3, <1>4, <2>1, CallIsFrugal
  <1> QED
    BY <1>6, <1>7, <1>8, <1>9

\* One more ride adds its courier at most.
LEMMA OneMoreRides ==
    ASSUME IInv, RidersFinite, NEW k \in Couriers, NEW o \in Orders,
           riding' = [riding EXCEPT ![k][o] = @ + 1]
    PROVE  /\ Riders(o)' = Riders(o) \cup {k}
           /\ \A p \in Orders \ {o} : Riders(p)' = Riders(p)
           /\ Cardinality(Riders(o)') \in Nat
           /\ Cardinality(Riders(o)') <= Cardinality(Riders(o)) + 1
  <1>1. riding \in [Couriers -> [Orders -> Nat]]
    BY DEF IInv, Typed, DeliveryTypeOK
  <1>2. /\ riding'[k][o] = riding[k][o] + 1
        /\ \A j \in Couriers, p \in Orders : j # k \/ p # o => riding'[j][p] = riding[j][p]
    BY <1>1
  <1>3. riding[k][o] \in Nat
    BY <1>1
  <1>4. Riders(o)' = Riders(o) \cup {k}
    BY <1>2, <1>3 DEF Riders
  <1>5. \A p \in Orders \ {o} : Riders(p)' = Riders(p)
    BY <1>2 DEF Riders
  <1>6. /\ IsFiniteSet(Riders(o) \cup {k}) /\ Cardinality(Riders(o)) \in Nat
        /\ Cardinality(Riders(o) \cup {k}) =
              IF k \in Riders(o) THEN Cardinality(Riders(o)) ELSE Cardinality(Riders(o)) + 1
    BY FS_AddElement, UnderWayType DEF RidersFinite
  <1>7. /\ Cardinality(Riders(o) \cup {k}) \in Nat
        /\ Cardinality(Riders(o) \cup {k}) <= Cardinality(Riders(o)) + 1
    BY <1>6
  <1> QED
    BY <1>4, <1>5, <1>7

\* A ride that is over takes its courier away: he carries no order twice.
LEMMA OneLessRides ==
    ASSUME IInv, RidersFinite, CourierCarriesOneOrder, NEW k \in Couriers, NEW o \in Orders,
           riding[k][o] > 0, riding' = [riding EXCEPT ![k][o] = @ - 1]
    PROVE  /\ Riders(o)' = Riders(o) \ {k}
           /\ \A p \in Orders \ {o} : Riders(p)' = Riders(p)
           /\ Cardinality(Riders(o)') \in Nat
           /\ Cardinality(Riders(o)') = Cardinality(Riders(o)) - 1
  <1>1. riding \in [Couriers -> [Orders -> Nat]]
    BY DEF IInv, Typed, DeliveryTypeOK
  <1>2. /\ riding[k][o] = 1 /\ riding'[k][o] = riding[k][o] - 1
        /\ \A j \in Couriers, p \in Orders : j # k \/ p # o => riding'[j][p] = riding[j][p]
    BY <1>1 DEF CourierCarriesOneOrder
  <1>3. Riders(o)' = Riders(o) \ {k} /\ k \in Riders(o)
    BY <1>2 DEF Riders
  <1>4. \A p \in Orders \ {o} : Riders(p)' = Riders(p)
    BY <1>2 DEF Riders
  <1>5. /\ IsFiniteSet(Riders(o) \ {k}) /\ Cardinality(Riders(o)) \in Nat
        /\ Cardinality(Riders(o) \ {k}) =
              IF k \in Riders(o) THEN Cardinality(Riders(o)) - 1 ELSE Cardinality(Riders(o))
    BY FS_RemoveElement, UnderWayType DEF RidersFinite
  <1>6. Cardinality(Riders(o) \ {k}) \in Nat
    BY <1>5, FS_CardinalityType
  <1> QED
    BY <1>3, <1>4, <1>5, <1>6

\* The message and the ride that the last step begins cost less than it did.
LEMMA AssignTakes ==
    ASSUME IInv, BusOK', RidersFinite, Calm, Assign(dispatcher, OrderOf(dispatcher)),
           UNCHANGED <<status, creating, cooking, arrived>>
    PROVE  \E o \in Orders : Takes(o)
  <1> DEFINE c == dispatcher
             t == "courier.assigned"
             m == [order |-> OrderOf(c), courier |-> chosen]
  <1>1. /\ c \in Consumers /\ t \in Topics \ {TopicOf(c)} /\ "idle" \in Steps
        /\ pc[c] = "publishAssigned" /\ BusOK /\ chosen \in Couriers
        /\ MessageSteps(t) = 2 /\ HandlerSteps(c, "publishAssigned") = 8
    BY DEF dispatcher, Consumers, DeliveryGroups, Steps, TopicOf, Topics, Assign, IInv, Typed,
           ChosenOK, MessageSteps, HandlerSteps
  <1>2. pos[c] < Len(log[TopicOf(c)]) /\ Owed(c) = 8 /\ Owing(c, "idle") = 0
    BY <1>1 DEF BusOK, OffsetsOK, Owed, Owing
  <1>3. PICK o \in Orders : o = OrderOf(c)
    BY <1>1, <1>2, CurrentMessage
  <1>4. m \in Payload(t) /\ m.order = o
    BY <1>1, <1>3 DEF Payload
  <1>5. Write(t, m) /\ Continue(c, "idle")
    BY <1>1, CalmCalls DEF Assign
  <1> HIDE DEF m
  <1>6. Moves(c, o, "idle", 2)
    BY <1>1, <1>2, <1>3, <1>4, <1>5 DEF Moves
  <1>7. pc'[c] = "idle"
    BY <1>1, <1>5 DEF Continue, Finish, BusOK, BusTypeOK
  <1>8. riding' = [riding EXCEPT ![chosen][o] = @ + 1]
    BY <1>3, <1>7 DEF Assign
  <1>9. /\ \A p \in Orders \ {o} : Riders(p)' = Riders(p)
        /\ Cardinality(Riders(o)') \in Nat
        /\ Cardinality(Riders(o)') <= Cardinality(Riders(o)) + 1
    BY <1>1, <1>8, OneMoreRides
  <1>10. /\ cooking[o] \in Nat /\ arrived[o] \in Nat /\ Cardinality(Riders(o)) \in Nat
    BY UnderWayType
  <1>11. ServiceWork(o)' <= ServiceWork(o) + 5 /\ ServiceWork(o)' \in Int
    BY <1>9, <1>10 DEF ServiceWork
  <1>12. \A p \in Orders \ {o} : ServiceWork(p)' = ServiceWork(p)
    BY <1>9 DEF ServiceWork
  <1>13. Owing(c, "idle") + 2 + 5 < Owed(c)
    BY <1>2
  <1> QED
    BY <1>1, <1>3, <1>6, <1>11, <1>12, <1>13, HandlerTakes

LEMMA DeliveryTakes ==
    ASSUME IInv, BusOK', RidersFinite, CourierCarriesOneOrder, Calm, DeliverySvc(DeliveryNext)
    PROVE  \E o \in Orders : Takes(o)
  <1>1. /\ BusOK /\ DeliveryTypeOK /\ DeliveryNext /\ dispatcher \in Consumers
        /\ UNCHANGED <<status, creating, cooking>>
    BY DEF IInv, Typed, DeliverySvc, orderVars, dispatcher, Consumers, DeliveryGroups
  <1>2. CASE HandleOrderReady
    <2>1. UNCHANGED arrived
      BY <1>2 DEF HandleOrderReady
    <2>2. CASE Assign(dispatcher, OrderOf(dispatcher))
      BY <1>1, <2>1, <2>2, AssignTakes
    <2>3. CASE ~Assign(dispatcher, OrderOf(dispatcher))
      <3>1. Frugal(dispatcher) /\ UNCHANGED riding
        BY <1>2, <2>3, DispatchIsFrugal
           DEF HandleOrderReady, dispatcher, FindAvailableCourier, MarkBusy, Unassign
      <3> QED
        BY <1>1, <2>1, <3>1, OnlyItTakes
    <2> QED
      BY <2>2, <2>3
  <1>3. ASSUME NEW k \in Couriers, NEW o \in Orders, RideEnds(k, o) PROVE Takes(o)
    <2>1. /\ riding[k][o] > 0 /\ riding' = [riding EXCEPT ![k][o] = @ - 1]
          /\ arrived' = [arrived EXCEPT ![o] = @ + 1]
          /\ UNCHANGED <<log, pc, pos>>
      BY <1>3 DEF RideEnds
    <2>2. /\ \A p \in Orders \ {o} : Riders(p)' = Riders(p)
          /\ Cardinality(Riders(o)') \in Nat
          /\ Cardinality(Riders(o)') = Cardinality(Riders(o)) - 1
      BY <2>1, OneLessRides
    <2>3. /\ cooking[o] \in Nat /\ arrived[o] \in Nat /\ Cardinality(Riders(o)) \in Nat
          /\ arrived'[o] = arrived[o] + 1 /\ \A p \in Orders \ {o} : arrived'[p] = arrived[p]
      BY <1>1, <2>1, UnderWayType DEF DeliveryTypeOK
    <2>4. ServiceWork(o)' + 0 < ServiceWork(o) /\ ServiceWork(o)' \in Int
      BY <1>1, <2>2, <2>3 DEF ServiceWork
    <2>5. \A p \in Orders \ {o} : ServiceWork(p)' = ServiceWork(p)
      BY <1>1, <2>2, <2>3 DEF ServiceWork
    <2> QED
      BY <2>1, <2>4, <2>5, RequestTakes
  <1>4. ASSUME NEW o \in Orders, PublishDelivered(o) PROVE Takes(o)
    <2> DEFINE m == [order |-> o]
    <2>1. /\ arrived[o] > 0 /\ arrived' = [arrived EXCEPT ![o] = @ - 1]
          /\ Write("order.delivered", m) /\ UNCHANGED <<pc, pos, riding>>
      BY <1>1, <1>4, NothingFails DEF PublishDelivered, EmitAndForget
    <2>2. /\ "order.delivered" \in Topics \ {"courier.assigned", "order.cancelled", "order.status.changed"}
          /\ MessageSteps("order.delivered") = 3
      BY DEF Topics, MessageSteps
    <2>3. m \in Payload("order.delivered") /\ m.order = o
      BY <2>2, PayloadType
    <2> HIDE DEF m
    <2>4. /\ cooking[o] \in Nat /\ arrived[o] \in Nat /\ Cardinality(Riders(o)) \in Nat
          /\ arrived'[o] = arrived[o] - 1 /\ \A p \in Orders \ {o} : arrived'[p] = arrived[p]
      BY <1>1, <2>1, UnderWayType DEF DeliveryTypeOK
    <2>5. \A p \in Orders : Riders(p)' = Riders(p)
      BY <2>1 DEF Riders
    <2>6. ServiceWork(o)' + 3 < ServiceWork(o) /\ ServiceWork(o)' \in Int
      BY <1>1, <2>4, <2>5 DEF ServiceWork
    <2>7. \A p \in Orders \ {o} : ServiceWork(p)' = ServiceWork(p)
      BY <1>1, <2>4, <2>5 DEF ServiceWork
    <2> QED
      BY <2>1, <2>2, <2>3, <2>6, <2>7, RequestTakes
  <1>5. ~DeliveryRestart
    BY <1>1, NothingFails DEF DeliveryRestart
  <1> QED
    BY <1>1, <1>2, <1>3, <1>4, <1>5 DEF DeliveryNext

-----------------------------------------------------------------------------
\* There are finitely many rides for an order, however many couriers there are.
LEMMA RidersStayFinite ==
    ASSUME IInv, RidersFinite, [Next]_vars
    PROVE  RidersFinite'
  <1>1. ASSUME NEW k \in Couriers, NEW o \in Orders, riding' = [riding EXCEPT ![k][o] = @ + 1]
        PROVE  RidersFinite'
    <2>1. /\ Riders(o)' = Riders(o) \cup {k} /\ IsFiniteSet(Riders(o) \cup {k})
          /\ \A p \in Orders \ {o} : Riders(p)' = Riders(p)
      BY <1>1, OneMoreRides, FS_AddElement DEF RidersFinite
    <2> QED
      BY <2>1 DEF RidersFinite
  <1>2. ASSUME \A p \in Orders : Riders(p)' \subseteq Riders(p) PROVE RidersFinite'
    BY <1>2, FS_Subset DEF RidersFinite
  <1>3. ASSUME UNCHANGED riding PROVE RidersFinite'
    BY <1>3 DEF RidersFinite, Riders
  <1>4. CASE DeliveryNext
    <2>1. /\ DeliveryTypeOK /\ BusOK /\ dispatcher \in Consumers
      BY DEF IInv, Typed, dispatcher, Consumers, DeliveryGroups
    <2>2. ASSUME HandleOrderReady PROVE RidersFinite'
      <3>1. CASE UNCHANGED riding
        BY <1>3, <3>1
      <3>2. CASE ~UNCHANGED riding
        <4>1. /\ pc[dispatcher] = "publishAssigned"
              /\ riding' = [riding EXCEPT ![chosen][OrderOf(dispatcher)] = @ + 1]
          BY <2>2, <3>2 DEF HandleOrderReady, dispatcher, FindAvailableCourier, MarkBusy,
                            Unassign, Assign
        <4>2. chosen \in Couriers /\ OrderOf(dispatcher) \in Orders
          BY <2>1, <4>1, CurrentMessage DEF IInv, Typed, ChosenOK, BusOK, OffsetsOK, dispatcher
        <4> QED
          BY <1>1, <4>1, <4>2
      <3> QED
        BY <3>1, <3>2
    <2>3. ASSUME NEW k \in Couriers, NEW o \in Orders, RideEnds(k, o) PROVE RidersFinite'
      <3>1. riding' = [riding EXCEPT ![k][o] = @ - 1] /\ riding[k][o] > 0
        BY <2>3 DEF RideEnds
      <3>2. \A j \in Couriers, p \in Orders : riding'[j][p] > 0 => riding[j][p] > 0
        BY <2>1, <3>1 DEF DeliveryTypeOK
      <3> QED
        BY <1>2, <3>2 DEF Riders
    <2>4. ASSUME NEW o \in Orders, PublishDelivered(o) PROVE RidersFinite'
      BY <1>3, <2>4 DEF PublishDelivered
    <2>5. ASSUME DeliveryRestart PROVE RidersFinite'
      <3>1. \A p \in Orders : Riders(p)' = {}
        BY <2>5 DEF DeliveryRestart, Riders
      <3> QED
        BY <1>2, <3>1
    <2> QED
      BY <1>4, <2>2, <2>3, <2>4, <2>5 DEF DeliveryNext
  <1>5. CASE UNCHANGED deliveryVars
    BY <1>3, <1>5 DEF deliveryVars
  <1> QED
    BY <1>4, <1>5, NextCases DEF OrderSvc, PaymentSvc, RestaurantSvc, DeliverySvc, StandStill

\* At the start nothing is under way but the request that is still to come.
LEMMA AllAtStart ==
    Init => RidersFinite /\ \A o \in Orders : WorkLeft(o) = 25
  <1> SUFFICES ASSUME Init PROVE RidersFinite /\ \A o \in Orders : WorkLeft(o) = 25
    OBVIOUS
  <1>1. \A o \in Orders : Riders(o) = {}
    <2>1. \A k \in Couriers, o \in Orders : riding[k][o] = 0
      BY DEF Init, DeliveryInit
    <2>2. ~(0 > 0)
      OBVIOUS
    <2>3. \A o \in Orders : \A k \in Couriers : ~(riding[k][o] > 0)
      BY <2>1, <2>2, Zenon
    <2> QED
      BY <2>3, Zenon DEF Riders
  <1>2. ASSUME NEW o \in Orders PROVE WorkLeft(o) = 25
    <2>1. ServiceWork(o) = 25
      BY <1>1, FS_EmptySet DEF Init, OrderInit, RestaurantInit, DeliveryInit, ServiceWork
    <2>2. ASSUME NEW c \in Consumers PROVE ConsumerWork(c, o) = 0
      <3>1. Waiting(c, o) = {} /\ pc[c] = "idle"
        <4>1. pos[c] = 0 /\ log[TopicOf(c)] = <<>> /\ pc[c] = "idle"
          BY TopicOfType DEF Init, BusInit
        <4>2. (pos[c] + 1)..Len(log[TopicOf(c)]) = {}
          BY <4>1
        <4> QED
          BY <4>1, <4>2 DEF Waiting
      <3>2. Cardinality(Waiting(c, o)) = 0 /\ MessageSteps(TopicOf(c)) \in Nat
        BY <3>1, FS_EmptySet, StepsType
      <3> QED
        BY <3>1, <3>2 DEF ConsumerWork
    <2>3. EventWork(o) = 0
      BY <2>2 DEF EventWork, Consumers, OrderGroups, PaymentGroups, RestaurantGroups, DeliveryGroups
    <2> QED
      BY <2>1, <2>3 DEF WorkLeft
  <1> QED
    BY <1>1, <1>2, FS_EmptySet DEF RidersFinite

\* A step that is neither a failure nor a death takes from one order.
LEMMA StepTakes ==
    ASSUME IInv, RidersFinite, CourierCarriesOneOrder, [Next]_vars
    PROVE  [errors' = errors /\ crashes' = crashes =>
              \E o \in Orders :
                 /\ WorkLeft(o)' < WorkLeft(o)
                 /\ \A p \in Orders \ {o} : WorkLeft(p)' = WorkLeft(p)]_vars
  <1> SUFFICES ASSUME Calm, ~UNCHANGED vars
               PROVE  \E o \in Orders : Takes(o)
    BY DEF Calm, Takes
  <1>1. BusOK'
    BY NextKeeps DEF IInv, Typed
  <1>2. ~ConsumerStops
    BY NothingFails DEF IInv, Typed, ConsumerStops, RunReturns
  <1> QED
    BY <1>1, <1>2, OrderTakes, PaymentTakes, RestaurantTakes, DeliveryTakes DEF Next

LEMMA WorkLeftType ==
    IInv /\ RidersFinite => \A o \in Orders : WorkLeft(o) \in Nat
  <1> SUFFICES ASSUME IInv, RidersFinite, NEW o \in Orders PROVE WorkLeft(o) \in Nat
    OBVIOUS
  <1>1. BusOK
    BY DEF IInv, Typed
  <1> QED
    BY <1>1, EventWorkType, ServiceWorkType DEF WorkLeft

\* An order sets 25 steps in motion at most, and every step that is not a fault
\* takes one or more from what is left of one order: however many orders and
\* couriers there are, no chain of events goes on for ever.
THEOREM OrdersComeToAnEnd == Spec => OrdersRunOut
  <1>1. IInv /\ RidersFinite /\ [Next]_vars => RidersFinite'
    BY RidersStayFinite
  <1>2. Init => RidersFinite
    BY AllAtStart
  <1>3. Spec => []RidersFinite
    BY <1>1, <1>2, Inductive, PTL DEF Spec
  <1>4. Init => \A o \in Orders : WorkLeft(o) = 25
    BY AllAtStart
  <1>5. IInv /\ RidersFinite /\ CourierCarriesOneOrder /\ [Next]_vars =>
          [errors' = errors /\ crashes' = crashes =>
              \E o \in Orders :
                 /\ WorkLeft(o)' < WorkLeft(o)
                 /\ \A p \in Orders \ {o} : WorkLeft(p)' = WorkLeft(p)]_vars
    BY StepTakes
  <1> QED
    BY <1>3, <1>4, <1>5, WorkLeftType, Inductive, OneOrderPerCourier, PTL DEF Spec, OrdersRunOut
=============================================================================
