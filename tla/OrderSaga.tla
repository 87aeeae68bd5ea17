----------------------------- MODULE OrderSaga ------------------------------
(***************************************************************************)
(* The order saga: order-svc, payment-svc, restaurant-svc and delivery-svc *)
(* composed over the bus.  Nobody coordinates it (MD/Architecture.md, the  *)
(* choreography section): a service reacts to events with its own database *)
(* and tells the others what it did.                                       *)
(***************************************************************************)
EXTENDS OrderService, PaymentService, RestaurantService, DeliveryService, FiniteSets

vars == <<busVars, orderVars, payments, cooking, deliveryVars>>

-----------------------------------------------------------------------------
OrderSvc(A)      == A /\ UNCHANGED <<payments, cooking, deliveryVars>>
PaymentSvc(A)    == A /\ UNCHANGED <<orderVars, cooking, deliveryVars>>
RestaurantSvc(A) == A /\ UNCHANGED <<orderVars, payments, deliveryVars>>
DeliverySvc(A)   == A /\ UNCHANGED <<orderVars, payments, cooking>>

Init == BusInit /\ OrderInit /\ PaymentInit /\ RestaurantInit /\ DeliveryInit

\* Every order is created and nothing is left to do that anybody will do: what
\* is left waits for a consumer that has stopped.
Quiet ==
    /\ \A o \in Orders : status[o] # "NONE" /\ cooking[o] = 0 /\ arrived[o] = 0
    /\ \A k \in Couriers, o \in Orders : riding[k][o] = 0
    /\ creating = {}
    /\ \A c \in Consumers : pc[c] = "idle" /\ ~HasMessage(c)

\* A call to the broker ends a consumer, whichever service it belongs to.
ConsumerStops ==
    /\ \E c \in Consumers : RunReturns(c)
    /\ UNCHANGED <<orderVars, payments, cooking, deliveryVars>>

Next ==
    \/ OrderSvc(OrderNext)
    \/ PaymentSvc(PaymentNext)
    \/ RestaurantSvc(RestaurantNext)
    \/ DeliverySvc(DeliveryNext)
    \/ ConsumerStops
    \/ Quiet /\ UNCHANGED vars

Spec == Init /\ [][Next]_vars

(***************************************************************************)
(* Every consumer goroutine that has not ended, request handler, cook and  *)
(* ride goes on while its process lives.  Customers need not order and     *)
(* nothing has to fail.                                                    *)
(***************************************************************************)
Fairness ==
    /\ WF_vars(OrderSvc(HandlePaymentProcessed))
    /\ WF_vars(OrderSvc(HandlePaymentFailed))
    /\ WF_vars(OrderSvc(CancelWithRefund("order-svc-prep-failed")))
    /\ WF_vars(OrderSvc(CancelWithRefund("order-svc-delivery-failed")))
    /\ WF_vars(OrderSvc(HandlePaymentRefunded))
    /\ WF_vars(OrderSvc(HandleCourierAssigned))
    /\ WF_vars(OrderSvc(HandleOrderDelivered))
    /\ WF_vars(PaymentSvc(HandleOrderCreated))
    /\ WF_vars(PaymentSvc(HandleRefundRequested))
    /\ WF_vars(RestaurantSvc(HandleOrderPaid))
    /\ WF_vars(DeliverySvc(HandleOrderReady))
    /\ \A o \in Orders :
          /\ WF_vars(OrderSvc(PublishCreated(o)))
          /\ WF_vars(RestaurantSvc(DishReady(o)))
          /\ WF_vars(DeliverySvc(PublishDelivered(o)))
          /\ \A k \in Couriers : WF_vars(DeliverySvc(RideEnds(k, o)))

FairSpec == Spec /\ Fairness

-----------------------------------------------------------------------------
(***************************************************************************)
(* Safety, whatever crashes and whatever fails.                            *)
(***************************************************************************)
\* Every variable of the bus and of the four services has its type, offsets
\* stay within their topics, and a running handler has a message.
SagaTypeOK ==
    /\ BusTypeOK
    /\ OrderTypeOK
    /\ PaymentTypeOK
    /\ RestaurantTypeOK
    /\ DeliveryTypeOK
    /\ stopped \subseteq Consumers
    /\ \A c \in Consumers :
          /\ committed[c] <= pos[c] /\ pos[c] <= Len(log[TopicOf(c)])
          /\ pc[c] # "idle" => pos[c] < Len(log[TopicOf(c)])

\* The money of order o was taken, and perhaps given back since.
Paid(o) == payments[o] \in {"SUCCESS", "REFUNDED"}

\* Work is under way or done for order o.
Served(o) ==
    \/ status[o] \in {"PAID", "DELIVERING", "DELIVERED"}
    \/ cooking[o] > 0 \/ arrived[o] > 0
    \/ \E k \in Couriers : riding[k][o] > 0
    \/ \E t \in {"order.ready", "courier.assigned", "order.delivered"} : Published(t, o)

\* No restaurant cooks and no courier rides for an order that payment-svc did
\* not charge, across three services that never read each other's database.
ServedOnlyIfPaid == \A o \in Orders : Served(o) => Paid(o)

\* An order that its customer sees as REFUNDED had its money given back.
RefundedOnlyIfMoneyBack ==
    \A o \in Orders : status[o] = "REFUNDED" => payments[o] = "REFUNDED"

\* Money goes back only after the kitchen or the dispatcher gave the order up.
RefundHasCause ==
    \A o \in Orders : payments[o] = "REFUNDED" =>
        \E t \in {"order.preparation.failed", "delivery.failed"} : Published(t, o)

\* A courier carries at most one order at a time, and is BUSY while riding:
\* find-then-update is safe only because a single consumer takes couriers.
CourierCarriesOneOrder ==
    \A k \in Couriers, o \in Orders : riding[k][o] > 0 =>
        /\ riding[k][o] = 1
        /\ couriers[k] = "BUSY"
        /\ \A p \in Orders \ {o} : riding[k][p] = 0

\* An order whose payment was declined is never shown as anything later than
\* PENDING but CANCELLED, and nobody is told that money comes back for it.
DeclinedOnlyCancelled ==
    \A o \in Orders : payments[o] = "FAILED" =>
        /\ status[o] \in {"PENDING", "CANCELLED"}
        /\ ~Published("payment.refunded", o)

\* The customer of order o was served and charged, or neither in the end.
Settled(o) ==
    \/ payments[o] = "SUCCESS" /\ Published("order.delivered", o)
    \/ payments[o] = "FAILED" /\ status[o] = "CANCELLED"
    \/ payments[o] = "REFUNDED" /\ status[o] = "REFUNDED"

\* A message about order o is left behind by a consumer that has stopped.
HeldUp(o) ==
    \E c \in stopped : \E i \in (pos[c] + 1)..Len(log[TopicOf(c)]) :
        log[TopicOf(c)][i].order = o

\* A failing call either ends one consumer, and then every order with a message
\* in the queue behind it is held up, however many they are; or it harms one
\* order and keeps one courier at most, and its neighbours and the queue behind
\* it come through.  Nothing repairs the order it hits (MD/Architecture.md,
\* line 597).  So the orders that are not settled and not held up, and the
\* couriers that stay BUSY, are no more than the failed calls that ended no
\* consumer.  A system that never restarts: a restart loses rides as well.
DamageBounded ==
    Quiet =>
        /\ Cardinality({o \in Orders : ~Settled(o) /\ ~HeldUp(o)})
              + Cardinality(stopped) <= errors
        /\ Cardinality({k \in Couriers : couriers[k] = "BUSY"})
              + Cardinality(stopped) <= errors

Story == INSTANCE EventStory WITH
    told <- [o \in Orders |-> {t \in Topics : Published(t, o)}]

\* The saga implements the story: thirteen topics and eleven consumers, and no
\* event about an order comes before one that can have caused it.
TellsTheStory == Story!StorySpec

Life == INSTANCE OrderLifecycle WITH payment <- payments

\* The saga implements the life of an order and its payment as the customer may
\* see it, across the databases of order-svc and payment-svc.
FollowsLifecycle == Life!LifeSpec

-----------------------------------------------------------------------------
(***************************************************************************)
(* Safety as long as no call fails.                                        *)
(***************************************************************************)
Ledger == INSTANCE PaymentLedger WITH
    account <- [o \in Orders |->
                  CASE payments[o] = "NONE"     -> "unpaid"
                    [] payments[o] = "SUCCESS"  -> "charged"
                    [] payments[o] = "FAILED"   -> "declined"
                    [] payments[o] = "REFUNDED" -> "refunded"],
    told <- {e \in {"payment.processed", "payment.failed", "payment.refunded"} \X Orders :
                Published(e[1], e[2])}

\* payment-svc implements the ledger: its events are true of its table.
ImplementsLedger == Ledger!LedgerSpec

\* A cancellation in progress will still request the refund of order o.
RefundUnderWay(o) ==
    \E c \in CancelGroups : pc[c] # "idle" /\ OrderOf(c) = o /\ refund[c]

\* A charged order is cancelled only with its refund requested or about to be.
NoChargeKeptSilently ==
    \A o \in Orders : status[o] = "CANCELLED" /\ payments[o] = "SUCCESS" =>
        RefundUnderWay(o) \/ Published("payment.refund.requested", o)

\* No customer gets both the food and the money.
NeverBothServedAndRefunded ==
    \A o \in Orders :
        (\E k \in Couriers : riding[k][o] > 0) \/ arrived[o] > 0 \/ Published("order.delivered", o)
        => payments[o] = "SUCCESS" /\ ~Published("payment.refund.requested", o)

-----------------------------------------------------------------------------
(***************************************************************************)
(* How much an order may still set in motion.  The numbers count the steps *)
(* of all four services: a message costs the steps of its handler and what *)
(* the dearest of the messages costs that the handler may publish.         *)
(***************************************************************************)
MessageSteps(t) ==
    CASE t = "order.created"              -> 23
      [] t = "payment.processed"          -> 20
      [] t = "order.paid"                 -> 16
      [] t = "order.ready"                -> 14
      [] t \in {"payment.failed", "order.preparation.failed", "delivery.failed"} -> 12
      [] t = "payment.refund.requested"   -> 6
      [] t \in {"payment.refunded", "order.delivered"} -> 3
      [] t = "courier.assigned"           -> 2
      [] OTHER                            -> 0

\* A handler that is at this step.
HandlerSteps(c, step) ==
    CASE step \in {"update", "charge", "recheck", "markRefunded"} -> MessageSteps(TopicOf(c)) - 1
      [] step = "publishProcessed"        -> 21
      [] step = "publish"                 -> 18
      [] step = "publishFailed"           -> 13
      [] step = "cancel"                  -> 10
      [] step \in {"announceCancel", "setBusy"} -> 9
      [] step \in {"publishCancelled", "publishAssigned"} -> 8
      [] step = "requestRefund"           -> 7
      [] step = "publishRefunded"         -> 4
      [] OTHER                            -> 1

\* The messages about order o that consumer c has not begun to handle.
Waiting(c, o) ==
    {i \in (pos[c] + 1)..Len(log[TopicOf(c)]) :
        log[TopicOf(c)][i].order = o /\ (pc[c] # "idle" => i > pos[c] + 1)}

ConsumerWork(c, o) ==
    Cardinality(Waiting(c, o)) * MessageSteps(TopicOf(c))
      + (IF pc[c] # "idle" /\ OrderOf(c) = o THEN HandlerSteps(c, pc[c]) ELSE 0)

EventWork(o) ==
    LET work(c) == ConsumerWork(c, o)
    IN  work("payment-svc") + work("payment-svc-refund")
          + work("restaurant-svc") + work("delivery-svc")
          + work("order-svc-payment") + work("order-svc-payment-failed")
          + work("order-svc-prep-failed") + work("order-svc-delivery-failed")
          + work("order-svc-refunded") + work("order-svc-courier")
          + work("order-svc-delivered")

Riders(o) == {k \in Couriers : riding[k][o] > 0}

\* The request and the goroutines that are still to come or to end.
ServiceWork(o) ==
    (IF status[o] = "NONE" THEN 25 ELSE 0) + (IF o \in creating THEN 24 ELSE 0)
      + 15 * cooking[o] + 5 * Cardinality(Riders(o)) + 4 * arrived[o]

WorkLeft(o) == ServiceWork(o) + EventWork(o)

\* No event sets off others without end: an order sets 25 steps in motion at
\* most, and a step that does not fail takes from what is left of one order and
\* leaves every other as it is.  What a fault made be done again runs out too.
OrdersRunOut ==
    /\ \A o \in Orders : WorkLeft(o) = 25
    /\ [](\A o \in Orders : WorkLeft(o) \in Nat)
    /\ [][errors' = errors /\ crashes' = crashes =>
            \E o \in Orders :
               /\ WorkLeft(o)' < WorkLeft(o)
               /\ \A p \in Orders \ {o} : WorkLeft(p)' = WorkLeft(p)]_vars

-----------------------------------------------------------------------------
(***************************************************************************)
(* Liveness without faults.                                                *)
(***************************************************************************)
\* An order that was placed does not stay PENDING or PAID for ever.
EveryOrderSettles == \A o \in Orders : status[o] = "PENDING" ~> IsTerminal(status[o])

\* A cancelled order whose customer was charged ends up REFUNDED.
RefundCompletes ==
    \A o \in Orders : status[o] = "CANCELLED" /\ payments[o] = "SUCCESS" ~>
        status[o] = "REFUNDED" /\ payments[o] = "REFUNDED"

\* A busy courier becomes available again.
CouriersComeBack == \A k \in Couriers : couriers[k] = "BUSY" ~> couriers[k] = "AVAILABLE"

-----------------------------------------------------------------------------
(***************************************************************************)
(* What MD/Architecture.md says of an order's life and of payments, and    *)
(* the code does not keep.                                                 *)
(***************************************************************************)
\* Line 443: repeated events are ignored in a terminal status; the diagram of
\* lines 361-371 lets an order leave one only from CANCELLED to REFUNDED.
TerminalIsKept ==
    [][\A o \in Orders : IsTerminal(status[o]) =>
        \/ status'[o] = status[o]
        \/ status[o] = "CANCELLED" /\ status'[o] = "REFUNDED"]_vars

\* Lines 305-309: payment.failed is published for a payment that failed.
FailedEventMeansNotCharged ==
    \A o \in Orders : Published("payment.failed", o) => payments[o] # "SUCCESS"
=============================================================================
