---------------------------- MODULE OrderService ----------------------------
(***************************************************************************)
(* order-svc: the owner of an order's status.  It creates orders on an     *)
(* HTTP request and moves their status in seven consumers, one goroutine   *)
(* each, that share the orders table and no lock.                          *)
(* src/services/order/internal/service/service.go,                         *)
(* src/services/order/internal/repository/repository.go,                   *)
(* src/services/order/cmd/main.go.                                         *)
(***************************************************************************)
EXTENDS EventBus

VARIABLES
    status,       \* orders.status, "NONE" while there is no row
    courierOf,    \* orders.courier_id
    creating,     \* orders whose CreateOrder has inserted and not published
    refund        \* refundRequired of the cancellation a consumer is running

orderVars == <<status, courierOf, creating, refund>>

CancelGroups == {"order-svc-payment-failed", "order-svc-prep-failed",
                 "order-svc-delivery-failed"}

-----------------------------------------------------------------------------
IsTerminal(s)     == s \in {"CANCELLED", "REFUNDED", "DELIVERED"}
\* Mutant: a paid order that no courier has yet gets no refund.
RefundOnlyDelivering(s) == s = "DELIVERING"
RefundRequired(s) == s \in {"PAID", "DELIVERING"}

\* Mutants: only a PENDING order is cancelled; a cancelled order ignores its
\* refund, as the other handlers ignore events in a terminal status.
CancelledUnlessPending(o) == status[o] # "PENDING"
RefundedIfTerminal(o)     == IsTerminal(status[o])

\* The events that each handler ignores, by the status it reads.
AlreadyPaid(o)      == IsTerminal(status[o]) \/ status[o] = "PAID"
AlreadyCancelled(o) == IsTerminal(status[o])
AlreadyRefunded(o)  == status[o] = "REFUNDED"
AlreadyAssigned(o)  == status[o] = "DELIVERING" \/ IsTerminal(status[o])
AlreadyDelivered(o) == status[o] = "DELIVERED"

\* UPDATE orders SET status, whatever the status is by now.
UpdateStatus(c, o, s, step) ==
    /\ \/ status' = [status EXCEPT ![o] = s] /\ Returns(c, step)
       \/ UNCHANGED status /\ Fails(c)
    /\ UNCHANGED log

PublishStatus(c, o, s, step) ==
    /\ Emit(c, "order.status.changed", [order |-> o, status |-> s], step, "idle")
    /\ UNCHANGED status

-----------------------------------------------------------------------------
(***************************************************************************)
(* POST /orders: the row is inserted, then order.created is published; a   *)
(* client that is told of an error leaves the row behind.                  *)
(***************************************************************************)
CreateOrder(o) ==
    /\ status[o] = "NONE"
    /\ status' = [status EXCEPT ![o] = "PENDING"]
    /\ \/ creating' = creating \cup {o} /\ NoError
       \/ UNCHANGED creating /\ OneError
    /\ UNCHANGED <<log, pos, committed, stopped, pc, crashes, courierOf, refund>>

PublishCreated(o) ==
    /\ o \in creating
    /\ EmitAndForget("order.created", [order |-> o],
                     creating' = creating \ {o}, UNCHANGED creating)
    /\ UNCHANGED <<pos, committed, stopped, pc, crashes, status, courierOf, refund>>

-----------------------------------------------------------------------------
HandlePaymentProcessed ==
    LET c == "order-svc-payment"
        o == OrderOf(c)
    IN  /\ \/ Receive(c, AlreadyPaid(o), "update") /\ UNCHANGED status
           \/ pc[c] = "update" /\ UpdateStatus(c, o, "PAID", "publish")
           \/ /\ pc[c] = "publish"
              /\ Emit(c, "order.paid", [order |-> o], "announce", "idle")
              /\ UNCHANGED status
           \/ pc[c] = "announce" /\ PublishStatus(c, o, "PAID", "idle")
        /\ UNCHANGED <<committed, stopped, crashes, courierOf, creating, refund>>

HandlePaymentRefunded ==
    LET c == "order-svc-refunded"
        o == OrderOf(c)
    IN  /\ \/ Receive(c, AlreadyRefunded(o), "update") /\ UNCHANGED status
           \/ pc[c] = "update" /\ UpdateStatus(c, o, "REFUNDED", "announce")
           \/ pc[c] = "announce" /\ PublishStatus(c, o, "REFUNDED", "idle")
        /\ UNCHANGED <<committed, stopped, crashes, courierOf, creating, refund>>

\* The courier and the status DELIVERING are written by one UPDATE.
AssignCourier(c, o, courier) ==
    /\ \/ /\ status' = [status EXCEPT ![o] = "DELIVERING"]
          /\ courierOf' = [courierOf EXCEPT ![o] = courier]
          /\ Returns(c, "idle")
       \/ UNCHANGED <<status, courierOf>> /\ Fails(c)
    /\ UNCHANGED log

HandleCourierAssigned ==
    LET c == "order-svc-courier"
        o == OrderOf(c)
    IN  /\ \/ Receive(c, AlreadyAssigned(o), "update") /\ UNCHANGED <<status, courierOf>>
           \/ pc[c] = "update" /\ AssignCourier(c, o, Current(c).courier)
        /\ UNCHANGED <<committed, stopped, crashes, creating, refund>>

HandleOrderDelivered ==
    LET c == "order-svc-delivered"
        o == OrderOf(c)
    IN  /\ \/ Receive(c, AlreadyDelivered(o), "update") /\ UNCHANGED status
           \/ pc[c] = "update" /\ UpdateStatus(c, o, "DELIVERED", "announce")
           \/ pc[c] = "announce" /\ PublishStatus(c, o, "DELIVERED", "idle")
        /\ UNCHANGED <<committed, stopped, crashes, courierOf, creating, refund>>

-----------------------------------------------------------------------------
(***************************************************************************)
(* Cancellation.  cancelWithRefund decides on a refund from a first read;  *)
(* cancelOrder reads the status again, and when that read finds a terminal *)
(* status it returns nil, so that the refund is requested all the same.    *)
(***************************************************************************)
AfterCancel(c) == IF refund[c] THEN "requestRefund" ELSE "idle"

\* Mutant: order.cancelled goes out on the topic of the refund requests.
CancelOnWrongTopic(c, o) ==
    \/ pc[c] = "cancel" /\ UpdateStatus(c, o, "CANCELLED", "announceCancel")
    \/ pc[c] = "announceCancel" /\ PublishStatus(c, o, "CANCELLED", "publishCancelled")
    \/ /\ pc[c] = "publishCancelled"
       /\ Emit(c, "payment.refund.requested", [order |-> o], AfterCancel(c), "idle")
       /\ UNCHANGED status

CancelOrder(c, o) ==
    \/ pc[c] = "cancel" /\ UpdateStatus(c, o, "CANCELLED", "announceCancel")
    \/ pc[c] = "announceCancel" /\ PublishStatus(c, o, "CANCELLED", "publishCancelled")
    \/ /\ pc[c] = "publishCancelled"
       /\ Emit(c, "order.cancelled", [order |-> o, refundRequired |-> refund[c]],
               AfterCancel(c), "idle")
       /\ UNCHANGED status

HandlePaymentFailed ==
    LET c == "order-svc-payment-failed"
        o == OrderOf(c)
    IN  /\ \/ Receive(c, AlreadyCancelled(o), "cancel") /\ UNCHANGED status
           \/ CancelOrder(c, o)
        /\ UNCHANGED <<committed, stopped, crashes, courierOf, creating, refund>>

\* HandlePreparationFailed and HandleDeliveryFailed.
CancelWithRefund(c) ==
    LET o == OrderOf(c)
    IN  /\ \/ /\ Receive(c, AlreadyCancelled(o), "recheck")
              /\ refund' = [refund EXCEPT ![c] = pc'[c] # "idle" /\ RefundRequired(status[o])]
              /\ UNCHANGED status
           \/ /\ \/ /\ pc[c] = "recheck"
                    /\ \/ AlreadyCancelled(o) /\ Continue(c, AfterCancel(c)) /\ NoError
                       \/ ~AlreadyCancelled(o) /\ Goto(c, "cancel") /\ NoError
                       \/ Fails(c)
                    /\ UNCHANGED <<log, status>>
                 \/ CancelOrder(c, o)
                 \/ /\ pc[c] = "requestRefund"
                    /\ Emit(c, "payment.refund.requested", [order |-> o], "idle", "idle")
                    /\ UNCHANGED status
              /\ refund' = [refund EXCEPT ![c] = @ /\ pc'[c] # "idle"]
        /\ UNCHANGED <<committed, stopped, crashes, courierOf, creating>>

-----------------------------------------------------------------------------
\* The process dies: requests and handlers in progress are forgotten.
OrderRestart ==
    /\ Restart(OrderGroups)
    /\ creating' = {}
    /\ refund' = [c \in CancelGroups |-> FALSE]
    /\ UNCHANGED <<status, courierOf>>

OrderInit ==
    /\ status = [o \in Orders |-> "NONE"]
    /\ courierOf = [o \in Orders |-> NoCourier]
    /\ creating = {}
    /\ refund = [c \in CancelGroups |-> FALSE]

OrderConsumes ==
    \/ HandlePaymentProcessed
    \/ HandlePaymentFailed
    \/ CancelWithRefund("order-svc-prep-failed")
    \/ CancelWithRefund("order-svc-delivery-failed")
    \/ HandlePaymentRefunded
    \/ HandleCourierAssigned
    \/ HandleOrderDelivered

OrderNext ==
    \/ \E o \in Orders : CreateOrder(o) \/ PublishCreated(o)
    \/ OrderConsumes
    \/ OrderRestart

OrderTypeOK ==
    /\ status \in [Orders -> Statuses]
    /\ courierOf \in [Orders -> Couriers \cup {NoCourier}]
    /\ creating \subseteq Orders
    /\ refund \in [CancelGroups -> BOOLEAN]
=============================================================================
