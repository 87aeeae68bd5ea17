-------------------------- MODULE DeliveryService ---------------------------
(***************************************************************************)
(* delivery-svc: takes an available courier for an order that is ready,    *)
(* announces the assignment and leaves the ride to a goroutine that        *)
(* releases the courier and publishes order.delivered when it is over.     *)
(* src/services/delivery/internal/consumer/consumer.go,                    *)
(* src/services/delivery/internal/repository/repository.go.                *)
(***************************************************************************)
EXTENDS EventBus

VARIABLES
    couriers,     \* couriers.status
    chosen,       \* the courier the running handler has found
    riding,       \* courier -> order -> rides that are under way
    arrived       \* order -> rides over whose order.delivered is not out

deliveryVars == <<couriers, chosen, riding, arrived>>

\* Mutant: the query for a courier lost its WHERE clause.
AnyCourier(k)  == k \in Couriers
IsAvailable(k) == couriers[k] = "AVAILABLE"

\* UPDATE couriers SET status, with an error or without.
SetCourierStatus(k, s) == couriers' = [couriers EXCEPT ![k] = s]

-----------------------------------------------------------------------------
(***************************************************************************)
(* HandleOrderReady.  A failed read counts as "no available courier".  The *)
(* courier is found and marked busy by two statements.                     *)
(***************************************************************************)
FindAvailableCourier(c) ==
    /\ HasMessage(c)
    /\ \/ \E k \in Couriers : IsAvailable(k) /\ chosen' = k /\ Goto(c, "setBusy") /\ NoError
       \/ /\ \A k \in Couriers : ~IsAvailable(k)
          /\ Goto(c, "publishFailed") /\ NoError /\ UNCHANGED chosen
       \/ Goto(c, "publishFailed") /\ OneError /\ UNCHANGED chosen
    /\ UNCHANGED <<log, couriers, riding>>

MarkBusy(c) ==
    /\ pc[c] = "setBusy"
    /\ \/ SetCourierStatus(chosen, "BUSY") /\ Returns(c, "publishAssigned")
       \/ UNCHANGED couriers /\ Fails(c)
    /\ chosen' = IF pc'[c] = "idle" THEN NoCourier ELSE chosen
    /\ UNCHANGED <<log, riding>>

\* Publish courier.assigned; go simulateDelivery(...) follows at once.
Assign(c, o) ==
    /\ pc[c] = "publishAssigned"
    /\ Emit(c, "courier.assigned", [order |-> o, courier |-> chosen], "idle", "release")
    /\ IF pc'[c] = "idle"
       THEN riding' = [riding EXCEPT ![chosen][o] = @ + 1] /\ chosen' = NoCourier
       ELSE UNCHANGED <<riding, chosen>>
    /\ UNCHANGED couriers

\* The assignment could not be published; the error of the UPDATE is ignored.
Unassign(c) ==
    /\ pc[c] = "release"
    /\ \/ SetCourierStatus(chosen, "AVAILABLE") /\ NoError
       \/ UNCHANGED couriers /\ OneError
    /\ Finish(c)
    /\ chosen' = NoCourier
    /\ UNCHANGED <<log, riding>>

HandleOrderReady ==
    LET c == "delivery-svc"
        o == OrderOf(c)
    IN  /\ \/ FindAvailableCourier(c)
           \/ /\ pc[c] = "publishFailed"
              /\ Emit(c, "delivery.failed", [order |-> o], "idle", "idle")
              /\ UNCHANGED <<couriers, chosen, riding>>
           \/ MarkBusy(c)
           \/ Assign(c, o)
           \/ Unassign(c)
        /\ UNCHANGED <<committed, stopped, crashes, arrived>>

-----------------------------------------------------------------------------
(***************************************************************************)
(* simulateDelivery: errors of both of its calls are only logged.          *)
(***************************************************************************)
\* Mutant: the courier is not released.
RideNeverReleases(k, o) ==
    /\ riding[k][o] > 0
    /\ riding' = [riding EXCEPT ![k][o] = @ - 1]
    /\ arrived' = [arrived EXCEPT ![o] = @ + 1]
    /\ UNCHANGED <<busVars, couriers, chosen>>

RideEnds(k, o) ==
    /\ riding[k][o] > 0
    /\ riding' = [riding EXCEPT ![k][o] = @ - 1]
    /\ arrived' = [arrived EXCEPT ![o] = @ + 1]
    /\ \/ SetCourierStatus(k, "AVAILABLE") /\ NoError
       \/ UNCHANGED couriers /\ OneError
    /\ UNCHANGED <<log, pos, committed, stopped, pc, crashes, chosen>>

PublishDelivered(o) ==
    /\ arrived[o] > 0
    /\ EmitAndForget("order.delivered", [order |-> o],
                     arrived' = [arrived EXCEPT ![o] = @ - 1], UNCHANGED arrived)
    /\ UNCHANGED <<pos, committed, stopped, pc, crashes, couriers, chosen, riding>>

\* The process dies: couriers keep their status, rides are forgotten.
DeliveryRestart ==
    /\ Restart(DeliveryGroups)
    /\ chosen' = NoCourier
    /\ riding' = [k \in Couriers |-> [o \in Orders |-> 0]]
    /\ arrived' = [o \in Orders |-> 0]
    /\ UNCHANGED couriers

-----------------------------------------------------------------------------
DeliveryInit ==
    /\ couriers = [k \in Couriers |-> "AVAILABLE"]
    /\ chosen = NoCourier
    /\ riding = [k \in Couriers |-> [o \in Orders |-> 0]]
    /\ arrived = [o \in Orders |-> 0]

DeliveryNext ==
    \/ HandleOrderReady
    \/ \E k \in Couriers, o \in Orders : RideEnds(k, o)
    \/ \E o \in Orders : PublishDelivered(o)
    \/ DeliveryRestart

DeliveryTypeOK ==
    /\ couriers \in [Couriers -> {"AVAILABLE", "BUSY"}]
    /\ chosen \in Couriers \cup {NoCourier}
    /\ riding \in [Couriers -> [Orders -> Nat]]
    /\ arrived \in [Orders -> Nat]
=============================================================================
