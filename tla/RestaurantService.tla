------------------------- MODULE RestaurantService --------------------------
(***************************************************************************)
(* restaurant-svc, the kitchen: a paid order is either refused or handed   *)
(* to a goroutine that sleeps for the cooking time and then publishes      *)
(* order.ready.  Nothing is stored: the handler does not know whether the  *)
(* order was cooked before, and a goroutine does not survive its process.  *)
(* src/services/restaurant/internal/consumer/consumer.go.                  *)
(***************************************************************************)
EXTENDS EventBus

VARIABLE cooking    \* order -> goroutines that are cooking it

\* Mutant: a refused order is cooked all the same (a missing return).
CookAnyway ==
    LET c == "restaurant-svc"
        o == OrderOf(c)
    IN  /\ \/ /\ HasMessage(c)
              /\ cooking' = [cooking EXCEPT ![o] = @ + 1]
              /\ Finish(c) \/ Goto(c, "publishFailed")
              /\ UNCHANGED <<log, errors>>
           \/ /\ pc[c] = "publishFailed"
              /\ Emit(c, "order.preparation.failed", [order |-> o], "idle", "idle")
              /\ UNCHANGED cooking
        /\ UNCHANGED <<committed, stopped, crashes>>

\* Unknown or closed restaurant, failed read, or an overloaded kitchen: which
\* one is in the reason of the event only.
HandleOrderPaid ==
    LET c == "restaurant-svc"
        o == OrderOf(c)
    IN  /\ \/ /\ HasMessage(c)
              /\ \/ Finish(c) /\ cooking' = [cooking EXCEPT ![o] = @ + 1]
                 \/ Goto(c, "publishFailed") /\ UNCHANGED cooking
              /\ UNCHANGED <<log, errors>>
           \/ /\ pc[c] = "publishFailed"
              /\ Emit(c, "order.preparation.failed", [order |-> o], "idle", "idle")
              /\ UNCHANGED cooking
        /\ UNCHANGED <<committed, stopped, crashes>>

\* The goroutine wakes up; an error of its publish is only logged.
DishReady(o) ==
    /\ cooking[o] > 0
    /\ EmitAndForget("order.ready", [order |-> o],
                     cooking' = [cooking EXCEPT ![o] = @ - 1], UNCHANGED cooking)
    /\ UNCHANGED <<pos, committed, stopped, pc, crashes>>

RestaurantRestart ==
    /\ Restart(RestaurantGroups)
    /\ cooking' = [o \in Orders |-> 0]

-----------------------------------------------------------------------------
RestaurantInit == cooking = [o \in Orders |-> 0]

RestaurantNext ==
    \/ HandleOrderPaid
    \/ \E o \in Orders : DishReady(o)
    \/ RestaurantRestart

RestaurantTypeOK == cooking \in [Orders -> Nat]
=============================================================================
