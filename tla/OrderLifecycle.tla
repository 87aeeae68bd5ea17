--------------------------- MODULE OrderLifecycle ---------------------------
(***************************************************************************)
(* What someone who can only read the order and its payment may see of     *)
(* them over time: an order goes on only when it is charged, is REFUNDED   *)
(* only when the money is back, and its payment only moves forward.  This  *)
(* is what is left of the diagram of MD/Architecture.md (361-371) whatever *)
(* crashes and fails; OrderSaga implements it.                             *)
(***************************************************************************)
CONSTANT Orders

VARIABLES status, payment      \* order -> its status, the status of its payment

lifeVars == <<status, payment>>

Charged(o) == payment[o] \in {"SUCCESS", "REFUNDED"}

\* PENDING is left only for PAID or CANCELLED and never comes back.  Later on the
\* diagram's order is not kept: repeated events and consumers that overtake each
\* other may write one of the later statuses over another.
Later == {"PAID", "DELIVERING", "DELIVERED", "CANCELLED", "REFUNDED"}

NextStatuses(o) ==
    CASE status[o] = "NONE"    -> {"PENDING"}
      [] status[o] = "PENDING" -> {"PAID", "CANCELLED"}
      [] status[o] \in Later   -> Later \ {status[o]}

Move(o) ==
    /\ \E s \in NextStatuses(o) :
          /\ s \in {"PAID", "DELIVERING", "DELIVERED"} => Charged(o)
          /\ s = "REFUNDED" => payment[o] = "REFUNDED"
          /\ status' = [status EXCEPT ![o] = s]
    /\ UNCHANGED payment

Pay(o) ==
    /\ status[o] # "NONE"
    /\ \/ payment[o] = "NONE" /\ payment' = [payment EXCEPT ![o] = "SUCCESS"]
       \/ payment[o] = "NONE" /\ payment' = [payment EXCEPT ![o] = "FAILED"]
       \/ payment[o] = "SUCCESS" /\ payment' = [payment EXCEPT ![o] = "REFUNDED"]
    /\ UNCHANGED status

LifeInit ==
    /\ status = [o \in Orders |-> "NONE"]
    /\ payment = [o \in Orders |-> "NONE"]

LifeNext == \E o \in Orders : Move(o) \/ Pay(o)

LifeSpec == LifeInit /\ [][LifeNext]_lifeVars
=============================================================================
