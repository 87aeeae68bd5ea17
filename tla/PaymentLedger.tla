--------------------------- MODULE PaymentLedger ----------------------------
(***************************************************************************)
(* What payment-svc promises the rest of the platform: an order is charged *)
(* or declined once, a charge is given back at most once, and an event is  *)
(* told about an order only while it is true of the order's account.       *)
(* OrderSaga implements it as long as no database or broker call fails.    *)
(***************************************************************************)
CONSTANT Orders

VARIABLES
    account,      \* order -> the money side of it
    told          \* the events <<topic, order>> that have been announced

ledgerVars == <<account, told>>

Events == {"payment.processed", "payment.failed", "payment.refunded"}

\* What an announced event says of the account.
IsTrue(event, o) ==
    \/ event = "payment.processed" /\ account[o] \in {"charged", "refunded"}
    \/ event = "payment.failed"    /\ account[o] = "declined"
    \/ event = "payment.refunded"  /\ account[o] = "refunded"

-----------------------------------------------------------------------------
Settle(o) ==
    /\ account[o] = "unpaid"
    /\ \E s \in {"charged", "declined"} : account' = [account EXCEPT ![o] = s]
    /\ UNCHANGED told

GiveBack(o) ==
    /\ account[o] = "charged"
    /\ account' = [account EXCEPT ![o] = "refunded"]
    /\ UNCHANGED told

Tell(event, o) ==
    /\ IsTrue(event, o)
    /\ told' = told \cup {<<event, o>>}
    /\ UNCHANGED account

-----------------------------------------------------------------------------
LedgerInit ==
    /\ account = [o \in Orders |-> "unpaid"]
    /\ told = {}

LedgerNext ==
    \E o \in Orders : Settle(o) \/ GiveBack(o) \/ \E e \in Events : Tell(e, o)

LedgerSpec == LedgerInit /\ [][LedgerNext]_ledgerVars
=============================================================================
