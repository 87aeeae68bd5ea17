------------------------------ MODULE OrderPage -----------------------------
(***************************************************************************)
(* The page of one order: it fetches the order once, then every three      *)
(* seconds until a status that it takes for terminal.  Fetches overlap,    *)
(* and each is two reads by the gateway, of order-svc and of payment-svc.  *)
(* src/frontend/src/app/orders/[id]/page.tsx,                              *)
(* src/services/gateway/internal/handler/handler.go.                       *)
(*                                                                         *)
(* Its environment is the saga, known only by its lifecycle.               *)
(***************************************************************************)
EXTENDS Naturals, FiniteSets

CONSTANTS
    Watched,        \* the order of the page
    Fetches,        \* bound: fetches that may be under way at a time
    Nothing,        \* no order is shown
    MaxFaults       \* bound: failing reads and lost answers

ASSUME PageBounds == MaxFaults \in Nat

VARIABLES
    status, payment,   \* the databases of order-svc and payment-svc
    fetch,             \* fetch -> its step and what it has read
    order,             \* the state order of the page: Nothing, or what is shown
    page,              \* its states isLoading and error
    faults

pageVars == <<status, payment, fetch, order, page, faults>>

Saga == INSTANCE OrderLifecycle WITH Orders <- {Watched}

Statuses == {"PENDING", "PAID", "DELIVERING", "DELIVERED", "CANCELLED", "REFUNDED"}
Payments == {"SUCCESS", "FAILED", "REFUNDED", "NONE"}

\* What an answer says of the payment.  There is nothing in it both when there is
\* no payment, NONE, and when it could not be read, UNREAD.
Told == Payments \cup {"UNREAD"}

Reading(at, s, p) == [at |-> at, status |-> s, payment |-> p]
Free  == Reading("free", "NONE", "NONE")
Begun == Reading("order", "NONE", "NONE")

\* A call on the way fails.
Fault == faults < MaxFaults /\ faults' = faults + 1

-----------------------------------------------------------------------------
\* Mutant: the page takes DELIVERING for the end.
TerminalTooEarly == {"DELIVERING", "DELIVERED", "CANCELLED"}

TERMINAL_STATUSES == {"DELIVERED", "CANCELLED"}

\* The effect on order keeps an interval unless the status shown is terminal.
Polling == order # Nothing /\ order.status \notin TERMINAL_STATUSES

Begin(f) == fetch[f] = Free /\ fetch' = [fetch EXCEPT ![f] = Begun]

\* The interval fires, whether or not earlier fetches have been answered.
Tick ==
    /\ Polling
    /\ \E f \in Fetches : Begin(f)
    /\ UNCHANGED <<status, payment, order, page, faults>>

-----------------------------------------------------------------------------
\* Mutant: the error of the first read is ignored.
ReadAnyway(f) ==
    /\ fetch[f].at = "order"
    /\ \/ /\ fetch' = [fetch EXCEPT ![f] = Reading("payment", status[Watched], "NONE")]
          /\ UNCHANGED faults
       \/ fetch' = [fetch EXCEPT ![f].at = "payment"] /\ Fault
    /\ UNCHANGED <<status, payment, order, page>>

\* getOrderWithDetails reads the order ...
ReadOrder(f) ==
    /\ fetch[f].at = "order"
    /\ \/ /\ fetch' = [fetch EXCEPT ![f] = Reading("payment", status[Watched], "NONE")]
          /\ UNCHANGED faults
       \/ fetch' = [fetch EXCEPT ![f].at = "error"] /\ Fault
    /\ UNCHANGED <<status, payment, order, page>>

\* Mutant: ... and the payment before it.
PaymentFirst(f) ==
    \/ /\ fetch[f].at = "order"
       /\ fetch' = [fetch EXCEPT ![f] = Reading("payment", "NONE", payment[Watched])]
       /\ UNCHANGED <<status, payment, order, page, faults>>
    \/ /\ fetch[f].at = "payment"
       /\ fetch' = [fetch EXCEPT ![f] = Reading("answer", status[Watched], @.payment)]
       /\ UNCHANGED <<status, payment, order, page, faults>>

\* ... and then the payment, which is left out when it cannot be read.
ReadPayment(f) ==
    /\ fetch[f].at = "payment"
    /\ \/ /\ fetch' = [fetch EXCEPT ![f] = Reading("answer", @.status, payment[Watched])]
          /\ UNCHANGED faults
       \/ /\ fetch' = [fetch EXCEPT ![f] = Reading("answer", @.status, "UNREAD")]
          /\ Fault
    /\ UNCHANGED <<status, payment, order, page>>

GetOrderWithDetails(f) == ReadOrder(f) \/ ReadPayment(f)

-----------------------------------------------------------------------------
\* api.getOrder resolves: setOrder, setError(null), and finally.
Answered(f) ==
    /\ fetch[f].at = "answer"
    /\ order' = [status |-> fetch[f].status, payment |-> fetch[f].payment]
    /\ page' = [loading |-> FALSE, error |-> FALSE]
    /\ fetch' = [fetch EXCEPT ![f] = Free]
    /\ UNCHANGED <<status, payment, faults>>

\* Mutant: the spinner only goes with an answer.
StillLoading == [page EXCEPT !.error = TRUE]
AfterError   == [loading |-> FALSE, error |-> TRUE]

\* It rejects; the order stays in the state, though the page shows the error.
Rejected(f) ==
    /\ \/ fetch[f].at = "error" /\ UNCHANGED faults
       \/ fetch[f].at = "answer" /\ Fault
    /\ page' = AfterError
    /\ fetch' = [fetch EXCEPT ![f] = Free]
    /\ UNCHANGED <<status, payment, order>>

-----------------------------------------------------------------------------
\* The order exists and the page is mounted: one fetch is on its way.
Init ==
    /\ status = [o \in {Watched} |-> "PENDING"]
    /\ payment = [o \in {Watched} |-> "NONE"]
    /\ fetch \in {[g \in Fetches |-> IF g = f THEN Begun ELSE Free] : f \in Fetches}
    /\ order = Nothing
    /\ page = [loading |-> TRUE, error |-> FALSE]
    /\ faults = 0

Next ==
    \/ Saga!LifeNext /\ UNCHANGED <<fetch, order, page, faults>>
    \/ Tick
    \/ \E f \in Fetches : GetOrderWithDetails(f) \/ Answered(f) \/ Rejected(f)

Spec == Init /\ [][Next]_pageVars

\* The interval fires and a fetch is answered in the end; the saga need not move.
FairSpec ==
    /\ Spec
    /\ WF_pageVars(Tick)
    /\ \A f \in Fetches :
          WF_pageVars(GetOrderWithDetails(f) \/ Answered(f) \/ Rejected(f))

-----------------------------------------------------------------------------
\* Variables have their types.
PageTypeOK ==
    /\ fetch \in [Fetches -> [at : {"free", "order", "payment", "answer", "error"},
                              status : Statuses \cup {"NONE"}, payment : Told]]
    /\ order = Nothing \/ order \in [status : Statuses, payment : Told]
    /\ page \in [loading : BOOLEAN, error : BOOLEAN]
    /\ faults \in 0..MaxFaults

\* An order is never shown further than a payment that was read for the same
\* answer: the two are read at different times, but the payment later, however
\* fetches overlap and whichever others fail.  Only an answer whose own read of
\* the payment failed shows a paid order without one: the gateway drops the
\* error, and the page cannot tell it from an order that has not been charged.
PaymentNotBehind ==
    order # Nothing /\ order.payment # "UNREAD" =>
        /\ order.status \in {"PAID", "DELIVERING", "DELIVERED"} => order.payment \in {"SUCCESS", "REFUNDED"}
        /\ order.status = "REFUNDED" => order.payment = "REFUNDED"

\* The spinner goes, whatever fails.
SpinnerEnds == <>[]~page.loading

\* If order o keeps status s for good, the page ends up showing it for good.
Shows(s) ==
    <>[](status[Watched] = s) =>
        <>[](~page.error /\ order # Nothing /\ order.status = s)

\* The page ends up showing that the order was delivered, although answers
\* overtake each other: an old one that comes late starts the polling again.
\* Only without faults: a rejection that comes after the last answer stays.
DeliveryIsShown == [](status[Watched] # "CANCELLED" /\ faults = 0) => Shows("DELIVERED")

\* MD/Architecture.md:368 and :374: an order goes from CANCELLED to REFUNDED, and
\* the frontend asks for it every three seconds.
RefundIsShown == Shows("REFUNDED")
=============================================================================
