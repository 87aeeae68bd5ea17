--------------------------- MODULE PaymentService ---------------------------
(***************************************************************************)
(* payment-svc: charges an order when it is created and refunds it on      *)
(* request.  The payments table has one row per order (order_id UNIQUE).   *)
(* src/services/payment/internal/consumer/consumer.go,                     *)
(* src/services/payment/internal/repository/repository.go.                 *)
(***************************************************************************)
EXTENDS EventBus

VARIABLE payments   \* order -> status of its payments row, "NONE" without one

\* Mutant: nobody looks for an earlier payment.
NeverExists(o)   == FALSE
PaymentExists(o) == payments[o] # "NONE"
CanRefund(o)     == payments[o] = "SUCCESS"

\* Mutant: without the constraint the later row wins.
Overwritten(o, s) == payments' = [payments EXCEPT ![o] = s]

\* INSERT INTO payments: a second row for the order violates the constraint.
Inserted(o, s) ==
    payments' = [payments EXCEPT ![o] = IF @ = "NONE" THEN s ELSE @]

\* Mutant: the condition of the UPDATE matches no row and nobody counts them.
MarkedNothing(o) == UNCHANGED payments

\* UPDATE payments SET status = REFUNDED WHERE status = SUCCESS.
MarkedRefunded(o) ==
    payments' = [payments EXCEPT ![o] = IF @ = "SUCCESS" THEN "REFUNDED" ELSE @]

-----------------------------------------------------------------------------
(***************************************************************************)
(* HandleOrderCreated.  Any error of the first read is taken for "no       *)
(* payment yet", and the result of the insert is ignored when the bank     *)
(* declines.                                                               *)
(***************************************************************************)
FindPayment(c, o) ==
    /\ HasMessage(c)
    /\ \/ PaymentExists(o) /\ Finish(c) /\ NoError
       \/ ~PaymentExists(o) /\ Goto(c, "charge") /\ NoError
       \/ Goto(c, "charge") /\ OneError
    /\ UNCHANGED <<log, payments>>

\* Mutant: a declined payment is announced by the wrong producer.
DeclineAsProcessed(c, o) ==
    /\ Inserted(o, "FAILED") /\ NoError
    /\ Goto(c, "publishProcessed")
    /\ UNCHANGED log

Decline(c, o) ==
    /\ \/ Inserted(o, "FAILED") /\ NoError
       \/ UNCHANGED payments /\ OneError
    /\ Goto(c, "publishFailed")
    /\ UNCHANGED log

Approve(c, o) ==
    /\ \/ payments[o] = "NONE" /\ Inserted(o, "SUCCESS") /\ Returns(c, "publishProcessed")
       \/ payments[o] # "NONE" /\ UNCHANGED payments /\ Finish(c) /\ NoError
       \/ UNCHANGED payments /\ Fails(c)
    /\ UNCHANGED log

HandleOrderCreated ==
    LET c == "payment-svc"
        o == OrderOf(c)
    IN  /\ \/ FindPayment(c, o)
           \/ pc[c] = "charge" /\ (Decline(c, o) \/ Approve(c, o))
           \/ /\ pc[c] = "publishFailed"
              /\ Emit(c, "payment.failed", [order |-> o], "idle", "idle")
              /\ UNCHANGED payments
           \/ /\ pc[c] = "publishProcessed"
              /\ Emit(c, "payment.processed", [order |-> o], "idle", "idle")
              /\ UNCHANGED payments
        /\ UNCHANGED <<committed, stopped, crashes>>

\* A refund for an order without a successful payment is skipped, and so is
\* one whose read fails.
HandleRefundRequested ==
    LET c == "payment-svc-refund"
        o == OrderOf(c)
    IN  /\ \/ Receive(c, ~CanRefund(o), "markRefunded") /\ UNCHANGED payments
           \/ /\ pc[c] = "markRefunded"
              /\ \/ MarkedRefunded(o) /\ Returns(c, "publishRefunded")
                 \/ UNCHANGED payments /\ Fails(c)
              /\ UNCHANGED log
           \/ /\ pc[c] = "publishRefunded"
              /\ Emit(c, "payment.refunded", [order |-> o], "idle", "idle")
              /\ UNCHANGED payments
        /\ UNCHANGED <<committed, stopped, crashes>>

PaymentRestart == Restart(PaymentGroups) /\ UNCHANGED payments

-----------------------------------------------------------------------------
PaymentInit == payments = [o \in Orders |-> "NONE"]

PaymentNext == HandleOrderCreated \/ HandleRefundRequested \/ PaymentRestart

PaymentTypeOK == payments \in [Orders -> {"NONE", "SUCCESS", "FAILED", "REFUNDED"}]
=============================================================================
