------------------------------ MODULE EventBus ------------------------------
(***************************************************************************)
(* The Kafka bus every service publishes to and consumes from:             *)
(* src/pkg/kafka/kafka.go and the topics of src/pkg/events/events.go.      *)
(*                                                                         *)
(* A topic has one partition (src/deploy/kafka-init.sh), so it is an       *)
(* append-only sequence of messages.  A consumer group is one goroutine in *)
(* Consumer.Run: it fetches the message at its position, runs the handler, *)
(* and commits whatever the handler returned, so that a handler that fails *)
(* loses its message.  CommitMessages only hands the offset to a ticker    *)
(* (CommitInterval: time.Second): a process that dies restarts from any    *)
(* offset between the last one known to be stored and its position, and    *)
(* handles again what lies in between.  An error of FetchMessage or of     *)
(* CommitMessages itself ends the goroutine for the life of the process.   *)
(*                                                                         *)
(* pc[c] is the step of the handler that consumer c is in.  Each database  *)
(* call and each publish of a handler is a step, because every one of them *)
(* may be the last before a crash and may be interleaved with the steps of *)
(* the other consumers of the same process, which share its database.      *)
(***************************************************************************)
EXTENDS Naturals, Sequences

CONSTANTS
    Orders,       \* the order ids customers will create
    Couriers,     \* the couriers of the delivery service
    NoCourier,    \* stands for a courier id that is not set
    MaxCrashes,   \* how many process restarts a behaviour may have
    MaxErrors     \* how many database or broker calls may fail in it

ASSUME CourierAssumption == NoCourier \notin Couriers
ASSUME BoundsAssumption == MaxCrashes \in Nat /\ MaxErrors \in Nat

VARIABLES
    log,          \* topic -> the messages ever written to it
    pos,          \* consumer -> messages it has finished handling
    committed,    \* consumer -> offset known to be stored by its group
    stopped,      \* the consumers whose goroutine has returned from Run
    pc,           \* consumer -> step of the handler it is running
    crashes,      \* restarts so far
    errors        \* failed calls so far

busVars == <<log, pos, committed, stopped, pc, crashes, errors>>

-----------------------------------------------------------------------------
(***************************************************************************)
(* Topics and the consumer groups subscribed to them.                      *)
(***************************************************************************)
OrderGroups == {"order-svc-payment", "order-svc-payment-failed",
                "order-svc-prep-failed", "order-svc-delivery-failed",
                "order-svc-refunded", "order-svc-courier", "order-svc-delivered"}
PaymentGroups    == {"payment-svc", "payment-svc-refund"}
RestaurantGroups == {"restaurant-svc"}
DeliveryGroups   == {"delivery-svc"}

Consumers == OrderGroups \cup PaymentGroups \cup RestaurantGroups \cup DeliveryGroups

TopicOf(c) ==
    CASE c = "order-svc-payment"         -> "payment.processed"
      [] c = "order-svc-payment-failed"  -> "payment.failed"
      [] c = "order-svc-prep-failed"     -> "order.preparation.failed"
      [] c = "order-svc-delivery-failed" -> "delivery.failed"
      [] c = "order-svc-refunded"        -> "payment.refunded"
      [] c = "order-svc-courier"         -> "courier.assigned"
      [] c = "order-svc-delivered"       -> "order.delivered"
      [] c = "payment-svc"               -> "order.created"
      [] c = "payment-svc-refund"        -> "payment.refund.requested"
      [] c = "restaurant-svc"            -> "order.paid"
      [] c = "delivery-svc"              -> "order.ready"

Topics == {"order.created", "payment.processed", "payment.failed",
           "payment.refund.requested", "payment.refunded", "order.paid",
           "order.preparation.failed", "order.ready", "delivery.failed",
           "courier.assigned", "order.delivered", "order.cancelled",
           "order.status.changed"}

Statuses == {"NONE", "PENDING", "PAID", "DELIVERING", "DELIVERED",
             "CANCELLED", "REFUNDED"}

\* A payload is abstracted to the order it is about and the one other field
\* that a consumer or a property reads.
Payload(t) ==
    CASE t = "courier.assigned"     -> [order : Orders, courier : Couriers]
      [] t = "order.cancelled"      -> [order : Orders, refundRequired : BOOLEAN]
      [] t = "order.status.changed" -> [order : Orders, status : Statuses]
      [] OTHER                      -> [order : Orders]

Message == UNION {Payload(t) : t \in Topics}

\* Some message about order o has been written to topic t.
Published(t, o) == \E i \in 1..Len(log[t]) : log[t][i].order = o

-----------------------------------------------------------------------------
(***************************************************************************)
(* What a handler is made of.  A call either succeeds, or it returns an    *)
(* error without or after having taken effect (a broken connection, a      *)
(* timeout, an acknowledgement that never came).                           *)
(***************************************************************************)
HasMessage(c) == pc[c] = "idle" /\ c \notin stopped /\ pos[c] < Len(log[TopicOf(c)])
Current(c)    == log[TopicOf(c)][pos[c] + 1]
OrderOf(c)    == Current(c).order

NoError  == UNCHANGED errors
OneError == errors < MaxErrors /\ errors' = errors + 1

\* Move on to another step of the handler, or return from it: Run commits.
Goto(c, step) == pc' = [pc EXCEPT ![c] = step] /\ UNCHANGED pos
Finish(c)     == pc' = [pc EXCEPT ![c] = "idle"] /\ pos' = [pos EXCEPT ![c] = @ + 1]
Stay          == UNCHANGED <<pc, pos>>

\* Continue after a call: the last call of a handler returns from it.
Continue(c, step) == IF step = "idle" THEN Finish(c) ELSE Goto(c, step)

Fails(c)         == Finish(c) /\ OneError
Returns(c, step) == (Continue(c, step) /\ NoError) \/ Fails(c)

\* Fetch the next message and decide, on a first read of the database, to
\* ignore it or to go on; a handler whose read fails returns the error.
Receive(c, ignored, step) ==
    /\ HasMessage(c)
    /\ \/ ignored /\ Finish(c) /\ NoError
       \/ ~ignored /\ Goto(c, step) /\ NoError
       \/ Fails(c)
    /\ UNCHANGED log

\* FetchMessage fails for the next message, or CommitMessages for the one that
\* has just been handled: Run returns the error, which its goroutine only logs,
\* and nobody consumes the topic for this group until the process is restarted.
RunReturns(c) ==
    /\ pc[c] = "idle" /\ c \notin stopped
    /\ stopped' = stopped \cup {c}
    /\ OneError
    /\ UNCHANGED <<log, pos, committed, pc, crashes>>

Write(t, m) == log' = [log EXCEPT ![t] = Append(@, m)]

\* The outcomes of Publish in consumer c.  The writer retries on its own
\* when the acknowledgement is lost, so that the message is written again.
Emit(c, t, m, step, onError) ==
    \/ Write(t, m) /\ Continue(c, step) /\ NoError
    \/ Write(t, m) /\ Stay /\ OneError
    \/ Write(t, m) /\ Continue(c, onError) /\ OneError
    \/ UNCHANGED log /\ Continue(c, onError) /\ OneError

\* The outcomes of a Publish whose error the caller drops or only logs.
EmitAndForget(t, m, done, again) ==
    \/ Write(t, m) /\ done /\ NoError
    \/ Write(t, m) /\ again /\ OneError
    \/ UNCHANGED log /\ done /\ OneError

\* Mutant: an offset is stored before its message has been handled.
EagerOffsets(groups) ==
    {f \in [groups -> UNION {committed[c]..(pos[c] + 1) : c \in groups}] :
        \A c \in groups : f[c] \in committed[c]..(pos[c] + 1)}

\* The offsets the process may find when it comes back.
StoredOffsets(groups) ==
    {f \in [groups -> UNION {committed[c]..pos[c] : c \in groups}] :
        \A c \in groups : f[c] \in committed[c]..pos[c]}

\* The process that runs these consumer groups dies and is started again.
Restart(groups) ==
    /\ crashes < MaxCrashes
    /\ crashes' = crashes + 1
    /\ pc' = [c \in Consumers |-> IF c \in groups THEN "idle" ELSE pc[c]]
    /\ \E f \in StoredOffsets(groups) :
          /\ pos' = [c \in Consumers |-> IF c \in groups THEN f[c] ELSE pos[c]]
          /\ committed' = [c \in Consumers |-> IF c \in groups THEN f[c] ELSE committed[c]]
    /\ stopped' = stopped \ groups
    /\ UNCHANGED <<log, errors>>

-----------------------------------------------------------------------------
Steps == {"idle", "update", "publish", "announce", "recheck", "cancel",
          "announceCancel", "publishCancelled", "requestRefund",
          "charge", "markRefunded", "publishFailed", "publishProcessed",
          "publishRefunded", "setBusy", "publishAssigned", "release"}

BusInit ==
    /\ log = [t \in Topics |-> <<>>]
    /\ pos = [c \in Consumers |-> 0]
    /\ committed = [c \in Consumers |-> 0]
    /\ stopped = {}
    /\ pc = [c \in Consumers |-> "idle"]
    /\ crashes = 0
    /\ errors = 0

BusTypeOK ==
    /\ log \in [Topics -> Seq(Message)]
    /\ \A t \in Topics : log[t] \in Seq(Payload(t))
    /\ pos \in [Consumers -> Nat]
    /\ committed \in [Consumers -> Nat]
    /\ pc \in [Consumers -> Steps]
    /\ crashes \in 0..MaxCrashes
    /\ errors \in 0..MaxErrors
=============================================================================
