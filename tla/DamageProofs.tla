---------------------------- MODULE DamageProofs ----------------------------
(***************************************************************************)
(* What a failing call does to the saga.  As long as none fails,           *)
(* payment-svc implements its ledger, however often it restarts; as long   *)
(* as no process restarts, each failing call ends one consumer, or harms   *)
(* one order and keeps one courier at most, and every other order takes    *)
(* one way to its end, or to a consumer that has stopped.                  *)
(***************************************************************************)
EXTENDS LifecycleProofs, FiniteSetTheorems

-----------------------------------------------------------------------------
\* The consumer of order.created.
charger == "payment-svc"

\* No call fails when none may.
LEMMA NoCallFails == ASSUME MaxErrors = 0, BusTypeOK PROVE ~OneError
  BY DEF BusTypeOK, OneError

-----------------------------------------------------------------------------
(***************************************************************************)
(* payment-svc and its ledger.  The events of the ledger are true when     *)
(* they are told because the consumer knows what it has stored: with       *)
(* errors it may have stored nothing, or have taken an error of its first  *)
(* read for an order without a payment.                                    *)
(***************************************************************************)
SettlesTruly ==
    /\ pc[charger] = "charge" => payments[OrderOf(charger)] = "NONE"
    /\ pc[charger] = "publishFailed" => payments[OrderOf(charger)] = "FAILED"

\* What a step adds to the topics of payment-svc is true of its table, and no
\* step does both at once.
TellsTruly ==
    /\ \A o \in Orders : Published("payment.processed", o)' =>
          Published("payment.processed", o) \/ Paid(o)
    /\ \A o \in Orders : Published("payment.failed", o)' =>
          Published("payment.failed", o) \/ payments[o] = "FAILED"
    /\ \A o \in Orders : Published("payment.refunded", o)' =>
          Published("payment.refunded", o) \/ payments[o] = "REFUNDED"
    /\ UNCHANGED payments \/ UNCHANGED log

\* While the consumer stays, nobody else settles its payment.
LEMMA SettlesKept ==
    ASSUME BusOK, LogStep, StaysPut(charger), SettlesTruly,
           \A o \in Orders : payments[o] \in {"NONE", "FAILED"} => payments'[o] = payments[o]
    PROVE  SettlesTruly'
  <1>1. ASSUME pc[charger] # "idle"
        PROVE  OrderOf(charger) \in Orders /\ OrderOf(charger)' = OrderOf(charger)
    <2>1. charger \in Consumers
      BY DEF charger, Consumers, PaymentGroups
    <2> QED
      BY <1>1, <2>1, CurrentMessage, CurrentKept DEF StaysPut, BusOK, OffsetsOK
  <1> QED
    BY <1>1 DEF SettlesTruly, StaysPut

\* order.created: without errors the consumer goes on only for an order that has
\* no payment, and tells what it has stored.
LEMMA ChargerKeeps ==
    ASSUME MaxErrors = 0, IInv, SettlesTruly, HandleOrderCreated
    PROVE  /\ SettlesTruly'
           /\ \A o \in Orders : Published("payment.failed", o)' =>
                 Published("payment.failed", o) \/ payments[o] = "FAILED"
           /\ UNCHANGED payments \/ UNCHANGED log
  <1> DEFINE c == charger
             o == OrderOf(c)
  <1>0. /\ BusOK /\ PaymentTypeOK /\ c \in Consumers /\ pc \in [Consumers -> Steps]
        /\ BusEffect(c, {"payment.failed", "payment.processed"}) /\ ~OneError
    BY HandleOrderCreatedEffect, NoCallFails
       DEF IInv, Typed, BusOK, BusTypeOK, charger, Consumers, PaymentGroups
  <1>1. LogStep /\ o \in Orders /\ pos \in [Consumers -> Nat]
    BY <1>0 DEF BusEffect, HandlerStep, BusOK, BusTypeOK
  <1>2. CASE FindPayment(c, o)
    <2>1. pc'[c] = "charge" => pos' = pos /\ payments'[o] = "NONE"
      BY <1>0, <1>2 DEF FindPayment, Finish, Goto, PaymentExists
    <2>2. pc'[c] \in {"idle", "charge"} /\ UNCHANGED <<log, payments>>
      BY <1>0, <1>2 DEF FindPayment, Finish, Goto
    <2>3. pos' = pos => OrderOf(c)' = o
      BY <2>2 DEF OrderOf, Current
    <2> QED
      BY <2>1, <2>2, <2>3 DEF SettlesTruly, Published
  <1>3. CASE pc[c] = "charge" /\ (Decline(c, o) \/ Approve(c, o))
    <2>1. payments[o] = "NONE" /\ UNCHANGED log
      BY <1>3 DEF SettlesTruly, Decline, Approve
    <2>2. pc'[c] = "publishFailed" => pos' = pos /\ payments'[o] = "FAILED"
      BY <1>0, <1>1, <1>3, <2>1 DEF Decline, Approve, Inserted, PaymentTypeOK, Returns, Fails,
                                    Continue, Finish, Goto
    <2>3. pc'[c] # "charge"
      BY <1>0, <1>3 DEF Decline, Approve, Returns, Fails, Continue, Finish, Goto
    <2>4. pos' = pos => OrderOf(c)' = o
      BY <2>1 DEF OrderOf, Current
    <2> QED
      BY <2>1, <2>2, <2>3, <2>4 DEF SettlesTruly, Published
  <1>4. CASE /\ pc[c] = "publishFailed"
             /\ Emit(c, "payment.failed", [order |-> o], "idle", "idle")
             /\ UNCHANGED payments
    <2>1. payments[o] = "FAILED"
      BY <1>4 DEF SettlesTruly
    <2>2. pc'[c] = "idle"
      BY <1>0, <1>4 DEF Emit, Continue, Finish
    <2> QED
      BY <1>0, <1>4, <2>1, <2>2 DEF BusEffect, SettlesTruly, Topics
  <1>5. CASE /\ pc[c] = "publishProcessed"
             /\ Emit(c, "payment.processed", [order |-> o], "idle", "idle")
             /\ UNCHANGED payments
    <2>1. pc'[c] = "idle"
      BY <1>0, <1>5 DEF Emit, Continue, Finish
    <2>2. [order |-> o] \in Payload("payment.processed")
      BY <1>1, PayloadType DEF Topics
    <2>3. Write("payment.processed", [order |-> o])
      BY <1>0, <1>5 DEF Emit
    <2>4. \A p \in Orders : Published("payment.failed", p)' => Published("payment.failed", p)
      BY <1>0, <2>2, <2>3, WriteKeeps DEF Topics
    <2> QED
      BY <1>5, <2>1, <2>4 DEF SettlesTruly
  <1> QED
    BY <1>2, <1>3, <1>4, <1>5 DEF HandleOrderCreated, charger

\* The same for every step of payment-svc.
LEMMA PaymentTellsTruly ==
    ASSUME MaxErrors = 0, IInv, RefundsCharged, SettlesTruly, PaymentNext,
           StatusMoves, PaymentMoves
    PROVE  SettlesTruly' /\ TellsTruly
  <1>0. /\ BusOK /\ PaymentTypeOK /\ AnnouncesPaid
        /\ charger \in Consumers \ {refunder} /\ refunder \in Consumers
        /\ {"payment.processed", "payment.failed", "payment.refunded"} \subseteq Topics
    BY DEF IInv, Typed, charger, refunder, Consumers, PaymentGroups, Topics
  <1>1. \A o \in Orders : Published("payment.refunded", o)' =>
           Published("payment.refunded", o) \/ payments[o] = "REFUNDED"
    BY PaymentNews
  <1>2. CASE HandleOrderCreated
    BY <1>0, <1>1, <1>2, ChargerKeeps, HandleOrderCreatedEffect DEF TellsTruly
  <1>3. CASE HandleRefundRequested
    <2>1. BusEffect(refunder, {"payment.refunded"})
      BY <1>0, <1>3, HandleRefundRequestedEffect DEF refunder
    <2>2. LogStep /\ StaysPut(charger) /\ OrderOf(refunder) \in Orders
      BY <1>0, <2>1, OtherConsumerKept DEF BusEffect, HandlerStep, StaysPut
    <2>3. UNCHANGED payments \/ (MarkedRefunded(OrderOf(refunder)) /\ UNCHANGED log)
      BY <1>3 DEF HandleRefundRequested, refunder
    <2>4. \A o \in Orders : payments[o] \in {"NONE", "FAILED"} => payments'[o] = payments[o]
      BY <1>0, <2>2, <2>3 DEF MarkedRefunded, PaymentTypeOK
    <2>5. SettlesTruly'
      BY <1>0, <2>2, <2>4, SettlesKept
    <2> QED
      BY <1>0, <1>1, <2>1, <2>3, <2>5 DEF BusEffect, TellsTruly
  <1>4. CASE PaymentRestart
    BY <1>0, <1>4 DEF PaymentRestart, Restart, SettlesTruly, TellsTruly, Published, charger,
                      PaymentGroups
  <1> QED
    BY <1>2, <1>3, <1>4 DEF PaymentNext

\* And for every step of the saga: nobody else speaks of payments.
LEMMA NextTellsTruly ==
    ASSUME MaxErrors = 0, IInv, RefundsCharged, SettlesTruly, [Next]_vars
    PROVE  SettlesTruly' /\ TellsTruly
  <1>1. /\ BusOK /\ StatusMoves /\ PaymentMoves /\ charger \in PaymentGroups
        /\ PaymentSays \subseteq Topics
        /\ PaymentSays = {"payment.processed", "payment.failed", "payment.refunded"}
    BY NextMoves DEF IInv, Typed, charger, PaymentGroups, PaymentSays, Topics
  <1>2. /\ PaymentGroups # OrderGroups /\ PaymentGroups # RestaurantGroups
        /\ PaymentGroups # DeliveryGroups
    BY GroupsApart, <1>1
  <1>3. ASSUME LogStep, StaysPut(charger), UNCHANGED payments,
               \A t \in PaymentSays : Silent(t)
        PROVE  SettlesTruly' /\ TellsTruly
    BY <1>1, <1>3, SettlesKept DEF TellsTruly, Silent
  <1>4. CASE PaymentSvc(PaymentNext)
    BY <1>1, <1>4, PaymentTellsTruly DEF PaymentSvc
  <1>5. CASE OrderSvc(OrderNext)
    <2>1. LogStep /\ StaysPut(charger)
      BY <1>1, <1>2, <1>5, OrderServiceStep, OthersStep DEF OrderSvc
    <2>2. PaymentSays \cap OrderSays = {}
      BY DEF PaymentSays, OrderSays
    <2> QED
      BY <1>1, <1>3, <1>5, <2>1, <2>2, OrderSpeaks DEF OrderSvc, SpeaksOn
  <1>6. CASE RestaurantSvc(RestaurantNext)
    <2>1. LogStep /\ StaysPut(charger)
      BY <1>1, <1>2, <1>6, RestaurantServiceStep, OthersStep DEF RestaurantSvc
    <2>2. PaymentSays \cap RestaurantSays = {}
      BY DEF PaymentSays, RestaurantSays
    <2> QED
      BY <1>1, <1>3, <1>6, <2>1, <2>2, RestaurantSpeaks DEF RestaurantSvc, SpeaksOn
  <1>7. CASE DeliverySvc(DeliveryNext)
    <2>1. LogStep /\ StaysPut(charger)
      BY <1>1, <1>2, <1>7, DeliveryServiceStep, OthersStep DEF DeliverySvc
    <2>2. PaymentSays \cap DeliverySays = {}
      BY DEF PaymentSays, DeliverySays
    <2> QED
      BY <1>1, <1>3, <1>7, <2>1, <2>2, DeliverySpeaks DEF DeliverySvc, SpeaksOn
  <1>8. CASE StandStill
    BY <1>3, <1>8 DEF StandStill, LogStep, StaysPut, Silent, Published
  <1> QED
    BY <1>4, <1>5, <1>6, <1>7, <1>8, NextCases

-----------------------------------------------------------------------------
(***************************************************************************)
(* The refinement of the ledger.                                           *)
(***************************************************************************)
AccountFor(s) == CASE s = "NONE"     -> "unpaid"
                   [] s = "SUCCESS"  -> "charged"
                   [] s = "FAILED"   -> "declined"
                   [] s = "REFUNDED" -> "refunded"

Account == [o \in Orders |-> AccountFor(payments[o])]

Announced == {e \in {"payment.processed", "payment.failed", "payment.refunded"} \X Orders :
                Published(e[1], e[2])}

\* The account that stands for the status of a payment.
LEMMA AccountOf ==
    /\ AccountFor("NONE") = "unpaid"
    /\ AccountFor("SUCCESS") = "charged"
    /\ AccountFor("FAILED") = "declined"
    /\ AccountFor("REFUNDED") = "refunded"
  <1>1. AccountFor("NONE") = "unpaid"
    BY DEF AccountFor
  <1>2. AccountFor("SUCCESS") = "charged"
    BY DEF AccountFor
  <1>3. AccountFor("FAILED") = "declined"
    BY DEF AccountFor
  <1>4. AccountFor("REFUNDED") = "refunded"
    BY DEF AccountFor
  <1> QED
    BY <1>1, <1>2, <1>3, <1>4

\* The refinement mapping: what the ledger calls account and told.
LEMMA LedgerMapping ==
    ASSUME NEW o \in Orders
    PROVE  /\ Ledger!Settle(o) <=>
                 /\ Account[o] = "unpaid"
                 /\ \E s \in {"charged", "declined"} : Account' = [Account EXCEPT ![o] = s]
                 /\ UNCHANGED Announced
           /\ Ledger!GiveBack(o) <=>
                 /\ Account[o] = "charged"
                 /\ Account' = [Account EXCEPT ![o] = "refunded"]
                 /\ UNCHANGED Announced
           /\ \A e \in Ledger!Events : Ledger!Tell(e, o) <=>
                 /\ \/ e = "payment.processed" /\ Account[o] \in {"charged", "refunded"}
                    \/ e = "payment.failed"    /\ Account[o] = "declined"
                    \/ e = "payment.refunded"  /\ Account[o] = "refunded"
                 /\ Announced' = Announced \cup {<<e, o>>}
                 /\ UNCHANGED Account
  BY Zenon DEF Ledger!Settle, Ledger!GiveBack, Ledger!Tell, Ledger!IsTrue, Account, AccountFor,
               Announced

\* A payment that is written is an account that is settled or given back.
LEMMA PaymentIsSettled ==
    ASSUME IInv, [Next]_vars, TellsTruly, NEW o \in Orders, payments'[o] # payments[o]
    PROVE  Ledger!Settle(o) \/ Ledger!GiveBack(o)
  <1>1. PaymentMoves /\ OneRow(payments) /\ UNCHANGED log
    BY NextMoves DEF TellsTruly
  <1>2. Account' = [Account EXCEPT ![o] = AccountFor(payments'[o])]
    BY <1>1 DEF Account, OneRow
  <1>3. UNCHANGED Announced
    BY <1>1 DEF Announced, Published
  <1>4. CASE payments[o] = "NONE" /\ payments'[o] \in {"SUCCESS", "FAILED"}
    <2>1. Account[o] = "unpaid" /\ AccountFor(payments'[o]) \in {"charged", "declined"}
      BY <1>4, AccountOf DEF Account
    <2> QED
      BY <1>2, <1>3, <2>1, LedgerMapping
  <1>5. CASE payments[o] = "SUCCESS" /\ payments'[o] = "REFUNDED"
    <2>1. Account[o] = "charged" /\ AccountFor(payments'[o]) = "refunded"
      BY <1>5, AccountOf DEF Account
    <2> QED
      BY <1>2, <1>3, <2>1, LedgerMapping
  <1> QED
    BY <1>1, <1>4, <1>5 DEF PaymentMoves

\* A message that is written is told of a true account, or is not the ledger's.
LEMMA MessageIsTold ==
    ASSUME IInv, TellsTruly, UNCHANGED payments,
           NEW t \in Topics, NEW m \in Payload(t), Write(t, m)
    PROVE  (\E e \in Ledger!Events : Ledger!Tell(e, m.order)) \/ UNCHANGED <<Account, Announced>>
  <1> DEFINE o == m.order
             events == {"payment.processed", "payment.failed", "payment.refunded"}
  <1>1. BusOK /\ LogStep /\ o \in Orders /\ PaymentTypeOK
    BY PayloadType DEF IInv, Typed, LogStep
  <1>2. \A u \in Topics, p \in Orders :
           Published(u, p)' <=> Published(u, p) \/ (u = t /\ p = o)
    BY <1>1, WriteKeeps, WritePublishes, PublishedKept
  <1>3. events \subseteq Topics /\ Ledger!Events = events
    BY DEF Topics, Ledger!Events
  <1>4. UNCHANGED Account
    BY DEF Account
  <1>5. CASE t \notin events \/ Published(t, o)
    BY <1>2, <1>3, <1>4, <1>5 DEF Announced
  <1>6. CASE t \in events /\ ~Published(t, o)
    <2>1. Announced' = Announced \cup {<<t, o>>}
      BY <1>1, <1>2, <1>3, <1>6 DEF Announced
    <2>2. /\ t = "payment.processed" => Paid(o)
          /\ t = "payment.failed" => payments[o] = "FAILED"
          /\ t = "payment.refunded" => payments[o] = "REFUNDED"
      BY <1>1, <1>2, <1>3, <1>6 DEF TellsTruly
    <2>3. \/ t = "payment.processed" /\ Account[o] \in {"charged", "refunded"}
          \/ t = "payment.failed"    /\ Account[o] = "declined"
          \/ t = "payment.refunded"  /\ Account[o] = "refunded"
      BY <1>1, <1>6, <2>2, AccountOf DEF Account, Paid
    <2> QED
      BY <1>1, <1>3, <1>4, <1>6, <2>1, <2>3, LedgerMapping
  <1> QED
    BY <1>5, <1>6

\* As long as no call fails, and however often the processes restart, the events
\* of payment-svc are true of its table.
THEOREM LedgerIsImplemented ==
    ASSUME MaxErrors = 0
    PROVE  Spec => ImplementsLedger
  <1>1. Init => Ledger!LedgerInit
    <2> SUFFICES ASSUME Init PROVE Ledger!LedgerInit
      OBVIOUS
    <2>1. Account = [o \in Orders |-> "unpaid"]
      BY AccountOf DEF Init, PaymentInit, Account
    <2>2. Announced = {}
      BY DEF Init, BusInit, Announced, Published, Topics
    <2> QED
      BY <2>1, <2>2, Zenon DEF Ledger!LedgerInit, Account, AccountFor, Announced
  <1>2. Init => SettlesTruly
    BY DEF Init, BusInit, SettlesTruly, charger, Consumers, PaymentGroups
  <1>3. ASSUME IInv, LifeInv, SettlesTruly, [Next]_vars
        PROVE  SettlesTruly' /\ [Ledger!LedgerNext]_(Ledger!ledgerVars)
    <2>1. SettlesTruly' /\ TellsTruly /\ LogStep /\ PaymentTypeOK /\ PaymentTypeOK'
      BY <1>3, NextTellsTruly, NextTells, NextKeeps DEF LifeInv, IInv, Typed
    <2>2. UNCHANGED <<Account, Announced>> => UNCHANGED Ledger!ledgerVars
      BY Zenon DEF Ledger!ledgerVars, Account, AccountFor, Announced
    <2>3. CASE \E o \in Orders : payments'[o] # payments[o]
      BY <1>3, <2>1, <2>3, PaymentIsSettled DEF Ledger!LedgerNext
    <2>4. CASE \A o \in Orders : payments'[o] = payments[o]
      <3>1. UNCHANGED payments
        BY <2>1, <2>4 DEF PaymentTypeOK
      <3>2. CASE UNCHANGED log
        <4>1. UNCHANGED <<Account, Announced>>
          BY <3>1, <3>2 DEF Account, Announced, Published
        <4> QED
          BY <2>1, <2>2, <4>1
      <3>3. ASSUME NEW t \in Topics, NEW m \in Payload(t), Write(t, m)
            PROVE  [Ledger!LedgerNext]_(Ledger!ledgerVars)
        <4>1. m.order \in Orders
          BY PayloadType
        <4> QED
          BY <1>3, <2>1, <2>2, <3>1, <3>3, <4>1, MessageIsTold DEF Ledger!LedgerNext
      <3> QED
        BY <2>1, <3>2, <3>3 DEF LogStep
    <2> QED
      BY <2>1, <2>3, <2>4
  <1> QED
    BY <1>1, <1>2, <1>3, Inductive, LifeInductive, PTL
       DEF Spec, ImplementsLedger, Ledger!LedgerSpec

-----------------------------------------------------------------------------
(***************************************************************************)
(* Cancellations and their refunds.                                        *)
(***************************************************************************)
\* The consumers of order.preparation.failed and of delivery.failed.
Givers == {"order-svc-prep-failed", "order-svc-delivery-failed"}

\* Whoever gives up a paid order refunds it, and a declined one is not refunded.
\* This much holds whatever fails or crashes.
CancelRefunds ==
    /\ ~refund["order-svc-payment-failed"]
    /\ \A c \in Givers : pc[c] # "idle" => refund[c]

\* The order that is given up was handed on, so that its status, if not
\* terminal, is one that requires a refund.
LEMMA GiverRefunds ==
    ASSUME IInv, Moved, CancelRefunds, NEW c \in Givers, CancelWithRefund(c)
    PROVE  /\ refund' \in [CancelGroups -> BOOLEAN]
           /\ \A d \in CancelGroups \ {c} : refund'[d] = refund[d]
           /\ pc'[c] # "idle" => refund'[c]
  <1> DEFINE o == OrderOf(c)
  <1>0. /\ BusOK /\ OrderTypeOK /\ c \in Consumers /\ c \in CancelGroups
        /\ pc \in [Consumers -> Steps] /\ refund \in [CancelGroups -> BOOLEAN]
        /\ BusEffect(c, CancelTopics)
    BY CancelWithRefundEffect DEF IInv, Typed, BusOK, BusTypeOK, OrderTypeOK, StatusEffect,
       Givers, Consumers, OrderGroups, CancelGroups
  <1>1. CASE /\ Receive(c, AlreadyCancelled(o), "recheck")
             /\ refund' = [refund EXCEPT ![c] = pc'[c] # "idle" /\ RefundRequired(status[o])]
    <2>1. ASSUME pc'[c] # "idle" PROVE RefundRequired(status[o])
      <3>1. ~AlreadyCancelled(o)
        BY <1>0, <1>1, <2>1 DEF Receive, Fails, Finish
      <3>2. o \in Orders /\ Published(TopicOf(c), o) /\ TopicOf(c) \in Beyond
        BY <1>0 DEF BusEffect, TopicOf, Beyond, Givers
      <3>3. status[o] \in Life!Later
        BY <3>2 DEF Moved
      <3> QED
        BY <3>1, <3>3 DEF AlreadyCancelled, IsTerminal, RefundRequired, Life!Later
    <2> QED
      BY <1>0, <1>1, <2>1
  <1>2. CASE pc[c] # "idle" /\ refund' = [refund EXCEPT ![c] = @ /\ pc'[c] # "idle"]
    BY <1>0, <1>2 DEF CancelRefunds
  <1> QED
    BY <1>1, <1>2 DEF CancelWithRefund, CancelOrder

\* No other handler touches the flag, and a consumer that stays keeps it.
LEMMA CancelRefundsKept ==
    ASSUME IInv, Moved, CancelRefunds, [Next]_vars
    PROVE  CancelRefunds'
  <1>1. /\ BusOK /\ OrderTypeOK /\ Givers \subseteq OrderGroups
        /\ OrderGroups # PaymentGroups /\ OrderGroups # RestaurantGroups
        /\ OrderGroups # DeliveryGroups /\ OrderGroups \subseteq Consumers
        /\ Givers \subseteq CancelGroups /\ "order-svc-payment-failed" \in CancelGroups \ Givers
    BY GroupsApart DEF IInv, Typed, Givers, OrderGroups, PaymentGroups, Consumers, CancelGroups
  <1>2. ASSUME UNCHANGED refund, \A d \in Givers : StaysPut(d)
        PROVE  CancelRefunds'
    BY <1>2 DEF CancelRefunds, StaysPut
  <1>3. CASE OrderSvc(OrderNext)
    <2>1. ASSUME NEW c \in Givers, CancelWithRefund(c)
          PROVE  CancelRefunds'
      <3>1. /\ \A d \in CancelGroups \ {c} : refund'[d] = refund[d]
            /\ pc'[c] # "idle" => refund'[c]
        BY <2>1, GiverRefunds
      <3>2. HandlerStep(c)
        BY <1>1, <2>1, CancelWithRefundEffect DEF StatusEffect, BusEffect, Givers
      <3>3. \A d \in Givers \ {c} : pc'[d] = pc[d]
        BY <1>1, <3>2, OtherConsumerKept
      <3> QED
        BY <1>1, <2>1, <3>1, <3>3 DEF CancelRefunds
    <2>2. ASSUME NEW c \in OrderGroups \ Givers, HandlerStep(c), UNCHANGED refund
          PROVE  CancelRefunds'
      BY <1>1, <1>2, <2>2, OtherConsumerKept DEF StaysPut
    <2>3. ASSUME NEW o \in Orders, CreateOrder(o) \/ PublishCreated(o)
          PROVE  CancelRefunds'
      BY <1>2, <2>3 DEF CreateOrder, PublishCreated, EmitAndForget, StaysPut
    <2>4. CASE OrderRestart
      BY <1>1, <2>4 DEF OrderRestart, Restart, CancelRefunds
    <2>5. CASE HandlePaymentProcessed
      BY <1>1, <2>2, <2>5, HandlePaymentProcessedEffect
         DEF StatusEffect, BusEffect, HandlePaymentProcessed, OrderGroups, Givers
    <2>6. CASE HandlePaymentFailed
      BY <1>1, <2>2, <2>6, HandlePaymentFailedEffect
         DEF StatusEffect, BusEffect, HandlePaymentFailed, OrderGroups, Givers
    <2>7. CASE HandlePaymentRefunded
      BY <1>1, <2>2, <2>7, HandlePaymentRefundedEffect
         DEF StatusEffect, BusEffect, HandlePaymentRefunded, OrderGroups, Givers
    <2>8. CASE HandleCourierAssigned
      BY <1>1, <2>2, <2>8, HandleCourierAssignedEffect
         DEF StatusEffect, BusEffect, HandleCourierAssigned, OrderGroups, Givers
    <2>9. CASE HandleOrderDelivered
      BY <1>1, <2>2, <2>9, HandleOrderDeliveredEffect
         DEF StatusEffect, BusEffect, HandleOrderDelivered, OrderGroups, Givers
    <2> QED
      BY <1>3, <2>1, <2>3, <2>4, <2>5, <2>6, <2>7, <2>8, <2>9
         DEF OrderSvc, OrderNext, OrderConsumes, Givers
  <1>4. CASE PaymentSvc(PaymentNext)
    BY <1>1, <1>2, <1>4, PaymentServiceStep, OthersStep DEF PaymentSvc, orderVars
  <1>5. CASE RestaurantSvc(RestaurantNext)
    BY <1>1, <1>2, <1>5, RestaurantServiceStep, OthersStep DEF RestaurantSvc, orderVars
  <1>6. CASE DeliverySvc(DeliveryNext)
    BY <1>1, <1>2, <1>6, DeliveryServiceStep, OthersStep DEF DeliverySvc, orderVars
  <1>7. CASE StandStill
    BY <1>2, <1>7 DEF StandStill, orderVars, StaysPut
  <1> QED
    BY <1>3, <1>4, <1>5, <1>6, <1>7, NextCases

\* Whatever crashes and whatever fails, a cancellation that follows on
\* order.preparation.failed or delivery.failed has decided to refund.
THEOREM CancellationsRefund == Spec => []CancelRefunds
  <1>1. Init => CancelRefunds
    BY DEF Init, BusInit, OrderInit, CancelRefunds, CancelGroups, Givers, Consumers, OrderGroups
  <1>2. IInv /\ LifeInv /\ CancelRefunds /\ [Next]_vars => CancelRefunds'
    BY CancelRefundsKept DEF LifeInv
  <1> QED
    BY <1>1, <1>2, Inductive, LifeInductive, PTL DEF Spec

-----------------------------------------------------------------------------
(***************************************************************************)
(* Stages.  An invariant over the queues has to say of every message how   *)
(* far its consumer is with it.  For one order and one consumer that is a  *)
(* stage, and all that another step can do to it is to let it wait.        *)
(***************************************************************************)
\* The consumers of order.paid, payment.failed and payment.refunded.
kitchen == "restaurant-svc"
failer == "order-svc-payment-failed"
closer == "order-svc-refunded"

\* Consumer c has finished with a message about order o.
Handled(c, o) == \E i \in 1..pos[c] : log[TopicOf(c)][i].order = o

\* Consumer c is running its handler for a message about order o.
Handling(c, o) == pc[c] # "idle" /\ OrderOf(c) = o

\* How far consumer c is with the message about order o.
Stage(c, o) ==
    IF Handled(c, o) THEN "done"
    ELSE IF Handling(c, o) THEN pc[c]
    ELSE IF Published(TopicOf(c), o) THEN "waiting" ELSE "none"

\* Topic t speaks at most once of order o.
Once(t, o) ==
    \A i, j \in 1..Len(log[t]) : log[t][i].order = o /\ log[t][j].order = o => i = j

\* This step publishes about order o on topic t, or on no topic, and moves none
\* of the consumers cs.
Told(cs, o, t) ==
    /\ \A d \in cs : Stage(d, o)' =
          IF Stage(d, o) = "none" /\ TopicOf(d) = t THEN "waiting" ELSE Stage(d, o)
    /\ \A u \in Topics : Published(u, o)' <=> Published(u, o) \/ u = t
    /\ \A u \in Topics : Once(u, o) => Once(u, o)' \/ (u = t /\ Published(u, o))

nothing == "nothing"

\* What this step writes, if anything, is about order o and on topic t.
Says(o, t) ==
    \/ UNCHANGED log /\ t = nothing
    \/ t \in Topics /\ \E m \in Payload(t) : m.order = o /\ Write(t, m)

-----------------------------------------------------------------------------
\* An order is published about when it was, or when this step writes about it.
LEMMA SaysPublishes ==
    ASSUME BusOK, NEW p \in Orders, NEW t, Says(p, t), NEW u \in Topics, NEW o \in Orders
    PROVE  /\ Published(u, o)' <=> Published(u, o) \/ (u = t /\ o = p)
           /\ Once(u, o) => Once(u, o)' \/ (u = t /\ o = p /\ Published(u, o))
           /\ LogStep
  <1>0. nothing \notin Topics
    BY DEF nothing, Topics
  <1>1. CASE UNCHANGED log /\ t = nothing
    BY <1>0, <1>1 DEF Published, Once, LogStep
  <1>2. ASSUME t \in Topics, NEW m \in Payload(t), m.order = p, Write(t, m)
        PROVE  /\ Published(u, o)' <=> Published(u, o) \/ (u = t /\ o = p)
               /\ Once(u, o) => Once(u, o)' \/ (u = t /\ o = p /\ Published(u, o))
               /\ LogStep
    <2>1. LogStep
      BY <1>2 DEF LogStep
    <2>2. Published(u, o)' <=> Published(u, o) \/ (u = t /\ o = p)
      BY <1>2, <2>1, WriteKeeps, WritePublishes, PublishedKept
    <2>3. m \in Message /\ log \in [Topics -> Seq(Message)]
      BY <1>2, PayloadType DEF BusOK, BusTypeOK
    <2>4. CASE u # t
      <3>1. log'[u] = log[u]
        BY <1>2, <2>3, <2>4 DEF Write
      <3> QED
        BY <2>1, <2>2, <3>1 DEF Once
    <2>5. CASE u = t
      <3>1. log'[t] = Append(log[t], m) /\ Len(log[t]) \in Nat
        BY <1>2, <2>3 DEF Write
      <3>2. /\ Len(log'[t]) = Len(log[t]) + 1
            /\ log'[t][Len(log[t]) + 1] = m
            /\ \A i \in 1..Len(log[t]) : log'[t][i] = log[t][i]
        BY <1>2, <2>3, <3>1
      <3>3. ASSUME Once(u, o), ~(o = p /\ Published(u, o)),
                   NEW i \in 1..Len(log'[t]), NEW j \in 1..Len(log'[t]),
                   log'[t][i].order = o, log'[t][j].order = o
            PROVE  i = j
        <4>1. \A k \in 1..Len(log'[t]) : k \in 1..Len(log[t]) \/ k = Len(log[t]) + 1
          BY <3>1, <3>2
        <4>2. CASE o = p
          <5>1. \A k \in 1..Len(log[t]) : log[t][k].order # o
            BY <2>5, <3>3, <4>2 DEF Published
          <5> QED
            BY <3>2, <3>3, <4>1, <5>1
        <4>3. CASE o # p
          <5>1. i \in 1..Len(log[t]) /\ j \in 1..Len(log[t])
            BY <1>2, <3>2, <3>3, <4>1, <4>3
          <5> QED
            BY <2>5, <3>2, <3>3, <5>1 DEF Once
        <4> QED
          BY <4>2, <4>3
      <3> QED
        BY <2>1, <2>2, <2>5, <3>3 DEF Once
    <2> QED
      BY <2>4, <2>5
  <1> QED
    BY <1>1, <1>2 DEF Says

\* Nothing is known of a message to a consumer before it is published.
LEMMA StageNone ==
    ASSUME BusOK, NEW c \in Consumers, NEW o \in Orders
    PROVE  Stage(c, o) = "none" <=> ~Published(TopicOf(c), o)
  <1>1. /\ TopicOf(c) \in Topics /\ pos[c] \in Nat /\ pos[c] <= Len(log[TopicOf(c)])
        /\ Len(log[TopicOf(c)]) \in Nat /\ pc[c] \in Steps /\ "none" \notin Steps
    BY TopicOfType DEF BusOK, BusTypeOK, OffsetsOK, Steps
  <1>2. Handled(c, o) => Published(TopicOf(c), o)
    <2>1. \A i \in 1..pos[c] : i \in 1..Len(log[TopicOf(c)])
      BY <1>1
    <2> QED
      BY <2>1 DEF Handled, Published
  <1>3. Handling(c, o) => Published(TopicOf(c), o)
    BY CurrentMessage DEF Handling, BusOK, OffsetsOK
  <1> QED
    BY <1>1, <1>2, <1>3 DEF Stage

\* A consumer that stays where it is at most gets something to wait for.
LEMMA StageStays ==
    ASSUME BusOK, NEW p \in Orders, NEW t, Says(p, t),
           NEW d \in Consumers, StaysPut(d), NEW o \in Orders
    PROVE  Stage(d, o)' =
             IF Stage(d, o) = "none" /\ TopicOf(d) = t /\ o = p THEN "waiting" ELSE Stage(d, o)
  <1>0. TopicOf(d) \in Topics
    BY TopicOfType
  <1>1. LogStep /\ (Published(TopicOf(d), o)' <=> Published(TopicOf(d), o) \/ (TopicOf(d) = t /\ o = p))
    BY <1>0, SaysPublishes
  <1>2. Handled(d, o)' <=> Handled(d, o)
    <2>1. /\ pos[d] \in Nat /\ pos[d] <= Len(log[TopicOf(d)]) /\ Len(log[TopicOf(d)]) \in Nat
      BY <1>0 DEF BusOK, BusTypeOK, OffsetsOK
    <2>2. \A i \in 1..pos[d] : i \in 1..Len(log[TopicOf(d)])
      BY <2>1
    <2>3. \A i \in 1..pos[d] : log'[TopicOf(d)][i] = log[TopicOf(d)][i]
      BY <1>0, <1>1, <2>2, LogStepKeeps
    <2> QED
      BY <2>3 DEF Handled, StaysPut
  <1>3. Handling(d, o)' <=> Handling(d, o)
    BY <1>1, CurrentKept DEF Handling, StaysPut
  <1>4. Stage(d, o) = "none" <=> ~Published(TopicOf(d), o)
    BY StageNone
  <1>5. pc'[d] = pc[d] /\ pc[d] # "none"
    <2>1. pc[d] \in Steps /\ "none" \notin Steps
      BY DEF BusOK, BusTypeOK, Steps
    <2> QED
      BY <2>1 DEF StaysPut
  <1>6. /\ Handled(d, o) => Stage(d, o) = "done"
        /\ ~Handled(d, o) /\ Handling(d, o) => Stage(d, o) = pc[d]
        /\ ~Handled(d, o) /\ ~Handling(d, o) =>
              Stage(d, o) = IF Published(TopicOf(d), o) THEN "waiting" ELSE "none"
    BY DEF Stage
  <1>7. /\ Handled(d, o)' => Stage(d, o)' = "done"
        /\ ~Handled(d, o)' /\ Handling(d, o)' => Stage(d, o)' = pc'[d]
        /\ ~Handled(d, o)' /\ ~Handling(d, o)' =>
              Stage(d, o)' = IF Published(TopicOf(d), o)' THEN "waiting" ELSE "none"
    BY DEF Stage
  <1> QED
    BY <1>1, <1>2, <1>3, <1>4, <1>5, <1>6, <1>7

\* A consumer that moves has nothing to do with the orders of other messages.
LEMMA StageElsewhere ==
    ASSUME BusOK, NEW c \in Consumers, HandlerStep(c), NEW p \in Orders, OrderOf(c) = p,
           NEW o \in Orders \ {p}
    PROVE  /\ Handled(c, o)' <=> Handled(c, o)
           /\ ~Handling(c, o) /\ ~Handling(c, o)'
  <1> DEFINE t == TopicOf(c)
  <1>0. /\ t \in Topics /\ pos \in [Consumers -> Nat] /\ pos[c] \in Nat /\ Len(log[t]) \in Nat
        /\ pc \in [Consumers -> Steps] /\ pos[c] < Len(log[t]) /\ LogStep
    BY TopicOfType DEF BusOK, BusTypeOK, HandlerStep
  <1>1. \A i \in 1..pos[c] + 1 : log'[t][i] = log[t][i]
    <2>1. \A i \in 1..pos[c] + 1 : i \in 1..Len(log[t])
      BY <1>0
    <2> QED
      BY <1>0, <2>1, LogStepKeeps
  <1>2. log[t][pos[c] + 1].order = p
    BY DEF OrderOf, Current
  <1>3. \/ pos'[c] = pos[c] + 1 /\ pc'[c] = "idle"
        \/ pos'[c] = pos[c]
    BY <1>0 DEF Finish, Goto, Stay, HandlerStep
  <1>4. \A i \in 1..pos[c] : i \in 1..pos[c] + 1
    BY <1>0
  <1>5. \A i \in 1..pos[c] + 1 : i \in 1..pos[c] \/ i = pos[c] + 1
    BY <1>0
  <1>6. Handled(c, o)' <=> Handled(c, o)
    <2>1. CASE pos'[c] = pos[c]
      BY <1>1, <1>4, <2>1 DEF Handled
    <2>2. CASE pos'[c] = pos[c] + 1
      BY <1>1, <1>2, <1>4, <1>5, <2>2 DEF Handled
    <2> QED
      BY <1>3, <2>1, <2>2
  <1>7. ~Handling(c, o)
    BY DEF Handling
  <1>8. ASSUME pc'[c] # "idle" PROVE OrderOf(c)' = p
    <2>1. pos'[c] = pos[c] /\ pos[c] + 1 \in 1..pos[c] + 1
      BY <1>0, <1>3, <1>8
    <2> QED
      BY <1>1, <1>2, <2>1 DEF OrderOf, Current
  <1> QED
    BY <1>6, <1>7, <1>8 DEF Handling

\* A consumer moves with its message.
LEMMA StageMoves ==
    ASSUME BusOK, NEW c \in Consumers, pos[c] < Len(log[TopicOf(c)]), LogStep,
           NEW p \in Orders, OrderOf(c) = p, Once(TopicOf(c), p),
           NEW s, (Finish(c) /\ s = "done") \/ (s \in Steps \ {"idle"} /\ Goto(c, s))
    PROVE  /\ Stage(c, p) = IF pc[c] = "idle" THEN "waiting" ELSE pc[c]
           /\ Stage(c, p)' = s
  <1> DEFINE t == TopicOf(c)
  <1>0. /\ t \in Topics /\ pos \in [Consumers -> Nat] /\ pos[c] \in Nat /\ Len(log[t]) \in Nat
        /\ pc \in [Consumers -> Steps]
    BY TopicOfType DEF BusOK, BusTypeOK
  <1>1. \A i \in 1..pos[c] + 1 : i \in 1..Len(log[t]) /\ log'[t][i] = log[t][i]
    <2>1. \A i \in 1..pos[c] + 1 : i \in 1..Len(log[t])
      BY <1>0
    <2> QED
      BY <1>0, <2>1, LogStepKeeps
  <1>2. log[t][pos[c] + 1].order = p
    BY DEF OrderOf, Current
  <1>3. \/ pos'[c] = pos[c] + 1 /\ pc'[c] = "idle" /\ s = "done"
        \/ pos'[c] = pos[c] /\ pc'[c] = s /\ s # "idle" /\ s \in Steps
    BY <1>0 DEF Finish, Goto
  <1>4. pos[c] + 1 \in 1..pos[c] + 1 /\ \A i \in 1..pos[c] : i \in 1..pos[c] + 1
    BY <1>0
  <1>5. ~\E i \in 1..pos[c] : log[t][i].order = p
    <2> SUFFICES ASSUME NEW i \in 1..pos[c], log[t][i].order = p PROVE FALSE
      OBVIOUS
    <2>1. i \in 1..Len(log[t]) /\ pos[c] + 1 \in 1..Len(log[t])
      BY <1>1, <1>4
    <2>2. i = pos[c] + 1
      BY <1>2, <2>1 DEF Once
    <2> QED
      BY <1>0, <2>2
  <1>6. Stage(c, p) = IF pc[c] = "idle" THEN "waiting" ELSE pc[c]
    <2>1. ~Handled(c, p)
      BY <1>5 DEF Handled
    <2>2. Published(t, p)
      BY CurrentMessage
    <2> QED
      BY <2>1, <2>2 DEF Stage, Handling
  <1>7. CASE pos'[c] = pos[c] + 1 /\ s = "done"
    <2>1. pos[c] + 1 \in 1..pos'[c] /\ log'[t][pos[c] + 1].order = p
      BY <1>1, <1>2, <1>4, <1>7
    <2>2. Handled(c, p)'
      BY <2>1 DEF Handled
    <2> QED
      BY <1>6, <1>7, <2>2 DEF Stage
  <1>8. CASE pos'[c] = pos[c] /\ pc'[c] = s /\ s # "idle"
    <2>1. ~Handled(c, p)'
      BY <1>1, <1>4, <1>5, <1>8 DEF Handled
    <2>2. OrderOf(c)' = p
      BY <1>1, <1>2, <1>4, <1>8 DEF OrderOf, Current
    <2> QED
      BY <1>6, <1>8, <2>1, <2>2 DEF Stage, Handling
  <1> QED
    BY <1>3, <1>7, <1>8

-----------------------------------------------------------------------------
(***************************************************************************)
(* Every step is about one order.                                          *)
(***************************************************************************)
\* The bus looks the same to order o.
Unheard(o) ==
    /\ \A d \in Consumers : Stage(d, o)' = Stage(d, o)
    /\ \A u \in Topics : (Published(u, o)' <=> Published(u, o)) /\ (Once(u, o) => Once(u, o)')

\* So do the tables and the goroutines.
Untouched(o) ==
    /\ Unheard(o)
    /\ status'[o] = status[o] /\ payments'[o] = payments[o]
    /\ o \in creating' <=> o \in creating
    /\ cooking'[o] = cooking[o] /\ arrived'[o] = arrived[o]
    /\ \A k \in Couriers : riding'[k][o] = riding[k][o]

\* What is written is written about one order.
LEMMA WritesSays ==
    ASSUME NEW topics, NEW p, Writes(topics, p)
    PROVE  \E t : Says(p, t)
  BY DEF Writes, Says

\* A step of a handler is unheard of by the orders of other messages.
LEMMA ConsumerUnheard ==
    ASSUME BusOK, NEW c \in Consumers, NEW topics, BusEffect(c, topics),
           NEW o \in Orders, o # OrderOf(c)
    PROVE  Unheard(o)
  <1>1. PICK p \in Orders : p = OrderOf(c)
    BY DEF BusEffect
  <1>2. PICK t : Says(p, t)
    BY <1>1, WritesSays DEF BusEffect
  <1>3. HandlerStep(c) /\ pc \in [Consumers -> Steps] /\ pos \in [Consumers -> Nat]
    BY DEF BusEffect, BusOK, BusTypeOK
  <1>4. \A u \in Topics : (Published(u, o)' <=> Published(u, o)) /\ (Once(u, o) => Once(u, o)')
    BY <1>1, <1>2, SaysPublishes
  <1>5. ASSUME NEW d \in Consumers \ {c} PROVE Stage(d, o)' = Stage(d, o)
    <2>1. StaysPut(d)
      BY <1>3 DEF HandlerStep, Stay, Finish, Goto, StaysPut
    <2> QED
      BY <1>1, <1>2, <2>1, StageStays
  <1>6. Stage(c, o)' = Stage(c, o)
    <2>1. /\ Handled(c, o)' <=> Handled(c, o)
          /\ ~Handling(c, o) /\ ~Handling(c, o)'
      BY <1>1, <1>3, StageElsewhere
    <2>2. Published(TopicOf(c), o)' <=> Published(TopicOf(c), o)
      BY <1>4, TopicOfType
    <2>3. Stage(c, o) = IF Handled(c, o) THEN "done"
                        ELSE IF Published(TopicOf(c), o) THEN "waiting" ELSE "none"
      BY <2>1 DEF Stage
    <2>4. Stage(c, o)' = IF Handled(c, o)' THEN "done"
                         ELSE IF Published(TopicOf(c), o)' THEN "waiting" ELSE "none"
      BY <2>1 DEF Stage
    <2> QED
      BY <2>1, <2>2, <2>3, <2>4
  <1> QED
    BY <1>4, <1>5, <1>6 DEF Unheard

\* What a request or a goroutine publishes is heard by one order only, and is
\* there for consumers to wait for.
LEMMA GoroutineHeard ==
    ASSUME BusOK, NEW p \in Orders, NEW t, Says(p, t), UNCHANGED <<pc, pos>>
    PROVE  /\ \A o \in Orders \ {p} : Unheard(o)
           /\ Told(Consumers, p, t)
  <1>1. \A d \in Consumers : StaysPut(d)
    BY DEF StaysPut
  <1>2. \A o \in Orders : \A d \in Consumers : Stage(d, o)' =
          IF Stage(d, o) = "none" /\ TopicOf(d) = t /\ o = p THEN "waiting" ELSE Stage(d, o)
    BY <1>1, StageStays
  <1>3. \A o \in Orders : \A u \in Topics :
          /\ Published(u, o)' <=> Published(u, o) \/ (u = t /\ o = p)
          /\ Once(u, o) => Once(u, o)' \/ (u = t /\ o = p /\ Published(u, o))
    BY SaysPublishes
  <1> QED
    BY <1>2, <1>3 DEF Unheard, Told

\* The others hear of what a handler publishes.
LEMMA ConsumerTold ==
    ASSUME BusOK, NEW c \in Consumers, NEW p \in Orders, NEW t, Says(p, t),
           Stay \/ Finish(c) \/ \E s \in Steps : Goto(c, s)
    PROVE  LogStep /\ Told(Consumers \ {c}, p, t)
  <1>1. /\ LogStep
        /\ \A u \in Topics :
             /\ Published(u, p)' <=> Published(u, p) \/ u = t
             /\ Once(u, p) => Once(u, p)' \/ (u = t /\ Published(u, p))
    <2>1. LogStep
      BY SaysPublishes DEF Topics
    <2> QED
      BY <2>1, SaysPublishes
  <1>2. ASSUME NEW d \in Consumers \ {c}
        PROVE  Stage(d, p)' = IF Stage(d, p) = "none" /\ TopicOf(d) = t
                              THEN "waiting" ELSE Stage(d, p)
    <2>1. StaysPut(d)
      BY DEF Stay, Finish, Goto, StaysPut, BusOK, BusTypeOK
    <2> QED
      BY <2>1, StageStays
  <1> QED
    BY <1>1, <1>2 DEF Told

\* A handler takes its order one step on.
LEMMA ConsumerMoves ==
    ASSUME BusOK, NEW c \in Consumers, pos[c] < Len(log[TopicOf(c)]),
           NEW p \in Orders, OrderOf(c) = p, Once(TopicOf(c), p),
           NEW s, NEW t, Says(p, t),
           (Finish(c) /\ s = "done") \/ (s \in Steps \ {"idle"} /\ Goto(c, s))
    PROVE  /\ Stage(c, p) = IF pc[c] = "idle" THEN "waiting" ELSE pc[c]
           /\ Stage(c, p)' = s
           /\ Told(Consumers \ {c}, p, t)
           /\ \A u \in Topics : Published(u, p)' <=> Published(u, p) \/ u = t
  <1>1. LogStep /\ Told(Consumers \ {c}, p, t)
    BY ConsumerTold
  <1>2. Stage(c, p) = (IF pc[c] = "idle" THEN "waiting" ELSE pc[c]) /\ Stage(c, p)' = s
    BY <1>1, StageMoves
  <1> QED
    BY <1>1, <1>2 DEF Told

-----------------------------------------------------------------------------
(***************************************************************************)
(* An order that no failing call has touched.  Each of its stages has done *)
(* exactly what its message asks for, and has said so once.                *)
(***************************************************************************)
\* What is published leads to a row, and the row to what is published.
Placed(o) ==
    /\ o \in creating => ~Published("order.created", o)
    /\ status[o] # "NONE" => o \in creating \/ Published("order.created", o)

Charged(o) ==
    \/ /\ Stage(charger, o) \in {"none", "waiting", "charge"}
       /\ payments[o] = "NONE"
       /\ ~Published("payment.processed", o) /\ ~Published("payment.failed", o)
    \/ /\ Stage(charger, o) = "publishFailed"
       /\ payments[o] = "FAILED"
       /\ ~Published("payment.processed", o) /\ ~Published("payment.failed", o)
    \/ /\ Stage(charger, o) = "publishProcessed"
       /\ Paid(o)
       /\ ~Published("payment.processed", o) /\ ~Published("payment.failed", o)
    \/ /\ Stage(charger, o) = "done"
       /\ payments[o] = "FAILED"
       /\ ~Published("payment.processed", o) /\ Published("payment.failed", o)
    \/ /\ Stage(charger, o) = "done"
       /\ Paid(o)
       /\ Published("payment.processed", o) /\ ~Published("payment.failed", o)

HandedOn(o) ==
    \/ Stage(cashier, o) = "none" /\ ~Published("order.paid", o)
    \/ /\ Stage(cashier, o) \in {"waiting", "update"}
       /\ status[o] = "PENDING" /\ ~Published("order.paid", o)
    \/ Stage(cashier, o) = "publish" /\ ~Published("order.paid", o)
    \/ Stage(cashier, o) \in {"announce", "done"} /\ Published("order.paid", o)

Declined(o) ==
    Stage(failer, o) \in {"none", "waiting", "cancel"} \/ status[o] = "CANCELLED"

Cooked(o) ==
    \/ /\ Stage(kitchen, o) \in {"none", "waiting", "publishFailed"}
       /\ cooking[o] = 0
       /\ ~Published("order.ready", o) /\ ~Published("order.preparation.failed", o)
    \/ /\ Stage(kitchen, o) = "done"
       /\ cooking[o] = 1
       /\ ~Published("order.ready", o) /\ ~Published("order.preparation.failed", o)
    \/ /\ Stage(kitchen, o) = "done"
       /\ cooking[o] = 0
       /\ Published("order.ready", o) <=> ~Published("order.preparation.failed", o)

UnderWay(o) ==
    (\E k \in Couriers : riding[k][o] > 0) \/ arrived[o] > 0 \/ Published("order.delivered", o)

Dispatched(o) ==
    \/ /\ Stage(dispatcher, o) \in
             {"none", "waiting", "setBusy", "publishAssigned", "publishFailed"}
       /\ ~Published("courier.assigned", o) /\ ~Published("delivery.failed", o)
    \/ /\ Stage(dispatcher, o) = "done"
       /\ ~Published("courier.assigned", o) /\ Published("delivery.failed", o)
    \/ /\ Stage(dispatcher, o) = "done"
       /\ Published("courier.assigned", o) /\ ~Published("delivery.failed", o)
       /\ UnderWay(o)

\* Whoever gives the order up finds it open, and asks for the refund once.
GivenUp(g, o) ==
    \/ Stage(g, o) = "none"
    \/ /\ Stage(g, o) \in {"waiting", "recheck", "cancel"}
       /\ ~IsTerminal(status[o]) /\ ~Published("payment.refund.requested", o)
    \/ /\ Stage(g, o) \in {"announceCancel", "publishCancelled", "requestRefund"}
       /\ ~Published("payment.refund.requested", o)
    \/ Stage(g, o) = "done" /\ Published("payment.refund.requested", o)

GivenBack(o) ==
    \/ Stage(refunder, o) = "none"
    \/ Stage(refunder, o) \in {"waiting", "markRefunded"} /\ payments[o] # "REFUNDED"
    \/ /\ Stage(refunder, o) = "publishRefunded"
       /\ payments[o] = "REFUNDED" /\ ~Published("payment.refunded", o)
    \/ Stage(refunder, o) = "done" /\ Published("payment.refunded", o)

Closed(o) ==
    Stage(closer, o) \in {"none", "waiting", "update"} \/ status[o] = "REFUNDED"

\* The topics whose messages the stages above wait for.
Single == {"order.created", "payment.processed", "payment.failed", "order.paid",
           "order.preparation.failed", "order.ready", "delivery.failed",
           "payment.refund.requested", "payment.refunded"}

Clean(o) ==
    /\ \A t \in Single : Once(t, o)
    /\ Placed(o) /\ Charged(o) /\ HandedOn(o) /\ Declined(o) /\ Cooked(o) /\ Dispatched(o)
    /\ \A g \in Givers : GivenUp(g, o)
    /\ GivenBack(o) /\ Closed(o)

\* The status of an order has a reason that was published.
StatusIsTold ==
    \A o \in Orders :
        /\ status[o] \notin {"NONE", "PENDING"} =>
              Published("payment.processed", o) \/ Published("payment.failed", o)
        /\ status[o] = "CANCELLED" =>
              \E t \in {"payment.failed", "order.preparation.failed", "delivery.failed"} :
                 Published(t, o)
        /\ status[o] = "DELIVERED" => Published("order.delivered", o)

Harmed == {o \in Orders : ~Clean(o)}

\* A courier that is busy, carries nothing, and that nobody is about to send off.
Stuck(k) ==
    /\ couriers[k] = "BUSY"
    /\ \A o \in Orders : riding[k][o] = 0
    /\ ~(chosen = k /\ pc[dispatcher] \in {"publishAssigned", "release"})

Lost == {k \in Couriers : Stuck(k)}

\* The failed calls that have ended no consumer.
Faults == errors - Cardinality(stopped)

\* Each harmed order and each lost courier is paid for with such a call.
DamageInv ==
    /\ StatusIsTold
    /\ IsFiniteSet(stopped)
    /\ IsFiniteSet(Harmed) /\ Cardinality(Harmed) <= Faults
    /\ IsFiniteSet(Lost) /\ Cardinality(Lost) <= Faults

-----------------------------------------------------------------------------
(***************************************************************************)
(* What is known of an order besides.                                      *)
(***************************************************************************)
Facts == IInv /\ LifeInv /\ StatusIsTold /\ CancelRefunds

\* What must have been said before, of one order.
LEMMA SaidBefore ==
    ASSUME Caused, NEW o \in Orders
    PROVE  /\ Published("payment.processed", o) => Published("order.created", o)
           /\ Published("payment.failed", o) => Published("order.created", o)
           /\ Published("order.paid", o) => Published("payment.processed", o)
           /\ Published("order.ready", o) => Published("order.paid", o)
           /\ Published("order.preparation.failed", o) => Published("order.paid", o)
           /\ Published("courier.assigned", o) => Published("order.ready", o)
           /\ Published("delivery.failed", o) => Published("order.ready", o)
           /\ Published("order.delivered", o) => Published("courier.assigned", o)
           /\ Published("payment.refund.requested", o) =>
                 Published("order.preparation.failed", o) \/ Published("delivery.failed", o)
           /\ Published("payment.refunded", o) => Published("payment.refund.requested", o)
  BY DEF Caused, Story!Causes, Topics

\* A status is written on a message, and messages stay.
LEMMA StatusIsToldKept ==
    ASSUME IInv, LifeInv, StatusIsTold, [Next]_vars
    PROVE  StatusIsTold'
  <1>1. StatusMoves
    BY NextMoves
  <1>2. BusOK /\ LogStep /\ Caused
    BY NextTells DEF IInv, Typed, LifeInv
  <1>3. \A t \in {"payment.processed", "payment.failed", "order.preparation.failed",
                  "delivery.failed", "order.delivered"}, o \in Orders :
           Published(t, o) => Published(t, o)'
    BY <1>2, PublishedKept DEF Topics
  <1>4. ASSUME NEW o \in Orders, status'[o] \notin {"NONE", "PENDING"}
        PROVE  Published("payment.processed", o)' \/ Published("payment.failed", o)'
    <2>1. CASE status'[o] = status[o]
      BY <1>3, <1>4, <2>1 DEF StatusIsTold
    <2>2. CASE status'[o] # status[o]
      <3>1. \/ Published("payment.processed", o) \/ Published("payment.failed", o)
            \/ Published("order.preparation.failed", o) \/ Published("delivery.failed", o)
            \/ Published("payment.refunded", o) \/ Published("courier.assigned", o)
            \/ Published("order.delivered", o)
        BY <1>1, <1>4, <2>2 DEF StatusMoves
      <3> QED
        BY <1>2, <1>3, <3>1, SaidBefore
    <2> QED
      BY <2>1, <2>2
  <1>5. ASSUME NEW o \in Orders, status'[o] = "CANCELLED"
        PROVE  \E t \in {"payment.failed", "order.preparation.failed", "delivery.failed"} :
                  Published(t, o)'
    BY <1>1, <1>3, <1>5 DEF StatusIsTold, StatusMoves
  <1>6. ASSUME NEW o \in Orders, status'[o] = "DELIVERED" PROVE Published("order.delivered", o)'
    BY <1>1, <1>3, <1>6 DEF StatusIsTold, StatusMoves
  <1> QED
    BY <1>4, <1>5, <1>6 DEF StatusIsTold

\* The consumers, and what they listen to.
LEMMA Roles ==
    /\ {charger, refunder, cashier, failer, closer, kitchen, dispatcher} \subseteq Consumers
    /\ Givers \subseteq Consumers
    /\ TopicOf(charger) = "order.created"
    /\ TopicOf(refunder) = "payment.refund.requested"
    /\ TopicOf(cashier) = "payment.processed"
    /\ TopicOf(failer) = "payment.failed"
    /\ TopicOf(closer) = "payment.refunded"
    /\ TopicOf(kitchen) = "order.paid"
    /\ TopicOf(dispatcher) = "order.ready"
    /\ TopicOf("order-svc-prep-failed") = "order.preparation.failed"
    /\ TopicOf("order-svc-delivery-failed") = "delivery.failed"
  BY DEF charger, refunder, cashier, failer, closer, kitchen, dispatcher, Givers, Consumers,
         OrderGroups, PaymentGroups, RestaurantGroups, DeliveryGroups, TopicOf

\* Who waits for nothing, because nothing was said.
LEMMA NothingSaid ==
    ASSUME BusOK, NEW o \in Orders
    PROVE  /\ Stage(charger, o) = "none" <=> ~Published("order.created", o)
           /\ Stage(refunder, o) = "none" <=> ~Published("payment.refund.requested", o)
           /\ Stage(cashier, o) = "none" <=> ~Published("payment.processed", o)
           /\ Stage(failer, o) = "none" <=> ~Published("payment.failed", o)
           /\ Stage(closer, o) = "none" <=> ~Published("payment.refunded", o)
           /\ Stage(kitchen, o) = "none" <=> ~Published("order.paid", o)
           /\ Stage(dispatcher, o) = "none" <=> ~Published("order.ready", o)
           /\ \A g \in Givers : Stage(g, o) = "none" <=> ~Published(TopicOf(g), o)
  BY Roles, StageNone

\* A clean order takes one way through the saga.
LEMMA OneWay ==
    ASSUME Facts, NEW o \in Orders, Clean(o)
    PROVE  /\ ~(Published("payment.processed", o) /\ Published("payment.failed", o))
           /\ Published("payment.failed", o) => payments[o] = "FAILED"
           /\ Published("payment.processed", o) => Paid(o)
           /\ ~(Published("order.preparation.failed", o) /\ Published("order.ready", o))
           /\ ~(Published("delivery.failed", o) /\ Published("courier.assigned", o))
           /\ IsTerminal(status[o]) =>
                 \/ Published("payment.failed", o)
                 \/ Published("order.preparation.failed", o)
                 \/ Published("delivery.failed", o)
                 \/ Published("order.delivered", o)
  <1>1. StatusIsTold /\ MoneyBack /\ Requested /\ Caused
    BY DEF Facts, LifeInv
  <1>2. IsTerminal(status[o]) =>
                 \/ Published("payment.failed", o)
                 \/ Published("order.preparation.failed", o)
                 \/ Published("delivery.failed", o)
                 \/ Published("order.delivered", o)
    BY <1>1, SaidBefore DEF IsTerminal, StatusIsTold, MoneyBack, Requested
  <1> QED
    BY <1>2 DEF Clean, Charged, Cooked, Dispatched

-----------------------------------------------------------------------------
(***************************************************************************)
(* What a step leaves clean: the stages that it does not move, unless what *)
(* it publishes is news to them.                                           *)
(***************************************************************************)
LEMMA OnceKept ==
    ASSUME NEW o \in Orders, NEW cs, NEW t, Told(cs, o, t),
           \A u \in Single : Once(u, o), t \in Single => ~Published(t, o)
    PROVE  \A u \in Single : Once(u, o)'
  BY DEF Told, Single, Topics

LEMMA PlacedKept ==
    ASSUME NEW o \in Orders, NEW cs, NEW t, Told(cs, o, t), Placed(o),
           t # "order.created", o \in creating' <=> o \in creating,
           status'[o] # "NONE" => status[o] # "NONE"
    PROVE  Placed(o)'
  BY DEF Told, Placed, Topics

LEMMA ChargedKept ==
    ASSUME NEW o \in Orders, NEW cs, NEW t, Told(cs, o, t), Charged(o), charger \in cs,
           t \notin {"payment.processed", "payment.failed"},
           payments'[o] = payments[o] \/ (Paid(o) /\ Paid(o)')
    PROVE  Charged(o)'
  <1>1. /\ Published("payment.processed", o)' <=> Published("payment.processed", o)
        /\ Published("payment.failed", o)' <=> Published("payment.failed", o)
    BY DEF Told, Topics
  <1>2. \/ Stage(charger, o)' = Stage(charger, o)
        \/ Stage(charger, o)' = "waiting" /\ Stage(charger, o) = "none"
    BY DEF Told
  <1>3. payments'[o] = payments[o] => (Paid(o)' <=> Paid(o))
    BY DEF Paid
  <1>4. Paid(o) => payments[o] \notin {"NONE", "FAILED"}
    BY DEF Paid
  <1> QED
    BY <1>1, <1>2, <1>3, <1>4 DEF Charged

LEMMA HandedOnKept ==
    ASSUME NEW o \in Orders, NEW cs, NEW t, Told(cs, o, t), HandedOn(o), cashier \in cs,
           t # "order.paid",
           Stage(cashier, o) \in {"waiting", "update"} => status'[o] = "PENDING",
           t = "payment.processed" => status'[o] = "PENDING"
    PROVE  HandedOn(o)'
  <1>1. Published("order.paid", o)' <=> Published("order.paid", o)
    BY DEF Told, Topics
  <1>2. Stage(cashier, o)' = IF Stage(cashier, o) = "none" /\ t = "payment.processed"
                             THEN "waiting" ELSE Stage(cashier, o)
    BY Roles DEF Told
  <1> QED
    BY <1>1, <1>2 DEF HandedOn

LEMMA DeclinedKept ==
    ASSUME NEW o \in Orders, NEW cs, NEW t, Told(cs, o, t), Declined(o), failer \in cs,
           Stage(failer, o) \notin {"none", "waiting", "cancel"} => status'[o] = status[o]
    PROVE  Declined(o)'
  BY DEF Told, Declined

LEMMA CookedKept ==
    ASSUME NEW o \in Orders, NEW cs, NEW t, Told(cs, o, t), Cooked(o), kitchen \in cs,
           t \notin {"order.ready", "order.preparation.failed"}, cooking'[o] = cooking[o]
    PROVE  Cooked(o)'
  <1>1. /\ Published("order.ready", o)' <=> Published("order.ready", o)
        /\ Published("order.preparation.failed", o)' <=> Published("order.preparation.failed", o)
    BY DEF Told, Topics
  <1>2. \/ Stage(kitchen, o)' = Stage(kitchen, o)
        \/ Stage(kitchen, o)' = "waiting" /\ Stage(kitchen, o) = "none"
    BY DEF Told
  <1> QED
    BY <1>1, <1>2 DEF Cooked

LEMMA DispatchedKept ==
    ASSUME NEW o \in Orders, NEW cs, NEW t, Told(cs, o, t), Dispatched(o), dispatcher \in cs,
           t \notin {"courier.assigned", "delivery.failed"}, UnderWay(o) => UnderWay(o)'
    PROVE  Dispatched(o)'
  <1>1. /\ Published("courier.assigned", o)' <=> Published("courier.assigned", o)
        /\ Published("delivery.failed", o)' <=> Published("delivery.failed", o)
    BY DEF Told, Topics
  <1>2. \/ Stage(dispatcher, o)' = Stage(dispatcher, o)
        \/ Stage(dispatcher, o)' = "waiting" /\ Stage(dispatcher, o) = "none"
    BY DEF Told
  <1> QED
    BY <1>1, <1>2 DEF Dispatched

LEMMA GivenUpKept ==
    ASSUME NEW o \in Orders, NEW cs, NEW t, Told(cs, o, t), NEW g \in Givers, GivenUp(g, o), g \in cs,
           t # "payment.refund.requested",
           Stage(g, o) \in {"waiting", "recheck", "cancel"} => ~IsTerminal(status'[o]),
           t = TopicOf(g) /\ Stage(g, o) = "none" =>
              ~IsTerminal(status'[o]) /\ ~Published("payment.refund.requested", o)
    PROVE  GivenUp(g, o)'
  <1>1. Published("payment.refund.requested", o)' <=> Published("payment.refund.requested", o)
    BY DEF Told, Topics
  <1>2. Stage(g, o)' = IF Stage(g, o) = "none" /\ TopicOf(g) = t THEN "waiting" ELSE Stage(g, o)
    BY DEF Told
  <1>3. IsTerminal(status[o])' = IsTerminal(status'[o])
    BY DEF IsTerminal
  <1>4. CASE Stage(g, o) = "none"
    BY <1>1, <1>2, <1>3, <1>4 DEF GivenUp
  <1>5. CASE Stage(g, o) # "none"
    BY <1>1, <1>2, <1>3, <1>5 DEF GivenUp
  <1> QED
    BY <1>4, <1>5

LEMMA GivenBackKept ==
    ASSUME NEW o \in Orders, NEW cs, NEW t, Told(cs, o, t), GivenBack(o), refunder \in cs,
           t # "payment.refunded",
           payments'[o] = "REFUNDED" <=> payments[o] = "REFUNDED",
           t = "payment.refund.requested" => payments'[o] # "REFUNDED"
    PROVE  GivenBack(o)'
  <1>1. Published("payment.refunded", o)' <=> Published("payment.refunded", o)
    BY DEF Told, Topics
  <1>2. Stage(refunder, o)' = IF Stage(refunder, o) = "none" /\ t = "payment.refund.requested"
                             THEN "waiting" ELSE Stage(refunder, o)
    BY Roles DEF Told
  <1> QED
    BY <1>1, <1>2 DEF GivenBack

LEMMA ClosedKept ==
    ASSUME NEW o \in Orders, NEW cs, NEW t, Told(cs, o, t), Closed(o), closer \in cs,
           Stage(closer, o) \notin {"none", "waiting", "update"} => status'[o] = status[o]
    PROVE  Closed(o)'
  BY DEF Told, Closed

\* A step that writes no status leaves what depends on it, but for those to
\* whom it brings news.
LEMMA SameStatusKept ==
    ASSUME NEW o \in Orders, NEW cs, NEW t, Told(cs, o, t), Clean(o), status'[o] = status[o]
    PROVE  /\ cashier \in cs /\ t # "order.paid" /\ (t = "payment.processed" => status[o] = "PENDING")
                 => HandedOn(o)'
           /\ failer \in cs => Declined(o)'
           /\ closer \in cs => Closed(o)'
           /\ \A g \in Givers : g \in cs /\ t \notin {"payment.refund.requested", TopicOf(g)}
                 => GivenUp(g, o)'
           /\ t # "order.created" /\ (o \in creating' <=> o \in creating) => Placed(o)'
  <1>1. HandedOn(o) /\ Declined(o) /\ Closed(o) /\ Placed(o) /\ \A g \in Givers : GivenUp(g, o)
    BY DEF Clean
  <1>2. Stage(cashier, o) \in {"waiting", "update"} => status'[o] = "PENDING"
    BY <1>1 DEF HandedOn
  <1>3. \A g \in Givers : Stage(g, o) \in {"waiting", "recheck", "cancel"} => ~IsTerminal(status'[o])
    BY <1>1 DEF GivenUp
  <1>4. cashier \in cs /\ t # "order.paid" /\ (t = "payment.processed" => status[o] = "PENDING")
                 => HandedOn(o)'
    BY <1>1, <1>2, HandedOnKept
  <1>5. \A g \in Givers : g \in cs /\ t \notin {"payment.refund.requested", TopicOf(g)}
                 => GivenUp(g, o)'
    BY <1>1, <1>3, GivenUpKept
  <1> QED
    BY <1>1, <1>4, <1>5, DeclinedKept, ClosedKept, PlacedKept

\* Rides go on when they are not stepped on.
LEMMA UnderWayKept ==
    ASSUME NEW o \in Orders, NEW cs, NEW t, Told(cs, o, t), UNCHANGED <<riding, arrived>>, UnderWay(o)
    PROVE  UnderWay(o)'
  BY DEF UnderWay, Told, Topics

-----------------------------------------------------------------------------
(***************************************************************************)
(* payment-svc.                                                            *)
(***************************************************************************)
\* Without an error the payment is settled once and said to be.
LEMMA ChargerKeepsClean ==
    ASSUME Facts, HandleOrderCreated, NoError, UNCHANGED <<orderVars, cooking, deliveryVars>>,
           NEW p \in Orders, OrderOf(charger) = p, Clean(p)
    PROVE  Clean(p)'
  <1> DEFINE c == charger
  <1>0. /\ BusOK /\ PaymentTypeOK /\ AnnouncesPaid /\ Known /\ StatusIsTold /\ Caused
        /\ c \in Consumers /\ TopicOf(c) = "order.created" /\ errors \in Nat
        /\ Once("order.created", p) /\ Charged(p)
    BY Roles DEF Facts, IInv, Typed, LifeInv, BusOK, BusTypeOK, Clean, Single
  <1>1. pos[c] < Len(log[TopicOf(c)]) /\ Published("order.created", p)
    BY <1>0, HandleOrderCreatedEffect DEF BusEffect, HandlerStep, charger
  <1>2. ~OneError
    BY <1>0 DEF NoError, OneError
  <1>3. ASSUME NEW t, Told(Consumers \ {c}, p, t), Charged(p)',
               \/ t = nothing
               \/ t \in {"payment.processed", "payment.failed"} /\ ~Published(t, p)
                  /\ payments[p] # "NONE" /\ ~Published("payment.processed", p)
                  /\ ~Published("payment.failed", p),
               payments'[p] = payments[p] \/ (payments[p] = "NONE" /\ payments'[p] # "REFUNDED")
        PROVE  Clean(p)'
    <2>1. /\ {cashier, refunder, failer, closer, kitchen, dispatcher} \subseteq Consumers \ {c}
          /\ Givers \subseteq Consumers \ {c}
      BY Roles DEF charger, cashier, refunder, failer, closer, kitchen, dispatcher, Givers
    <2>2. t = "payment.processed" => status[p] = "PENDING"
      BY <1>0, <1>3 DEF Known, StatusIsTold, nothing
    <2>3. \A g \in Givers : t \notin {"payment.refund.requested", TopicOf(g)}
      BY <1>3, Roles DEF Givers, nothing
    <2>4. HandedOn(p)' /\ Declined(p)' /\ Closed(p)' /\ Placed(p)' /\ \A g \in Givers : GivenUp(g, p)'
      BY <1>3, <2>1, <2>2, <2>3, SameStatusKept DEF nothing, orderVars
    <2>5. Cooked(p)' /\ Dispatched(p)'
      BY <1>3, <2>1, CookedKept, DispatchedKept, UnderWayKept DEF Clean, nothing, deliveryVars
    <2>6. GivenBack(p)'
      BY <1>3, <2>1, GivenBackKept DEF Clean, nothing
    <2>7. \A u \in Single : Once(u, p)'
      BY <1>3, OnceKept DEF Clean, nothing, Single
    <2> QED
      BY <1>3, <2>4, <2>5, <2>6, <2>7 DEF Clean
  <1>4. ASSUME NEW s, NEW t, Says(p, t),
               (Finish(c) /\ s = "done") \/ (s \in Steps \ {"idle"} /\ Goto(c, s))
        PROVE  /\ Stage(c, p) = IF pc[c] = "idle" THEN "waiting" ELSE pc[c]
               /\ Stage(c, p)' = s
               /\ Told(Consumers \ {c}, p, t)
    <2>1. pos[c] < Len(log[TopicOf(c)]) /\ Once(TopicOf(c), p)
      BY <1>0, <1>1
    <2> QED
      BY <1>0, <1>4, <2>1, ConsumerMoves
  <1>5. CASE FindPayment(c, p)
    <2>1. Says(p, nothing) /\ pc[c] = "idle" /\ payments'[p] = payments[p]
      BY <1>5 DEF FindPayment, Says, HasMessage
    <2>2. CASE Goto(c, "charge")
      <3>1. Stage(c, p) = "waiting" /\ Stage(c, p)' = "charge" /\ Told(Consumers \ {c}, p, nothing)
        BY <1>4, <2>1, <2>2 DEF Steps
      <3>2. Charged(p)'
        BY <1>0, <2>1, <3>1 DEF Charged, Told, Topics, nothing
      <3> QED
        BY <1>3, <2>1, <3>1, <3>2
    <2>3. CASE PaymentExists(p) /\ Finish(c)
      <3>1. Stage(c, p) = "waiting"
        BY <1>4, <2>1, <2>3
      <3> QED
        BY <1>0, <2>3, <3>1 DEF Charged, PaymentExists
    <2> QED
      BY <1>2, <1>5, <2>2, <2>3 DEF FindPayment
  <1>6. CASE pc[c] = "charge" /\ Decline(c, p)
    <2>1. Says(p, nothing) /\ Goto(c, "publishFailed") /\ Inserted(p, "FAILED")
      BY <1>2, <1>6 DEF Decline, Says
    <2>2. Stage(c, p) = "charge" /\ Stage(c, p)' = "publishFailed" /\ Told(Consumers \ {c}, p, nothing)
      BY <1>4, <1>6, <2>1 DEF Steps
    <2>3. payments[p] = "NONE" /\ payments'[p] = "FAILED"
      BY <1>0, <2>1, <2>2 DEF Charged, Inserted, PaymentTypeOK
    <2>4. Charged(p)'
      BY <1>0, <2>2, <2>3 DEF Charged, Told, Topics, nothing
    <2> QED
      BY <1>3, <2>2, <2>3, <2>4
  <1>7. CASE pc[c] = "charge" /\ Approve(c, p)
    <2>1. Says(p, nothing)
      BY <1>7 DEF Approve, Says
    <2>2. Stage(c, p) = "charge"
      <3>1. \/ Finish(c)
            \/ Goto(c, "publishProcessed")
        BY <1>7 DEF Approve, Returns, Fails, Continue
      <3> QED
        BY <1>4, <1>7, <2>1, <3>1 DEF Steps
    <2>3. payments[p] = "NONE"
      BY <1>0, <2>2 DEF Charged
    <2>4. Goto(c, "publishProcessed") /\ Inserted(p, "SUCCESS")
      BY <1>2, <1>7, <2>3 DEF Approve, Returns, Fails, Continue
    <2>5. Stage(c, p)' = "publishProcessed" /\ Told(Consumers \ {c}, p, nothing)
      BY <1>4, <2>1, <2>4 DEF Steps
    <2>6. payments'[p] = "SUCCESS"
      BY <1>0, <2>3, <2>4 DEF Inserted, PaymentTypeOK
    <2>7. Charged(p)'
      BY <1>0, <2>2, <2>5, <2>6 DEF Charged, Told, Topics, nothing, Paid
    <2> QED
      BY <1>3, <2>3, <2>5, <2>6, <2>7
  <1>8. ASSUME NEW t \in {"payment.processed", "payment.failed"},
               pc[c] = IF t = "payment.processed" THEN "publishProcessed" ELSE "publishFailed",
               Emit(c, t, [order |-> p], "idle", "idle"), UNCHANGED payments
        PROVE  Clean(p)'
    <2>1. Write(t, [order |-> p]) /\ Finish(c)
      BY <1>2, <1>8 DEF Emit, Continue
    <2>2. Says(p, t)
      BY <2>1, PayloadType DEF Says, Topics
    <2>3. Stage(c, p) = pc[c] /\ Stage(c, p)' = "done" /\ Told(Consumers \ {c}, p, t)
      BY <1>4, <1>8, <2>1, <2>2
    <2>4. /\ ~Published("payment.processed", p) /\ ~Published("payment.failed", p)
          /\ IF t = "payment.processed" THEN Paid(p) ELSE payments[p] = "FAILED"
      BY <1>0, <1>8, <2>3 DEF Charged
    <2>5. Charged(p)'
      BY <1>8, <2>3, <2>4 DEF Charged, Told, Topics, Paid
    <2>6. payments[p] # "NONE" /\ payments'[p] = payments[p] /\ ~Published(t, p)
      BY <1>8, <2>4 DEF Paid
    <2> QED
      BY <1>3, <1>8, <2>3, <2>4, <2>5, <2>6
  <1> QED
    BY <1>5, <1>6, <1>7, <1>8 DEF HandleOrderCreated, charger

\* Without an error a refund is made once and said to be.
LEMMA RefunderKeepsClean ==
    ASSUME Facts, HandleRefundRequested, NoError, UNCHANGED <<orderVars, cooking, deliveryVars>>,
           NEW p \in Orders, OrderOf(refunder) = p, Clean(p)
    PROVE  Clean(p)'
  <1> DEFINE c == refunder
  <1>0. /\ BusOK /\ PaymentTypeOK /\ Caused /\ MoneyBack
        /\ c \in Consumers /\ TopicOf(c) = "payment.refund.requested" /\ errors \in Nat
        /\ Once(TopicOf(c), p) /\ GivenBack(p)
    BY Roles DEF Facts, IInv, Typed, LifeInv, BusOK, BusTypeOK, Clean, Single
  <1>1. pos[c] < Len(log[TopicOf(c)]) /\ Published("payment.refund.requested", p)
    BY <1>0, HandleRefundRequestedEffect DEF BusEffect, HandlerStep, refunder
  <1>2. ~OneError
    BY <1>0 DEF NoError, OneError
  <1>3. Paid(p)
    BY <1>0, <1>1, SaidBefore, OneWay
  <1>4. ASSUME NEW t, Told(Consumers \ {c}, p, t), GivenBack(p)', Paid(p)',
               t = nothing \/ (t = "payment.refunded" /\ ~Published(t, p))
        PROVE  Clean(p)'
    <2>1. /\ {charger, cashier, failer, closer, kitchen, dispatcher} \subseteq Consumers \ {c}
          /\ Givers \subseteq Consumers \ {c}
      BY Roles DEF charger, cashier, refunder, failer, closer, kitchen, dispatcher, Givers
    <2>2. \A g \in Givers : t \notin {"payment.refund.requested", TopicOf(g)}
      BY <1>4, Roles DEF Givers, nothing
    <2>3. HandedOn(p)' /\ Declined(p)' /\ Closed(p)' /\ Placed(p)' /\ \A g \in Givers : GivenUp(g, p)'
      BY <1>4, <2>1, <2>2, SameStatusKept DEF nothing, orderVars
    <2>4. Cooked(p)' /\ Dispatched(p)' /\ Charged(p)'
      BY <1>3, <1>4, <2>1, ChargedKept, CookedKept, DispatchedKept, UnderWayKept
         DEF Clean, nothing, deliveryVars
    <2>5. \A u \in Single : Once(u, p)'
      BY <1>4, OnceKept DEF Clean, nothing, Single
    <2> QED
      BY <1>4, <2>3, <2>4, <2>5 DEF Clean
  <1>5. CASE Receive(c, ~CanRefund(p), "markRefunded") /\ UNCHANGED payments
    <2>1. Says(p, nothing) /\ pc[c] = "idle"
      BY <1>5 DEF Receive, Says, HasMessage
    <2>2. Finish(c) \/ Goto(c, "markRefunded")
      BY <1>5 DEF Receive, Fails
    <2>3. Stage(c, p) = "waiting"
      BY <1>0, <1>1, <2>1, <2>2, ConsumerMoves DEF Steps
    <2>4. CanRefund(p)
      BY <1>0, <1>3, <2>3 DEF GivenBack, CanRefund, Paid
    <2>5. Goto(c, "markRefunded")
      BY <1>2, <1>5, <2>4 DEF Receive, Fails
    <2>6. Stage(c, p)' = "markRefunded" /\ Told(Consumers \ {c}, p, nothing)
      BY <1>0, <1>1, <2>1, <2>5, ConsumerMoves DEF Steps
    <2>7. GivenBack(p)' /\ Paid(p)'
      BY <1>3, <1>5, <2>4, <2>6 DEF GivenBack, CanRefund, Paid
    <2> QED
      BY <1>4, <2>6, <2>7
  <1>6. CASE /\ pc[c] = "markRefunded"
             /\ \/ MarkedRefunded(p) /\ Returns(c, "publishRefunded")
                \/ UNCHANGED payments /\ Fails(c)
             /\ UNCHANGED log
    <2>1. Says(p, nothing) /\ Goto(c, "publishRefunded") /\ MarkedRefunded(p)
      BY <1>2, <1>6 DEF Says, Returns, Fails, Continue
    <2>2. /\ Stage(c, p) = "markRefunded" /\ Stage(c, p)' = "publishRefunded"
          /\ Told(Consumers \ {c}, p, nothing)
      BY <1>0, <1>1, <1>6, <2>1, ConsumerMoves DEF Steps
    <2>3. payments[p] = "SUCCESS" /\ payments'[p] = "REFUNDED"
      BY <1>0, <1>3, <2>1, <2>2 DEF GivenBack, Paid, MarkedRefunded, PaymentTypeOK
    <2>4. ~Published("payment.refunded", p)'
      BY <1>0, <2>2, <2>3 DEF MoneyBack, Told, Topics, nothing
    <2>5. GivenBack(p)' /\ Paid(p)'
      BY <2>2, <2>3, <2>4 DEF GivenBack, Paid
    <2> QED
      BY <1>4, <2>2, <2>5
  <1>7. CASE /\ pc[c] = "publishRefunded"
             /\ Emit(c, "payment.refunded", [order |-> p], "idle", "idle")
             /\ UNCHANGED payments
    <2>1. Write("payment.refunded", [order |-> p]) /\ Finish(c)
      BY <1>2, <1>7 DEF Emit, Continue
    <2>2. Says(p, "payment.refunded")
      BY <2>1, PayloadType DEF Says, Topics
    <2>3. /\ Stage(c, p) = "publishRefunded" /\ Stage(c, p)' = "done"
          /\ Told(Consumers \ {c}, p, "payment.refunded")
          /\ Published("payment.refunded", p)'
      BY <1>0, <1>1, <1>7, <2>1, <2>2, ConsumerMoves DEF Topics
    <2>4. ~Published("payment.refunded", p) /\ GivenBack(p)' /\ Paid(p)'
      BY <1>0, <1>3, <1>7, <2>3 DEF GivenBack, Paid
    <2> QED
      BY <1>4, <2>3, <2>4
  <1> QED
    BY <1>5, <1>6, <1>7 DEF HandleRefundRequested, refunder

-----------------------------------------------------------------------------
(***************************************************************************)
(* restaurant-svc.                                                         *)
(***************************************************************************)
\* An order that nobody has given up yet is open.
LEMMA StillOpen ==
    ASSUME Facts, NEW p \in Orders, Clean(p), Published("payment.processed", p),
           ~Published("order.preparation.failed", p), ~Published("delivery.failed", p),
           ~Published("order.delivered", p)
    PROVE  ~IsTerminal(status[p]) /\ ~Published("payment.refund.requested", p)
  <1>1. Caused
    BY DEF Facts, LifeInv
  <1> QED
    BY <1>1, OneWay, SaidBefore

\* What restaurant-svc and delivery-svc do concerns those who wait for it.
LEMMA KitchenTells ==
    ASSUME Facts, NEW p \in Orders, Clean(p), UNCHANGED <<orderVars, payments>>,
           NEW cs, Consumers \ {kitchen, dispatcher} \subseteq cs,
           NEW t, Told(cs, p, t), Cooked(p)', Dispatched(p)',
           t \in {nothing, "order.ready", "order.preparation.failed", "courier.assigned",
                  "delivery.failed", "order.delivered"},
           t \in Single => ~Published(t, p) /\ ~IsTerminal(status[p])
                           /\ ~Published("payment.refund.requested", p)
    PROVE  Clean(p)'
  <1>1. /\ {charger, cashier, refunder, failer, closer} \subseteq cs
        /\ Givers \subseteq cs
    BY Roles DEF charger, cashier, refunder, failer, closer, kitchen, dispatcher, Givers
  <1>2. HandedOn(p)' /\ Declined(p)' /\ Closed(p)' /\ Placed(p)'
    BY <1>1, SameStatusKept DEF nothing, orderVars
  <1>3. ASSUME NEW g \in Givers PROVE GivenUp(g, p)'
    <2>1. GivenUp(g, p) /\ g \in cs
      BY <1>1 DEF Clean
    <2>2. Stage(g, p) \in {"waiting", "recheck", "cancel"} => ~IsTerminal(status'[p])
      BY <2>1 DEF GivenUp, orderVars
    <2>3. t = TopicOf(g) => t \in Single
      BY Roles DEF Givers, Single
    <2> QED
      BY <2>1, <2>2, <2>3, GivenUpKept DEF orderVars, nothing
  <1>4. Charged(p)' /\ GivenBack(p)'
    BY <1>1, ChargedKept, GivenBackKept DEF Clean, nothing
  <1>5. \A u \in Single : Once(u, p)'
    BY OnceKept DEF Clean, nothing, Single
  <1> QED
    BY <1>2, <1>3, <1>4, <1>5 DEF Clean

\* Without an error a paid order is cooked or refused, once.
LEMMA KitchenKeepsClean ==
    ASSUME Facts, HandleOrderPaid, NoError, UNCHANGED <<orderVars, payments, deliveryVars>>,
           NEW p \in Orders, OrderOf(kitchen) = p, Clean(p)
    PROVE  Clean(p)'
  <1> DEFINE c == kitchen
  <1>0. /\ BusOK /\ RestaurantTypeOK /\ Caused
        /\ c \in Consumers /\ TopicOf(c) = "order.paid" /\ errors \in Nat
        /\ Once(TopicOf(c), p) /\ Cooked(p) /\ Dispatched(p)
    BY Roles DEF Facts, IInv, Typed, LifeInv, BusOK, BusTypeOK, Clean, Single
  <1>1. pos[c] < Len(log[TopicOf(c)]) /\ Published("order.paid", p)
    BY <1>0, HandleOrderPaidEffect DEF BusEffect, HandlerStep, kitchen
  <1>2. ~OneError
    BY <1>0 DEF NoError, OneError
  <1>3. ASSUME NEW t, Told(Consumers \ {c}, p, t), Cooked(p)',
               \/ t = nothing
               \/ /\ t = "order.preparation.failed"
                  /\ ~Published("order.preparation.failed", p) /\ ~Published("order.ready", p)
        PROVE  Clean(p)'
    <2>1. dispatcher \in Consumers \ {c}
      BY Roles DEF kitchen, dispatcher
    <2>2. Dispatched(p)'
      BY <1>0, <1>3, <2>1, DispatchedKept, UnderWayKept DEF nothing, deliveryVars
    <2>3. t # nothing => ~IsTerminal(status[p]) /\ ~Published("payment.refund.requested", p)
      BY <1>0, <1>1, <1>3, SaidBefore, StillOpen
    <2> QED
      BY <1>3, <2>2, <2>3, KitchenTells DEF nothing, Single
  <1>4. CASE /\ HasMessage(c)
             /\ \/ Finish(c) /\ cooking' = [cooking EXCEPT ![p] = @ + 1]
                \/ Goto(c, "publishFailed") /\ UNCHANGED cooking
             /\ UNCHANGED <<log, errors>>
    <2>1. Says(p, nothing) /\ pc[c] = "idle"
      BY <1>4 DEF Says, HasMessage
    <2>2. CASE Finish(c) /\ cooking' = [cooking EXCEPT ![p] = @ + 1]
      <3>1. /\ Stage(c, p) = "waiting" /\ Stage(c, p)' = "done"
            /\ Told(Consumers \ {c}, p, nothing)
        BY <1>0, <1>1, <2>1, <2>2, ConsumerMoves
      <3>2. cooking[p] = 0 /\ cooking'[p] = 1
        BY <1>0, <2>2, <3>1 DEF Cooked, RestaurantTypeOK
      <3>3. Cooked(p)'
        BY <1>0, <3>1, <3>2 DEF Cooked, Told, Topics, nothing
      <3> QED
        BY <1>3, <3>1, <3>3
    <2>3. CASE Goto(c, "publishFailed") /\ UNCHANGED cooking
      <3>1. /\ Stage(c, p) = "waiting" /\ Stage(c, p)' = "publishFailed"
            /\ Told(Consumers \ {c}, p, nothing)
        BY <1>0, <1>1, <2>1, <2>3, ConsumerMoves DEF Steps
      <3>2. Cooked(p)'
        BY <1>0, <2>3, <3>1 DEF Cooked, Told, Topics, nothing
      <3> QED
        BY <1>3, <3>1, <3>2
    <2> QED
      BY <1>4, <2>2, <2>3
  <1>5. CASE /\ pc[c] = "publishFailed"
             /\ Emit(c, "order.preparation.failed", [order |-> p], "idle", "idle")
             /\ UNCHANGED cooking
    <2>1. Write("order.preparation.failed", [order |-> p]) /\ Finish(c)
      BY <1>2, <1>5 DEF Emit, Continue
    <2>2. Says(p, "order.preparation.failed")
      BY <2>1, PayloadType DEF Says, Topics
    <2>3. /\ Stage(c, p) = "publishFailed" /\ Stage(c, p)' = "done"
          /\ Told(Consumers \ {c}, p, "order.preparation.failed")
      BY <1>0, <1>1, <1>5, <2>1, <2>2, ConsumerMoves
    <2>4. ~Published("order.preparation.failed", p) /\ ~Published("order.ready", p)
      BY <1>0, <2>3 DEF Cooked
    <2>5. Cooked(p)'
      BY <1>0, <1>5, <2>3, <2>4 DEF Cooked, Told, Topics
    <2> QED
      BY <1>3, <2>3, <2>4, <2>5
  <1> QED
    BY <1>4, <1>5 DEF HandleOrderPaid, kitchen

\* Without an error a dish that is ready is announced once.
LEMMA DishKeepsClean ==
    ASSUME Facts, NEW p \in Orders, DishReady(p), NoError,
           UNCHANGED <<orderVars, payments, deliveryVars>>, Clean(p)
    PROVE  Clean(p)'
  <1>0. /\ BusOK /\ RestaurantTypeOK /\ Caused /\ errors \in Nat
        /\ Cooked(p) /\ Dispatched(p) /\ {kitchen, dispatcher} \subseteq Consumers
    BY Roles DEF Facts, IInv, Typed, LifeInv, BusOK, BusTypeOK, Clean
  <1>1. /\ Write("order.ready", [order |-> p])
        /\ cooking' = [cooking EXCEPT ![p] = @ - 1] /\ cooking[p] > 0
        /\ UNCHANGED <<pc, pos>>
    BY <1>0 DEF DishReady, EmitAndForget, NoError, OneError
  <1>2. Says(p, "order.ready")
    BY <1>1, PayloadType DEF Says, Topics
  <1>3. Told(Consumers, p, "order.ready")
    BY <1>0, <1>1, <1>2, GoroutineHeard
  <1>4. /\ Stage(kitchen, p) = "done" /\ cooking[p] = 1 /\ cooking'[p] = 0
        /\ ~Published("order.ready", p) /\ ~Published("order.preparation.failed", p)
    BY <1>0, <1>1 DEF Cooked, RestaurantTypeOK
  <1>5. Cooked(p)'
    BY <1>0, <1>3, <1>4 DEF Cooked, Told, Topics
  <1>6. Dispatched(p)'
    BY <1>0, <1>3, DispatchedKept, UnderWayKept DEF deliveryVars
  <1>7. Published("order.paid", p) /\ Published("payment.processed", p)
    BY <1>0, <1>4, NothingSaid, SaidBefore
  <1>8. ~IsTerminal(status[p]) /\ ~Published("payment.refund.requested", p)
    BY <1>0, <1>4, <1>7, SaidBefore, StillOpen
  <1> QED
    BY <1>3, <1>4, <1>5, <1>6, <1>8, KitchenTells

-----------------------------------------------------------------------------
(***************************************************************************)
(* delivery-svc.                                                           *)
(***************************************************************************)
\* Without an error a ready order gets a courier or is given up, once.
LEMMA DispatcherKeepsClean ==
    ASSUME Facts, HandleOrderReady, NoError, UNCHANGED <<orderVars, payments, cooking>>,
           NEW p \in Orders, OrderOf(dispatcher) = p, Clean(p)
    PROVE  Clean(p)'
  <1> DEFINE c == dispatcher
  <1>0. /\ BusOK /\ DeliveryTypeOK /\ ChosenOK /\ Caused
        /\ c \in Consumers /\ TopicOf(c) = "order.ready" /\ errors \in Nat
        /\ Once(TopicOf(c), p) /\ Cooked(p) /\ Dispatched(p)
    BY Roles DEF Facts, IInv, Typed, LifeInv, BusOK, BusTypeOK, Clean, Single
  <1>1. pos[c] < Len(log[TopicOf(c)]) /\ Published("order.ready", p) /\ UNCHANGED arrived
    BY <1>0, HandleOrderReadyEffect DEF BusEffect, HandlerStep, dispatcher
  <1>2. ~OneError
    BY <1>0 DEF NoError, OneError
  <1>3. ASSUME NEW t, Told(Consumers \ {c}, p, t), Dispatched(p)',
               \/ t = nothing
               \/ /\ t \in {"courier.assigned", "delivery.failed"}
                  /\ ~Published("courier.assigned", p) /\ ~Published("delivery.failed", p)
        PROVE  Clean(p)'
    <2>1. kitchen \in Consumers \ {c}
      BY Roles DEF kitchen, dispatcher
    <2>2. Cooked(p)'
      BY <1>0, <1>3, <2>1, CookedKept DEF nothing
    <2>3. ~Published("order.preparation.failed", p)
      BY <1>1, OneWay
    <2>4. t # nothing => ~IsTerminal(status[p]) /\ ~Published("payment.refund.requested", p)
      BY <1>0, <1>1, <1>3, <2>3, SaidBefore, StillOpen
    <2> QED
      BY <1>3, <2>2, <2>4, KitchenTells DEF nothing, Single
  <1>4. ASSUME NEW s, s \in {"setBusy", "publishAssigned", "publishFailed"},
               Goto(c, s), UNCHANGED log,
               pc[c] \in {"idle", "setBusy"}
        PROVE  Clean(p)'
    <2>1. Says(p, nothing)
      BY <1>4 DEF Says
    <2>2. /\ Stage(c, p) = IF pc[c] = "idle" THEN "waiting" ELSE pc[c]
          /\ Stage(c, p)' = s /\ Told(Consumers \ {c}, p, nothing)
      BY <1>0, <1>1, <1>4, <2>1, ConsumerMoves DEF Steps
    <2>3. ~Published("courier.assigned", p) /\ ~Published("delivery.failed", p)
      BY <1>0, <1>4, <2>2 DEF Dispatched
    <2>4. Dispatched(p)'
      BY <1>4, <2>2, <2>3 DEF Dispatched, Told, Topics, nothing
    <2> QED
      BY <1>3, <2>2, <2>4
  <1>5. CASE FindAvailableCourier(c)
    BY <1>2, <1>4, <1>5 DEF FindAvailableCourier, HasMessage
  <1>6. CASE MarkBusy(c)
    BY <1>2, <1>4, <1>6 DEF MarkBusy, Returns, Fails, Continue
  <1>7. CASE pc[c] = "publishFailed" /\ Emit(c, "delivery.failed", [order |-> p], "idle", "idle")
    <2>1. Write("delivery.failed", [order |-> p]) /\ Finish(c)
      BY <1>2, <1>7 DEF Emit, Continue
    <2>2. Says(p, "delivery.failed")
      BY <2>1, PayloadType DEF Says, Topics
    <2>3. /\ Stage(c, p) = "publishFailed" /\ Stage(c, p)' = "done"
          /\ Told(Consumers \ {c}, p, "delivery.failed")
      BY <1>0, <1>1, <1>7, <2>1, <2>2, ConsumerMoves
    <2>4. ~Published("courier.assigned", p) /\ ~Published("delivery.failed", p)
      BY <1>0, <2>3 DEF Dispatched
    <2>5. Dispatched(p)'
      BY <2>3, <2>4 DEF Dispatched, Told, Topics
    <2> QED
      BY <1>3, <2>3, <2>4, <2>5
  <1>8. CASE Assign(c, p)
    <2>1. /\ Write("courier.assigned", [order |-> p, courier |-> chosen]) /\ Finish(c)
          /\ pc[c] = "publishAssigned"
      BY <1>2, <1>8 DEF Assign, Emit, Continue
    <2>2. chosen \in Couriers /\ pc'[c] = "idle"
      BY <1>0, <2>1 DEF ChosenOK, dispatcher, Finish, BusOK, BusTypeOK
    <2>3. Says(p, "courier.assigned")
      BY <2>1, <2>2, PayloadType DEF Says, Topics
    <2>4. /\ Stage(c, p) = "publishAssigned" /\ Stage(c, p)' = "done"
          /\ Told(Consumers \ {c}, p, "courier.assigned")
      BY <1>0, <1>1, <2>1, <2>3, ConsumerMoves
    <2>5. ~Published("courier.assigned", p) /\ ~Published("delivery.failed", p)
      BY <1>0, <2>4 DEF Dispatched
    <2>6. riding'[chosen][p] > 0
      BY <1>0, <1>8, <2>2 DEF Assign, DeliveryTypeOK
    <2>7. UnderWay(p)'
      BY <2>2, <2>6 DEF UnderWay
    <2>8. Dispatched(p)'
      BY <2>4, <2>5, <2>7 DEF Dispatched, Told, Topics
    <2> QED
      BY <1>3, <2>4, <2>5, <2>8
  <1>9. CASE Unassign(c)
    <2>1. Says(p, nothing) /\ Finish(c) /\ pc[c] = "release"
      BY <1>9 DEF Says, Unassign
    <2>2. Stage(c, p) = "release"
      BY <1>0, <1>1, <2>1, ConsumerMoves
    <2> QED
      BY <1>0, <2>2 DEF Dispatched
  <1> QED
    BY <1>5, <1>6, <1>7, <1>8, <1>9 DEF HandleOrderReady, dispatcher

\* A ride ends and its end is announced: the order is under way or delivered.
LEMMA RideKeepsClean ==
    ASSUME Facts, NEW p \in Orders, NoError, UNCHANGED <<orderVars, payments, cooking>>,
           (\E k \in Couriers : RideEnds(k, p)) \/ PublishDelivered(p), Clean(p)
    PROVE  Clean(p)'
  <1>0. /\ BusOK /\ DeliveryTypeOK /\ errors \in Nat
        /\ Cooked(p) /\ Dispatched(p) /\ {kitchen, dispatcher} \subseteq Consumers
    BY Roles DEF Facts, IInv, Typed, BusOK, BusTypeOK, Clean
  <1>1. ASSUME NEW t \in {nothing, "order.delivered"}, Says(p, t), UNCHANGED <<pc, pos>>,
               UnderWay(p)'
        PROVE  Clean(p)'
    <2>1. Told(Consumers, p, t)
      BY <1>0, <1>1, GoroutineHeard
    <2>2. Cooked(p)' /\ Dispatched(p)'
      BY <1>0, <1>1, <2>1, CookedKept, DispatchedKept DEF nothing
    <2> QED
      BY <2>1, <2>2, KitchenTells DEF nothing, Single
  <1>2. ASSUME NEW k \in Couriers, RideEnds(k, p) PROVE Clean(p)'
    <2>1. Says(p, nothing) /\ UNCHANGED <<pc, pos>> /\ arrived'[p] > 0
      BY <1>0, <1>2 DEF RideEnds, Says, DeliveryTypeOK
    <2> QED
      BY <1>1, <2>1 DEF UnderWay
  <1>3. CASE PublishDelivered(p)
    <2>1. Write("order.delivered", [order |-> p]) /\ UNCHANGED <<pc, pos>>
      BY <1>0, <1>3 DEF PublishDelivered, EmitAndForget, NoError, OneError
    <2>2. Says(p, "order.delivered")
      BY <2>1, PayloadType DEF Says, Topics
    <2>3. Published("order.delivered", p)'
      BY <1>0, <2>2, SaysPublishes DEF Topics
    <2> QED
      BY <1>1, <2>1, <2>2, <2>3 DEF UnderWay
  <1> QED
    BY <1>2, <1>3

-----------------------------------------------------------------------------
(***************************************************************************)
(* order-svc.                                                              *)
(***************************************************************************)
\* What order-svc says and writes concerns its own consumers most of all.
LEMMA StatusTells ==
    ASSUME Facts, NEW p \in Orders, Clean(p), UNCHANGED <<payments, cooking, deliveryVars, creating>>,
           NEW cs, {charger, refunder, kitchen, dispatcher} \subseteq cs,
           NEW t, Told(cs, p, t),
           t \in {nothing, "order.paid", "order.cancelled", "order.status.changed",
                  "payment.refund.requested"},
           t \in Single => ~Published(t, p),
           status[p] # "NONE",
           HandedOn(p)', Declined(p)', Closed(p)', \A g \in Givers : GivenUp(g, p)'
    PROVE  Clean(p)'
  <1>1. Requested
    BY DEF Facts, LifeInv
  <1>2. Placed(p)' /\ Charged(p)'
    BY PlacedKept, ChargedKept DEF Clean, nothing
  <1>3. Cooked(p)' /\ Dispatched(p)'
    BY CookedKept, DispatchedKept, UnderWayKept DEF Clean, nothing, deliveryVars
  <1>4. t = "payment.refund.requested" => payments[p] # "REFUNDED"
    BY <1>1 DEF Requested, Single
  <1>5. GivenBack(p)'
    BY <1>4, GivenBackKept DEF Clean, nothing
  <1>6. \A u \in Single : Once(u, p)'
    BY OnceKept DEF Clean
  <1> QED
    BY <1>2, <1>3, <1>5, <1>6 DEF Clean

\* Without an error a charged order is handed on, once.
LEMMA CashierKeepsClean ==
    ASSUME Facts, HandlePaymentProcessed, NoError, UNCHANGED <<payments, cooking, deliveryVars>>,
           NEW p \in Orders, OrderOf(cashier) = p, Clean(p)
    PROVE  Clean(p)'
  <1> DEFINE c == cashier
  <1>0. /\ BusOK /\ OrderTypeOK /\ Caused /\ Known
        /\ c \in Consumers /\ TopicOf(c) = "payment.processed" /\ errors \in Nat
        /\ Once(TopicOf(c), p) /\ HandedOn(p) /\ Declined(p) /\ Closed(p)
        /\ \A g \in Givers : GivenUp(g, p)
    BY Roles DEF Facts, IInv, Typed, LifeInv, BusOK, BusTypeOK, Clean, Single
  <1>1. /\ pos[c] < Len(log[TopicOf(c)]) /\ Published("payment.processed", p)
        /\ UNCHANGED creating
    BY <1>0, HandlePaymentProcessedEffect
       DEF StatusEffect, BusEffect, HandlerStep, cashier, HandlePaymentProcessed
  <1>2. ~OneError
    BY <1>0 DEF NoError, OneError
  <1>3. ~Published("payment.failed", p) /\ status[p] # "NONE"
    BY <1>0, <1>1, OneWay DEF Known, Topics
  <1>4. ASSUME NEW t, Told(Consumers \ {c}, p, t), HandedOn(p)',
               \/ t \in {nothing, "order.status.changed"}
               \/ t = "order.paid" /\ ~Published("order.paid", p),
               status'[p] = status[p] \/ ~Published("order.paid", p)
        PROVE  Clean(p)'
    <2>1. /\ {charger, refunder, failer, closer, kitchen, dispatcher} \subseteq Consumers \ {c}
          /\ Givers \subseteq Consumers \ {c}
      BY Roles DEF charger, cashier, refunder, failer, closer, kitchen, dispatcher, Givers
    <2>2. /\ Stage(failer, p) = "none"
          /\ ~Published("order.paid", p) =>
                Stage(closer, p) = "none" /\ \A g \in Givers : Stage(g, p) = "none"
      BY <1>0, <1>3, NothingSaid, SaidBefore, Roles DEF Givers
    <2>3. Declined(p)' /\ Closed(p)'
      BY <1>0, <1>4, <2>1, <2>2, DeclinedKept, ClosedKept
    <2>4. ASSUME NEW g \in Givers PROVE GivenUp(g, p)'
      <3>1. Stage(g, p) \in {"waiting", "recheck", "cancel"} => ~IsTerminal(status'[p])
        BY <1>0, <1>4, <2>2 DEF GivenUp
      <3>2. t \notin {TopicOf(g), "payment.refund.requested"}
        BY <1>4, Roles DEF Givers, nothing
      <3> QED
        BY <1>0, <1>4, <2>1, <3>1, <3>2, GivenUpKept
    <2> QED
      BY <1>1, <1>3, <1>4, <2>1, <2>3, <2>4, StatusTells DEF Single, nothing
  <1>5. CASE Receive(c, AlreadyPaid(p), "update") /\ UNCHANGED status
    <2>1. Says(p, nothing) /\ pc[c] = "idle" /\ (Finish(c) \/ Goto(c, "update"))
      BY <1>5 DEF Receive, Says, HasMessage, Fails
    <2>2. Stage(c, p) = "waiting"
      BY <1>0, <1>1, <2>1, ConsumerMoves DEF Steps
    <2>3. status[p] = "PENDING" /\ ~Published("order.paid", p)
      BY <1>0, <2>2 DEF HandedOn
    <2>4. Goto(c, "update")
      BY <1>2, <1>5, <2>3 DEF Receive, Fails, AlreadyPaid, IsTerminal
    <2>5. Stage(c, p)' = "update" /\ Told(Consumers \ {c}, p, nothing)
      BY <1>0, <1>1, <2>1, <2>4, ConsumerMoves DEF Steps
    <2>6. HandedOn(p)'
      BY <1>5, <2>3, <2>5 DEF HandedOn, Told, Topics, nothing
    <2> QED
      BY <1>4, <2>3, <2>5, <2>6
  <1>6. CASE pc[c] = "update" /\ UpdateStatus(c, p, "PAID", "publish")
    <2>1. Says(p, nothing) /\ Goto(c, "publish")
      BY <1>2, <1>6 DEF UpdateStatus, Returns, Fails, Continue, Says
    <2>2. /\ Stage(c, p) = "update" /\ Stage(c, p)' = "publish"
          /\ Told(Consumers \ {c}, p, nothing)
      BY <1>0, <1>1, <1>6, <2>1, ConsumerMoves DEF Steps
    <2>3. ~Published("order.paid", p)
      BY <1>0, <2>2 DEF HandedOn
    <2>4. HandedOn(p)'
      BY <2>2, <2>3 DEF HandedOn, Told, Topics, nothing
    <2> QED
      BY <1>4, <2>2, <2>3, <2>4
  <1>7. CASE /\ pc[c] = "publish"
             /\ Emit(c, "order.paid", [order |-> p], "announce", "idle")
             /\ UNCHANGED status
    <2>1. Write("order.paid", [order |-> p]) /\ Goto(c, "announce")
      BY <1>2, <1>7 DEF Emit, Continue
    <2>2. Says(p, "order.paid")
      BY <2>1, PayloadType DEF Says, Topics
    <2>3. /\ Stage(c, p) = "publish" /\ Stage(c, p)' = "announce"
          /\ Told(Consumers \ {c}, p, "order.paid") /\ Published("order.paid", p)'
      BY <1>0, <1>1, <1>7, <2>1, <2>2, ConsumerMoves DEF Steps, Topics
    <2>4. ~Published("order.paid", p) /\ HandedOn(p)'
      BY <1>0, <2>3 DEF HandedOn
    <2> QED
      BY <1>4, <2>3, <2>4
  <1>8. CASE pc[c] = "announce" /\ PublishStatus(c, p, "PAID", "idle")
    <2>1. /\ Write("order.status.changed", [order |-> p, status |-> "PAID"]) /\ Finish(c)
          /\ UNCHANGED status
      BY <1>2, <1>8 DEF PublishStatus, Emit, Continue
    <2>2. Says(p, "order.status.changed")
      BY <2>1, PayloadType DEF Says, Topics, Statuses
    <2>3. /\ Stage(c, p) = "announce" /\ Stage(c, p)' = "done"
          /\ Told(Consumers \ {c}, p, "order.status.changed")
      BY <1>0, <1>1, <1>8, <2>1, <2>2, ConsumerMoves
    <2>4. HandedOn(p)'
      BY <1>0, <2>3 DEF HandedOn, Told, Topics
    <2> QED
      BY <1>4, <2>1, <2>3, <2>4
  <1> QED
    BY <1>5, <1>6, <1>7, <1>8 DEF HandlePaymentProcessed, cashier

\* Without an error a declined order ends up cancelled.
LEMMA FailerKeepsClean ==
    ASSUME Facts, HandlePaymentFailed, NoError, UNCHANGED <<payments, cooking, deliveryVars>>,
           NEW p \in Orders, OrderOf(failer) = p, Clean(p)
    PROVE  Clean(p)'
  <1> DEFINE c == failer
  <1>0. /\ BusOK /\ OrderTypeOK /\ Caused /\ Known /\ StatusIsTold /\ MoneyBack /\ CancelRefunds
        /\ c \in Consumers /\ TopicOf(c) = "payment.failed" /\ errors \in Nat
        /\ Once(TopicOf(c), p) /\ HandedOn(p) /\ Declined(p) /\ Closed(p)
        /\ \A g \in Givers : GivenUp(g, p)
    BY Roles DEF Facts, IInv, Typed, LifeInv, BusOK, BusTypeOK, Clean, Single
  <1>1. /\ pos[c] < Len(log[TopicOf(c)]) /\ Published("payment.failed", p)
        /\ UNCHANGED creating
    BY <1>0, HandlePaymentFailedEffect
       DEF StatusEffect, BusEffect, HandlerStep, failer, HandlePaymentFailed
  <1>2. ~OneError
    BY <1>0 DEF NoError, OneError
  <1>3. payments[p] = "FAILED" /\ ~Published("payment.processed", p) /\ status[p] # "NONE"
    BY <1>0, <1>1, OneWay DEF Known, Topics
  <1>4. IsTerminal(status[p]) => status[p] = "CANCELLED"
    BY <1>0, <1>3, SaidBefore DEF IsTerminal, MoneyBack, StatusIsTold
  <1>5. ASSUME NEW t, Told(Consumers \ {c}, p, t), Declined(p)',
               t \in {nothing, "order.status.changed", "order.cancelled"}
        PROVE  Clean(p)'
    <2>1. /\ {charger, refunder, cashier, closer, kitchen, dispatcher} \subseteq Consumers \ {c}
          /\ Givers \subseteq Consumers \ {c}
      BY Roles DEF charger, cashier, refunder, failer, closer, kitchen, dispatcher, Givers
    <2>2. /\ Stage(cashier, p) = "none" /\ Stage(closer, p) = "none"
          /\ \A g \in Givers : Stage(g, p) = "none"
      BY <1>0, <1>3, NothingSaid, SaidBefore, Roles DEF Givers
    <2>3. HandedOn(p)' /\ Closed(p)'
      BY <1>0, <1>5, <2>1, <2>2, HandedOnKept, ClosedKept DEF nothing
    <2>4. ASSUME NEW g \in Givers PROVE GivenUp(g, p)'
      <3>1. t \notin {TopicOf(g), "payment.refund.requested"}
        BY <1>5, Roles DEF Givers, nothing
      <3> QED
        BY <1>0, <1>5, <2>1, <2>2, <3>1, GivenUpKept
    <2> QED
      BY <1>1, <1>3, <1>5, <2>1, <2>3, <2>4, StatusTells DEF Single, nothing
  <1>6. CASE Receive(c, AlreadyCancelled(p), "cancel") /\ UNCHANGED status
    <2>1. Says(p, nothing) /\ pc[c] = "idle"
      BY <1>6 DEF Receive, Says, HasMessage
    <2>2. CASE Goto(c, "cancel")
      <3>1. Stage(c, p)' = "cancel" /\ Told(Consumers \ {c}, p, nothing)
        BY <1>0, <1>1, <2>1, <2>2, ConsumerMoves DEF Steps
      <3>2. Declined(p)'
        BY <3>1 DEF Declined
      <3> QED
        BY <1>5, <3>1, <3>2
    <2>3. CASE AlreadyCancelled(p) /\ Finish(c)
      <3>1. Told(Consumers \ {c}, p, nothing)
        BY <1>0, <1>1, <2>1, <2>3, ConsumerMoves
      <3>2. Declined(p)'
        BY <1>4, <1>6, <2>3 DEF Declined, AlreadyCancelled
      <3> QED
        BY <1>5, <3>1, <3>2
    <2> QED
      BY <1>2, <1>6, <2>2, <2>3 DEF Receive, Fails
  <1>7. CASE pc[c] = "cancel" /\ UpdateStatus(c, p, "CANCELLED", "announceCancel")
    <2>1. Says(p, nothing) /\ Goto(c, "announceCancel") /\ status'[p] = "CANCELLED"
      BY <1>0, <1>2, <1>7 DEF UpdateStatus, Returns, Fails, Continue, Says, OrderTypeOK
    <2>2. Told(Consumers \ {c}, p, nothing)
      BY <1>0, <1>1, <1>7, <2>1, ConsumerMoves DEF Steps
    <2> QED
      BY <1>5, <2>1, <2>2 DEF Declined
  <1>8. ASSUME NEW t \in {"order.status.changed", "order.cancelled"}, Says(p, t), UNCHANGED status,
               pc[c] \in {"announceCancel", "publishCancelled"},
               Finish(c) \/ Goto(c, "publishCancelled")
        PROVE  Clean(p)'
    <2>1. Stage(c, p) = pc[c] /\ Told(Consumers \ {c}, p, t)
      BY <1>0, <1>1, <1>8, ConsumerMoves DEF Steps
    <2>2. status[p] = "CANCELLED"
      BY <1>0, <1>8, <2>1 DEF Declined
    <2> QED
      BY <1>5, <1>8, <2>1, <2>2 DEF Declined
  <1>9. CASE pc[c] = "announceCancel" /\ PublishStatus(c, p, "CANCELLED", "publishCancelled")
    <2>1. /\ Write("order.status.changed", [order |-> p, status |-> "CANCELLED"])
          /\ Goto(c, "publishCancelled") /\ UNCHANGED status
      BY <1>2, <1>9 DEF PublishStatus, Emit, Continue
    <2>2. Says(p, "order.status.changed")
      BY <2>1, PayloadType DEF Says, Topics, Statuses
    <2> QED
      BY <1>8, <1>9, <2>1, <2>2
  <1>10. CASE /\ pc[c] = "publishCancelled"
              /\ Emit(c, "order.cancelled", [order |-> p, refundRequired |-> refund[c]],
                      AfterCancel(c), "idle")
              /\ UNCHANGED status
    <2>1. refund[c] = FALSE
      BY <1>0 DEF CancelRefunds, OrderTypeOK, CancelGroups, failer
    <2>2. /\ Write("order.cancelled", [order |-> p, refundRequired |-> FALSE])
          /\ Finish(c)
      BY <1>2, <1>10, <2>1 DEF Emit, Continue, AfterCancel
    <2>3. Says(p, "order.cancelled")
      BY <2>2, PayloadType DEF Says, Topics
    <2> QED
      BY <1>8, <1>10, <2>2, <2>3
  <1> QED
    BY <1>6, <1>7, <1>9, <1>10 DEF HandlePaymentFailed, CancelOrder, failer

\* Without an error an order that is given up is cancelled, and its refund is
\* asked for, once.
LEMMA GiverKeepsClean ==
    ASSUME Facts, NEW c \in Givers, CancelWithRefund(c), NoError,
           UNCHANGED <<payments, cooking, deliveryVars>>,
           NEW p \in Orders, OrderOf(c) = p, Clean(p)
    PROVE  Clean(p)'
  <1>0. /\ BusOK /\ OrderTypeOK /\ Caused /\ Known /\ CancelRefunds
        /\ c \in Consumers /\ errors \in Nat
        /\ TopicOf(c) \in {"order.preparation.failed", "delivery.failed"}
        /\ Once(TopicOf(c), p) /\ HandedOn(p) /\ Declined(p) /\ Closed(p)
        /\ \A g \in Givers : GivenUp(g, p)
    <2>1. c \in Consumers /\ TopicOf(c) \in {"order.preparation.failed", "delivery.failed"}
      BY Roles DEF Givers
    <2>2. Once(TopicOf(c), p)
      BY <2>1 DEF Clean, Single
    <2> QED
      BY <2>1, <2>2 DEF Facts, IInv, Typed, LifeInv, BusOK, BusTypeOK, Clean
  <1>1. /\ pos[c] < Len(log[TopicOf(c)]) /\ Published(TopicOf(c), p)
        /\ UNCHANGED creating
    BY <1>0, CancelWithRefundEffect
       DEF StatusEffect, BusEffect, HandlerStep, Givers, CancelWithRefund
  <1>2. ~OneError
    BY <1>0 DEF NoError, OneError
  <1>3. /\ Published("order.paid", p) /\ Published("payment.processed", p)
        /\ ~Published("payment.failed", p) /\ status[p] # "NONE"
        /\ \A g \in Givers \ {c} : Stage(g, p) = "none"
    <2>1. Published("order.paid", p) /\ Published("payment.processed", p)
      BY <1>0, <1>1, SaidBefore
    <2>2. ~Published("payment.failed", p) /\ status[p] # "NONE"
      BY <1>0, <2>1, OneWay DEF Known, Topics
    <2>3. \A g \in Givers \ {c} : ~Published(TopicOf(g), p)
      BY <1>0, <1>1, SaidBefore, OneWay, Roles DEF Givers
    <2> QED
      BY <1>0, <2>1, <2>2, <2>3, NothingSaid
  <1>4. ASSUME NEW t, Told(Consumers \ {c}, p, t), GivenUp(c, p)',
               \/ t \in {nothing, "order.status.changed", "order.cancelled"}
               \/ t = "payment.refund.requested" /\ ~Published("payment.refund.requested", p),
               status'[p] = status[p] \/ ~Published("payment.refund.requested", p)
        PROVE  Clean(p)'
    <2>1. /\ {charger, refunder, cashier, failer, closer, kitchen, dispatcher} \subseteq Consumers \ {c}
          /\ Givers \ {c} \subseteq Consumers \ {c}
      BY Roles DEF charger, cashier, refunder, failer, closer, kitchen, dispatcher, Givers
    <2>2. /\ Stage(cashier, p) \notin {"waiting", "update"} /\ Stage(failer, p) = "none"
          /\ ~Published("payment.refund.requested", p) => Stage(closer, p) = "none"
      BY <1>0, <1>3, NothingSaid, SaidBefore DEF HandedOn
    <2>3. HandedOn(p)' /\ Closed(p)' /\ Declined(p)'
      BY <1>0, <1>4, <2>1, <2>2, HandedOnKept, ClosedKept, DeclinedKept DEF nothing
    <2>4. ASSUME NEW g \in Givers PROVE GivenUp(g, p)'
      <3>1. CASE g = c
        BY <1>4, <3>1
      <3>2. CASE g # c
        <4>1. t # TopicOf(g)
          BY <1>4, Roles DEF Givers, nothing
        <4>2. Stage(g, p)' = "none"
          BY <1>3, <1>4, <2>1, <3>2, <4>1 DEF Told
        <4> QED
          BY <4>2 DEF GivenUp
      <3> QED
        BY <3>1, <3>2
    <2> QED
      BY <1>1, <1>3, <1>4, <2>1, <2>3, <2>4, StatusTells DEF Single, nothing
  <1>5. ASSUME NEW s, NEW t, Says(p, t),
               (Finish(c) /\ s = "done") \/ (s \in Steps \ {"idle"} /\ Goto(c, s))
        PROVE  /\ Stage(c, p) = IF pc[c] = "idle" THEN "waiting" ELSE pc[c]
               /\ Stage(c, p)' = s
               /\ Told(Consumers \ {c}, p, t)
               /\ \A u \in Topics : Published(u, p)' <=> Published(u, p) \/ u = t
    BY <1>0, <1>1, <1>5, ConsumerMoves
  <1>6. ASSUME NEW s \in {"recheck", "cancel"}, Goto(c, s), UNCHANGED <<log, status>>,
               Stage(c, p) \in {"waiting", "recheck"}
        PROVE  Clean(p)'
    <2>1. Says(p, nothing)
      BY <1>6 DEF Says
    <2>2. ~IsTerminal(status[p]) /\ ~Published("payment.refund.requested", p)
      BY <1>0, <1>6 DEF GivenUp
    <2>3. Stage(c, p)' = s /\ Told(Consumers \ {c}, p, nothing)
      BY <1>5, <1>6, <2>1 DEF Steps
    <2>4. GivenUp(c, p)'
      BY <1>6, <2>2, <2>3 DEF GivenUp, Told, Topics, nothing, IsTerminal
    <2> QED
      BY <1>4, <1>6, <2>3, <2>4
  <1>7. CASE Receive(c, AlreadyCancelled(p), "recheck") /\ UNCHANGED status
    <2>1. Says(p, nothing) /\ pc[c] = "idle" /\ (Finish(c) \/ Goto(c, "recheck"))
      BY <1>7 DEF Receive, Says, HasMessage, Fails
    <2>2. Stage(c, p) = "waiting"
      BY <1>5, <2>1 DEF Steps
    <2>3. ~AlreadyCancelled(p)
      BY <1>0, <2>2 DEF GivenUp, AlreadyCancelled
    <2>4. Goto(c, "recheck") /\ UNCHANGED log
      BY <1>2, <1>7, <2>3 DEF Receive, Fails
    <2> QED
      BY <1>6, <1>7, <2>2, <2>4
  <1>8. CASE /\ pc[c] = "recheck"
             /\ \/ AlreadyCancelled(p) /\ Continue(c, AfterCancel(c)) /\ NoError
                \/ ~AlreadyCancelled(p) /\ Goto(c, "cancel") /\ NoError
                \/ Fails(c)
             /\ UNCHANGED <<log, status>>
    <2>1. Says(p, nothing) /\ (Finish(c) \/ Goto(c, "cancel") \/ Goto(c, "requestRefund"))
      BY <1>8 DEF Says, Fails, Continue, AfterCancel
    <2>2. Stage(c, p) = "recheck"
      BY <1>5, <1>8, <2>1 DEF Steps
    <2>3. ~AlreadyCancelled(p)
      BY <1>0, <2>2 DEF GivenUp, AlreadyCancelled
    <2>4. Goto(c, "cancel")
      BY <1>2, <1>8, <2>3 DEF Fails
    <2> QED
      BY <1>6, <1>8, <2>2, <2>4
  <1>9. ASSUME NEW s \in {"announceCancel", "publishCancelled", "requestRefund"}, Goto(c, s),
               NEW t \in {nothing, "order.status.changed", "order.cancelled"}, Says(p, t),
               pc[c] \in {"cancel", "announceCancel", "publishCancelled"}
        PROVE  Clean(p)'
    <2>1. /\ Stage(c, p) = pc[c] /\ Stage(c, p)' = s
          /\ Told(Consumers \ {c}, p, t)
          /\ Published("payment.refund.requested", p)' <=> Published("payment.refund.requested", p)
      BY <1>5, <1>9 DEF Steps, Topics, nothing
    <2>2. ~Published("payment.refund.requested", p)
      BY <1>0, <1>9, <2>1 DEF GivenUp
    <2>3. GivenUp(c, p)'
      BY <1>9, <2>1, <2>2 DEF GivenUp
    <2> QED
      BY <1>4, <1>9, <2>1, <2>2, <2>3
  <1>10. CASE pc[c] = "cancel" /\ UpdateStatus(c, p, "CANCELLED", "announceCancel")
    <2>1. Says(p, nothing) /\ Goto(c, "announceCancel")
      BY <1>2, <1>10 DEF UpdateStatus, Returns, Fails, Continue, Says
    <2> QED
      BY <1>9, <1>10, <2>1
  <1>11. CASE pc[c] = "announceCancel" /\ PublishStatus(c, p, "CANCELLED", "publishCancelled")
    <2>1. /\ Write("order.status.changed", [order |-> p, status |-> "CANCELLED"])
          /\ Goto(c, "publishCancelled")
      BY <1>2, <1>11 DEF PublishStatus, Emit, Continue
    <2>2. Says(p, "order.status.changed")
      BY <2>1, PayloadType DEF Says, Topics, Statuses
    <2> QED
      BY <1>9, <1>11, <2>1, <2>2
  <1>12. CASE /\ pc[c] = "publishCancelled"
              /\ Emit(c, "order.cancelled", [order |-> p, refundRequired |-> refund[c]],
                      AfterCancel(c), "idle")
              /\ UNCHANGED status
    <2>1. refund[c] = TRUE
      BY <1>0, <1>12 DEF CancelRefunds, OrderTypeOK, CancelGroups, Givers
    <2>2. /\ Write("order.cancelled", [order |-> p, refundRequired |-> TRUE])
          /\ Goto(c, "requestRefund")
      BY <1>2, <1>12, <2>1 DEF Emit, Continue, AfterCancel
    <2>3. Says(p, "order.cancelled")
      BY <2>2, PayloadType DEF Says, Topics
    <2> QED
      BY <1>9, <1>12, <2>2, <2>3
  <1>13. CASE /\ pc[c] = "requestRefund"
              /\ Emit(c, "payment.refund.requested", [order |-> p], "idle", "idle")
              /\ UNCHANGED status
    <2>1. Write("payment.refund.requested", [order |-> p]) /\ Finish(c)
      BY <1>2, <1>13 DEF Emit, Continue
    <2>2. Says(p, "payment.refund.requested")
      BY <2>1, PayloadType DEF Says, Topics
    <2>3. /\ Stage(c, p) = "requestRefund" /\ Stage(c, p)' = "done"
          /\ Told(Consumers \ {c}, p, "payment.refund.requested")
          /\ Published("payment.refund.requested", p)'
      BY <1>5, <1>13, <2>1, <2>2 DEF Topics
    <2>4. ~Published("payment.refund.requested", p) /\ GivenUp(c, p)'
      BY <1>0, <2>3 DEF GivenUp
    <2> QED
      BY <1>4, <2>3, <2>4
  <1> QED
    BY <1>7, <1>8, <1>10, <1>11, <1>12, <1>13 DEF CancelWithRefund, CancelOrder

\* A consumer of order-svc that has nothing left to decide of the order: only
\* the status may change, and nobody waits for what the order was before.
LEMMA LateStatusKeepsClean ==
    ASSUME Facts, NEW c \in Consumers, NEW p \in Orders, Clean(p),
           UNCHANGED <<payments, cooking, deliveryVars, creating>>,
           c \notin {charger, refunder, cashier, failer, kitchen, dispatcher} \cup Givers,
           NEW t \in {nothing, "order.status.changed"}, Told(Consumers \ {c}, p, t),
           Published("payment.refunded", p) \/ Published("courier.assigned", p),
           Closed(p)'
    PROVE  Clean(p)'
  <1>0. /\ BusOK /\ Caused /\ Known
        /\ HandedOn(p) /\ Declined(p) /\ \A g \in Givers : GivenUp(g, p)
    BY DEF Facts, IInv, Typed, LifeInv, Clean
  <1>1. /\ {charger, refunder, cashier, failer, kitchen, dispatcher} \subseteq Consumers \ {c}
        /\ Givers \subseteq Consumers \ {c}
    BY Roles
  <1>2. /\ Published("order.paid", p) /\ Published("payment.processed", p)
        /\ ~Published("payment.failed", p) /\ status[p] # "NONE"
    <2>1. Published("order.paid", p) /\ Published("payment.processed", p)
      BY <1>0, SaidBefore
    <2> QED
      BY <1>0, <2>1, OneWay DEF Known, Topics
  <1>3. \A g \in Givers : Stage(g, p) \notin {"waiting", "recheck", "cancel"}
    <2>1. CASE Published("payment.refunded", p)
      BY <1>0, <2>1, SaidBefore DEF GivenUp
    <2>2. CASE Published("courier.assigned", p)
      BY <1>0, <2>2, SaidBefore, OneWay, NothingSaid, Roles DEF Givers
    <2> QED
      BY <2>1, <2>2
  <1>4. Stage(cashier, p) \notin {"waiting", "update"} /\ Stage(failer, p) = "none"
    BY <1>0, <1>2, NothingSaid DEF HandedOn
  <1>5. HandedOn(p)' /\ Declined(p)'
    BY <1>0, <1>1, <1>4, HandedOnKept, DeclinedKept DEF nothing
  <1>6. ASSUME NEW g \in Givers PROVE GivenUp(g, p)'
    <2>1. t \notin {TopicOf(g), "payment.refund.requested"}
      BY Roles DEF Givers, nothing
    <2> QED
      BY <1>0, <1>1, <1>3, <2>1, GivenUpKept
  <1> QED
    BY <1>1, <1>2, <1>5, <1>6, StatusTells DEF Single, nothing

\* Without an error a refunded order is shown as such.
LEMMA CloserKeepsClean ==
    ASSUME Facts, HandlePaymentRefunded, NoError, UNCHANGED <<payments, cooking, deliveryVars>>,
           NEW p \in Orders, OrderOf(closer) = p, Clean(p)
    PROVE  Clean(p)'
  <1> DEFINE c == closer
  <1>0. /\ BusOK /\ OrderTypeOK
        /\ c \in Consumers /\ TopicOf(c) = "payment.refunded" /\ errors \in Nat
        /\ Once(TopicOf(c), p) /\ Closed(p)
    BY Roles DEF Facts, IInv, Typed, BusOK, BusTypeOK, Clean, Single
  <1>1. /\ pos[c] < Len(log[TopicOf(c)]) /\ Published("payment.refunded", p)
        /\ UNCHANGED creating
    BY <1>0, HandlePaymentRefundedEffect
       DEF StatusEffect, BusEffect, HandlerStep, closer, HandlePaymentRefunded
  <1>2. ~OneError
    BY <1>0 DEF NoError, OneError
  <1>3. ASSUME NEW t \in {nothing, "order.status.changed"}, Told(Consumers \ {c}, p, t), Closed(p)'
        PROVE  Clean(p)'
    <2>1. c \notin {charger, refunder, cashier, failer, kitchen, dispatcher} \cup Givers
      BY DEF charger, refunder, cashier, failer, closer, kitchen, dispatcher, Givers
    <2> QED
      BY <1>0, <1>1, <1>3, <2>1, LateStatusKeepsClean
  <1>4. CASE Receive(c, AlreadyRefunded(p), "update") /\ UNCHANGED status
    <2>1. Says(p, nothing)
      BY <1>4 DEF Receive, Says
    <2>2. CASE Goto(c, "update")
      <3>1. Stage(c, p)' = "update" /\ Told(Consumers \ {c}, p, nothing)
        BY <1>0, <1>1, <2>1, <2>2, ConsumerMoves DEF Steps
      <3> QED
        BY <1>3, <3>1 DEF Closed
    <2>3. CASE AlreadyRefunded(p) /\ Finish(c)
      <3>1. Told(Consumers \ {c}, p, nothing)
        BY <1>0, <1>1, <2>1, <2>3, ConsumerMoves
      <3> QED
        BY <1>3, <1>4, <2>3, <3>1 DEF Closed, AlreadyRefunded
    <2> QED
      BY <1>2, <1>4, <2>2, <2>3 DEF Receive, Fails
  <1>5. CASE pc[c] = "update" /\ UpdateStatus(c, p, "REFUNDED", "announce")
    <2>1. Says(p, nothing) /\ Goto(c, "announce") /\ status'[p] = "REFUNDED"
      BY <1>0, <1>2, <1>5 DEF UpdateStatus, Returns, Fails, Continue, Says, OrderTypeOK
    <2>2. Told(Consumers \ {c}, p, nothing)
      BY <1>0, <1>1, <2>1, ConsumerMoves DEF Steps
    <2> QED
      BY <1>3, <2>1, <2>2 DEF Closed
  <1>6. CASE pc[c] = "announce" /\ PublishStatus(c, p, "REFUNDED", "idle")
    <2>1. /\ Write("order.status.changed", [order |-> p, status |-> "REFUNDED"]) /\ Finish(c)
          /\ UNCHANGED status
      BY <1>2, <1>6 DEF PublishStatus, Emit, Continue
    <2>2. Says(p, "order.status.changed")
      BY <2>1, PayloadType DEF Says, Topics, Statuses
    <2>3. Stage(c, p) = "announce" /\ Told(Consumers \ {c}, p, "order.status.changed")
      BY <1>0, <1>1, <1>6, <2>1, <2>2, ConsumerMoves
    <2> QED
      BY <1>0, <1>3, <2>1, <2>3 DEF Closed
  <1> QED
    BY <1>4, <1>5, <1>6 DEF HandlePaymentRefunded, closer

\* Assignments and deliveries are shown of orders that take this way.
LEMMA ShownKeepsClean ==
    ASSUME Facts, HandleCourierAssigned \/ HandleOrderDelivered, NoError,
           UNCHANGED <<payments, cooking, deliveryVars>>,
           NEW p \in Orders, NEW c \in {"order-svc-courier", "order-svc-delivered"},
           c = IF HandleCourierAssigned THEN "order-svc-courier" ELSE "order-svc-delivered",
           OrderOf(c) = p, Clean(p)
    PROVE  Clean(p)'
  <1>0. /\ BusOK /\ OrderTypeOK /\ Caused /\ Closed(p) /\ c \in Consumers /\ errors \in Nat
        /\ TopicOf(c) \in {"courier.assigned", "order.delivered"}
    BY DEF Facts, IInv, Typed, LifeInv, BusOK, BusTypeOK, Clean, Consumers, OrderGroups, TopicOf
  <1>1. ~OneError
    BY <1>0 DEF NoError, OneError
  <1>2. /\ HandlerStep(c) /\ Published(TopicOf(c), p) /\ UNCHANGED creating
    <2>1. CASE HandleCourierAssigned
      BY <1>0, <2>1, HandleCourierAssignedEffect DEF StatusEffect, BusEffect, HandleCourierAssigned
    <2>2. CASE ~HandleCourierAssigned
      BY <1>0, <2>2, HandleOrderDeliveredEffect DEF StatusEffect, BusEffect, HandleOrderDelivered
    <2> QED
      BY <2>1, <2>2
  <1>3. Published("courier.assigned", p)
    BY <1>0, <1>2, SaidBefore
  <1>4. \E t \in {nothing, "order.status.changed"} : Says(p, t)
    <2>1. CASE HandleCourierAssigned
      BY <2>1 DEF HandleCourierAssigned, Receive, AssignCourier, Says
    <2>2. CASE ~HandleCourierAssigned
      <3>1. CASE UNCHANGED log
        BY <3>1 DEF Says
      <3>2. CASE Write("order.status.changed", [order |-> p, status |-> "DELIVERED"])
        BY <3>2, PayloadType DEF Says, Topics, Statuses
      <3> QED
        BY <2>2, <3>1, <3>2 DEF HandleOrderDelivered, Receive, UpdateStatus, PublishStatus, Emit
    <2> QED
      BY <2>1, <2>2
  <1>5. PICK t \in {nothing, "order.status.changed"} : Says(p, t)
    BY <1>4
  <1>6. Told(Consumers \ {c}, p, t)
    BY <1>0, <1>2, <1>5, ConsumerTold DEF HandlerStep
  <1>7. Closed(p)'
    <2>1. closer \in Consumers \ {c} /\ Stage(closer, p) = "none"
      <3>1. ~Published("payment.refunded", p)
        BY <1>0, <1>3, SaidBefore, OneWay
      <3> QED
        BY <1>0, <3>1, NothingSaid, Roles DEF closer
    <2> QED
      BY <1>0, <1>6, <2>1, ClosedKept
  <1>8. c \notin {charger, refunder, cashier, failer, kitchen, dispatcher} \cup Givers
    BY DEF charger, refunder, cashier, failer, kitchen, dispatcher, Givers
  <1> QED
    BY <1>0, <1>2, <1>3, <1>6, <1>7, <1>8, LateStatusKeepsClean

\* Without an error the row that is created is announced, once.
LEMMA RequestKeepsClean ==
    ASSUME Facts, NEW p \in Orders, CreateOrder(p) \/ PublishCreated(p), NoError,
           UNCHANGED <<payments, cooking, deliveryVars>>, Clean(p)
    PROVE  Clean(p)'
  <1>0. /\ BusOK /\ OrderTypeOK /\ Known /\ errors \in Nat /\ Placed(p) /\ nothing \notin Topics
        /\ {charger, refunder, cashier, failer, closer, kitchen, dispatcher} \subseteq Consumers
        /\ Givers \subseteq Consumers
    <2>1. nothing \notin Topics
      BY DEF nothing, Topics
    <2>2. /\ {charger, refunder, cashier, failer, closer, kitchen, dispatcher} \subseteq Consumers
          /\ Givers \subseteq Consumers
      BY Roles
    <2> QED
      BY <2>1, <2>2 DEF Facts, IInv, Typed, LifeInv, BusOK, BusTypeOK, Clean
  <1>1. ~OneError
    BY <1>0 DEF NoError, OneError
  <1>2. ASSUME NEW t \in {nothing, "order.created"}, Told(Consumers, p, t),
               t # nothing => ~Published(t, p), Placed(p)',
               HandedOn(p)', Declined(p)', Closed(p)', \A g \in Givers : GivenUp(g, p)'
        PROVE  Clean(p)'
    <2>1. Charged(p)' /\ GivenBack(p)'
      BY <1>0, <1>2, ChargedKept, GivenBackKept DEF Clean, nothing
    <2>2. Cooked(p)' /\ Dispatched(p)'
      BY <1>0, <1>2, CookedKept, DispatchedKept, UnderWayKept DEF Clean, nothing, deliveryVars
    <2>3. \A u \in Single : Once(u, p)'
      BY <1>2, OnceKept DEF Clean, Single, nothing
    <2> QED
      BY <1>2, <2>1, <2>2, <2>3 DEF Clean
  <1>3. CASE CreateOrder(p)
    <2>1. /\ status[p] = "NONE" /\ status'[p] = "PENDING" /\ p \in creating'
          /\ Says(p, nothing) /\ UNCHANGED <<pc, pos>>
      BY <1>0, <1>1, <1>3 DEF CreateOrder, OrderTypeOK, Says
    <2>2. Told(Consumers, p, nothing)
      BY <1>0, <2>1, GoroutineHeard
    <2>3. \A t \in Topics : ~Published(t, p) /\ ~Published(t, p)'
      BY <1>0, <2>1, <2>2 DEF Known, Told
    <2>4. /\ Stage(cashier, p) = "none" /\ Stage(failer, p) = "none" /\ Stage(closer, p) = "none"
          /\ \A g \in Givers : Stage(g, p) = "none"
      BY <1>0, <2>3, NothingSaid, TopicOfType DEF Topics
    <2>5. HandedOn(p)' /\ Declined(p)' /\ Closed(p)' /\ \A g \in Givers : GivenUp(g, p)'
      <3>1. HandedOn(p) /\ Declined(p) /\ Closed(p) /\ \A g \in Givers : GivenUp(g, p)
        BY DEF Clean
      <3>2. \A g \in Givers : nothing # TopicOf(g)
        BY <1>0, TopicOfType
      <3>3. \A g \in Givers : GivenUp(g, p)'
        BY <1>0, <2>2, <2>4, <3>1, <3>2, GivenUpKept DEF nothing
      <3> QED
        BY <1>0, <2>2, <2>4, <3>1, <3>3, HandedOnKept, DeclinedKept, ClosedKept DEF nothing
    <2>6. Placed(p)'
      BY <2>1, <2>3 DEF Placed, Topics
    <2> QED
      BY <1>2, <2>2, <2>5, <2>6
  <1>4. CASE PublishCreated(p)
    <2>1. /\ p \in creating /\ p \notin creating' /\ status'[p] = status[p]
          /\ Write("order.created", [order |-> p]) /\ UNCHANGED <<pc, pos>>
      BY <1>1, <1>4 DEF PublishCreated, EmitAndForget
    <2>2. Says(p, "order.created")
      BY <2>1, PayloadType DEF Says, Topics
    <2>3. Told(Consumers, p, "order.created")
      BY <1>0, <2>1, <2>2, GoroutineHeard
    <2>4. ~Published("order.created", p) /\ Published("order.created", p)'
      BY <1>0, <2>1, <2>3 DEF Placed, Told, Topics
    <2>5. \A g \in Givers : "order.created" \notin {"payment.refund.requested", TopicOf(g)}
      BY Roles DEF Givers
    <2>6. HandedOn(p)' /\ Declined(p)' /\ Closed(p)' /\ \A g \in Givers : GivenUp(g, p)'
      BY <1>0, <2>1, <2>3, <2>5, SameStatusKept
    <2>7. Placed(p)'
      BY <2>1, <2>4 DEF Placed
    <2> QED
      BY <1>2, <2>3, <2>4, <2>6, <2>7
  <1> QED
    BY <1>3, <1>4

-----------------------------------------------------------------------------
(***************************************************************************)
(* A step takes one order on, and an error is charged to that order.       *)
(***************************************************************************)
\* This step is about order p: without an error it leaves p as clean as it was,
\* and no other order sees it.
About(p) ==
    /\ NoError \/ OneError
    /\ \A o \in Orders \ {p} : Untouched(o)
    /\ NoError /\ Clean(p) => Clean(p)'

\* What a step does not touch it leaves clean.
LEMMA UntouchedKept ==
    ASSUME NEW o \in Orders, Untouched(o), Clean(o)
    PROVE  Clean(o)'
  <1>0. /\ {charger, refunder, cashier, failer, closer, kitchen, dispatcher} \subseteq Consumers
        /\ Givers \subseteq Consumers /\ Single \subseteq Topics
        /\ {"order.created", "payment.processed", "payment.failed", "order.paid", "order.ready",
            "order.preparation.failed", "courier.assigned", "delivery.failed", "order.delivered",
            "payment.refund.requested", "payment.refunded"} \subseteq Topics
    BY Roles DEF Single, Topics
  <1>1. /\ \A d \in Consumers : Stage(d, o)' = Stage(d, o)
        /\ \A u \in Topics : Published(u, o)' <=> Published(u, o)
        /\ status'[o] = status[o] /\ payments'[o] = payments[o]
        /\ o \in creating' <=> o \in creating
        /\ cooking'[o] = cooking[o] /\ arrived'[o] = arrived[o]
        /\ \A k \in Couriers : riding'[k][o] = riding[k][o]
    BY DEF Untouched, Unheard
  <1>2. \A u \in Single : Once(u, o)'
    BY <1>0 DEF Clean, Untouched, Unheard
  <1>3. Placed(o)' /\ HandedOn(o)' /\ Declined(o)' /\ Closed(o)'
    BY <1>0, <1>1 DEF Clean, Placed, HandedOn, Declined, Closed
  <1>4. Charged(o)'
    <2>1. Paid(o)' <=> Paid(o)
      BY <1>1 DEF Paid
    <2> QED
      BY <1>0, <1>1, <2>1 DEF Clean, Charged
  <1>5. Cooked(o)'
    BY <1>0, <1>1 DEF Clean, Cooked
  <1>6. Dispatched(o)'
    <2>1. UnderWay(o) => UnderWay(o)'
      BY <1>0, <1>1 DEF UnderWay
    <2> QED
      BY <1>0, <1>1, <2>1 DEF Clean, Dispatched
  <1>7. GivenBack(o)'
    BY <1>0, <1>1 DEF Clean, GivenBack
  <1>8. ASSUME NEW g \in Givers PROVE GivenUp(g, o)'
    <2>1. IsTerminal(status[o])' <=> IsTerminal(status[o])
      BY <1>1 DEF IsTerminal
    <2> QED
      BY <1>0, <1>1, <2>1 DEF Clean, GivenUp
  <1> QED
    BY <1>2, <1>3, <1>4, <1>5, <1>6, <1>7, <1>8 DEF Clean

\* A handler's step is about the order of its message.
LEMMA ConsumerIsAbout ==
    ASSUME BusOK, NEW c \in Consumers, NEW topics, BusEffect(c, topics),
           NEW p \in Orders, OrderOf(c) = p,
           \A o \in Orders \ {p} :
               /\ status'[o] = status[o] /\ payments'[o] = payments[o]
               /\ cooking'[o] = cooking[o] /\ arrived'[o] = arrived[o]
               /\ \A k \in Couriers : riding'[k][o] = riding[k][o],
           UNCHANGED creating,
           NoError /\ Clean(p) => Clean(p)'
    PROVE  About(p)
  <1>1. NoError \/ OneError
    BY DEF BusEffect, HandlerStep
  <1>2. \A o \in Orders \ {p} : Untouched(o)
    BY ConsumerUnheard DEF Untouched
  <1> QED
    BY <1>1, <1>2 DEF About

\* A request or a goroutine is about its order.
LEMMA GoroutineIsAbout ==
    ASSUME BusOK, NEW p \in Orders, NEW topics, GoroutineEffect(p, topics),
           \A o \in Orders \ {p} :
               /\ status'[o] = status[o] /\ payments'[o] = payments[o]
               /\ o \in creating' <=> o \in creating
               /\ cooking'[o] = cooking[o] /\ arrived'[o] = arrived[o]
               /\ \A k \in Couriers : riding'[k][o] = riding[k][o],
           NoError /\ Clean(p) => Clean(p)'
    PROVE  About(p)
  <1>1. UNCHANGED <<pc, pos>> /\ (NoError \/ OneError)
    BY DEF GoroutineEffect, GoroutineStep
  <1>2. PICK t : Says(p, t)
    BY WritesSays DEF GoroutineEffect
  <1>3. \A o \in Orders \ {p} : Untouched(o)
    BY <1>1, <1>2, GoroutineHeard DEF Untouched
  <1> QED
    BY <1>1, <1>3 DEF About

\* order-svc.
LEMMA OrderIsAbout ==
    ASSUME MaxCrashes = 0, Facts, OrderSvc(OrderNext)
    PROVE  \E p \in Orders : About(p)
  <1>0. /\ BusOK /\ OrderTypeOK /\ UNCHANGED <<payments, cooking, deliveryVars>>
        /\ ~OrderRestart
    BY DEF Facts, IInv, Typed, OrderSvc, OrderRestart, Restart, BusOK, BusTypeOK
  <1>1. ASSUME NEW p \in Orders, CreateOrder(p) \/ PublishCreated(p)
        PROVE  About(p)
    <2>1. \E topics : GoroutineEffect(p, topics)
      BY <1>0, <1>1, CreateOrderEffect, PublishCreatedEffect
    <2>2. \A o \in Orders \ {p} : status'[o] = status[o] /\ (o \in creating' <=> o \in creating)
      BY <1>0, <1>1 DEF CreateOrder, PublishCreated, EmitAndForget, OrderTypeOK
    <2>3. NoError /\ Clean(p) => Clean(p)'
      BY <1>0, <1>1, RequestKeepsClean
    <2> QED
      BY <1>0, <2>1, <2>2, <2>3, GoroutineIsAbout DEF deliveryVars
  <1>2. ASSUME NEW c \in Consumers, NEW new, NEW topics, StatusEffect(c, new, topics),
               UNCHANGED creating, NEW p \in Orders, OrderOf(c) = p,
               NoError /\ Clean(p) => Clean(p)'
        PROVE  About(p)
    <2>1. BusEffect(c, topics) /\ \A o \in Orders \ {p} : status'[o] = status[o]
      BY <1>2 DEF StatusEffect
    <2> QED
      BY <1>0, <1>2, <2>1, ConsumerIsAbout DEF deliveryVars
  <1>4. CASE HandlePaymentProcessed
    <2>1. /\ StatusEffect(cashier, {"PAID"}, {"order.paid", "order.status.changed"})
          /\ UNCHANGED creating /\ cashier \in Consumers
      BY <1>0, <1>4, HandlePaymentProcessedEffect, Roles DEF HandlePaymentProcessed, cashier
    <2>2. PICK p \in Orders : OrderOf(cashier) = p
      BY <2>1 DEF StatusEffect, BusEffect
    <2> QED
      BY <1>0, <1>2, <1>4, <2>1, <2>2, CashierKeepsClean
  <1>5. CASE HandlePaymentFailed
    <2>1. /\ StatusEffect(failer, {"CANCELLED"}, SayCancelled)
          /\ UNCHANGED creating /\ failer \in Consumers
      BY <1>0, <1>5, HandlePaymentFailedEffect, Roles DEF HandlePaymentFailed, failer
    <2>2. PICK p \in Orders : OrderOf(failer) = p
      BY <2>1 DEF StatusEffect, BusEffect
    <2> QED
      BY <1>0, <1>2, <1>5, <2>1, <2>2, FailerKeepsClean
  <1>6. ASSUME NEW c \in Givers, CancelWithRefund(c)
        PROVE  \E p \in Orders : About(p)
    <2>1. /\ StatusEffect(c, {"CANCELLED"}, CancelTopics)
          /\ UNCHANGED creating /\ c \in Consumers
      BY <1>0, <1>6, CancelWithRefundEffect, Roles DEF CancelWithRefund, Givers
    <2>2. PICK p \in Orders : OrderOf(c) = p
      BY <2>1 DEF StatusEffect, BusEffect
    <2> QED
      BY <1>0, <1>2, <1>6, <2>1, <2>2, GiverKeepsClean
  <1>7. CASE HandlePaymentRefunded
    <2>1. /\ StatusEffect(closer, {"REFUNDED"}, {"order.status.changed"})
          /\ UNCHANGED creating /\ closer \in Consumers
      BY <1>0, <1>7, HandlePaymentRefundedEffect, Roles DEF HandlePaymentRefunded, closer
    <2>2. PICK p \in Orders : OrderOf(closer) = p
      BY <2>1 DEF StatusEffect, BusEffect
    <2> QED
      BY <1>0, <1>2, <1>7, <2>1, <2>2, CloserKeepsClean
  <1>8. CASE HandleCourierAssigned
    <2> DEFINE c == "order-svc-courier"
    <2>1. /\ StatusEffect(c, {"DELIVERING"}, {})
          /\ UNCHANGED creating /\ c \in Consumers
      BY <1>0, <1>8, HandleCourierAssignedEffect DEF HandleCourierAssigned, Consumers, OrderGroups
    <2>2. PICK p \in Orders : OrderOf(c) = p
      BY <2>1 DEF StatusEffect, BusEffect
    <2>3. NoError /\ Clean(p) => Clean(p)'
      BY <1>0, <1>8, <2>2, ShownKeepsClean
    <2> QED
      BY <1>2, <2>1, <2>2, <2>3
  <1>9. CASE HandleOrderDelivered /\ ~HandleCourierAssigned
    <2> DEFINE c == "order-svc-delivered"
    <2>1. /\ StatusEffect(c, {"DELIVERED"}, {"order.status.changed"})
          /\ UNCHANGED creating /\ c \in Consumers
      BY <1>0, <1>9, HandleOrderDeliveredEffect DEF HandleOrderDelivered, Consumers, OrderGroups
    <2>2. PICK p \in Orders : OrderOf(c) = p
      BY <2>1 DEF StatusEffect, BusEffect
    <2>3. NoError /\ Clean(p) => Clean(p)'
      BY <1>0, <1>9, <2>2, ShownKeepsClean
    <2> QED
      BY <1>2, <2>1, <2>2, <2>3
  <1> QED
    BY <1>0, <1>1, <1>4, <1>5, <1>6, <1>7, <1>8, <1>9 DEF OrderSvc, OrderNext, OrderConsumes, Givers

\* payment-svc.
LEMMA PaymentIsAbout ==
    ASSUME MaxCrashes = 0, Facts, PaymentSvc(PaymentNext)
    PROVE  \E p \in Orders : About(p)
  <1>0. /\ BusOK /\ PaymentTypeOK /\ AnnouncesPaid
        /\ UNCHANGED <<orderVars, cooking, deliveryVars>> /\ ~PaymentRestart
    BY DEF Facts, IInv, Typed, PaymentSvc, PaymentRestart, Restart, BusOK, BusTypeOK
  <1>1. ASSUME NEW c \in Consumers, NEW topics, BusEffect(c, topics), NEW p \in Orders, OrderOf(c) = p,
               \A o \in Orders \ {p} : payments'[o] = payments[o],
               NoError /\ Clean(p) => Clean(p)'
        PROVE  About(p)
    BY <1>0, <1>1, ConsumerIsAbout DEF deliveryVars, orderVars
  <1>2. CASE HandleOrderCreated
    <2>1. /\ BusEffect(charger, {"payment.failed", "payment.processed"}) /\ charger \in Consumers
      BY <1>0, <1>2, HandleOrderCreatedEffect, Roles DEF charger
    <2>2. PICK p \in Orders : OrderOf(charger) = p
      BY <2>1 DEF BusEffect
    <2>3. \A o \in Orders \ {p} : payments'[o] = payments[o]
      BY <1>0, <1>2, <2>2
         DEF HandleOrderCreated, FindPayment, Decline, Approve, Inserted, PaymentTypeOK, charger
    <2> QED
      BY <1>0, <1>1, <1>2, <2>1, <2>2, <2>3, ChargerKeepsClean
  <1>3. CASE HandleRefundRequested
    <2>1. /\ BusEffect(refunder, {"payment.refunded"}) /\ refunder \in Consumers
      BY <1>0, <1>3, HandleRefundRequestedEffect, Roles DEF refunder
    <2>2. PICK p \in Orders : OrderOf(refunder) = p
      BY <2>1 DEF BusEffect
    <2>3. \A o \in Orders \ {p} : payments'[o] = payments[o]
      BY <1>0, <1>3, <2>2 DEF HandleRefundRequested, MarkedRefunded, PaymentTypeOK, refunder
    <2> QED
      BY <1>0, <1>1, <1>3, <2>1, <2>2, <2>3, RefunderKeepsClean
  <1> QED
    BY <1>0, <1>2, <1>3 DEF PaymentSvc, PaymentNext

\* restaurant-svc.
LEMMA RestaurantIsAbout ==
    ASSUME MaxCrashes = 0, Facts, RestaurantSvc(RestaurantNext)
    PROVE  \E p \in Orders : About(p)
  <1>0. /\ BusOK /\ RestaurantTypeOK
        /\ UNCHANGED <<orderVars, payments, deliveryVars>> /\ ~RestaurantRestart
    BY DEF Facts, IInv, Typed, RestaurantSvc, RestaurantRestart, Restart, BusOK, BusTypeOK
  <1>1. CASE HandleOrderPaid
    <2>1. /\ BusEffect(kitchen, {"order.preparation.failed"}) /\ kitchen \in Consumers
          /\ \A o \in Orders : cooking'[o] # cooking[o] => o = OrderOf(kitchen)
      BY <1>0, <1>1, HandleOrderPaidEffect, Roles DEF kitchen
    <2>2. PICK p \in Orders : OrderOf(kitchen) = p
      BY <2>1 DEF BusEffect
    <2>3. NoError /\ Clean(p) => Clean(p)'
      BY <1>0, <1>1, <2>2, KitchenKeepsClean
    <2>4. \A o \in Orders \ {p} : cooking'[o] = cooking[o]
      BY <2>1, <2>2
    <2> QED
      BY <1>0, <2>1, <2>2, <2>3, <2>4, ConsumerIsAbout DEF deliveryVars, orderVars
  <1>2. ASSUME NEW p \in Orders, DishReady(p) PROVE About(p)
    <2>1. GoroutineEffect(p, {"order.ready"})
      BY <1>0, <1>2, DishReadyEffect
    <2>2. \A o \in Orders \ {p} : cooking'[o] = cooking[o]
      BY <1>0, <1>2 DEF DishReady, EmitAndForget, RestaurantTypeOK
    <2>3. NoError /\ Clean(p) => Clean(p)'
      BY <1>0, <1>2, DishKeepsClean
    <2> QED
      BY <1>0, <2>1, <2>2, <2>3, GoroutineIsAbout DEF deliveryVars, orderVars
  <1> QED
    BY <1>0, <1>1, <1>2 DEF RestaurantSvc, RestaurantNext

\* delivery-svc.
LEMMA DeliveryIsAbout ==
    ASSUME MaxCrashes = 0, Facts, DeliverySvc(DeliveryNext)
    PROVE  \E p \in Orders : About(p)
  <1>0. /\ BusOK /\ DeliveryTypeOK /\ ChosenOK
        /\ UNCHANGED <<orderVars, payments, cooking>> /\ ~DeliveryRestart
    BY DEF Facts, IInv, Typed, DeliverySvc, DeliveryRestart, Restart, BusOK, BusTypeOK
  <1>1. CASE HandleOrderReady
    <2>1. /\ BusEffect(dispatcher, {"delivery.failed", "courier.assigned"})
          /\ dispatcher \in Consumers /\ UNCHANGED arrived
          /\ \A k \in Couriers, o \in Orders : riding'[k][o] # riding[k][o] => o = OrderOf(dispatcher)
      BY <1>0, <1>1, HandleOrderReadyEffect, Roles DEF dispatcher
    <2>2. PICK p \in Orders : OrderOf(dispatcher) = p
      BY <2>1 DEF BusEffect
    <2>3. NoError /\ Clean(p) => Clean(p)'
      BY <1>0, <1>1, <2>2, DispatcherKeepsClean
    <2>4. \A o \in Orders \ {p} : \A k \in Couriers : riding'[k][o] = riding[k][o]
      BY <2>1, <2>2
    <2> QED
      BY <1>0, <2>1, <2>2, <2>3, <2>4, ConsumerIsAbout DEF orderVars
  <1>2. ASSUME NEW p \in Orders, (\E k \in Couriers : RideEnds(k, p)) \/ PublishDelivered(p)
        PROVE  About(p)
    <2>1. \E topics : GoroutineEffect(p, topics)
      BY <1>0, <1>2, RideEndsEffect, PublishDeliveredEffect
    <2>2. \A o \in Orders \ {p} : arrived'[o] = arrived[o] /\ \A j \in Couriers : riding'[j][o] = riding[j][o]
      BY <1>0, <1>2 DEF RideEnds, PublishDelivered, EmitAndForget, DeliveryTypeOK
    <2>3. NoError /\ Clean(p) => Clean(p)'
      BY <1>0, <1>2, RideKeepsClean
    <2> QED
      BY <1>0, <2>1, <2>2, <2>3, GoroutineIsAbout DEF orderVars
  <1> QED
    BY <1>0, <1>1, <1>2 DEF DeliverySvc, DeliveryNext

\* With nobody else to act, nothing of an order is touched.
LEMMA StandStillTouchesNothing ==
    ASSUME StandStill, NEW o \in Orders
    PROVE  Untouched(o)
  <1>1. /\ \A d \in Consumers : Handled(d, o)' <=> Handled(d, o)
        /\ \A u \in Topics : (Published(u, o)' <=> Published(u, o)) /\ (Once(u, o) => Once(u, o)')
    BY DEF StandStill, Handled, Published, Once
  <1>2. \A d \in Consumers : /\ Handling(d, o)' <=> Handling(d, o)
                             /\ Published(TopicOf(d), o)' <=> Published(TopicOf(d), o)
    BY DEF StandStill, Handling, OrderOf, Current, Published
  <1>3. ASSUME NEW d \in Consumers PROVE Stage(d, o)' = Stage(d, o)
    BY <1>1, <1>2 DEF Stage, StandStill
  <1> QED
    BY <1>1, <1>3 DEF Untouched, Unheard, StandStill, orderVars, deliveryVars

\* A step of a service.
ServiceActs ==
    \/ OrderSvc(OrderNext) \/ PaymentSvc(PaymentNext)
    \/ RestaurantSvc(RestaurantNext) \/ DeliverySvc(DeliveryNext)

\* One more element is one more at most.
LEMMA OneMoreAtMost ==
    ASSUME NEW S, IsFiniteSet(S), NEW x
    PROVE  IsFiniteSet(S \cup {x}) /\ Cardinality(S \cup {x}) <= Cardinality(S) + 1
  <1>1. /\ IsFiniteSet(S \cup {x}) /\ Cardinality(S) \in Nat
        /\ \/ Cardinality(S \cup {x}) = Cardinality(S)
           \/ Cardinality(S \cup {x}) = Cardinality(S) + 1
    BY FS_AddElement, FS_CardinalityType
  <1> QED
    BY <1>1

\* Without restarts a service leaves the consumers as they are, stopped or not,
\* and the stop of another one takes no fault from the others.
LEMMA FaultsAreCounted ==
    ASSUME MaxCrashes = 0, BusOK, IsFiniteSet(stopped)
    PROVE  /\ Faults \in Int /\ errors \in Nat /\ Cardinality(stopped) \in Nat
           /\ ServiceActs => UNCHANGED stopped
           /\ StandStill => IsFiniteSet(stopped)' /\ Faults' = Faults
  <1>1. errors \in Nat /\ Cardinality(stopped) \in Nat
    BY FS_CardinalityType DEF BusOK, BusTypeOK
  <1>2. \A groups : ~Restart(groups)
    BY DEF BusOK, BusTypeOK, Restart
  <1>3. ServiceActs => UNCHANGED stopped
    BY <1>2, StoppedByNoService DEF ServiceActs
  <1>4. ASSUME NoError, UNCHANGED stopped
        PROVE  IsFiniteSet(stopped)' /\ Faults' = Faults
    BY <1>4 DEF NoError, Faults
  <1>5. ASSUME NEW c \in Consumers, RunReturns(c)
        PROVE  IsFiniteSet(stopped)' /\ Faults' = Faults
    <2>1. stopped' = stopped \cup {c} /\ c \notin stopped /\ errors' = errors + 1
      BY <1>5 DEF RunReturns, OneError
    <2>2. /\ IsFiniteSet(stopped \cup {c})
          /\ Cardinality(stopped \cup {c}) = Cardinality(stopped) + 1
      BY <2>1, FS_AddElement
    <2> QED
      BY <1>1, <2>1, <2>2 DEF Faults
  <1>6. ASSUME StandStill PROVE IsFiniteSet(stopped)' /\ Faults' = Faults
    <2>1. CASE UNCHANGED stopped /\ NoError
      BY <1>4, <2>1
    <2> QED
      BY <1>5, <1>6, <2>1 DEF StandStill
  <1> QED
    BY <1>1, <1>3, <1>6 DEF Faults

\* What is harmed is paid for with a fault.
LEMMA HarmIsCounted ==
    ASSUME MaxCrashes = 0, Facts, IsFiniteSet(stopped),
           IsFiniteSet(Harmed), Cardinality(Harmed) <= Faults, [Next]_vars
    PROVE  IsFiniteSet(Harmed)' /\ Cardinality(Harmed)' <= Faults'
  <1>0. /\ errors \in Nat /\ Cardinality(Harmed) \in Nat
        /\ Faults \in Int /\ Cardinality(stopped) \in Nat
    BY FS_CardinalityType, FaultsAreCounted DEF Facts, IInv, Typed
  <1>1. CASE StandStill
    <2>1. Harmed' \subseteq Harmed
      BY <1>1, StandStillTouchesNothing, UntouchedKept DEF Harmed
    <2>2. Faults' = Faults
      BY <1>1, FaultsAreCounted DEF Facts, IInv, Typed
    <2> QED
      BY <1>0, <2>1, <2>2, FS_Subset, FS_CardinalityType
  <1>2. CASE UNCHANGED stopped /\ \E p \in Orders : About(p)
    <2>1. PICK p \in Orders : About(p)
      BY <1>2
    <2>2. \A o \in Orders \ {p} : Clean(o) => Clean(o)'
      BY <2>1, UntouchedKept DEF About
    <2>3. CASE NoError
      <3>1. Harmed' \subseteq Harmed /\ Faults' = Faults
        BY <1>2, <2>1, <2>2, <2>3 DEF Harmed, About, NoError, Faults
      <3> QED
        BY <1>0, <3>1, FS_Subset, FS_CardinalityType
    <2>4. CASE OneError
      <3>1. Harmed' \subseteq Harmed \cup {p}
        BY <2>2 DEF Harmed
      <3>3. Faults' = Faults + 1
        BY <1>0, <1>2, <2>4 DEF OneError, Faults
      <3>2. IsFiniteSet(Harmed \cup {p}) /\ Cardinality(Harmed \cup {p}) <= Cardinality(Harmed) + 1
        BY OneMoreAtMost
      <3> QED
        BY <1>0, <3>1, <3>2, <3>3, FS_Subset, FS_CardinalityType
    <2> QED
      BY <2>1, <2>3, <2>4 DEF About
  <1>3. ServiceActs => UNCHANGED stopped
    BY FaultsAreCounted DEF Facts, IInv, Typed
  <1> QED
    BY <1>1, <1>2, <1>3, NextCases, OrderIsAbout, PaymentIsAbout, RestaurantIsAbout,
       DeliveryIsAbout DEF ServiceActs

-----------------------------------------------------------------------------
(***************************************************************************)
(* Couriers.                                                               *)
(***************************************************************************)
\* This step loses no courier, or makes an error and loses one.
LosesOne ==
    \/ (NoError \/ OneError) /\ Lost' \subseteq Lost
    \/ OneError /\ \E k \in Couriers : Lost' \subseteq Lost \cup {k}

\* The handler of delivery-svc: a courier is marked busy to ride.
LEMMA DispatcherLosesOne ==
    ASSUME BusOK, DeliveryTypeOK, ChosenOK, HandleOrderReady
    PROVE  LosesOne
  <1> DEFINE c == dispatcher
             p == OrderOf(c)
  <1>0. /\ pc \in [Consumers -> Steps] /\ c \in Consumers /\ p \in Orders
        /\ NoError \/ OneError
    BY HandleOrderReadyEffect, Roles DEF BusOK, BusTypeOK, dispatcher, BusEffect, HandlerStep
  <1>1. CASE FindAvailableCourier(c)
    <2>1. /\ UNCHANGED <<couriers, riding>> /\ pc[c] = "idle"
          /\ pc'[c] \in {"setBusy", "publishFailed"}
      BY <1>0, <1>1 DEF FindAvailableCourier, HasMessage, Goto
    <2> QED
      BY <1>0, <2>1 DEF LosesOne, Lost, Stuck
  <1>2. CASE pc[c] = "publishFailed" /\ UNCHANGED <<couriers, chosen, riding>>
    BY <1>0, <1>2 DEF LosesOne, Lost, Stuck
  <1>3. CASE MarkBusy(c)
    <2>1. pc[c] = "setBusy" /\ UNCHANGED riding /\ chosen \in Couriers
      BY <1>3 DEF MarkBusy, ChosenOK, dispatcher
    <2>2. CASE UNCHANGED couriers
      BY <1>0, <2>1, <2>2 DEF LosesOne, Lost, Stuck
    <2>3. CASE SetCourierStatus(chosen, "BUSY") /\ Returns(c, "publishAssigned")
      <3>1. \A k \in Couriers \ {chosen} : couriers'[k] = couriers[k]
        BY <2>3 DEF SetCourierStatus, DeliveryTypeOK
      <3>2. CASE pc'[c] = "publishAssigned" /\ chosen' = chosen
        BY <1>0, <2>1, <3>1, <3>2 DEF LosesOne, Lost, Stuck
      <3>3. CASE OneError
        BY <1>0, <2>1, <3>1, <3>3 DEF LosesOne, Lost, Stuck
      <3>4. (pc'[c] = "publishAssigned" /\ chosen' = chosen) \/ OneError
        BY <1>0, <1>3, <2>3 DEF Returns, Continue, Goto, Fails, MarkBusy
      <3> QED
        BY <3>2, <3>3, <3>4
    <2> QED
      BY <1>3, <2>2, <2>3 DEF MarkBusy
  <1>4. CASE Assign(c, p)
    <2>1. pc[c] = "publishAssigned" /\ UNCHANGED couriers /\ chosen \in Couriers
      BY <1>4 DEF Assign, ChosenOK, dispatcher
    <2>2. CASE pc'[c] = "idle"
      <3>1. riding' = [riding EXCEPT ![chosen][p] = @ + 1]
        BY <1>4, <2>2 DEF Assign
      <3>2. riding'[chosen][p] # 0 /\ \A k \in Couriers \ {chosen} : riding'[k] = riding[k]
        BY <1>0, <2>1, <3>1 DEF DeliveryTypeOK
      <3> QED
        BY <1>0, <2>1, <3>2 DEF LosesOne, Lost, Stuck
    <2>3. CASE pc'[c] # "idle"
      <3>1. UNCHANGED <<riding, chosen>> /\ pc'[c] \in {"publishAssigned", "release"}
        BY <1>0, <1>4, <2>1, <2>3 DEF Assign, Emit, Continue, Goto, Finish, Stay
      <3> QED
        BY <1>0, <2>1, <3>1 DEF LosesOne, Lost, Stuck
    <2> QED
      BY <2>2, <2>3
  <1>5. CASE Unassign(c)
    <2>1. pc[c] = "release" /\ UNCHANGED riding /\ chosen \in Couriers
      BY <1>5 DEF Unassign, ChosenOK, dispatcher
    <2>2. CASE SetCourierStatus(chosen, "AVAILABLE")
      <3>1. couriers'[chosen] # "BUSY" /\ \A k \in Couriers \ {chosen} : couriers'[k] = couriers[k]
        BY <2>1, <2>2 DEF SetCourierStatus, DeliveryTypeOK
      <3> QED
        BY <1>0, <2>1, <3>1 DEF LosesOne, Lost, Stuck
    <2>3. CASE UNCHANGED couriers /\ OneError
      BY <2>1, <2>3 DEF LosesOne, Lost, Stuck
    <2> QED
      BY <1>5, <2>2, <2>3 DEF Unassign
  <1> QED
    BY <1>1, <1>2, <1>3, <1>4, <1>5 DEF HandleOrderReady, dispatcher

\* The end of a ride.
LEMMA RideLosesOne ==
    ASSUME BusOK, DeliveryTypeOK, NEW k \in Couriers, NEW o \in Orders, RideEnds(k, o)
    PROVE  LosesOne
  <1>1. /\ \A j \in Couriers \ {k} : riding'[j] = riding[j]
        /\ UNCHANGED <<pc, chosen>>
    BY DEF RideEnds, DeliveryTypeOK
  <1>2. CASE SetCourierStatus(k, "AVAILABLE") /\ NoError
    <2>1. couriers'[k] # "BUSY" /\ \A j \in Couriers \ {k} : couriers'[j] = couriers[j]
      BY <1>2 DEF SetCourierStatus, DeliveryTypeOK
    <2> QED
      BY <1>1, <1>2, <2>1 DEF LosesOne, Lost, Stuck
  <1>3. CASE UNCHANGED couriers /\ OneError
    BY <1>1, <1>3 DEF LosesOne, Lost, Stuck
  <1> QED
    BY <1>2, <1>3 DEF RideEnds

\* A step that stays away from the couriers loses none.
LEMMA OthersLoseNone ==
    ASSUME pc'[dispatcher] = pc[dispatcher], UNCHANGED <<couriers, chosen, riding>>,
           NoError \/ OneError
    PROVE  LosesOne
  BY DEF LosesOne, Lost, Stuck

\* A step of another service stays away from the couriers.
LEMMA ServiceLosesNone ==
    ASSUME MaxCrashes = 0, IInv, NEW groups \in {OrderGroups, PaymentGroups, RestaurantGroups},
           ServiceStep(groups), UNCHANGED deliveryVars
    PROVE  LosesOne
  <1>1. dispatcher \in Consumers \ groups /\ groups \subseteq Consumers
    BY DEF dispatcher, Consumers, OrderGroups, PaymentGroups, RestaurantGroups, DeliveryGroups
  <1>2. pc'[dispatcher] = pc[dispatcher]
    BY <1>1, ServiceStepFrame DEF IInv, Typed, StaysPut
  <1>3. NoError \/ OneError
    BY DEF ServiceStep, HandlerStep, GoroutineStep, Restart, IInv, Typed, BusOK, BusTypeOK
  <1> QED
    BY <1>2, <1>3, OthersLoseNone DEF deliveryVars

\* A service loses a courier at most, and only with an error.
LEMMA ServiceLosesOne ==
    ASSUME MaxCrashes = 0, IInv, ServiceActs
    PROVE  LosesOne
  <1>0. BusOK /\ DeliveryTypeOK /\ ChosenOK /\ ~DeliveryRestart
    BY DEF IInv, Typed, DeliveryRestart, Restart, BusOK, BusTypeOK
  <1>1. CASE OrderSvc(OrderNext)
    BY <1>1, OrderServiceStep, ServiceLosesNone DEF OrderSvc
  <1>2. CASE PaymentSvc(PaymentNext)
    BY <1>2, PaymentServiceStep, ServiceLosesNone DEF PaymentSvc
  <1>3. CASE RestaurantSvc(RestaurantNext)
    BY <1>3, RestaurantServiceStep, ServiceLosesNone DEF RestaurantSvc
  <1>4. CASE DeliverySvc(DeliveryNext)
    <2>1. ASSUME NEW p \in Orders, PublishDelivered(p) PROVE LosesOne
      BY <2>1, OthersLoseNone DEF PublishDelivered, EmitAndForget
    <2> QED
      BY <1>0, <1>4, <2>1, DispatcherLosesOne, RideLosesOne DEF DeliverySvc, DeliveryNext
  <1> QED
    BY <1>1, <1>2, <1>3, <1>4 DEF ServiceActs

\* Lost couriers are paid for with faults.
LEMMA LossIsCounted ==
    ASSUME MaxCrashes = 0, IInv, IsFiniteSet(stopped),
           IsFiniteSet(Lost), Cardinality(Lost) <= Faults, [Next]_vars
    PROVE  IsFiniteSet(Lost)' /\ Cardinality(Lost)' <= Faults'
  <1>0. /\ errors \in Nat /\ Cardinality(Lost) \in Nat
        /\ Faults \in Int /\ Cardinality(stopped) \in Nat
    BY FS_CardinalityType, FaultsAreCounted DEF IInv, Typed
  <1>3. CASE StandStill
    <2>1. Lost' \subseteq Lost
      BY <1>3 DEF StandStill, Lost, Stuck, deliveryVars
    <2>2. Faults' = Faults
      BY <1>3, FaultsAreCounted DEF IInv, Typed
    <2> QED
      BY <1>0, <2>1, <2>2, FS_Subset, FS_CardinalityType
  <1>1. CASE UNCHANGED stopped /\ (NoError \/ OneError) /\ Lost' \subseteq Lost
    <2>1. Faults' >= Faults /\ Faults' \in Int
      BY <1>0, <1>1 DEF NoError, OneError, Faults
    <2> QED
      BY <1>0, <1>1, <2>1, FS_Subset, FS_CardinalityType
  <1>2. CASE UNCHANGED stopped /\ OneError /\ \E k \in Couriers : Lost' \subseteq Lost \cup {k}
    <2>1. PICK k \in Couriers : Lost' \subseteq Lost \cup {k}
      BY <1>2
    <2>2. IsFiniteSet(Lost \cup {k}) /\ Cardinality(Lost \cup {k}) <= Cardinality(Lost) + 1
      BY OneMoreAtMost
    <2>3. Faults' = Faults + 1
      BY <1>0, <1>2 DEF OneError, Faults
    <2> QED
      BY <1>0, <2>1, <2>2, <2>3, FS_Subset, FS_CardinalityType
  <1>4. ServiceActs => UNCHANGED stopped
    BY FaultsAreCounted DEF IInv, Typed
  <1> QED
    BY <1>1, <1>2, <1>3, <1>4, NextCases, ServiceLosesOne DEF LosesOne, ServiceActs

-----------------------------------------------------------------------------
(***************************************************************************)
(* When nothing is left to do.                                             *)
(***************************************************************************)
\* Whatever was published about an order has been handled, unless a consumer
\* has stopped before it.
LEMMA QuietIsHandled ==
    ASSUME BusOK, Quiet, NEW c \in Consumers, NEW o \in Orders, ~HeldUp(o)
    PROVE  Stage(c, o) = IF Published(TopicOf(c), o) THEN "done" ELSE "none"
  <1>1. /\ TopicOf(c) \in Topics /\ pos[c] \in Nat /\ Len(log[TopicOf(c)]) \in Nat
        /\ pos[c] <= Len(log[TopicOf(c)]) /\ pc[c] = "idle"
        /\ c \in stopped \/ ~(pos[c] < Len(log[TopicOf(c)]))
    BY TopicOfType DEF BusOK, BusTypeOK, OffsetsOK, Quiet, HasMessage
  <1>2. Handled(c, o) <=> Published(TopicOf(c), o)
    <2>1. \A i \in (pos[c] + 1)..Len(log[TopicOf(c)]) : log[TopicOf(c)][i].order # o
      BY <1>1 DEF HeldUp
    <2>2. \A i \in 1..Len(log[TopicOf(c)]) :
             i \in 1..pos[c] \/ i \in (pos[c] + 1)..Len(log[TopicOf(c)])
      BY <1>1
    <2>3. \A i \in 1..pos[c] : i \in 1..Len(log[TopicOf(c)])
      BY <1>1
    <2> QED
      BY <2>1, <2>2, <2>3 DEF Handled, Published
  <1> QED
    BY <1>1, <1>2 DEF Stage, Handling

\* An order that no failing call has harmed, and no stopped consumer holds up,
\* is settled in the end.
LEMMA CleanIsSettled ==
    ASSUME Facts, Quiet, NEW o \in Orders, Clean(o), ~HeldUp(o)
    PROVE  Settled(o)
  <1>0. /\ BusOK /\ Caused /\ MoneyBack /\ Requested
        /\ status[o] # "NONE" /\ cooking[o] = 0 /\ arrived[o] = 0 /\ o \notin creating
        /\ \A k \in Couriers : riding[k][o] = 0
    BY DEF Facts, IInv, Typed, LifeInv, Quiet
  <1>1. /\ Stage(charger, o) = IF Published("order.created", o) THEN "done" ELSE "none"
        /\ Stage(refunder, o) = IF Published("payment.refund.requested", o) THEN "done" ELSE "none"
        /\ Stage(cashier, o) = IF Published("payment.processed", o) THEN "done" ELSE "none"
        /\ Stage(failer, o) = IF Published("payment.failed", o) THEN "done" ELSE "none"
        /\ Stage(closer, o) = IF Published("payment.refunded", o) THEN "done" ELSE "none"
        /\ Stage(kitchen, o) = IF Published("order.paid", o) THEN "done" ELSE "none"
        /\ Stage(dispatcher, o) = IF Published("order.ready", o) THEN "done" ELSE "none"
        /\ \A g \in Givers : Stage(g, o) = IF Published(TopicOf(g), o) THEN "done" ELSE "none"
    BY <1>0, QuietIsHandled, Roles
  <1>2. Stage(charger, o) = "done"
    BY <1>0, <1>1 DEF Clean, Placed
  <1>3. CASE payments[o] = "FAILED" /\ Published("payment.failed", o)
    BY <1>1, <1>3 DEF Clean, Declined, Settled
  <1>4. CASE Paid(o) /\ Published("payment.processed", o)
    <2>1. Published("order.paid", o)
      BY <1>1, <1>4 DEF Clean, HandedOn
    <2>2. Published("order.ready", o) <=> ~Published("order.preparation.failed", o)
      BY <1>0, <1>1, <2>1 DEF Clean, Cooked
    <2>3. ASSUME NEW g \in Givers, Published(TopicOf(g), o)
          PROVE  Settled(o)
      <3>1. Published("payment.refund.requested", o)
        BY <1>1, <2>3 DEF Clean, GivenUp
      <3>2. Published("payment.refunded", o)
        BY <1>1, <3>1 DEF Clean, GivenBack
      <3>3. payments[o] = "REFUNDED"
        BY <1>0, <3>2 DEF MoneyBack
      <3>4. status[o] = "REFUNDED"
        BY <1>1, <3>2 DEF Clean, Closed
      <3> QED
        BY <3>3, <3>4 DEF Settled
    <2>4. Published("order.preparation.failed", o) \/ Published("delivery.failed", o) => Settled(o)
      BY <2>3, Roles DEF Givers
    <2>5. CASE ~Published("order.preparation.failed", o) /\ ~Published("delivery.failed", o)
      <3>1. Published("order.delivered", o)
        BY <1>0, <1>1, <2>2, <2>5 DEF Clean, Dispatched, UnderWay
      <3>2. payments[o] # "REFUNDED"
        BY <1>0, <2>5, SaidBefore DEF Requested
      <3> QED
        BY <1>4, <3>1, <3>2 DEF Settled, Paid
    <2> QED
      BY <2>4, <2>5
  <1> QED
    BY <1>2, <1>3, <1>4 DEF Clean, Charged

\* What is counted bounds the damage that is left in the end.
LEMMA CountIsDamage ==
    ASSUME Facts, DamageInv
    PROVE  DamageBounded
  <1> DEFINE Damaged == {o \in Orders : ~Settled(o) /\ ~HeldUp(o)}
             Busy == {k \in Couriers : couriers[k] = "BUSY"}
  <1> SUFFICES ASSUME Quiet
               PROVE  /\ Cardinality(Damaged) + Cardinality(stopped) <= errors
                      /\ Cardinality(Busy) + Cardinality(stopped) <= errors
    BY DEF DamageBounded
  <1>0. errors \in Nat /\ Cardinality(stopped) \in Nat
    BY FS_CardinalityType DEF Facts, IInv, Typed, BusOK, BusTypeOK, DamageInv
  <1>1. Damaged \subseteq Harmed
    BY CleanIsSettled DEF Harmed
  <1>2. Busy \subseteq Lost
    BY Roles DEF Quiet, Lost, Stuck
  <1>3. /\ IsFiniteSet(Harmed) /\ Cardinality(Harmed) <= Faults
        /\ IsFiniteSet(Lost) /\ Cardinality(Lost) <= Faults
    BY DEF DamageInv
  <1>4. ASSUME NEW S, NEW T, IsFiniteSet(S), Cardinality(S) <= Faults, T \subseteq S
        PROVE  Cardinality(T) + Cardinality(stopped) <= errors
    <2>1. IsFiniteSet(T) /\ Cardinality(T) <= Cardinality(S)
      BY <1>4, FS_Subset
    <2>2. Cardinality(T) \in Nat /\ Cardinality(S) \in Nat
      BY <1>4, <2>1, FS_CardinalityType
    <2> QED
      BY <1>0, <1>4, <2>1, <2>2 DEF Faults
  <1> HIDE DEF Damaged, Busy
  <1> QED
    BY <1>1, <1>2, <1>3, <1>4

\* At the start nothing is harmed.
LEMMA DamageInvAtStart == Init => DamageInv
  <1> SUFFICES ASSUME Init PROVE DamageInv
    OBVIOUS
  <1>1. /\ \A t \in Topics : Len(log[t]) = 0
        /\ \A t \in Topics, o \in Orders : ~Published(t, o)
        /\ \A c \in Consumers : pc[c] = "idle" /\ pos[c] = 0
        /\ errors = 0 /\ stopped = {}
    BY DEF Init, BusInit, Published
  <1>2. /\ \A o \in Orders : /\ status[o] = "NONE" /\ payments[o] = "NONE"
                             /\ o \notin creating /\ cooking[o] = 0
        /\ \A k \in Couriers : couriers[k] = "AVAILABLE"
    BY DEF Init, OrderInit, PaymentInit, RestaurantInit, DeliveryInit
  <1>3. \A c \in Consumers, o \in Orders : Stage(c, o) = "none"
    BY <1>1, TopicOfType DEF Stage, Handled, Handling
  <1>4. /\ {charger, refunder, cashier, failer, closer, kitchen, dispatcher} \subseteq Consumers
        /\ Givers \subseteq Consumers /\ Single \subseteq Topics
        /\ {"order.created", "payment.processed", "payment.failed", "order.paid", "order.ready",
            "order.preparation.failed", "courier.assigned", "delivery.failed"} \subseteq Topics
    BY Roles DEF Single, Topics
  <1>5. ASSUME NEW o \in Orders PROVE Clean(o)
    <2>1. \A t \in Single : Once(t, o)
      BY <1>1, <1>4 DEF Once
    <2> QED
      BY <1>1, <1>2, <1>3, <1>4, <2>1
         DEF Clean, Placed, Charged, HandedOn, Declined, Cooked, Dispatched, GivenUp, GivenBack, Closed
  <1>6. Harmed = {} /\ Lost = {}
    BY <1>2, <1>5 DEF Harmed, Lost, Stuck
  <1>7. StatusIsTold
    BY <1>2 DEF StatusIsTold
  <1> QED
    BY <1>1, <1>6, <1>7, FS_EmptySet DEF DamageInv, Faults

\* Every step keeps count.
LEMMA DamageInvKept ==
    ASSUME MaxCrashes = 0, IInv, LifeInv, CancelRefunds, DamageInv, [Next]_vars
    PROVE  DamageInv'
  <1>1. Facts
    BY DEF Facts, DamageInv
  <1>2. StatusIsTold'
    BY StatusIsToldKept DEF DamageInv
  <1>3. IsFiniteSet(Harmed)' /\ Cardinality(Harmed)' <= Faults'
    BY <1>1, HarmIsCounted DEF DamageInv
  <1>4. IsFiniteSet(Lost)' /\ Cardinality(Lost)' <= Faults'
    BY LossIsCounted DEF DamageInv
  <1>5. IsFiniteSet(stopped)'
    BY NextCases, FaultsAreCounted DEF ServiceActs, DamageInv, IInv, Typed
  <1> QED
    BY <1>2, <1>3, <1>4, <1>5 DEF DamageInv

\* The count is right in every state that is reached without a crash.
LEMMA DamageInductive == ASSUME MaxCrashes = 0 PROVE Spec => []DamageInv
  <1>1. IInv /\ LifeInv /\ CancelRefunds /\ DamageInv /\ [Next]_vars => DamageInv'
    BY DamageInvKept
  <1> QED
    BY <1>1, DamageInvAtStart, Inductive, LifeInductive, CancellationsRefund, PTL DEF Spec

\* Without crashes, a call that fails ends one consumer, or harms one order and
\* keeps one courier at most: what is neither settled in the end nor held up at
\* a consumer that has stopped is no more than the failed calls that stopped
\* none, for any number of orders, couriers and failing calls.
THEOREM DamageIsBounded ==
    ASSUME MaxCrashes = 0
    PROVE  Spec => []DamageBounded
  <1>1. IInv /\ LifeInv /\ CancelRefunds /\ DamageInv => DamageBounded
    BY CountIsDamage DEF Facts, DamageInv
  <1> QED
    BY <1>1, DamageInductive, Inductive, LifeInductive, CancellationsRefund, PTL

-----------------------------------------------------------------------------
(***************************************************************************)
(* What this means for the customer of a clean order, while it is on its   *)
(* way as well.                                                            *)
(***************************************************************************)
\* When no call may fail every order is clean.
LEMMA AllAreClean ==
    ASSUME MaxErrors = 0, Facts, DamageInv, NEW o \in Orders
    PROVE  Clean(o)
  <1>1. /\ errors = 0 /\ IsFiniteSet(stopped)
        /\ IsFiniteSet(Harmed) /\ Cardinality(Harmed) <= Faults
    BY DEF Facts, IInv, Typed, BusOK, BusTypeOK, DamageInv
  <1>2. Cardinality(Harmed) = 0
    BY <1>1, FS_CardinalityType DEF Faults
  <1>3. Harmed = {}
    BY <1>1, <1>2, FS_EmptySet
  <1> QED
    BY <1>3 DEF Harmed

\* The refund of a clean order that is cancelled is requested or about to be.
LEMMA CleanIsRefunded ==
    ASSUME Facts, NEW o \in Orders, Clean(o), status[o] = "CANCELLED", payments[o] = "SUCCESS"
    PROVE  RefundUnderWay(o) \/ Published("payment.refund.requested", o)
  <1>1. BusOK /\ IsTerminal(status[o])
    BY DEF Facts, IInv, Typed, IsTerminal
  <1>2. ~Published("payment.failed", o)
    BY OneWay
  <1>3. PICK g \in Givers : Published(TopicOf(g), o)
    BY <1>2, Roles DEF Facts, StatusIsTold, Givers
  <1>4. GivenUp(g, o) /\ Stage(g, o) # "none"
    BY <1>1, <1>3, NothingSaid DEF Clean
  <1>5. CASE Stage(g, o) = "done"
    BY <1>4, <1>5 DEF GivenUp
  <1>6. CASE Stage(g, o) \in {"announceCancel", "publishCancelled", "requestRefund"}
    <2>1. Handling(g, o)
      BY <1>6 DEF Stage
    <2> QED
      BY <2>1 DEF Handling, RefundUnderWay, Facts, CancelRefunds, Givers, CancelGroups
  <1> QED
    BY <1>1, <1>4, <1>5, <1>6 DEF GivenUp

\* A clean order that is under way, or was delivered, keeps its charge.
LEMMA CleanIsNotBoth ==
    ASSUME Facts, NEW o \in Orders, Clean(o),
           \/ \E k \in Couriers : riding[k][o] > 0
           \/ arrived[o] > 0 \/ Published("order.delivered", o)
    PROVE  payments[o] = "SUCCESS" /\ ~Published("payment.refund.requested", o)
  <1>1. Caused /\ WorkIsCaused /\ Requested
    BY DEF Facts, LifeInv
  <1>2. Published("courier.assigned", o)
    BY <1>1, SaidBefore DEF WorkIsCaused
  <1>3. Published("order.ready", o) /\ Published("payment.processed", o)
    BY <1>1, <1>2, SaidBefore
  <1>4. ~Published("payment.refund.requested", o)
    BY <1>1, <1>2, <1>3, OneWay, SaidBefore
  <1> QED
    BY <1>1, <1>3, <1>4, OneWay DEF Paid, Requested

\* Without crashes and errors, a charged order is cancelled only with its refund
\* requested or about to be, for any number of orders and couriers.
THEOREM ChargesAreRefunded ==
    ASSUME MaxErrors = 0, MaxCrashes = 0
    PROVE  Spec => []NoChargeKeptSilently
  <1>1. IInv /\ LifeInv /\ CancelRefunds /\ DamageInv => NoChargeKeptSilently
    BY AllAreClean, CleanIsRefunded DEF Facts, DamageInv, NoChargeKeptSilently
  <1> QED
    BY <1>1, DamageInductive, Inductive, LifeInductive, CancellationsRefund, PTL

\* Without crashes and errors no customer gets both the food and the money, for
\* any number of orders and couriers.
THEOREM NeverBoth ==
    ASSUME MaxErrors = 0, MaxCrashes = 0
    PROVE  Spec => []NeverBothServedAndRefunded
  <1>1. IInv /\ LifeInv /\ CancelRefunds /\ DamageInv => NeverBothServedAndRefunded
    BY AllAreClean, CleanIsNotBoth DEF Facts, DamageInv, NeverBothServedAndRefunded
  <1> QED
    BY <1>1, DamageInductive, Inductive, LifeInductive, CancellationsRefund, PTL
=============================================================================
