--------------------------- MODULE OrderPageProofs --------------------------
(***************************************************************************)
(* Theorems about OrderPage, for any number of overlapping fetches and     *)
(* failing reads: a payment that was read is never behind the status that  *)
(* is shown with it, because the gateway reads it later.                   *)
(***************************************************************************)
EXTENDS OrderPage, TLAPS

Fetch == [at : {"free", "order", "payment", "answer", "error"},
          status : Statuses \cup {"NONE"}, payment : Told]

\* What the saga promises of the databases.
WorldTyped ==
    /\ status \in [{Watched} -> Statuses]
    /\ payment \in [{Watched} -> Payments]

\* A fetch that has read the order has a status of it.
HasRead(r) == r.at \in {"payment", "answer"} => r.status \in Statuses

PageTyped == PageTypeOK /\ WorldTyped /\ \A f \in Fetches : HasRead(fetch[f])

\* Payment p is not behind status s.
NotBehind(s, p) ==
    /\ s \in {"PAID", "DELIVERING", "DELIVERED"} => p \in {"SUCCESS", "REFUNDED"}
    /\ s = "REFUNDED" => p = "REFUNDED"

\* The inductive invariant: between its two reads a fetch holds a status that
\* the payment, which it has still to read, is not behind; and never will be,
\* because payments only move forward.
ReadsAgree ==
    /\ NotBehind(status[Watched], payment[Watched])
    /\ \A f \in Fetches :
          /\ fetch[f].at = "payment" => NotBehind(fetch[f].status, payment[Watched])
          /\ fetch[f].at = "answer" /\ fetch[f].payment # "UNREAD" =>
                NotBehind(fetch[f].status, fetch[f].payment)
    /\ PaymentNotBehind

PageInv == PageTyped /\ ReadsAgree

-----------------------------------------------------------------------------
\* A fetch that goes on is the only one that changes.
LEMMA OneFetch ==
    ASSUME PageTyped, NEW f \in Fetches, NEW r \in Fetch, fetch' = [fetch EXCEPT ![f] = r]
    PROVE  /\ fetch' \in [Fetches -> Fetch] /\ fetch'[f] = r
           /\ \A g \in Fetches \ {f} : fetch'[g] = fetch[g]
  BY DEF PageTyped, PageTypeOK, Fetch

\* What a fetch may hold.
LEMMA ReadingType ==
    /\ \A at \in {"free", "order", "payment", "answer", "error"},
          s \in Statuses \cup {"NONE"}, p \in Told :
             /\ Reading(at, s, p) \in Fetch
             /\ Reading(at, s, p).at = at /\ Reading(at, s, p).status = s
             /\ Reading(at, s, p).payment = p
    /\ Free \in Fetch /\ Free.at = "free" /\ Begun \in Fetch /\ Begun.at = "order"
  BY DEF Reading, Fetch, Free, Begun, Statuses, Payments, Told

\* One call fails, or none.
LEMMA FaultsType ==
    ASSUME PageTyped, Fault \/ UNCHANGED faults
    PROVE  faults' \in 0..MaxFaults
  BY PageBounds DEF PageTyped, PageTypeOK, Fault

-----------------------------------------------------------------------------
(***************************************************************************)
(* The saga, whose lifecycle is all that the page knows of it.             *)
(***************************************************************************)
\* An order goes on only with its payment.
LEMMA MoveType ==
    ASSUME PageTyped, Saga!Move(Watched)
    PROVE  /\ UNCHANGED payment /\ status' \in [{Watched} -> Statuses]
           /\ NotBehind(status'[Watched], payment[Watched])
  <1>1. PICK s \in Saga!NextStatuses(Watched) :
           /\ s \in {"PAID", "DELIVERING", "DELIVERED"} => Saga!Charged(Watched)
           /\ s = "REFUNDED" => payment[Watched] = "REFUNDED"
           /\ status' = [status EXCEPT ![Watched] = s]
    BY DEF Saga!Move
  <1>2. s \in Statuses
    <2>1. CASE status[Watched] = "PENDING"
      <3>1. Saga!NextStatuses(Watched) = {"PAID", "CANCELLED"}
        BY <2>1 DEF Saga!NextStatuses, Saga!Later
      <3> QED
        BY <1>1, <3>1 DEF Statuses
    <2>2. CASE status[Watched] # "PENDING"
      <3>1. status[Watched] \in Saga!Later
        BY <2>2 DEF PageTyped, WorldTyped, Statuses, Saga!Later
      <3>2. Saga!NextStatuses(Watched) = Saga!Later \ {status[Watched]}
        BY <3>1 DEF Saga!NextStatuses, Saga!Later
      <3> QED
        BY <1>1, <3>2 DEF Statuses, Saga!Later
    <2> QED
      BY <2>1, <2>2
  <1>3. status' \in [{Watched} -> Statuses] /\ status'[Watched] = s
    BY <1>1, <1>2 DEF PageTyped, WorldTyped
  <1> QED
    BY <1>1, <1>3 DEF NotBehind, Saga!Charged, Saga!Move

\* A payment moves forward: what it was not behind it is not behind later.
LEMMA PayType ==
    ASSUME PageTyped, Saga!Pay(Watched)
    PROVE  /\ UNCHANGED status /\ payment' \in [{Watched} -> Payments]
           /\ \A s : NotBehind(s, payment[Watched]) => NotBehind(s, payment'[Watched])
  <1>1. PICK p \in {"SUCCESS", "FAILED", "REFUNDED"} :
           /\ payment' = [payment EXCEPT ![Watched] = p]
           /\ payment[Watched] = "NONE" \/ (payment[Watched] = "SUCCESS" /\ p = "REFUNDED")
    BY DEF Saga!Pay
  <1>2. payment' \in [{Watched} -> Payments] /\ payment'[Watched] = p
    BY <1>1 DEF PageTyped, WorldTyped, Payments
  <1> QED
    BY <1>1, <1>2 DEF NotBehind, Saga!Pay

\* Whatever the saga does, no reading goes wrong.
LEMMA SagaKeepsPage ==
    ASSUME PageInv, Saga!LifeNext, UNCHANGED <<fetch, order, page, faults>>
    PROVE  PageInv'
  <1>1. Saga!Move(Watched) \/ Saga!Pay(Watched)
    BY DEF Saga!LifeNext
  <1>2. CASE Saga!Move(Watched)
    <2>1. PageTyped'
      BY <1>2, MoveType DEF PageInv, PageTyped, PageTypeOK, WorldTyped, HasRead
    <2>2. ReadsAgree'
      BY <1>2, MoveType DEF PageInv, ReadsAgree, PaymentNotBehind
    <2> QED
      BY <2>1, <2>2 DEF PageInv
  <1>3. CASE Saga!Pay(Watched)
    <2>1. PageTyped'
      BY <1>3, PayType DEF PageInv, PageTyped, PageTypeOK, WorldTyped, HasRead
    <2>2. ReadsAgree'
      BY <1>3, PayType DEF PageInv, ReadsAgree, PaymentNotBehind
    <2> QED
      BY <2>1, <2>2 DEF PageInv
  <1> QED
    BY <1>1, <1>2, <1>3

-----------------------------------------------------------------------------
(***************************************************************************)
(* The page and the gateway.                                               *)
(***************************************************************************)
\* A step of one fetch that shows nothing is right if what it holds is.
LEMMA FetchKeepsPage ==
    ASSUME PageInv, NEW f \in Fetches, NEW r \in Fetch, fetch' = [fetch EXCEPT ![f] = r],
           HasRead(r),
           r.at = "payment" => NotBehind(r.status, payment[Watched]),
           r.at = "answer" /\ r.payment # "UNREAD" => NotBehind(r.status, r.payment),
           page' \in [loading : BOOLEAN, error : BOOLEAN],
           Fault \/ UNCHANGED faults, UNCHANGED <<status, payment, order>>
    PROVE  PageInv'
  <1>1. PageTyped /\ ReadsAgree
    BY DEF PageInv
  <1>2. /\ fetch' \in [Fetches -> Fetch] /\ fetch'[f] = r
        /\ \A g \in Fetches \ {f} : fetch'[g] = fetch[g]
    BY <1>1, OneFetch
  <1>3. faults' \in 0..MaxFaults
    BY <1>1, FaultsType
  <1>4. PageTyped'
    BY <1>1, <1>2, <1>3 DEF PageTyped, PageTypeOK, WorldTyped, Fetch
  <1>5. ReadsAgree'
    BY <1>1, <1>2, <1>3 DEF ReadsAgree, PaymentNotBehind
  <1> QED
    BY <1>4, <1>5 DEF PageInv

\* The interval fires.
LEMMA TickKeepsPage == ASSUME PageInv, Tick PROVE PageInv'
  <1>1. PICK f \in Fetches : fetch' = [fetch EXCEPT ![f] = Begun]
    BY DEF Tick, Begin
  <1>2. UNCHANGED <<status, payment, order, page, faults>>
    BY DEF Tick
  <1>3. page' \in [loading : BOOLEAN, error : BOOLEAN]
    BY <1>2 DEF PageInv, PageTyped, PageTypeOK
  <1> QED
    BY <1>1, <1>2, <1>3, ReadingType, FetchKeepsPage DEF HasRead

\* The gateway reads the order, as it is now.
LEMMA ReadOrderKeepsPage ==
    ASSUME PageInv, NEW f \in Fetches, ReadOrder(f)
    PROVE  PageInv'
  <1>0. PageTyped /\ ReadsAgree /\ UNCHANGED <<status, payment, order, page>>
    BY DEF PageInv, ReadOrder
  <1>1. page' \in [loading : BOOLEAN, error : BOOLEAN]
    BY <1>0 DEF PageTyped, PageTypeOK
  <1>2. CASE /\ fetch' = [fetch EXCEPT ![f] = Reading("payment", status[Watched], "NONE")]
             /\ UNCHANGED faults
    <2> DEFINE r == Reading("payment", status[Watched], "NONE")
    <2>1. r \in Fetch /\ r.at = "payment" /\ r.status = status[Watched] /\ HasRead(r)
      BY <1>0, ReadingType DEF PageTyped, WorldTyped, Payments, Told, HasRead
    <2> HIDE DEF r
    <2>2. fetch' = [fetch EXCEPT ![f] = r]
      BY <1>2 DEF r
    <2>3. NotBehind(r.status, payment[Watched])
      BY <1>0, <2>1 DEF ReadsAgree
    <2> QED
      BY <1>0, <1>1, <1>2, <2>1, <2>2, <2>3, FetchKeepsPage
  <1>3. CASE fetch' = [fetch EXCEPT ![f].at = "error"] /\ Fault
    <2> DEFINE r == [fetch[f] EXCEPT !.at = "error"]
    <2>1. r \in Fetch /\ r.at = "error" /\ HasRead(r)
      BY <1>0 DEF PageTyped, PageTypeOK, Fetch, HasRead
    <2>2. fetch' = [fetch EXCEPT ![f] = r]
      BY <1>0, <1>3 DEF PageTyped, PageTypeOK
    <2> HIDE DEF r
    <2> QED
      BY <1>0, <1>1, <1>3, <2>1, <2>2, FetchKeepsPage
  <1> QED
    BY <1>2, <1>3 DEF ReadOrder

\* The gateway reads the payment, after the order.
LEMMA ReadPaymentKeepsPage ==
    ASSUME PageInv, NEW f \in Fetches, ReadPayment(f)
    PROVE  PageInv'
  <1>0. /\ PageTyped /\ ReadsAgree /\ UNCHANGED <<status, payment, order, page>>
        /\ fetch[f].at = "payment" /\ fetch[f] \in Fetch
    BY DEF PageInv, ReadPayment, PageTyped, PageTypeOK, Fetch
  <1>1. page' \in [loading : BOOLEAN, error : BOOLEAN]
    BY <1>0 DEF PageTyped, PageTypeOK
  <1>2. CASE /\ fetch' = [fetch EXCEPT ![f] = Reading("answer", @.status, payment[Watched])]
             /\ UNCHANGED faults
    <2> DEFINE r == Reading("answer", fetch[f].status, payment[Watched])
    <2>1. /\ r \in Fetch /\ r.at = "answer" /\ r.status = fetch[f].status
          /\ r.payment = payment[Watched] /\ HasRead(r)
      BY <1>0, ReadingType DEF PageTyped, WorldTyped, Fetch, Told, HasRead
    <2>2. fetch' = [fetch EXCEPT ![f] = r]
      BY <1>0, <1>2 DEF PageTyped, PageTypeOK
    <2> HIDE DEF r
    <2>3. NotBehind(r.status, r.payment)
      BY <1>0, <2>1 DEF ReadsAgree
    <2> QED
      BY <1>0, <1>1, <1>2, <2>1, <2>2, <2>3, FetchKeepsPage
  <1>3. CASE fetch' = [fetch EXCEPT ![f] = Reading("answer", @.status, "UNREAD")] /\ Fault
    <2> DEFINE r == Reading("answer", fetch[f].status, "UNREAD")
    <2>1. r \in Fetch /\ r.at = "answer" /\ r.payment = "UNREAD" /\ HasRead(r)
      BY <1>0, ReadingType DEF PageTyped, Fetch, Told, HasRead
    <2>2. fetch' = [fetch EXCEPT ![f] = r]
      BY <1>0, <1>3 DEF PageTyped, PageTypeOK
    <2> HIDE DEF r
    <2> QED
      BY <1>0, <1>1, <1>3, <2>1, <2>2, FetchKeepsPage
  <1> QED
    BY <1>2, <1>3 DEF ReadPayment

\* An answer is shown.
LEMMA AnsweredKeepsPage ==
    ASSUME PageInv, NEW f \in Fetches, Answered(f)
    PROVE  PageInv'
  <1>0. /\ PageTyped /\ ReadsAgree /\ UNCHANGED <<status, payment, faults>>
        /\ fetch[f].at = "answer" /\ fetch[f] \in Fetch
        /\ order' = [status |-> fetch[f].status, payment |-> fetch[f].payment]
        /\ page' = [loading |-> FALSE, error |-> FALSE]
        /\ fetch' = [fetch EXCEPT ![f] = Free]
    BY DEF PageInv, Answered, PageTyped, PageTypeOK, Fetch
  <1>1. /\ fetch' \in [Fetches -> Fetch] /\ fetch'[f] = Free /\ Free.at = "free"
        /\ \A g \in Fetches \ {f} : fetch'[g] = fetch[g]
    BY <1>0, OneFetch, ReadingType
  <1>2. order' \in [status : Statuses, payment : Told]
    BY <1>0 DEF Fetch, PageTyped, HasRead
  <1>3. PageTyped'
    BY <1>0, <1>1, <1>2 DEF PageTyped, PageTypeOK, WorldTyped, Fetch, HasRead
  <1>4. ReadsAgree'
    BY <1>0, <1>1 DEF ReadsAgree, PaymentNotBehind, NotBehind
  <1> QED
    BY <1>3, <1>4 DEF PageInv

\* A rejection leaves the order as it was shown.
LEMMA RejectedKeepsPage ==
    ASSUME PageInv, NEW f \in Fetches, Rejected(f)
    PROVE  PageInv'
  <1>1. /\ fetch' = [fetch EXCEPT ![f] = Free] /\ UNCHANGED <<status, payment, order>>
        /\ Fault \/ UNCHANGED faults
        /\ page' = AfterError
    BY DEF Rejected
  <1>2. AfterError \in [loading : BOOLEAN, error : BOOLEAN]
    BY DEF AfterError
  <1> QED
    BY <1>1, <1>2, ReadingType, FetchKeepsPage DEF HasRead

-----------------------------------------------------------------------------
\* The page is mounted while its order is PENDING.
LEMMA InitPage == Init => PageInv
  <1> SUFFICES ASSUME Init PROVE PageInv
    OBVIOUS
  <1>1. PICK f \in Fetches : fetch = [g \in Fetches |-> IF g = f THEN Begun ELSE Free]
    BY DEF Init
  <1>2. fetch \in [Fetches -> Fetch] /\ \A g \in Fetches : fetch[g].at \in {"free", "order"}
    BY <1>1, ReadingType
  <1>3. PageTyped
    BY <1>2, PageBounds DEF Init, PageTyped, HasRead, PageTypeOK, WorldTyped, Fetch, Statuses, Payments
  <1>4. ReadsAgree
    BY <1>2 DEF Init, ReadsAgree, PaymentNotBehind, NotBehind
  <1> QED
    BY <1>3, <1>4 DEF PageInv

\* Every step keeps the invariant.
LEMMA NextPage == PageInv /\ [Next]_pageVars => PageInv'
  <1> SUFFICES ASSUME PageInv, [Next]_pageVars PROVE PageInv'
    OBVIOUS
  <1>1. CASE UNCHANGED pageVars
    BY <1>1 DEF pageVars, PageInv, PageTyped, PageTypeOK, WorldTyped, HasRead,
       ReadsAgree, PaymentNotBehind
  <1>2. CASE Saga!LifeNext /\ UNCHANGED <<fetch, order, page, faults>>
    BY <1>2, SagaKeepsPage
  <1>3. CASE Tick
    BY <1>3, TickKeepsPage
  <1>4. ASSUME NEW f \in Fetches, GetOrderWithDetails(f) \/ Answered(f) \/ Rejected(f)
        PROVE  PageInv'
    BY <1>4, ReadOrderKeepsPage, ReadPaymentKeepsPage, AnsweredKeepsPage, RejectedKeepsPage
       DEF GetOrderWithDetails
  <1> QED
    BY <1>1, <1>2, <1>3, <1>4 DEF Next

\* The inductive invariant of the page.
THEOREM PageIsInvariant == Spec => []PageInv
  BY InitPage, NextPage, PTL DEF Spec

\* The types of the page's variables, and of the databases it is shown from.
THEOREM PageTypesHold == Spec => []PageTypeOK
  <1>1. PageInv => PageTypeOK
    BY DEF PageInv, PageTyped
  <1> QED
    BY <1>1, PageIsInvariant, PTL

\* An order is never shown further than the payment read for the same answer,
\* however many fetches overlap or fail (getOrderWithDetails of the gateway,
\* page.tsx); nothing is said of an answer whose own read of the payment failed.
THEOREM PaymentIsNotBehind == Spec => []PaymentNotBehind
  <1>1. PageInv => PaymentNotBehind
    BY DEF PageInv, ReadsAgree
  <1> QED
    BY <1>1, PageIsInvariant, PTL
=============================================================================
