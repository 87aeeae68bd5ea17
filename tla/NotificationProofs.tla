-------------------------- MODULE NotificationProofs ------------------------
(***************************************************************************)
(* Theorems about NotificationService, for any number of orders, messages, *)
(* deaths and groups that stop: the list holds exactly what the process has handled,      *)
(* however the eleven goroutines interleave at the mutex.                  *)
(***************************************************************************)
EXTENDS NotificationService, FiniteSetTheorems, TLAPS

\* The types that the offsets and the list need.
NotifyTyped ==
    /\ log \in [Story!Told -> Seq(Orders)]
    /\ seen \in [Subscribed -> Nat]
    /\ stored \in [Subscribed -> Nat]
    /\ records \in [Subscribed -> Nat]
    /\ NotifyTypeOK

\* Channel ch has been notified of the message at hand, which is about order o.
AtHand(t, ch, o) ==
    \E k \in 1..records[t] : Channels(t)[k] = ch /\ log[t][seen[t] + 1] = o

\* How often the list is to hold a notification.
Times(t, ch, o) ==
    Cardinality(About(t, stored[t], seen[t], o)) + (IF AtHand(t, ch, o) THEN 1 ELSE 0)

\* The inductive invariant.
NotifyInv == NotifyTyped /\ ListIsExact

-----------------------------------------------------------------------------
(***************************************************************************)
(* Channels, messages and notifications.                                   *)
(***************************************************************************)
\* The topics are among those that the platform publishes on.
LEMMA SubscribedAreTold == Subscribed \subseteq Story!Told
  BY DEF Subscribed, Story!Told

\* Every message is notified on one or two channels, on none of them twice.
LEMMA ChannelsType ==
    ASSUME NEW t \in Subscribed
    PROVE  /\ Channels(t) \in Seq({"push", "sms", "email"})
           /\ Len(Channels(t)) \in {1, 2}
           /\ Len(Channels(t)) = 2 => Channels(t)[1] # Channels(t)[2]
  <1>1. CASE t \in {"order.created", "order.preparation.failed", "payment.refunded",
                    "order.delivered"}
    <2>1. Channels(t) = <<"push", "email">>
      BY <1>1 DEF Channels
    <2> QED
      BY <2>1
  <1>2. CASE t \in {"payment.processed", "delivery.failed", "courier.assigned"}
    <2>1. Channels(t) = <<"push", "sms">>
      BY <1>2 DEF Channels
    <2> QED
      BY <2>1
  <1>3. CASE t = "payment.refund.requested"
    <2>1. Channels(t) = <<"email">>
      BY <1>3 DEF Channels
    <2> QED
      BY <2>1
  <1>4. CASE t \in {"payment.failed", "order.cancelled", "order.ready"}
    <2>1. Channels(t) = <<"push">>
      BY <1>4 DEF Channels
    <2> QED
      BY <2>1
  <1> QED
    BY <1>1, <1>2, <1>3, <1>4 DEF Subscribed

\* A notification is about an order, on a channel of its topic.
LEMMA NotificationParts ==
    ASSUME NEW n \in Notifications
    PROVE  /\ n[1] \in Subscribed /\ n[3] \in Orders /\ n = <<n[1], n[2], n[3]>>
           /\ \E k \in 1..Len(Channels(n[1])) : Channels(n[1])[k] = n[2]
  BY DEF Notifications, Contains

\* And each such triple is one.
LEMMA NotificationOf ==
    ASSUME NEW t \in Subscribed, NEW k \in 1..Len(Channels(t)), NEW o \in Orders
    PROVE  <<t, Channels(t)[k], o>> \in Notifications
  <1>1. Channels(t)[k] \in {"push", "sms", "email"}
    BY ChannelsType
  <1>2. Contains(Channels(t), Channels(t)[k])
    BY DEF Contains
  <1> QED
    BY <1>1, <1>2 DEF Notifications

\* The messages about an order are finitely many.
LEMMA AboutFinite ==
    ASSUME NEW t, NEW a \in Nat, NEW b \in Nat, NEW o
    PROVE  IsFiniteSet(About(t, a, b, o)) /\ Cardinality(About(t, a, b, o)) \in Nat
  <1>1. About(t, a, b, o) \subseteq (a + 1)..b /\ IsFiniteSet((a + 1)..b)
    BY FS_Interval DEF About
  <1> QED
    BY <1>1, FS_Subset, FS_CardinalityType

\* One message more that was handled counts for the order it is about.
LEMMA AboutOneMore ==
    ASSUME NEW t, NEW a \in Nat, NEW b \in Nat, a <= b, NEW o
    PROVE  /\ log[t][b + 1] = o =>
                 Cardinality(About(t, a, b + 1, o)) = Cardinality(About(t, a, b, o)) + 1
           /\ log[t][b + 1] # o =>
                 Cardinality(About(t, a, b + 1, o)) = Cardinality(About(t, a, b, o))
           /\ Cardinality(About(t, a, b, o)) \in Nat
  <1>1. IsFiniteSet(About(t, a, b, o)) /\ Cardinality(About(t, a, b, o)) \in Nat
    BY AboutFinite
  <1>2. CASE log[t][b + 1] = o
    <2>1. About(t, a, b + 1, o) = About(t, a, b, o) \cup {b + 1}
      BY <1>2 DEF About
    <2>2. b + 1 \notin About(t, a, b, o)
      BY DEF About
    <2> QED
      BY <1>1, <1>2, <2>1, <2>2, FS_AddElement
  <1>3. CASE log[t][b + 1] # o
    <2>1. About(t, a, b + 1, o) = About(t, a, b, o)
      BY <1>3 DEF About
    <2> QED
      BY <1>1, <1>3, <2>1
  <1> QED
    BY <1>2, <1>3

\* The list is exact when each notification is in it as often as it is to be.
LEMMA ExactlyTimes ==
    ListIsExact <=> \A n \in Notifications : sent[n] = Times(n[1], n[2], n[3])
  BY DEF ListIsExact, Times, AtHand

-----------------------------------------------------------------------------
(***************************************************************************)
(* The steps.                                                              *)
(***************************************************************************)
\* A message is published: nothing that was handled or is at hand changes.
LEMMA PublishKeepsList ==
    ASSUME NotifyInv, NEW t \in Story!Told, NEW o \in Orders, Publish(t, o)
    PROVE  NotifyInv'
  <1>0. /\ NotifyTyped /\ UNCHANGED <<seen, stored, records, sent, up, stopped, deaths>>
        /\ log' = [log EXCEPT ![t] = Append(log[t], o)]
    BY DEF NotifyInv, Publish
  <1>1. /\ log' \in [Story!Told -> Seq(Orders)]
        /\ \A s \in Story!Told :
              /\ Len(log[s]) \in Nat /\ Len(log'[s]) \in Nat /\ Len(log'[s]) >= Len(log[s])
              /\ \A i \in 1..Len(log[s]) : log'[s][i] = log[s][i]
    <2>1. log[t] \in Seq(Orders)
      BY <1>0 DEF NotifyTyped
    <2>2. /\ Append(log[t], o) \in Seq(Orders) /\ Len(Append(log[t], o)) = Len(log[t]) + 1
          /\ Len(log[t]) \in Nat
          /\ \A i \in 1..Len(log[t]) : Append(log[t], o)[i] = log[t][i]
      BY <2>1
    <2> HIDE DEF Story!Told
    <2> QED
      BY <1>0, <2>2 DEF NotifyTyped
  <1>2. \A s \in Subscribed : /\ s \in Story!Told /\ seen[s] \in Nat /\ stored[s] \in Nat
                              /\ seen[s] <= Len(log[s]) /\ records[s] \in Nat
                              /\ (records[s] > 0 => seen[s] + 1 <= Len(log[s]))
    BY <1>0, <1>1, SubscribedAreTold DEF NotifyTyped, NotifyTypeOK, HasMessage
  <1>3. NotifyTyped'
    BY <1>0, <1>1, <1>2 DEF NotifyTyped, NotifyTypeOK, HasMessage
  <1>4. ASSUME NEW n \in Notifications PROVE sent'[n] = Times(n[1], n[2], n[3])'
    <2>1. n[1] \in Subscribed
      BY NotificationParts
    <2> DEFINE s == n[1]
    <2>2. About(s, stored[s], seen[s], n[3])' = About(s, stored[s], seen[s], n[3])
      BY <1>0, <1>1, <1>2, <2>1 DEF About
    <2>3. AtHand(s, n[2], n[3])' <=> AtHand(s, n[2], n[3])
      BY <1>0, <1>1, <1>2, <2>1 DEF AtHand
    <2>4. sent[n] = Times(s, n[2], n[3])
      BY ExactlyTimes DEF NotifyInv
    <2> QED
      BY <1>0, <2>2, <2>3, <2>4 DEF Times
  <1>5. ListIsExact'
    BY <1>4 DEF ListIsExact, Times, AtHand
  <1> QED
    BY <1>3, <1>5 DEF NotifyInv

\* What the handler of a topic has at hand, and where its steps lead.
LEMMA RecordType ==
    ASSUME NotifyTyped, NEW t \in Subscribed, Record(t)
    PROVE  \E n \in Notifications :
             /\ n = <<t, Channels(t)[records[t] + 1], log[t][seen[t] + 1]>>
             /\ records[t] + 1 \in 1..Len(Channels(t))
             /\ sent' = [sent EXCEPT ![n] = sent[n] + 1]
             /\ UNCHANGED <<log, stored, up, stopped, deaths>>
             /\ \/ /\ records[t] + 1 = Len(Channels(t))
                   /\ seen' = [seen EXCEPT ![t] = seen[t] + 1]
                   /\ records' = [records EXCEPT ![t] = 0]
                \/ /\ records[t] + 1 < Len(Channels(t))
                   /\ records' = [records EXCEPT ![t] = records[t] + 1]
                   /\ UNCHANGED seen
  <1> DEFINE n == <<t, Channels(t)[records[t] + 1], log[t][seen[t] + 1]>>
  <1>1. records[t] \in 0..(Len(Channels(t)) - 1) /\ Len(Channels(t)) \in {1, 2}
    BY ChannelsType DEF NotifyTyped, NotifyTypeOK
  <1>2. log[t] \in Seq(Orders) /\ seen[t] \in Nat /\ seen[t] < Len(log[t])
    BY SubscribedAreTold DEF NotifyTyped, Record, HasMessage
  <1>3. log[t][seen[t] + 1] \in Orders
    BY <1>2
  <1>4. records[t] + 1 \in 1..Len(Channels(t))
    BY <1>1
  <1>5. n \in Notifications
    BY <1>3, <1>4, NotificationOf
  <1>6. /\ sent' = [sent EXCEPT ![n] = sent[n] + 1]
        /\ UNCHANGED <<log, stored, up, stopped, deaths>>
        /\ \/ /\ records[t] + 1 = Len(Channels(t))
              /\ seen' = [seen EXCEPT ![t] = seen[t] + 1]
              /\ records' = [records EXCEPT ![t] = 0]
           \/ /\ records[t] + 1 # Len(Channels(t))
              /\ records' = [records EXCEPT ![t] = records[t] + 1]
              /\ UNCHANGED seen
    BY DEF Record, AtLast
  <1> HIDE DEF n
  <1>7. records[t] + 1 # Len(Channels(t)) => records[t] + 1 < Len(Channels(t))
    BY <1>1
  <1> QED
    BY <1>4, <1>5, <1>6, <1>7 DEF n

\* One notification is recorded: it is in the list once more, and the message
\* is handled with the last.
LEMMA RecordKeepsList ==
    ASSUME NotifyInv, NEW t \in Subscribed, Record(t)
    PROVE  NotifyInv'
  <1>0. NotifyTyped /\ ListIsExact
    BY DEF NotifyInv
  <1> DEFINE k == records[t] + 1
             m == log[t][seen[t] + 1]
  <1>1. PICK n0 \in Notifications :
             /\ n0 = <<t, Channels(t)[k], m>>
             /\ k \in 1..Len(Channels(t))
             /\ sent' = [sent EXCEPT ![n0] = sent[n0] + 1]
             /\ UNCHANGED <<log, stored, up, stopped, deaths>>
             /\ \/ /\ k = Len(Channels(t))
                   /\ seen' = [seen EXCEPT ![t] = seen[t] + 1]
                   /\ records' = [records EXCEPT ![t] = 0]
                \/ /\ k < Len(Channels(t))
                   /\ records' = [records EXCEPT ![t] = k]
                   /\ UNCHANGED seen
    BY <1>0, RecordType
  <1>2. /\ seen[t] \in Nat /\ stored[t] \in Nat /\ stored[t] <= seen[t] /\ records[t] \in Nat
        /\ log[t] \in Seq(Orders) /\ seen[t] < Len(log[t]) /\ Len(Channels(t)) \in {1, 2}
    BY <1>0, SubscribedAreTold, ChannelsType DEF NotifyTyped, NotifyTypeOK, Record, HasMessage
  <1>3. /\ \A s \in Subscribed \ {t} : seen'[s] = seen[s] /\ records'[s] = records[s]
        /\ \/ k = Len(Channels(t)) /\ seen'[t] = seen[t] + 1 /\ records'[t] = 0
           \/ k < Len(Channels(t)) /\ seen'[t] = seen[t] /\ records'[t] = k
        /\ \A n \in Notifications : sent'[n] = sent[n] + (IF n = n0 THEN 1 ELSE 0)
        /\ seen' \in [Subscribed -> Nat] /\ records' \in [Subscribed -> Nat]
        /\ sent' \in [Notifications -> Nat]
    <2>1. sent \in [Notifications -> Nat] /\ seen \in [Subscribed -> Nat]
          /\ records \in [Subscribed -> Nat] /\ k \in Nat
      BY <1>0, <1>2 DEF NotifyTyped, NotifyTypeOK
    <2>2. sent' \in [Notifications -> Nat]
          /\ \A n \in Notifications : sent'[n] = sent[n] + (IF n = n0 THEN 1 ELSE 0)
      <3> HIDE DEF k, m
      <3>1. sent' \in [Notifications -> Nat] /\ sent'[n0] = sent[n0] + 1
        BY <1>1, <2>1
      <3>2. \A n \in Notifications \ {n0} : sent'[n] = sent[n] /\ sent[n] \in Nat
        BY <1>1, <2>1
      <3>3. \A n \in Notifications : sent'[n] = sent[n] + (IF n = n0 THEN 1 ELSE 0)
        BY <3>1, <3>2
      <3> QED
        BY <3>1, <3>3
    <2> HIDE DEF k, m
    <2>3. /\ \A s \in Subscribed \ {t} : seen'[s] = seen[s] /\ records'[s] = records[s]
          /\ \/ k = Len(Channels(t)) /\ seen'[t] = seen[t] + 1 /\ records'[t] = 0
             \/ k < Len(Channels(t)) /\ seen'[t] = seen[t] /\ records'[t] = k
      BY <1>1, <1>2, <2>1
    <2>4. seen' \in [Subscribed -> Nat] /\ records' \in [Subscribed -> Nat]
      BY <1>1, <1>2, <2>1
    <2> QED
      BY <2>2, <2>3, <2>4
  <1>4. NotifyTyped'
    <2>1. ASSUME NEW s \in Subscribed
          PROVE  /\ stored'[s] \in 0..seen'[s] /\ seen'[s] \in 0..Len(log'[s])
                 /\ records'[s] \in 0..(Len(Channels(s)) - 1)
                 /\ records'[s] > 0 => seen'[s] < Len(log'[s])
      <3>1. /\ stored[s] \in 0..seen[s] /\ seen[s] \in 0..Len(log[s])
            /\ records[s] \in 0..(Len(Channels(s)) - 1)
            /\ records[s] > 0 => seen[s] < Len(log[s])
        BY <1>0 DEF NotifyTyped, NotifyTypeOK, HasMessage
      <3>2. log' = log /\ stored' = stored /\ Len(log[t]) \in Nat
        BY <1>1, <1>2
      <3>3. CASE s = t
        BY <1>1, <1>2, <1>3, <3>1, <3>2, <3>3
      <3>4. CASE s # t
        BY <1>3, <3>1, <3>2, <3>4
      <3> QED
        BY <3>3, <3>4
    <2> QED
      BY <1>0, <1>1, <1>3, <2>1 DEF NotifyTyped, NotifyTypeOK, HasMessage
  <1>5. ASSUME NEW n \in Notifications PROVE sent'[n] = Times(n[1], n[2], n[3])'
    <2>0. /\ n[1] \in Subscribed /\ n = <<n[1], n[2], n[3]>>
          /\ sent[n] = Times(n[1], n[2], n[3])
      BY <1>0, NotificationParts, ExactlyTimes
    <2>1. CASE n[1] # t
      <3>1. Times(n[1], n[2], n[3])' = Times(n[1], n[2], n[3])
        BY <1>1, <1>3, <2>0, <2>1 DEF Times, AtHand, About
      <3>2. n # n0
        BY <1>1, <2>1
      <3>3. sent[n] \in Nat
        BY <1>0 DEF NotifyTyped, NotifyTypeOK
      <3> QED
        BY <1>3, <2>0, <3>1, <3>2, <3>3
    <2>2. CASE n[1] = t
      <3> DEFINE ch == n[2]
                 o == n[3]
                 before == Cardinality(About(t, stored[t], seen[t], o))
      <3>1. before \in Nat
        BY <1>2, AboutFinite
      <3>2. n = n0 <=> (ch = Channels(t)[k] /\ o = m)
        BY <1>1, <2>0, <2>2
      <3>3. PICK j \in 1..Len(Channels(t)) : Channels(t)[j] = ch
        BY <2>2, NotificationParts
      <3>4. AtHand(t, ch, o) <=> (o = m /\ \E i \in 1..records[t] : Channels(t)[i] = ch)
        BY DEF AtHand
      <3>5. AtHand(t, ch, o) => Channels(t)[k] # ch
        <4>1. ASSUME NEW i \in 1..records[t], Channels(t)[i] = ch, Channels(t)[k] = ch
              PROVE  FALSE
          <5>1. k = 2 /\ Len(Channels(t)) = 2
            BY <1>1, <1>2
          <5>2. i = 1
            BY <1>2, <5>1
          <5> QED
            BY <4>1, <5>1, <5>2, ChannelsType
        <4> QED
          BY <3>4, <4>1
      <3>6. CASE k = Len(Channels(t)) /\ seen'[t] = seen[t] + 1 /\ records'[t] = 0
        <4>1. ~AtHand(t, ch, o)'
          BY <3>6 DEF AtHand
        <4>2. Times(t, ch, o)' = Cardinality(About(t, stored[t], seen[t] + 1, o))
          <5>1. About(t, stored[t], seen[t], o)' = About(t, stored[t], seen[t] + 1, o)
            BY <1>1, <3>6 DEF About
          <5>2. Times(t, ch, o)' = Cardinality(About(t, stored[t], seen[t], o)')
                                     + (IF AtHand(t, ch, o)' THEN 1 ELSE 0)
            BY DEF Times
          <5>3. Cardinality(About(t, stored[t], seen[t] + 1, o)) \in Nat
            BY <1>2, AboutFinite
          <5> QED
            BY <4>1, <5>1, <5>2, <5>3
        <4>3. Times(t, ch, o)' = before + (IF m = o THEN 1 ELSE 0)
          <5> DEFINE a == stored[t]
                     b == seen[t]
          <5>1. a \in Nat /\ b \in Nat /\ a <= b
            BY <1>2
          <5> HIDE DEF a, b, o
          <5>2. /\ log[t][b + 1] = o =>
                      Cardinality(About(t, a, b + 1, o)) = Cardinality(About(t, a, b, o)) + 1
                /\ log[t][b + 1] # o =>
                      Cardinality(About(t, a, b + 1, o)) = Cardinality(About(t, a, b, o))
                /\ Cardinality(About(t, a, b, o)) \in Nat
            BY <5>1, AboutOneMore
          <5> QED
            BY <4>2, <5>2 DEF a, b, o
        <4>4. o = m => (AtHand(t, ch, o) <=> ch # Channels(t)[k])
          <5>1. ASSUME o = m, ch # Channels(t)[k] PROVE AtHand(t, ch, o)
            <6>1. j \in 1..records[t]
              BY <1>1, <1>2, <3>3, <3>6, <5>1
            <6> QED
              BY <3>3, <3>4, <5>1, <6>1
          <5> QED
            BY <3>5, <5>1
        <4>5. sent[n] = before + (IF AtHand(t, ch, o) THEN 1 ELSE 0)
          BY <2>0, <2>2 DEF Times
        <4>6. o # m => ~AtHand(t, ch, o)
          BY <3>4
        <4> HIDE DEF before, k, m, ch, o
        <4>7. sent'[n] = before + (IF m = o THEN 1 ELSE 0)
          BY <1>3, <3>1, <3>2, <4>4, <4>5, <4>6
        <4> QED
          BY <2>2, <4>3, <4>7 DEF ch, o
      <3>7. CASE k < Len(Channels(t)) /\ seen'[t] = seen[t] /\ records'[t] = k
        <4>1. About(t, stored[t], seen[t], o)' = About(t, stored[t], seen[t], o)
          BY <1>1, <3>7 DEF About
        <4>2. AtHand(t, ch, o)' <=> (AtHand(t, ch, o) \/ n = n0)
          <5>1. AtHand(t, ch, o)' <=> (o = m /\ \E i \in 1..k : Channels(t)[i] = ch)
            BY <1>1, <3>7 DEF AtHand
          <5>2. \A i : i \in 1..k <=> (i \in 1..records[t] \/ i = k)
            BY <1>2
          <5> QED
            BY <3>2, <3>4, <5>1, <5>2
        <4>3. n = n0 => ~AtHand(t, ch, o)
          BY <3>2, <3>5
        <4>4. sent[n] = before + (IF AtHand(t, ch, o) THEN 1 ELSE 0)
          BY <2>0, <2>2 DEF Times
        <4>5. Times(t, ch, o)' = before + (IF AtHand(t, ch, o)' THEN 1 ELSE 0)
          BY <4>1 DEF Times
        <4> HIDE DEF before, k, m, ch, o
        <4>6. sent'[n] = before + (IF AtHand(t, ch, o)' THEN 1 ELSE 0)
          BY <1>3, <3>1, <4>2, <4>3, <4>4
        <4> QED
          BY <2>2, <4>5, <4>6 DEF ch, o
      <3> QED
        BY <1>3, <3>6, <3>7
    <2> QED
      BY <2>1, <2>2
  <1>6. ListIsExact'
    BY <1>5 DEF ListIsExact, Times, AtHand
  <1> QED
    BY <1>4, <1>6 DEF NotifyInv

\* The process dies with its list; its groups begin where they had stored.
LEMMA DeathKeepsList == ASSUME NotifyInv, Die PROVE NotifyInv'
  <1>0. NotifyTyped
    BY DEF NotifyInv
  <1>1. PICK f \in Offsets : seen' = Resumed(f)
    BY DEF Die
  <1>2. /\ stored' = seen' /\ records' = [t \in Subscribed |-> 0]
        /\ sent' = [n \in Notifications |-> 0] /\ log' = log
        /\ deaths' \in 0..MaxDeaths /\ up' = FALSE /\ stopped' = {}
    BY <1>0, NotifyBounds DEF Die, NotifyTyped, NotifyTypeOK
  <1>3. /\ DOMAIN f = Lagging /\ Lagging \subseteq Subscribed
        /\ \A t \in Lagging : f[t] \in stored[t]..seen[t]
    BY DEF Offsets, Lagging
  <1>4. /\ seen' \in [Subscribed -> Nat]
        /\ \A t \in Subscribed : seen'[t] <= seen[t]
    <2>1. seen \in [Subscribed -> Nat] /\ stored \in [Subscribed -> Nat]
      BY <1>0 DEF NotifyTyped
    <2>2. \A t \in Lagging : f[t] \in Nat /\ f[t] <= seen[t]
      BY <1>3, <2>1
    <2>3. seen' = [t \in Subscribed |-> IF t \in Lagging THEN f[t] ELSE seen[t]]
      BY <1>1 DEF Resumed
    <2> QED
      BY <2>1, <2>2, <2>3
  <1>5. NotifyTyped'
    <2>1. ASSUME NEW s \in Subscribed
          PROVE  /\ stored'[s] \in 0..seen'[s] /\ seen'[s] \in 0..Len(log'[s])
                 /\ records'[s] \in 0..(Len(Channels(s)) - 1) /\ records'[s] = 0
      <3>1. seen[s] \in Nat /\ seen'[s] \in Nat /\ seen[s] \in 0..Len(log[s]) /\ seen'[s] <= seen[s]
        BY <1>0, <1>4 DEF NotifyTyped, NotifyTypeOK
      <3>2. log[s] \in Seq(Orders)
        BY <1>0, SubscribedAreTold DEF NotifyTyped
      <3>3. Len(Channels(s)) \in {1, 2}
        BY ChannelsType
      <3>4. records'[s] = 0 /\ stored'[s] = seen'[s] /\ log'[s] = log[s]
        BY <1>2
      <3>5. stored'[s] \in 0..seen'[s]
        BY <3>1, <3>4
      <3>6. seen'[s] \in 0..Len(log'[s])
        BY <3>1, <3>2, <3>4
      <3>7. records'[s] \in 0..(Len(Channels(s)) - 1)
        <4>1. 0 \in 0..(Len(Channels(s)) - 1)
          BY <3>3
        <4> QED
          BY <3>4, <4>1
      <3> QED
        BY <3>4, <3>5, <3>6, <3>7
    <2>2. /\ log' \in [Story!Told -> Seq(Orders)] /\ sent' \in [Notifications -> Nat]
          /\ up' \in BOOLEAN /\ stopped' \in SUBSET Subscribed /\ deaths' \in 0..MaxDeaths
      BY <1>0, <1>2 DEF NotifyTyped, NotifyTypeOK
    <2>3. \A t \in Subscribed : ~(records'[t] > 0)
      BY <1>2
    <2>4. NotifyTypeOK'
      BY <2>1, <2>2, <2>3 DEF NotifyTypeOK
    <2>5. seen' \in [Subscribed -> Nat] /\ stored' \in [Subscribed -> Nat] /\ records' \in [Subscribed -> Nat]
      BY <1>2, <1>4
    <2> QED
      BY <2>2, <2>4, <2>5 DEF NotifyTyped
  <1>6. ASSUME NEW n \in Notifications PROVE sent'[n] = Times(n[1], n[2], n[3])'
    <2> DEFINE t == n[1]
    <2>1. t \in Subscribed
      BY NotificationParts
    <2>2. seen'[t] \in Nat /\ stored'[t] = seen'[t] /\ records'[t] = 0 /\ sent'[n] = 0
      BY <1>2, <1>4, <2>1
    <2>3. About(t, stored[t], seen[t], n[3])' = {}
      BY <2>2 DEF About
    <2>4. ~AtHand(t, n[2], n[3])'
      BY <2>2 DEF AtHand
    <2> QED
      BY <2>2, <2>3, <2>4, FS_EmptySet DEF Times
  <1>7. ListIsExact'
    BY <1>6 DEF ListIsExact, Times, AtHand
  <1> QED
    BY <1>5, <1>7 DEF NotifyInv

-----------------------------------------------------------------------------
\* The list is empty, and so is everything it counts.
LEMMA InitList == Init => NotifyInv
  <1> SUFFICES ASSUME Init PROVE NotifyInv
    OBVIOUS
  <1>1. \A t \in Subscribed : log[t] = <<>> /\ Len(Channels(t)) \in {1, 2}
    BY SubscribedAreTold, ChannelsType DEF Init
  <1>2. NotifyTyped
    BY <1>1, NotifyBounds DEF Init, NotifyTyped, NotifyTypeOK, HasMessage
  <1>3. ASSUME NEW n \in Notifications PROVE sent[n] = Times(n[1], n[2], n[3])
    <2> DEFINE t == n[1]
    <2>1. t \in Subscribed
      BY NotificationParts
    <2>2. About(t, stored[t], seen[t], n[3]) = {}
      BY <2>1 DEF Init, About
    <2>3. ~AtHand(t, n[2], n[3])
      BY <2>1 DEF Init, AtHand
    <2>4. sent[n] = 0 /\ Cardinality({}) = 0
      BY FS_EmptySet DEF Init
    <2> HIDE DEF t
    <2>5. Times(t, n[2], n[3]) = 0
      BY <2>2, <2>3, <2>4 DEF Times
    <2> QED
      BY <2>4, <2>5 DEF t
  <1> QED
    BY <1>2, <1>3, ExactlyTimes DEF NotifyInv

\* Who runs, who has stopped and how often the process died say nothing about
\* offsets and the list.
LEMMA ListUntouched ==
    ASSUME NotifyInv, UNCHANGED <<log, seen, stored, records, sent>>,
           up' \in BOOLEAN, stopped' \in SUBSET Subscribed, deaths' \in 0..MaxDeaths
    PROVE  NotifyInv'
  <1>1. NotifyTyped'
    BY DEF NotifyInv, NotifyTyped, NotifyTypeOK, HasMessage
  <1>2. ListIsExact'
    BY DEF NotifyInv, ListIsExact, About
  <1> QED
    BY <1>1, <1>2 DEF NotifyInv

\* Every step keeps the invariant.
LEMMA NextList == NotifyInv /\ [Next]_notifyVars => NotifyInv'
  <1> SUFFICES ASSUME NotifyInv, [Next]_notifyVars PROVE NotifyInv'
    OBVIOUS
  <1>1. CASE UNCHANGED notifyVars
    BY <1>1, ListUntouched DEF notifyVars, NotifyInv, NotifyTyped, NotifyTypeOK
  <1>2. ASSUME NEW t \in Subscribed, RunReturns(t) PROVE NotifyInv'
    BY <1>2, ListUntouched DEF RunReturns, NotifyInv, NotifyTyped, NotifyTypeOK
  <1>3. CASE Start
    BY <1>3, ListUntouched DEF Start, NotifyInv, NotifyTyped, NotifyTypeOK
  <1> QED
    BY <1>1, <1>2, <1>3, PublishKeepsList, RecordKeepsList, DeathKeepsList DEF Next

\* The inductive invariant of notification-svc.
THEOREM NotifyIsInvariant == Spec => []NotifyInv
  BY InitList, NextList, PTL DEF Spec

\* The types: groups stay within their topics, and a message is at hand only
\* between its first and its last notification (HandleEvent, notifier.go).
THEOREM NotifyTypesHold == Spec => []NotifyTypeOK
  <1>1. NotifyInv => NotifyTypeOK
    BY DEF NotifyInv, NotifyTyped
  <1> QED
    BY <1>1, NotifyIsInvariant, PTL

\* The list holds exactly what this process has handled, for any number of
\* orders and messages, and however often the process dies or a group stops
\* (Record, notifier.go).
THEOREM TheListIsExact == Spec => []ListIsExact
  <1>1. NotifyInv => ListIsExact
    BY DEF NotifyInv
  <1> QED
    BY <1>1, NotifyIsInvariant, PTL

=============================================================================
