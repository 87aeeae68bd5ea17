------------------------- MODULE NotificationService ------------------------
(***************************************************************************)
(* notification-svc: eleven consumer groups, one goroutine each, hand      *)
(* their messages to one HandleEvent, which records one or two             *)
(* notifications in a list that is kept in memory under a mutex.           *)
(* src/services/notification/internal/notifier/notifier.go,                *)
(* src/services/notification/cmd/main.go.                                  *)
(*                                                                         *)
(* Its environment is the platform, known only by the story that its       *)
(* events tell (EventStory), which goes on while the process is down.      *)
(* Nothing has to bring it back: docker-compose.yml gives it no restart    *)
(* policy, so that it may stay down, and a group whose Run has returned    *)
(* stays stopped for the life of the process.                              *)
(***************************************************************************)
EXTENDS Naturals, Sequences, FiniteSets, SequencesExt, Functions

CONSTANTS
    Orders,        \* the order ids events are about
    MaxMessages,   \* how many messages the platform publishes
    MaxDeaths,     \* how often notification-svc dies
    MaxStopped     \* how many groups of one process a failing call may end

ASSUME NotifyBounds == MaxMessages \in Nat /\ MaxDeaths \in Nat /\ MaxStopped \in Nat

VARIABLES
    log,           \* topic -> the orders its messages are about
    seen,          \* topic -> messages its group has handled
    stored,        \* topic -> offset known to be stored by its group
    records,       \* topic -> notifications recorded for the message at hand
    sent,          \* the list: <<topic, channel, order>> -> times it is in it
    up,            \* the process runs
    stopped,       \* the topics whose goroutine has returned from Run
    deaths

notifyVars == <<log, seen, stored, records, sent, up, stopped, deaths>>

-----------------------------------------------------------------------------
\* The channels that HandleEvent notifies about a message of topic t.
Channels(t) ==
    CASE t \in {"order.created", "order.preparation.failed", "payment.refunded",
                "order.delivered"}                         -> <<"push", "email">>
      [] t \in {"payment.processed", "delivery.failed",
                "courier.assigned"}                        -> <<"push", "sms">>
      [] t = "payment.refund.requested"                    -> <<"email">>
      [] t \in {"payment.failed", "order.cancelled",
                "order.ready"}                             -> <<"push">>

\* What main subscribes to: all topics but order.paid and order.status.changed.
Subscribed == {"order.created", "payment.processed", "payment.failed",
               "payment.refund.requested", "payment.refunded",
               "order.preparation.failed", "delivery.failed", "order.cancelled",
               "order.ready", "courier.assigned", "order.delivered"}

Notifications ==
    {n \in Subscribed \X {"push", "sms", "email"} \X Orders : Contains(Channels(n[1]), n[2])}

Published(t, o) == Contains(log[t], o)

Story == INSTANCE EventStory WITH
    told <- [o \in Orders |-> {t \in DOMAIN log : Published(t, o)}]

-----------------------------------------------------------------------------
\* The rest of the platform publishes the next event of an order's story, or
\* one it has published before.
Publish(t, o) ==
    /\ FoldFunction(LAMBDA s, n : Len(s) + n, 0, log) < MaxMessages
    /\ log' = [log EXCEPT ![t] = Append(@, o)]
    /\ Story!Tell(t, o)
    /\ UNCHANGED <<seen, stored, records, sent, up, stopped, deaths>>

HasMessage(t) == seen[t] < Len(log[t])

\* The goroutine of topic t goes on.
Runs(t) == up /\ t \notin stopped

\* Mutant: one notification too many.
AfterLast(t) == records[t] = Len(Channels(t))
AtLast(t)    == records[t] + 1 = Len(Channels(t))

(***************************************************************************)
(* HandleEvent.  Each Record takes the mutex, so that the records of other *)
(* messages may come in between; the last one returns nil, and the offset  *)
(* goes to the ticker that stores it.                                      *)
(***************************************************************************)
Record(t) ==
    /\ Runs(t) /\ HasMessage(t)
    /\ LET k == records[t] + 1
           n == <<t, Channels(t)[k], log[t][seen[t] + 1]>>
       IN  /\ sent' = [sent EXCEPT ![n] = @ + 1]
           /\ IF AtLast(t)
              THEN /\ seen' = [seen EXCEPT ![t] = @ + 1]
                   /\ records' = [records EXCEPT ![t] = 0]
              ELSE /\ records' = [records EXCEPT ![t] = k]
                   /\ UNCHANGED seen
    /\ UNCHANGED <<log, stored, up, stopped, deaths>>

\* FetchMessage fails for the next message, or CommitMessages for the one just
\* handled: Run returns, the goroutine logs it and ends, the others go on.
RunReturns(t) ==
    /\ Runs(t) /\ records[t] = 0
    /\ Cardinality(stopped) < MaxStopped
    /\ stopped' = stopped \cup {t}
    /\ UNCHANGED <<log, seen, stored, records, sent, up, deaths>>

\* The offsets a new process may find, for the groups that had not stored all.
Lagging == {t \in Subscribed : stored[t] < seen[t]}

Offsets ==
    {f \in [Lagging -> 0..MaxMessages] : \A t \in Lagging : f[t] \in stored[t]..seen[t]}

Resumed(f) == [t \in Subscribed |-> IF t \in Lagging THEN f[t] ELSE seen[t]]

\* Mutant: the list outlives the process.
DieWithList ==
    /\ up /\ deaths < MaxDeaths
    /\ deaths' = deaths + 1
    /\ up' = FALSE
    /\ stopped' = {}
    /\ \E f \in Offsets : seen' = Resumed(f)
    /\ stored' = seen'
    /\ records' = [t \in Subscribed |-> 0]
    /\ UNCHANGED <<log, sent>>

\* The process dies, and its list with it.  What the ticker has stored by then
\* is where the next process will begin.
Die ==
    /\ up /\ deaths < MaxDeaths
    /\ deaths' = deaths + 1
    /\ up' = FALSE
    /\ stopped' = {}
    /\ \E f \in Offsets : seen' = Resumed(f)
    /\ stored' = seen'
    /\ records' = [t \in Subscribed |-> 0]
    /\ sent' = [n \in Notifications |-> 0]
    /\ UNCHANGED log

\* Mutant: a group begins after what was published while nobody was there.
StartAtEnd ==
    /\ ~up
    /\ up' = TRUE
    /\ seen' = [t \in Subscribed |-> Len(log[t])]
    /\ stored' = seen'
    /\ UNCHANGED <<log, records, sent, stopped, deaths>>

\* Somebody starts it again: main, with every group and an empty list.
Start ==
    /\ ~up
    /\ up' = TRUE
    /\ UNCHANGED <<log, seen, stored, records, sent, stopped, deaths>>

-----------------------------------------------------------------------------
Init ==
    /\ log = [t \in Story!Told |-> <<>>]
    /\ seen = [t \in Subscribed |-> 0]
    /\ stored = [t \in Subscribed |-> 0]
    /\ records = [t \in Subscribed |-> 0]
    /\ sent = [n \in Notifications |-> 0]
    /\ up = TRUE
    /\ stopped = {}
    /\ deaths = 0

Next ==
    \/ \E t \in Story!Told, o \in Orders : Publish(t, o)
    \/ \E t \in Subscribed : Record(t) \/ RunReturns(t)
    \/ Die
    \/ Start

Spec == Init /\ [][Next]_notifyVars

\* A consumer goroutine goes on while the process lives and Run has not
\* returned.  Nobody has to start the process again.
FairSpec == Spec /\ \A t \in Subscribed : WF_notifyVars(Record(t))

-----------------------------------------------------------------------------
\* Variables have their types, groups stay within their topics, and a message
\* is at hand only between its first and its last notification.
NotifyTypeOK ==
    /\ log \in [Story!Told -> Seq(Orders)]
    /\ sent \in [Notifications -> Nat]
    /\ up \in BOOLEAN
    /\ stopped \in SUBSET Subscribed
    /\ deaths \in 0..MaxDeaths
    /\ \A t \in Subscribed :
          /\ stored[t] \in 0..seen[t] /\ seen[t] \in 0..Len(log[t])
          /\ records[t] \in 0..(Len(Channels(t)) - 1)
          /\ records[t] > 0 => HasMessage(t)

\* Messages first+1 .. last of topic t that are about order o.
About(t, first, last, o) == {i \in (first + 1)..last : log[t][i] = o}

\* At every instant the list holds exactly what this process has handled, and
\* the sends of messages at hand: no interleaving of the sends of eleven
\* handlers, no stop and no death loses an entry or keeps one of a message that
\* is handled again.
\* (stored only moves at a death: it is where the next process begins to read.)
ListIsExact ==
    \A n \in Notifications :
        LET t == n[1]  o == n[3]
            AtHand == \E k \in 1..records[t] : Channels(t)[k] = n[2] /\ log[t][seen[t] + 1] = o
        IN  sent[n] = Cardinality(About(t, stored[t], seen[t], o)) + (IF AtHand THEN 1 ELSE 0)

\* If somebody starts the process as often as it dies, and the group of a topic
\* does not end in the last of them, a message that waits is notified on all its
\* channels: also one that was half notified when the process died, or that came
\* while it was down, and whatever happens to the other groups.  The process may
\* stay down and a group may stay stopped, and nothing is claimed then.
EveryEventNotified ==
    \A t \in Subscribed, o \in Orders :
        <>[]Runs(t) =>
            (About(t, seen[t], Len(log[t]), o) # {} ~>
                \A n \in Notifications : n[1] = t /\ n[3] = o => sent[n] > 0)
=============================================================================
