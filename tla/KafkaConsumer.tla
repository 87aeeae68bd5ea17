--------------------------- MODULE KafkaConsumer ----------------------------
(***************************************************************************)
(* Consumer.Run of src/pkg/kafka/kafka.go, step by step: one goroutine     *)
(* that fetches, decodes, handles and commits the messages of one topic    *)
(* for one consumer group.  The reader behind it (segmentio/kafka-go) is   *)
(* external: CommitMessages hands it an offset, which a ticker stores once *)
(* a second, and a new process resumes from the offset that was stored.    *)
(* An error of FetchMessage or CommitMessages ends the goroutine; its      *)
(* process lives on, and nobody starts the goroutine again.                *)
(***************************************************************************)
EXTENDS Naturals, Sequences

CONSTANTS
    MaxMessages,    \* bound: messages in the topic
    MaxDeaths,      \* bound: how often the process dies
    MaxFaults       \* bound: failing calls

ASSUME ConsumerBounds == MaxMessages \in Nat /\ MaxDeaths \in Nat /\ MaxFaults \in Nat

VARIABLES
    topic,        \* what was published: events, and what no envelope decodes from
    at,           \* the step of Run; "down" without a process, "ended" after it returned
    next,         \* the reader's position: the message fetched last
    handedOver,   \* offset given to CommitMessages
    stored,       \* offset of the group on the broker
    since,        \* history: the stored offset that this process started from
    handled,      \* history: message -> how often its handler has returned
    deaths, faults

consumerVars == <<topic, at, next, handedOver, stored, since, handled, deaths, faults>>

Places == 1..MaxMessages
InRun  == {"fetch", "skip", "handle", "commit"}

NoFault == UNCHANGED faults
Fault   == faults < MaxFaults /\ faults' = faults + 1

-----------------------------------------------------------------------------
\* Somebody publishes; another program may write what does not decode.
Publish(kind) ==
    /\ Len(topic) < MaxMessages
    /\ topic' = Append(topic, kind)
    /\ UNCHANGED <<at, next, handedOver, stored, since, handled, deaths, faults>>

\* Mutant: without a group the reader begins with the first message again.
StartFromFirst ==
    /\ at = "down"
    /\ at' = "fetch" /\ next' = 0
    /\ UNCHANGED <<topic, handedOver, stored, since, handled, deaths, faults>>

\* NewConsumer and Run: the group's offset, or FirstOffset when there is none.
StartConsumer ==
    /\ at = "down"
    /\ at' = "fetch"
    /\ UNCHANGED <<topic, next, handedOver, stored, since, handled, deaths, faults>>

\* FetchMessage and json.Unmarshal, or Run returns.
FetchMessage ==
    /\ at = "fetch"
    /\ \/ /\ next < Len(topic)
          /\ next' = next + 1
          /\ at' = IF topic[next + 1] = "event" THEN "handle" ELSE "skip"
          /\ NoFault
       \/ at' = "ended" /\ Fault /\ UNCHANGED next
    /\ UNCHANGED <<topic, handedOver, stored, since, handled, deaths>>

\* Mutant: a handler that returns an error is called again.
HandleUntilDone ==
    /\ at = "handle"
    /\ at' \in {"handle", "commit"}
    /\ handled' = [handled EXCEPT ![next] = @ + 1]
    /\ UNCHANGED <<topic, next, handedOver, stored, since, deaths, faults>>

\* handler(msgCtx, env): its error is logged and otherwise ignored.
Handle ==
    /\ at = "handle"
    /\ at' = "commit"
    /\ handled' = [handled EXCEPT ![next] = @ + 1]
    /\ UNCHANGED <<topic, next, handedOver, stored, since, deaths, faults>>

\* CommitMessages of a handled message, or Run returns.
Commit ==
    /\ at = "commit"
    /\ \/ handedOver' = next /\ at' = "fetch" /\ NoFault
       \/ UNCHANGED handedOver /\ at' = "ended" /\ Fault
    /\ UNCHANGED <<topic, next, stored, since, handled, deaths>>

\* Mutant: a message that does not decode is fetched again.
RetrySkipped ==
    /\ at = "skip"
    /\ at' = "fetch" /\ next' = next - 1
    /\ UNCHANGED <<topic, handedOver, stored, since, handled, deaths, faults>>

\* CommitMessages of an undecodable message: the error is dropped.
CommitSkipped ==
    /\ at = "skip"
    /\ at' = "fetch"
    /\ \/ handedOver' = next /\ NoFault
       \/ UNCHANGED handedOver /\ Fault
    /\ UNCHANGED <<topic, next, stored, since, handled, deaths>>

\* Mutant: the ticker stores how far the reader has fetched.
TickFetched ==
    /\ at # "down" /\ stored < next
    /\ stored' = next
    /\ UNCHANGED <<topic, at, next, handedOver, since, handled, deaths, faults>>

\* The reader's ticker, CommitInterval; it goes on after Run has returned.
Tick ==
    /\ at # "down" /\ stored < handedOver
    /\ stored' = handedOver
    /\ UNCHANGED <<topic, at, next, handedOver, since, handled, deaths, faults>>

\* The process dies: what was fetched or handed over is forgotten.  Who counts
\* the death is the process (ServiceProcess).
ConsumerDies ==
    /\ at' = "down"
    /\ next' = stored /\ handedOver' = stored /\ since' = stored
    /\ UNCHANGED <<topic, stored, handled, faults>>

-----------------------------------------------------------------------------
ConsumerInit ==
    /\ topic = <<>> /\ at = "down"
    /\ next = 0 /\ handedOver = 0 /\ stored = 0 /\ since = 0
    /\ handled = [i \in Places |-> 0]
    /\ deaths = 0 /\ faults = 0

\* What the goroutine and its reader do while their process lives.
Run == FetchMessage \/ Handle \/ Commit \/ CommitSkipped \/ Tick

\* The goroutine and the ticker go on.  Nobody has to start a process that
\* died: docker-compose.yml has no restart policy for the services.
ConsumerFairness ==
    /\ WF_consumerVars(FetchMessage) /\ WF_consumerVars(Handle)
    /\ WF_consumerVars(Commit) /\ WF_consumerVars(CommitSkipped)
    /\ WF_consumerVars(Tick)

-----------------------------------------------------------------------------
\* Messages whose handling is over, successfully or not.
Finished == IF at \in {"handle", "skip"} THEN next - 1 ELSE next

\* Variables have their types, and a step of Run has its message.
ConsumerTypeOK ==
    /\ topic \in Seq({"event", "junk"}) /\ Len(topic) <= MaxMessages
    /\ at \in InRun \cup {"down", "ended"}
    /\ {next, handedOver, stored, since} \subseteq 0..Len(topic)
    /\ at \in {"handle", "skip", "commit"} => next > 0
    /\ handled \in [Places -> Nat]
    /\ deaths \in 0..MaxDeaths /\ faults \in 0..MaxFaults

\* No event is passed over: whatever offset is stored when a process dies, and
\* wherever the loop is, the handler has run for every event before it.
NothingSkipped ==
    /\ stored <= Finished
    /\ \A i \in 1..Finished : topic[i] = "event" => handled[i] > 0

\* An event is handled again only after its process has died, and at most once
\* more for each death.
RedeliveredByDeathsOnly == \A i \in Places : handled[i] <= deaths + 1

Group == INSTANCE GroupDelivery WITH written <- Len(topic), pos <- Finished

\* Run and its reader implement what EventBus assumes of a consumer group.
ImplementsGroup == Group!GroupSpec

\* An event is handled in the end, unless the loop has ended or nobody has
\* started the process again.
HandledUnlessStopped ==
    \A i \in Places :
        i <= Len(topic) /\ topic[i] = "event" ~> handled[i] > 0 \/ at \in {"ended", "down"}
=============================================================================
