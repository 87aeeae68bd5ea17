------------------------ MODULE ServiceProcessProofs ------------------------
(***************************************************************************)
(* Consumer.Run never passes an event over and implements what EventBus    *)
(* assumes of a consumer group, for any number of messages, deaths and     *)
(* failing calls; and a process of a service keeps this, however often it  *)
(* is cut while it starts.                                                 *)
(***************************************************************************)
EXTENDS ServiceProcess, TLAPS

(***************************************************************************)
(* The inductive invariant of the consumer.  Offsets are ordered: what the *)
(* process started from, what is stored, what was handed over, what is     *)
(* handled.  NothingSkipped lacks handedOver: without it the ticker could  *)
(* store anything.                                                         *)
(***************************************************************************)
OffsetsOrdered ==
    /\ since <= stored /\ stored <= handedOver /\ handedOver <= Finished
    /\ at = "down" => next = stored
    /\ at \in {"handle", "skip"} => (at = "handle" <=> topic[next] = "event")

HandledBelow ==
    \A i \in Places : handled[i] <= deaths + (IF i <= Finished THEN 1 ELSE 0)

CInv == ConsumerTypeOK /\ OffsetsOrdered /\ NothingSkipped /\ HandledBelow

USE ConsumerBounds DEF Places, InRun, NoFault, Fault

LEMMA CInvInit == ConsumerInit => CInv
BY DEF ConsumerInit, CInv, ConsumerTypeOK, OffsetsOrdered, NothingSkipped, HandledBelow, Finished

LEMMA PublishKeeps ==
    ASSUME CInv, NEW kind \in {"event", "junk"}, Publish(kind)
    PROVE  CInv'
<1>1. /\ Len(topic') = Len(topic) + 1
      /\ topic' \in Seq({"event", "junk"})
      /\ \A i \in 1..Len(topic) : topic'[i] = topic[i]
  BY DEF CInv, ConsumerTypeOK, Publish
<1>2. Finished' = Finished /\ Finished \in 0..Len(topic)
  BY DEF CInv, ConsumerTypeOK, Publish, Finished
<1>3. ConsumerTypeOK'
  BY <1>1 DEF CInv, ConsumerTypeOK, Publish
<1>4. OffsetsOrdered'
  BY <1>1, <1>2 DEF CInv, ConsumerTypeOK, OffsetsOrdered, Publish
<1>5. NothingSkipped'
  BY <1>1, <1>2 DEF CInv, NothingSkipped, Publish
<1>6. HandledBelow'
  BY <1>2 DEF CInv, HandledBelow, Publish
<1>. QED
  BY <1>3, <1>4, <1>5, <1>6 DEF CInv

LEMMA StartKeeps ==
    ASSUME CInv, StartConsumer
    PROVE  CInv'
<1>1. Finished' = Finished
  BY DEF StartConsumer, Finished
<1>. QED
  BY <1>1 DEF CInv, ConsumerTypeOK, OffsetsOrdered, NothingSkipped, HandledBelow, StartConsumer

LEMMA FetchKeeps ==
    ASSUME CInv, FetchMessage
    PROVE  CInv'
<1>1. Finished' = Finished
  BY DEF FetchMessage, Finished, CInv, ConsumerTypeOK
<1>2. ConsumerTypeOK'
  BY DEF CInv, ConsumerTypeOK, FetchMessage
<1>3. OffsetsOrdered'
  BY <1>1 DEF CInv, ConsumerTypeOK, OffsetsOrdered, FetchMessage
<1>4. NothingSkipped' /\ HandledBelow'
  BY <1>1 DEF CInv, NothingSkipped, HandledBelow, FetchMessage
<1>. QED
  BY <1>2, <1>3, <1>4 DEF CInv

LEMMA HandleKeeps ==
    ASSUME CInv, Handle
    PROVE  CInv'
<1>1. Finished = next - 1 /\ Finished' = next /\ next \in 1..Len(topic) /\ next \in Places
  BY DEF Handle, Finished, CInv, ConsumerTypeOK
<1>2. ConsumerTypeOK'
  BY <1>1 DEF CInv, ConsumerTypeOK, Handle
<1>3. OffsetsOrdered'
  BY <1>1 DEF CInv, ConsumerTypeOK, OffsetsOrdered, Handle
<1>4. NothingSkipped'
  BY <1>1 DEF CInv, ConsumerTypeOK, NothingSkipped, Handle
<1>5. HandledBelow'
  BY <1>1 DEF CInv, ConsumerTypeOK, HandledBelow, Handle
<1>. QED
  BY <1>2, <1>3, <1>4, <1>5 DEF CInv

LEMMA CommitKeeps ==
    ASSUME CInv, Commit
    PROVE  CInv'
<1>1. Finished = next /\ Finished' = next
  BY DEF Commit, Finished
<1>2. ConsumerTypeOK'
  BY DEF CInv, ConsumerTypeOK, Commit
<1>3. OffsetsOrdered'
  BY <1>1 DEF CInv, ConsumerTypeOK, OffsetsOrdered, Commit
<1>4. NothingSkipped' /\ HandledBelow'
  BY <1>1 DEF CInv, NothingSkipped, HandledBelow, Commit
<1>. QED
  BY <1>2, <1>3, <1>4 DEF CInv

LEMMA CommitSkippedKeeps ==
    ASSUME CInv, CommitSkipped
    PROVE  CInv'
<1>1. Finished = next - 1 /\ Finished' = next /\ next \in 1..Len(topic)
  BY DEF CommitSkipped, Finished, CInv, ConsumerTypeOK
<1>2. ConsumerTypeOK'
  BY DEF CInv, ConsumerTypeOK, CommitSkipped
<1>3. OffsetsOrdered'
  BY <1>1 DEF CInv, ConsumerTypeOK, OffsetsOrdered, CommitSkipped
<1>4. NothingSkipped'
  BY <1>1 DEF CInv, ConsumerTypeOK, OffsetsOrdered, NothingSkipped, CommitSkipped
<1>5. HandledBelow'
  BY <1>1 DEF CInv, ConsumerTypeOK, HandledBelow, CommitSkipped
<1>. QED
  BY <1>2, <1>3, <1>4, <1>5 DEF CInv

LEMMA TickKeeps ==
    ASSUME CInv, Tick
    PROVE  CInv'
<1>1. Finished' = Finished /\ Finished \in 0..Len(topic)
  BY DEF Tick, Finished, CInv, ConsumerTypeOK
<1>2. ConsumerTypeOK'
  BY DEF CInv, ConsumerTypeOK, Tick
<1>. QED
  BY <1>1, <1>2 DEF CInv, ConsumerTypeOK, OffsetsOrdered, NothingSkipped, HandledBelow, Tick

\* Whoever counts the death, the consumer forgets down to the stored offset.
LEMMA DeathKeeps ==
    ASSUME CInv, ConsumerDies, deaths < MaxDeaths, deaths' = deaths + 1
    PROVE  CInv'
<1>1. Finished' = stored /\ stored <= Finished /\ Finished \in 0..Len(topic) /\ stored \in 0..Len(topic)
  BY DEF ConsumerDies, Finished, CInv, ConsumerTypeOK, NothingSkipped
<1>2. ConsumerTypeOK'
  BY DEF CInv, ConsumerTypeOK, ConsumerDies
<1>3. OffsetsOrdered'
  BY <1>1 DEF CInv, ConsumerTypeOK, OffsetsOrdered, ConsumerDies
<1>4. NothingSkipped'
  BY <1>1 DEF CInv, NothingSkipped, ConsumerDies
<1>5. HandledBelow'
  BY <1>1 DEF CInv, ConsumerTypeOK, HandledBelow, ConsumerDies
<1>. QED
  BY <1>2, <1>3, <1>4, <1>5 DEF CInv


-----------------------------------------------------------------------------
(***************************************************************************)
(* The process.  What main does before it serves leaves the consumer as it *)
(* is; a table that has some of its rows, and no start that was cut, is    *)
(* being seeded right now.                                                 *)
(***************************************************************************)
SeedInv ==
    /\ rows <= SeedRows
    /\ proc \in {"count", "seed"} => SeedData
    /\ proc = "seed" => rows < SeedRows
    /\ ~SeedData => rows = 0
    /\ SeedData /\ proc = "serving" => rows > 0
    /\ rows > 0 /\ rows < SeedRows => cut \/ proc = "seed"

PInv == CInv /\ ProcessTypeOK /\ SeedInv

LEMMA StartupLeavesConsumer ==
    ASSUME CInv, \E step : Goes(step)
    PROVE  CInv'
<1>. UNCHANGED consumerVars
  BY DEF Goes
<1>. QED
  BY DEF consumerVars, CInv, ConsumerTypeOK, OffsetsOrdered, NothingSkipped, HandledBelow, Finished

LEMMA FatalLeavesConsumer ==
    ASSUME CInv, Fatal
    PROVE  CInv'
<1>1. Finished' = Finished
  BY DEF Fatal, Finished
<1>. QED
  BY <1>1 DEF Fatal, CInv, ConsumerTypeOK, OffsetsOrdered, NothingSkipped, HandledBelow

LEMMA RunKeeps ==
    ASSUME CInv, Run
    PROVE  CInv' /\ at # "down" /\ at' # "down"
<1>1. CInv'
  BY FetchKeeps, HandleKeeps, CommitKeeps, CommitSkippedKeeps, TickKeeps DEF Run
<1>2. at # "down" /\ at' # "down"
  BY DEF Run, FetchMessage, Handle, Commit, CommitSkipped, Tick
<1>. QED
  BY <1>1, <1>2

LEMMA PInvInit == ProcessInit => PInv
<1>. SUFFICES ASSUME ProcessInit
             PROVE  PInv
  OBVIOUS
<1>1. CInv
  BY CInvInit DEF ProcessInit
<1>2. ProcessTypeOK
  BY <1>1 DEF CInv, ProcessInit, ConsumerInit, ProcessTypeOK
<1>3. SeedInv
  BY ProcessAssumption DEF ProcessInit, SeedInv
<1>. QED
  BY <1>1, <1>2, <1>3 DEF PInv

LEMMA PInvNext == PInv /\ [ProcessNext]_allVars => PInv'
<1>. SUFFICES ASSUME PInv, [ProcessNext]_allVars
             PROVE  PInv'
  OBVIOUS
<1>. USE ProcessAssumption
<1>1. CASE StartProcess
  <2>1. CInv'
    BY <1>1, StartupLeavesConsumer DEF StartProcess, PInv
  <2>2. ProcessTypeOK'
    BY <1>1, <2>1 DEF StartProcess, Goes, consumerVars, PInv, CInv, ProcessTypeOK
  <2>3. SeedData' = SeedData
    BY <1>1 DEF StartProcess, SeedData, IsDev
  <2>4. SeedInv'
    BY <1>1, <2>3 DEF StartProcess, Goes, Serve, Fatal, PInv, ProcessTypeOK, SeedInv
  <2>. QED
    BY <2>1, <2>2, <2>4 DEF PInv
<1>2. CASE Migrate
  <2>1. CInv'
    BY <1>2, StartupLeavesConsumer, FatalLeavesConsumer, StartKeeps DEF Migrate, Serve, PInv
  <2>2. ProcessTypeOK'
    BY <1>2, <2>1 DEF Migrate, Serve, StartConsumer, Fatal, Goes, consumerVars, PInv, CInv,
                      ProcessTypeOK
  <2>3. SeedData' = SeedData
    BY <1>2 DEF Migrate, SeedData, IsDev
  <2>4. SeedInv'
    BY <1>2, <2>3 DEF Migrate, Goes, Serve, Fatal, PInv, ProcessTypeOK, SeedInv
  <2>. QED
    BY <2>1, <2>2, <2>4 DEF PInv
<1>3. CASE CountRows
  <2>1. CInv'
    BY <1>3, StartupLeavesConsumer, FatalLeavesConsumer, StartKeeps DEF CountRows, Serve, PInv
  <2>2. ProcessTypeOK'
    BY <1>3, <2>1 DEF CountRows, Serve, StartConsumer, Fatal, Goes, consumerVars, PInv, CInv,
                      ProcessTypeOK
  <2>3. SeedData' = SeedData
    BY <1>3 DEF CountRows, SeedData, IsDev
  <2>4. SeedInv'
    BY <1>3, <2>3 DEF CountRows, Goes, Serve, Fatal, PInv, ProcessTypeOK, SeedInv
  <2>. QED
    BY <2>1, <2>2, <2>4 DEF PInv
<1>4. CASE InsertRow
  <2>1. CInv'
    BY <1>4, StartupLeavesConsumer, FatalLeavesConsumer, StartKeeps DEF InsertRow, Serve, PInv
  <2>2. ProcessTypeOK'
    <3>1. cut' \in BOOLEAN
      BY <1>4 DEF InsertRow, PInv, ProcessTypeOK
    <3>2. rows' \in Nat /\ env' = env
      BY <1>4 DEF InsertRow, PInv, ProcessTypeOK
    <3>3. /\ proc' \in {"down", "migrate", "count", "seed", "serving"}
          /\ proc' = "serving" <=> at' # "down"
      BY <1>4 DEF InsertRow, Serve, StartConsumer, Fatal, Goes, consumerVars, PInv, ProcessTypeOK
    <3>. QED
      BY <2>1, <3>1, <3>2, <3>3 DEF PInv, CInv, ProcessTypeOK
  <2>3. SeedData' = SeedData
    BY <1>4 DEF InsertRow, SeedData, IsDev
  <2>4. SeedInv'
    BY <1>4, <2>3 DEF InsertRow, Goes, Serve, Fatal, PInv, ProcessTypeOK, SeedInv
  <2>. QED
    BY <2>1, <2>2, <2>4 DEF PInv
<1>5. CASE ProcessDies
  <2>1. CInv'
    BY <1>5, DeathKeeps DEF ProcessDies, PInv
  <2>2. ProcessTypeOK'
    BY <1>5, <2>1 DEF ProcessDies, ConsumerDies, PInv, CInv, ProcessTypeOK
  <2>3. SeedData' = SeedData
    BY <1>5 DEF ProcessDies, SeedData, IsDev
  <2>4. SeedInv'
    BY <1>5, <2>3 DEF ProcessDies, Goes, Serve, Fatal, PInv, ProcessTypeOK, SeedInv
  <2>. QED
    BY <2>1, <2>2, <2>4 DEF PInv
<1>6. CASE Run /\ UNCHANGED processVars
  <2>1. CInv' /\ at # "down" /\ at' # "down"
    BY <1>6, RunKeeps DEF PInv
  <2>2. ProcessTypeOK'
    BY <1>6, <2>1 DEF processVars, PInv, CInv, ProcessTypeOK
  <2>3. SeedData' = SeedData
    BY <1>6 DEF processVars, SeedData, IsDev
  <2>4. SeedInv'
    BY <1>6, <2>3 DEF processVars, Goes, Serve, Fatal, PInv, ProcessTypeOK, SeedInv
  <2>. QED
    BY <2>1, <2>2, <2>4 DEF PInv
<1>7. CASE \E kind \in {"event", "junk"} : Publish(kind) /\ UNCHANGED processVars
  <2>1. CInv' /\ at' = at
    BY <1>7, PublishKeeps DEF PInv, Publish
  <2>2. ProcessTypeOK'
    BY <1>7, <2>1 DEF processVars, PInv, CInv, ProcessTypeOK
  <2>3. SeedData' = SeedData
    BY <1>7 DEF processVars, SeedData, IsDev
  <2>4. SeedInv'
    BY <1>7, <2>3 DEF processVars, Goes, Serve, Fatal, PInv, ProcessTypeOK, SeedInv
  <2>. QED
    BY <2>1, <2>2, <2>4 DEF PInv
<1>8. CASE UNCHANGED allVars
  BY <1>8 DEF allVars, consumerVars, processVars, PInv, CInv, ConsumerTypeOK, OffsetsOrdered,
              NothingSkipped, HandledBelow, Finished, ProcessTypeOK, SeedInv, SeedData, IsDev
<1>. QED
  BY <1>1, <1>2, <1>3, <1>4, <1>5, <1>6, <1>7, <1>8 DEF ProcessNext, Startup

\* Everything below follows from this: PInv is inductive.
LEMMA ProcessInductive == ProcessSpec => []PInv
<1>. QED
  BY PInvInit, PInvNext, PTL DEF ProcessSpec

-----------------------------------------------------------------------------
\* For any environment, seed and bounds: variables have their types, and the
\* consumer runs exactly while its process serves.
THEOREM ProcessTypeCorrect == ProcessSpec => []ProcessTypeOK
<1>1. PInv => ProcessTypeOK
  BY DEF PInv
<1>. QED
  BY <1>1, ProcessInductive, PTL

\* Whenever a process dies and whatever fails, no event before the stored offset
\* is without its handler: Run delivers at least once.
THEOREM NothingIsSkipped == ProcessSpec => []NothingSkipped
<1>1. PInv => NothingSkipped
  BY DEF PInv, CInv
<1>. QED
  BY <1>1, ProcessInductive, PTL

\* A handler sees an event again only after a death, once for each.
THEOREM DeathsBoundRedelivery == ProcessSpec => []RedeliveredByDeathsOnly
<1>1. PInv => RedeliveredByDeathsOnly
  BY DEF PInv, CInv, ConsumerTypeOK, HandledBelow, RedeliveredByDeathsOnly
<1>. QED
  BY <1>1, ProcessInductive, PTL

\* However often a start is cut, the seed is inserted at most once, and a table
\* that misses rows misses them because a start was cut.
THEOREM SeedIsOnce == ProcessSpec => []SeededOnce
<1>1. PInv => SeededOnce
  <2>1. PInv /\ rows = SeedRows => SeededOnce
    BY DEF PInv, SeedInv, SeededOnce
  <2>2. PInv /\ rows # SeedRows => rows < SeedRows
    BY ProcessAssumption DEF PInv, SeedInv, ProcessTypeOK
  <2>3. PInv /\ rows < SeedRows => SeededOnce
    BY DEF PInv, SeedInv, SeededOnce
  <2>. QED
    BY <2>1, <2>2, <2>3
<1>. QED
  BY <1>1, ProcessInductive, PTL

-----------------------------------------------------------------------------
(***************************************************************************)
(* Refinement.  Finished, the offset that EventBus calls pos, moves when a *)
(* message is handled or skipped and falls back when the process dies;     *)
(* fetching, committing and the ticker are stutters.                       *)
(***************************************************************************)
LEMMA GroupStays ==
    ASSUME topic' = topic, Finished' = Finished, since' = since
    PROVE  UNCHANGED Group!groupVars
BY DEF Group!groupVars

LEMMA RunStepIsGroupStep ==
    ASSUME CInv, Run
    PROVE  [Group!GroupNext]_Group!groupVars
<1>1. CASE FetchMessage
  BY <1>1, GroupStays DEF FetchMessage, Finished, CInv, ConsumerTypeOK
<1>2. CASE Commit
  BY <1>2, GroupStays DEF Commit, Finished
<1>3. CASE Tick
  BY <1>3, GroupStays DEF Tick, Finished
<1>4. CASE Handle \/ CommitSkipped
  <2>1. Finished = next - 1 /\ Finished' = next /\ next \in 1..Len(topic)
    BY <1>4 DEF Handle, CommitSkipped, Finished, CInv, ConsumerTypeOK
  <2>2. Finished < Len(topic) /\ Finished' = Finished + 1
    BY <2>1
  <2>3. topic' = topic /\ since' = since
    BY <1>4 DEF Handle, CommitSkipped
  <2>. QED
    BY <2>2, <2>3 DEF Group!GroupNext, Group!FinishNext
<1>. QED
  BY <1>1, <1>2, <1>3, <1>4 DEF Run

LEMMA StepIsGroupStep ==
    ASSUME PInv, [ProcessNext]_allVars
    PROVE  [Group!GroupNext]_Group!groupVars
<1>1. CASE \E step : Goes(step)
  BY <1>1, GroupStays DEF Goes, consumerVars, Finished
<1>2. CASE Fatal
  BY <1>2, GroupStays DEF Fatal, Finished
<1>3. CASE Serve
  BY <1>3, GroupStays DEF Serve, StartConsumer, Finished
<1>4. CASE ProcessDies
  <2>1. Finished' = stored /\ since' = stored /\ topic' = topic
    BY <1>4 DEF ProcessDies, ConsumerDies, Finished
  <2>2. stored \in since..Finished
    BY DEF PInv, CInv, ConsumerTypeOK, OffsetsOrdered, NothingSkipped, Finished
  <2>. QED
    BY <2>1, <2>2 DEF Group!GroupNext, Group!Resume
<1>5. CASE Run
  BY <1>5, RunStepIsGroupStep DEF PInv
<1>6. CASE \E kind \in {"event", "junk"} : Publish(kind)
  <2>1. Len(topic') = Len(topic) + 1
    BY <1>6 DEF Publish, PInv, CInv, ConsumerTypeOK
  <2>2. Finished' = Finished /\ since' = since
    BY <1>6 DEF Publish, Finished
  <2>. QED
    BY <2>1, <2>2 DEF Group!GroupNext, Group!Write
<1>7. CASE UNCHANGED allVars
  BY <1>7, GroupStays DEF allVars, consumerVars, Finished
<1>. QED
  BY <1>1, <1>2, <1>3, <1>4, <1>5, <1>6, <1>7
  DEF ProcessNext, StartProcess, Startup, Migrate, CountRows, InsertRow

\* Consumer.Run, its reader and the process around them implement what EventBus
\* assumes of a consumer group: its offsets are those of StoredOffsets.
THEOREM ProcessImplementsGroup == ProcessSpec => ImplementsGroup
<1>1. ProcessInit => Group!GroupInit
  BY DEF ProcessInit, ConsumerInit, Group!GroupInit, Finished
<1>2. PInv /\ [ProcessNext]_allVars => [Group!GroupNext]_Group!groupVars
  BY StepIsGroupStep
<1>. QED
  BY <1>1, <1>2, ProcessInductive, PTL DEF ProcessSpec, ImplementsGroup, Group!GroupSpec
=============================================================================
