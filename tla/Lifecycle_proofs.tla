--------------------------- MODULE Lifecycle_proofs ---------------------------
(***************************************************************************)
(* Proofs about Lifecycle, for every set of modes, every number of         *)
(* dashboards and every size of the queues: the types, that main returns   *)
(* after every thread, and that the feed is silent once running is         *)
(* cleared.                                                                *)
(***************************************************************************)
EXTENDS Lifecycle, TLAPS

-----------------------------------------------------------------------------
(* The feed's callbacks keep the feed's variables within their types.      *)
LEMMA FeedTyped ==
  ASSUME FeedTypeOK,
         StartFeed \/ StageDone \/ StageFails \/ ReadFails \/ CloseFeed
           \/ UNCHANGED feedVars
  PROVE  FeedTypeOK'
<1>1. CASE StartFeed
  BY <1>1 DEF FeedTypeOK, StartFeed, Stages, NextOperation
<1>2. CASE StageDone
  BY <1>2 DEF FeedTypeOK, StageDone, Stages, NextOperation
<1>3. CASE StageFails
  BY <1>3 DEF FeedTypeOK, StageFails
<1>4. CASE ReadFails
  BY <1>4 DEF FeedTypeOK, ReadFails
<1>5. CASE CloseFeed
  BY <1>5 DEF FeedTypeOK, CloseFeed
<1>6. CASE UNCHANGED feedVars
  BY <1>6 DEF FeedTypeOK, feedVars
<1>7. QED
  BY <1>1, <1>2, <1>3, <1>4, <1>5, <1>6

(* A refused push leaves a count within the capacity, like an admitted one. *)
LEMMA PushBounded ==
  ASSUME NEW capacity \in Nat, NEW count \in 0 .. capacity, NEW n \in Nat
  PROVE  AfterPush(count, n, capacity) \in 0 .. capacity
BY DEF AfterPush

(* The type invariant in two parts, the flags and the rest.                *)
Flags ==
  /\ interrupted \in BOOLEAN /\ running \in BOOLEAN /\ stopped \in BOOLEAN
  /\ uiRunning \in BOOLEAN /\ stopPosted \in BOOLEAN
  /\ accepting \in BOOLEAN /\ ticking \in BOOLEAN

Typed ==
  /\ mode \in Modes
  /\ main \in MainPoints
  /\ strategy \in {"check", "poll", "done"}
  /\ exec \in {"check", "poll", "done"}
  /\ kdb \in {"connect", "check", "feed", "exec", "done"}
  /\ replay \in {"off", "connect", "pace", "deliver", "clear", "stop", "done"}
  /\ remaining \in 0 .. ReplayTicks
  /\ replay = "deliver" => remaining > 0
  /\ endless \subseteq 1 .. ReplayTicks - 1
  /\ ticks \in 0 .. TickCapacity
  /\ signals \in 0 .. QueueCapacity
  /\ feedRecords \in 0 .. QueueCapacity
  /\ execRecords \in 0 .. QueueCapacity
  /\ sessions \in 0 .. MaxClients
  /\ worker \in {"run", "done"}

(* The type invariant, with the flags on their own.                        *)
LEMMA TypeOKIsTyped == TypeOK <=> Typed /\ Flags /\ FeedTypeOK
BY DEF TypeOK, Typed, Flags

(* The types hold at first.                                                *)
LEMMA TypedInitially == Init => TypeOK
<1>1. Init => Flags
  BY Zenon DEF Init, Flags
<1>2. Init => FeedTypeOK
  BY Zenon DEF Init, FeedInit, FeedTypeOK
<1>3. Init => Typed
  BY BoundAssumption DEF Init, EndlessRows, Typed, MainPoints
<1>4. QED
  BY <1>1, <1>2, <1>3, TypeOKIsTyped

(* Steps of the main thread, and from outside of the program.              *)
LEMMA MainTyped ==
  ASSUME Typed, Main \/ Interrupt
  PROVE  Typed'
<1>1. CASE Dispatch
  BY <1>1 DEF Typed, Dispatch, MainPoints, queueVars, uiVars
<1>2. CASE HandleSignal
  BY <1>2 DEF Typed, HandleSignal, MainPoints, queueVars, uiVars, threadVars
<1>3. CASE StopUI
  BY <1>3 DEF Typed, StopUI, Goto, MainPoints, queueVars, threadVars
<1>4. CASE PostStop
  BY <1>4 DEF Typed, PostStop, Goto, MainPoints, queueVars, threadVars
<1>5. CASE JoinWorker
  BY <1>5 DEF Typed, JoinWorker, Goto, MainPoints, queueVars, uiVars, threadVars
<1>6. CASE StopIoc
  BY <1>6 DEF Typed, StopIoc, Goto, MainPoints, queueVars, uiVars, threadVars
<1>7. CASE RunReturns
  BY <1>7 DEF Typed, RunReturns, Goto, MainPoints, queueVars, uiVars, threadVars
<1>8. CASE Join
  BY <1>8 DEF Typed, Join, Goto, MainPoints, queueVars, uiVars, threadVars
<1>9. CASE Interrupt
  BY <1>9 DEF Typed, Interrupt, queueVars, uiVars, threadVars
<1>10. QED
  BY <1>1, <1>2, <1>3, <1>4, <1>5, <1>6, <1>7, <1>8, <1>9 DEF Main

(* Steps of the feed's callbacks.                                          *)
LEMMA FeedStepTyped ==
  ASSUME Typed, Receive \/ Connection
  PROVE  Typed'
<1>1. CASE Receive
  <2>1. AfterPush(ticks, 1, TickCapacity) \in 0 .. TickCapacity
    BY PushBounded, BoundAssumption DEF Typed
  <2>2. AfterPush(feedRecords, 1, QueueCapacity) \in 0 .. QueueCapacity
    BY PushBounded, BoundAssumption DEF Typed
  <2>3. QED
    BY <1>1, <2>1, <2>2 DEF Typed, Receive, threadVars, uiVars
<1>2. CASE Connection
  BY <1>2 DEF Typed, Connection, queueVars, uiVars, threadVars
<1>3. QED
  BY <1>1, <1>2

(* Steps of the threads of the pipeline.                                   *)
LEMMA ThreadsTyped ==
  ASSUME Typed, Strategy \/ Exec \/ Kdb \/ Replay
  PROVE  Typed'
<1>1. CASE Strategy
  <2>1. CASE ticks # 0 /\ strategy = "poll"
    <3>1. PICK n \in 0 .. StrategyCount :
            signals' = AfterPush(signals, n, QueueCapacity)
      BY <1>1, <2>1 DEF Strategy
    <3>2. signals' \in 0 .. QueueCapacity
      BY <3>1, PushBounded, BoundAssumption DEF Typed
    <3>3. QED
      BY <1>1, <2>1, <3>2, BoundAssumption
         DEF Typed, Strategy, pipelineOnly, uiVars, queueVars
  <2>2. CASE ~(ticks # 0 /\ strategy = "poll")
    BY <1>1, <2>2 DEF Typed, Strategy, pipelineOnly, uiVars, queueVars
  <2>3. QED
    BY <2>1, <2>2
<1>2. CASE Exec
  <2>1. CASE signals # 0 /\ exec = "poll"
    <3>1. PICK n \in {0, 1} :
            execRecords' = AfterPush(execRecords, n, QueueCapacity)
      BY <1>2, <2>1 DEF Exec
    <3>2. execRecords' \in 0 .. QueueCapacity
      BY <3>1, PushBounded, BoundAssumption DEF Typed
    <3>3. QED
      BY <1>2, <2>1, <3>2, BoundAssumption
         DEF Typed, Exec, pipelineOnly, uiVars, queueVars
  <2>2. CASE ~(signals # 0 /\ exec = "poll")
    BY <1>2, <2>2 DEF Typed, Exec, pipelineOnly, uiVars, queueVars
  <2>3. QED
    BY <2>1, <2>2
<1>3. CASE Kdb
  BY <1>3, BoundAssumption DEF Typed, Kdb, pipelineOnly, uiVars, queueVars
<1>4. CASE Replay
  <2>1. UNCHANGED <<replayOnly, uiVars>>
    BY <1>4 DEF Replay, ReplayQuery, ReplayPace, ReplayDeliver, ReplayDone,
                ReplayEndsProgram, replayOnly
  <2>2. CASE ReplayDeliver
    BY <2>1, <2>2, BoundAssumption DEF Typed, ReplayDeliver, replayOnly, uiVars
  <2>3. CASE ReplayQuery \/ ReplayPace \/ ReplayDone \/ ReplayEndsProgram
    BY <2>1, <2>3 DEF Typed, ReplayQuery, ReplayPace, ReplayDone,
                      ReplayEndsProgram, replayOnly, uiVars
  <2>4. QED
    BY <1>4, <2>2, <2>3 DEF Replay
<1>5. QED
  BY <1>1, <1>2, <1>3, <1>4

(* Steps of the dashboard server's thread.                                 *)
LEMMA ServerTyped ==
  ASSUME Typed, Accept \/ Leave \/ Broadcast \/ RunPosted \/ WorkerEnds
  PROVE  Typed'
<1> USE BoundAssumption DEF Typed, uiOnly, threadVars, queueVars
<1>1. CASE Accept
  BY <1>1 DEF Accept
<1>2. CASE Leave
  BY <1>2 DEF Leave
<1>3. CASE Broadcast
  BY <1>3 DEF Broadcast
<1>4. CASE RunPosted
  BY <1>4 DEF RunPosted
<1>5. CASE WorkerEnds
  BY <1>5 DEF WorkerEnds
<1>6. QED
  BY <1>1, <1>2, <1>3, <1>4, <1>5

(* What each step does to the feed's variables.                            *)
LEMMA FeedVarsSteps ==
  ASSUME [Next]_vars
  PROVE  StartFeed \/ StageDone \/ StageFails \/ ReadFails \/ CloseFeed
           \/ UNCHANGED feedVars
<1>1. CASE Main
  BY <1>1 DEF Main, Dispatch, HandleSignal, StopUI, PostStop, JoinWorker,
              StopIoc, RunReturns, Join
<1>2. CASE Interrupt \/ Receive \/ Connection
  BY <1>2 DEF Interrupt, Receive, MessageRead, Connection
<1>3. CASE Strategy \/ Exec \/ Kdb
  BY <1>3 DEF Strategy, Exec, Kdb, pipelineOnly
<1>4. CASE Replay
  BY <1>4 DEF Replay, ReplayQuery, ReplayPace, ReplayDeliver, ReplayDone,
              ReplayEndsProgram, replayOnly
<1>5. CASE Accept \/ Leave \/ Broadcast \/ RunPosted \/ WorkerEnds
  BY <1>5 DEF Accept, Leave, Broadcast, RunPosted, WorkerEnds, uiOnly
<1>6. CASE Ended \/ UNCHANGED vars
  BY <1>6 DEF Ended, vars
<1>7. QED
  BY <1>1, <1>2, <1>3, <1>4, <1>5, <1>6 DEF Next

(* A flag is kept, set or cleared.                                         *)
LEMMA FlagsTyped ==
  ASSUME Flags, [Next]_vars
  PROVE  Flags'
<1> USE DEF Flags
<1>1. CASE HandleSignal \/ StopUI \/ PostStop \/ StopIoc \/ Interrupt
  BY <1>1, Zenon DEF HandleSignal, StopUI, PostStop, StopIoc, Interrupt, uiVars
<1>2. CASE Dispatch \/ JoinWorker \/ RunReturns \/ Join
  BY <1>2, Zenon DEF Dispatch, JoinWorker, RunReturns, Join, uiVars
<1>3. CASE Receive \/ Connection
  BY <1>3, Zenon DEF Receive, Connection, uiVars
<1>4. CASE Strategy \/ Exec \/ Kdb
  BY <1>4, Zenon DEF Strategy, Exec, Kdb, pipelineOnly, uiVars
<1>5. CASE Replay
  BY <1>5, Zenon DEF Replay, ReplayQuery, ReplayPace, ReplayDeliver,
                     ReplayDone, ReplayEndsProgram, replayOnly, uiVars
<1>6. CASE Accept \/ Leave \/ Broadcast \/ RunPosted \/ WorkerEnds
  BY <1>6, Zenon DEF Accept, Leave, Broadcast, RunPosted, WorkerEnds, uiOnly
<1>7. CASE Ended \/ UNCHANGED vars
  BY <1>7, Zenon DEF Ended, vars, uiVars
<1>8. QED
  BY <1>1, <1>2, <1>3, <1>4, <1>5, <1>6, <1>7 DEF Next, Main

(* Every step keeps the types.                                             *)
LEMMA TypedStep ==
  ASSUME TypeOK, [Next]_vars
  PROVE  TypeOK'
<1>1. Typed /\ Flags /\ FeedTypeOK
  BY TypeOKIsTyped
<1>2. FeedTypeOK'
  BY <1>1, FeedVarsSteps, FeedTyped
<1>3. Flags'
  BY <1>1, FlagsTyped
<1>4. Typed'
  <2>1. CASE Ended \/ UNCHANGED vars
    BY <1>1, <2>1 DEF Typed, Ended, vars, threadVars, queueVars, uiVars
  <2>2. QED
    BY <1>1, <2>1, MainTyped, FeedStepTyped, ThreadsTyped, ServerTyped DEF Next
<1>5. QED
  BY <1>2, <1>3, <1>4 DEF TypeOK, Typed, Flags

(* The variables keep their types: no count passes the room of its queue   *)
(* and every thread is at a place it has.                                  *)
THEOREM TypeCorrect == Spec => []TypeOK
<1>1. Init => TypeOK
  BY TypedInitially
<1>2. TypeOK /\ [Next]_vars => TypeOK'
  BY TypedStep
<1>3. QED
  BY <1>1, <1>2, PTL DEF Spec

-----------------------------------------------------------------------------
(* Where main is once it has joined a thread.                              *)
AfterKdb == {"destroy", "destroyPost", "destroyJoin", "exited"}
AfterExec == AfterKdb \union {"joinKdb"}
AfterStrategy == AfterExec \union {"joinExec"}
AfterReplay == AfterStrategy \union {"joinStrategy"}

(* A thread that was joined has ended, and stays so: none of them starts   *)
(* another.                                                                *)
JoinedThreadsEnded ==
  /\ main \in AfterReplay => replay \in {"off", "done"}
  /\ main \in AfterStrategy => strategy = "done"
  /\ main \in AfterExec => exec = "done"
  /\ main \in AfterKdb => kdb = "done"

(* The server's thread has ended, unless stop() was not called or has not  *)
(* returned: the second call, from the destructor, may rely on that when   *)
(* it finds running_ false and joins nothing.                              *)
StopLeavesNoWorker ==
  /\ main = "exited" => worker = "done"
  /\ ~uiRunning => \/ main \in {"uiPost", "uiJoin", "destroyPost", "destroyJoin"}
                   \/ worker = "done"

(* A live program has no replay thread, and begins with running set.       *)
Beginning ==
  /\ main = "dispatch" => running /\ replay = "off"
  /\ mode = "live" => replay = "off"

(* In a live program running is cleared by the signal handler alone, which *)
(* main leaves with the io_context stopped.                                *)
ClearedByHandler ==
  mode = "live" /\ ~running => main # "dispatch" /\ (main # "ioc" \/ stopped)

Stopping == /\ JoinedThreadsEnded /\ StopLeavesNoWorker
            /\ Beginning /\ ClearedByHandler

(* The order of stopping holds at first: nothing stops.                    *)
LEMMA StoppingInitially == Init => Stopping
BY DEF Init, Stopping, JoinedThreadsEnded, StopLeavesNoWorker, Beginning,
       ClearedByHandler, AfterReplay, AfterStrategy, AfterExec, AfterKdb

(* Every step keeps the order of stopping.                                 *)
LEMMA StoppingStep ==
  ASSUME TypeOK, Stopping, [Next]_vars
  PROVE  Stopping'
<1> USE DEF Stopping, JoinedThreadsEnded, StopLeavesNoWorker, Beginning,
            ClearedByHandler, AfterReplay, AfterStrategy, AfterExec, AfterKdb,
            threadVars, uiVars
<1>0. Typed
  BY TypeOKIsTyped
<1>1. CASE Dispatch
  BY <1>1 DEF Dispatch
<1>2. CASE HandleSignal
  <2>1. main = "ioc" /\ main' = "uiStop"
    BY <1>2 DEF HandleSignal, RunsHandlers
  <2>2. UNCHANGED <<mode, replay, uiRunning, worker>>
    BY <1>2 DEF HandleSignal
  <2>3. QED
    BY <2>1, <2>2
<1>3. CASE StopUI
  BY <1>3 DEF StopUI, Goto
<1>4. CASE PostStop
  BY <1>4 DEF PostStop, Goto
<1>5. CASE JoinWorker
  BY <1>5 DEF JoinWorker, Goto
<1>6. CASE StopIoc
  BY <1>6 DEF StopIoc, Goto
<1>7. CASE RunReturns
  BY <1>7 DEF RunReturns, Goto
<1>8. CASE Join
  BY <1>8 DEF Join, Goto
<1>9. CASE Interrupt \/ Receive \/ Connection
  BY <1>9 DEF Interrupt, Receive, Connection
<1>10. CASE Strategy
  BY <1>10 DEF Strategy, pipelineOnly
<1>11. CASE Exec
  BY <1>11 DEF Exec, pipelineOnly
<1>12. CASE Kdb
  BY <1>12 DEF Kdb, pipelineOnly
<1>13. CASE Replay
  BY <1>0, <1>13 DEF Replay, ReplayQuery, ReplayPace, ReplayDeliver,
                     ReplayDone, ReplayEndsProgram, replayOnly, Typed
<1>14. CASE Accept \/ Leave \/ Broadcast \/ RunPosted \/ WorkerEnds
  BY <1>14 DEF Accept, Leave, Broadcast, RunPosted, WorkerEnds, uiOnly
<1>15. CASE Ended \/ UNCHANGED vars
  BY <1>15 DEF Ended, vars
<1>16. QED
  BY <1>1, <1>2, <1>3, <1>4, <1>5, <1>6, <1>7, <1>8, <1>9, <1>10, <1>11,
     <1>12, <1>13, <1>14, <1>15 DEF Next, Main

(* The types and the order of stopping hold throughout.                    *)
LEMMA StoppingAlways == Spec => [](TypeOK /\ Stopping)
<1>1. Init => TypeOK /\ Stopping
  BY TypedInitially, StoppingInitially
<1>2. TypeOK /\ Stopping /\ [Next]_vars => (TypeOK /\ Stopping)'
  BY TypedStep, StoppingStep
<1>3. QED
  BY <1>1, <1>2, PTL DEF Spec

(* main returns only when the threads that use its queues, books and       *)
(* UIState have ended, whichever way it came there: through the handler or *)
(* at the end of a replay, with stop() called once or twice.               *)
THEOREM ThreadsEndFirst == Spec => []NoThreadOutlivesMain
<1>1. TypeOK /\ Stopping => NoThreadOutlivesMain
  BY DEF Stopping, JoinedThreadsEnded, StopLeavesNoWorker, NoThreadOutlivesMain,
         AfterReplay, AfterStrategy, AfterExec, AfterKdb
<1>2. QED
  BY <1>1, StoppingAlways, PTL

-----------------------------------------------------------------------------
(* No step of a live program that was told to stop adds a tick.            *)
LEMMA SilentStep ==
  ASSUME TypeOK, Stopping, [Next]_vars, mode = "live", ~running
  PROVE  ticks' <= ticks
<1> USE DEF Stopping, Beginning, ClearedByHandler, queueVars
<1>0. ticks \in Int
  BY TypeOKIsTyped DEF Typed
<1>1. ~RunsHandlers
  BY DEF RunsHandlers
<1>2. CASE Main
  BY <1>0, <1>2 DEF Main, Dispatch, HandleSignal, StopUI, PostStop, JoinWorker,
                    StopIoc, RunReturns, Join
<1>3. CASE Interrupt \/ Receive \/ Connection
  BY <1>0, <1>1, <1>3 DEF Interrupt, Receive, Connection
<1>4. CASE Strategy \/ Exec \/ Kdb
  BY <1>0, <1>4 DEF Strategy, Exec, Kdb
<1>5. CASE Replay
  BY <1>0, <1>5 DEF Replay, ReplayQuery, ReplayPace, ReplayDeliver, ReplayDone,
                    ReplayEndsProgram
<1>6. CASE Accept \/ Leave \/ Broadcast \/ RunPosted \/ WorkerEnds
  BY <1>0, <1>6 DEF Accept, Leave, Broadcast, RunPosted, WorkerEnds, uiOnly
<1>7. CASE Ended \/ UNCHANGED vars
  BY <1>0, <1>7 DEF Ended, vars
<1>8. QED
  BY <1>2, <1>3, <1>4, <1>5, <1>6, <1>7 DEF Next

(* Once running is cleared, nothing is added to the tick queue of a live   *)
(* program, though on_message stays installed on an open connection.       *)
THEOREM FeedIsSilenced == Spec => ShutdownSilencesFeed
<1>1. TypeOK /\ Stopping /\ [Next]_vars
        => [mode = "live" /\ ~running => ticks' <= ticks]_vars
  BY SilentStep
<1>2. QED
  BY <1>1, StoppingAlways, PTL DEF Spec, ShutdownSilencesFeed
=============================================================================
