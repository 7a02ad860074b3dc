------------------------------ MODULE Lifecycle ------------------------------
(***************************************************************************)
(* How the process starts, stops and is stopped: run_live_pipeline of      *)
(* main.cpp with its strategy, execution, kdb and replay threads, the      *)
(* signal handler that runs on the main thread's io_context, and the       *)
(* dashboard server of core/ui/ws_server.hpp with the thread it owns.      *)
(* The connection to Binance, whose callbacks run on the main thread, is   *)
(* BinanceFeed.                                                            *)
(*                                                                         *)
(* Queues are counts here: what matters is who polls them, who waits for   *)
(* room in them and what is left in them.                                  *)
(***************************************************************************)
EXTENDS Integers, BinanceFeed

CONSTANTS
  Modes,          (* the --mode values considered                          *)
  MaxClients,     (* bound: dashboards connected at a time                 *)
  TickCapacity,   (* the room of tick_queue                                *)
  QueueCapacity,  (* the room of signal_queue, kdb_feed_q and kdb_exec_q   *)
  StrategyCount,  (* the most signals one tick gives                       *)
  ReplayTicks     (* the rows the replay query returns                     *)

ASSUME ModesAssumption == Modes \subseteq {"live", "replay", "unknown"}

ASSUME BoundAssumption ==
  /\ MaxClients \in Nat /\ ReplayTicks \in Nat /\ StrategyCount \in Nat
  /\ TickCapacity \in Nat \ {0} /\ QueueCapacity \in Nat \ {0}

VARIABLES
  mode,
  main,         (* where the main thread is                                *)
  interrupted,  (* SIGINT or SIGTERM has arrived                           *)
  running,      (* the flag of main.cpp                                    *)
  stopped,      (* ioc.stop() was called                                   *)
  strategy, exec, kdb, replay,          (* where those threads are         *)
  remaining,    (* rows the replay thread still has to deliver             *)
  endless,      (* the rows, by what remains with them, whose time the     *)
                (* pacing practically never finds come                     *)
  ticks, signals, feedRecords, execRecords,    (* what the queues hold     *)
  uiRunning,    (* UIBroadcaster::running_                                 *)
  stopPosted,   (* the task stop() posts waits in the server's io_context  *)
  accepting,    (* an async_accept is pending                              *)
  ticking,      (* the 50 ms timer is pending                              *)
  sessions,     (* dashboards connected, each with a pending async_read    *)
  worker        (* the server's thread: it runs until no work is left      *)

queueVars == <<ticks, signals, feedRecords, execRecords>>
uiVars == <<uiRunning, stopPosted, accepting, ticking, sessions, worker>>
threadVars == <<strategy, exec, kdb, replay, remaining, endless>>
vars == <<mode, main, interrupted, running, stopped, threadVars, queueVars,
          uiVars, feedVars>>

(* At a --speed above 0 a row older than the first, for the distance of    *)
(* the two wraps round.  The first is not waited for.                      *)
EndlessRows == IF mode = "replay" THEN SUBSET (1 .. ReplayTicks - 1) ELSE {{}}

Init ==
  /\ mode \in Modes
  /\ main = "dispatch"
  /\ interrupted = FALSE /\ running = TRUE /\ stopped = FALSE
  /\ strategy = "check" /\ exec = "check" /\ kdb = "connect"
  /\ replay = "off" /\ remaining = ReplayTicks /\ endless \in EndlessRows
  /\ ticks = 0 /\ signals = 0 /\ feedRecords = 0 /\ execRecords = 0
  /\ uiRunning = TRUE /\ stopPosted = FALSE
  /\ accepting = TRUE /\ ticking = TRUE /\ sessions = 0 /\ worker = "run"
  /\ FeedInit

(* Mutation of AfterPush: no test for a full queue.                        *)
AfterPushAnyway(count, n, capacity) == count + n

(* A push that a full queue refuses changes nothing.                       *)
AfterPush(count, n, capacity) ==
  IF count + n <= capacity THEN count + n ELSE capacity

-----------------------------------------------------------------------------
(* The main thread.                                                        *)

(* An unknown mode returns with joinable threads: std::terminate.          *)
Dispatch ==
  /\ main = "dispatch"
  /\ main' = IF mode = "unknown" THEN "aborted" ELSE "ioc"
  /\ replay' = IF mode = "replay" THEN "connect" ELSE replay
  /\ IF mode = "live" THEN StartFeed ELSE UNCHANGED feedVars
  /\ UNCHANGED <<mode, interrupted, running, stopped, strategy, exec, kdb,
                 remaining, endless, queueVars, uiVars>>

(* From outside.  The wait is armed once: a second signal changes nothing. *)
Interrupt ==
  /\ main \notin {"dispatch", "aborted", "exited"}
  /\ interrupted' = TRUE
  /\ UNCHANGED <<mode, main, running, stopped, threadVars, queueVars,
                 uiVars, feedVars>>

(* The io_context runs a handler that is ready.                            *)
RunsHandlers == main = "ioc" /\ ~stopped

(* Mutation of Receive: on_message is called from a thread of its own.     *)
ReceiveAnyTime ==
  /\ main # "exited" /\ MessageRead
  /\ ticks' = AfterPush(ticks, 1, TickCapacity)
  /\ feedRecords' \in {feedRecords, AfterPush(feedRecords, 1, QueueCapacity)}
  /\ UNCHANGED <<mode, main, interrupted, running, stopped, threadVars,
                 signals, execRecords, uiVars>>

(* on_message: a trade gives a tick and a record, a funding message a tick;*)
(* the other messages touch no queue.                                      *)
Receive ==
  /\ RunsHandlers /\ MessageRead
  /\ ticks' = AfterPush(ticks, 1, TickCapacity)
  /\ feedRecords' \in {feedRecords, AfterPush(feedRecords, 1, QueueCapacity)}
  /\ UNCHANGED <<mode, main, interrupted, running, stopped, threadVars,
                 signals, execRecords, uiVars>>

(* The callbacks of the connection.                                        *)
Connection ==
  /\ RunsHandlers
  /\ StageDone \/ StageFails \/ ReadFails
  /\ UNCHANGED <<mode, main, interrupted, running, stopped, threadVars,
                 queueVars, uiVars>>

(* The signal handler begins; it ends with ioc.stop(), so it runs once.    *)
HandleSignal ==
  /\ RunsHandlers /\ interrupted
  /\ running' = FALSE
  /\ main' = "uiStop"
  /\ UNCHANGED <<mode, interrupted, stopped, threadVars, queueVars,
                 uiVars, feedVars>>

Goto(from, to) == main = from /\ main' = to

(* UIBroadcaster::stop, called by the handler and again by the destructor; *)
(* the second call finds running_ false.                                   *)
StopUI ==
  /\ \/ Goto("uiStop", "uiPost")
     \/ Goto("destroy", IF uiRunning THEN "destroyPost" ELSE "exited")
  /\ uiRunning' = FALSE
  /\ UNCHANGED <<mode, interrupted, running, stopped, threadVars, queueVars,
                 stopPosted, accepting, ticking, sessions, worker, feedVars>>

PostStop ==
  /\ Goto("uiPost", "uiJoin") \/ Goto("destroyPost", "destroyJoin")
  /\ stopPosted' = TRUE
  /\ UNCHANGED <<mode, interrupted, running, stopped, threadVars, queueVars,
                 uiRunning, accepting, ticking, sessions, worker, feedVars>>

JoinWorker ==
  /\ worker = "done"
  /\ Goto("uiJoin", "iocStop") \/ Goto("destroyJoin", "exited")
  /\ UNCHANGED <<mode, interrupted, running, stopped, threadVars, queueVars,
                 uiVars, feedVars>>

(* The handler ends with ws.close() in live mode, and ioc.stop().          *)
StopIoc ==
  /\ Goto("iocStop", "ioc")
  /\ stopped' = TRUE
  /\ IF mode = "live" THEN CloseFeed ELSE UNCHANGED feedVars
  /\ UNCHANGED <<mode, interrupted, running, threadVars, queueVars, uiVars>>

(* Mutation of RunReturns: only the signal handler ends the run.           *)
RunReturnsOnSignal ==
  /\ Goto("ioc", "joinReplay") /\ stopped /\ interrupted
  /\ UNCHANGED <<mode, interrupted, running, stopped, threadVars, queueVars,
                 uiVars, feedVars>>

(* ioc.run() returns: the pending signal wait keeps it until then.         *)
RunReturns ==
  /\ Goto("ioc", "joinReplay") /\ stopped
  /\ UNCHANGED <<mode, interrupted, running, stopped, threadVars, queueVars,
                 uiVars, feedVars>>

(* Mutation of Join: the kdb thread is not waited for.                     *)
JoinWithoutKdb ==
  /\ \/ Goto("joinReplay", "joinStrategy") /\ replay \in {"off", "done"}
     \/ Goto("joinStrategy", "joinExec") /\ strategy = "done"
     \/ Goto("joinExec", "destroy") /\ exec = "done"
  /\ UNCHANGED <<mode, interrupted, running, stopped, threadVars, queueVars,
                 uiVars, feedVars>>

(* The four joins, in the order of the code; an unstarted replay thread is *)
(* not joinable.                                                           *)
Join ==
  /\ \/ Goto("joinReplay", "joinStrategy") /\ replay \in {"off", "done"}
     \/ Goto("joinStrategy", "joinExec") /\ strategy = "done"
     \/ Goto("joinExec", "joinKdb") /\ exec = "done"
     \/ Goto("joinKdb", "destroy") /\ kdb = "done"
  /\ UNCHANGED <<mode, interrupted, running, stopped, threadVars, queueVars,
                 uiVars, feedVars>>

Main == \/ Dispatch \/ HandleSignal \/ StopUI \/ PostStop
        \/ JoinWorker \/ StopIoc \/ RunReturns \/ Join

-----------------------------------------------------------------------------
(* The pipeline's threads: each looks at running before it polls.          *)
Alive == main # "aborted"

pipelineOnly == <<mode, main, interrupted, running, stopped, replay,
                  remaining, endless, uiVars, feedVars>>

Strategy ==
  /\ Alive
  /\ \/ /\ strategy = "check"
        /\ strategy' = IF running THEN "poll" ELSE "done"
        /\ UNCHANGED queueVars
     \/ /\ strategy = "poll"
        /\ strategy' = "check"
        /\ IF ticks = 0
             THEN UNCHANGED queueVars
             ELSE /\ ticks' = ticks - 1
                  /\ \E n \in 0 .. StrategyCount :
                       signals' = AfterPush(signals, n, QueueCapacity)
                  /\ UNCHANGED <<feedRecords, execRecords>>
  /\ UNCHANGED <<pipelineOnly, exec, kdb>>

(* A signal without a price gives no fill and no record.                   *)
Exec ==
  /\ Alive
  /\ \/ /\ exec = "check"
        /\ exec' = IF running THEN "poll" ELSE "done"
        /\ UNCHANGED queueVars
     \/ /\ exec = "poll"
        /\ exec' = "check"
        /\ IF signals = 0
             THEN UNCHANGED queueVars
             ELSE /\ signals' = signals - 1
                  /\ \E n \in {0, 1} :
                       execRecords' = AfterPush(execRecords, n, QueueCapacity)
                  /\ UNCHANGED <<ticks, feedRecords>>
  /\ UNCHANGED <<pipelineOnly, strategy, kdb>>

(* The writer empties one queue, then the other, before it looks at        *)
(* running again.                                                          *)
Kdb ==
  /\ Alive
  /\ \/ /\ kdb = "connect"
        /\ kdb' = "check"
        /\ UNCHANGED queueVars
     \/ /\ kdb = "check"
        /\ kdb' = IF running THEN "feed" ELSE "done"
        /\ UNCHANGED queueVars
     \/ /\ kdb = "feed"
        /\ IF feedRecords = 0 THEN kdb' = "exec" /\ UNCHANGED feedRecords
                              ELSE feedRecords' = feedRecords - 1 /\ UNCHANGED kdb
        /\ UNCHANGED <<ticks, signals, execRecords>>
     \/ /\ kdb = "exec"
        /\ IF execRecords = 0 THEN kdb' = "check" /\ UNCHANGED execRecords
                              ELSE execRecords' = execRecords - 1 /\ UNCHANGED kdb
        /\ UNCHANGED <<ticks, signals, feedRecords>>
  /\ UNCHANGED <<pipelineOnly, strategy, exec>>

replayOnly == <<mode, main, interrupted, strategy, exec, kdb, endless, signals,
                feedRecords, execRecords, uiVars, feedVars>>

(* Connects and queries.  Without a connection, on a network error, or on  *)
(* an answer that is no table, there is nothing to replay.                 *)
ReplayQuery ==
  /\ replay = "connect"
  /\ replay' \in {"pace", "clear"}
  /\ UNCHANGED <<replayOnly, remaining, ticks, running, stopped>>

(* Waits for the time of the next row, whatever running says.  At speed 0, *)
(* and for the first row, it has come.                                     *)
ReplayPace ==
  /\ replay = "pace" /\ remaining > 0 /\ remaining \notin endless
  /\ replay' = "deliver"
  /\ UNCHANGED <<replayOnly, remaining, ticks, running, stopped>>

(* Delivers the row: spins until the queue has room, whatever running says.*)
ReplayDeliver ==
  /\ replay = "deliver" /\ ticks < TickCapacity
  /\ replay' = "pace"
  /\ remaining' = remaining - 1
  /\ ticks' = ticks + 1
  /\ UNCHANGED <<replayOnly, running, stopped>>

ReplayDone ==
  /\ replay = "pace" /\ remaining = 0
  /\ replay' = "clear"
  /\ UNCHANGED <<replayOnly, remaining, ticks, running, stopped>>

(* And then ends the program: clears running, stops the io_context.        *)
ReplayEndsProgram ==
  /\ \/ /\ replay = "clear" /\ replay' = "stop"
        /\ running' = FALSE /\ UNCHANGED stopped
     \/ /\ replay = "stop" /\ replay' = "done"
        /\ stopped' = TRUE /\ UNCHANGED running
  /\ UNCHANGED <<replayOnly, remaining, ticks>>

Replay ==
  /\ Alive
  /\ \/ ReplayQuery \/ ReplayPace \/ ReplayDeliver
     \/ ReplayDone \/ ReplayEndsProgram

-----------------------------------------------------------------------------
(* The dashboard server's thread.                                          *)
uiOnly == <<mode, main, interrupted, running, stopped, threadVars, queueVars,
            feedVars>>

(* A dashboard connects, and then waits in async_read for commands.        *)
Accept ==
  /\ Alive /\ worker = "run" /\ accepting /\ sessions < MaxClients
  /\ sessions' = sessions + 1
  /\ accepting' = uiRunning
  /\ UNCHANGED <<uiOnly, uiRunning, stopPosted, ticking, worker>>

(* The client goes away: the pending read fails and is not renewed.        *)
Leave ==
  /\ Alive /\ worker = "run" /\ sessions > 0
  /\ sessions' = sessions - 1
  /\ UNCHANGED <<uiOnly, uiRunning, stopPosted, accepting, ticking, worker>>

(* The timer fires: broadcast and arm it again, unless stop was called.    *)
Broadcast ==
  /\ Alive /\ worker = "run" /\ ticking
  /\ ticking' = uiRunning
  /\ UNCHANGED <<uiOnly, uiRunning, stopPosted, accepting, sessions, worker>>

(* Mutation of RunPosted: the acceptor stays open.                         *)
RunPostedTimerOnly ==
  /\ Alive /\ worker = "run" /\ stopPosted
  /\ stopPosted' = FALSE
  /\ ticking' = FALSE
  /\ UNCHANGED <<uiOnly, uiRunning, accepting, sessions, worker>>

(* The posted task cancels the timer and closes the acceptor; the handlers *)
(* of both find running_ false.                                            *)
RunPosted ==
  /\ Alive /\ worker = "run" /\ stopPosted
  /\ stopPosted' = FALSE
  /\ ticking' = FALSE /\ accepting' = FALSE
  /\ UNCHANGED <<uiOnly, uiRunning, sessions, worker>>

(* Nothing is pending any more: the io_context's run() returns.            *)
WorkerEnds ==
  /\ Alive /\ worker = "run"
  /\ ~stopPosted /\ ~accepting /\ ~ticking /\ sessions = 0
  /\ worker' = "done"
  /\ UNCHANGED <<uiOnly, uiRunning, stopPosted, accepting, ticking, sessions>>

-----------------------------------------------------------------------------
(* After the end, nothing happens.                                         *)
Ended ==
  /\ main \in {"aborted", "exited"}
  /\ UNCHANGED vars

Next ==
  \/ Main \/ Interrupt \/ Receive \/ Connection
  \/ Strategy \/ Exec \/ Kdb \/ Replay
  \/ Accept \/ Leave \/ Broadcast \/ RunPosted \/ WorkerEnds
  \/ Ended

Spec == Init /\ [][Next]_vars

(* Every thread is scheduled; asio runs the handlers that are ready.       *)
(* Nothing is assumed of the feed, of the user or of the dashboards.       *)
FairSpec ==
  /\ Spec
  /\ WF_vars(Main) /\ WF_vars(Strategy) /\ WF_vars(Exec) /\ WF_vars(Kdb)
  /\ WF_vars(Replay)
  /\ WF_vars(Broadcast) /\ WF_vars(RunPosted) /\ WF_vars(WorkerEnds)

(* The user also closes every dashboard, sooner or later.                  *)
PoliteSpec == FairSpec /\ WF_vars(Leave)

-----------------------------------------------------------------------------
MainPoints ==
  {"dispatch", "ioc", "uiStop", "uiPost", "uiJoin", "iocStop", "joinReplay",
   "joinStrategy", "joinExec", "joinKdb", "destroy", "destroyPost",
   "destroyJoin", "exited", "aborted"}

TypeOK ==
  /\ mode \in Modes
  /\ main \in MainPoints
  /\ {interrupted, running, stopped, uiRunning, stopPosted, accepting, ticking}
       \subseteq BOOLEAN
  /\ strategy \in {"check", "poll", "done"}
  /\ exec \in {"check", "poll", "done"}
  /\ kdb \in {"connect", "check", "feed", "exec", "done"}
  /\ replay \in {"off", "connect", "pace", "deliver", "clear", "stop", "done"}
  /\ remaining \in 0 .. ReplayTicks
  /\ replay = "deliver" => remaining > 0
  /\ endless \subseteq 1 .. ReplayTicks - 1
  /\ ticks \in 0 .. TickCapacity
  /\ {signals, feedRecords, execRecords} \subseteq 0 .. QueueCapacity
  /\ sessions \in 0 .. MaxClients
  /\ worker \in {"run", "done"}
  /\ FeedTypeOK

(* run_live_pipeline returns only when no thread is left that uses the     *)
(* queues, the books, the strategies or UIState, all of which die with it. *)
NoThreadOutlivesMain ==
  main = "exited" => /\ strategy = "done" /\ exec = "done" /\ kdb = "done"
                     /\ replay \in {"off", "done"}
                     /\ worker = "done"

(* Once running is cleared the feed is silent: nothing is added to the     *)
(* tick queue of a live run any more, although on_message stays installed  *)
(* and the connection open until the end of the handler.                   *)
ShutdownSilencesFeed ==
  [][mode = "live" /\ ~running => ticks' <= ticks]_vars

(* The rows a replay still has to deliver have room in the tick queue.     *)
RowsFit == mode = "replay" => remaining + ticks <= TickCapacity

(* None of those rows is one the pacing holds back for ever.               *)
RowsDue == \A row \in endless : row > remaining

(* Ctrl-C ends the program, through a flag, a handler that joins one       *)
(* thread and four joins after it.  A replay looks at no flag, so it must  *)
(* be able to run out of rows: neither wait for a row older than the first *)
(* nor have more rows left than the tick queue has room.                   *)
InterruptExits == interrupted /\ RowsFit /\ RowsDue ~> main = "exited"

(* A replay that is left alone ends by itself, paced or not, unless it     *)
(* comes to a row older than the first one and is paced.                   *)
ReplayEnds == mode = "replay" /\ RowsDue ~> main = "exited" \/ interrupted

(* "The worker threads observe running == false on their next loop         *)
(* iteration and exit.  Main then joins both threads": an interrupt ends   *)
(* the program, whatever it is doing.                                      *)
InterruptAlwaysExits == interrupted ~> main = "exited"
=============================================================================
