---------------------------- MODULE ParallelPhase ----------------------------
(***************************************************************************)
(* The parallel game phase of one attempt: the coroutine                   *)
(* _run_parallel_game_phase(_body) of controllers/orchestrator.py, the     *)
(* asyncio tasks it starts, the executor THREAD behind one of them, and    *)
(* the AttemptContext they share (modules/run_context.py).                 *)
(*                                                                         *)
(* The coroutine and the monitor tasks share one event loop: a task moves  *)
(* only while the coroutine awaits.  The executor runs in a thread of its  *)
(* own (asyncio.to_thread), so it moves at any time, and cancelling its    *)
(* task abandons the result but does not stop the thread.                  *)
(*                                                                         *)
(* Abstracted: what a monitor looks at, what the executor does on screen,  *)
(* log lines, audit and traces.  Time is one bit, `expired`: the phase's   *)
(* deadline (game.timeout_s) has passed.                                   *)
(***************************************************************************)
EXTENDS Naturals, FiniteSets

CONSTANTS
  Monitor,      \* the monitor tasks a configuration can switch on
  LogMonitor    \* the one that collects the plugin's logcat

Outcome == {"none", "ok", "skipped", "probe", "E1009", "executor",
            "incomplete", "raised"}

ASSUME MonitorAssumption ==
  /\ LogMonitor \in Monitor
  /\ Monitor \cap (Outcome \cup {"shutdown", "session", "timeout", "observe"}) = {}

AnyTask == {"shutdown", "session", "executor"} \cup Monitor

Reason == {"shutdown", "session", "timeout"} \cup Monitor

None == "none"

VARIABLES
  executorOn,  \* modules.executor
  monitors,    \* the monitors the configuration switches on
  pc,          \* where the coroutine is
  pending,     \* tasks the main loop still waits for
  done,        \* tasks of the last asyncio.wait not handled yet
  task,        \* [AnyTask -> absent | run | ok | err | raised | cancelled]
  exec,        \* the executor thread: off, run, inGame (cleaning up), over
  execResult,  \* RunState of the thread when it is over
  confirmed,   \* AttemptContext._in_game_confirmed
  fatal,       \* AttemptContext._fatal_reason
  stopAll,     \* AttemptContext.stop_all
  shutdownReq, \* the process-wide ShutdownContext is set
  expired,     \* the deadline of the phase has passed
  timedOut, phaseOk, signaled, execState, exitCommitted,  \* locals
  verdict,     \* what the coroutine returns once _cancel_pending is over
  outcome,     \* what it returned: none yet, "ok", or a failure
  inTime       \* history: check_in_game confirmed before the deadline

shared == <<confirmed, fatal, stopAll, shutdownReq, expired, inTime>>
locals == <<timedOut, phaseOk, signaled, execState, exitCommitted, verdict>>
thread == <<exec, execResult>>
config == <<executorOn, monitors>>
vars == <<config, pc, pending, done, task, thread, shared, locals, outcome>>

PC == {"start", "head", "wait", "handle", "join", "cancel", "leave", "branch",
       "timeout", "drain", "gather", "judge", "observe", "returned", "closed"}

\* The tasks this configuration starts.
Task == {"shutdown", "session"} \cup monitors
        \cup (IF executorOn THEN {"executor"} ELSE {})

\* The event loop is free to run the tasks while the coroutine awaits.
Awaiting == pc \in {"wait", "join", "cancel", "timeout", "drain", "gather", "observe"}

TypeOK ==
  /\ executorOn \in BOOLEAN
  /\ monitors \subseteq Monitor
  /\ pc \in PC
  /\ pending \subseteq Task
  /\ done \subseteq Task
  /\ task \in [AnyTask -> {"absent", "run", "ok", "err", "raised", "cancelled"}]
  /\ exec \in {"off", "run", "inGame", "over"}
  /\ execResult \in {None, "inGame", "failed", "raised"}
  /\ fatal \in Reason \cup {None}
  /\ confirmed \in BOOLEAN /\ stopAll \in BOOLEAN /\ shutdownReq \in BOOLEAN
  /\ expired \in BOOLEAN /\ inTime \in BOOLEAN
  /\ timedOut \in BOOLEAN /\ phaseOk \in BOOLEAN /\ signaled \in BOOLEAN
  /\ exitCommitted \in BOOLEAN
  /\ execState \in {None, "inGame"}
  /\ verdict \in {None, "reason", "executor"}
  /\ outcome \in Reason \cup Outcome
  /\ outcome = None <=> pc \notin {"returned", "closed"}

Init ==
  /\ executorOn \in BOOLEAN /\ monitors \in SUBSET Monitor
  /\ pc = "start"
  /\ pending = {} /\ done = {}
  /\ task = [t \in AnyTask |-> "absent"]
  /\ exec = "off" /\ execResult = None
  /\ confirmed = FALSE /\ fatal = None /\ stopAll = FALSE
  /\ shutdownReq = FALSE /\ expired = FALSE /\ inTime = FALSE
  /\ timedOut = FALSE /\ phaseOk = FALSE /\ signaled = FALSE
  /\ execState = None /\ exitCommitted = FALSE
  /\ verdict = None /\ outcome = None

\* AttemptContext.signal_fatal: the first reason stays, everyone must stop.
LastReason(r) == r

FirstReason(r) == IF fatal = None THEN r ELSE fatal

SignalFatal(r) == fatal' = FirstReason(r) /\ stopAll' = TRUE

\* Task.cancel() on every unfinished task of S, joined by the next await.
Cancelled(S) ==
  [t \in AnyTask |-> IF t \in S /\ task[t] = "run" THEN "cancelled" ELSE task[t]]

-----------------------------------------------------------------------------
(* The executor thread.                                                    *)

\* stability_observe_node calls signal_in_game_confirmed.  It looks at
\* stop_all only at the next observe_screen, so it may confirm after a stop.
ConfirmInGame ==
  /\ exec = "run"
  /\ exec' = "inGame"
  /\ confirmed' = TRUE
  /\ inTime' = ~expired
  /\ UNCHANGED <<config, pc, pending, done, task, execResult, fatal, stopAll,
                 shutdownReq, expired, locals, outcome>>

\* run_executor_flow_sync returns its RunState, or an adb call raises.  Once
\* confirmed, the flow observes the screen once more before it ends.
EndExecutor(result) ==
  /\ \/ exec = "run" /\ result \in {"failed", "raised"}
     \/ exec = "inGame" /\ result \in {"inGame", "raised"}
  /\ exec' = "over"
  /\ execResult' = result
  /\ UNCHANGED <<config, pc, pending, done, task, shared, locals, outcome>>

\* The loop learns that the thread is over, unless the task was cancelled.
DeliverExecutor ==
  /\ Awaiting
  /\ executorOn /\ exec = "over" /\ task["executor"] = "run"
  /\ task' = [task EXCEPT !["executor"] =
                IF execResult = "raised" THEN "raised" ELSE "ok"]
  /\ UNCHANGED <<config, pc, pending, done, thread, shared, locals, outcome>>

-----------------------------------------------------------------------------
(* The tasks of the event loop.                                            *)

\* _shutdown_watcher: looks at stop_event first, then at the shutdown flag.
WatchShutdownQuietly ==
  /\ Awaiting
  /\ task["shutdown"] = "run"
  /\ stopAll \/ shutdownReq
  /\ task' = [task EXCEPT !["shutdown"] = "ok"]
  /\ SignalFatal("shutdown")
  /\ UNCHANGED <<config, pc, pending, done, thread, confirmed, shutdownReq,
                 expired, inTime, locals, outcome>>

WatchShutdown ==
  /\ Awaiting
  /\ task["shutdown"] = "run"
  /\ \/ /\ stopAll
        /\ task' = [task EXCEPT !["shutdown"] = "ok"]
        /\ UNCHANGED <<fatal, stopAll>>
     \/ /\ ~stopAll /\ shutdownReq
        /\ task' = [task EXCEPT !["shutdown"] = "err"]
        /\ SignalFatal("shutdown")
  /\ UNCHANGED <<config, pc, pending, done, thread, confirmed, shutdownReq, expired,
                 inTime, locals, outcome>>

\* SessionCoordinator.watch: ends on stop, or at the restart limit.  Its
\* failure is signalled by whoever reads the result, not by the task.
WatchSession(end) ==
  /\ Awaiting
  /\ task["session"] = "run"
  /\ end = "ok" => stopAll
  /\ task' = [task EXCEPT !["session"] = end]
  /\ UNCHANGED <<config, pc, pending, done, thread, shared, locals, outcome>>

\* _log_task and _network_anomaly_task signal their own failure.  The log
\* monitor drops a broken stream after a stop; the network monitor may be in
\* the middle of a poll, and confirms its anomaly whatever happened since.
Monitoring(m, end) ==
  /\ Awaiting
  /\ task[m] = "run"
  /\ end = "ok" => stopAll
  /\ end = "err" /\ m = LogMonitor => ~stopAll
  /\ task' = [task EXCEPT ![m] = end]
  /\ IF end = "err" THEN SignalFatal(m) ELSE UNCHANGED <<fatal, stopAll>>
  /\ UNCHANGED <<config, pc, pending, done, thread, confirmed, shutdownReq, expired,
                 inTime, locals, outcome>>

-----------------------------------------------------------------------------
(* The coroutine.                                                          *)

\* The early returns, then the tasks and the thread are started.
Start ==
  /\ pc = "start"
  /\ \/ /\ ~executorOn /\ LogMonitor \notin monitors
        /\ pc' = "returned" /\ outcome' = "skipped"
        /\ UNCHANGED <<pending, task, exec>>
     \/ /\ executorOn
        /\ pc' = "returned" /\ outcome' \in {"probe", "E1009"}
        /\ UNCHANGED <<pending, task, exec>>
     \/ /\ executorOn \/ LogMonitor \in monitors
        /\ pc' = "head"
        /\ pending' = Task
        /\ task' = [t \in AnyTask |-> IF t \in Task THEN "run" ELSE "absent"]
        /\ exec' = IF executorOn THEN "run" ELSE "off"
        /\ UNCHANGED outcome
  /\ UNCHANGED <<config, done, execResult, shared, locals>>

LoopHead ==
  /\ pc = "head"
  /\ phaseOk' = (phaseOk \/ (pending # {} /\ ~expired /\ confirmed))
  /\ pc' = IF pending = {} \/ expired \/ phaseOk' THEN "leave" ELSE "wait"
  /\ UNCHANGED <<config, pending, done, task, thread, shared, timedOut, signaled,
                 execState, exitCommitted, verdict, outcome>>

\* asyncio.wait(FIRST_COMPLETED): every task finished by now is in `done`.
\* signal_in_game_confirmed completes no task, so it does not end the wait.
Finished == {t \in pending : task[t] # "run"}

WaitReturns ==
  /\ pc = "wait"
  /\ Finished # {}
  /\ done' = Finished
  /\ pending' = pending \ Finished
  /\ pc' = "handle"
  /\ UNCHANGED <<config, task, thread, shared, locals, outcome>>

WaitTimesOutAsSuccess ==
  /\ pc = "wait"
  /\ Finished = {} /\ expired
  /\ phaseOk' = TRUE
  /\ pc' = "leave"
  /\ UNCHANGED <<config, pending, done, task, thread, shared, timedOut, signaled,
                 execState, exitCommitted, verdict, outcome>>

WaitTimesOut ==
  /\ pc = "wait"
  /\ Finished = {} /\ expired
  /\ phaseOk' = confirmed
  /\ timedOut' = ~confirmed
  /\ pc' = "leave"
  /\ UNCHANGED <<config, pending, done, task, thread, shared, signaled, execState,
                 exitCommitted, verdict, outcome>>

\* _cancel_pending: stop everyone, then await them all.
CancelPending(next) ==
  /\ task' = Cancelled(Task)
  /\ pc' = next

\* `for task in done`: a set, so in any order.  A task that ended quietly is
\* skipped; when nothing else is left in `done`, the loop starts over.
HandleQuiet(t) ==
  /\ pc = "handle" /\ t \in done
  /\ t # "executor" /\ task[t] = "ok"
  /\ done' = done \ {t}
  /\ pc' = IF done = {t} THEN "head" ELSE "handle"
  /\ UNCHANGED <<config, pending, task, thread, shared, locals, outcome>>

HandleError(t) ==
  /\ pc = "handle" /\ t \in done
  /\ task[t] = "err"
  /\ fatal' = IF t = "session" THEN FirstReason("session") ELSE fatal
  /\ stopAll' = TRUE
  /\ verdict' = "reason"
  /\ CancelPending("cancel")
  /\ UNCHANGED <<config, pending, done, thread, confirmed, shutdownReq, expired, inTime,
                 timedOut, phaseOk, signaled, execState, exitCommitted, outcome>>

\* task.result() raises: nothing in the coroutine catches it.
HandleRaise(t) ==
  /\ pc = "handle" /\ t \in done
  /\ task[t] = "raised"
  /\ outcome' = "raised"
  /\ pc' = "returned"
  /\ UNCHANGED <<config, pending, done, task, thread, shared, locals>>

HandleExecutor ==
  /\ pc = "handle" /\ executorOn /\ "executor" \in done
  /\ task["executor"] = "ok"
  /\ \/ /\ execResult = "inGame"
        /\ phaseOk' = TRUE
        /\ execState' = "inGame"
        /\ task' = Cancelled({"session"})
        /\ pc' = "join"
        /\ UNCHANGED <<stopAll, verdict>>
     \/ /\ execResult = "failed"
        /\ stopAll' = TRUE
        /\ verdict' = "executor"
        /\ CancelPending("cancel")
        /\ UNCHANGED <<phaseOk, execState>>
  /\ UNCHANGED <<config, pending, done, thread, confirmed, fatal, shutdownReq, expired,
                 inTime, timedOut, signaled, exitCommitted, outcome>>

\* The confirmed executor and the session task are joined; `break` drops
\* what is left of `done`, and `not phase_ok` ends the loop.
JoinSession ==
  /\ pc = "join"
  /\ pending' = pending \ {"executor", "session"}
  /\ done' = {}
  /\ pc' = "leave"
  /\ UNCHANGED <<config, task, thread, shared, locals, outcome>>

ReturnVerdict ==
  /\ pc = "cancel"
  /\ outcome' = IF verdict = "executor" THEN "executor" ELSE fatal
  /\ pc' = "returned"
  /\ UNCHANGED <<config, pending, done, task, thread, shared, locals>>

\* After the loop: in_game_signaled is read once, and used from here on.
LeaveLoopBlindly ==
  /\ pc = "leave"
  /\ signaled' = phaseOk
  /\ pc' = "branch"
  /\ UNCHANGED <<config, pending, done, task, thread, shared, timedOut, phaseOk,
                 execState, exitCommitted, verdict, outcome>>

LeaveLoop ==
  /\ pc = "leave"
  /\ signaled' = confirmed
  /\ phaseOk' = (phaseOk \/ confirmed)
  /\ pc' = "branch"
  /\ UNCHANGED <<config, pending, done, task, thread, shared, timedOut, execState,
                 exitCommitted, verdict, outcome>>

\* parallel_phase_policy.should_signal_parallel_timeout_fatal
TimeoutIsFatal(late) ==
  late /\ ~phaseOk /\ ~signaled /\ execState # "inGame"

BranchTimeout ==
  /\ pc = "branch" /\ pending # {}
  /\ TimeoutIsFatal(timedOut \/ expired)
  /\ timedOut' = TRUE
  /\ SignalFatal("timeout")
  /\ CancelPending("timeout")
  /\ UNCHANGED <<config, pending, done, thread, confirmed, shutdownReq, expired, inTime,
                 phaseOk, signaled, execState, exitCommitted, verdict, outcome>>

BranchNeither ==
  /\ pc = "branch"
  /\ pending = {} \/ (~TimeoutIsFatal(timedOut \/ expired) /\ ~phaseOk)
  /\ pc' = "judge"
  /\ UNCHANGED <<config, pending, done, task, thread, shared, locals, outcome>>

BranchDrainKeepsWatcher ==
  /\ pc = "branch" /\ pending # {}
  /\ phaseOk
  /\ stopAll' = TRUE
  /\ task' = Cancelled(Task \ {"executor", "shutdown"})
  /\ pc' = IF executorOn /\ execState = None THEN "drain" ELSE "gather"
  /\ UNCHANGED <<config, pending, done, thread, confirmed, fatal, shutdownReq,
                 expired, inTime, locals, outcome>>

BranchDrain ==
  /\ pc = "branch" /\ pending # {}
  /\ phaseOk
  /\ stopAll' = TRUE
  /\ task' = Cancelled(Task \ {"executor"})
  /\ pc' = IF executorOn /\ execState = None THEN "drain" ELSE "gather"
  /\ UNCHANGED <<config, pending, done, thread, confirmed, fatal, shutdownReq, expired,
                 inTime, locals, outcome>>

TimeoutJoined ==
  /\ pc = "timeout"
  /\ pc' = "judge"
  /\ UNCHANGED <<config, pending, done, task, thread, shared, locals, outcome>>

\* _await_executor_after_in_game_signal: the thread's result, or, when it
\* raises or takes over 300 s, a synthetic success.
DrainExecutor ==
  /\ pc = "drain"
  /\ task["executor"] # "run"
  /\ execState' = "inGame"
  /\ pc' = "gather"
  /\ UNCHANGED <<config, pending, done, task, thread, shared, timedOut, phaseOk,
                 signaled, exitCommitted, verdict, outcome>>

DrainHasNoTimeout ==
  /\ pc = "drain"
  /\ exec = "over"
  /\ pc' = "gather"
  /\ UNCHANGED <<config, pending, done, task, thread, shared, locals, outcome>>

DrainTimesOut ==
  /\ pc = "drain"
  /\ task["executor"] = "run"
  /\ execState' = "inGame"
  /\ task' = Cancelled({"executor"})
  /\ pc' = "gather"
  /\ UNCHANGED <<config, pending, done, thread, shared, timedOut, phaseOk, signaled,
                 exitCommitted, verdict, outcome>>

GatherDrained ==
  /\ pc = "gather"
  /\ \A t \in Task \ {"shutdown"} : task[t] # "run"
  /\ pending' = {}
  /\ pc' = "judge"
  /\ UNCHANGED <<config, done, task, thread, shared, locals, outcome>>

\* The decisions between the drain and the observation window.
Judgement ==
  IF fatal # None /\ ~signaled THEN fatal
  ELSE IF executorOn /\ TimeoutIsFatal(timedOut) THEN "timeout"
  ELSE IF ~executorOn THEN "ok"
  ELSE IF execState # "inGame" /\ ~signaled THEN "incomplete"
  ELSE IF fatal # None THEN fatal
  ELSE "observe"

Judge ==
  /\ pc = "judge"
  /\ IF Judgement = "observe"
       THEN /\ exitCommitted' = TRUE
            /\ pc' = "observe"
            /\ UNCHANGED <<stopAll, task, outcome>>
       ELSE /\ outcome' = Judgement
            /\ pc' = "returned"
            /\ UNCHANGED <<stopAll, task, exitCommitted>>
  /\ UNCHANGED <<config, pending, done, thread, confirmed, fatal, shutdownReq, expired,
                 inTime, timedOut, phaseOk, signaled, execState, verdict>>

\* confirm_in_game_normal_exit has slept and stopped the game.
EndObserve ==
  /\ pc = "observe"
  /\ stopAll' = TRUE
  /\ task' = Cancelled(monitors)
  /\ outcome' = IF fatal # None THEN fatal ELSE "ok"
  /\ pc' = "returned"
  /\ UNCHANGED <<config, pending, done, thread, confirmed, fatal, shutdownReq, expired,
                 inTime, locals>>

\* asyncio.run cancels what is left and joins the threads of to_thread.
CloseLoop ==
  /\ pc = "returned"
  /\ exec \in {"off", "over"}
  /\ task' = Cancelled(Task)
  /\ pc' = "closed"
  /\ UNCHANGED <<config, pending, done, thread, shared, locals, outcome>>

Coroutine ==
  \/ Start \/ LoopHead \/ WaitReturns \/ WaitTimesOut
  \/ \E t \in done : HandleQuiet(t) \/ HandleError(t) \/ HandleRaise(t)
  \/ HandleExecutor \/ JoinSession \/ ReturnVerdict
  \/ LeaveLoop \/ BranchTimeout \/ BranchNeither \/ BranchDrain
  \/ TimeoutJoined
  \/ DrainExecutor \/ GatherDrained \/ Judge \/ EndObserve

-----------------------------------------------------------------------------
(* The environment.                                                        *)

RequestShutdown ==
  /\ ~shutdownReq /\ pc # "closed"
  /\ shutdownReq' = TRUE
  /\ UNCHANGED <<config, pc, pending, done, task, thread, confirmed, fatal, stopAll,
                 expired, inTime, locals, outcome>>

DeadlinePasses ==
  /\ ~expired /\ pc \notin {"start", "returned", "closed"}
  /\ expired' = TRUE
  /\ UNCHANGED <<config, pc, pending, done, task, thread, confirmed, fatal, stopAll,
                 shutdownReq, inTime, locals, outcome>>

Terminated == pc = "closed" /\ UNCHANGED vars

Next ==
  \/ Coroutine \/ DrainTimesOut \/ CloseLoop
  \/ ConfirmInGame \/ (\E r \in {"inGame", "failed", "raised"} : EndExecutor(r))
  \/ DeliverExecutor \/ WatchShutdown
  \/ \E end \in {"ok", "err", "raised"} :
       WatchSession(end) \/ (\E m \in monitors : Monitoring(m, end))
  \/ RequestShutdown \/ DeadlinePasses
  \/ Terminated

Spec == Init /\ [][Next]_vars

\* The loop keeps scheduling, sleeps end.  Nothing makes the executor thread
\* finish: an adb or model call may hang.  Nothing makes the deadline pass:
\* game.timeout_s may be hours away.
LoopFairness ==
  /\ WF_vars(Coroutine) /\ WF_vars(DrainTimesOut) /\ WF_vars(DeliverExecutor)
  /\ WF_vars(WatchShutdown)

FairSpec == Spec /\ LoopFairness
-----------------------------------------------------------------------------
(* Properties.                                                             *)

Returned == pc \in {"returned", "closed"}

\* A phase that ran and returned None: check_in_game did confirm, no task
\* recorded a fatal reason, before or after the confirmation, the normal exit
\* was committed and everyone was told to stop.
SuccessIsClean ==
  Returned /\ outcome = "ok"
    => confirmed /\ fatal = None /\ exitCommitted /\ stopAll

\* Whoever confirmed before the deadline is not failed by the deadline,
\* however long the executor then takes to end (README, "timeout_s"): only a
\* monitor, the session limit, an interrupt or an exception fails it.
InTimeIsNoTimeout ==
  Returned /\ inTime
    => outcome \in {"ok", "raised", "shutdown", "session"} \cup Monitor

\* When the coroutine returns by itself, none of its tasks is still running
\* and an executor thread that outlives it has been told to stop.
NothingLeftRunning ==
  Returned /\ outcome # "raised"
    => /\ \A t \in AnyTask : task[t] # "run"
       /\ exec \in {"run", "inGame"} => stopAll

\* What is reported is what was recorded first: a monitor's reason is never
\* replaced by a later one, or by the timeout, on its way out.
ReportsFirstReason ==
  [][/\ fatal # None => fatal' = fatal
     /\ outcome = None /\ outcome' \in Reason => outcome' = fatal']_vars

\* The deadline ends a phase, whatever the executor thread does, and so does
\* Ctrl+C, without help from the deadline.
PhaseEnds == expired \/ shutdownReq ~> Returned
=============================================================================
