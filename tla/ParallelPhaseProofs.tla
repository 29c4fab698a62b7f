------------------------ MODULE ParallelPhaseProofs ------------------------
(***************************************************************************)
(* Proofs about ParallelPhase, for any set of monitors and every           *)
(* configuration.  The inductive invariant says what each place of the     *)
(* coroutine may rely on: what has been recorded, who has been told to     *)
(* stop, and how the local snapshots relate to the shared state.           *)
(***************************************************************************)
EXTENDS ParallelPhase, TLAPS

\* Every error except the session's has recorded a reason by itself, every
\* other end of a monitor means that the stop was ordered.
TaskInv ==
  /\ \A t \in AnyTask \ {"session"} : task[t] = "err" => fatal # None
  /\ \A t \in AnyTask \ {"executor"} : task[t] = "ok" => stopAll
  /\ task["shutdown"] # "raised"
  /\ task["executor"] = "ok" => exec = "over" /\ execResult # "raised"
  /\ \A t \in AnyTask : task[t] = "run" => t \in Task /\ pc # "start"

\* The executor thread, its result and the signal it gives.
ThreadInv ==
  /\ exec \in {"off", "run"} => ~confirmed
  /\ (exec = "inGame" \/ execResult = "inGame") => confirmed
  /\ execResult = "failed" => ~confirmed /\ exec = "over"
  /\ inTime => confirmed
  /\ ~executorOn => exec = "off"
  /\ exec = "over" <=> execResult # None
  /\ pc = "start" => exec = "off" /\ outcome = None

\* While the loop runs: a stop has a recorded reason, and the shutdown
\* watcher leaves the loop's sets only together with one.
LoopInv ==
  /\ stopAll /\ pc \in {"start", "head", "wait", "handle", "join", "leave"}
       => fatal # None
  /\ pc \in {"head", "wait", "handle"} /\ "shutdown" \notin pending \cup done
       => fatal # None
  /\ pc \in {"start", "head", "wait"} => done = {}
  /\ pc \in {"start", "head", "wait", "handle"} => ~phaseOk /\ execState = None
  /\ pc = "handle" => done # {} /\ \A t \in done : task[t] # "run"
  /\ pc = "wait" => pending # {}
  /\ pc = "join" => phaseOk /\ execState = "inGame"
                    /\ task["session"] # "run" /\ task["executor"] # "run"

\* The locals against the shared state: a deadline is noticed only when the
\* executor has not confirmed in time.
LocalInv ==
  /\ timedOut => expired /\ ~inTime
  /\ fatal = "timeout" => expired /\ ~inTime
  /\ signaled => confirmed
  /\ execState = "inGame" => confirmed /\ executorOn
  /\ phaseOk => confirmed
  /\ phaseOk /\ pc \notin {"start", "head", "wait", "handle", "join", "leave"}
       => signaled \/ execState = "inGame"
  /\ pc = "leave" /\ ~phaseOk /\ pending # {} => expired
  /\ pc \in {"leave", "branch"} /\ ~phaseOk /\ pending = {} => fatal # None
  /\ pc = "branch" /\ ~phaseOk /\ pending # {} => expired /\ ~inTime
  /\ pc = "branch" /\ signaled => phaseOk
  /\ pc \in {"leave", "branch"} /\ execState = "inGame" => phaseOk
  /\ pc \in {"drain", "gather", "observe"} => signaled \/ execState = "inGame"
  /\ pc = "drain" => executorOn /\ signaled
  /\ pc = "timeout" => fatal # None
  /\ pc = "judge" => fatal # None \/ signaled \/ execState = "inGame"

\* What the coroutine is about to return, and what it has returned.
ReturnInv ==
  /\ pc = "cancel" => verdict = "executor" \/ fatal # None
  /\ verdict = "executor" => execResult = "failed"
  /\ pc = "observe" => exitCommitted /\ stopAll
  /\ outcome = "executor" => execResult = "failed"
  /\ outcome \in {"skipped", "probe", "E1009"} => exec = "off"
  /\ outcome # "incomplete"
  /\ outcome = "timeout" => expired /\ ~inTime
  /\ outcome = "ok" => confirmed /\ fatal = None /\ exitCommitted /\ stopAll

\* Who may still be running where.
RunningInv ==
  /\ pc \in {"head", "wait", "handle", "leave", "branch"} =>
       \A t \in AnyTask : task[t] = "run" => t \in pending
  /\ pc = "join" =>
       \A t \in AnyTask : task[t] = "run" => t \in pending \ {"executor", "session"}
  /\ pc \in {"cancel", "timeout", "judge", "observe"} =>
       stopAll /\ \A t \in AnyTask : task[t] # "run"
  /\ pc \in {"drain", "gather"} =>
       stopAll /\ \A t \in AnyTask \ {"executor"} : task[t] # "run"
  /\ pc \in {"leave", "branch"} /\ pending = {} => stopAll
  /\ pc = "join" /\ "shutdown" \notin pending => stopAll
  /\ pc \in {"head", "wait", "handle"} => task["shutdown"] \in {"run", "ok", "err"}
  /\ task["shutdown"] \in {"ok", "err"} => stopAll
  /\ pc \in {"returned", "closed"} /\ outcome # "raised" =>
       /\ \A t \in AnyTask : task[t] # "run"
       /\ exec \in {"run", "inGame"} => stopAll

Inv == TypeOK /\ TaskInv /\ ThreadInv /\ LoopInv /\ LocalInv /\ ReturnInv /\ RunningInv

TaskState == {"absent", "run", "ok", "err", "raised", "cancelled"}
-----------------------------------------------------------------------------
(* Each part of the invariant is preserved: one step per action, actions that  *)
(* touch nothing the part speaks of taken together.                            *)

\* Every step keeps every variable in its type.
LEMMA TypeOKStep ==
  ASSUME TypeOK, ReturnInv, [Next]_vars
  PROVE  TypeOK'
<1> USE MonitorAssumption DEF AnyTask, None, config, thread, shared, locals
<1>1. CASE Start
  <2>1. task' \in [AnyTask -> TaskState]
    BY <1>1 DEF TypeOK, TaskState, Start
  <2>2. Task' = Task
    BY <1>1 DEF Start, Task
  <2>3. outcome' \in Outcome /\ pc' \in PC /\ (outcome' = None <=> pc' \notin {"returned", "closed"})
    BY <1>1 DEF TypeOK, Start, Outcome, PC
  <2>. QED
    BY <1>1, <2>1, <2>2, <2>3 DEF TypeOK, TaskState, Start
<1>2. CASE LoopHead
  BY <1>2 DEF TypeOK, LoopHead, PC, Task
<1>3. CASE WaitReturns
  <2>1. Task' = Task /\ Finished \subseteq Task
    BY <1>3 DEF TypeOK, WaitReturns, Finished, Task
  <2>. QED
    BY <1>3, <2>1 DEF TypeOK, WaitReturns, PC
<1>4. CASE WaitTimesOut
  BY <1>4 DEF TypeOK, PC, Task, WaitTimesOut
<1>5. CASE \E t \in done : HandleQuiet(t)
  BY <1>5 DEF TypeOK, HandleQuiet, PC, Task
<1>6. CASE \E t \in done : HandleError(t)
  BY <1>6 DEF TypeOK, CancelPending, Cancelled, FirstReason, HandleError, PC,
              Reason, Task
<1>7. CASE \E t \in done : HandleRaise(t)
  BY <1>7 DEF TypeOK, HandleRaise, Outcome, PC, Task
<1>8. CASE HandleExecutor
  <2>1. task' \in [AnyTask -> TaskState]
    BY <1>8 DEF TypeOK, TaskState, HandleExecutor, CancelPending, Cancelled
  <2>2. Task' = Task
    BY <1>8 DEF HandleExecutor, Task
  <2>3. CASE execResult = "inGame"
    BY <1>8, <2>1, <2>2, <2>3 DEF TypeOK, TaskState, HandleExecutor, PC
  <2>4. CASE execResult = "failed"
    BY <1>8, <2>1, <2>2, <2>4 DEF TypeOK, TaskState, HandleExecutor, CancelPending, PC
  <2>. QED
    BY <1>8, <2>3, <2>4 DEF HandleExecutor
<1>9. CASE JoinSession
  BY <1>9 DEF TypeOK, JoinSession, PC, Task
<1>10. CASE ReturnVerdict
  BY <1>10 DEF ReturnInv, TypeOK, Outcome, PC, ReturnVerdict, Task
<1>11. CASE LeaveLoop
  BY <1>11 DEF TypeOK, LeaveLoop, PC, Task
<1>12. CASE BranchTimeout
  BY <1>12 DEF TypeOK, BranchTimeout, CancelPending, Cancelled, FirstReason, PC,
               Reason, SignalFatal, Task
<1>13. CASE BranchNeither
  BY <1>13 DEF TypeOK, BranchNeither, PC, Task
<1>14. CASE BranchDrain
  BY <1>14 DEF TypeOK, BranchDrain, Cancelled, PC, Task
<1>15. CASE TimeoutJoined
  BY <1>15 DEF TypeOK, PC, Task, TimeoutJoined
<1>16. CASE DrainExecutor
  BY <1>16 DEF TypeOK, DrainExecutor, PC, Task
<1>17. CASE DrainTimesOut
  BY <1>17 DEF TypeOK, Cancelled, DrainTimesOut, PC, Task
<1>18. CASE GatherDrained
  BY <1>18 DEF TypeOK, GatherDrained, PC, Task
<1>19. CASE Judge
  <2>1. Judgement \in Reason \cup Outcome \cup {"observe"} /\ Judgement # None
    BY DEF TypeOK, Judgement, Reason, Outcome
  <2>2. Task' = Task
    BY <1>19 DEF Judge, Task
  <2>3. CASE Judgement = "observe"
    BY <1>19, <2>2, <2>3 DEF TypeOK, Judge, PC
  <2>4. CASE Judgement # "observe"
    BY <1>19, <2>1, <2>2, <2>4 DEF TypeOK, Judge, PC
  <2>. QED
    BY <2>3, <2>4
<1>20. CASE EndObserve
  BY <1>20 DEF TypeOK, Cancelled, EndObserve, Outcome, PC, Task
<1>21. CASE CloseLoop
  BY <1>21 DEF TypeOK, Cancelled, CloseLoop, PC, Task
<1>22. CASE ConfirmInGame
  BY <1>22 DEF TypeOK, ConfirmInGame, Task
<1>23. CASE \E r \in {"inGame", "failed", "raised"} : EndExecutor(r)
  BY <1>23 DEF TypeOK, EndExecutor, Task
<1>24. CASE DeliverExecutor
  BY <1>24 DEF TypeOK, DeliverExecutor, Task
<1>25. CASE WatchShutdown
  <2>1. task' \in [AnyTask -> TaskState]
    BY <1>25 DEF TypeOK, TaskState, WatchShutdown
  <2>2. Task' = Task
    BY <1>25 DEF WatchShutdown, Task
  <2>3. fatal' \in Reason \cup {None} /\ stopAll' \in BOOLEAN
    BY <1>25 DEF TypeOK, WatchShutdown, SignalFatal, FirstReason, Reason
  <2>. QED
    BY <1>25, <2>1, <2>2, <2>3 DEF TypeOK, TaskState, WatchShutdown
<1>26. CASE \E end \in {"ok", "err", "raised"} : WatchSession(end)
  BY <1>26 DEF TypeOK, Task, WatchSession
<1>27. CASE \E end \in {"ok", "err", "raised"} : \E m \in monitors : Monitoring(m, end)
  <2>. SUFFICES ASSUME NEW end \in {"ok", "err", "raised"}, NEW m \in monitors,
                      Monitoring(m, end)
               PROVE  TypeOK'
    BY <1>27
  <2>1. task' \in [AnyTask -> TaskState]
    BY DEF TypeOK, TaskState, Monitoring
  <2>2. Task' = Task
    BY DEF Monitoring, Task
  <2>3. fatal' \in Reason \cup {None} /\ stopAll' \in BOOLEAN
    BY DEF TypeOK, Monitoring, SignalFatal, FirstReason, Reason
  <2>. QED
    BY <2>1, <2>2, <2>3 DEF TypeOK, TaskState, Monitoring
<1>28. CASE RequestShutdown
  BY <1>28 DEF TypeOK, Task, PC, RequestShutdown
<1>29. CASE DeadlinePasses
  BY <1>29 DEF TypeOK, Task, PC, DeadlinePasses
<1>30. CASE UNCHANGED vars
  BY <1>30 DEF TypeOK, Task, vars
<1>. QED
  BY <1>1, <1>2, <1>3, <1>4, <1>5, <1>6, <1>7, <1>8, <1>9, <1>10, <1>11, <1>12,
     <1>13, <1>14, <1>15, <1>16, <1>17, <1>18, <1>19, <1>20, <1>21, <1>22, <1>23,
     <1>24, <1>25, <1>26, <1>27, <1>28, <1>29, <1>30
     DEF Next, Coroutine, Terminated

\* Every step keeps the bookkeeping of the tasks: who ends with an error has recorded it.
LEMMA TaskInvStep ==
  ASSUME TypeOK, TaskInv, [Next]_vars
  PROVE  TaskInv'
<1> USE MonitorAssumption DEF AnyTask, None, config, thread, shared, locals
<1>1. CASE \E t \in done : HandleQuiet(t)
  BY <1>1 DEF TaskInv, HandleQuiet, Task
<1>2. CASE \E t \in done : HandleError(t)
  BY <1>2 DEF TaskInv, CancelPending, Cancelled, FirstReason, HandleError
<1>3. CASE \E t \in done : HandleRaise(t)
  BY <1>3 DEF TaskInv, HandleRaise, Task
<1>4. CASE BranchTimeout
  BY <1>4 DEF TaskInv, BranchTimeout, CancelPending, Cancelled, FirstReason,
              SignalFatal
<1>5. CASE CloseLoop
  BY <1>5 DEF TaskInv, Cancelled, CloseLoop
<1>6. CASE ConfirmInGame
  BY <1>6 DEF TaskInv, ConfirmInGame, Task
<1>7. CASE \E r \in {"inGame", "failed", "raised"} : EndExecutor(r)
  BY <1>7 DEF TaskInv, EndExecutor, Task
<1>8. CASE DeliverExecutor
  BY <1>8 DEF TaskInv, DeliverExecutor, Task
<1>9. CASE WatchShutdown
  BY <1>9 DEF TaskInv, TypeOK, FirstReason, SignalFatal, Task, WatchShutdown
<1>10. CASE \E end \in {"ok", "err", "raised"} : WatchSession(end)
  BY <1>10 DEF TaskInv, Task, WatchSession
<1>11. CASE \E end \in {"ok", "err", "raised"} : \E m \in monitors : Monitoring(m, end)
  BY <1>11 DEF TaskInv, TypeOK, FirstReason, Monitoring, Outcome, SignalFatal, Task
<1>12. CASE Start \/ LoopHead \/ WaitReturns \/ WaitTimesOut \/ HandleExecutor
  BY <1>12 DEF TaskInv, CancelPending, Cancelled, HandleExecutor, LoopHead, Start,
               Task, WaitReturns, WaitTimesOut
<1>13. CASE \/ JoinSession \/ ReturnVerdict \/ LeaveLoop
          \/ BranchNeither \/ BranchDrain
  BY <1>13 DEF TaskInv, BranchDrain, BranchNeither, Cancelled, JoinSession,
               LeaveLoop, ReturnVerdict, Task
<1>14. CASE \/ TimeoutJoined \/ DrainExecutor \/ DrainTimesOut
          \/ GatherDrained \/ Judge
  BY <1>14 DEF TaskInv, Cancelled, DrainExecutor, DrainTimesOut, GatherDrained,
               Judge, Task, TimeoutJoined
<1>15. CASE EndObserve
  BY <1>15 DEF TaskInv, Cancelled, EndObserve, Task
<1>16. CASE RequestShutdown \/ DeadlinePasses
  BY <1>16 DEF TaskInv, Task, RequestShutdown, DeadlinePasses
<1>17. CASE UNCHANGED vars
  BY <1>17 DEF TaskInv, Task, vars
<1>. QED
  BY <1>1, <1>2, <1>3, <1>4, <1>5, <1>6, <1>7, <1>8, <1>9, <1>10, <1>11, <1>12,
     <1>13, <1>14, <1>15, <1>16, <1>17
     DEF Next, Coroutine, Terminated

\* Every step keeps what the executor thread and its signal say about each other.
LEMMA ThreadInvStep ==
  ASSUME ThreadInv, [Next]_vars
  PROVE  ThreadInv'
<1> USE MonitorAssumption DEF AnyTask, None, config, thread, shared, locals
<1>1. CASE \E t \in done : HandleQuiet(t)
  BY <1>1 DEF ThreadInv, HandleQuiet
<1>2. CASE \E t \in done : HandleError(t)
  BY <1>2 DEF ThreadInv, CancelPending, FirstReason, HandleError, PC
<1>3. CASE \E t \in done : HandleRaise(t)
  BY <1>3 DEF ThreadInv, HandleRaise
<1>4. CASE CloseLoop
  BY <1>4 DEF ThreadInv, CloseLoop
<1>5. CASE ConfirmInGame
  BY <1>5 DEF ThreadInv, ConfirmInGame
<1>6. CASE \E r \in {"inGame", "failed", "raised"} : EndExecutor(r)
  BY <1>6 DEF ThreadInv, EndExecutor
<1>7. CASE DeliverExecutor
  BY <1>7 DEF ThreadInv, DeliverExecutor
<1>8. CASE \E end \in {"ok", "err", "raised"} : WatchSession(end)
  BY <1>8 DEF ThreadInv, WatchSession
<1>9. CASE \E end \in {"ok", "err", "raised"} : \E m \in monitors : Monitoring(m, end)
  BY <1>9 DEF ThreadInv, Monitoring
<1>10. CASE Start \/ LoopHead \/ WaitReturns \/ WaitTimesOut \/ HandleExecutor
  BY <1>10 DEF ThreadInv, CancelPending, HandleExecutor, LoopHead, Start,
               WaitReturns, WaitTimesOut
<1>11. CASE \/ JoinSession \/ ReturnVerdict \/ LeaveLoop
          \/ BranchTimeout \/ BranchNeither
  BY <1>11 DEF ThreadInv, BranchNeither, BranchTimeout, CancelPending, JoinSession,
               LeaveLoop, ReturnVerdict
<1>12. CASE \/ BranchDrain \/ TimeoutJoined \/ DrainExecutor
          \/ DrainTimesOut \/ GatherDrained
  BY <1>12 DEF ThreadInv, BranchDrain, DrainExecutor, DrainTimesOut, GatherDrained,
               TimeoutJoined
<1>13. CASE Judge \/ EndObserve \/ WatchShutdown
  BY <1>13 DEF ThreadInv, EndObserve, Judge, WatchShutdown
<1>14. CASE RequestShutdown \/ DeadlinePasses
  BY <1>14 DEF ThreadInv, Task, RequestShutdown, DeadlinePasses
<1>15. CASE UNCHANGED vars
  BY <1>15 DEF ThreadInv, Task, vars
<1>. QED
  BY <1>1, <1>2, <1>3, <1>4, <1>5, <1>6, <1>7, <1>8, <1>9, <1>10, <1>11, <1>12,
     <1>13, <1>14, <1>15
     DEF Next, Coroutine, Terminated

\* Every step keeps what the main loop relies on.
LEMMA LoopInvStep ==
  ASSUME TypeOK, TaskInv, ThreadInv, LoopInv, LocalInv, ReturnInv, RunningInv, [Next]_vars
  PROVE  LoopInv'
<1> USE MonitorAssumption DEF AnyTask, None, config, thread, shared, locals
<1>1. CASE LoopHead
  BY <1>1 DEF LocalInv, LoopInv, ReturnInv, RunningInv, TaskInv, ThreadInv, TypeOK,
              LoopHead, Outcome, Reason, Task
<1>2. CASE \E t \in done : HandleQuiet(t)
  BY <1>2 DEF LoopInv, RunningInv, HandleQuiet
<1>3. CASE \E t \in done : HandleError(t)
  BY <1>3 DEF LoopInv, CancelPending, HandleError
<1>4. CASE \E t \in done : HandleRaise(t)
  BY <1>4 DEF LoopInv, HandleRaise
<1>5. CASE CloseLoop
  BY <1>5 DEF LoopInv, CloseLoop
<1>6. CASE ConfirmInGame
  BY <1>6 DEF LoopInv, ConfirmInGame
<1>7. CASE \E r \in {"inGame", "failed", "raised"} : EndExecutor(r)
  BY <1>7 DEF LoopInv, EndExecutor
<1>8. CASE DeliverExecutor
  BY <1>8 DEF LoopInv, DeliverExecutor
<1>9. CASE WatchShutdown
  BY <1>9 DEF LoopInv, TypeOK, Awaiting, FirstReason, SignalFatal, WatchShutdown
<1>10. CASE \E end \in {"ok", "err", "raised"} : WatchSession(end)
  BY <1>10 DEF LoopInv, WatchSession
<1>11. CASE \E end \in {"ok", "err", "raised"} : \E m \in monitors : Monitoring(m, end)
  BY <1>11 DEF LoopInv, TypeOK, FirstReason, Monitoring, Outcome, SignalFatal
<1>12. CASE Start \/ WaitReturns \/ WaitTimesOut \/ HandleExecutor \/ JoinSession
  BY <1>12 DEF LoopInv, CancelPending, Cancelled, Finished, HandleExecutor,
               JoinSession, PC, Start, Task, WaitReturns, WaitTimesOut
<1>13. CASE \/ ReturnVerdict \/ LeaveLoop \/ BranchTimeout
          \/ BranchNeither \/ BranchDrain
  BY <1>13 DEF LoopInv, BranchDrain, BranchNeither, BranchTimeout, CancelPending,
               LeaveLoop, ReturnVerdict
<1>14. CASE \/ TimeoutJoined \/ DrainExecutor \/ DrainTimesOut
          \/ GatherDrained \/ Judge
  BY <1>14 DEF LoopInv, DrainExecutor, DrainTimesOut, GatherDrained, Judge,
               TimeoutJoined
<1>15. CASE EndObserve
  BY <1>15 DEF LoopInv, EndObserve
<1>16. CASE RequestShutdown
  BY <1>16 DEF LoopInv, RequestShutdown
<1>17. CASE DeadlinePasses
  BY <1>17 DEF LoopInv, DeadlinePasses
<1>18. CASE UNCHANGED vars
  BY <1>18 DEF LoopInv, Task, vars
<1>. QED
  BY <1>1, <1>2, <1>3, <1>4, <1>5, <1>6, <1>7, <1>8, <1>9, <1>10, <1>11, <1>12,
     <1>13, <1>14, <1>15, <1>16, <1>17, <1>18
     DEF Next, Coroutine, Terminated

\* Every step keeps the locals of the coroutine consistent with the shared state.
LEMMA LocalInvStep ==
  ASSUME TypeOK, ThreadInv, LoopInv, LocalInv, [Next]_vars
  PROVE  LocalInv'
<1> USE MonitorAssumption DEF AnyTask, None, config, thread, shared, locals
<1>1. CASE Start
  BY <1>1 DEF LocalInv, LoopInv, Start
<1>2. CASE LoopHead
  BY <1>2 DEF LocalInv, LoopInv, LoopHead
<1>3. CASE WaitTimesOut
  BY <1>3 DEF LocalInv, LoopInv, ThreadInv, WaitTimesOut
<1>4. CASE \E t \in done : HandleQuiet(t)
  BY <1>4 DEF LocalInv, HandleQuiet
<1>5. CASE \E t \in done : HandleError(t)
  BY <1>5 DEF LocalInv, LoopInv, CancelPending, FirstReason, HandleError
<1>6. CASE \E t \in done : HandleRaise(t)
  BY <1>6 DEF LocalInv, LoopInv, HandleRaise, PC
<1>7. CASE HandleExecutor
  BY <1>7 DEF LocalInv, ThreadInv, CancelPending, HandleExecutor
<1>8. CASE JoinSession
  BY <1>8 DEF LocalInv, LoopInv, JoinSession
<1>9. CASE LeaveLoop
  BY <1>9 DEF LocalInv, ThreadInv, LeaveLoop
<1>10. CASE BranchTimeout
  BY <1>10 DEF LocalInv, BranchTimeout, CancelPending, FirstReason, SignalFatal,
               TimeoutIsFatal
<1>11. CASE BranchNeither
  BY <1>11 DEF LocalInv, BranchNeither, TimeoutIsFatal
<1>12. CASE Judge
  BY <1>12 DEF LocalInv, TypeOK, Judge, Judgement, Reason
<1>13. CASE CloseLoop
  BY <1>13 DEF LocalInv, CloseLoop
<1>14. CASE ConfirmInGame
  BY <1>14 DEF LocalInv, ConfirmInGame
<1>15. CASE \E r \in {"inGame", "failed", "raised"} : EndExecutor(r)
  BY <1>15 DEF LocalInv, EndExecutor
<1>16. CASE DeliverExecutor
  BY <1>16 DEF LocalInv, DeliverExecutor
<1>17. CASE WatchShutdown
  BY <1>17 DEF LocalInv, FirstReason, SignalFatal, WatchShutdown
<1>18. CASE \E end \in {"ok", "err", "raised"} : WatchSession(end)
  BY <1>18 DEF LocalInv, WatchSession
<1>19. CASE \E end \in {"ok", "err", "raised"} : \E m \in monitors : Monitoring(m, end)
  BY <1>19 DEF LocalInv, TypeOK, FirstReason, Monitoring, SignalFatal
<1>20. CASE \/ WaitReturns \/ ReturnVerdict \/ BranchDrain
          \/ TimeoutJoined \/ DrainExecutor
  BY <1>20 DEF LocalInv, BranchDrain, DrainExecutor, ReturnVerdict, TimeoutJoined,
               WaitReturns
<1>21. CASE DrainTimesOut \/ GatherDrained \/ EndObserve
  BY <1>21 DEF LocalInv, DrainTimesOut, EndObserve, GatherDrained
<1>22. CASE RequestShutdown
  BY <1>22 DEF LocalInv, RequestShutdown
<1>23. CASE DeadlinePasses
  BY <1>23 DEF LocalInv, DeadlinePasses
<1>24. CASE UNCHANGED vars
  BY <1>24 DEF LocalInv, Task, vars
<1>. QED
  BY <1>1, <1>2, <1>3, <1>4, <1>5, <1>6, <1>7, <1>8, <1>9, <1>10, <1>11, <1>12,
     <1>13, <1>14, <1>15, <1>16, <1>17, <1>18, <1>19, <1>20, <1>21, <1>22, <1>23,
     <1>24
     DEF Next, Coroutine, Terminated

\* Every step keeps what the coroutine returns justified.
LEMMA ReturnInvStep ==
  ASSUME TypeOK, TaskInv, ThreadInv, LocalInv, ReturnInv, RunningInv, [Next]_vars
  PROVE  ReturnInv'
<1> USE MonitorAssumption DEF AnyTask, None, config, thread, shared, locals
<1>1. CASE Start
  BY <1>1 DEF ReturnInv, ThreadInv, Start
<1>2. CASE \E t \in done : HandleQuiet(t)
  BY <1>2 DEF ReturnInv, HandleQuiet
<1>3. CASE \E t \in done : HandleError(t)
  BY <1>3 DEF ReturnInv, TaskInv, TypeOK, CancelPending, FirstReason, HandleError,
              Task
<1>4. CASE \E t \in done : HandleRaise(t)
  BY <1>4 DEF ReturnInv, HandleRaise
<1>5. CASE ReturnVerdict
  BY <1>5 DEF LocalInv, ReturnInv, TypeOK, Outcome, Reason, ReturnVerdict
<1>6. CASE BranchTimeout
  BY <1>6 DEF ReturnInv, TypeOK, BranchTimeout, CancelPending
<1>7. CASE Judge
  <2>1. CASE Judgement = "observe"
    BY <1>7, <2>1 DEF ReturnInv, RunningInv, Judge
  <2>2. CASE Judgement # "observe"
    <3>1. Judgement \in Reason \cup {"ok", "incomplete"}
      BY <2>2 DEF TypeOK, Judgement, Reason
    <3>2. Judgement # "incomplete"
      BY <1>7 DEF TypeOK, LocalInv, MonitorAssumption, Judgement, Outcome, Judge, Reason
    <3>3. Judgement # "ok"
      BY <1>7, <3>1 DEF TypeOK, LocalInv, ThreadInv, MonitorAssumption, Judgement, Outcome,
                        Judge, Reason
    <3>4. Judgement = "timeout" => expired /\ ~inTime
      BY DEF TypeOK, LocalInv, Judgement, TimeoutIsFatal
    <3>5. Reason \cap {"ok", "executor", "skipped", "probe", "E1009", "incomplete"} = {}
      BY DEF MonitorAssumption, Reason, Outcome
    <3>6. /\ outcome' = Judgement /\ pc' = "returned"
          /\ UNCHANGED <<verdict, fatal, exec, execResult, expired, inTime>>
      BY <1>7, <2>2 DEF Judge
    <3>. QED
      BY <3>1, <3>2, <3>3, <3>4, <3>5, <3>6 DEF ReturnInv
  <2>. QED
    BY <2>1, <2>2
<1>8. CASE EndObserve
  BY <1>8 DEF LocalInv, ReturnInv, TypeOK, EndObserve, Outcome, Reason
<1>9. CASE CloseLoop
  BY <1>9 DEF ReturnInv, CloseLoop
<1>10. CASE ConfirmInGame
  BY <1>10 DEF ReturnInv, ConfirmInGame
<1>11. CASE \E r \in {"inGame", "failed", "raised"} : EndExecutor(r)
  BY <1>11 DEF ReturnInv, ThreadInv, EndExecutor
<1>12. CASE DeliverExecutor
  BY <1>12 DEF ReturnInv, DeliverExecutor
<1>13. CASE WatchShutdown
  BY <1>13 DEF ReturnInv, FirstReason, SignalFatal, WatchShutdown
<1>14. CASE \E end \in {"ok", "err", "raised"} : WatchSession(end)
  BY <1>14 DEF ReturnInv, WatchSession
<1>15. CASE \E end \in {"ok", "err", "raised"} : \E m \in monitors : Monitoring(m, end)
  BY <1>15 DEF ReturnInv, TypeOK, Awaiting, FirstReason, Monitoring, SignalFatal
<1>16. CASE \/ LoopHead \/ WaitReturns \/ WaitTimesOut
          \/ HandleExecutor \/ JoinSession
  BY <1>16 DEF ReturnInv, CancelPending, HandleExecutor, JoinSession, LoopHead,
               WaitReturns, WaitTimesOut
<1>17. CASE \/ LeaveLoop \/ BranchNeither \/ BranchDrain
          \/ TimeoutJoined \/ DrainExecutor
  BY <1>17 DEF ReturnInv, BranchDrain, BranchNeither, DrainExecutor, LeaveLoop,
               TimeoutJoined
<1>18. CASE DrainTimesOut \/ GatherDrained
  BY <1>18 DEF ReturnInv, DrainTimesOut, GatherDrained
<1>19. CASE RequestShutdown \/ DeadlinePasses
  BY <1>19 DEF ReturnInv, Task, RequestShutdown, DeadlinePasses
<1>20. CASE UNCHANGED vars
  BY <1>20 DEF ReturnInv, Task, vars
<1>. QED
  BY <1>1, <1>2, <1>3, <1>4, <1>5, <1>6, <1>7, <1>8, <1>9, <1>10, <1>11, <1>12,
     <1>13, <1>14, <1>15, <1>16, <1>17, <1>18, <1>19, <1>20
     DEF Next, Coroutine, Terminated

\* Every step keeps track of who is still running.
LEMMA RunningInvStep ==
  ASSUME TypeOK, TaskInv, ThreadInv, LocalInv, RunningInv, [Next]_vars
  PROVE  RunningInv'
<1> USE MonitorAssumption DEF AnyTask, None, config, thread, shared, locals
<1>1. CASE Start
  BY <1>1 DEF RunningInv, TaskInv, ThreadInv, Start, Task
<1>2. CASE WaitReturns
  <2>1. \A t \in AnyTask : task'[t] = "run" => t \in pending'
    BY <1>2 DEF RunningInv, WaitReturns, Finished
  <2>. QED
    BY <1>2, <2>1 DEF RunningInv, WaitReturns
<1>3. CASE \E t \in done : HandleQuiet(t)
  BY <1>3 DEF RunningInv, HandleQuiet
<1>4. CASE \E t \in done : HandleError(t)
  BY <1>4 DEF RunningInv, TypeOK, CancelPending, Cancelled, HandleError
<1>5. CASE \E t \in done : HandleRaise(t)
  BY <1>5 DEF RunningInv, HandleRaise
<1>6. CASE HandleExecutor
  BY <1>6 DEF RunningInv, TypeOK, CancelPending, Cancelled, HandleExecutor
<1>7. CASE BranchTimeout
  BY <1>7 DEF RunningInv, TypeOK, BranchTimeout, CancelPending, Cancelled,
              SignalFatal
<1>8. CASE BranchNeither
  <2>1. pending = {}
    BY <1>8 DEF TypeOK, LocalInv, BranchNeither, TimeoutIsFatal
  <2>. QED
    BY <1>8, <2>1 DEF RunningInv, BranchNeither
<1>9. CASE BranchDrain
  BY <1>9 DEF RunningInv, TypeOK, BranchDrain, Cancelled
<1>10. CASE GatherDrained
  BY <1>10 DEF LocalInv, RunningInv, ThreadInv, GatherDrained, Task
<1>11. CASE CloseLoop
  BY <1>11 DEF RunningInv, Cancelled, CloseLoop
<1>12. CASE ConfirmInGame
  BY <1>12 DEF RunningInv, ConfirmInGame
<1>13. CASE \E r \in {"inGame", "failed", "raised"} : EndExecutor(r)
  BY <1>13 DEF RunningInv, EndExecutor
<1>14. CASE DeliverExecutor
  BY <1>14 DEF RunningInv, Awaiting, DeliverExecutor
<1>15. CASE WatchShutdown
  BY <1>15 DEF RunningInv, TypeOK, SignalFatal, WatchShutdown
<1>16. CASE \E end \in {"ok", "err", "raised"} : WatchSession(end)
  BY <1>16 DEF RunningInv, Awaiting, WatchSession
<1>17. CASE \E end \in {"ok", "err", "raised"} : \E m \in monitors : Monitoring(m, end)
  BY <1>17 DEF RunningInv, TypeOK, Awaiting, Monitoring, SignalFatal, Task
<1>18. CASE LoopHead \/ WaitTimesOut \/ JoinSession \/ ReturnVerdict \/ LeaveLoop
  BY <1>18 DEF RunningInv, JoinSession, LeaveLoop, LoopHead, ReturnVerdict,
               WaitTimesOut
<1>19. CASE TimeoutJoined \/ DrainExecutor \/ DrainTimesOut \/ Judge \/ EndObserve
  BY <1>19 DEF RunningInv, Cancelled, DrainExecutor, DrainTimesOut, EndObserve,
               Judge, TimeoutJoined
<1>20. CASE RequestShutdown
  BY <1>20 DEF RunningInv, RequestShutdown
<1>21. CASE DeadlinePasses
  BY <1>21 DEF RunningInv, DeadlinePasses
<1>22. CASE UNCHANGED vars
  BY <1>22 DEF RunningInv, Task, vars
<1>. QED
  BY <1>1, <1>2, <1>3, <1>4, <1>5, <1>6, <1>7, <1>8, <1>9, <1>10, <1>11, <1>12,
     <1>13, <1>14, <1>15, <1>16, <1>17, <1>18, <1>19, <1>20, <1>21, <1>22
     DEF Next, Coroutine, Terminated

-----------------------------------------------------------------------------
(* The theorems.                                                            *)

\* The invariant holds in every reachable state.
THEOREM InvAlways == Spec => []Inv
<1>1. Init => Inv
  BY MonitorAssumption
  DEF Init, Inv, TypeOK, TaskInv, ThreadInv, LoopInv, LocalInv, ReturnInv, RunningInv,
      AnyTask, Task, Reason, Outcome, PC, None
<1>2. Inv /\ [Next]_vars => Inv'
  BY TypeOKStep, TaskInvStep, ThreadInvStep, LoopInvStep, LocalInvStep, ReturnInvStep,
     RunningInvStep
  DEF Inv
<1>. QED
  BY <1>1, <1>2, PTL DEF Spec

\* Every variable stays in its type, for any set of monitors.
THEOREM TypeCorrect == Spec => []TypeOK
<1>1. Inv => TypeOK
  BY DEF Inv
<1>. QED
  BY <1>1, InvAlways, PTL

\* A phase that returns None was confirmed in game and recorded no failure.
THEOREM CleanSuccess == Spec => []SuccessIsClean
<1>1. Inv => SuccessIsClean
  BY DEF Inv, ReturnInv, SuccessIsClean
<1>. QED
  BY <1>1, InvAlways, PTL

\* A confirmation before the deadline is never turned into a timeout, nor into
\* an executor failure or a phase that did not run.
THEOREM NoTimeoutInTime == Spec => []InTimeIsNoTimeout
<1>1. ASSUME Inv PROVE InTimeIsNoTimeout
  <2>. SUFFICES ASSUME Returned, inTime
                PROVE  outcome \in {"ok", "raised", "shutdown", "session"} \cup Monitor
    BY DEF InTimeIsNoTimeout
  <2>1. outcome \in (Reason \cup Outcome) \ {None, "timeout", "incomplete"}
    BY <1>1 DEF Inv, TypeOK, ReturnInv, Returned
  <2>2. confirmed
    BY <1>1 DEF Inv, ThreadInv
  <2>3. outcome # "executor"
    BY <1>1, <2>2 DEF Inv, ReturnInv, ThreadInv
  <2>4. outcome \notin {"skipped", "probe", "E1009"}
    BY <1>1, <2>2 DEF Inv, ReturnInv, ThreadInv
  <2>. QED
    BY <2>1, <2>3, <2>4 DEF Reason, Outcome, None
<1>. QED
  BY <1>1, InvAlways, PTL

\* Whatever the coroutine returns, it leaves no task behind and a thread only
\* with the order to stop.
THEOREM CleanReturn == Spec => []NothingLeftRunning
<1>1. Inv => NothingLeftRunning
  BY DEF Inv, RunningInv, NothingLeftRunning, Returned
<1>. QED
  BY <1>1, InvAlways, PTL

\* The first recorded reason stays, and it is the one that is returned.
THEOREM FirstReasonReported == Spec => ReportsFirstReason
<1>. DEFINE A == /\ fatal # None => fatal' = fatal
                 /\ outcome = None /\ outcome' \in Reason => outcome' = fatal'
<1>1. ASSUME Inv, Inv', [Next]_vars PROVE A \/ UNCHANGED vars
  <2>1. fatal # None => fatal' = fatal
    <3>. USE DEF shared, locals, FirstReason, SignalFatal
    <3>1. CASE Coroutine
      BY <3>1
      DEF Coroutine, Start, LoopHead, WaitReturns, WaitTimesOut, HandleQuiet, HandleError,
          HandleRaise, HandleExecutor, JoinSession, ReturnVerdict, LeaveLoop, BranchTimeout,
          BranchNeither, BranchDrain, TimeoutJoined, DrainExecutor, GatherDrained, Judge,
          EndObserve
    <3>2. CASE ~Coroutine
      BY <1>1, <3>2
      DEF Next, DrainTimesOut, CloseLoop, ConfirmInGame, EndExecutor, DeliverExecutor,
          WatchShutdown, WatchSession, Monitoring, RequestShutdown, DeadlinePasses,
          Terminated, vars
    <3>. QED
      BY <3>1, <3>2
  <2>2. ASSUME outcome = None, outcome' \in Reason
        PROVE  outcome' = fatal'
    <3>1. Reason \cap {"ok", "executor", "skipped", "probe", "E1009", "incomplete",
                       "raised", "observe", None} = {}
      BY MonitorAssumption DEF Reason, Outcome, None
    <3>2. \/ Start \/ ReturnVerdict \/ Judge \/ EndObserve
          \/ \E t \in done : HandleRaise(t)
      BY <1>1, <2>2, <3>1
      DEF Next, Coroutine, LoopHead, WaitReturns, WaitTimesOut, HandleQuiet, HandleError,
          HandleExecutor, JoinSession, LeaveLoop, BranchTimeout,
          BranchNeither, BranchDrain, TimeoutJoined, DrainExecutor, GatherDrained,
          DrainTimesOut, CloseLoop, ConfirmInGame, EndExecutor, DeliverExecutor,
          WatchShutdown, WatchSession, Monitoring, RequestShutdown, DeadlinePasses,
          Terminated, vars
    <3>3. CASE Judge
      <4>1. outcome' = Judgement /\ fatal' = fatal
        BY <2>2, <3>1, <3>3 DEF Judge
      <4>2. fatal # None \/ signaled \/ execState = "inGame"
        BY <1>1, <3>3 DEF Inv, LocalInv, Judge
      <4>. QED
        BY <2>2, <3>1, <4>1, <4>2 DEF Judgement, TimeoutIsFatal
    <3>. QED
      BY <2>2, <3>1, <3>2, <3>3
      DEF Start, ReturnVerdict, EndObserve, HandleRaise, shared
  <2>. QED
    BY <2>1, <2>2
<1>2. Inv /\ Inv' /\ [Next]_vars => [A]_vars
  BY <1>1
<1>. QED
  BY <1>2, InvAlways, PTL DEF Spec, ReportsFirstReason
=============================================================================
