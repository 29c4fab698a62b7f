----------------------------- MODULE BatchRunner -----------------------------
(***************************************************************************)
(* A batch: run_batch_orchestrator of controllers/batch_runner.py, its     *)
(* worker threads (one per device), the task queue they share, the batch   *)
(* manifest they all write, the queue's lock file between processes        *)
(* (controllers/task_queue.py) and the two-stage interrupt                 *)
(* (services/shutdown.py, main.py).                                        *)
(*                                                                         *)
(* One attempt to test one game is module AttemptLoop; here it only ends   *)
(* in one of the ways a worker can see.  The manifest is abstracted to the *)
(* set of tasks it shows as finished.                                      *)
(***************************************************************************)
EXTENDS Naturals, FiniteSets

CONSTANTS
  NumTasks,    \* one task per APK url
  DistinctIds, \* whether the second ticks between the creation of two tasks
  Device,      \* the devices that may be connected
  MaxSignals,  \* how often the user interrupts: 0, 1 or 2
  DiskFails,   \* the disks considered: whether writing the manifest may raise OSError
  OtherRunner  \* whether a second runner process shares the output directory

ASSUME BatchAssumption ==
  /\ NumTasks \in Nat \ {0}
  /\ MaxSignals \in 0..2
  /\ DiskFails \subseteq BOOLEAN /\ OtherRunner \in BOOLEAN /\ DistinctIds \in BOOLEAN
  /\ "none" \notin Device

None == "none"
NoTask == 0
Task == 1..NumTasks

VARIABLES
  connected, \* list_connected_devices(), and so the workers
  diskFails, \* whether this disk is one that may fail
  id,        \* [Task -> task_id, the second in which the task was created]
  mpc,       \* where the main thread is
  wpc,       \* [Device -> where its worker thread is]
  cur,       \* [Device -> the task of the worker, or NoTask]
  status,    \* [Task -> ApkTaskStatus; claimed is never seen outside the lock]
  claimedBy, \* [Task -> claimed_by_serial]
  code,      \* [Task -> result_code]
  snap,      \* [Device -> the finished tasks its manifest dump has seen]
  disk,      \* batch_manifest.json
  archived,  \* the copy the deliverables got, absent before the archiving
  lockFile,  \* .task_queue.lock: None, "me" or "other"
  other,     \* the other runner: out, in (consuming the queue) or dead
  signals,   \* interrupts so far; the first sets the ShutdownContext
  interrupted, \* the local of that name
  exitCode   \* None, 0, 1, 130; "locked" and "raised" end in a traceback

workers == <<wpc, cur, snap>>
queue == <<status, claimedBy, code>>
files == <<disk, archived>>
locking == <<lockFile, other>>
main == <<mpc, interrupted, exitCode>>
given == <<connected, diskFails, id>>
vars == <<given, workers, queue, files, locking, main, signals>>

Shutdown == signals > 0
Finished == {t \in Task : status[t] \in {"succeeded", "failed"}}
Pending == {t \in Task : status[t] = "pending"}

\* The tasks are created one after the other, often in one second.
TaskIds ==
  {f \in [Task -> Task] :
     /\ f[1] = 1
     /\ \A t \in Task \ {1} : f[t] \in {f[t - 1], f[t - 1] + 1}
     /\ DistinctIds => \A t \in Task : f[t] = t}

\* A manifest file: nothing, or a text and the tasks it shows as finished.
Manifest == [text: {"absent", "empty", "whole", "garbled"}, shows: SUBSET Task]
NoText(t) == [text |-> t, shows |-> {}]
Whole(S) == [text |-> "whole", shows |-> S]

MainPC == {"start", "poll", "join", "final", "cleanup", "exit", "gone"}
WorkerPC == {"unborn", "check", "claim", "run", "open", "write", "ended"}

\* The main thread is inside `with TaskQueueLock(...)`.
InLock == mpc \in {"poll", "join", "final"}

TypeOK ==
  /\ connected \subseteq Device /\ diskFails \in BOOLEAN
  /\ id \in [Task -> Task]
  /\ mpc \in MainPC
  /\ wpc \in [Device -> WorkerPC]
  /\ cur \in [Device -> Task \cup {NoTask}]
  /\ status \in [Task -> {"pending", "running", "succeeded", "failed"}]
  /\ claimedBy \in [Task -> Device \cup {None}]
  /\ code \in [Task -> {None, "0", "1", "130"}]
  /\ snap \in [Device -> SUBSET Task]
  /\ disk \in Manifest /\ archived \in Manifest
  /\ lockFile \in {None, "me", "other"}
  /\ other \in {"out", "in", "dead"}
  /\ signals \in 0..MaxSignals
  /\ interrupted \in BOOLEAN
  /\ exitCode \in {None, "0", "1", "130", "locked", "raised"}
  /\ exitCode # None <=> mpc \in {"exit", "gone"}

Init ==
  /\ connected \in SUBSET Device /\ diskFails \in DiskFails
  /\ id \in TaskIds
  /\ mpc = "start"
  /\ wpc = [d \in Device |-> "unborn"]
  /\ cur = [d \in Device |-> NoTask]
  /\ status = [t \in Task |-> "pending"]
  /\ claimedBy = [t \in Task |-> None]
  /\ code = [t \in Task |-> None]
  /\ snap = [d \in Device |-> {}]
  /\ disk = NoText("absent") /\ archived = NoText("absent")
  /\ lockFile = None /\ other = "out"
  /\ signals = 0 /\ interrupted = FALSE
  /\ exitCode = None

-----------------------------------------------------------------------------
(* The worker threads.                                                     *)

Goto(d, from, to) == wpc[d] = from /\ wpc' = [wpc EXCEPT ![d] = to]

\* `while not is_shutdown_requested()`.
CheckShutdown(d) ==
  /\ Goto(d, "check", IF Shutdown THEN "ended" ELSE "claim")
  /\ UNCHANGED <<given, cur, snap, queue, files, locking, main, signals>>

\* claim_next under the queue's lock: the first PENDING task becomes RUNNING.
TakeFirst(d) ==
  \E t \in Pending :
    /\ \A u \in Pending : t <= u
    /\ Goto(d, "claim", "run")
    /\ cur' = [cur EXCEPT ![d] = t]
    /\ status' = [status EXCEPT ![t] = "running"]
    /\ claimedBy' = [claimedBy EXCEPT ![t] = d]
    /\ UNCHANGED code

ClaimUnlocked(d) ==
  /\ \/ /\ Task = Finished
        /\ Goto(d, "claim", "ended")
        /\ UNCHANGED <<cur, queue>>
     \/ \E t \in Task \ Finished :
        /\ Goto(d, "claim", "run")
        /\ cur' = [cur EXCEPT ![d] = t]
        /\ status' = [status EXCEPT ![t] = "running"]
        /\ claimedBy' = [claimedBy EXCEPT ![t] = d]
        /\ UNCHANGED code
  /\ UNCHANGED <<given, snap, files, locking, main, signals>>

ClaimWaits(d) ==
  /\ TakeFirst(d)
  /\ UNCHANGED <<given, snap, files, locking, main, signals>>

\* The worker's claim_next; None ends the worker.
Claim(d) ==
  /\ \/ TakeFirst(d)
     \/ /\ Pending = {}
        /\ Goto(d, "claim", "ended")
        /\ UNCHANGED <<cur, queue>>
  /\ UNCHANGED <<given, snap, files, locking, main, signals>>

\* The queue's index _by_id holds, of the tasks with one id, the last.
Indexed(t, i) == id[t] = i /\ \A u \in Task : id[u] = i => u <= t

\* mark_finished takes the id of the worker's task.
Mark(d, result) ==
  /\ \E t \in Task :
       /\ Indexed(t, id[cur[d]])
       /\ status' = [status EXCEPT ![t] = IF result = "0" THEN "succeeded" ELSE "failed"]
       /\ code' = [code EXCEPT ![t] = result]
  /\ cur' = [cur EXCEPT ![d] = NoTask]

EndAttemptEndsWorker(d, result) ==
  /\ result \in {"0", "1"}
  /\ Goto(d, "run", IF result = "1" THEN "ended" ELSE "open")
  /\ Mark(d, result)
  /\ snap' = [snap EXCEPT ![d] = Finished']
  /\ UNCHANGED <<given, claimedBy, files, locking, main, signals>>

\* GameTestOrchestrator.run returns 0 or 1, or raises an Exception (marked 1):
\* the worker then dumps the manifest.  The dump reads the tasks one by one
\* while others are marked, so it may miss what ends after this step.
EndAttempt(d, result) ==
  /\ result \in {"0", "1"}
  /\ Goto(d, "run", "open")
  /\ Mark(d, result)
  /\ snap' = [snap EXCEPT ![d] = Finished']
  /\ UNCHANGED <<given, claimedBy, files, locking, main, signals>>

InterruptAttemptUnmarked(d) ==
  /\ Shutdown
  /\ Goto(d, "run", "ended")
  /\ cur' = [cur EXCEPT ![d] = NoTask]
  /\ UNCHANGED <<given, queue, snap, files, locking, main, signals>>

\* ShutdownRequested: marked 130, and the worker returns without a dump.
InterruptAttempt(d) ==
  /\ Shutdown
  /\ Goto(d, "run", "ended")
  /\ Mark(d, "130")
  /\ UNCHANGED <<given, claimedBy, snap, files, locking, main, signals>>

\* open(manifest, "w") truncates; the text was dumped before.
OpenManifest(d) ==
  /\ Goto(d, "open", "write")
  /\ \E seen \in SUBSET Finished :
       /\ snap[d] \subseteq seen
       /\ snap' = [snap EXCEPT ![d] = seen]
  /\ disk' = NoText("empty")
  /\ UNCHANGED <<given, cur, queue, archived, locking, main, signals>>

\* Over a text that another thread wrote after this one's truncation, the
\* tail of a longer text stays.
WriteManifest(d) ==
  /\ Goto(d, "write", "check")
  /\ disk' \in IF disk \in {NoText("empty"), Whole(snap[d])}
                 THEN {Whole(snap[d])}
                 ELSE {Whole(snap[d]), NoText("garbled")}
  /\ UNCHANGED <<given, cur, snap, queue, archived, locking, main, signals>>

\* An OSError of the save is outside the try: the thread dies.
SaveFails(d) ==
  /\ diskFails
  /\ wpc[d] \in {"open", "write"}
  /\ wpc' = [wpc EXCEPT ![d] = "ended"]
  /\ UNCHANGED <<given, cur, snap, queue, files, locking, main, signals>>

WorkerStep(d) ==
  \/ CheckShutdown(d) \/ Claim(d) \/ InterruptAttempt(d)
  \/ (\E r \in {"0", "1"} : EndAttempt(d, r))
  \/ OpenManifest(d) \/ WriteManifest(d) \/ SaveFails(d)

-----------------------------------------------------------------------------
(* The main thread.                                                        *)

Exit(result) == mpc' = "exit" /\ exitCode' = result

NoDevice ==
  /\ mpc = "start" /\ connected = {}
  /\ Exit("1")
  /\ UNCHANGED <<given, workers, queue, files, locking, interrupted, signals>>

Refused ==
  /\ mpc = "start" /\ connected # {}
  /\ lockFile # None
  /\ Exit("locked")
  /\ UNCHANGED <<given, workers, queue, files, locking, interrupted, signals>>

StartBatchAnyway ==
  /\ mpc = "start" /\ connected # {}
  /\ lockFile' = "me"
  /\ disk' = Whole({})
  /\ wpc' = [d \in Device |-> IF d \in connected THEN "check" ELSE "ended"]
  /\ mpc' = "poll"
  /\ UNCHANGED <<given, cur, snap, queue, archived, other, interrupted,
                 exitCode, signals>>

\* O_CREAT | O_EXCL; then the queue, the first manifest and the threads.
StartBatch ==
  /\ mpc = "start" /\ connected # {}
  /\ lockFile = None
  /\ lockFile' = "me"
  /\ disk' = Whole({})
  /\ wpc' = [d \in Device |-> IF d \in connected THEN "check" ELSE "ended"]
  /\ mpc' = "poll"
  /\ UNCHANGED <<given, cur, snap, queue, archived, other, interrupted,
                 exitCode, signals>>

\* The first save, the last save or the archiving raises OSError: `with`
\* releases the lock on the way out.
MainFails ==
  /\ diskFails
  /\ \/ mpc = "start" /\ connected # {} /\ lockFile = None /\ UNCHANGED lockFile
     \/ mpc = "final" /\ lockFile' = None
     \/ mpc = "cleanup" /\ UNCHANGED lockFile
  /\ Exit("raised")
  /\ UNCHANGED <<given, workers, queue, files, other, interrupted, signals>>

Alive == {d \in Device : wpc[d] # "ended"}

\* One round of the join loop: sample the threads, then the shutdown flag.
PollWorkers ==
  /\ mpc = "poll"
  /\ IF Alive = {}
       THEN mpc' = "final" /\ UNCHANGED interrupted
       ELSE mpc' = "join" /\ interrupted' = (interrupted \/ Shutdown)
  /\ UNCHANGED <<given, workers, queue, files, locking, exitCode, signals>>

\* join(timeout=0.5) of every thread that was alive.
JoinTimesOut ==
  /\ mpc = "join"
  /\ mpc' = "poll"
  /\ UNCHANGED <<given, workers, queue, files, locking, interrupted, exitCode,
                 signals>>

FinalizeUnsaved ==
  /\ mpc = "final"
  /\ lockFile' = None
  /\ mpc' = "cleanup"
  /\ UNCHANGED <<given, workers, queue, files, other, interrupted, exitCode,
                 signals>>

\* finalize, save, reset, and the end of `with`.
Finalize ==
  /\ mpc = "final"
  /\ disk' = Whole(Finished)
  /\ lockFile' = None
  /\ mpc' = "cleanup"
  /\ UNCHANGED <<given, workers, queue, archived, other, interrupted, exitCode,
                 signals>>

\* cleanup_batch_workspace archives the manifest and removes the batch
\* directory; then the exit code.
Cleanup ==
  /\ mpc = "cleanup"
  /\ archived' = disk
  /\ disk' = NoText("absent")
  /\ Exit(IF interrupted THEN "130"
          ELSE IF \A t \in Task : status[t] = "succeeded" THEN "0" ELSE "1")
  /\ UNCHANGED <<given, workers, queue, locking, interrupted, signals>>

\* The process goes away, and its daemon threads with it, wherever they are.
\* Until then (atexit still joins the threads of to_thread) they go on.
ProcessDies ==
  /\ mpc = "exit"
  /\ mpc' = "gone"
  /\ wpc' = [d \in Device |-> "ended"]
  /\ UNCHANGED <<given, cur, snap, queue, files, locking, interrupted, exitCode,
                 signals>>

MainStep ==
  \/ NoDevice \/ Refused \/ StartBatch \/ MainFails \/ PollWorkers
  \/ JoinTimesOut \/ Finalize \/ Cleanup \/ ProcessDies

-----------------------------------------------------------------------------
(* The user and the other runner.                                          *)

\* The first SIGINT or SIGTERM: _handle_signal sets the flag.
Interrupt ==
  /\ signals = 0 /\ signals < MaxSignals
  /\ mpc \notin {"exit", "gone"}
  /\ signals' = 1
  /\ UNCHANGED <<given, workers, queue, files, locking, main>>

\* The second: KeyboardInterrupt (the first restored Python's handler) or
\* SystemExit in the main thread; main returns 130 without any finalization.
ForceExit ==
  /\ signals = 1 /\ signals < MaxSignals
  /\ mpc \notin {"exit", "gone"}
  /\ signals' = 2
  /\ lockFile' = IF InLock THEN None ELSE lockFile
  /\ disk' \in IF mpc = "final" THEN {disk, NoText("empty")} ELSE {disk}
  /\ Exit("130")
  /\ UNCHANGED <<given, workers, queue, archived, other, interrupted>>

\* Another runner process: takes the lock, works, releases it, or is killed.
OtherTakes ==
  /\ OtherRunner /\ other = "out" /\ lockFile = None
  /\ lockFile' = "other" /\ other' = "in"
  /\ UNCHANGED <<given, workers, queue, files, main, signals>>

OtherLeaves ==
  /\ other = "in"
  /\ lockFile' = None /\ other' = "out"
  /\ UNCHANGED <<given, workers, queue, files, main, signals>>

OtherIsKilled ==
  /\ other = "in"
  /\ other' = "dead"
  /\ UNCHANGED <<given, workers, queue, files, main, signals, lockFile>>

Environment == Interrupt \/ ForceExit \/ OtherTakes \/ OtherLeaves \/ OtherIsKilled

Terminated == mpc = "gone" /\ other # "in" /\ UNCHANGED vars

Next ==
  \/ \E d \in Device : WorkerStep(d)
  \/ MainStep \/ Environment \/ Terminated

Spec == Init /\ [][Next]_vars

\* Threads are scheduled; an attempt ends by itself.
AttemptEnds(d) == InterruptAttempt(d) \/ \E r \in {"0", "1"} : EndAttempt(d, r)

ThreadFairness ==
  /\ WF_vars(MainStep)
  /\ \A d \in Device :
       WF_vars(CheckShutdown(d) \/ Claim(d) \/ OpenManifest(d) \/ WriteManifest(d))

\* An attempt may take for ever, but not after an interrupt: a running phase
\* ends (ParallelPhase!PhaseEnds) and run() checks the flag in between.
FairSpec ==
  Spec /\ ThreadFairness /\ \A d \in Device : WF_vars(Shutdown /\ AttemptEnds(d))
-----------------------------------------------------------------------------
(* Properties.                                                             *)

\* With ids of their own, the tasks are as TaskPool promises, also when the
\* batch is forced to stop, when the disk fails and when the lock is refused.
Report ==
  CASE exitCode = None -> None
    [] exitCode = "0" -> "ok"
    [] exitCode = "1" -> "failed"
    [] exitCode = "130" -> "interrupted"
    [] OTHER -> "error"

Pool == INSTANCE TaskPool WITH
  Worker <- Device, state <- status, owner <- claimedBy, report <- Report

ImplementsTaskPool == Pool!Spec

\* When a batch is over that was not forced to stop, no task is RUNNING:
\* whichever way an attempt ended, its worker recorded it first (if the tasks
\* have ids of their own).
NoTaskLost ==
  exitCode # None /\ signals < 2 => \A t \in Task : status[t] # "running"

\* With no interrupt, a working disk and ids of their own, every task was
\* tried: no way out of an attempt takes the worker with it.
AllTasksTried ==
  /\ exitCode \in {"0", "1"} /\ connected # {}
  /\ signals = 0 /\ ~diskFails
  /\ \A t \in Task : id[t] = t
  => \A t \in Task : status[t] \in {"succeeded", "failed"}

\* What the deliverables get is the manifest of the finished batch, neither
\* an older one nor one that several workers wrote at once.
ArchiveIsFinal == archived.text # "absent" => archived = Whole(Finished)

\* Until the user forces a stop, the lock is held as long as a worker may
\* drive a device, so no other runner consumes the queue meanwhile (docstring
\* of TaskQueueLock).
LockCoversWork ==
  signals < 2 => \A d \in Device : wpc[d] = "run" => lockFile = "me" /\ other # "in"

\* A batch ends when none of its attempts lasts for ever, with any ids.  After
\* one Ctrl+C none does (FairSpec), so the batch then ends of itself.
BatchEnds ==
  (\A d \in Device : []<>(wpc[d] # "run")) => (InLock ~> exitCode # None)

\* README: every URL of apks.txt is a task.  With one id for two tasks, the
\* result of the first is recorded for the second, which is then never begun.
EveryUrlTested ==
  /\ exitCode \in {"0", "1"} /\ connected # {}
  /\ signals = 0
  => \A t \in Task : claimedBy[t] # None
=============================================================================
