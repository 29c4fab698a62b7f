-------------------------- MODULE DeployBuildLock --------------------------
(***************************************************************************)
(* The deploy/build lock of game_agent/services/deploy_build_lock.py: an   *)
(* in-process mutex (_PROCESS_LOCK) around a lock FILE that serialises     *)
(* deploy.sh builds across runner processes.  A waiter polls the file,     *)
(* unlinks it when its mtime is older than the stale limit, and gives up   *)
(* after its own timeout.  The content of the file (a pid) is never read   *)
(* by this lock, so the file is modelled by who created it and its age.    *)
(*                                                                         *)
(* Time is counted in units; every age is kept relative and capped at the  *)
(* limit it is compared with, so the model is finite without a last        *)
(* instant and time can always pass.                                       *)
(***************************************************************************)
EXTENDS Naturals, FiniteSets

CONSTANTS
  Runner,          \* runner processes on the host (python -m game_agent.main)
  Worker,          \* threads of the runners that may enter run_deploy
  RunnerOf,        \* [Worker -> Runner]
  NoWorker,        \* "no holder" / "no file"
  Stale,           \* _STALE_S, in units
  AcquireTimeout,  \* timeout_s of acquire(), in units
  MaxBuild,        \* longest deploy: deploy_timeout_s plus the pipe drain
  MaxCrashes,      \* bound: how many runners may die during a behaviour
  MayRestart       \* may a dead runner be started again?

ASSUME LockAssumption ==
  /\ RunnerOf \in [Worker -> Runner]
  /\ NoWorker \notin Worker
  /\ Stale \in Nat \ {0}
  /\ AcquireTimeout \in Nat \ {0}
  /\ MaxBuild \in Nat \ {0}
  /\ MaxCrashes \in Nat
  /\ MayRestart \in BOOLEAN

VARIABLES
  procLock,   \* [Runner -> Worker \cup {NoWorker}]: holder of _PROCESS_LOCK
  file,       \* creator of the lock file on disk, NoWorker when there is none
  fileAge,    \* time.time() - st_mtime, capped at Stale
  wpc,        \* where each worker is inside deploy_build_locked
  waited,     \* time since the worker's acquire() computed its deadline
  held,       \* time the worker has spent with the lock acquired
  alive,      \* [Runner -> BOOLEAN]
  crashes     \* runners that died so far

lockVars == <<procLock, file, fileAge, wpc, waited, held, alive, crashes>>

WorkerPC == {"idle", "wantProc", "open", "stat", "unlink", "deadline",
             "build", "release", "timedOut", "dead"}

Polling == {"open", "stat", "unlink", "deadline"}
Holding == {"build", "release"}

LockTypeOK ==
  /\ procLock \in [Runner -> Worker \cup {NoWorker}]
  /\ file \in Worker \cup {NoWorker}
  /\ fileAge \in 0..Stale
  /\ wpc \in [Worker -> WorkerPC]
  /\ waited \in [Worker -> 0..AcquireTimeout]
  /\ held \in [Worker -> 0..MaxBuild]
  /\ alive \in [Runner -> BOOLEAN]
  /\ crashes \in 0..MaxCrashes

LockInit ==
  /\ procLock = [r \in Runner |-> NoWorker]
  /\ file = NoWorker
  /\ fileAge = 0
  /\ wpc = [w \in Worker |-> "idle"]
  /\ waited = [w \in Worker |-> 0]
  /\ held = [w \in Worker |-> 0]
  /\ alive = [r \in Runner |-> TRUE]
  /\ crashes = 0

MoveTo(w, l) == wpc' = [wpc EXCEPT ![w] = l]

-----------------------------------------------------------------------------
(* The steps of a worker.                                                  *)

\* A deploy reaches `with deploy_build_locked()`.
Enter(w) ==
  /\ wpc[w] = "idle"
  /\ MoveTo(w, "wantProc")
  /\ UNCHANGED <<procLock, file, fileAge, waited, held, alive, crashes>>

\* `with _PROCESS_LOCK`, then acquire() computes its deadline.
TakeProcessLock(w) ==
  /\ wpc[w] = "wantProc"
  /\ procLock[RunnerOf[w]] = NoWorker
  /\ procLock' = [procLock EXCEPT ![RunnerOf[w]] = w]
  /\ waited' = [waited EXCEPT ![w] = 0]
  /\ MoveTo(w, "open")
  /\ UNCHANGED <<file, fileAge, held, alive, crashes>>

\* os.open(O_CREAT | O_EXCL): atomic, succeeds only if there is no file.
CreateFile(w) ==
  /\ wpc[w] = "open"
  /\ file = NoWorker
  /\ file' = w
  /\ fileAge' = 0
  /\ held' = [held EXCEPT ![w] = 0]
  /\ MoveTo(w, "build")
  /\ UNCHANGED <<procLock, waited, alive, crashes>>

FileExists(w) ==
  /\ wpc[w] = "open"
  /\ file # NoWorker
  /\ MoveTo(w, "stat")
  /\ UNCHANGED <<procLock, file, fileAge, waited, held, alive, crashes>>

\* _maybe_clear_stale, first half: stat the path and compare the age.  A
\* file that vanished meanwhile is an OSError, which also answers "not stale".
StatFileOffByOne(w) ==
  /\ wpc[w] = "stat"
  /\ MoveTo(w, IF file # NoWorker /\ fileAge + 1 >= Stale THEN "unlink" ELSE "deadline")
  /\ UNCHANGED <<procLock, file, fileAge, waited, held, alive, crashes>>

StatFile(w) ==
  /\ wpc[w] = "stat"
  /\ MoveTo(w, IF file # NoWorker /\ fileAge >= Stale THEN "unlink" ELSE "deadline")
  /\ UNCHANGED <<procLock, file, fileAge, waited, held, alive, crashes>>

\* _maybe_clear_stale, second half: unlink whatever is at the path NOW.
UnlinkStale(w) ==
  /\ wpc[w] = "unlink"
  /\ file' = NoWorker
  /\ MoveTo(w, IF file # NoWorker THEN "open" ELSE "deadline")
  /\ UNCHANGED <<procLock, fileAge, waited, held, alive, crashes>>

\* The deadline check of acquire(): sleep and poll again, or raise
\* TimeoutError, which leaves `with _PROCESS_LOCK`.
KeepPollingForever(w) ==
  /\ wpc[w] = "deadline"
  /\ MoveTo(w, "open")
  /\ UNCHANGED <<procLock, file, fileAge, waited, held, alive, crashes>>

KeepPolling(w) ==
  /\ wpc[w] = "deadline"
  /\ waited[w] < AcquireTimeout
  /\ MoveTo(w, "open")
  /\ UNCHANGED <<procLock, file, fileAge, waited, held, alive, crashes>>

GiveUpUnlinks(w) ==
  /\ wpc[w] = "deadline"
  /\ waited[w] >= AcquireTimeout
  /\ procLock' = [procLock EXCEPT ![RunnerOf[w]] = NoWorker]
  /\ file' = NoWorker
  /\ MoveTo(w, "timedOut")
  /\ UNCHANGED <<fileAge, waited, held, alive, crashes>>

GiveUp(w) ==
  /\ wpc[w] = "deadline"
  /\ waited[w] >= AcquireTimeout
  /\ procLock' = [procLock EXCEPT ![RunnerOf[w]] = NoWorker]
  /\ MoveTo(w, "timedOut")
  /\ UNCHANGED <<file, fileAge, waited, held, alive, crashes>>

\* The deploy subprocess ends: by itself, by its timeout, or by shutdown.
FinishBuild(w) ==
  /\ wpc[w] = "build"
  /\ MoveTo(w, "release")
  /\ UNCHANGED <<procLock, file, fileAge, waited, held, alive, crashes>>

\* release(): unlink(missing_ok=True) by path, then leave _PROCESS_LOCK.
Release(w) ==
  /\ wpc[w] = "release"
  /\ file' = NoWorker
  /\ procLock' = [procLock EXCEPT ![RunnerOf[w]] = NoWorker]
  /\ MoveTo(w, "idle")
  /\ UNCHANGED <<fileAge, waited, held, alive, crashes>>

\* The caller of the timed-out deploy reports the failure and may try again.
TryAgain(w) ==
  /\ wpc[w] = "timedOut"
  /\ MoveTo(w, "idle")
  /\ UNCHANGED <<procLock, file, fileAge, waited, held, alive, crashes>>

WorkerStep(w) ==
  \/ TakeProcessLock(w)
  \/ CreateFile(w)
  \/ FileExists(w)
  \/ StatFile(w)
  \/ UnlinkStale(w)
  \/ KeepPolling(w)
  \/ GiveUp(w)
  \/ FinishBuild(w)
  \/ Release(w)

-----------------------------------------------------------------------------
(* The environment: time, and runner processes that die (kill -9, power).  *)

Older(n, limit) == IF n < limit THEN n + 1 ELSE n

\* Time passes for everyone.  popen_communicate_poll kills a build at its
\* timeout, so no worker holds the lock beyond MaxBuild.
BuildMayGoOn(w) == held[w] < MaxBuild

TimePasses ==
  /\ \A w \in Worker : wpc[w] \in Holding => BuildMayGoOn(w)
  /\ fileAge' = IF file = NoWorker THEN fileAge ELSE Older(fileAge, Stale)
  /\ waited' = [w \in Worker |-> IF wpc[w] \in Polling
                                 THEN Older(waited[w], AcquireTimeout)
                                 ELSE waited[w]]
  /\ held' = [w \in Worker |-> IF wpc[w] \in Holding
                               THEN held[w] + 1
                               ELSE held[w]]
  /\ UNCHANGED <<procLock, file, wpc, alive, crashes>>

\* A runner dies: its threads and its mutex go with it, the file stays.
Crash(r) ==
  /\ alive[r]
  /\ crashes < MaxCrashes
  /\ alive' = [alive EXCEPT ![r] = FALSE]
  /\ crashes' = crashes + 1
  /\ procLock' = [procLock EXCEPT ![r] = NoWorker]
  /\ wpc' = [w \in Worker |-> IF RunnerOf[w] = r THEN "dead" ELSE wpc[w]]
  /\ UNCHANGED <<file, fileAge, waited, held>>

Restart(r) ==
  /\ MayRestart
  /\ ~alive[r]
  /\ alive' = [alive EXCEPT ![r] = TRUE]
  /\ wpc' = [w \in Worker |-> IF RunnerOf[w] = r THEN "idle" ELSE wpc[w]]
  /\ UNCHANGED <<procLock, file, fileAge, waited, held, crashes>>

LockNext ==
  \/ \E w \in Worker : Enter(w) \/ WorkerStep(w) \/ TryAgain(w)
  \/ TimePasses
  \/ \E r \in Runner : Crash(r) \/ Restart(r)

\* Threads are scheduled, builds end and the clock runs.  Nothing forces a
\* deploy to start, a caller to retry, or a process to die or come back.
LockFairness ==
  /\ \A w \in Worker : WF_lockVars(WorkerStep(w))
  /\ WF_lockVars(TimePasses)

LockSpec == LockInit /\ [][LockNext]_lockVars

LockFairSpec == LockSpec /\ LockFairness

-----------------------------------------------------------------------------
(* Properties.                                                             *)

\* Two threads of one runner never build at the same time, whatever crashes
\* and however long a build takes: _PROCESS_LOCK is held around the file.
InProcessExclusion ==
  \A u, w \in Worker :
    /\ wpc[u] \in Holding
    /\ wpc[w] \in Holding
    /\ RunnerOf[u] = RunnerOf[w]
    => u = w

\* Never two builds at once on the host, the claim of the class docstring
\* ("mutual exclusion across processes, to avoid concurrent cmake").
BuildExclusion ==
  \A u, w \in Worker : wpc[u] \in Holding /\ wpc[w] \in Holding => u = w

\* The same as far as it holds: until a runner dies, and with builds shorter
\* than the stale limit, no waiter mistakes a live build for an abandoned one.
ExclusionUntilCrash == crashes = 0 => BuildExclusion

\* Until then a worker that leaves its build unlinks its own file: release()
\* goes by path, so a file another worker created there would go too.
ReleasesOwnFile ==
  [][\A w \in Worker : crashes = 0 /\ wpc[w] = "release" /\ wpc'[w] = "idle"
       => file = w]_lockVars

\* Whoever polls for the lock gets an answer: it builds, or acquire() raises
\* TimeoutError, or its process dies.  The stale branch of acquire() loops
\* without looking at the deadline, and other workers may win every race.
WaiterAnswered ==
  \A w \in Worker :
    wpc[w] \in Polling ~> wpc[w] \in {"build", "timedOut", "dead"}

=============================================================================
