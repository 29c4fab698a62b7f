# A TLA+ verification project for the game test agent

The program in `src/game_agent` tests APKs on Android devices without supervision. A batch
takes a list of URLs; a worker thread per device takes one task after the other; a task
prepares and installs its game, watches it in a *parallel phase* until an LLM-driven executor
has brought it into the game, and on a network failure patches the configuration of the
GameTurbo plugin, rebuilds with `deploy.sh` and tries again. This directory holds models of
that program in TLA+, their instances for TLC, and theorems about them checked by TLAPS.

- `PROJECT.json` lists components, runs, mutants, findings, hazards and theorems, and maps
  every definition of a module to the lines it stands for.
- To check a run: `tlc -config X.cfg M`. To check proofs: `tlapm MProofs.tla`.
- A definition that no action uses and that stands right before one (`ClaimUnlocked` before
  `Claim`) is that operation with a plausible mistake. Exchanging the two must break the
  property the `mutants` list names.

## 1. The system

| Component | State it keeps | Operations | Interacts with |
|---|---|---|---|
| Batch runner, task queue (`controllers/batch_runner.py`, `task_queue.py`, `services/batch_cleanup.py`) | tasks and their states, the index by task id, the manifest file, the queue's lock file | claim, mark finished, save manifest, poll and join, finalize, archive | starts the worker threads; each runs the attempt loop of a task; the signal handler sets its flag |
| Interrupt (`services/shutdown.py`, `main.py`) | one flag for the process | first SIGINT sets it, the second raises in the main thread | read by every loop |
| Attempt loop (`controllers/orchestrator.py`, `retry_controller.py`, `modules/retry`) | attempt number, records, the failure, device and package state | prepare, install, launch, phase, failure decision, cleanup, Modify, deploy, finish | calls all services; holds the phase |
| Parallel phase (`_run_parallel_game_phase*`) | `AttemptContext` (confirmed, fatal reason, stop), `pending`/`done`, the locals of the coroutine | start tasks, wait loop, drain, judgement, observation, return | asyncio tasks, an executor thread, the process-wide flag |
| Session and log monitors (`session_controller.py`, `log_monitor_controller.py`, `services/gameturbo_log.py`, `task_finalize.py`) | pids, absence, session number; the key set, position and stream of the log; `gameturbo.log`, its buffer on the device and the archives | poll, restart, rotate, clear, snapshot; append, dedup, restart of the stream; refresh; finalize and merge | two coroutines of the phase, the executor thread and the finalization write one file |
| Network monitor (`network_anomaly_coordinator.py`) | progress key and its age, passive schedule, evidence | poll, screenshot in a thread, ask the model, report | reads what the executor observed and whether it is busy; parallel phase, OCR worker |
| Vision enrichment (`graphs/vision_enrichment.py`) | one slot, cancelled calls | submit, merge, close | launch graph, a thread per call |
| Launch graph (`graphs/`, `models/launch_graph_state.py`) | `LaunchGraphState`: login, entry, confirmation, attempts per node, scene, watch, end | observe, classify and plan, one node per activity, synchronise | executor thread, OCR worker, model clients; leaves a `RunState` |
| Planners (`services/phase_engine.py`, `adaptive_tree.py`, `dynamic_route_planner.py`, `scene_*`, `graphs/free_node.py`) | phases and their tree, the chain of taps, the free action, the scene strategy | plan, act, verify, give up | nodes of the launch graph |
| Failure classification (`models/run_failure.py`) | none | text or exception to a code | attempt loop, Modify |
| Modify stage, configuration patch (`modules/retry`, `retry_controller.py`, `services/gameturbo_config_retry.py`, `utils/gameturbo_config_apply.py`) | `games/*.json`, the baseline, backups, the journal, domain analysis | roll back, analyse, ask, back up, apply, deploy, repair | between two attempts; the executor is told of it |
| OCR worker (`utils/ocr_worker.py`, `ocr_util.py`) | a registry of workers behind a lock; per worker settings, model, queue | configure, submit, infer, warm up, fall back | orchestrator, executor, both monitors |
| Deploy build lock (`services/deploy_build_lock.py`, `deploy_runner.py`) | a mutex and a lock file | acquire with stale takeover, release | Modify stage, all runners of the host |
| Shared files (`task_finalize.py`, `execution_log_bundle.py`, `packages_cleanup.py`, `gameturbo/bootstrap.py`) | `artifacts/retry_*`, `packages/`, merged configurations, `run_outputs/` | create, write, archive, publish, remove | all tasks of a batch |
| Server selector, login and overlays, install monitor, preprocessing, model clients, ADB, audit, settings | see `PROJECT.json` | | steps of the modules above, or left out |

What is hard here, and what is therefore modelled first:

- **Concurrency on four levels**: processes (two lock files), device threads, asyncio tasks
  inside a thread, and threads started from those tasks which cannot be cancelled.
- **Shared directories and registries** whose users were written as if they were alone.
- **Interrupts** that are a flag read at many places, and then an exception anywhere.
- **Ends**: each phase, attempt, task and batch has several ways out, and each has to stop,
  join, record, clean and publish by hand.
- **Names made from a clock in seconds**: task ids, attempt directories.

For each component, what makes it correct: the lock admits one build and answers every
waiter; the phase returns what happened, once, and leaves nothing behind; the batch tries
each task once and keeps its result; an attempt is followed by another only when that was
earned, and what is returned is what was published; the files of a task survive until they
are archived and no longer; each recognition is answered, by the right model; a success of
the launch graph passed both checks, its loops are bounded, nothing is tapped before the
login, and the caller gets a complete verdict; every round of Modify starts from the first
configuration, and what the executor is told of it is true; no log line is lost between four
writers, a restart counts once; a report of the network monitor has its reason in the
evidence, and a lasting dialog is noticed; an answer that comes late is not used
for another screenshot.

## 2. The modules

### DeployBuildLock (`MCDeployBuildLock`, `TaskProofs`)
State: the mutex of each runner, the lock file (who created it, its age), and where each worker is in
`deploy_build_locked`. `CreateFile`/`FileExists` are the `O_EXCL` open; `StatFile` and
`UnlinkStale` are the two separate system calls of `_maybe_clear_stale`; `KeepPolling`/`GiveUp`
are the deadline test; `Release` unlinks by path, as the code does. `Crash` and `Restart` are
the environment. Time is relative and capped, so that it can always pass and the state space is
finite. The build is one interval of at most `MaxBuild`.

### ParallelPhase (`MCParallelPhase`, `ParallelPhaseProofs`)
The coroutine with a `pc` for each await and each branch: `LoopHead`, `WaitReturns`/`WaitTimesOut`, the
`Handle*` actions over `done` **in any order** (it is a set), `JoinSession`, `LeaveLoop`, the
three branches after the loop, the drain, `GatherDrained`, `Judge`, `EndObserve`. Tasks move only
while the coroutine awaits (`Awaiting`), the executor thread at any time; `Cancelled` marks
tasks and has no effect on the thread. `CloseLoop` is the end of `asyncio.run`. The monitors are
abstracted to how they may end. The one-bit clock is the deadline of the phase.

### TaskPool and BatchRunner (`MCBatchRunner`, `BatchRunnerProofs`)
`TaskPool` is the abstract promise of a batch: a task is taken by one worker, is settled once, and the
report is a function of settled results. `BatchRunner` is the code: worker threads with their
claim under the queue's lock, `Mark` through the index by id, the manifest opened
(truncated) and written in two steps without a lock, the main thread's polling joins, both interrupts, a
disk that fails, a second runner at the lock file, finalization and archive. `Pool` is the
refinement mapping.

### AttemptLoop (with `TaskSettings`; `MCAttemptLoop`, `TaskProofs`)
`run()` from its first check to `_finish_run`. Each service is one step with all of its outcomes; the
flag of the interrupt is read again at each place the code reads it (`StopHere`, `Decide`,
`CleanUp`), so that it can come between two readings. E1 and E2 are what `classify_failure`
returns. `named` says under which gid the final cleanup looks: `EnterTask` knows it from a preprocessed
APK, `Launch` from the merged configuration; until then it is "unknown" or the package's name, and `CleanPackagesOfRun` finds
nothing of the game.

### FailureCode, GameConfig and ConfigRecovery (`MCConfigRecovery`, `ConfigRecoveryProofs`)
`FailureCode` is `run_failure.py` as a table: a text is the code it begins with and the marks it
contains, a rule is a set of marks and a code, and the first rule that applies decides.
`GameConfig` is the configuration (id, direct patterns, rule per port), the patch and its merge,
the repair and its guards. `ConfigRecovery` zooms into the failing path of `AttemptLoop`:
`Pass`/`PhaseFails`/`InitFails` are an attempt in one step with the reasons the code can give,
`Decide` and `CleanUp` are the retry controller, and then the Modify stage in the order of the code:
`Prepare` (roll-back to the backup it names, request), `Analyse`, `Ask` with its attempts, `Apply` (backup,
patch, second backup, journal), `Deploy`, `Repair`. The file written last is what is deployed; `thisRound` is a
history variable of what the round meant to write.

### LaunchFacts, LaunchStore, LaunchScene, LaunchTree, LaunchPlanners, LaunchGraph, LaunchVerdict (`MCLaunchGraph`, `LaunchGraphProofs`)
A layer per module, pure up to the last. `LaunchFacts`: what the OCR rules read on a screen, and what
the gates make of it with a model whose answers are free. `LaunchStore`: `LaunchGraphState` as one
record with its helpers. `LaunchScene`: naming a scene, the gate, switching strategies. `LaunchTree`: guards, depth-first search and the
order of the routes (`PlanRoute`). `LaunchPlanners`: a round of the phase engine, of the chain
of taps, of the free action. `LaunchGraph`: `ObserveScreen`, `ClassifyScreen` and one action per node, named as its node; `Raise`
(an exception anywhere) and `MonitorStop` (at any time) are the environment. Screens come in any order; a game
is the set of screens it may show. `logins` is a history variable. `LaunchVerdict` is what the orchestrator relies on, without the
graph inside: outside, inside, stable, never back, and a result that agrees; `LaunchGraph` implements it.

### SessionLog (`MCSessionLog`, `SessionLogProofs`)
Four writers of `gameturbo.log`: the coordinator (poll, rotate, clear, snapshot, one step per await; the copy of the log and its truncation are two), the
log monitor (start, read the keys of the file, one line at a time, restart of the stream), the executor
thread (`ReadTail` and `AppendTail` are separate: it holds no lock) and the finalization. Coroutines
move while the others sleep, the thread at any time. The device: lines are written and cleared, the game and its
subprocess die and start, adb is silent.

### ScreenWatch (`MCScreenWatch`, `ScreenWatchProofs`)
The poll of the network monitor (`Wake`, `Read`, `Answer`: screenshot and model call are awaits) beside the
executor's round (`Observe`, `Submit`, `Classify`, `Act`, `Close`), which share the observed stage, the
progress and the busy flag. The slot of the enrichment and the calls it has cancelled end at any time (`CallEnds`). Time counts polls.
`Classify` writes the executor's own label (`Labelled`), which never names a stage whose stall is watched; a watched stage
comes only from the answer to an analysis that a node asks for (`Act`), about a screen that may be gone by then. `usesOcr` switches
the looks at the screen off.

### TaskFiles (with `TaskSettings`; `MCTaskFiles`, `TaskProofs`)
What tasks of one batch do to `artifacts/`, `packages/`, the merged configuration and
`run_outputs/`. A directory is named by attempt number and second (`Dir`), as in the code; its
content is abstracted to whose logs and whose configuration it holds. A write into a directory
that was removed makes it again (`WriteAgain`), which is what `PipelineTracer.record` does. The
number of devices is chosen in the initial state.

### OcrWorker (`MCOcrWorker`, `OcrWorkerProofs`)
The registry with its lock, the queue and thread of each worker, and the callers. A call carries
the worker it was submitted to and, separately, the worker whose model it will use, because the
code resolves the key twice. `Configure` keeps the registry locked while it waits for the OCR
thread, as `configure_ocr_worker` does. Models are abstracted to the settings they were built with.

### How they fit
`BatchRunner` runs tasks that `AttemptLoop` describes. The phase in it is `ParallelPhase`, whose
session and log tasks are `SessionLog`, whose network task is `ScreenWatch`, and whose executor is
`LaunchGraph`, seen through `LaunchVerdict`. Its failing path is `ConfigRecovery`, whose deploys take
`DeployBuildLock`. `TaskFiles` and `OcrWorker` are two views of the same tasks on what they share. The
pieces are composed by what each assumes of the other: `BatchRunner` assumes that attempts react to an
interrupt, which is `ParallelPhase!PhaseEnds` and `AttemptLoop!RunEnds`; `AttemptLoop` assumes that deploys and
phases end, which is `DeployBuildLock!WaiterAnswered` and, for the phase, again `PhaseEnds`; `ParallelPhase` takes from
the monitors that they end when told to, which is `SessionLog!MonitorReacts`, and from the executor that it returns a
verdict once, which is `LaunchGraph!KeepsVerdict`.

## 3. The runs

| Run | Asks | Bounds, and why they are enough |
|---|---|---|
| `deploy_lock` | `ExclusionUntilCrash`, `ReleasesOwnFile`, `WaiterAnswered` | Two runners, one with two threads: contention inside a process and across. One crash with restart: dead holder, dead waiter, and a restarted runner that meets its own file. Build 1 and stale limit 2 is the tightest ratio that satisfies the assumption. 98 000 states. |
| `deploy_lock_takeover` | `BuildExclusion`, expected to fail | Three runners: one that dies and two that find its file. |
| `phase` | `SuccessIsClean`, `InTimeIsNoTimeout`, `NothingLeftRunning`, `ReportsFirstReason`, `PhaseEnds` | Both monitors of the code, all configurations as initial states. Nothing else is bounded. 91 000 states. |
| `batch` | `ArchiveIsFinal`, `LockCoversWork`, `NoTaskLost`, `AllTasksTried`, `ImplementsTaskPool`, `BatchEnds` | Two devices and three tasks: one device has to go on after a task, two compete for the last. Two interrupts, a disk that works or fails, a second runner that may be killed. Task ids differ. 431 000 states. |
| `batch_same_second` | `EveryUrlTested`, expected to fail | Two tasks. |
| `attempt_loop` | `ReturnsWhatItPublished`, `RetryIsEarned`, `RunEnds` | Three retries: a first, a middle and a last attempt. Every configuration, adb errors and the interrupt anywhere. 2 200 states. |
| `files` | `KeepsLogsAlone`, `NoLeftovers`, `SourceStays` | Three tasks on one or two devices: one that finishes, one that runs meanwhile, and one that begins after. Two games, so that two tasks may test the same one. Two attempts, a clock of two seconds (same and next). Symmetry in tasks and games, safety only. 363 000 states. |
| `ocr_calls` | `FitsTheTask`, `CallsAnswered` | One device has two tasks with different settings (a reconfiguration), the other has one task; all roles call on the first device, two on the other. 75 000 states. It may stop: the tasks are used up. |
| `launch` | `SuccessIsEarned`, `VerdictIsComplete`, `LoginsBounded`, `PassiveBeforeLogin`, `PhasesStayDone`, `KeepsVerdict` | Four games: three with four or five screens for five or six rounds, one with three screens for the seven rounds a launch from the login form through both checks to the watch takes. All limits are small (two attempts where the code has three), so that each is reached. 339 000 states. It may stop: the graph has returned. |
| `recovery` | `RoundsDoNotPileUp`, `RestoreFindsBackup`, `BriefIsOfThisRound`, `NetworkOnlyWhenExhausted` | Four attempts, so three rounds: a first without a backup to restore, one that restores, and one that could restore the wrong file. Two patterns, one port and one rule: sixteen patches (all that differ for the merge, void ones included) and twelve repairs. Two tries of the patch and two of the deploy. 2.3 million states. |
| `session_log` | `NothingLost`, `FinalLogComplete`, `OneRestartPerAbsence`, `MonitorReacts` | Two lines (one before and one after any event), two starts of the game with a subprocess, one death or loss of adb; the default threshold, 2.0 s at polls of 1.5 s, is two polls. 844 000 states. |
| `screen_watch` | `ReportIsFounded`, `EnrichmentFits`, `DialogReported`, `StopIsHeard` | A loading screen, whose percentage is read or not, and a notice with a dialog over it; the default settings and those without a model, without a required confirmation, and also without a look at the screen; a stall is two polls, a passive screen is looked at every second poll, one screenshot or call fails. 233 000 states. It may stop: the phase is over. |

The type invariant of each module is its `TypeOK` (`LockTypeOK`, `LoopTypeOK`). It is a theorem of each module (§5), so the runs do not repeat
it; TLC found it to hold on the state spaces of the runs before it was proved.

**Fairness.**
- `DeployBuildLock`: threads are scheduled, builds end (they have a timeout and are killed), the clock runs.
  Nothing makes a deploy start or a process die.
- `ParallelPhase`: the event loop goes on and sleeps end. *Nothing* makes the executor thread finish, because
  an adb or model call may hang, and nothing makes the deadline pass. `PhaseEnds` holds all the same
  once the deadline has passed or Ctrl+C was seen.
- `BatchRunner`: threads are scheduled; an attempt ends once the flag is set. That attempts end without an interrupt is a premise of
  `BatchEnds`, not an assumption of the module.
- `AttemptLoop`: every call comes back, for all of them have timeouts; fairness is on the disjunction of the
  steps, so that no outcome is promised.
- `OcrWorker`: threads are scheduled, building and inference end. Callers are never made to call.
- `LaunchGraph`: the planned node ends, as device and model calls have timeouts; no answer is promised, no stop and no exception.
- `SessionLog`: sleeps and adb calls of the coordinator, the monitor and the finalization end. The executor is not made to read, lines are
  not made to come, the game is not made to start.
- `ScreenWatch`: sleeps, screenshots and model calls of the coordinator end, the rounds of the executor go on, calls end. A node may take
  any time: that it comes back is the premise of `StopIsHeard`, and that the coordinator gets to look the one of `DialogReported`.

## 4. Where code and documents disagree

Two runs are expected to find a counterexample. `PROJECT.json` quotes the lines they contradict.

1. `deploy_lock_takeover`: `_maybe_clear_stale` stats and unlinks in two steps, so of two waiters
   the slower one removes the *new* file of the faster one, and two builds run.
2. `batch_same_second`: task ids have a resolution of one second and key an index; the result of the first task marks
   the last one with that id, which is then never tested.

Other statements are kept as definitions beside the properties. Added to the configuration named, TLC shows that they do not hold:

| Statement | Add to | What the code does |
|---|---|---|
| `OneThreadPerModel` (docstring, `ocr_worker.py:1`) | `ocr_calls.cfg` | A call without a worker key is resolved a second time in the OCR thread, whose thread-local is unset, so that the model of worker "default" is used by several threads at once (`ocr_util.py:185`). |
| `InitDeploys` (`src/README.md:208`) | `attempt_loop.cfg` | `prepare_installable` calls `asyncio.run` inside a running loop, so the init stage of an attempt that needs `deploy.sh` fails before it (`service.py:191`). |
| `KeepsLogs` (docstring, `task_finalize.py:124`) | `files.cfg` | The cleanup of one task removes the attempt directories of tasks that still run on other devices, and their logs with them (`:133`). |
| `LineOnce` (`gameturbo_log_dedup_key`) | `session_log.cfg` | Two writers read the keys before either appends; the same line is in the file twice. |
| `WeakScenesEnd` (`tests/test_scene_strategy.py:208`) | `launch.cfg` | After the first weak screen the last scene is "unknown", so the second is not a transition of low confidence any more: it resets the streak instead of ending the strategy (`scene_classifier.py:279`, `scene_strategies.py:293`, `:306`). |
| `ServerCheckIsE2006` (`src/README.md:290`) | `recovery.cfg` | The code is looked for at the beginning of the text only, and the text of a failed server selection has it further on: the code given depends on the other words in it (`run_failure.py:351`, `server_selector_pipeline.py:114`, `:238`, `launch_nodes.py:806`). |

Met by reading, and in the models where they concern them:

- the stale limit of the build lock and the largest `deploy_timeout_s` are both 3600 s, so a build as
  long as allowed loses its lock file (the proofs assume `MaxBuild < Stale` for this reason);
- the branch that logs a monitors-only timeout as ok is never reached with one (`orchestrator.py:1069`);
- an executor that raises after its confirmation is tolerated by the drain and not by the wait
  loop (`orchestrator.py:115` and `:969`);
- an interrupted batch whose last worker stops between two polls exits with 1 instead of 130;
- a second Ctrl+C releases the queue's lock while workers still drive devices;
- a deploy that fails in Modify leaves `run()` as an exception, with no failure report; an interrupt seen
  between two steps leaves without the failure cleanup;
- two attempts that begin in one second on two devices share a directory; a retry that passes
  looks for the merged configuration in its own directory, while it is in that of the attempt before;
- the OCR fallback "to CPU" builds for the GPU again, as the device is resolved anew from the
  settings; recognitions of the worker "default" use built-in settings;
- "Parallel game phase timeout" is E1000 and never the E1010 of `src/README.md:285`: the rule is behind one that takes the text first (`run_failure.py:220`);
- the guard against an empty log never trips, because every log begins with stage markers (`stage_logging.py:95`, `gameturbo_log.py:246`, docstring `:168`);
- the model is told "Previous patch was rolled back" in the first round, before there was one (`retry_config.py:364`, `gameturbo_config_retry.py:78`);
  the branch for a missing backup (`:93`) is never reached (`RestoreFindsBackup`) and would raise a `NameError`; a failed run leaves its patched configuration in `games/`;
- the route of a domain is found by substring (`domain_extract.py:118`);
- lines of one millisecond have one key, and all but one are dropped; an absence below the threshold with a changed pid leaves nothing to compare (`session_controller.py:64`, `:107`);
- the watch for a stall hardly ever sees one: every classification of the executor sets one of its own labels, none of which is a watched stage
  (`launch_nodes.py:404`, `:472`, `screen_download_health.py:9`; a download is called "download", the watch knows "resource_download"), so a watched stage
  stands only from an analysis that a node asked for (`vision_tools.py:128`) to the next round, and `settings.py:442` calls the poll independent of that analysis. No property claims
  that a stall is noticed. The percentage is written back under the stage the poll began with (`network_anomaly_coordinator.py:160`), also over a newer label;
- a failure before the gid is known leaves `{gid}_gameturbo.apk` of an earlier task in `packages/`: the final cleanup looks for the files of "unknown" when the
  preprocessing failed, of the package when there was none (`orchestrator.py:1141`, `packages_cleanup.py:42`), while `:287` says that packages are cleaned by gid at the end;
- a merged enrichment is overwritten by the classification that follows it; the stage marker OBSERVER (`orchestrator.py:751`) is overwritten by the bootstrap.

## 5. What is proved

All theorems hold for every value of the constants that satisfies the named assumptions of the module.
Every safety property that a run checks is a theorem. The names in the second column are those of the theorems; the invariants
named in the third are inductive.

| Module | Theorems | Argument |
|---|---|---|
| `TaskProofs`, about `DeployBuildLock` | `LockTypeCorrect`; `InProcess`; `HostExclusion` and `OwnFileReleased` under `MaxBuild < Stale` | `ProcLockInv`: a worker past the mutex holds it. `HealthyInv`: until a crash the file belongs to whoever builds and is not older than that build, so no waiter has seen it as stale. `BuildExclusion` by itself is not inductive: the age of the file has to be tied to `held`, and the pc `unlink` has to be excluded. |
| `TaskProofs`, about `AttemptLoop` | `LoopTypeCorrect`, `LoopNeverRunsOut`, `ResultPublished`, `RetryEarned` | `AttemptInv` ties `willRetry` at each pc to the failure, the cleanup and the patch that justify it; `ResultInv` ties the deliverable to the outcome. `NamedInv`: whoever launched, passed, was patched or began an attempt with a preprocessed APK knows the gid, without which the final cleanup leaves the outputs of `deploy.sh`; a failure before that is excluded by `ReturnsWhatItPublished`. |
| `TaskProofs`, about `TaskFiles` | `TypeCorrect`, `NothingLeftOver`, `SourceKept`, `LogsKept` | `DirInv`: a directory in `artifacts/` means that some task still has to sweep or was left by an error, whoever's directory it is; `NoLeftovers` says nothing of the tasks that still owe a sweep and is not inductive. `OneInv`: one device works on one task at a time, so `LogsInv` can say that on one device the recorded logs stay until they are archived. |
| `ParallelPhaseProofs` | `TypeCorrect`, `CleanSuccess`, `NoTimeoutInTime`, `CleanReturn`, `FirstReasonReported` | `Inv` has a part for tasks, the thread, the loop, the locals, the return value and what still runs. The locals are copies of shared state taken before an await; the invariant says at which pc which copy may be stale, which is the content of the properties. |
| `BatchRunnerProofs` | `TypeCorrect`, `FinalArchive`, `LockCoverage`, `EveryTaskTried`; `NothingLost` and `Refinement` under `DistinctIds` | `WorkInv` ties a worker's pc to the state and owner of its task, `MainInv` says what the main thread knows of the workers, `LockInv` says whose the file is. `TriedInv`: without an interrupt and on a disk that works, every connected device gets its worker, and a worker ends only when nothing is pending; `PendingShrinks`: what was claimed never becomes pending again, so this stays true when the other workers go on. `Refinement` maps each step to one of `TaskPool` or a stutter. `DistinctIds` is necessary: `batch_same_second` is the counterexample. |
| `LaunchGraphProofs` | `TypeCorrect`, `EarnedSuccess`, `CompleteVerdict`, `BoundedLogins`, `PassiveScenes`, `DonePhases`, `VerdictKeptStepwise` | A lemma for each planner says which fields of `LaunchGraphState` it may change and whose attempts it counts. `VerdictInv`: a confirmation comes with the entry and the watch, also where the result is not written yet. `LoginInv`: submissions never exceed the attempts counted so far by the login node and by the recovery, and `Planned` keeps from the route to the node that one is left; `LoginsBounded` alone does not know who may still submit. `PassiveBeforeLogin` needs that the model is not asked about scenes before the login (`GateFits`) and that both the router and the node then take the scene for a wait, although the node asks the rules again. `RoundsInv` ties the number of the round to the place in it: only `ObserveScreen` counts, and the round that reaches `max_graph_iterations` is finished before it looks. `VerdictKeptStepwise` is the safety of `KeepsVerdict`: every step is one of `LaunchVerdict` or a stutter. |
| `ConfigRecoveryProofs` | `TypeCorrect`, `NoPileUp`, `BackupFound`, `BriefIsTrue`, `GivenUpWhenExhausted` | The properties speak of the beginning of an attempt or of a round; the invariant follows the file through a round. `BackupIsStart`: the backup the next round names exists and is the first configuration. `GamesIsThisRound`: from the roll-back on the file is what the round has written so far. `JournalIsOfThisRound`: from `Apply` on the last entry is this round's. For `GivenUpWhenExhausted`, `VerdictInv` says which failures reach `Decide` and that a verdict is one of the codes; the theorem then goes over every such failure, and the first rule that applies to it is found by the least-number principle (`WellFoundedInduction`). |
| `OcrWorkerProofs` | `TypeCorrect`, `ModelIsOfTheTask` | `JobsFit` and `OneJobEach`: the queue of a device holds calls of its own waiting clients only, one each, a reset only before the phase and anything else only in it. So settings change (`StageFits`) only while no call that names the device is under way, and a model that does not fit them (`ModelFits`) has its reset in the queue. `FitsTheTask` itself mentions neither the queue nor the model and is not inductive. |
| `SessionLogProofs` | `TypeCorrect`, `LinesKept`, `LogComplete`, `AbsencesCountOnce` | `LogInv`: between the copy of the log and its truncation every line written is in an archive, which is what allows the truncation; the finalization begins when coordinator and monitor are over, so after it nobody rotates, and at the merge the log already holds the last dump. `CountInv` counts what is still to come: restarts counted, plus one pending (`Pending`: an open absence, or another process than the one the coordinator believes in), plus one owed by a subprocess that outlived the game (`Orphan`), never exceed the absences. `OneRestartPerAbsence` speaks only of those counted and is not inductive. |
| `ScreenWatchProofs` | `TypeCorrect`, `FoundedReports`, `FittingAnswers` | `ReportInv`: a report ends the poll, and the evidence it was founded on is not written any more; before that the evidence may still change, so the property says nothing that could be carried. `EnrichInv`: an answer that is merged is about the screenshot of the merge, and once the executor is off no call runs or is cancelled, so nothing is left to answer into the next task. |

`TaskProofs` extends three modules that together are a task beside others; each of its theorems is about the specification of one of them
(`Spec` of `TaskFiles`, `LockSpec`, `LoopSpec`). What `AttemptLoop` and `TaskFiles` have in common is `TaskSettings`.

Every inductive invariant was checked by TLC on the instances of the runs before it was proved.

Only model-checked: all liveness (`WaiterAnswered`, `PhaseEnds`, `BatchEnds`, `RunEnds`,
`CallsAnswered`, `MonitorReacts`, `DialogReported`, `StopIsHeard`, and the liveness in `KeepsVerdict`), which needs fairness and `ENABLED` and is out of the prover's reach. Induction over data and `RECURSIVE`
operators are out of reach as well; no module needs either.

## 6. Hazards without a property

`PROJECT.json` lists the hazards with the properties about them. These are known and no property covers them:

- a task of the phase that raises leaves the coroutine without `stop_event` being set; the executor thread goes on driving (`orchestrator.py:939`);
- the interrupt flag is sampled by polling between joins (`batch_runner.py:132`): the exit code is 1 or 130;
- the queue's lock file has no takeover (`task_queue.py:84`): a killed runner leaves a file that refuses every later one, until somebody removes it;
- Modify and deploy may raise what the caller does not expect (`retry_config.py:180`); it leaves `run()` without a failure report;
- names of directories have a resolution of one second (`orchestrator.py:421`), and the configuration of a passing retry is looked for in the last directory (`bootstrap.py:94`);
- the same game on two devices shares `packages/` and the merged configuration (`packages_cleanup.py:58`); `SourceStays` excludes this case;
- the hint of a blocked stage survives into a failure of another attempt (`orchestrator.py:597`);
- executor and network monitor both write the observed stage without a lock (`network_anomaly_coordinator.py:160`), and a real stall is noticed late or never (`settings.py:434`, §4);
- the recursion limit of the graph library is left at the default of the installed version, which may be below the steps that `max_graph_iterations` rounds take (`launch_flow.py:262`); `Raise` covers the exception, not when it comes.

## 7. What is not modelled, and the plan

Not modelled for good: ADB, downloads and ABI stripping, requests to models and the parsing of their answers,
image geometry (checkbox, panels, keyboards), contents of the domain analysis, logging and audit (nothing reads them back), settings validation, the scripts. Their failures
are outcomes of the steps that call them.

Modelled as one step with its outcomes: preprocessing and installation (`AttemptLoop`), the server selector, the login and the dialogs (each a node of `LaunchGraph`).

Next, in this order:

1. **ServerSelector**: the pipeline of tries behind the node, its fallbacks and its fast failure with E2006.
2. **InstallMonitor**: the watcher beside `adb install`, which taps dialogs while the command runs.
3. **AttemptOutcome**: an abstract specification of a task (tried, retried, settled once) that `AttemptLoop` implements, and
   that `TaskPool`'s settle step uses.
4. Proofs: the budgets of the exploring nodes (`MaxAdaptiveRounds`, `MaxDynamicRounds`, `MaxFreeRounds`) as theorems of the launch graph; what
   the modules assume of each other (§2, "How they fit") as theorems where it is safety.
