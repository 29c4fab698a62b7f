----------------------------- MODULE AttemptLoop -----------------------------
(***************************************************************************)
(* One task of a batch: GameTestOrchestrator.run of                        *)
(* controllers/orchestrator.py, its attempts (_run_one_attempt), what a    *)
(* failed attempt sets off (_on_attempt_failure, AnomalyHandler.handle of  *)
(* controllers/retry_controller.py, the Modify stage of                    *)
(* modules/retry/retry_config.py) and how the run is closed (_finish_run). *)
(*                                                                         *)
(* The parallel phase is one step here (module ParallelPhase).  A failure  *)
(* is abstracted to what classify_failure decides: E2, network and         *)
(* acceleration, or E1, anything else.  The user may interrupt at any      *)
(* time: the flag is set once, and each place of the code reads it anew.   *)
(***************************************************************************)
EXTENDS TaskSettings

CONSTANTS
  AdbFails,   \* whether an adb command may fail for good (RuntimeError)
  Interrupts  \* whether the user may interrupt

ASSUME LoopAssumption == AdbFails \in BOOLEAN /\ Interrupts \in BOOLEAN

VARIABLES
  gameturbo,   \* external_services.gameturbo.enabled
  retryOn,     \* modules.retry_on_failure
  preprocess,  \* preprocessing.enabled
  runPc,       \* where run() is
  retry,       \* the attempt, 0 before the first
  shutdown,    \* the process-wide ShutdownContext is set
  installed,   \* the game is on the device
  artifact,    \* a deploy output of the game, {gid}_gameturbo.apk, is in packages/
  named,       \* _task_gid is the gid in the names of these files
  scriptRan,   \* deploy.sh ran since the game was last removed
  patches,     \* configuration patches applied and deployed
  failure,     \* class of the last failed attempt
  willRetry,   \* local of _on_attempt_failure
  wasStopped,  \* its local `interrupted`
  cleaned,     \* last attempt whose failure cleanup ran
  passed,      \* the attempt whose parallel phase passed, or 0
  deliverable, \* run_outputs/{gid}_{task_id}: None, open, success, failure
  outcome      \* how run() ended: None, "0", "1", interrupted, raised

switches == <<gameturbo, retryOn, preprocess>>
device == <<installed, artifact, scriptRan, patches>>
judged == <<failure, willRetry, wasStopped>>
result == <<cleaned, passed, deliverable, named, outcome>>
loopVars == <<switches, runPc, retry, shutdown, device, judged, result>>

Limit == IF retryOn THEN MaxRetries ELSE 1

RunPC == {"begin", "enter", "head", "prepare", "install", "launch", "phase", "after",
          "failed", "cleanup", "modify", "deploy", "decide", "finish", "done"}

LoopTypeOK ==
  /\ gameturbo \in BOOLEAN /\ retryOn \in BOOLEAN /\ preprocess \in BOOLEAN
  /\ runPc \in RunPC
  /\ retry \in 0..Limit
  /\ shutdown \in BOOLEAN
  /\ installed \in BOOLEAN /\ artifact \in BOOLEAN /\ scriptRan \in BOOLEAN
  /\ patches \in 0..retry
  /\ failure \in {None, "E1", "E2"}
  /\ willRetry \in BOOLEAN /\ wasStopped \in BOOLEAN
  /\ cleaned \in 0..retry /\ passed \in 0..retry
  /\ deliverable \in {None, "open", "success", "failure"}
  /\ named \in BOOLEAN
  /\ outcome \in {None, "0", "1", "interrupted", "raised"}
  /\ outcome # None <=> runPc = "done"

LoopInit ==
  /\ gameturbo \in BOOLEAN /\ retryOn \in BOOLEAN /\ preprocess \in BOOLEAN
  /\ runPc = "begin" /\ retry = 0 /\ shutdown = FALSE
  /\ installed \in BOOLEAN /\ artifact \in BOOLEAN
  /\ scriptRan = FALSE /\ patches = 0
  /\ failure = None /\ willRetry = FALSE /\ wasStopped = FALSE
  /\ cleaned = 0 /\ passed = 0
  /\ deliverable = None /\ named = FALSE /\ outcome = None

End(how) == runPc' = "done" /\ outcome' = how

\* _check_shutdown raises ShutdownRequested, an exception of the run.
StopHere == shutdown /\ End("interrupted")

-----------------------------------------------------------------------------
(* Before the first attempt.                                               *)

Begin ==
  /\ runPc = "begin"
  /\ \/ /\ StopHere
        /\ UNCHANGED <<deliverable, failure>>
     \/ /\ ~shutdown
        /\ runPc' = "enter"
        /\ UNCHANGED <<deliverable, failure, outcome>>
     \/ \* the preprocessing failed: reported like a failed run, of gid "unknown"
        /\ ~shutdown /\ preprocess
        /\ deliverable' = "open" /\ failure' = "E1"
        /\ runPc' = "finish"
        /\ UNCHANGED outcome
     \/ \* no package name or launch activity in the APK
        /\ ~shutdown
        /\ End("raised")
        /\ UNCHANGED <<deliverable, failure>>
  /\ UNCHANGED <<switches, retry, shutdown, device, willRetry, wasStopped, cleaned, passed, named>>

\* force-stop and uninstall; what does not go away is only logged.
Removed == installed' \in {FALSE, installed} /\ scriptRan' = FALSE

\* _prepare_device_at_task_start, then the deliverable directory.  Its gid is
\* the one of the preprocessed APK; without one it is the package's name.
EnterTask ==
  /\ runPc = "enter"
  /\ Removed
  /\ \/ /\ deliverable' = "open"
        /\ named' = (preprocess /\ gameturbo)
        /\ runPc' = "head"
        /\ UNCHANGED outcome
     \/ AdbFails /\ End("raised") /\ UNCHANGED <<deliverable, named>>
  /\ UNCHANGED <<switches, retry, shutdown, artifact, patches, judged, cleaned, passed>>

-----------------------------------------------------------------------------
(* One attempt.                                                            *)

NextAttemptUnchecked ==
  /\ runPc = "head" /\ retry < Limit
  /\ retry' = retry + 1
  /\ runPc' = "prepare"
  /\ UNCHANGED <<switches, shutdown, device, judged, result>>

\* The head of the for loop.  The code behind the loop, for when no attempt is
\* left, is not an action: NeverRunsOut says that it is never reached.
NextAttempt ==
  /\ runPc = "head" /\ retry < Limit
  /\ \/ StopHere /\ UNCHANGED retry
     \/ ~shutdown /\ retry' = retry + 1 /\ runPc' = "prepare" /\ UNCHANGED outcome
  /\ UNCHANGED <<switches, shutdown, device, judged, cleaned, passed, deliverable, named>>

\* An attempt is given up in an `except Exception`, whatever the class.
Fail(class) == runPc' = "failed" /\ failure' = class

\* prepare_installable.  With the plugin, an installed game is reused; for
\* any other, asyncio.run is called inside the running loop and raises, so
\* deploy.sh does not run.  Without it, an APK is looked up.
Prepare ==
  /\ runPc = "prepare"
  /\ \/ StopHere /\ UNCHANGED failure
     \/ /\ ~shutdown /\ (gameturbo => installed)
        /\ runPc' = "install"
        /\ UNCHANGED <<failure, outcome>>
     \/ ~shutdown /\ Fail("E1") /\ UNCHANGED outcome
  /\ UNCHANGED <<switches, retry, shutdown, device, willRetry, wasStopped, cleaned,
                 passed, deliverable, named>>

\* CoreAppInstaller.  With the plugin there is nothing left to do; the class of
\* an error depends on its text.
Install ==
  /\ runPc = "install"
  /\ \/ installed' = TRUE /\ runPc' = "launch" /\ UNCHANGED failure
     \/ ~gameturbo /\ UNCHANGED installed /\ \E class \in {"E1", "E2"} : Fail(class)
  /\ UNCHANGED <<switches, retry, shutdown, artifact, scriptRan, patches, willRetry,
                 wasStopped, result>>

\* _sync_task_gid_from_config, and two checks around the launch, whose own
\* failure is only logged.
Launch ==
  /\ runPc = "launch"
  /\ named' = (named \/ gameturbo)
  /\ \/ StopHere
     \/ ~shutdown /\ runPc' = "phase" /\ UNCHANGED outcome
     \/ AdbFails /\ ~shutdown /\ End("raised")
  /\ UNCHANGED <<switches, retry, shutdown, device, judged, cleaned, passed, deliverable>>

\* The parallel game phase: passed, failed, interrupted, or raising.
Phase ==
  /\ runPc = "phase"
  /\ \/ passed' = retry /\ runPc' = "after" /\ UNCHANGED <<failure, outcome>>
     \/ \E class \in {"E1", "E2"} : Fail(class) /\ UNCHANGED <<passed, outcome>>
     \/ AdbFails /\ End("raised") /\ UNCHANGED <<passed, failure>>
  /\ UNCHANGED <<switches, retry, shutdown, device, willRetry, wasStopped, cleaned,
                 deliverable, named>>

\* after_parallel_phase reads the device once more, then _FinishRun.
AfterPhase ==
  /\ runPc = "after"
  /\ \/ runPc' = "finish" /\ UNCHANGED outcome
     \/ AdbFails /\ gameturbo /\ End("raised")
  /\ UNCHANGED <<switches, retry, shutdown, device, judged, cleaned, passed, deliverable, named>>

-----------------------------------------------------------------------------
(* A failed attempt.                                                       *)

\* The verdict of _on_attempt_failure, from one look at the flag.
Decide ==
  /\ runPc = "failed"
  /\ wasStopped' = shutdown
  /\ willRetry' = (~shutdown /\ failure = "E2" /\ retryOn /\ retry < Limit)
  /\ runPc' = "cleanup"
  /\ UNCHANGED <<switches, retry, shutdown, device, failure, result>>

\* AnomalyHandler.handle looks at the flag again, for itself only; then
\* FailureCleanup, and Modify when a retry is still wanted.
CleanUp ==
  /\ runPc = "cleanup"
  /\ Removed
  /\ \/ /\ cleaned' = retry
        /\ runPc' = IF willRetry /\ ~shutdown THEN "modify" ELSE "decide"
        /\ UNCHANGED outcome
     \/ AdbFails /\ End("raised") /\ UNCHANGED cleaned
  /\ UNCHANGED <<switches, retry, shutdown, artifact, patches, judged, passed, deliverable,
                 named>>

\* RetryConfigHandler up to the patch.  run_retry_config is not consulted:
\* without the plugin require_gameturbo raises.  A rejected, failed or void
\* patch (ConfigPatchGenerationError) closes the run as E1.
Modify ==
  /\ runPc = "modify"
  /\ \/ ~gameturbo /\ End("raised") /\ UNCHANGED failure
     \/ gameturbo /\ runPc' = "finish" /\ failure' = "E1" /\ UNCHANGED outcome
     \/ gameturbo /\ runPc' = "deploy" /\ UNCHANGED <<failure, outcome>>
  /\ UNCHANGED <<switches, retry, shutdown, device, willRetry, wasStopped, cleaned,
                 passed, deliverable, named>>

\* run_deploy_with_ai_retry, awaited this time.  deploy.sh builds and installs;
\* after its last try DeployPhaseError, on an interrupt ShutdownRequested.
DeployUntilItWorks ==
  /\ runPc = "deploy"
  /\ scriptRan' = TRUE
  /\ runPc' = "modify"
  /\ UNCHANGED <<switches, retry, shutdown, installed, artifact, patches, judged,
                 result>>

Deploy ==
  /\ runPc = "deploy"
  /\ scriptRan' = TRUE
  /\ \/ /\ artifact' = TRUE /\ installed' = TRUE
        /\ patches' = patches + 1
        /\ runPc' = "decide"
        /\ UNCHANGED outcome
     \/ /\ End("raised")
        /\ artifact' \in {artifact, TRUE}
        /\ UNCHANGED <<installed, patches>>
     \/ StopHere /\ UNCHANGED <<artifact, installed, patches>>
  /\ UNCHANGED <<switches, retry, shutdown, judged, cleaned, passed, deliverable, named>>

\* The rest of _on_attempt_failure.
Conclude ==
  /\ runPc = "decide"
  /\ \/ willRetry /\ runPc' = "head" /\ UNCHANGED outcome
     \/ ~willRetry /\ wasStopped /\ End("interrupted")
     \/ ~willRetry /\ ~wasStopped /\ runPc' = "finish" /\ UNCHANGED outcome
  /\ UNCHANGED <<switches, retry, shutdown, device, judged, cleaned, passed, deliverable, named>>

FinishAsPassed ==
  /\ runPc = "finish"
  /\ deliverable' = "success" /\ artifact' = FALSE
  /\ End("0")
  /\ UNCHANGED <<switches, retry, shutdown, installed, scriptRan, patches, judged,
                 cleaned, passed, named>>

\* cleanup_task_packages, only with the plugin: what is in packages/ under the
\* gid of the task, be it "unknown" or the name of the package.
CleanPackagesOfRun == artifact' = (artifact /\ ~(gameturbo /\ named))

\* _finish_run: publish, clean packages/, finalize.  A success without a merged
\* configuration raises before it is published.
Finish ==
  /\ runPc = "finish"
  /\ \/ /\ passed = retry /\ retry > 0
        /\ deliverable' = "success" /\ End("0")
        /\ CleanPackagesOfRun
     \/ /\ ~(passed = retry /\ retry > 0)
        /\ deliverable' = "failure" /\ End("1")
        /\ CleanPackagesOfRun
     \/ /\ passed = retry /\ retry > 0 /\ gameturbo
        /\ End("raised") /\ UNCHANGED <<deliverable, artifact>>
  /\ UNCHANGED <<switches, retry, shutdown, installed, scriptRan, patches, judged,
                 cleaned, passed, named>>

\* services/shutdown.py, from another thread.
Interrupt ==
  /\ Interrupts /\ ~shutdown /\ runPc # "done"
  /\ shutdown' = TRUE
  /\ UNCHANGED <<switches, runPc, retry, device, judged, result>>

Step ==
  \/ Begin \/ EnterTask \/ NextAttempt \/ Prepare \/ Install \/ Launch
  \/ Phase \/ AfterPhase \/ Decide \/ CleanUp \/ Modify \/ Deploy \/ Conclude
  \/ Finish

Terminated == runPc = "done" /\ UNCHANGED loopVars

LoopNext == Step \/ Interrupt \/ Terminated

LoopSpec == LoopInit /\ [][LoopNext]_loopVars

\* Every call comes back: all of them have timeouts.
LoopFairSpec == LoopSpec /\ WF_loopVars(Step)
-----------------------------------------------------------------------------
(* Properties.                                                             *)

\* A retry is worth its time: it runs only for an E2 failure, with the
\* failed attempt cleaned up and one more patch deployed, and never after an
\* interrupt, wherever that came in between.
RetryIsEarned ==
  [][retry' > retry /\ retry > 0
       => /\ failure = "E2" /\ retryOn /\ gameturbo /\ ~shutdown
          /\ cleaned = retry /\ patches = retry
          /\ installed /\ artifact]_loopVars

\* The for loop never runs out: the last attempt always closes the run itself.
NeverRunsOut == runPc = "head" => retry < Limit

\* What run() returns is what the deliverable says and what happened: "0" for
\* a published success of the last attempt, "1" for a published failure whose
\* cleanup ran.  With the plugin no output of deploy.sh is left for the next
\* task of the game if this one came from a preprocessed APK, passed, or deployed
\* a patch; a failure before the gid is known leaves what it found.
ReturnsWhatItPublished ==
  /\ outcome = "0" => deliverable = "success" /\ retry > 0 /\ passed = retry
  /\ outcome = "1" => deliverable = "failure" /\ cleaned = retry /\ passed = 0
  /\ outcome \in {"0", "1"} /\ gameturbo
       /\ ((preprocess /\ retry > 0) \/ passed > 0 \/ patches > 0)
     => ~artifact

\* A run ends, interrupted or not.
RunEnds == <>(runPc = "done")

\* README, stage table: init runs deploy.sh in every attempt.
InitDeploys ==
  [][runPc = "prepare" /\ runPc' = "failed" /\ gameturbo => installed \/ scriptRan']_loopVars
=============================================================================
