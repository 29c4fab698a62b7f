--------------------------- MODULE ConfigRecovery ----------------------------
(***************************************************************************)
(* What a failed attempt does to the game's configuration: the verdict on  *)
(* the failure, the domain analysis of its log, the roll-back of the last  *)
(* patch and the next one, and the deploys with their own repairs          *)
(* (controllers/retry_controller.py, modules/retry, services/              *)
(* gameturbo_config_retry.py).  The attempt itself is one step here;       *)
(* AttemptLoop has its stages, and the interrupts.                         *)
(***************************************************************************)
EXTENDS FailureCode, GameConfig, Sequences

CONSTANTS Limit,        \* modules.max_retries
          PatchTries,   \* gameturbo.modify_patch_max_llm_retries
          DeployTries,  \* gameturbo.deploy_max_ai_retries
          Proposals,    \* the patches and
          Repairs,      \* the deploy fixes the model may come up with
          Starts,       \* what games/gameturbo_{gid}_*.json may be at first
          None

ASSUME CountsAssumption ==
  Limit \in Nat \ {0} /\ PatchTries \in Nat \ {0} /\ DeployTries \in Nat \ {0}
ASSUME DataAssumption ==
  Proposals \subseteq Patches /\ Repairs \subseteq Fixes /\ Starts \subseteq Configs
ASSUME NoneAssumption ==
  None \notin Configs \union Codes \union {"passed", "failed", "raised"}

VARIABLES
  start,        \* the configuration before the task, and
  retryOn,      \* modules.retry_on_failure: both fixed
  pc, retry,
  games,        \* the configuration file in games/
  deployed,     \* what the installed game was built with
  baseline,     \* config_backups/gameturbo_baseline.json
  before, after,\* before_attempt_n.json and after_patch_attempt_n.json
  journal,      \* config_retry_journal.jsonl
  failure,      \* the reason, the class of the exception and its message
  verdict,      \* the code, last of the attempt, then of Modify
  hint,         \* the attempt _last_blocked_stage_hint is about
  log,          \* what gameturbo.log of the attempt holds
  analysed,     \* domain_region_analysis.json of the attempt is there
  restored,     \* restored_from
  patch, tries,
  thisRound,    \* the edits of this round alone, on top of the start
  outcome

given == <<start, retryOn>>
files == <<games, baseline, before, after, journal>>
judged == <<failure, verdict, hint>>
evidence == <<log, analysed>>
round == <<restored, patch, thisRound>>
vars == <<given, pc, retry, files, deployed, judged, evidence, round, tries, outcome>>

Attempts == 1..(Limit + 1)
Failed(reason, class, msg) == [reason |-> reason, class |-> class, msg |-> msg]

\* What _run_parallel_game_phase may return.
ServerCheckFailed == Text(NoCode, {"E2006"})
PhaseReasons ==
  {Text("E1009", {}), Text(NoCode, {"anomaly", "download", "network"}),
   Text(NoCode, {"network", "session"}), Text(NoCode, {"timeout"}),
   Text(NoCode, {"local"}), Text(NoCode, {"network"}), ServerCheckFailed}

\* What the stages before it may raise, behind the label of the handler.
InitFailures ==
  LET label == Text(NoCode, {"plugin", "fails"})
  IN  {Failed(label, "other", Text(NoCode, marks)) :
         marks \in {{}, {"network"}, {"local", "absent"}}}
      \union {Failed(label, "NameError", Text(NoCode, {"local", "name"})),
              Failed(Text(NoCode, {"deploy", "fails"}), "DeployPhase",
                     Text(NoCode, {"deploy"}))}

Entries == [failed_attempt : Attempts, next_attempt : Attempts, blocked : Attempts,
            restored_from : {"", "before", "baseline"}, patch : Patches]

TypeOK ==
  /\ start \in Configs /\ retryOn \in BOOLEAN
  /\ pc \in {"attempt", "failed", "cleanup", "prepare", "analyse", "ask", "apply",
             "deploy", "repair", "done"}
  /\ retry \in 1..Limit
  /\ games \in Configs /\ deployed \in Configs \union {None}
  /\ baseline \in Configs \union {None}
  /\ before \in [Attempts -> Configs \union {None}]
  /\ after \in [Attempts -> Configs \union {None}]
  /\ journal \in Seq(Entries)
  /\ verdict \in Codes \union {None}
  /\ hint \in 0..Limit
  /\ log \subseteq {"marker", "line"} /\ analysed \in BOOLEAN
  /\ restored \in {"", "before", "baseline"}
  /\ patch \in Patches \union {None}
  /\ tries \in 0..(PatchTries + DeployTries)
  /\ thisRound \in Configs
  /\ outcome \in {None, "passed", "failed", "raised"}

Init ==
  /\ start \in Starts /\ retryOn \in BOOLEAN
  /\ pc = "attempt" /\ retry = 1
  /\ games = start /\ thisRound = start
  /\ deployed = None \* the first attempt plays what it finds installed
  /\ baseline = None
  /\ before = [n \in Attempts |-> None] /\ after = [n \in Attempts |-> None]
  /\ journal = << >>
  /\ failure = None /\ verdict = None /\ hint = 0
  /\ log = {} /\ analysed = FALSE
  /\ restored = "" /\ patch = None /\ tries = 0
  /\ outcome = None

-----------------------------------------------------------------------------
(* The attempt and the verdict.                                            *)

End(how) == pc' = "done" /\ outcome' = how

GiveOld(code) == verdict' = verdict /\ End("failed")

\* The deliverable then holds the final code.
Give(code) == verdict' = code /\ End("failed")

Pass ==
  /\ pc = "attempt"
  /\ End("passed")
  /\ UNCHANGED <<given, retry, files, deployed, judged, evidence, round, tries>>

\* Only here is the hint about the blocked stage renewed.
PhaseFails ==
  /\ pc = "attempt"
  /\ \E reason \in PhaseReasons : failure' = Failed(reason, None, None)
  /\ hint' = retry
  /\ pc' = "failed"
  /\ UNCHANGED <<given, retry, files, deployed, verdict, evidence, round, tries, outcome>>

InitFails ==
  /\ pc = "attempt"
  /\ failure' \in InitFailures
  /\ pc' = "failed"
  /\ UNCHANGED <<given, retry, files, deployed, verdict, hint, evidence, round, tries,
                 outcome>>

CodeOf(f) == IF f.class = None THEN ClassifyText(f.reason)
             ELSE ClassifyException(f.class, f.reason, f.msg)

\* _on_attempt_failure.
Decide ==
  /\ pc = "failed"
  /\ verdict' = CodeOf(failure)
  /\ pc' = "cleanup"
  /\ UNCHANGED <<given, retry, files, deployed, failure, hint, evidence, round, tries,
                 outcome>>

WillRetry == verdict \in Network /\ retryOn /\ retry < Limit

\* What the device still holds goes into the log, behind the marker of the stage;
\* an analysis of its domains that fails is only logged.
Collect == log' \in {{"marker"}, {"marker", "line"}} /\ analysed' \in BOOLEAN

\* FailureCleanup, then Modify or the end.
CleanUp ==
  /\ pc = "cleanup"
  /\ Collect
  /\ \/ WillRetry /\ pc' = "prepare" /\ UNCHANGED <<verdict, outcome>>
     \/ ~WillRetry /\ Give(ClassifyText(Format(verdict, failure.reason)))
  /\ UNCHANGED <<given, retry, files, deployed, failure, hint, round, tries>>

-----------------------------------------------------------------------------
(* Modify.                                                                 *)

\* restore_before_new_patch: the first round has nothing to take back.
RestoredFrom ==
  IF retry < 2 THEN "" ELSE IF before[retry] # None THEN "before" ELSE "baseline"

Restored ==
  CASE RestoredFrom = ""         -> games
    [] RestoredFrom = "before"   -> before[retry]
    [] RestoredFrom = "baseline" -> baseline

\* ensure_baseline_copy: the first one stays.
BaselineFrom(config) == IF baseline = None THEN config ELSE baseline

\* before_attempt_n.json and after_patch_attempt_n.json.
BackUpBefore(n, config) == before' = [before EXCEPT ![n] = config]
BackUpAfter(n, config) == after' = [after EXCEPT ![n] = config]

PrepareKept ==
  /\ pc = "prepare"
  /\ restored' = ""
  /\ baseline' = BaselineFrom(games)
  /\ BackUpBefore(retry + 1, games)
  /\ thisRound' = start
  /\ pc' = "analyse"
  /\ UNCHANGED <<given, retry, games, after, journal, deployed, judged, evidence, patch,
                 tries, outcome>>

PrepareMisnamed ==
  /\ pc = "prepare"
  /\ restored' = RestoredFrom
  /\ games' = Restored
  /\ baseline' = BaselineFrom(games')
  /\ BackUpBefore(retry, games')
  /\ thisRound' = start
  /\ pc' = "analyse"
  /\ UNCHANGED <<given, retry, after, journal, deployed, judged, evidence, patch, tries,
                 outcome>>

\* prepare_modify_stage: restore, then back up for the next round.  Without
\* backup and baseline the code fails on an undefined name; RestoreFindsBackup
\* says that it does not get there.
Prepare ==
  /\ pc = "prepare"
  /\ restored' = RestoredFrom
  /\ games' = Restored
  /\ baseline' = BaselineFrom(games')
  /\ BackUpBefore(retry + 1, games')
  /\ thisRound' = start
  /\ pc' = "analyse"
  /\ UNCHANGED <<given, retry, after, journal, deployed, judged, evidence, patch, tries,
                 outcome>>

\* _require_domain_analysis_json: the file of the cleanup, or a second try on
\* a log that must not be empty.
Analyse ==
  /\ pc = "analyse"
  /\ analysed' \in {analysed, log # {}}
  /\ tries' = 1
  /\ \/ analysed' /\ pc' = "ask" /\ UNCHANGED <<verdict, outcome>>
     \/ ~analysed' /\ Give("E1006")
  /\ UNCHANGED <<given, retry, files, deployed, failure, hint, log, round>>

\* The structured answer of the model, any patch it may come up with.
Propose == patch' \in Proposals

\* _run_ai_patch: only a failed request is repeated.
Ask ==
  /\ pc = "ask"
  /\ \/ /\ Propose
        /\ pc' = "apply"
        /\ UNCHANGED <<tries, verdict, outcome>>
     \/ /\ tries < PatchTries
        /\ tries' = tries + 1
        /\ UNCHANGED <<pc, patch, verdict, outcome>>
     \/ /\ tries = PatchTries
        /\ Give("E1003")
        /\ UNCHANGED <<tries, patch>>
  /\ UNCHANGED <<given, retry, files, deployed, failure, hint, evidence, restored,
                 thisRound>>

\* A line of config_retry_journal.jsonl.
Record(entry) == journal' = Append(journal, entry)

Entry(n) == [failed_attempt |-> n, next_attempt |-> n + 1, restored_from |-> restored,
             blocked |-> IF hint = 0 THEN n ELSE hint, patch |-> patch]

ApplyBackedUpEarly ==
  /\ pc = "apply"
  /\ Actionable(patch) /\ ApplyPatch(games, patch) # games
  /\ games' = ApplyPatch(games, patch)
  /\ thisRound' = ApplyPatch(thisRound, patch)
  /\ BackUpAfter(retry + 1, games)
  /\ Record(Entry(retry))
  /\ tries' = 1
  /\ pc' = "deploy"
  /\ UNCHANGED <<given, retry, baseline, before, deployed, judged, evidence, restored,
                 patch, outcome>>

\* A patch that proposes or changes nothing ends the run, any other is written
\* and recorded.
Apply ==
  /\ pc = "apply"
  /\ \/ /\ ~Actionable(patch) \/ ApplyPatch(games, patch) = games
        /\ Give("E1006")
        /\ UNCHANGED <<games, thisRound, after, journal, tries>>
     \/ /\ Actionable(patch) /\ ApplyPatch(games, patch) # games
        /\ games' = ApplyPatch(games, patch)
        /\ thisRound' = ApplyPatch(thisRound, patch)
        /\ BackUpAfter(retry + 1, games')
        /\ Record(Entry(retry))
        /\ tries' = 1
        /\ pc' = "deploy"
        /\ UNCHANGED <<verdict, outcome>>
  /\ UNCHANGED <<given, retry, baseline, before, deployed, failure, hint, evidence,
                 restored, patch>>

\* One run of deploy.sh; the last failure, an interrupt or an exception nobody
\* expects leaves run() without a verdict.
Deploy ==
  /\ pc = "deploy"
  /\ \/ /\ deployed' = games
        /\ retry' = retry + 1
        /\ pc' = "attempt"
        /\ log' = {} /\ analysed' = FALSE
        /\ UNCHANGED outcome
     \/ tries < DeployTries /\ pc' = "repair" /\ UNCHANGED <<retry, deployed, evidence, outcome>>
     \/ End("raised") /\ UNCHANGED <<retry, deployed, evidence>>
  /\ UNCHANGED <<given, files, judged, round, tries>>

\* analyze_deploy_failure: a fix is applied, or the deploy is only repeated.
Repair ==
  /\ pc = "repair"
  /\ \/ \E fix \in Repairs : /\ games' = ApplyFix(games, fix)
                             /\ thisRound' = ApplyFix(thisRound, fix)
     \/ UNCHANGED <<games, thisRound>>
  /\ tries' = tries + 1
  /\ pc' = "deploy"
  /\ UNCHANGED <<given, retry, baseline, before, after, journal, deployed, judged,
                 evidence, restored, patch, outcome>>

Step ==
  \/ Pass \/ PhaseFails \/ InitFails \/ Decide \/ CleanUp
  \/ Prepare \/ Analyse \/ Ask \/ Apply \/ Deploy \/ Repair

Terminated == pc = "done" /\ UNCHANGED vars

Next == Step \/ Terminated

Spec == Init /\ [][Next]_vars

-----------------------------------------------------------------------------
(* Properties.                                                             *)

\* Every round starts over: the game an attempt plays after a Modify round was
\* built with the first configuration and the edits of that round alone, its
\* patch and its deploy fixes ("first take back the last patch").
RoundsDoNotPileUp ==
  pc = "attempt" /\ retry > 1 => deployed = thisRound /\ games = deployed

\* The roll-back finds its file.
RestoreFindsBackup == pc = "prepare" /\ retry > 1 => before[retry] # None

\* What the executor of an attempt is told of the last patch is true of the game
\* it plays, and the backup of that round holds what was there before it.
BriefIsOfThisRound ==
  pc = "attempt" /\ retry > 1 =>
    /\ journal # << >>
    /\ LET last == journal[Len(journal)]
       IN  /\ last.next_attempt = retry
           /\ last.patch.direct_patterns \subseteq deployed.direct_patterns
           /\ before[retry] = start
           /\ after[retry] = ApplyPatch(start, last.patch)

\* A task is given up with an E2 code only when no attempt is left; a failure
\* of Modify itself is never published as one of the network.
NetworkOnlyWhenExhausted ==
  outcome = "failed" /\ verdict \in Network => retry = Limit \/ ~retryOn

\* README, table of the codes: a failed server selection is E2006.
ServerCheckIsE2006 ==
  outcome = "failed" /\ retry = 1 /\ failure.reason = ServerCheckFailed
    => verdict = "E2006"
=============================================================================
