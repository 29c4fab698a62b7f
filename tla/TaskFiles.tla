------------------------------ MODULE TaskFiles ------------------------------
(***************************************************************************)
(* The files the tasks of a batch share.  The tasks run side by side, one  *)
(* per device, but there is one artifacts/ directory, with a retry_{n}_    *)
(* {second} in it for every attempt, and one packages/ directory with the  *)
(* APKs of all games (controllers/orchestrator.py, services/               *)
(* task_finalize.py, utils/packages_cleanup.py, external_services/         *)
(* gameturbo/bootstrap.py).                                                *)
(*                                                                         *)
(* How an attempt goes is module AttemptLoop.  A directory is abstracted   *)
(* to the tasks whose logs it holds from the beginning of their attempt    *)
(* on, and to the games whose merged configuration it holds.               *)
(***************************************************************************)
EXTENDS TaskSettings, Sequences, FiniteSets

CONSTANTS
  Task,
  Gid,        \* the games
  MaxDevices, \* how many devices there may be
  MaxClock,   \* bound of the clock, in seconds
  Plugin,     \* external_services.gameturbo.enabled
  MayRaise    \* whether a task may be left by an interrupt or an error

ASSUME FilesAssumption ==
  /\ MaxDevices \in Nat \ {0} /\ MaxClock \in Nat
  /\ Plugin \in BOOLEAN /\ MayRaise \in BOOLEAN

Dir == [retry : 1..MaxRetries, second : 0..MaxClock]
Packages == Gid \X {"source", "output"}

VARIABLES
  clock,
  devices,   \* how many there are: so many tasks run at a time
  gid,       \* [Task -> the game it tests]
  pc,        \* [Task -> where its run() is]
  records,   \* [Task -> Seq(Dir): attempt_records]
  dirs,      \* the directories in artifacts/
  logs,      \* [Dir -> the tasks whose attempt logs it holds]
  config,    \* [Dir -> the games whose merged configuration it holds]
  native,    \* the games with a merged configuration in GameTurbo-Native/
  packages,  \* the APKs in packages/
  archived,  \* [Task -> its attempts whose logs are in run_outputs/]
  published  \* [Task -> None, success or failure: its result.json]

artifacts == <<dirs, logs, config>>
outputs == <<archived, published>>
given == <<devices, gid>>
vars == <<clock, given, pc, records, artifacts, native, packages, outputs>>

TypeOK ==
  /\ clock \in 0..MaxClock
  /\ devices \in 1..MaxDevices
  /\ gid \in [Task -> Gid]
  /\ pc \in [Task -> {"queued", "between", "running", "passed", "archive", "clean",
                      "done", "raised"}]
  /\ records \in [Task -> Seq(Dir)]
  /\ \A t \in Task : Len(records[t]) <= MaxRetries
  /\ dirs \subseteq Dir
  /\ logs \in [Dir -> SUBSET Task]
  /\ config \in [Dir -> SUBSET Gid]
  /\ native \subseteq Gid
  /\ packages \subseteq Packages
  /\ archived \in [Task -> SUBSET (1..MaxRetries)]
  /\ published \in [Task -> {None, "success", "failure"}]

Init ==
  /\ clock = 0
  /\ devices \in 1..MaxDevices
  /\ gid \in [Task -> Gid]
  /\ pc = [t \in Task |-> "queued"]
  /\ records = [t \in Task |-> <<>>]
  /\ dirs = {}
  /\ logs = [d \in Dir |-> {}] /\ config = [d \in Dir |-> {}]
  /\ native \in SUBSET Gid
  /\ packages = {}
  /\ archived = [t \in Task |-> {}]
  /\ published = [t \in Task |-> None]

Goto(t, from, to) == pc[t] \in from /\ pc' = [pc EXCEPT ![t] = to]
Active == {t \in Task : pc[t] \notin {"queued", "done", "raised"}}
Current(t) == records[t][Len(records[t])]

Tick ==
  /\ clock < MaxClock
  /\ clock' = clock + 1
  /\ UNCHANGED <<given, pc, records, artifacts, native, packages, outputs>>

\* cleanup_task_packages: source and output of the game.
CleanPackages(t) ==
  packages' = packages \ (IF Plugin THEN {gid[t]} \X {"source", "output"} ELSE {})

\* A worker takes the task; preprocessing moves the APK of the game into
\* packages/, or into the cache of the task when the plugin is off.
Claim(t) ==
  /\ Cardinality(Active) < devices
  /\ Goto(t, {"queued"}, "between")
  /\ packages' = packages \cup (IF Plugin THEN {<<gid[t], "source">>} ELSE {})
  /\ UNCHANGED <<clock, given, records, artifacts, native, outputs>>

\* Or the preprocessing fails and a failure is published.  There are no attempt
\* records, so nothing in artifacts/ is cleaned, and no gid: what is removed
\* from packages/ is only what is called unknown_gameturbo.
FailEarly(t) ==
  /\ Cardinality(Active) < devices
  /\ Goto(t, {"queued"}, "done")
  /\ published' = [published EXCEPT ![t] = "failure"]
  /\ UNCHANGED <<clock, given, records, artifacts, native, packages, archived>>

\* mkdir(exist_ok=True) of retry_{n}_{stamp}, with process.log and audit/ in it.
BeginAttempt(t) ==
  LET d == [retry |-> Len(records[t]) + 1, second |-> clock] IN
  /\ Len(records[t]) < MaxRetries
  /\ Goto(t, {"between"}, "running")
  /\ records' = [records EXCEPT ![t] = Append(@, d)]
  /\ dirs' = dirs \cup {d}
  /\ logs' = [logs EXCEPT ![d] = @ \cup {t}]
  /\ UNCHANGED <<clock, given, config, native, packages, outputs>>

\* The pipeline trace, screenshots and gameturbo.log make their directory
\* when it is missing; what was logged before does not come back.
WriteAgain(t) ==
  /\ pc[t] = "running" /\ Current(t) \notin dirs
  /\ dirs' = dirs \cup {Current(t)}
  /\ UNCHANGED <<clock, given, pc, records, logs, config, native, packages, outputs>>

RetryCleansPackages(t) ==
  /\ Plugin /\ Len(records[t]) < MaxRetries
  /\ Goto(t, {"running"}, "between")
  /\ CleanPackages(t)
  /\ UNCHANGED <<clock, given, records, artifacts, native, outputs>>

\* Modify: deploy.sh writes the merged configuration into the directory of
\* the attempt that failed and the APK into packages/, where it is kept for
\* the next attempt.  A copy in GameTurbo-Native is removed.
Retry(t) ==
  /\ Plugin /\ Len(records[t]) < MaxRetries
  /\ Goto(t, {"running"}, "between")
  /\ dirs' = dirs \cup {Current(t)}
  /\ config' = [config EXCEPT ![Current(t)] = @ \cup {gid[t]}]
  /\ native' = native \ {gid[t]}
  /\ packages' = packages \cup {<<gid[t], "output">>}
  /\ UNCHANGED <<clock, given, records, logs, outputs>>

Pass(t) ==
  /\ Goto(t, {"running"}, "passed")
  /\ UNCHANGED <<clock, given, records, artifacts, native, packages, outputs>>

\* find_merged_config_for_deliverable; a configuration without a gid in its
\* name is written by no run.
ConfigFound(t) == gid[t] \in config[Current(t)] \cup native

PublishSuccess(t) ==
  /\ pc[t] = "passed"
  /\ IF Plugin /\ ~ConfigFound(t)
       THEN \* RuntimeError, before anything is published or cleaned
            /\ Goto(t, {"passed"}, "raised")
            /\ UNCHANGED <<packages, published>>
       ELSE /\ Goto(t, {"passed"}, "archive")
            /\ published' = [published EXCEPT ![t] = "success"]
            /\ CleanPackages(t)
  /\ UNCHANGED <<clock, given, records, artifacts, native, archived>>

PublishFailure(t) ==
  /\ Goto(t, {"running"}, "archive")
  /\ published' = [published EXCEPT ![t] = "failure"]
  /\ CleanPackages(t)
  /\ UNCHANGED <<clock, given, records, artifacts, native, archived>>

ArchiveAfterClean(t) ==
  /\ Goto(t, {"archive"}, "clean")
  /\ dirs' = {}
  /\ logs' = [d \in Dir |-> {}] /\ config' = [d \in Dir |-> {}]
  /\ archived' = [archived EXCEPT ![t] =
                    {a \in 1..Len(records[t]) : t \in logs'[records[t][a]]}]
  /\ UNCHANGED <<clock, given, records, native, packages, published>>

\* archive_attempt_logs copies what is there.
Archive(t) ==
  /\ Goto(t, {"archive"}, "clean")
  /\ archived' = [archived EXCEPT ![t] =
                    {a \in 1..Len(records[t]) : t \in logs[records[t][a]]}]
  /\ UNCHANGED <<clock, given, records, artifacts, native, packages, published>>

CleanLast(t) ==
  /\ Goto(t, {"clean"}, "done")
  /\ dirs' = dirs \ {Current(t)}
  /\ logs' = [logs EXCEPT ![Current(t)] = {}]
  /\ UNCHANGED <<clock, given, records, config, native, packages, outputs>>

\* cleanup_task_artifacts: the directories of the records, and then every
\* other retry_* and run_* there is.
Clean(t) ==
  /\ Goto(t, {"clean"}, "done")
  /\ dirs' = {}
  /\ logs' = [d \in Dir |-> {}] /\ config' = [d \in Dir |-> {}]
  /\ UNCHANGED <<clock, given, records, native, packages, outputs>>

\* An interrupt or an error that run() does not handle.
Abandon(t) ==
  /\ MayRaise
  /\ Goto(t, {"between", "running", "passed"}, "raised")
  /\ UNCHANGED <<clock, given, records, artifacts, native, packages, outputs>>

TaskStep(t) ==
  \/ Claim(t) \/ FailEarly(t) \/ BeginAttempt(t) \/ WriteAgain(t) \/ Retry(t)
  \/ Pass(t) \/ PublishSuccess(t) \/ PublishFailure(t) \/ Archive(t) \/ Clean(t)
  \/ Abandon(t)

Over == \A t \in Task : pc[t] \in {"done", "raised"}

Next == Tick \/ (\E t \in Task : TaskStep(t)) \/ (Over /\ UNCHANGED vars)

Spec == Init /\ [][Next]_vars
-----------------------------------------------------------------------------
(* Properties.                                                             *)

\* The logs of every attempt of a finished task are in run_outputs/.
KeepsLogs ==
  \A t \in Task :
    pc[t] \in {"clean", "done"} => archived[t] = 1..Len(records[t])

\* With one device they are, whatever the tasks before did with artifacts/.
KeepsLogsAlone == devices = 1 => KeepsLogs

\* Nothing of the attempts stays behind a batch whose tasks all finished,
\* however their sweeps interleave with directories that are made again.
NoLeftovers == (\A t \in Task : pc[t] = "done") => dirs = {}

\* While a task may still need the APK it came with, it is in packages/: what
\* one task cleans is not what another waits to install, unless both test the
\* same game at the same time.
SourceStays ==
  \A t \in Task :
    /\ Plugin /\ pc[t] \in {"between", "running"}
    /\ devices = 1 \/ \A u \in Task \ {t} : gid[u] # gid[t]
    => <<gid[t], "source">> \in packages
=============================================================================
