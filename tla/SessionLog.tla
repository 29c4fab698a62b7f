----------------------------- MODULE SessionLog -----------------------------
(***************************************************************************)
(* Who writes gameturbo.log while a game is tested: the session            *)
(* coordinator, which looks for the game process and starts a new session  *)
(* when the game restarted (controllers/session_controller.py), the log    *)
(* monitor, which appends what `logcat` streams (controllers/              *)
(* log_monitor_controller.py), the executor thread, which fetches the      *)
(* device buffer before every classification (services/gameturbo_log.py,   *)
(* tail_gameturbo_log_lines), and the finalization after the phase.        *)
(*                                                                         *)
(* The coordinator and the log monitor share an event loop: the monitor    *)
(* moves only while the coordinator sleeps.  The executor is a thread and  *)
(* moves between any two file operations; there is no lock.  (A step that  *)
(* reads the file and writes it anew is one operation here: in the code,   *)
(* what the executor appends within one is lost, a line of its own dump    *)
(* and never one of the monitor's, who does not move then.)                *)
(*                                                                         *)
(* A line is its timestamp, the key it is deduplicated by.  A file is, for *)
(* every line, how often it is in it: 0, 1, or 2 for more than once.       *)
(***************************************************************************)
EXTENDS Naturals

CONSTANTS
  MaxLines,        \* bound: lines the plugin writes
  MaxStarts,       \* bound: starts of the game process
  MaxOutages,      \* bound: deaths of the game, and losses of adb
  Absence,         \* session_absent_threshold_s in poll intervals
  MaxRestarts,     \* game.max_session_restarts, 0 for no limit
  ClearOnRestart   \* game.clear_logcat_on_session_restart

ASSUME SessionAssumption ==
  /\ MaxLines \in Nat /\ MaxStarts \in Nat /\ MaxOutages \in Nat
  /\ Absence \in Nat \ {0} /\ MaxRestarts \in Nat
  /\ ClearOnRestart \in BOOLEAN

Line == 1..MaxLines
Session == Nat \ {0}
File == [Line -> 0..2]
Empty == [l \in Line |-> 0]

NoPid == <<"none", 0>>
Pid == {NoPid} \cup ({"main", "child"} \X (1..MaxStarts))

VARIABLES
  \* the device
  emitted,    \* lines written so far
  cleared,    \* lines the last logcat -c removed: the buffer holds the rest
  main,       \* the running main process of the game, 0 for none
  child,      \* the start a surviving subprocess belongs to, 0 for none
  starts,     \* how often the game was started
  \* the coordinator
  pcC,        \* watch (sleeping), rotate, truncate, clear, snapshot, compare, over
  hadRunning, lastPid,
  pids,       \* the primary pid this poll found, while it is handled
  absentFor,  \* polls since the process was first missed, 0 when it is not
  session,    \* ObserverSessionState.session_index; restarts_count is one less
  \* the log monitor
  pcM,        \* start, head, stream, reading, ended, off
  restart,    \* _restart_requested
  seen,       \* seen_keys
  pos,        \* the next line the stream delivers
  tail,       \* what the executor thread is about to append
  \* the finalization
  pcF,        \* wait, merge, done
  dumpF,      \* what the last one fetched
  \* shared
  active,     \* gameturbo.log
  archives,   \* of every earlier session the lines of its gameturbo_session_NNN.log
  stop,       \* AttemptContext.stop_all
  monitoring, \* ObserverSessionState.monitoring_enabled
  written,    \* history: the lines the log monitor appended
  outages     \* history: absences the coordinator may see

device == <<emitted, cleared, main, child, starts, outages>>
locals == <<hadRunning, lastPid, pids, absentFor>>
watcher == <<pcC, locals, session>>
monitor == <<pcM, restart, seen, pos, written>>
final == <<pcF, dumpF>>
flags == <<stop, monitoring>>
vars == <<device, watcher, monitor, tail, final, active, archives, flags>>

Lines(file) == {l \in Line : file[l] > 0}
Once(set) == [l \in Line |-> IF l \in set THEN 1 ELSE 0]
More(n) == IF n = 0 THEN 1 ELSE 2

\* append_gameturbo_line and _append_unique_lines, duplicates left out before.
Appended(file, set) == [l \in Line |-> IF l \in set THEN More(file[l]) ELSE file[l]]

\* logcat -d: what the ring buffer holds; nothing when it times out.
Buffer == {l \in Line : cleared < l /\ l <= emitted}
Dumps == {Buffer, {}}

TypeOK ==
  /\ emitted \in 0..MaxLines /\ cleared \in 0..emitted
  /\ main \in 0..starts /\ child \in 0..starts /\ starts \in 0..MaxStarts
  /\ pcC \in {"watch", "rotate", "truncate", "clear", "snapshot", "compare", "over"}
  /\ hadRunning \in BOOLEAN /\ lastPid \in Pid /\ pids \in Pid
  /\ absentFor \in 0..Absence
  /\ session \in Session
  /\ pcM \in {"start", "head", "stream", "reading", "ended", "off"}
  /\ restart \in BOOLEAN
  /\ seen \subseteq Line /\ tail \subseteq Line
  /\ dumpF \subseteq Line
  /\ pos \in 1..(MaxLines + 1)
  /\ pcF \in {"wait", "merge", "done"}
  /\ active \in File /\ archives \in [1..(IF pcC = "rotate" THEN session - 2 ELSE session - 1) -> SUBSET Line]
  /\ stop \in BOOLEAN /\ monitoring \in BOOLEAN
  /\ written \subseteq Line /\ outages \in Nat

\* before_parallel_phase has cleared the buffer and written a snapshot.
Init ==
  /\ emitted = 0 /\ cleared = 0
  /\ main = 0 /\ child = 0 /\ starts = 0 /\ outages = 0
  /\ pcC = "watch" /\ hadRunning = FALSE /\ lastPid = NoPid /\ pids = NoPid
  /\ absentFor = 0
  /\ session = 1
  /\ pcM = "start" /\ restart = FALSE /\ seen = {} /\ pos = 1 /\ written = {}
  /\ tail = {}
  /\ pcF = "wait" /\ dumpF = {}
  /\ active = Empty /\ archives = [s \in {} |-> Empty]
  /\ stop = FALSE /\ monitoring = TRUE

-----------------------------------------------------------------------------
(* The device.  The processes of the game are followed as long as the       *)
(* coordinator looks at them.                                              *)

Emit ==
  /\ main > 0 /\ emitted < MaxLines /\ pcF = "wait"
  /\ emitted' = emitted + 1
  /\ UNCHANGED <<cleared, main, child, starts, outages, watcher, monitor, tail,
                 final, active, archives, flags>>

GameStarts ==
  /\ pcC # "over"
  /\ main = 0 /\ starts < MaxStarts
  /\ starts' = starts + 1
  /\ main' = starts + 1
  /\ UNCHANGED <<emitted, cleared, child, outages, watcher, monitor, tail, final, active,
                 archives, flags>>

\* A subprocess of the package may outlive the main process: once pidof
\* finds nothing, pgrep -f finds it, and it looks like another main process.
GameDies ==
  /\ pcC # "over"
  /\ main > 0 /\ outages < MaxOutages
  /\ main' = 0
  /\ \/ child' = 0 /\ outages' = outages + 1
     \/ child' = main /\ outages' = outages + 2
  /\ UNCHANGED <<emitted, cleared, starts, watcher, monitor, tail, final, active,
                 archives, flags>>

ChildDies ==
  /\ pcC # "over"
  /\ child > 0
  /\ child' = 0
  /\ UNCHANGED <<emitted, cleared, main, starts, outages, watcher, monitor, tail,
                 final, active, archives, flags>>

-----------------------------------------------------------------------------
(* The session coordinator.                                                *)

\* get_package_pids and primary_package_pid.
Primary ==
  IF main > 0 THEN <<"main", main>>
  ELSE IF child > 0 THEN <<"child", child>>
  ELSE NoPid

CameBack == hadRunning /\ absentFor >= Absence

\* package_primary_pid_changed, asked when there is no open absence.
PidChanged(pid) == hadRunning /\ lastPid # NoPid /\ lastPid # pid

SeesRunningOnly(pid) == lastPid' = IF pid = NoPid THEN lastPid ELSE pid

Sees(pid) == lastPid' = pid

\* The second question of a poll, and what it remembers for the next one.
Compare(pid) ==
  /\ hadRunning' = TRUE
  /\ Sees(pid)
  /\ pids' = NoPid
  /\ absentFor' = 0
  /\ IF PidChanged(pid) THEN pcC' = "rotate" /\ session' = session + 1
                        ELSE pcC' = "watch" /\ UNCHANGED session

\* A poll that finds the process: it came back after an absence, or it is
\* compared with the last one found.
PollRunning ==
  /\ pcC = "watch" /\ ~stop /\ monitoring
  /\ Primary # NoPid
  /\ \/ /\ CameBack
        /\ pcC' = "rotate" /\ session' = session + 1
        /\ pids' = Primary
        /\ absentFor' = 0
        /\ UNCHANGED <<hadRunning, lastPid>>
     \/ ~CameBack /\ Compare(Primary)
  /\ UNCHANGED <<device, monitor, tail, final, active, archives, flags>>

\* After the restart for an absence the same poll goes on.
ComparePids ==
  /\ pcC = "compare"
  /\ Compare(pids)
  /\ UNCHANGED <<device, monitor, tail, final, active, archives, flags>>

\* A poll that does not.  get_package_pids swallows every error: a device that
\* does not answer looks like a game that is gone.
PollAbsent ==
  /\ pcC = "watch" /\ ~stop /\ monitoring
  /\ \/ Primary = NoPid /\ UNCHANGED outages
     \/ Primary # NoPid /\ absentFor > 0 /\ UNCHANGED outages
     \/ Primary # NoPid /\ absentFor = 0 /\ outages < MaxOutages /\ outages' = outages + 1
  /\ Sees(NoPid)
  /\ absentFor' = IF hadRunning /\ absentFor < Absence THEN absentFor + 1 ELSE absentFor
  /\ UNCHANGED <<emitted, cleared, main, child, starts, pcC, hadRunning, pids, session, monitor,
                 tail, final, active, archives, flags>>

ArchivedInOne(earlier) == [s \in 1..(session - 1) |-> Lines(active)]

\* The archive of a session is named by its index; an empty log has none.
Archived(earlier) == [s \in 1..(session - 1) |-> IF s = session - 1 THEN Lines(active) ELSE earlier[s]]

\* rotate_gameturbo_log: the log is copied ...
RotateLog ==
  /\ pcC = "rotate"
  /\ archives' = Archived(archives)
  /\ pcC' = "truncate"
  /\ UNCHANGED <<device, locals, session, monitor, tail, final, active, flags>>

\* ... then emptied, with what the executor appended in between.
TruncateLog ==
  /\ pcC = "truncate"
  /\ active' = Empty
  /\ pcC' = "clear"
  /\ UNCHANGED <<device, locals, session, monitor, tail, final, archives, flags>>

\* clear_device_logcat; a time-out is swallowed.  Lines the open stream has
\* not delivered may be in its pipe or may be gone.
ClearBuffer ==
  /\ pcC = "clear"
  /\ \/ UNCHANGED <<cleared, pos>>
     \/ ClearOnRestart /\ cleared' = emitted /\ pos' \in {pos, emitted + 1}
  /\ pcC' = "snapshot"
  /\ UNCHANGED <<emitted, main, child, starts, outages, locals, session, pcM, restart, seen, written, tail, final, active, archives, flags>>

LocalsDropped ==
  hadRunning' = FALSE /\ lastPid' = NoPid /\ pids' = NoPid /\ absentFor' = 0

LimitReached == MaxRestarts > 0 /\ session - 1 >= MaxRestarts

\* bootstrap_gameturbo_log overwrites; the monitor is told to start a new
\* stream; at the limit the watch fails, which makes the phase stop.
Snapshot ==
  /\ pcC = "snapshot"
  /\ \E dump \in Dumps : active' = Once(dump)
  /\ restart' = TRUE
  /\ IF LimitReached
       THEN pcC' = "over" /\ LocalsDropped /\ stop' = TRUE
       ELSE /\ pcC' = IF pids = NoPid THEN "watch" ELSE "compare"
            /\ UNCHANGED <<locals, stop>>
  /\ UNCHANGED <<device, session, pcM, seen, pos, written, tail, final, archives,
                 monitoring>>

StopWatching ==
  /\ pcC = "watch" /\ (stop \/ ~monitoring)
  /\ pcC' = "over" /\ LocalsDropped
  /\ UNCHANGED <<device, session, monitor,
                 tail, final, active, archives, flags>>

Coordinator ==
  \/ RotateLog \/ TruncateLog \/ ClearBuffer \/ Snapshot \/ ComparePids \/ StopWatching

-----------------------------------------------------------------------------
(* The log monitor.                                                        *)

\* The event loop is free.
LoopFree == pcC \in {"watch", "over"}

StreamDropped == seen' = {} /\ pos' = 1

Start ==
  /\ LoopFree /\ pcM = "start"
  /\ seen' = Lines(active)
  /\ pcM' = "head"
  /\ UNCHANGED <<device, watcher, restart, pos, written, tail, final, active, archives,
                 flags>>

\* The head of run_until_anomaly: after a restart the keys of the new log are
\* read.  A new logcat begins with what the buffer holds.
NextStream ==
  /\ LoopFree /\ pcM = "head"
  /\ IF stop
       THEN pcM' = "off" /\ StreamDropped /\ UNCHANGED restart
       ELSE /\ pcM' = "stream"
            /\ restart' = FALSE
            /\ seen' = IF restart THEN Lines(active) ELSE seen
            /\ pos' = cleared + 1
  /\ UNCHANGED <<device, watcher, written, tail, final, active, archives, flags>>

AskUntilRestart ==
  /\ LoopFree /\ pcM = "stream"
  /\ pcM' = IF restart THEN "ended" ELSE "reading"
  /\ UNCHANGED <<device, watcher, restart, seen, pos, written, tail, final, active,
                 archives, flags>>

AskForLine ==
  /\ LoopFree /\ pcM = "stream"
  /\ pcM' = IF stop \/ restart THEN "ended" ELSE "reading"
  /\ UNCHANGED <<device, watcher, restart, seen, pos, written, tail, final, active,
                 archives, flags>>

\* readline returns a line; neither flag is looked at before it is appended.
TakeLine ==
  /\ LoopFree /\ pcM = "reading" /\ pos <= emitted
  /\ pos' = pos + 1
  /\ active' = Appended(active, {pos} \ seen)
  /\ written' = written \cup ({pos} \ seen)
  /\ seen' = seen \cup {pos}
  /\ pcM' = "stream"
  /\ UNCHANGED <<device, watcher, restart, tail, final, archives, flags>>

\* The second of wait_for is over, or logcat ended (adb disconnected).
NoLine ==
  /\ LoopFree /\ pcM = "reading"
  /\ pcM' \in {"stream", "ended"}
  /\ UNCHANGED <<device, watcher, restart, seen, pos, written, tail, final, active,
                 archives, flags>>

\* The process has been terminated.  Without a stop or a restart the end of
\* the stream is an error, which the task signals as fatal.
AfterStream ==
  /\ LoopFree /\ pcM = "ended"
  /\ stop' = (stop \/ ~restart)
  /\ IF stop' THEN pcM' = "off" /\ StreamDropped
              ELSE pcM' = "head" /\ UNCHANGED <<seen, pos>>
  /\ UNCHANGED <<device, watcher, restart, written, tail, final, active, archives,
                 monitoring>>

LogMonitor ==
  Start \/ NextStream \/ AskForLine \/ TakeLine \/ NoLine \/ AfterStream

-----------------------------------------------------------------------------
(* The executor thread: tail_gameturbo_log_lines with a refresh.  It is not *)
(* stopped by the end of the phase.                                        *)

\* The keys of the file and the buffer are read ...
ReadTail ==
  /\ tail = {}
  /\ tail' = Buffer \ Lines(active)
  /\ UNCHANGED <<device, watcher, monitor, final, active, archives, flags>>

\* ... and what the file did not have then is appended.
AppendTail ==
  /\ tail # {}
  /\ active' = Appended(active, tail)
  /\ tail' = {}
  /\ UNCHANGED <<device, watcher, monitor, final, archives, flags>>

Executor == ReadTail \/ AppendTail

-----------------------------------------------------------------------------
(* finalize_gameturbo_log, once the monitors are over; a failed attempt     *)
(* calls it again from its cleanup.                                        *)

\* A log without lines is overwritten, any other one is extended.
FinalAppend ==
  /\ pcF \in {"wait", "done"}
  /\ pcC = "over" /\ pcM = "off"
  /\ dumpF' \in Dumps
  /\ active' = Appended(active, dumpF' \ Lines(active))
  /\ pcF' = "merge"
  /\ UNCHANGED <<device, watcher, monitor, tail, archives, flags>>

AllArchived == UNION {archives[s] : s \in DOMAIN archives}

MergeArchivesOnly ==
  /\ pcF = "merge"
  /\ active' = IF AllArchived = {} THEN active ELSE Once(AllArchived)
  /\ pcF' = "done"
  /\ UNCHANGED <<device, watcher, monitor, tail, dumpF, archives, flags>>

\* merge_gameturbo_session_archives: when there are archives, every line of
\* theirs and of the log once.
Merge ==
  /\ pcF = "merge"
  /\ active' = IF AllArchived = {} THEN active ELSE Once(AllArchived \cup Lines(active))
  /\ pcF' = "done"
  /\ UNCHANGED <<device, watcher, monitor, tail, dumpF, archives, flags>>

Finalize == FinalAppend \/ Merge

\* The phase ends: the normal exit switches the monitoring off first.
EndPhase ==
  /\ ~stop
  /\ \/ stop' = TRUE /\ UNCHANGED monitoring
     \/ monitoring /\ monitoring' = FALSE /\ UNCHANGED stop
  /\ UNCHANGED <<device, watcher, monitor, tail, final, active, archives>>

Next ==
  \/ Emit \/ GameStarts \/ GameDies \/ ChildDies
  \/ PollRunning \/ PollAbsent \/ Coordinator \/ LogMonitor \/ Executor \/ Finalize \/ EndPhase

Spec == Init /\ [][Next]_vars

\* The event loop goes on, subprocess calls have time-outs, and the caller
\* finalizes.
FairSpec == Spec /\ WF_vars(Coordinator) /\ WF_vars(LogMonitor) /\ WF_vars(Finalize)
-----------------------------------------------------------------------------
(* Properties.                                                             *)

\* What the log monitor appended stays in a file, through the rotations, the
\* snapshots that overwrite and the refreshes of the executor thread.
NothingLost == written \subseteq Lines(active) \cup AllArchived

\* The finalized log, which the analysis reads, holds every line the monitor
\* appended in any session and every line the device still had.
FinalLogComplete == pcF = "done" => written \cup dumpF \subseteq Lines(active)

\* A restart is counted at most once for every absence of the game, of its
\* surviving subprocess or of adb: the absence and the change of the pid it
\* comes with are not counted both.
OneRestartPerAbsence == session - 1 <= outages

\* A new session reaches the log monitor: it drops the old stream and reads
\* the keys of the new log, unless it ends; told to stop, coordinator and
\* monitor end and the log is finalized.
MonitorReacts ==
  /\ restart ~> (~restart \/ pcM = "off")
  /\ stop ~> pcF = "done"

\* "Lines that overlap have the same timestamp, one copy is kept"
\* (gameturbo_log_dedup_key).
LineOnce == \A l \in Line : active[l] <= 1
=============================================================================
