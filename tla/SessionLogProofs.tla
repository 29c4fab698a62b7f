-------------------------- MODULE SessionLogProofs ---------------------------
(***************************************************************************)
(* Proofs about SessionLog: the types, what becomes of a line the log      *)
(* monitor has appended, and how restarts are counted.                     *)
(***************************************************************************)
EXTENDS SessionLog, TLAPS

-----------------------------------------------------------------------------
(* Files and pids.                                                         *)

LEMMA FileLines ==
  /\ Empty \in File /\ Lines(Empty) = {}
  /\ \A S \in SUBSET Line : Once(S) \in File /\ Lines(Once(S)) = S
  /\ \A f \in File : \A S \in SUBSET Line :
       Appended(f, S) \in File /\ Lines(Appended(f, S)) = Lines(f) \cup S
  /\ \A f \in File : Lines(f) \subseteq Line
<1>1. Empty \in File /\ Lines(Empty) = {}
  BY DEF Empty, File, Lines
<1>2. ASSUME NEW S \in SUBSET Line PROVE Once(S) \in File /\ Lines(Once(S)) = S
  BY DEF Once, File, Lines
<1>3. ASSUME NEW f \in File, NEW S \in SUBSET Line
      PROVE  Appended(f, S) \in File /\ Lines(Appended(f, S)) = Lines(f) \cup S
  <2>1. Appended(f, S) \in File
    BY DEF Appended, File, More
  <2>2. ASSUME NEW l \in Line PROVE Appended(f, S)[l] > 0 <=> f[l] > 0 \/ l \in S
    BY DEF Appended, File, More
  <2> QED BY <2>1, <2>2 DEF Lines
<1> QED BY <1>1, <1>2, <1>3 DEF Lines

LEMMA PrimaryType ==
  ASSUME TypeOK
  PROVE  Primary \in Pid /\ (Primary = NoPid <=> main = 0 /\ child = 0) /\ NoPid \in Pid
<1>1. main \in Nat /\ child \in Nat /\ main <= MaxStarts /\ child <= MaxStarts
  BY SessionAssumption DEF TypeOK
<1>2. CASE main > 0
  <2>1. <<"main", main>> \in Pid /\ <<"main", main>> # NoPid
    BY <1>1, <1>2, SessionAssumption DEF Pid, NoPid
  <2> QED BY <1>1, <1>2, <2>1 DEF Primary, Pid
<1>3. CASE main = 0 /\ child > 0
  <2>1. <<"child", child>> \in Pid /\ <<"child", child>> # NoPid
    BY <1>1, <1>3, SessionAssumption DEF Pid, NoPid
  <2> QED BY <1>1, <1>3, <2>1 DEF Primary, Pid
<1>4. CASE main = 0 /\ child = 0
  BY <1>4 DEF Primary, Pid
<1> QED BY <1>1, <1>2, <1>3, <1>4

LEMMA DumpsType == ASSUME TypeOK PROVE \A d \in Dumps : d \subseteq Line
BY DEF Dumps, Buffer

-----------------------------------------------------------------------------
(* Types.                                                                  *)

LEMMA InitType == Init => TypeOK
<1> SUFFICES ASSUME Init PROVE TypeOK
  OBVIOUS
<1>1. NoPid \in Pid /\ Empty \in File
  BY FileLines DEF Pid
<1>2. archives \in [1..(session - 1) -> SUBSET Line]
  BY DEF Init
<1>3. /\ emitted \in 0..MaxLines /\ cleared \in 0..emitted
      /\ main \in 0..starts /\ child \in 0..starts /\ starts \in 0..MaxStarts
      /\ absentFor \in 0..Absence /\ pos \in 1..(MaxLines + 1) /\ session \in Session
  BY SessionAssumption DEF Init, Session
<1>4. pcC # "rotate"
  BY DEF Init
<1> QED BY <1>1, <1>2, <1>3, <1>4 DEF Init, TypeOK

LEMMA DeviceType ==
  ASSUME TypeOK, Emit \/ GameStarts \/ GameDies \/ ChildDies \/ EndPhase PROVE TypeOK'
<1> USE SessionAssumption DEF TypeOK, watcher, locals, monitor, final, flags, device
<1>1. CASE Emit
  BY <1>1 DEF Emit
<1>2. CASE GameStarts
  BY <1>2 DEF GameStarts
<1>3. CASE GameDies
  BY <1>3 DEF GameDies
<1>4. CASE ChildDies
  BY <1>4 DEF ChildDies
<1>5. CASE EndPhase
  BY <1>5 DEF EndPhase
<1> QED BY <1>1, <1>2, <1>3, <1>4, <1>5

LEMMA CompareType ==
  ASSUME TypeOK, pcC # "rotate", archives' = archives, NEW pid \in Pid, Compare(pid)
  PROVE  /\ session' \in Session /\ hadRunning' \in BOOLEAN /\ lastPid' \in Pid /\ pids' \in Pid
         /\ absentFor' \in 0..Absence /\ pcC' \in {"rotate", "watch"}
         /\ archives' \in [1..(IF pcC' = "rotate" THEN session' - 2 ELSE session' - 1) -> SUBSET Line]
<1>1. hadRunning' = TRUE /\ lastPid' = pid /\ pids' = NoPid /\ absentFor' = 0
  BY DEF Compare, Sees
<1>2. \/ pcC' = "rotate" /\ session' = session + 1
      \/ pcC' = "watch" /\ session' = session
  BY DEF Compare
<1>3. session \in Nat \ {0} /\ session - 1 = (session + 1) - 2
  BY DEF TypeOK, Session
<1>4. archives' \in [1..(session - 1) -> SUBSET Line]
  BY DEF TypeOK
<1> QED BY <1>1, <1>2, <1>3, <1>4, PrimaryType, SessionAssumption DEF Session

LEMMA CoordinatorType ==
  ASSUME TypeOK, PollRunning \/ PollAbsent \/ Coordinator PROVE TypeOK'
<1> USE SessionAssumption DEF TypeOK, watcher, locals, monitor, final, flags, device, Session
<1>1. Primary \in Pid /\ NoPid \in Pid
  BY PrimaryType
<1>2. CASE PollRunning
  <2>1. CASE Compare(Primary)
    <3>1. /\ session' \in Session /\ hadRunning' \in BOOLEAN /\ lastPid' \in Pid /\ pids' \in Pid
          /\ absentFor' \in 0..Absence /\ pcC' \in {"rotate", "watch"}
          /\ archives' \in [1..(IF pcC' = "rotate" THEN session' - 2 ELSE session' - 1) -> SUBSET Line]
      BY <1>1, <1>2, <2>1, CompareType DEF PollRunning
    <3> QED BY <1>2, <3>1 DEF PollRunning
  <2>2. CASE ~Compare(Primary)
    <3>1. /\ pcC' = "rotate" /\ session' = session + 1 /\ pids' = Primary /\ absentFor' = 0
          /\ UNCHANGED <<hadRunning, lastPid, archives>> /\ pcC = "watch"
      BY <1>2, <2>2 DEF PollRunning
    <3>2. session - 1 = (session + 1) - 2
      OBVIOUS
    <3>3. archives' \in [1..(session' - 2) -> SUBSET Line]
      BY <3>1, <3>2
    <3> QED BY <1>1, <1>2, <3>1, <3>3 DEF PollRunning
  <2> QED BY <2>1, <2>2
<1>3. CASE PollAbsent
  BY <1>1, <1>3 DEF PollAbsent, Sees
<1>4. CASE ComparePids
  <2>1. /\ session' \in Session /\ hadRunning' \in BOOLEAN /\ lastPid' \in Pid /\ pids' \in Pid
        /\ absentFor' \in 0..Absence /\ pcC' \in {"rotate", "watch"}
        /\ archives' \in [1..(IF pcC' = "rotate" THEN session' - 2 ELSE session' - 1) -> SUBSET Line]
    BY <1>4, CompareType DEF ComparePids
  <2> QED BY <1>4, <2>1 DEF ComparePids
<1>5. CASE RotateLog
  <2>1. Lines(active) \subseteq Line
    BY FileLines
  <2>2. archives \in [1..(session - 2) -> SUBSET Line]
    BY <1>5 DEF RotateLog
  <2>3. \A s \in 1..(session - 1) : s # session - 1 => archives[s] \in SUBSET Line
    BY <2>2
  <2>4. archives' \in [1..(session - 1) -> SUBSET Line]
    BY <1>5, <2>1, <2>3 DEF RotateLog, Archived
  <2> QED BY <1>5, <2>4 DEF RotateLog
<1>9. CASE TruncateLog
  <2>1. Empty \in File
    BY FileLines
  <2> QED BY <1>9, <2>1 DEF TruncateLog
<1>6. CASE ClearBuffer
  BY <1>6 DEF ClearBuffer
<1>7. CASE Snapshot
  <2>1. active' \in File
    BY <1>7, DumpsType, FileLines DEF Snapshot
  <2>2. pcC' \in {"over", "watch", "compare"} /\ pcC = "snapshot" /\ session' = session
        /\ archives' = archives
    BY <1>7 DEF Snapshot
  <2>3. hadRunning' \in BOOLEAN /\ lastPid' \in Pid /\ pids' \in Pid /\ absentFor' \in 0..Absence
        /\ stop' \in BOOLEAN
    <3>1. CASE LimitReached
      <4>1. hadRunning' = FALSE /\ lastPid' = NoPid /\ pids' = NoPid /\ absentFor' = 0 /\ stop' = TRUE
        BY <1>7, <3>1 DEF Snapshot, LocalsDropped
      <4>2. 0 \in 0..Absence /\ FALSE \in BOOLEAN /\ TRUE \in BOOLEAN /\ NoPid \in Pid
        BY <1>1
      <4> QED BY <4>1, <4>2, Zenon
    <3>2. CASE ~LimitReached
      BY <1>7, <3>2 DEF Snapshot
    <3> QED BY <3>1, <3>2
  <2> QED BY <1>7, <2>1, <2>2, <2>3 DEF Snapshot
<1>8. CASE StopWatching
  <2>1. /\ pcC = "watch" /\ pcC' = "over" /\ hadRunning' = FALSE /\ lastPid' = NoPid
        /\ pids' = NoPid /\ absentFor' = 0
        /\ UNCHANGED <<device, session, monitor, tail, final, active, archives, flags>>
    BY <1>8 DEF StopWatching, LocalsDropped
  <2>2. 0 \in 0..Absence /\ FALSE \in BOOLEAN /\ NoPid \in Pid
    BY <1>1
  <2>3. archives' \in [1..(session' - 1) -> SUBSET Line]
    BY <2>1
  <2> QED BY <2>1, <2>2, <2>3
<1> QED BY <1>2, <1>3, <1>4, <1>5, <1>6, <1>7, <1>8, <1>9 DEF Coordinator

LEMMA MonitorType == ASSUME TypeOK, LogMonitor PROVE TypeOK'
<1> USE SessionAssumption DEF TypeOK, watcher, locals, monitor, final, flags, device
<1>1. Lines(active) \subseteq Line
  BY FileLines
<1>2. CASE Start
  BY <1>1, <1>2 DEF Start
<1>3. CASE NextStream
  <2>1. CASE stop
    BY <1>3, <2>1 DEF NextStream, StreamDropped
  <2>2. CASE ~stop
    <3>1. /\ pcM' = "stream" /\ restart' = FALSE /\ pos' = cleared + 1
          /\ seen' = Lines(active) \/ seen' = seen
          /\ UNCHANGED <<device, watcher, written, tail, final, active, archives, flags>>
      BY <1>3, <2>2 DEF NextStream
    <3>2. pos' \in 1..(MaxLines + 1) /\ seen' \subseteq Line
      BY <1>1, <3>1
    <3> QED BY <3>1, <3>2
  <2> QED BY <2>1, <2>2
<1>4. CASE AskForLine
  BY <1>4 DEF AskForLine
<1>5. CASE TakeLine
  <2>1. {pos} \subseteq Line
    BY <1>5 DEF TakeLine, Line
  <2>2. active' \in File
    BY <1>5, <2>1, FileLines DEF TakeLine
  <2> QED BY <1>5, <2>1, <2>2 DEF TakeLine
<1>6. CASE NoLine
  BY <1>6 DEF NoLine
<1>7. CASE AfterStream
  BY <1>7 DEF AfterStream, StreamDropped
<1> QED BY <1>2, <1>3, <1>4, <1>5, <1>6, <1>7 DEF LogMonitor

LEMMA WriterType == ASSUME TypeOK, Executor \/ Finalize PROVE TypeOK'
<1> USE SessionAssumption DEF TypeOK, watcher, locals, monitor, final, flags, device
<1>1. CASE ReadTail
  BY <1>1 DEF ReadTail, Buffer
<1>2. CASE AppendTail
  BY <1>2, FileLines DEF AppendTail
<1>3. CASE FinalAppend
  BY <1>3, FileLines, DumpsType DEF FinalAppend
<1>4. CASE Merge
  <2>1. AllArchived \subseteq Line
    BY DEF AllArchived
  <2>2. active' \in File
    BY <1>4, <2>1, FileLines DEF Merge
  <2> QED BY <1>4, <2>2 DEF Merge
<1> QED BY <1>1, <1>2, <1>3, <1>4 DEF Executor, Finalize

LEMMA StepType == TypeOK /\ [Next]_vars => TypeOK'
<1> SUFFICES ASSUME TypeOK, [Next]_vars PROVE TypeOK'
  OBVIOUS
<1>1. CASE UNCHANGED vars
  BY <1>1 DEF vars, TypeOK, watcher, locals, monitor, final, flags, device
<1>2. CASE Next
  BY <1>2, DeviceType, CoordinatorType, MonitorType, WriterType DEF Next
<1> QED BY <1>1, <1>2

\* Types of the variables; the archives are those of the sessions before.
THEOREM TypeCorrect == Spec => []TypeOK
BY InitType, StepType, PTL DEF Spec
-----------------------------------------------------------------------------
(* What becomes of a line.                                                 *)

\* Between the copy of the log and the next stream everything is archived; after
\* the phase the log only grows.
LogInv ==
  /\ pcC = "rotate" => session - 1 \in 1..(session - 1)
  /\ pcC \in {"truncate", "clear", "snapshot"} => written \subseteq AllArchived
  /\ pcF # "wait" => pcC = "over" /\ pcM = "off"
  /\ pcF = "merge" => dumpF \subseteq Lines(active)
  /\ NothingLost
  /\ FinalLogComplete

LEMMA InitLog == Init => LogInv
BY DEF Init, LogInv, NothingLost, FinalLogComplete

LEMMA RotateArchives ==
  ASSUME TypeOK, LogInv, RotateLog PROVE AllArchived' = AllArchived \cup Lines(active)
<1>1. /\ DOMAIN archives = 1..(session - 2) /\ session \in Nat \ {0}
      /\ session - 1 \in 1..(session - 1)
  BY DEF RotateLog, TypeOK, LogInv, Session
<1>2. archives' = [s \in 1..(session - 1) |-> IF s = session - 1 THEN Lines(active) ELSE archives[s]]
  BY DEF RotateLog, Archived
<1>3. /\ DOMAIN archives' = 1..(session - 1) /\ archives'[session - 1] = Lines(active)
      /\ \A s \in 1..(session - 1) : s # session - 1 => archives'[s] = archives[s]
  BY <1>1, <1>2
<1>4. ASSUME NEW l PROVE l \in AllArchived' <=> l \in AllArchived \/ l \in Lines(active)
  <2>1. ASSUME l \in AllArchived' PROVE l \in AllArchived \/ l \in Lines(active)
    <3>1. PICK s \in 1..(session - 1) : l \in archives'[s]
      BY <1>3, <2>1 DEF AllArchived
    <3>2. s # session - 1 => s \in DOMAIN archives
      BY <1>1
    <3> QED BY <1>3, <3>1, <3>2 DEF AllArchived
  <2>2. ASSUME l \in AllArchived PROVE l \in AllArchived'
    <3>1. PICK s \in DOMAIN archives : l \in archives[s]
      BY <2>2 DEF AllArchived
    <3>2. s \in 1..(session - 1) /\ s # session - 1
      BY <1>1
    <3> QED BY <1>3, <3>1, <3>2 DEF AllArchived
  <2>3. ASSUME l \in Lines(active) PROVE l \in AllArchived'
    BY <1>1, <1>3, <2>3 DEF AllArchived
  <2> QED BY <2>1, <2>2, <2>3
<1> QED BY <1>4

\* A step that leaves the log and the archives alone.
LEMMA LogKept ==
  ASSUME LogInv, UNCHANGED <<active, archives, written, final>>,
         pcF # "wait" => pcC' = pcC /\ pcM' = pcM,
         pcC' = "rotate" => session' - 1 \in 1..(session' - 1),
         pcC' \in {"truncate", "clear"} => pcC' = pcC,
         pcC' = "snapshot" => pcC \in {"clear", "snapshot"}
  PROVE  LogInv'
BY DEF LogInv, NothingLost, FinalLogComplete, Lines, AllArchived, final

\* A step that adds lines to the log.
LEMMA LogGrows ==
  ASSUME LogInv, UNCHANGED <<archives, pcC, pcM, final, session, written>>,
         Lines(active) \subseteq Lines(active)'
  PROVE  LogInv'
<1>1. AllArchived' = AllArchived
  BY DEF AllArchived
<1> QED BY <1>1 DEF LogInv, NothingLost, FinalLogComplete, final

LEMMA CoordinatorLog ==
  ASSUME TypeOK, LogInv, PollRunning \/ PollAbsent \/ Coordinator PROVE LogInv'
<1>1. session \in Nat \ {0} /\ session + 1 - 1 \in 1..(session + 1 - 1)
  BY DEF TypeOK, Session
<1>2. ASSUME pcC # "over" PROVE pcF = "wait"
  BY <1>2 DEF LogInv
<1>3. CASE PollRunning
  BY <1>1, <1>2, <1>3, LogKept DEF PollRunning, Compare, monitor
<1>4. CASE PollAbsent
  BY <1>2, <1>4, LogKept DEF PollAbsent, monitor
<1>5. CASE ComparePids
  BY <1>1, <1>2, <1>5, LogKept DEF ComparePids, Compare, monitor
<1>6. CASE RotateLog
  <2>1. AllArchived' = AllArchived \cup Lines(active)
    BY <1>6, RotateArchives
  <2>2. /\ pcC' = "truncate" /\ written' = written /\ pcF' = pcF /\ pcF = "wait"
        /\ Lines(active)' = Lines(active)
    BY <1>2, <1>6 DEF RotateLog, monitor, final, Lines
  <2> QED BY <2>1, <2>2 DEF LogInv, NothingLost, FinalLogComplete
<1>10. CASE TruncateLog
  <2>1. /\ pcC = "truncate" /\ pcC' = "clear" /\ archives' = archives
        /\ written' = written /\ pcF' = pcF /\ pcF = "wait"
    BY <1>2, <1>10 DEF TruncateLog, monitor, final
  <2>2. AllArchived' = AllArchived
    BY <2>1 DEF AllArchived
  <2> QED BY <2>1, <2>2 DEF LogInv, NothingLost, FinalLogComplete
<1>7. CASE ClearBuffer
  BY <1>2, <1>7, LogKept DEF ClearBuffer, final
<1>8. CASE Snapshot
  <2>1. /\ written' = written /\ pcF' = pcF /\ pcF = "wait" /\ archives' = archives
        /\ pcC' \in {"over", "watch", "compare"} /\ pcC = "snapshot"
    BY <1>2, <1>8 DEF Snapshot, final
  <2>2. AllArchived' = AllArchived
    BY <2>1 DEF AllArchived
  <2> QED BY <2>1, <2>2 DEF LogInv, NothingLost, FinalLogComplete
<1>9. CASE StopWatching
  BY <1>2, <1>9, LogKept DEF StopWatching, monitor
<1> QED BY <1>3, <1>4, <1>5, <1>6, <1>7, <1>8, <1>9, <1>10 DEF Coordinator

LEMMA MonitorLog == ASSUME TypeOK, LogInv, LogMonitor PROVE LogInv'
<1>1. LogMonitor => pcM # "off" /\ pcF = "wait"
  BY DEF LogMonitor, Start, NextStream, AskForLine, TakeLine, NoLine, AfterStream, LogInv
<1>2. CASE Start \/ NextStream \/ AskForLine \/ NoLine \/ AfterStream
  <2>1. UNCHANGED <<active, archives, written, final, watcher>>
    BY <1>2 DEF Start, NextStream, AskForLine, NoLine, AfterStream
  <2>2. UNCHANGED <<pcC, session>>
    BY <2>1 DEF watcher
  <2>3. pcC = "rotate" => session - 1 \in 1..(session - 1)
    BY DEF LogInv
  <2> QED BY <1>1, <2>1, <2>2, <2>3, LogKept
<1>3. CASE TakeLine
  <2>1. {pos} \ seen \subseteq Line /\ active \in File
    BY <1>3, SessionAssumption DEF TakeLine, Line, TypeOK
  <2>2. Lines(active)' = Lines(active) \cup ({pos} \ seen)
    BY <1>3, <2>1, FileLines DEF TakeLine, Lines
  <2>3. /\ written' = written \cup ({pos} \ seen) /\ archives' = archives
        /\ pcC' = pcC /\ session' = session /\ pcC \in {"watch", "over"} /\ pcF' = pcF
    BY <1>3 DEF TakeLine, LoopFree, watcher, final
  <2>4. AllArchived' = AllArchived
    BY <2>3 DEF AllArchived
  <2> QED BY <1>1, <2>2, <2>3, <2>4 DEF LogInv, NothingLost, FinalLogComplete
<1> QED BY <1>2, <1>3 DEF LogMonitor

LEMMA WriterLog == ASSUME TypeOK, LogInv, Executor \/ Finalize PROVE LogInv'
<1> USE DEF watcher, monitor, final
<1>1. active \in File /\ tail \subseteq Line
  BY DEF TypeOK
<1>2. CASE ReadTail
  <2>1. UNCHANGED <<active, archives, written, final, pcC, pcM, session>>
    BY <1>2 DEF ReadTail
  <2>2. pcC = "rotate" => session - 1 \in 1..(session - 1)
    BY DEF LogInv
  <2> QED BY <2>1, <2>2, LogKept
<1>3. CASE AppendTail
  <2>1. Lines(active) \subseteq Lines(active)'
    BY <1>1, <1>3, FileLines DEF AppendTail, Lines
  <2> QED BY <1>3, <2>1, LogGrows DEF AppendTail
<1>4. CASE FinalAppend
  <2>1. dumpF' \ Lines(active) \subseteq Line
    BY <1>4, DumpsType DEF FinalAppend
  <2>2. Lines(active)' = Lines(active) \cup (dumpF' \ Lines(active))
    BY <1>1, <1>4, <2>1, FileLines DEF FinalAppend, Lines
  <2>3. /\ pcF' = "merge" /\ pcC = "over" /\ pcM = "off"
        /\ UNCHANGED <<pcC, pcM, written, archives, session>>
    BY <1>4 DEF FinalAppend
  <2>4. AllArchived' = AllArchived
    BY <2>3 DEF AllArchived
  <2> QED BY <2>2, <2>3, <2>4 DEF LogInv, NothingLost, FinalLogComplete
<1>5. CASE Merge
  <2>1. AllArchived \subseteq Line /\ Lines(active) \subseteq Line
    <3>1. \A s \in DOMAIN archives : archives[s] \subseteq Line
      BY DEF TypeOK
    <3> QED BY <1>1, <3>1, FileLines DEF AllArchived
  <2>2. Lines(active)' = AllArchived \cup Lines(active)
    <3>1. CASE AllArchived = {}
      BY <1>5, <3>1 DEF Merge, Lines
    <3>2. CASE AllArchived # {}
      <4>1. active' = Once(AllArchived \cup Lines(active))
        BY <1>5, <3>2 DEF Merge
      <4>2. AllArchived \cup Lines(active) \in SUBSET Line
        BY <2>1
      <4> QED BY <4>1, <4>2, FileLines DEF Lines
    <3> QED BY <3>1, <3>2
  <2>3. /\ pcF = "merge" /\ pcF' = "done"
        /\ UNCHANGED <<pcC, pcM, written, archives, dumpF, session>>
    BY <1>5 DEF Merge
  <2>4. AllArchived' = AllArchived
    BY <2>3 DEF AllArchived
  <2> QED BY <2>2, <2>3, <2>4 DEF LogInv, NothingLost, FinalLogComplete
<1> QED BY <1>2, <1>3, <1>4, <1>5 DEF Executor, Finalize

LEMMA StepLog == TypeOK /\ LogInv /\ [Next]_vars => LogInv'
<1> SUFFICES ASSUME TypeOK, LogInv, [Next]_vars PROVE LogInv'
  OBVIOUS
<1>1. CASE UNCHANGED vars \/ Emit \/ GameStarts \/ GameDies \/ ChildDies \/ EndPhase
  <2>1. UNCHANGED <<active, archives, written, final, pcC, pcM, session>>
    BY <1>1 DEF vars, Emit, GameStarts, GameDies, ChildDies, EndPhase, watcher, monitor, final
  <2>2. pcC = "rotate" => session - 1 \in 1..(session - 1)
    BY DEF LogInv
  <2> QED BY <2>1, <2>2, LogKept
<1> QED BY <1>1, CoordinatorLog, MonitorLog, WriterLog DEF Next

\* No line that the log monitor has appended is lost: it is in the log or in an
\* archive, whatever the rotations, snapshots and refreshes did meanwhile.
THEOREM LinesKept == Spec => []NothingLost
<1>1. LogInv => NothingLost
  BY DEF LogInv
<1> QED BY <1>1, InitType, StepType, InitLog, StepLog, PTL DEF Spec

\* The finalized log holds every line the monitor appended and all that the
\* last dump still found.
THEOREM LogComplete == Spec => []FinalLogComplete
<1>1. LogInv => FinalLogComplete
  BY DEF LogInv
<1> QED BY <1>1, InitType, StepType, InitLog, StepLog, PTL DEF Spec
-----------------------------------------------------------------------------
(* How restarts are counted.                                               *)

\* The pid that the coordinator takes the game to have.
Believed == IF pids # NoPid THEN pids ELSE lastPid

\* A restart it will count, at most one, for what has happened already: an open
\* absence, or another process than the one believed.
Pending == IF hadRunning /\ (absentFor > 0 \/ Believed # Primary) THEN 1 ELSE 0

\* A subprocess that outlived the game will be replaced once more.
Orphan == IF main = 0 /\ child > 0 THEN 1 ELSE 0

LocalsFit ==
  /\ absentFor > 0 => hadRunning /\ lastPid = NoPid
  /\ pids # NoPid => hadRunning /\ lastPid = NoPid /\ absentFor = 0
                     /\ pcC \in {"rotate", "truncate", "clear", "snapshot", "compare"}
  /\ pcC = "compare" => pids # NoPid
  /\ hadRunning /\ absentFor = 0 => Believed # NoPid

\* Every restart, counted or pending, has an absence of its own.
CountInv == LocalsFit /\ session - 1 + Pending + Orphan <= outages

LEMMA InitCount == Init => CountInv
BY DEF Init, CountInv, LocalsFit, Pending, Orphan

LEMMA Numbers ==
  ASSUME TypeOK
  PROVE  /\ session \in Nat /\ session >= 1 /\ outages \in Nat /\ absentFor \in Nat
         /\ main \in Nat /\ child \in Nat /\ starts \in Nat
         /\ Pending \in {0, 1} /\ Orphan \in {0, 1}
BY SessionAssumption DEF TypeOK, Session, Pending, Orphan

\* The device may add a pending restart or an orphan, at the price of an outage.
LEMMA DeviceCount ==
  ASSUME TypeOK, TypeOK', CountInv, UNCHANGED <<locals, session, pcC>>,
         GameStarts \/ GameDies \/ ChildDies
  PROVE  CountInv'
<1> USE Numbers DEF locals
<1>1. LocalsFit'
  BY DEF CountInv, LocalsFit, Believed
<1>2. Pending' \in {0, 1}
  BY DEF Pending
<1>3. CASE GameStarts
  <2>1. main = 0 /\ main' > 0 /\ child' = child /\ outages' = outages
    BY <1>3 DEF GameStarts
  <2>2. Orphan' = 0
    BY <2>1 DEF Orphan
  <2>3. CASE child > 0
    <3>1. Orphan = 1
      BY <2>1, <2>3 DEF Orphan
    <3> QED BY <1>1, <1>2, <2>1, <2>2, <3>1 DEF CountInv
  <2>4. CASE child = 0
    <3>1. Primary = NoPid
      BY <2>1, <2>4, PrimaryType
    <3>2. hadRunning => Pending = 1
      BY <3>1 DEF CountInv, LocalsFit, Pending
    <3>3. ~hadRunning => Pending' = 0
      BY DEF Pending
    <3> QED BY <1>1, <1>2, <2>1, <2>2, <3>2, <3>3 DEF CountInv
  <2> QED BY <2>3, <2>4
<1>4. CASE GameDies
  <2>1. main > 0
    BY <1>4 DEF GameDies
  <2>2. Orphan = 0
    BY <2>1 DEF Orphan
  <2>3. \/ child' = 0 /\ outages' = outages + 1
        \/ outages' = outages + 2
    BY <1>4 DEF GameDies
  <2>4. child' = 0 => Orphan' = 0
    BY DEF Orphan
  <2>5. Orphan' \in {0, 1}
    BY DEF Orphan
  <2> QED BY <1>1, <1>2, <2>2, <2>3, <2>4, <2>5 DEF CountInv
<1>5. CASE ChildDies
  <2>1. child > 0 /\ child' = 0 /\ main' = main /\ outages' = outages
    BY <1>5 DEF ChildDies
  <2>2. Orphan' = 0
    BY <2>1 DEF Orphan
  <2>3. CASE main = 0
    <3>1. Orphan = 1
      BY <2>1, <2>3 DEF Orphan
    <3> QED BY <1>1, <1>2, <2>1, <2>2, <3>1 DEF CountInv
  <2>4. CASE main > 0
    <3>1. Primary' = Primary
      BY <2>1, <2>4 DEF Primary
    <3>2. Pending' = Pending
      BY <3>1 DEF Pending, Believed
    <3> QED BY <1>1, <2>1, <2>2, <3>2 DEF CountInv
  <2> QED BY <2>3, <2>4
<1> QED BY <1>3, <1>4, <1>5

\* A comparison counts the pending restart or finds none.
LEMMA CompareCount ==
  ASSUME TypeOK, CountInv, UNCHANGED device, NEW pid \in Pid, pid # NoPid, Compare(pid),
         \/ pid = Primary /\ pids = NoPid
         \/ pid = pids
  PROVE  CountInv'
<1> USE Numbers DEF device
<1>1. /\ hadRunning' = TRUE /\ lastPid' = pid /\ pids' = NoPid /\ absentFor' = 0
      /\ pcC' \in {"rotate", "watch"}
  BY DEF Compare, Sees
<1>2. Believed' = pid
  BY <1>1 DEF Believed
<1>3. LocalsFit'
  BY <1>1, <1>2 DEF LocalsFit
<1>4. Primary' = Primary /\ Orphan' = Orphan /\ outages' = outages
  BY DEF Primary, Orphan
<1>5. CASE pid = Primary /\ pids = NoPid
  <2>1. Pending' = 0
    BY <1>1, <1>2, <1>4, <1>5 DEF Pending
  <2>2. PidChanged(pid) => Pending = 1
    BY <1>5 DEF PidChanged, Pending, Believed
  <2>3. session' = IF PidChanged(pid) THEN session + 1 ELSE session
    BY DEF Compare
  <2> QED BY <1>3, <1>4, <2>1, <2>2, <2>3 DEF CountInv
<1>6. CASE pid = pids
  <2>1. hadRunning /\ lastPid = NoPid /\ absentFor = 0
    BY <1>6 DEF CountInv, LocalsFit
  <2>2. session' = session
    BY <2>1 DEF Compare, PidChanged
  <2>3. Pending' = Pending
    BY <1>1, <1>2, <1>4, <1>6, <2>1 DEF Pending, Believed
  <2> QED BY <1>3, <1>4, <2>2, <2>3 DEF CountInv
<1> QED BY <1>5, <1>6

\* A step that neither looks at the game nor forgets it.
LEMMA CountKept ==
  ASSUME CountInv, UNCHANGED <<main, child, outages, locals, session>>,
         pcC' = pcC \/ (pids = NoPid /\ pcC' # "compare")
           \/ (pids # NoPid /\ pcC' \in {"rotate", "truncate", "clear", "snapshot", "compare"})
  PROVE  CountInv'
BY DEF CountInv, LocalsFit, Pending, Orphan, Believed, Primary, locals

\* The end of the watch forgets it.
LEMMA CountDropped ==
  ASSUME TypeOK, CountInv, UNCHANGED <<main, child, outages, session>>, pcC' = "over", LocalsDropped
  PROVE  CountInv'
<1>1. /\ hadRunning' = FALSE /\ pids' = NoPid /\ absentFor' = 0 /\ lastPid' = NoPid
  BY DEF LocalsDropped
<1>2. LocalsFit'
  BY <1>1 DEF LocalsFit
<1>3. Pending' = 0 /\ Orphan' = Orphan
  BY <1>1 DEF Pending, Orphan
<1> QED BY <1>2, <1>3, Numbers DEF CountInv

LEMMA CoordinatorCount ==
  ASSUME TypeOK, CountInv, PollRunning \/ PollAbsent \/ Coordinator PROVE CountInv'
<1> USE Numbers DEF device
<1>1. CASE PollRunning
  <2>1. /\ pcC = "watch" /\ Primary # NoPid /\ Primary \in Pid /\ pids = NoPid
        /\ UNCHANGED device
    BY <1>1, PrimaryType DEF PollRunning, CountInv, LocalsFit
  <2>2. CASE Compare(Primary)
    BY <2>1, <2>2, CompareCount
  <2>3. CASE ~Compare(Primary)
    <3>1. /\ CameBack /\ pcC' = "rotate" /\ session' = session + 1
          /\ pids' = Primary /\ absentFor' = 0 /\ UNCHANGED <<hadRunning, lastPid>>
      BY <1>1, <2>3 DEF PollRunning
    <3>2. hadRunning /\ absentFor > 0 /\ lastPid = NoPid
      BY <3>1, SessionAssumption DEF CameBack, CountInv, LocalsFit
    <3>3. Pending = 1
      BY <3>2 DEF Pending
    <3>4. Primary' = Primary /\ Orphan' = Orphan /\ outages' = outages
      BY <2>1 DEF Primary, Orphan
    <3>5. Believed' = Primary
      BY <2>1, <3>1 DEF Believed
    <3>6. Pending' = 0
      BY <3>1, <3>4, <3>5 DEF Pending
    <3>7. LocalsFit'
      BY <2>1, <3>1, <3>2, <3>5 DEF LocalsFit
    <3> QED BY <3>1, <3>3, <3>4, <3>6, <3>7 DEF CountInv
  <2> QED BY <2>2, <2>3
<1>2. CASE PollAbsent
  <2>1. /\ pcC = "watch" /\ pcC' = "watch" /\ pids = NoPid /\ pids' = NoPid /\ lastPid' = NoPid
        /\ UNCHANGED <<main, child, hadRunning, session>>
    BY <1>2 DEF PollAbsent, Sees, CountInv, LocalsFit
  <2>2. \/ outages' = outages /\ (Primary = NoPid \/ absentFor > 0)
        \/ outages' = outages + 1
    BY <1>2 DEF PollAbsent
  <2>3. hadRunning => absentFor' > 0
    BY <1>2, SessionAssumption DEF PollAbsent
  <2>4. ~hadRunning => absentFor = 0 /\ absentFor' = 0
    BY <1>2 DEF PollAbsent, CountInv, LocalsFit
  <2>5. LocalsFit'
    BY <2>1, <2>3, <2>4 DEF LocalsFit
  <2>6. Orphan' = Orphan /\ Pending' \in {0, 1} /\ (~hadRunning => Pending' = 0)
    BY <2>1 DEF Orphan, Pending
  <2>7. outages' = outages /\ hadRunning => Pending = 1
    BY <2>2 DEF CountInv, LocalsFit, Pending
  <2> QED BY <2>1, <2>2, <2>5, <2>6, <2>7 DEF CountInv
<1>3. CASE ComparePids
  <2>1. pids # NoPid /\ pids \in Pid /\ Compare(pids) /\ UNCHANGED device
    BY <1>3 DEF ComparePids, CountInv, LocalsFit, TypeOK
  <2> QED BY <2>1, CompareCount
<1>4. CASE RotateLog \/ TruncateLog \/ ClearBuffer
  <2>1. /\ UNCHANGED <<main, child, outages, locals, session>>
        /\ pcC' \in {"truncate", "clear", "snapshot"}
    BY <1>4 DEF RotateLog, TruncateLog, ClearBuffer
  <2> QED BY <2>1, CountKept
<1>5. CASE Snapshot
  <2>1. UNCHANGED <<main, child, outages, session>>
    BY <1>5 DEF Snapshot
  <2>2. CASE LimitReached
    BY <1>5, <2>1, <2>2, CountDropped DEF Snapshot
  <2>3. CASE ~LimitReached
    <3>1. UNCHANGED locals /\ pcC' = IF pids = NoPid THEN "watch" ELSE "compare"
      BY <1>5, <2>3 DEF Snapshot
    <3> QED BY <2>1, <3>1, CountKept
  <2> QED BY <2>2, <2>3
<1>6. CASE StopWatching
  BY <1>6, CountDropped DEF StopWatching
<1> QED BY <1>1, <1>2, <1>3, <1>4, <1>5, <1>6 DEF Coordinator

LEMMA StepCount == TypeOK /\ TypeOK' /\ CountInv /\ [Next]_vars => CountInv'
<1> SUFFICES ASSUME TypeOK, TypeOK', CountInv, [Next]_vars PROVE CountInv'
  OBVIOUS
<1>1. CASE GameStarts \/ GameDies \/ ChildDies
  <2>1. UNCHANGED <<locals, session, pcC>>
    BY <1>1 DEF GameStarts, GameDies, ChildDies, watcher
  <2> QED BY <1>1, <2>1, DeviceCount
<1>2. CASE UNCHANGED vars \/ Emit \/ LogMonitor \/ Executor \/ Finalize \/ EndPhase
  <2>1. UNCHANGED <<main, child, outages, watcher>>
    BY <1>2 DEF vars, Emit, EndPhase, LogMonitor, Start, NextStream, AskForLine, TakeLine, NoLine,
                AfterStream, Executor, ReadTail, AppendTail, Finalize, FinalAppend, Merge, device
  <2> QED BY <2>1, CountKept DEF watcher
<1> QED BY <1>1, <1>2, CoordinatorCount DEF Next

\* No absence is counted as two restarts: neither an absence and the change of
\* the pid it comes with, nor a subprocess that outlives the game.
THEOREM AbsencesCountOnce == Spec => []OneRestartPerAbsence
<1>1. TypeOK /\ CountInv => OneRestartPerAbsence
  BY Numbers DEF CountInv, OneRestartPerAbsence
<1> QED BY <1>1, InitType, StepType, InitCount, StepCount, PTL DEF Spec
=============================================================================
