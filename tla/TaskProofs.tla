------------------------------ MODULE TaskProofs ------------------------------
(***************************************************************************)
(* Proofs about one task and what it shares with the others:               *)
(*   - TaskFiles, for any tasks, games, devices, retries and clock: a      *)
(*     batch whose tasks all finished leaves no directory of an attempt;   *)
(*     no cleanup takes the APK of a task that may still install it; a     *)
(*     task alone on the host archives the logs of all its attempts;       *)
(*   - DeployBuildLock, for any runners, workers and limits: exclusion     *)
(*     inside a runner whatever crashes; exclusion on the host, and that   *)
(*     release() unlinks its own file, as long as no runner has died and   *)
(*     every build ends before its file is stale, the two hypotheses       *)
(*     without which TLC refutes it;                                       *)
(*   - AttemptLoop, for any number of retries, with or without broken      *)
(*     commands and interrupts: what run() returns, and when an attempt    *)
(*     may be repeated.                                                    *)
(* A variable belongs to one of the three modules, and each theorem is     *)
(* about the specification of one.                                         *)
(***************************************************************************)
EXTENDS TaskFiles, DeployBuildLock, AttemptLoop, FiniteSetTheorems, TLAPS


\* A task that has begun an attempt and has not swept artifacts/ since.
Owes(t) ==
  \/ pc[t] \in {"running", "passed", "archive", "clean", "raised"}
  \/ pc[t] = "between" /\ records[t] # <<>>

\* A task inside an attempt or after one has a record of it, so that there is
\* a current directory.
RecordsInv ==
  \A t \in Task :
    pc[t] \in {"running", "passed", "archive", "clean"} => records[t] # <<>>

\* As long as there is a directory, some task still has to sweep, or was left
\* by an error and never will.
DirInv == dirs # {} => \E t \in Task : Owes(t)

\* One device works on one task at a time.
OneInv ==
  devices = 1 => IsFiniteSet(Active) /\ \A t, u \in Active : t = u

\* On one device the logs of a task stay where its records say until they are
\* archived, and then all of them are.
LogsInv ==
  /\ \A t \in Task :
       /\ pc[t] = "queued" => records[t] = <<>>
       /\ pc[t] \in {"queued", "between", "running", "passed", "archive"}
            => archived[t] = {}
  /\ devices = 1 => \A t \in Task :
       /\ pc[t] \in {"between", "running", "passed", "archive"}
          => \A a \in 1..Len(records[t]) : t \in logs[records[t][a]]
       /\ pc[t] \in {"clean", "done"} => archived[t] = 1..Len(records[t])

-----------------------------------------------------------------------------
\* The directory of the last record.
LEMMA CurrentDir ==
  ASSUME TypeOK, NEW t \in Task, records[t] # <<>>
  PROVE  Current(t) \in Dir
BY DEF TypeOK, Current

\* TypeOK is preserved, with the records in place.
LEMMA TypeOKStep ==
  ASSUME TypeOK, RecordsInv, [Next]_vars
  PROVE  TypeOK'
<1> USE FilesAssumption, RetriesAssumption DEF TypeOK, artifacts, outputs, given
<1>1. CASE Tick
  BY <1>1 DEF Tick
<1>2. ASSUME NEW t \in Task, Claim(t) PROVE TypeOK'
  BY <1>2 DEF Claim, Goto, Packages
<1>3. ASSUME NEW t \in Task, FailEarly(t) PROVE TypeOK'
  BY <1>3 DEF FailEarly, Goto
<1>4. ASSUME NEW t \in Task, BeginAttempt(t) PROVE TypeOK'
  <2> DEFINE d == [retry |-> Len(records[t]) + 1, second |-> clock]
  <2>1. d \in Dir
    BY <1>4 DEF BeginAttempt, Dir
  <2>2. /\ records' = [records EXCEPT ![t] = Append(@, d)]
        /\ dirs' = dirs \cup {d}
        /\ logs' = [logs EXCEPT ![d] = @ \cup {t}]
    BY <1>4 DEF BeginAttempt
  <2>3. pc' = [pc EXCEPT ![t] = "running"] /\ Len(records[t]) < MaxRetries
    BY <1>4 DEF BeginAttempt, Goto
  <2>4. UNCHANGED <<clock, given, config, native, packages, outputs>>
    BY <1>4 DEF BeginAttempt
  <2> HIDE DEF d
  <2>5. /\ Append(records[t], d) \in Seq(Dir)
        /\ Len(Append(records[t], d)) <= MaxRetries
    BY <2>1, <2>3
  <2>6. /\ records' \in [Task -> Seq(Dir)]
        /\ \A u \in Task : Len(records'[u]) <= MaxRetries
    BY <2>2, <2>5
  <2> QED
    BY <2>1, <2>2, <2>3, <2>4, <2>6
<1>5. ASSUME NEW t \in Task, WriteAgain(t) PROVE TypeOK'
  <2>1. Current(t) \in Dir
    BY <1>5, CurrentDir DEF WriteAgain, RecordsInv
  <2> QED
    BY <1>5, <2>1 DEF WriteAgain
<1>6. ASSUME NEW t \in Task, Retry(t) PROVE TypeOK'
  <2>1. Current(t) \in Dir
    BY <1>6, CurrentDir DEF Retry, Goto, RecordsInv
  <2>2. /\ dirs' \subseteq Dir /\ native' \subseteq Gid
        /\ config' \in [Dir -> SUBSET Gid]
        /\ packages' \subseteq Packages
    BY <1>6, <2>1 DEF Retry, Packages
  <2>3. pc' = [pc EXCEPT ![t] = "between"]
    BY <1>6 DEF Retry, Goto
  <2>4. UNCHANGED <<clock, given, records, logs, outputs>>
    BY <1>6 DEF Retry
  <2> QED
    BY <2>2, <2>3, <2>4
<1>7. ASSUME NEW t \in Task, Pass(t) \/ Abandon(t) PROVE TypeOK'
  BY <1>7 DEF Pass, Abandon, Goto
<1>8. ASSUME NEW t \in Task, PublishSuccess(t) \/ PublishFailure(t) PROVE TypeOK'
  BY <1>8 DEF PublishSuccess, PublishFailure, Goto, CleanPackages
<1>9. ASSUME NEW t \in Task, Archive(t) PROVE TypeOK'
  BY <1>9 DEF Archive, Goto
<1>10. ASSUME NEW t \in Task, Clean(t) PROVE TypeOK'
  BY <1>10 DEF Clean, Goto
<1>11. CASE UNCHANGED vars
  BY <1>11 DEF vars
<1> HIDE DEF TypeOK
<1> QED
  BY <1>1, <1>2, <1>3, <1>4, <1>5, <1>6, <1>7, <1>8, <1>9, <1>10, <1>11
  DEF Next, TaskStep

\* Whoever goes into an attempt appends a record, and none is removed.
LEMMA RecordsInvStep ==
  ASSUME TypeOK, RecordsInv, [Next]_vars
  PROVE  RecordsInv'
<1> USE DEF RecordsInv
<1>0. /\ pc \in [Task -> {"queued", "between", "running", "passed", "archive", "clean",
                         "done", "raised"}]
      /\ records \in [Task -> Seq(Dir)]
  BY DEF TypeOK
<1>1. ASSUME NEW t \in Task, BeginAttempt(t) PROVE RecordsInv'
  <2> DEFINE d == [retry |-> Len(records[t]) + 1, second |-> clock]
  <2>1. records' = [records EXCEPT ![t] = Append(@, d)]
    BY <1>1 DEF BeginAttempt
  <2>2. pc' = [pc EXCEPT ![t] = "running"]
    BY <1>1 DEF BeginAttempt, Goto
  <2>3. d \in Dir
    BY <1>1, FilesAssumption, RetriesAssumption DEF BeginAttempt, TypeOK, Dir
  <2> HIDE DEF d
  <2>4. Append(records[t], d) # <<>>
    BY <1>0, <2>3
  <2> QED
    BY <1>0, <2>1, <2>2, <2>4
<1>2. ASSUME NEW t \in Task,
             Claim(t) \/ FailEarly(t) \/ WriteAgain(t) \/ Retry(t) \/ Abandon(t)
      PROVE  RecordsInv'
  BY <1>0, <1>2 DEF Claim, FailEarly, WriteAgain, Retry, Abandon, Goto, given, outputs
<1>3. ASSUME NEW t \in Task,
             Pass(t) \/ PublishSuccess(t) \/ PublishFailure(t) \/ Archive(t) \/ Clean(t)
      PROVE  RecordsInv'
  <2>1. UNCHANGED records
    BY <1>3 DEF Pass, PublishSuccess, PublishFailure, Archive, Clean
  <2>2. \A u \in Task \ {t} : pc'[u] = pc[u]
    BY <1>0, <1>3 DEF Pass, PublishSuccess, PublishFailure, Archive, Clean, Goto
  <2>3. pc[t] \in {"running", "passed", "archive", "clean"}
    BY <1>0, <1>3 DEF Pass, PublishSuccess, PublishFailure, Archive, Clean, Goto
  <2> QED
    BY <2>1, <2>2, <2>3
<1>4. CASE Tick \/ UNCHANGED vars
  BY <1>4 DEF Tick, vars
<1> QED
  BY <1>1, <1>2, <1>3, <1>4 DEF Next, TaskStep

\* Whoever makes a directory owes a sweep, and a sweep leaves none.
LEMMA DirInvStep ==
  ASSUME TypeOK, RecordsInv, DirInv, [Next]_vars
  PROVE  DirInv'
<1> USE DEF DirInv, Owes
<1>0. /\ pc \in [Task -> {"queued", "between", "running", "passed", "archive", "clean",
                         "done", "raised"}]
      /\ records \in [Task -> Seq(Dir)]
  BY DEF TypeOK
<1>1. ASSUME NEW t \in Task,
             BeginAttempt(t) \/ WriteAgain(t) \/ Pass(t) \/ PublishSuccess(t)
             \/ PublishFailure(t) \/ Archive(t) \/ Abandon(t)
      PROVE  DirInv'
  <2>1. pc'[t] \in {"running", "passed", "archive", "clean", "raised"}
    BY <1>0, <1>1 DEF BeginAttempt, WriteAgain, Pass, PublishSuccess, PublishFailure,
       Archive, Abandon, Goto
  <2> QED
    BY <2>1
<1>2. ASSUME NEW t \in Task, Clean(t) PROVE DirInv'
  BY <1>2 DEF Clean
<1>3. ASSUME NEW t \in Task, Retry(t) PROVE DirInv'
  <2>1. pc'[t] = "between" /\ records'[t] # <<>>
    BY <1>0, <1>3 DEF Retry, Goto, RecordsInv
  <2> QED
    BY <2>1
<1>4. ASSUME NEW t \in Task, Claim(t) \/ FailEarly(t) PROVE DirInv'
  <2>1. /\ ~Owes(t) /\ UNCHANGED <<dirs, records>>
        /\ \A u \in Task \ {t} : pc'[u] = pc[u]
    BY <1>0, <1>4 DEF Claim, FailEarly, Goto, artifacts
  <2>2. \A u \in Task : Owes(u) => Owes(u)'
    BY <2>1
  <2> QED
    BY <2>1, <2>2
<1>5. CASE Tick \/ UNCHANGED vars
  BY <1>5 DEF Tick, vars, artifacts
<1> QED
  BY <1>1, <1>2, <1>3, <1>4, <1>5 DEF Next, TaskStep

\* The inductive invariant.
LEMMA InvAlways == Spec => [](TypeOK /\ RecordsInv /\ DirInv)
<1>1. Init => TypeOK /\ RecordsInv /\ DirInv
  BY FilesAssumption, RetriesAssumption DEF Init, TypeOK, RecordsInv, DirInv, Packages
<1>2. TypeOK /\ RecordsInv /\ DirInv /\ [Next]_vars => (TypeOK /\ RecordsInv /\ DirInv)'
  BY TypeOKStep, RecordsInvStep, DirInvStep
<1> QED
  BY <1>1, <1>2, PTL DEF Spec

-----------------------------------------------------------------------------
\* Every variable keeps its type; that the current directory is one needs
\* RecordsInv.
THEOREM TypeCorrect == Spec => []TypeOK
BY InvAlways, PTL

\* A batch whose tasks all finished leaves no directory of an attempt behind,
\* however cleanup_task_artifacts interleaves with attempts on other devices.
THEOREM NothingLeftOver == Spec => []NoLeftovers
<1>1. DirInv => NoLeftovers
  BY DEF DirInv, Owes, NoLeftovers
<1> QED
  BY <1>1, InvAlways, PTL

-----------------------------------------------------------------------------
\* A task becomes active only when Active has fewer members than devices.
LEMMA OneInvStep ==
  ASSUME TypeOK, OneInv, [Next]_vars
  PROVE  OneInv'
<1> SUFFICES ASSUME devices = 1, UNCHANGED devices
             PROVE  IsFiniteSet(Active') /\ \A t, u \in Active' : t = u
  <2>1. UNCHANGED devices
    BY DEF Next, TaskStep, vars, given, Tick, Claim, FailEarly, BeginAttempt, WriteAgain,
       Retry, Pass, PublishSuccess, PublishFailure, Archive, Clean, Abandon
  <2> QED
    BY <2>1 DEF OneInv
<1>0. pc \in [Task -> {"queued", "between", "running", "passed", "archive", "clean",
                      "done", "raised"}]
  BY DEF TypeOK
<1>1. IsFiniteSet(Active) /\ \A t, u \in Active : t = u
  BY DEF OneInv
<1>2. ASSUME Active' \subseteq Active
      PROVE  IsFiniteSet(Active') /\ \A t, u \in Active' : t = u
  BY <1>1, <1>2, FS_Subset
<1>3. ASSUME NEW t \in Task, Claim(t)
      PROVE  IsFiniteSet(Active') /\ \A u, v \in Active' : u = v
  <2>1. Active = {}
    BY <1>1, <1>3, FS_EmptySet, FS_CardinalityType DEF Claim
  <2>2. Active' \subseteq {t}
    BY <1>0, <1>3, <2>1 DEF Claim, Goto, Active
  <2> QED
    BY <2>2, FS_Singleton, FS_Subset
<1>4. ASSUME NEW t \in Task,
             \/ FailEarly(t) \/ BeginAttempt(t) \/ WriteAgain(t) \/ Retry(t) \/ Pass(t)
             \/ PublishSuccess(t) \/ PublishFailure(t) \/ Archive(t) \/ Clean(t)
             \/ Abandon(t)
      PROVE  Active' \subseteq Active
  BY <1>0, <1>4 DEF Active, FailEarly, BeginAttempt, WriteAgain, Retry, Pass,
     PublishSuccess, PublishFailure, Archive, Clean, Abandon, Goto
<1>5. CASE Tick \/ UNCHANGED vars
  <2>1. Active' = Active
    BY <1>5 DEF Tick, vars, Active
  <2> QED
    BY <1>2, <2>1
<1> QED
  BY <1>2, <1>3, <1>4, <1>5 DEF Next, TaskStep

\* Only a task that is active and leaves its attempts removes an APK, and it
\* removes those of its own game.
LEMMA SourceStep ==
  ASSUME TypeOK, OneInv, SourceStays, [Next]_vars
  PROVE  SourceStays'
<1> USE DEF SourceStays
<1>0. /\ pc \in [Task -> {"queued", "between", "running", "passed", "archive", "clean",
                         "done", "raised"}]
      /\ gid \in [Task -> Gid]
  BY DEF TypeOK
<1>1. ASSUME NEW t \in Task, Claim(t) PROVE SourceStays'
  BY <1>0, <1>1 DEF Claim, Goto, given
<1>2. ASSUME NEW t \in Task,
             PublishSuccess(t) \/ PublishFailure(t)
      PROVE  SourceStays'
  <2>1. /\ UNCHANGED <<devices, gid>> /\ t \in Active
        /\ pc' = [pc EXCEPT ![t] = pc'[t]]
        /\ pc'[t] \notin {"between", "running"}
    BY <1>0, <1>2 DEF PublishSuccess, PublishFailure, Goto, given, Active
  <2>2. packages' = packages \/ CleanPackages(t)
    BY <1>2 DEF PublishSuccess, PublishFailure
  <2>3. SUFFICES ASSUME NEW u \in Task, Plugin, pc'[u] \in {"between", "running"},
                        devices = 1 \/ \A v \in Task \ {u} : gid[v] # gid[u]
                 PROVE  <<gid[u], "source">> \in packages'
    BY <2>1
  <2>4. u # t /\ pc[u] \in {"between", "running"}
    BY <1>0, <2>1, <2>3
  <2>5. u \in Active
    BY <2>4 DEF Active
  <2>6. gid[u] # gid[t]
    BY <2>1, <2>3, <2>4, <2>5 DEF OneInv
  <2>7. <<gid[u], "source">> \in packages
    BY <2>3, <2>4
  <2> QED
    BY <2>2, <2>6, <2>7 DEF CleanPackages
<1>3. ASSUME NEW t \in Task, BeginAttempt(t) \/ Retry(t) PROVE SourceStays'
  <2>1. /\ UNCHANGED <<devices, gid>> /\ packages \subseteq packages'
        /\ \A u \in Task : pc'[u] \in {"between", "running"}
                             => pc[u] \in {"between", "running"}
    BY <1>0, <1>3 DEF BeginAttempt, Retry, Goto, given
  <2> QED
    BY <2>1
<1>4. ASSUME NEW t \in Task,
             \/ FailEarly(t) \/ WriteAgain(t) \/ Pass(t) \/ Archive(t) \/ Clean(t)
             \/ Abandon(t)
      PROVE  SourceStays'
  <2>1. /\ UNCHANGED <<devices, gid, packages>>
        /\ \A u \in Task : pc'[u] \in {"between", "running"}
                             => pc[u] \in {"between", "running"}
    BY <1>0, <1>4 DEF FailEarly, WriteAgain, Pass, Archive, Clean, Abandon, Goto, given
  <2> QED
    BY <2>1
<1>5. CASE Tick \/ UNCHANGED vars
  BY <1>5 DEF Tick, vars, given
<1> QED
  BY <1>1, <1>2, <1>3, <1>4, <1>5 DEF Next, TaskStep

\* The APK a task came with stays in packages/ while the task may still
\* install it: on one device, or as long as nobody else tests the same game.
THEOREM SourceKept == Spec => []SourceStays
<1>1. Init => OneInv /\ SourceStays
  <2> SUFFICES ASSUME Init PROVE OneInv /\ SourceStays
    OBVIOUS
  <2>1. Active = {}
    BY DEF Init, Active
  <2> QED
    BY <2>1, FS_EmptySet DEF Init, OneInv, SourceStays
<1>2. TypeOK /\ OneInv /\ SourceStays /\ [Next]_vars => (OneInv /\ SourceStays)'
  BY OneInvStep, SourceStep
<1> QED
  BY <1>1, <1>2, TypeCorrect, PTL DEF Spec

-----------------------------------------------------------------------------
\* Nobody sweeps while another task is active, on one device.
LEMMA LogsInvStep ==
  ASSUME TypeOK, OneInv, LogsInv, [Next]_vars
  PROVE  LogsInv'
<1> USE DEF LogsInv
<1>0. /\ pc \in [Task -> {"queued", "between", "running", "passed", "archive", "clean",
                         "done", "raised"}]
      /\ records \in [Task -> Seq(Dir)]
      /\ logs \in [Dir -> SUBSET Task]
      /\ archived \in [Task -> SUBSET (1..MaxRetries)]
  BY DEF TypeOK
<1>1. ASSUME NEW t \in Task, Claim(t) PROVE LogsInv'
  <2>1. /\ pc' = [pc EXCEPT ![t] = "between"] /\ pc[t] = "queued"
        /\ UNCHANGED <<devices, records, logs, archived>>
    BY <1>1 DEF Claim, Goto, given, artifacts, outputs
  <2> QED
    BY <1>0, <2>1
<1>2. ASSUME NEW t \in Task, FailEarly(t) PROVE LogsInv'
  <2>1. /\ pc' = [pc EXCEPT ![t] = "done"] /\ pc[t] = "queued" /\ records[t] = <<>>
        /\ UNCHANGED <<devices, records, logs, archived>>
    BY <1>2 DEF FailEarly, Goto, given, artifacts
  <2>2. archived[t] = {}
    BY <2>1
  <2>3. 1..Len(records[t]) = {}
    <3>1. Len(records[t]) = 0
      BY <2>1
    <3> QED
      BY <3>1
  <2>4. pc'[t] = "done" /\ \A u \in Task \ {t} : pc'[u] = pc[u]
    BY <1>0, <2>1
  <2>5. archived'[t] = 1..Len(records'[t])
    BY <2>1, <2>2, <2>3
  <2>6. \A u \in Task \ {t} :
          pc'[u] = pc[u] /\ records'[u] = records[u] /\ archived'[u] = archived[u]
    BY <2>1, <2>4
  <2>7. \A u \in Task :
          /\ pc'[u] = "queued" => records'[u] = <<>>
          /\ pc'[u] \in {"queued", "between", "running", "passed", "archive"}
               => archived'[u] = {}
    BY <2>4, <2>6
  <2>8. ASSUME devices = 1, NEW u \in Task
        PROVE  /\ pc'[u] \in {"between", "running", "passed", "archive"}
                    => \A a \in 1..Len(records'[u]) : u \in logs'[records'[u][a]]
               /\ pc'[u] \in {"clean", "done"} => archived'[u] = 1..Len(records'[u])
    <3>1. CASE u = t
      BY <2>4, <2>5, <3>1
    <3>2. CASE u # t
      <4>1. logs' = logs
        BY <2>1
      <4> QED
        BY <2>6, <2>8, <3>2, <4>1
    <3> QED
      BY <3>1, <3>2
  <2>9. devices' = devices
    BY <2>1
  <2>10. devices' = 1 => \A u \in Task :
           /\ pc'[u] \in {"between", "running", "passed", "archive"}
                => \A a \in 1..Len(records'[u]) : u \in logs'[records'[u][a]]
           /\ pc'[u] \in {"clean", "done"} => archived'[u] = 1..Len(records'[u])
    BY <2>8, <2>9
  <2> QED
    BY <2>7, <2>10
<1>3. ASSUME NEW t \in Task, BeginAttempt(t) PROVE LogsInv'
  <2> DEFINE d == [retry |-> Len(records[t]) + 1, second |-> clock]
  <2>1. /\ records' = [records EXCEPT ![t] = Append(@, d)]
        /\ logs' = [logs EXCEPT ![d] = @ \cup {t}]
        /\ pc' = [pc EXCEPT ![t] = "running"] /\ pc[t] = "between"
        /\ UNCHANGED <<devices, archived>>
    BY <1>3 DEF BeginAttempt, Goto, given, outputs
  <2>2. d \in Dir
    BY <1>0, <1>3, FilesAssumption, RetriesAssumption DEF BeginAttempt, TypeOK, Dir
  <2> HIDE DEF d
  <2>3. /\ \A e \in Dir : logs[e] \subseteq logs'[e]
        /\ t \in logs'[d]
    BY <1>0, <2>1, <2>2
  <2>4. ASSUME devices = 1
        PROVE  \A a \in 1..Len(records'[t]) : t \in logs'[records'[t][a]]
    BY <1>0, <2>1, <2>2, <2>3, <2>4
  <2>5. \A u \in Task \ {t} : records'[u] = records[u] /\ pc'[u] = pc[u]
    BY <1>0, <2>1
  <2>6. ASSUME devices = 1, NEW u \in Task \ {t},
               pc[u] \in {"between", "running", "passed", "archive"}
        PROVE  \A a \in 1..Len(records[u]) : u \in logs'[records[u][a]]
    BY <1>0, <2>3, <2>6
  <2> QED
    BY <1>0, <2>1, <2>4, <2>5, <2>6
<1>4. ASSUME NEW t \in Task,
             WriteAgain(t) \/ Retry(t) \/ Pass(t) \/ PublishSuccess(t)
             \/ PublishFailure(t) \/ Abandon(t)
      PROVE  LogsInv'
  <2>1. UNCHANGED <<devices, records, logs, archived>>
    BY <1>4 DEF WriteAgain, Retry, Pass, PublishSuccess, PublishFailure, Abandon,
       given, artifacts, outputs
  <2>2. /\ \A u \in Task \ {t} : pc'[u] = pc[u]
        /\ pc[t] \in {"between", "running", "passed"}
        /\ pc'[t] \in {"between", "running", "passed", "archive", "raised"}
    BY <1>0, <1>4 DEF WriteAgain, Retry, Pass, PublishSuccess, PublishFailure, Abandon,
       Goto
  <2> QED
    BY <2>1, <2>2
<1>5. ASSUME NEW t \in Task, Archive(t) PROVE LogsInv'
  <2>1. /\ pc' = [pc EXCEPT ![t] = "clean"] /\ pc[t] = "archive"
        /\ UNCHANGED <<devices, records, logs>>
        /\ archived' = [archived EXCEPT ![t] =
                          {a \in 1..Len(records[t]) : t \in logs[records[t][a]]}]
    BY <1>5 DEF Archive, Goto, given, artifacts
  <2> QED
    BY <1>0, <2>1
<1>6. ASSUME NEW t \in Task, Clean(t) PROVE LogsInv'
  <2>1. /\ pc' = [pc EXCEPT ![t] = "done"] /\ pc[t] = "clean" /\ t \in Active
        /\ UNCHANGED <<devices, records, archived>>
    BY <1>6 DEF Clean, Goto, given, outputs, Active
  <2>2. ASSUME devices = 1, NEW u \in Task,
               pc[u] \in {"between", "running", "passed", "archive"}
        PROVE  FALSE
    BY <2>1, <2>2 DEF OneInv, Active
  <2> QED
    BY <1>0, <2>1, <2>2
<1>7. CASE Tick \/ UNCHANGED vars
  BY <1>7 DEF Tick, vars, given, artifacts, outputs
<1> QED
  BY <1>1, <1>2, <1>3, <1>4, <1>5, <1>6, <1>7 DEF Next, TaskStep

\* On one device every finished task has archived the logs of all its attempts.
THEOREM LogsKept == Spec => []KeepsLogsAlone
<1>1. Init => OneInv /\ LogsInv
  <2> SUFFICES ASSUME Init PROVE OneInv /\ LogsInv
    OBVIOUS
  <2>1. Active = {}
    BY DEF Init, Active
  <2> QED
    BY <2>1, FS_EmptySet DEF Init, OneInv, LogsInv
<1>2. TypeOK /\ OneInv /\ LogsInv /\ [Next]_vars => (OneInv /\ LogsInv)'
  BY OneInvStep, LogsInvStep
<1>3. LogsInv => KeepsLogsAlone
  BY DEF LogsInv, KeepsLogsAlone, KeepsLogs
<1> QED
  BY <1>1, <1>2, <1>3, TypeCorrect, PTL DEF Spec

-----------------------------------------------------------------------------
(* The deploy/build lock.                                                  *)

\* A worker between `with _PROCESS_LOCK` and its exit owns the mutex of its
\* runner.
ProcLockInv ==
  \A w \in Worker :
    wpc[w] \in Polling \cup Holding => procLock[RunnerOf[w]] = w

\* The lock file belongs to the one builder, and is no older than its build;
\* no runner is dead, so none is restarted in the middle of a build.
FileInv ==
  /\ \A r \in Runner : alive[r]
  /\ \A w \in Worker : wpc[w] \in Holding => file = w /\ fileAge <= held[w]
  /\ \A w \in Worker : wpc[w] \notin {"unlink", "dead"}
  /\ file # NoWorker => wpc[file] \in Holding

-----------------------------------------------------------------------------
\* Every variable keeps its type: in particular no build outlives MaxBuild.
THEOREM LockTypeCorrect == LockSpec => []LockTypeOK
<1> USE LockAssumption DEF LockTypeOK
<1>1. LockInit => LockTypeOK
  BY DEF LockInit, WorkerPC
<1>2. LockTypeOK /\ [LockNext]_lockVars => LockTypeOK'
  <2> SUFFICES ASSUME LockTypeOK, [LockNext]_lockVars PROVE LockTypeOK'
    OBVIOUS
  <2>1. ASSUME NEW w \in Worker,
               \/ Enter(w) \/ TakeProcessLock(w) \/ CreateFile(w)
               \/ FileExists(w) \/ StatFile(w) \/ UnlinkStale(w)
               \/ KeepPolling(w) \/ GiveUp(w) \/ FinishBuild(w)
               \/ Release(w) \/ TryAgain(w)
        PROVE  LockTypeOK'
    BY <2>1 DEF Enter, TakeProcessLock, CreateFile, FileExists,
                StatFile, UnlinkStale, KeepPolling, GiveUp,
                FinishBuild, Release, TryAgain, MoveTo, WorkerPC
  <2>2. CASE TimePasses
    BY <2>2 DEF TimePasses, Older, BuildMayGoOn
  <2>3. ASSUME NEW r \in Runner, Crash(r) \/ Restart(r) PROVE LockTypeOK'
    <3>1. wpc' \in [Worker -> WorkerPC]
      BY <2>3 DEF Crash, Restart, WorkerPC
    <3>2. /\ procLock' \in [Runner -> Worker \cup {NoWorker}]
          /\ alive' \in [Runner -> BOOLEAN]
      BY <2>3 DEF Crash, Restart
    <3>3. crashes' \in 0..MaxCrashes
      BY <2>3 DEF Crash, Restart
    <3> QED
      BY <2>3, <3>1, <3>2, <3>3 DEF Crash, Restart
  <2>4. CASE UNCHANGED lockVars
    BY <2>4 DEF lockVars
  <2> QED
    BY <2>1, <2>2, <2>3, <2>4 DEF LockNext, WorkerStep
<1> QED
  BY <1>1, <1>2, PTL DEF LockSpec

\* Two threads of one runner never build together: whatever dies, whatever
\* the clock does.  The mutex is held from before the first poll to after
\* the unlink.
THEOREM InProcess == LockSpec => []InProcessExclusion
<1> USE LockAssumption DEF ProcLockInv, Polling, Holding
<1>1. LockInit => ProcLockInv
  BY DEF LockInit
<1>2. LockTypeOK /\ ProcLockInv /\ [LockNext]_lockVars => ProcLockInv'
  <2> SUFFICES ASSUME LockTypeOK, ProcLockInv, [LockNext]_lockVars PROVE ProcLockInv'
    OBVIOUS
  <2> USE DEF LockTypeOK
  <2>1. ASSUME NEW w \in Worker, TakeProcessLock(w) PROVE ProcLockInv'
    BY <2>1 DEF TakeProcessLock, MoveTo
  <2>2. ASSUME NEW w \in Worker, GiveUp(w) \/ Release(w) PROVE ProcLockInv'
    BY <2>2 DEF GiveUp, Release, MoveTo
  <2>3. ASSUME NEW w \in Worker,
               \/ Enter(w) \/ CreateFile(w) \/ FileExists(w)
               \/ StatFile(w) \/ UnlinkStale(w) \/ KeepPolling(w)
               \/ FinishBuild(w) \/ TryAgain(w)
        PROVE  ProcLockInv'
    BY <2>3 DEF Enter, CreateFile, FileExists, StatFile,
                UnlinkStale, KeepPolling, FinishBuild, TryAgain,
                MoveTo
  <2>4. CASE TimePasses
    BY <2>4 DEF TimePasses
  <2>5. ASSUME NEW r \in Runner, Crash(r) PROVE ProcLockInv'
    BY <2>5 DEF Crash
  <2>6. ASSUME NEW r \in Runner, Restart(r) PROVE ProcLockInv'
    BY <2>6 DEF Restart
  <2>7. CASE UNCHANGED lockVars
    BY <2>7 DEF lockVars
  <2> QED
    BY <2>1, <2>2, <2>3, <2>4, <2>5, <2>6, <2>7 DEF LockNext, WorkerStep
<1>3. ProcLockInv => InProcessExclusion
  BY DEF InProcessExclusion
<1> QED
  BY <1>1, <1>2, <1>3, LockTypeCorrect, PTL DEF LockSpec

-----------------------------------------------------------------------------
\* Until a runner dies the file protects its builder.
HealthyInv == crashes = 0 => FileInv

\* The inductive step when builds are short: the file a waiter sees is the
\* builder's and is younger than its build, so before the first crash no
\* waiter ever finds a stale file and nobody reaches the unlink.
LEMMA HealthyStep ==
  ASSUME MaxBuild < Stale, LockTypeOK, HealthyInv,
         [LockNext]_lockVars
  PROVE  HealthyInv'
<1> USE LockAssumption DEF LockTypeOK, HealthyInv, FileInv, Holding
<1>1. ASSUME NEW w \in Worker, CreateFile(w) PROVE HealthyInv'
  BY <1>1 DEF CreateFile, MoveTo
<1>2. ASSUME NEW w \in Worker, StatFile(w) PROVE HealthyInv'
  <2>1. crashes = 0 => ~(file # NoWorker /\ fileAge >= Stale)
    OBVIOUS
  <2> QED
    BY <1>2, <2>1 DEF StatFile, MoveTo
<1>3. ASSUME NEW w \in Worker, FinishBuild(w) PROVE HealthyInv'
  BY <1>3 DEF FinishBuild, MoveTo
<1>4. ASSUME NEW w \in Worker, Release(w) PROVE HealthyInv'
  BY <1>4 DEF Release, MoveTo
<1>5. ASSUME NEW w \in Worker, UnlinkStale(w) PROVE HealthyInv'
  <2>1. crashes # 0
    BY <1>5 DEF UnlinkStale
  <2> QED
    BY <1>5, <2>1 DEF UnlinkStale
<1>6. ASSUME NEW w \in Worker,
             \/ Enter(w) \/ TakeProcessLock(w) \/ FileExists(w)
             \/ KeepPolling(w) \/ GiveUp(w) \/ TryAgain(w)
      PROVE  HealthyInv'
  BY <1>6 DEF Enter, TakeProcessLock, FileExists, KeepPolling,
              GiveUp, TryAgain, MoveTo
<1>7. CASE TimePasses
  <2>1. crashes = 0 =>
          \A w \in Worker : wpc[w] \in Holding => file = w /\ fileAge' <= held'[w]
    BY <1>7 DEF TimePasses, Older
  <2> QED
    BY <1>7, <2>1 DEF TimePasses
<1>8. ASSUME NEW r \in Runner, Crash(r) PROVE HealthyInv'
  <2>1. crashes' # 0
    BY <1>8 DEF Crash
  <2> QED
    BY <2>1
<1>9. ASSUME NEW r \in Runner, Restart(r) PROVE HealthyInv'
  <2>1. crashes # 0 /\ crashes' = crashes
    BY <1>9 DEF Restart
  <2> QED
    BY <2>1
<1>10. CASE UNCHANGED lockVars
  BY <1>10 DEF lockVars
<1> QED
  BY <1>1, <1>2, <1>3, <1>4, <1>5, <1>6, <1>7, <1>8, <1>9, <1>10
  DEF LockNext, WorkerStep

\* HealthyInv holds in every reachable state when builds are short.
LEMMA HealthyAlways ==
  ASSUME MaxBuild < Stale
  PROVE  LockSpec => []HealthyInv
<1>1. LockInit => HealthyInv
  BY LockAssumption DEF LockInit, HealthyInv, FileInv, Holding
<1>2. LockTypeOK /\ HealthyInv /\ [LockNext]_lockVars => HealthyInv'
  BY HealthyStep
<1> QED
  BY <1>1, <1>2, LockTypeCorrect, PTL DEF LockSpec

\* The docstring's mutual exclusion, under the conditions that make it true.
THEOREM HostExclusion ==
  ASSUME MaxBuild < Stale
  PROVE  LockSpec => []ExclusionUntilCrash
<1>1. HealthyInv => ExclusionUntilCrash
  BY DEF HealthyInv, FileInv, ExclusionUntilCrash, BuildExclusion
<1> QED
  BY <1>1, HealthyAlways, PTL

\* Under the same conditions release() never removes somebody else's file.
THEOREM OwnFileReleased ==
  ASSUME MaxBuild < Stale
  PROVE  LockSpec => ReleasesOwnFile
<1>1. HealthyInv /\ [LockNext]_lockVars
        => [\A w \in Worker : crashes = 0 /\ wpc[w] = "release" /\ wpc'[w] = "idle"
              => file = w]_lockVars
  BY DEF HealthyInv, FileInv, Holding
<1> QED
  BY <1>1, HealthyAlways, PTL DEF LockSpec, ReleasesOwnFile

-----------------------------------------------------------------------------
(* The attempts of one task.                                               *)

\* What a failed attempt has done by the time it is repeated.
Earned ==
  /\ failure = "E2" /\ retryOn /\ gameturbo
  /\ cleaned = retry /\ patches = retry
  /\ installed /\ artifact

\* Before an attempt, in it, and after it failed.  A decision to retry that an
\* interrupt has overtaken reaches the head of the loop unearned, interrupted.
AttemptInv ==
  /\ runPc \in {"begin", "enter"} => retry = 0
  /\ runPc = "head"
       => retry < Limit /\ cleaned = retry /\ (retry = 0 \/ shutdown \/ Earned)
  /\ runPc \in {"prepare", "install", "launch", "phase", "after", "failed", "cleanup",
                "modify", "deploy", "decide"} => retry > 0
  /\ runPc \in {"prepare", "install", "launch", "phase", "failed", "cleanup", "modify",
                "deploy"} => patches = retry - 1
  /\ runPc \in {"modify", "deploy"} => willRetry /\ cleaned = retry
  /\ runPc = "deploy" => gameturbo
  /\ runPc \in {"cleanup", "modify", "deploy", "decide"} /\ willRetry
       => failure = "E2" /\ retryOn /\ retry < Limit
  /\ runPc = "decide" => cleaned = retry /\ (willRetry => shutdown \/ Earned)

\* How a run ends: passed in its last attempt, or never.
ResultInv ==
  /\ runPc \notin {"after", "finish", "done"} => passed = 0
  /\ runPc = "after" => passed = retry
  /\ runPc = "finish" => \/ passed = retry /\ retry > 0
                         \/ passed = 0 /\ cleaned = retry
  /\ ReturnsWhatItPublished

\* The gid is known from the start with a preprocessed APK, and from the first
\* launch on; an attempt with the plugin fails as E2 only after its launch.
NamedInv ==
  /\ runPc \in {"begin", "enter"} => failure = None
  /\ /\ gameturbo
     /\ \/ preprocess /\ (retry > 0 \/ runPc = "head")
        \/ runPc \in {"phase", "after"}
        \/ failure = "E2" \/ passed > 0 \/ patches > 0
     => named

LoopInv == LoopTypeOK /\ AttemptInv /\ NamedInv /\ ResultInv

\* The number of attempts is positive whatever the configuration.
LEMMA LimitPositive ==
  ASSUME retryOn \in BOOLEAN
  PROVE  Limit \in Nat /\ Limit > 0
  BY RetriesAssumption DEF Limit

\* The initial states satisfy the invariant.
LEMMA InitLoop == LoopInit => LoopInv
<1>. SUFFICES ASSUME LoopInit PROVE LoopInv
  OBVIOUS
<1>1. Limit \in Nat /\ Limit > 0
  BY LimitPositive DEF LoopInit
<1>2. LoopTypeOK
  <2>1. /\ retry \in 0..Limit
        /\ patches \in 0..retry /\ cleaned \in 0..retry /\ passed \in 0..retry
    BY <1>1 DEF LoopInit
  <2>. QED
    BY <2>1, Zenon DEF LoopInit, LoopTypeOK, RunPC, None
<1>3. AttemptInv
  BY <1>1 DEF LoopInit, AttemptInv
<1>4. ResultInv
  BY DEF LoopInit, ResultInv, ReturnsWhatItPublished, None
<1>5. NamedInv
  BY DEF LoopInit, NamedInv, None
<1>. QED
  BY <1>2, <1>3, <1>4, <1>5 DEF LoopInv

\* Every step keeps every variable in its type; the number of patches stays
\* below the number of attempts because each attempt starts one behind.
LEMMA LoopTypeStep ==
  ASSUME LoopTypeOK, AttemptInv, [LoopNext]_loopVars
  PROVE  LoopTypeOK'
<1>. USE DEF LoopTypeOK, RunPC, None, End, StopHere, switches,
             device, judged, result
<1>1. Limit' = Limit /\ Limit \in Nat
  <2>1. UNCHANGED switches
    BY DEF LoopNext, Step, Begin, EnterTask, NextAttempt, Prepare,
           Install, Launch, Phase, AfterPhase, Decide,
           CleanUp, Modify, Deploy, Conclude, Finish,
           Interrupt, Terminated, loopVars
  <2>. QED
    BY <2>1, LimitPositive DEF Limit
<1>2. CASE Begin
  BY <1>1, <1>2 DEF Begin
<1>3. ASSUME Removed PROVE installed' \in BOOLEAN /\ scriptRan' \in BOOLEAN
  BY <1>3, Zenon DEF Removed
<1>4. CASE EnterTask
  BY <1>1, <1>3, <1>4 DEF EnterTask
<1>5. CASE NextAttempt
  BY <1>1, <1>5 DEF NextAttempt
<1>6. CASE Prepare
  BY <1>1, <1>6 DEF Prepare, Fail
<1>7. CASE Install
  <2>1. installed' \in BOOLEAN
    BY <1>7, Zenon DEF Install
  <2>. QED
    BY <1>1, <1>7, <2>1 DEF Install, Fail
<1>8. CASE Launch \/ AfterPhase
  BY <1>1, <1>8 DEF Launch, AfterPhase
<1>9. CASE Phase
  BY <1>1, <1>9 DEF Phase, Fail
<1>10. CASE Decide
  BY <1>1, <1>10 DEF Decide
<1>11. CASE CleanUp
  BY <1>1, <1>11, <1>3 DEF CleanUp
<1>12. CASE Modify
  BY <1>1, <1>12 DEF Modify
<1>13. CASE Deploy
  <2>1. installed' \in BOOLEAN /\ artifact' \in BOOLEAN
    BY <1>13, Zenon DEF Deploy
  <2>2. /\ patches' \in {patches, patches + 1} /\ scriptRan' = TRUE
        /\ UNCHANGED <<switches, retry, shutdown, judged, cleaned, passed,
                       deliverable, named>>
        /\ \/ runPc' = "decide"
           \/ runPc' = "done" /\ outcome' \in {"raised", "interrupted"}
        /\ runPc' = "decide" => UNCHANGED outcome
        /\ patches = retry - 1 /\ runPc = "deploy"
    BY <1>13, Zenon DEF Deploy, AttemptInv
  <2>. QED
    BY <1>1, <2>1, <2>2
<1>14. CASE Conclude
  BY <1>1, <1>14 DEF Conclude
<1>15. CASE Finish
  <2>1. artifact' \in BOOLEAN
    BY <1>15, Zenon DEF Finish, CleanPackagesOfRun
  <2>. QED
    BY <1>1, <1>15, <2>1 DEF Finish
<1>16. CASE Interrupt
  BY <1>1, <1>16 DEF Interrupt
<1>17. CASE UNCHANGED loopVars
  BY <1>1, <1>17 DEF loopVars
<1>. HIDE DEF LoopTypeOK
<1>. QED
  BY <1>2, <1>4, <1>5, <1>6, <1>7, <1>8, <1>9, <1>10, <1>11, <1>12, <1>13, <1>14,
     <1>15, <1>16, <1>17
  DEF LoopNext, Step, Terminated

\* Every step keeps the account of the attempts.
LEMMA AttemptInvStep ==
  ASSUME LoopTypeOK, AttemptInv, [LoopNext]_loopVars
  PROVE  AttemptInv'
<1>. USE DEF AttemptInv, Earned, Limit, End, StopHere, switches,
             device, judged, result
<1>1. CASE Begin \/ Interrupt
  BY <1>1 DEF Begin, Interrupt
<1>2. CASE EnterTask
  BY <1>2, LimitPositive DEF EnterTask, LoopTypeOK
<1>3. CASE NextAttempt
  BY <1>3 DEF NextAttempt, LoopTypeOK
<1>4. CASE Prepare \/ Install
  BY <1>4 DEF Prepare, Install, Fail
<1>5. CASE Launch \/ AfterPhase
  BY <1>5 DEF Launch, AfterPhase
<1>6. CASE Phase
  BY <1>6 DEF Phase, Fail
<1>7. CASE Decide
  BY <1>7 DEF Decide
<1>8. CASE CleanUp
  BY <1>8 DEF CleanUp, Removed
<1>9. CASE Modify
  BY <1>9 DEF Modify
<1>10. CASE Deploy
  <2>1. CASE runPc' = "decide"
    BY <1>10, <2>1 DEF Deploy, LoopTypeOK
  <2>2. CASE runPc' = "done"
    BY <2>2
  <2>. QED
    BY <1>10, <2>1, <2>2, Zenon DEF Deploy
<1>11. CASE Conclude
  BY <1>11 DEF Conclude
<1>12. CASE Finish
  BY <1>12 DEF Finish
<1>13. CASE UNCHANGED loopVars
  BY <1>13 DEF loopVars
<1>. HIDE DEF AttemptInv
<1>. QED
  BY <1>1, <1>2, <1>3, <1>4, <1>5, <1>6, <1>7, <1>8, <1>9, <1>10, <1>11, <1>12, <1>13
  DEF LoopNext, Step, Terminated

\* No step forgets the gid, and whatever needs it comes after it is known.
LEMMA NamedInvStep ==
  ASSUME LoopTypeOK, AttemptInv, NamedInv, [LoopNext]_loopVars
  PROVE  NamedInv'
<1>. USE DEF NamedInv, End, StopHere, None, switches, device, judged, result
<1>1. CASE Begin \/ Interrupt
  BY <1>1 DEF Begin, Interrupt
<1>2. CASE EnterTask
  <2>1. /\ ~(retry > 0) /\ ~(passed > 0) /\ ~(patches > 0) /\ failure = None
        /\ gameturbo \in BOOLEAN /\ preprocess \in BOOLEAN
    BY <1>2 DEF EnterTask, AttemptInv, LoopTypeOK
  <2>2. UNCHANGED <<gameturbo, preprocess, retry, passed, patches, failure>>
    BY <1>2, Zenon DEF EnterTask
  <2>3. \/ runPc' = "head" /\ named' = (preprocess /\ gameturbo)
        \/ runPc' = "done"
    BY <1>2, Zenon DEF EnterTask
  <2>4. CASE runPc' = "done"
    BY <2>1, <2>2, <2>4
  <2>5. CASE runPc' = "head" /\ named' = (preprocess /\ gameturbo)
    BY <2>1, <2>2, <2>5
  <2>. QED
    BY <2>3, <2>4, <2>5
<1>3. CASE NextAttempt
  BY <1>3 DEF NextAttempt
<1>4. CASE Prepare \/ Install
  BY <1>4 DEF Prepare, Install, Fail
<1>5. CASE Launch \/ AfterPhase
  <2>1. CASE Launch
    <3>1. gameturbo' => named'
      BY <2>1, Zenon DEF Launch
    <3>2. runPc' \notin {"begin", "enter"}
      BY <2>1 DEF Launch
    <3>. QED
      BY <3>1, <3>2, Zenon
  <2>2. CASE AfterPhase
    BY <2>2 DEF AfterPhase
  <2>. QED
    BY <1>5, <2>1, <2>2
<1>6. CASE Phase
  BY <1>6 DEF Phase, Fail
<1>7. CASE Decide
  BY <1>7 DEF Decide
<1>8. CASE CleanUp
  BY <1>8 DEF CleanUp
<1>9. CASE Modify
  BY <1>9 DEF Modify
<1>10. CASE Deploy
  <2>1. failure = "E2" /\ failure' = failure
    BY <1>10 DEF Deploy, AttemptInv
  <2>. QED
    BY <1>10, <2>1 DEF Deploy
<1>11. CASE Conclude
  BY <1>11 DEF Conclude, AttemptInv
<1>12. CASE Finish
  BY <1>12 DEF Finish
<1>13. CASE UNCHANGED loopVars
  BY <1>13 DEF loopVars
<1>. HIDE DEF NamedInv
<1>. QED
  BY <1>1, <1>2, <1>3, <1>4, <1>5, <1>6, <1>7, <1>8, <1>9, <1>10, <1>11, <1>12, <1>13
  DEF LoopNext, Step, Terminated

\* Every step keeps what is published and returned in agreement.
LEMMA ResultInvStep ==
  ASSUME LoopTypeOK, AttemptInv, NamedInv, ResultInv, [LoopNext]_loopVars
  PROVE  ResultInv'
<1>. USE DEF ResultInv, ReturnsWhatItPublished, End, StopHere, None,
             switches, device, judged, result
<1>1. CASE Begin \/ Interrupt
  BY <1>1 DEF Begin, Interrupt, LoopTypeOK, AttemptInv
<1>2. CASE EnterTask
  BY <1>2 DEF EnterTask, LoopTypeOK
<1>3. CASE NextAttempt
  BY <1>3 DEF NextAttempt, LoopTypeOK
<1>4. CASE Prepare \/ Install
  BY <1>4 DEF Prepare, Install, Fail, LoopTypeOK
<1>5. CASE Launch \/ AfterPhase
  BY <1>5 DEF Launch, AfterPhase, LoopTypeOK, AttemptInv
<1>6. CASE Phase
  BY <1>6 DEF Phase, Fail, LoopTypeOK
<1>7. CASE Decide
  BY <1>7 DEF Decide, LoopTypeOK
<1>8. CASE CleanUp
  BY <1>8 DEF CleanUp, Removed, LoopTypeOK
<1>9. CASE Modify
  BY <1>9 DEF Modify, LoopTypeOK, AttemptInv
<1>10. CASE Deploy
  BY <1>10 DEF Deploy, LoopTypeOK
<1>11. CASE Conclude
  BY <1>11 DEF Conclude, LoopTypeOK, AttemptInv
<1>12. CASE Finish
  BY <1>12 DEF Finish, CleanPackagesOfRun, NamedInv, LoopTypeOK
<1>13. CASE UNCHANGED loopVars
  BY <1>13 DEF loopVars
<1>. HIDE DEF ResultInv
<1>. QED
  BY <1>1, <1>2, <1>3, <1>4, <1>5, <1>6, <1>7, <1>8, <1>9, <1>10, <1>11, <1>12, <1>13
  DEF LoopNext, Step, Terminated

\* The invariant holds in every reachable state.
LEMMA LoopInvAlways == LoopSpec => []LoopInv
<1>1. LoopInv /\ [LoopNext]_loopVars => LoopInv'
  BY LoopTypeStep, AttemptInvStep, NamedInvStep, ResultInvStep DEF LoopInv
<1>. QED
  BY <1>1, InitLoop, PTL DEF LoopSpec

\* Every variable stays in its type, for any max_retries.
THEOREM LoopTypeCorrect == LoopSpec => []LoopTypeOK
<1>1. LoopInv => LoopTypeOK
  BY DEF LoopInv
<1>. QED
  BY <1>1, LoopInvAlways, PTL

\* The code behind the for loop is never reached.
THEOREM LoopNeverRunsOut == LoopSpec => []NeverRunsOut
<1>1. LoopInv => NeverRunsOut
  BY DEF LoopInv, AttemptInv, NeverRunsOut
<1>. QED
  BY <1>1, LoopInvAlways, PTL

\* The exit status, the published deliverable and the cleanup agree.
THEOREM ResultPublished == LoopSpec => []ReturnsWhatItPublished
<1>1. LoopInv => ReturnsWhatItPublished
  BY DEF LoopInv, ResultInv
<1>. QED
  BY <1>1, LoopInvAlways, PTL

\* No attempt is repeated without cause, cleanup and a deployed patch, nor
\* after an interrupt.
THEOREM RetryEarned == LoopSpec => RetryIsEarned
<1>. DEFINE A == retry' > retry /\ retry > 0
                   => /\ failure = "E2" /\ retryOn /\ gameturbo /\ ~shutdown
                      /\ cleaned = retry /\ patches = retry
                      /\ installed /\ artifact
<1>1. ASSUME LoopTypeOK, [LoopNext]_loopVars PROVE NextAttempt \/ retry' = retry
  BY <1>1, Zenon
  DEF LoopNext, Step, Begin, EnterTask, Prepare, Install,
      Launch, Phase, AfterPhase, Decide, CleanUp, Modify,
      Deploy, Conclude, Finish, Interrupt, Terminated, loopVars
<1>2. ASSUME LoopInv, NextAttempt, retry' > retry, retry > 0 PROVE ~shutdown /\ Earned
  BY <1>2 DEF LoopInv, LoopTypeOK, AttemptInv, NextAttempt, StopHere,
              judged, result, device
<1>3. ASSUME LoopInv, [LoopNext]_loopVars PROVE A
  <2>1. retry' = retry => ~(retry' > retry)
    BY <1>3 DEF LoopInv, LoopTypeOK
  <2>. QED
    BY <1>1, <1>2, <1>3, <2>1, Zenon DEF LoopInv, Earned
<1>4. LoopInv /\ [LoopNext]_loopVars => [A]_loopVars
  BY <1>3
<1>. QED
  BY <1>4, LoopInvAlways, PTL DEF LoopSpec, RetryIsEarned
==============================================================================
