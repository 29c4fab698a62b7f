-------------------------- MODULE BatchRunnerProofs --------------------------
(***************************************************************************)
(* Proofs about BatchRunner, for any number of tasks and any devices:      *)
(* TypeOK; the archived manifest is the final one; the lock covers the     *)
(* work of a runner interrupted at most once.  When the tasks have ids of  *)
(* their own, also: no task is lost, and every behaviour, forced exits and *)
(* disk failures included, is one of TaskPool.                             *)
(***************************************************************************)
EXTENDS BatchRunner, TLAPS

\* No worker is between its first check and its end.
Quiet == \A d \in Device : wpc[d] \in {"unborn", "ended"}

\* Every task has an id of its own.
OwnIds == \A t \in Task : id[t] = t

\* A task is RUNNING exactly as long as one worker has it in hand, and a
\* worker gives it up only by marking it, or when the process goes away
\* under it after a second interrupt.
WorkInv ==
  /\ \A d \in Device : wpc[d] = "run" => cur[d] # NoTask
  /\ \A d \in Device : cur[d] # NoTask
       => /\ status[cur[d]] = "running" /\ claimedBy[cur[d]] = d
          /\ wpc[d] = "run" \/ (mpc = "gone" /\ signals = 2)
  /\ \A t \in Task : status[t] = "running"
       => claimedBy[t] \in Device /\ cur[claimedBy[t]] = t

\* The main thread leaves the join loop, and reports anything but a forced
\* stop, only over quiet workers.
MainInv ==
  /\ mpc = "start" => \A t \in Task : status[t] = "pending"
  /\ mpc \in {"start", "final", "cleanup", "gone"} => Quiet
  /\ mpc \in {"poll", "join"} => \A d \in Device : wpc[d] # "unborn"
  /\ mpc = "exit" /\ (signals < 2 \/ exitCode # "130") => Quiet
  /\ signals = 2 => exitCode = "130"
  /\ mpc = "cleanup" => disk = Whole(Finished)
  /\ archived.text # "absent" => Quiet /\ archived = Whole(Finished)
                                 /\ mpc \in {"exit", "gone"}

\* The lock file between the processes.
LockInv ==
  /\ InLock => lockFile = "me"
  /\ other = "in" => lockFile = "other"

\* The texts the actions write are manifests.
LEMMA Texts ==
  /\ \A t \in {"absent", "empty", "whole", "garbled"} : NoText(t) \in Manifest
  /\ \A S \in SUBSET Task : Whole(S) \in Manifest
  /\ Finished \in SUBSET Task
BY DEF NoText, Whole, Manifest, Finished

-----------------------------------------------------------------------------
\* Every variable keeps its type.
THEOREM TypeCorrect == Spec => []TypeOK
<1> USE DEF TypeOK, None, MainPC, WorkerPC, given, workers, queue, files, locking, main
<1>1. Init => TypeOK
  <2> SUFFICES ASSUME Init PROVE TypeOK
    OBVIOUS
  <2>1. NoText("absent") \in Manifest
    BY Texts
  <2>2. disk \in Manifest /\ archived \in Manifest
    BY <2>1 DEF Init
  <2>3. /\ code \in [Task -> {None, "0", "1", "130"}]
        /\ claimedBy \in [Task -> Device \cup {None}]
    BY DEF Init
  <2>4. /\ status \in [Task -> {"pending", "running", "succeeded", "failed"}]
        /\ cur \in [Device -> Task \cup {NoTask}]
        /\ snap \in [Device -> SUBSET Task]
        /\ wpc \in [Device -> WorkerPC]
    BY DEF Init
  <2>7. id \in [Task -> Task]
    BY DEF Init, TaskIds
  <2>5. /\ connected \subseteq Device /\ diskFails \in BOOLEAN /\ mpc \in MainPC
        /\ lockFile \in {None, "me", "other"} /\ other \in {"out", "in", "dead"}
        /\ interrupted \in BOOLEAN /\ exitCode = None /\ mpc = "start"
    BY BatchAssumption DEF Init
  <2>6. signals \in 0..MaxSignals
    BY BatchAssumption DEF Init
  <2> QED
    BY <2>2, <2>3, <2>4, <2>5, <2>6, <2>7
<1>2. TypeOK /\ [Next]_vars => TypeOK'
  <2> SUFFICES ASSUME TypeOK, [Next]_vars PROVE TypeOK'
    OBVIOUS
  <2>1. ASSUME NEW d \in Device, CheckShutdown(d) \/ SaveFails(d) PROVE TypeOK'
    <3>1. wpc' \in [Device -> WorkerPC]
      BY <2>1 DEF CheckShutdown, SaveFails, Goto
    <3>2. UNCHANGED <<given, cur, snap, queue, files, locking, main, signals>>
      BY <2>1 DEF CheckShutdown, SaveFails
    <3> QED
      BY <3>1, <3>2
  <2>2. ASSUME NEW d \in Device, Claim(d) PROVE TypeOK'
    <3>1. /\ status' \in [Task -> {"pending", "running", "succeeded", "failed"}]
          /\ claimedBy' \in [Task -> Device \cup {None}]
          /\ wpc' \in [Device -> WorkerPC]
          /\ cur' \in [Device -> Task \cup {NoTask}]
      <4>1. CASE TakeFirst(d)
        <5> PICK t \in Task :
              /\ wpc' = [wpc EXCEPT ![d] = "run"]
              /\ cur' = [cur EXCEPT ![d] = t]
              /\ status' = [status EXCEPT ![t] = "running"]
              /\ claimedBy' = [claimedBy EXCEPT ![t] = d]
          BY <4>1 DEF TakeFirst, Goto, Pending
        <5> QED
          OBVIOUS
      <4>2. CASE Goto(d, "claim", "ended") /\ UNCHANGED <<cur, queue>>
        BY <4>2 DEF Goto
      <4> QED
        BY <2>2, <4>1, <4>2 DEF Claim
    <3>3. UNCHANGED <<given, code, snap, files, locking, main, signals>>
      BY <2>2 DEF Claim, TakeFirst
    <3> QED
      BY <3>1, <3>3
  <2>3. ASSUME NEW d \in Device, NEW r \in {"0", "1"}, EndAttempt(d, r)
        PROVE  TypeOK'
    <3> PICK t \in Task :
          /\ status' = [status EXCEPT ![t] = IF r = "0" THEN "succeeded" ELSE "failed"]
          /\ code' = [code EXCEPT ![t] = r]
      BY <2>3 DEF EndAttempt, Mark
    <3>1. /\ status' \in [Task -> {"pending", "running", "succeeded", "failed"}]
          /\ code' \in [Task -> {None, "0", "1", "130"}]
      OBVIOUS
    <3>2. snap' \in [Device -> SUBSET Task]
      BY <2>3 DEF EndAttempt, Finished
    <3>3. /\ wpc' \in [Device -> WorkerPC]
          /\ cur' \in [Device -> Task \cup {NoTask}]
      BY <2>3 DEF EndAttempt, Mark, Goto
    <3>4. UNCHANGED <<given, claimedBy, files, locking, main, signals>>
      BY <2>3 DEF EndAttempt
    <3> QED
      BY <3>1, <3>2, <3>3, <3>4, SMTT(40)
  <2>4. ASSUME NEW d \in Device, InterruptAttempt(d) PROVE TypeOK'
    <3> PICK t \in Task :
          /\ status' = [status EXCEPT ![t] = "failed"]
          /\ code' = [code EXCEPT ![t] = "130"]
      BY <2>4 DEF InterruptAttempt, Mark
    <3>1. status' \in [Task -> {"pending", "running", "succeeded", "failed"}]
      OBVIOUS
    <3>2. code' \in [Task -> {None, "0", "1", "130"}]
      OBVIOUS
    <3>3. /\ wpc' \in [Device -> WorkerPC]
          /\ cur' \in [Device -> Task \cup {NoTask}]
      BY <2>4 DEF InterruptAttempt, Mark, Goto
    <3>4. UNCHANGED <<given, claimedBy, snap, files, locking, main, signals>>
      BY <2>4 DEF InterruptAttempt
    <3> QED
      BY <3>1, <3>2, <3>3, <3>4, SMTT(40)
  <2>5. ASSUME NEW d \in Device, OpenManifest(d) PROVE TypeOK'
    <3>1. /\ wpc' \in [Device -> WorkerPC]
          /\ snap' \in [Device -> SUBSET Task]
          /\ disk' \in Manifest
      BY <2>5, Texts DEF OpenManifest, Goto
    <3>2. UNCHANGED <<given, cur, queue, archived, locking, main, signals>>
      BY <2>5 DEF OpenManifest
    <3> QED
      BY <3>1, <3>2
  <2>6. ASSUME NEW d \in Device, WriteManifest(d) PROVE TypeOK'
    <3>1. /\ wpc' \in [Device -> WorkerPC]
          /\ disk' \in Manifest
      BY <2>6, Texts DEF WriteManifest, Goto
    <3>2. UNCHANGED <<given, cur, snap, queue, archived, locking, main, signals>>
      BY <2>6 DEF WriteManifest
    <3> QED
      BY <3>1, <3>2
  <2>7. CASE NoDevice \/ Refused \/ StartBatch \/ MainFails
    <3>1. CASE StartBatch
      <4>1. wpc' \in [Device -> WorkerPC]
        BY <3>1 DEF StartBatch
      <4>2. disk' \in Manifest
        BY <3>1, Texts DEF StartBatch
      <4> QED
        BY <3>1, <4>1, <4>2 DEF StartBatch
    <3>2. CASE NoDevice \/ Refused \/ MainFails
      <4>1. /\ mpc' \in MainPC /\ lockFile' \in {None, "me", "other"}
            /\ exitCode' \in {None, "0", "1", "130", "locked", "raised"}
            /\ exitCode' # None <=> mpc' \in {"exit", "gone"}
        BY <3>2 DEF NoDevice, Refused, MainFails, Exit
      <4>2. UNCHANGED <<given, workers, queue, files, other, interrupted, signals>>
        BY <3>2 DEF NoDevice, Refused, MainFails
      <4> QED
        BY <4>1, <4>2
    <3> QED
      BY <2>7, <3>1, <3>2
  <2>8. CASE PollWorkers \/ JoinTimesOut \/ ProcessDies
    <3>1. /\ mpc' \in MainPC /\ interrupted' \in BOOLEAN
          /\ wpc' \in [Device -> WorkerPC]
          /\ exitCode' # None <=> mpc' \in {"exit", "gone"}
      BY <2>8 DEF PollWorkers, JoinTimesOut, ProcessDies
    <3>2. UNCHANGED <<given, cur, snap, queue, files, locking, exitCode, signals>>
      BY <2>8 DEF PollWorkers, JoinTimesOut, ProcessDies
    <3> QED
      BY <3>1, <3>2
  <2>9. CASE Finalize \/ Cleanup
    <3>1. disk' \in Manifest /\ archived' \in Manifest
      BY <2>9, Texts DEF Finalize, Cleanup
    <3>2. /\ mpc' \in MainPC /\ lockFile' \in {None, "me", "other"}
          /\ exitCode' \in {None, "0", "1", "130", "locked", "raised"}
          /\ exitCode' # None <=> mpc' \in {"exit", "gone"}
      BY <2>9 DEF Finalize, Cleanup, Exit
    <3>3. UNCHANGED <<given, workers, queue, other, interrupted, signals>>
      BY <2>9 DEF Finalize, Cleanup
    <3> QED
      BY <3>1, <3>2, <3>3
  <2>10. CASE Environment
    <3>1. CASE ForceExit
      <4>1. /\ mpc' \in MainPC /\ lockFile' \in {None, "me", "other"}
            /\ exitCode' \in {None, "0", "1", "130", "locked", "raised"}
            /\ exitCode' # None <=> mpc' \in {"exit", "gone"}
        BY <3>1 DEF ForceExit, Exit
      <4>2. signals' \in 0..MaxSignals
        BY <3>1, BatchAssumption DEF ForceExit
      <4>3. disk' \in Manifest
        BY <3>1, Texts DEF ForceExit
      <4>4. UNCHANGED <<given, workers, queue, archived, other, interrupted>>
        BY <3>1 DEF ForceExit, Exit
      <4> QED
        BY <4>1, <4>2, <4>3, <4>4
    <3>2. CASE OtherTakes \/ OtherLeaves \/ OtherIsKilled
      BY <3>2 DEF OtherTakes, OtherLeaves, OtherIsKilled
    <3>3. CASE Interrupt
      <4>1. signals' \in 0..MaxSignals
        BY <3>3, BatchAssumption DEF Interrupt
      <4>2. UNCHANGED <<given, workers, queue, files, locking, main>>
        BY <3>3 DEF Interrupt
      <4> QED
        BY <4>1, <4>2, SMTT(40)
    <3> QED
      BY <2>10, <3>1, <3>2, <3>3 DEF Environment
  <2>11. CASE UNCHANGED vars
    BY <2>11 DEF vars
  <2> HIDE DEF TypeOK
  <2> QED
    BY <2>1, <2>2, <2>3, <2>4, <2>5, <2>6, <2>7, <2>8, <2>9, <2>10, <2>11
    DEF Next, WorkerStep, MainStep, Terminated
<1> QED
  BY <1>1, <1>2, PTL DEF Spec

-----------------------------------------------------------------------------
\* With ids of their own, a worker's result is recorded for its own task.
LEMMA MarksOwn ==
  ASSUME TypeOK, OwnIds, NEW d \in Device, cur[d] # NoTask, NEW r, Mark(d, r)
  PROVE  /\ cur[d] \in Task
         /\ status' = [status EXCEPT ![cur[d]] = IF r = "0" THEN "succeeded" ELSE "failed"]
         /\ code' = [code EXCEPT ![cur[d]] = r]
         /\ cur' = [cur EXCEPT ![d] = NoTask]
  BY DEF TypeOK, OwnIds, Mark, Indexed

\* WorkInv and MainInv are preserved together: a task in hand needs a worker
\* that runs, and the main thread decides only over workers that do not.
LEMMA WorkStep ==
  ASSUME TypeOK, OwnIds, WorkInv, MainInv, [Next]_vars
  PROVE  WorkInv'
<1> USE DEF WorkInv, given, workers, queue, files, locking, main
<1>0. /\ wpc \in [Device -> WorkerPC] /\ cur \in [Device -> Task \cup {NoTask}]
      /\ status \in [Task -> {"pending", "running", "succeeded", "failed"}]
      /\ claimedBy \in [Task -> Device \cup {None}]
      /\ signals \in {0, 1, 2}
      /\ NoTask \notin Task
  BY BatchAssumption DEF TypeOK, Task, NoTask
<1> USE <1>0
<1>1. ASSUME NEW d \in Device, Claim(d) PROVE WorkInv'
  <2>1. CASE TakeFirst(d)
    <3> PICK t \in Pending :
          /\ wpc[d] = "claim" /\ wpc' = [wpc EXCEPT ![d] = "run"]
          /\ cur' = [cur EXCEPT ![d] = t]
          /\ status' = [status EXCEPT ![t] = "running"]
          /\ claimedBy' = [claimedBy EXCEPT ![t] = d]
      BY <2>1 DEF TakeFirst, Goto
    <3>1. t \in Task /\ status[t] = "pending" /\ UNCHANGED <<mpc, signals>>
      BY <1>1 DEF Pending, Claim
    <3>2. cur[d] = NoTask
      BY DEF MainInv, Quiet
    <3>3. \A e \in Device : cur[e] # t
      BY <3>1
    <3>4. \A e \in Device : wpc'[e] = "run" => cur'[e] # NoTask
      BY <3>1
    <3>5. ASSUME NEW e \in Device, cur'[e] # NoTask
          PROVE  /\ status'[cur'[e]] = "running" /\ claimedBy'[cur'[e]] = e
                 /\ wpc'[e] = "run" \/ (mpc' = "gone" /\ signals' = 2)
      BY <3>1, <3>2, <3>3, <3>5
    <3>6. ASSUME NEW u \in Task, status'[u] = "running"
          PROVE  claimedBy'[u] \in Device /\ cur'[claimedBy'[u]] = u
      BY <3>1, <3>2, <3>3, <3>6
    <3> QED
      BY <3>4, <3>5, <3>6, Zenon
  <2>2. CASE Goto(d, "claim", "ended") /\ UNCHANGED <<cur, queue>>
    BY <1>1, <2>2 DEF Claim, Goto
  <2> QED
    BY <1>1, <2>1, <2>2 DEF Claim
<1>2. ASSUME NEW d \in Device, NEW r \in {"0", "1"}, EndAttempt(d, r) PROVE WorkInv'
  <2>1. wpc[d] = "run" /\ cur[d] # NoTask /\ Mark(d, r)
    BY <1>2 DEF EndAttempt, Goto
  <2>4. /\ cur[d] \in Task
        /\ status' = [status EXCEPT ![cur[d]] = IF r = "0" THEN "succeeded" ELSE "failed"]
        /\ cur' = [cur EXCEPT ![d] = NoTask]
    BY <2>1, MarksOwn, Zenon
  <2>2. PICK x \in {"succeeded", "failed"} : status' = [status EXCEPT ![cur[d]] = x]
    BY <2>4
  <2>3. /\ wpc' = [wpc EXCEPT ![d] = "open"]
        /\ UNCHANGED <<claimedBy, mpc, signals>>
    BY <1>2 DEF EndAttempt, Goto
  <2> QED
    BY <2>1, <2>2, <2>3, <2>4, SMTT(40)
<1>3. ASSUME NEW d \in Device, InterruptAttempt(d) PROVE WorkInv'
  <2>1. wpc[d] = "run" /\ cur[d] # NoTask /\ Mark(d, "130")
    BY <1>3 DEF InterruptAttempt, Goto
  <2>4. /\ cur[d] \in Task
        /\ status' = [status EXCEPT ![cur[d]] = IF "130" = "0" THEN "succeeded" ELSE "failed"]
        /\ cur' = [cur EXCEPT ![d] = NoTask]
    BY <2>1, MarksOwn, Zenon
  <2>2. status' = [status EXCEPT ![cur[d]] = "failed"]
    BY <2>4
  <2>3. /\ wpc' = [wpc EXCEPT ![d] = "ended"]
        /\ UNCHANGED <<claimedBy, mpc, signals>>
    BY <1>3 DEF InterruptAttempt, Goto
  <2> QED
    BY <2>1, <2>2, <2>3, <2>4, SMTT(40)
<1>4. ASSUME NEW d \in Device,
             CheckShutdown(d) \/ OpenManifest(d) \/ WriteManifest(d) \/ SaveFails(d)
      PROVE  WorkInv'
  <2>1. \A e \in Device : wpc'[e] = "run" <=> wpc[e] = "run"
    BY <1>4 DEF CheckShutdown, OpenManifest, WriteManifest, SaveFails, Goto
  <2>2. UNCHANGED <<cur, status, claimedBy, mpc, signals>>
    BY <1>4 DEF CheckShutdown, OpenManifest, WriteManifest, SaveFails
  <2> QED
    BY <2>1, <2>2
<1>5. CASE StartBatch
  BY <1>5 DEF StartBatch, MainInv, Quiet
<1>6. CASE ProcessDies
  <2>1. /\ mpc = "exit" /\ mpc' = "gone"
        /\ UNCHANGED <<cur, status, claimedBy, signals>>
        /\ wpc' = [d \in Device |-> "ended"]
    BY <1>6 DEF ProcessDies
  <2>2. ASSUME NEW d \in Device, cur[d] # NoTask PROVE signals = 2
    <3>1. wpc[d] = "run"
      BY <2>1, <2>2
    <3>2. ~Quiet
      BY <3>1 DEF Quiet
    <3>3. ~(signals < 2)
      BY <2>1, <3>2 DEF MainInv
    <3> QED
      BY <3>3
  <2> QED
    BY <2>1, <2>2
<1>7. CASE NoDevice \/ Refused \/ MainFails \/ PollWorkers \/ JoinTimesOut
           \/ Finalize \/ Cleanup
  <2>1. UNCHANGED <<cur, status, claimedBy, wpc, signals>> /\ mpc' # "gone"
        /\ mpc # "gone"
    BY <1>7 DEF NoDevice, Refused, MainFails, PollWorkers, JoinTimesOut, Finalize,
       Cleanup, Exit
  <2> QED
    BY <2>1
<1>8. CASE Environment
  BY <1>8 DEF Environment, Interrupt, ForceExit, OtherTakes, OtherLeaves,
     OtherIsKilled, Exit
<1>9. CASE UNCHANGED vars
  BY <1>9 DEF vars
<1> QED
  BY <1>1, <1>2, <1>3, <1>4, <1>5, <1>6, <1>7, <1>8, <1>9
  DEF Next, WorkerStep, MainStep, Terminated

LEMMA MainStepInv ==
  ASSUME TypeOK, MainInv, [Next]_vars
  PROVE  MainInv'
<1> USE BatchAssumption DEF TypeOK, MainInv, Quiet, None, given, workers, queue, files, locking, main
<1>1. ASSUME NEW d \in Device, WorkerStep(d) PROVE MainInv'
  <2>1. wpc[d] \notin {"unborn", "ended"}
    BY <1>1 DEF WorkerStep, CheckShutdown, Claim, TakeFirst, InterruptAttempt,
       EndAttempt, OpenManifest, WriteManifest, SaveFails, Goto
  <2>2. mpc \in {"poll", "join", "exit"} /\ archived.text = "absent"
    BY <2>1 DEF MainPC
  <2>3. wpc'[d] # "unborn" /\ \A e \in Device \ {d} : wpc'[e] = wpc[e]
    BY <1>1 DEF WorkerStep, CheckShutdown, Claim, TakeFirst, InterruptAttempt,
       EndAttempt, OpenManifest, WriteManifest, SaveFails, Goto
  <2>4. UNCHANGED <<mpc, exitCode, archived, signals>>
    BY <1>1 DEF WorkerStep, CheckShutdown, Claim, TakeFirst, InterruptAttempt,
       EndAttempt, OpenManifest, WriteManifest, SaveFails
  <2> QED
    BY <2>1, <2>2, <2>3, <2>4
<1>2. CASE NoDevice \/ Refused \/ StartBatch \/ MainFails
  BY <1>2 DEF NoDevice, Refused, StartBatch, MainFails, Exit
<1>3. CASE PollWorkers \/ JoinTimesOut
  BY <1>3 DEF PollWorkers, JoinTimesOut, Alive
<1>4. CASE Finalize
  BY <1>4 DEF Finalize, Finished, Whole
<1>5. CASE Cleanup
  BY <1>5 DEF Cleanup, Exit, Finished, Whole
<1>6. CASE ProcessDies
  BY <1>6 DEF ProcessDies, Finished, Whole
<1>7. CASE Environment
  BY <1>7 DEF Environment, Interrupt, ForceExit, OtherTakes, OtherLeaves,
     OtherIsKilled, Exit, Finished, Whole
<1>8. CASE UNCHANGED vars
  BY <1>8 DEF vars, Finished, Whole
<1> QED
  BY <1>1, <1>2, <1>3, <1>4, <1>5, <1>6, <1>7, <1>8 DEF Next, MainStep, Terminated

LEMMA MainAlways == Spec => [](TypeOK /\ MainInv)
<1>1. Init => MainInv
  BY DEF Init, MainInv, Quiet, NoText, NoTask, None
<1>2. TypeOK /\ MainInv /\ [Next]_vars => MainInv'
  BY MainStepInv
<1> QED
  BY <1>1, <1>2, TypeCorrect, PTL DEF Spec

\* The ids are given.
LEMMA IdsStay == [Next]_vars => id' = id
<1> SUFFICES ASSUME [Next]_vars PROVE id' = id
  OBVIOUS
<1> USE DEF vars, given
<1>1. ASSUME NEW d \in Device, WorkerStep(d) PROVE id' = id
  BY <1>1 DEF WorkerStep, CheckShutdown, Claim, InterruptAttempt, EndAttempt,
     OpenManifest, WriteManifest, SaveFails
<1>2. CASE MainStep
  BY <1>2 DEF MainStep, NoDevice, Refused, StartBatch, MainFails, PollWorkers,
     JoinTimesOut, Finalize, Cleanup, ProcessDies
<1>3. CASE Environment
  BY <1>3 DEF Environment, Interrupt, ForceExit, OtherTakes, OtherLeaves, OtherIsKilled
<1> QED
  BY <1>1, <1>2, <1>3 DEF Next, Terminated

LEMMA OwnIdsAlways == ASSUME DistinctIds PROVE Spec => []OwnIds
<1>1. Init => OwnIds
  BY DEF Init, OwnIds, TaskIds
<1>2. OwnIds /\ [Next]_vars => OwnIds'
  BY IdsStay DEF OwnIds
<1> QED
  BY <1>1, <1>2, PTL DEF Spec

LEMMA WorkAlways == Spec => [](OwnIds => WorkInv)
<1>1. Init => WorkInv
  BY DEF Init, WorkInv, NoTask, None
<1>2. OwnIds' /\ [Next]_vars => OwnIds
  BY IdsStay DEF OwnIds
<1>3. TypeOK /\ OwnIds /\ WorkInv /\ MainInv /\ [Next]_vars => WorkInv'
  BY WorkStep
<1> QED
  BY <1>1, <1>2, <1>3, MainAlways, PTL DEF Spec

\* No task is left RUNNING by a batch that was not forced to stop, if the
\* tasks have ids of their own.
THEOREM NothingLost == ASSUME DistinctIds PROVE Spec => []NoTaskLost
<1>1. TypeOK /\ WorkInv /\ MainInv => NoTaskLost
  BY DEF TypeOK, WorkInv, MainInv, Quiet, NoTaskLost, Task, NoTask, None
<1> QED
  BY <1>1, WorkAlways, OwnIdsAlways, MainAlways, PTL

\* The deliverables get the manifest of the finished batch.
THEOREM FinalArchive == Spec => []ArchiveIsFinal
<1>1. MainInv => ArchiveIsFinal
  BY DEF MainInv, ArchiveIsFinal
<1> QED
  BY <1>1, MainAlways, PTL

-----------------------------------------------------------------------------
\* Without interrupts and on a disk that works, a worker ends only when nothing
\* is left to claim, and every device that was connected has had one.
TriedInv ==
  signals = 0 /\ ~diskFails /\ connected # {} /\ mpc # "start" /\ exitCode # "locked"
  => \A d \in connected : wpc[d] # "unborn" /\ (wpc[d] = "ended" => Pending = {})

\* What has been claimed does not become pending again.
LEMMA PendingShrinks == TypeOK /\ [Next]_vars => Pending' \subseteq Pending
<1> SUFFICES ASSUME TypeOK, [Next]_vars, NEW t \in Task, status'[t] = "pending"
             PROVE  status[t] = "pending"
  BY DEF Pending
<1> USE DEF TypeOK, queue, workers
<1>1. ASSUME NEW d \in Device, WorkerStep(d) PROVE status[t] = "pending"
  <2>1. CASE TakeFirst(d)
    BY <2>1 DEF TakeFirst, Pending
  <2>2. ASSUME NEW r \in {"0", "1", "130"}, Mark(d, r) PROVE status[t] = "pending"
    BY <2>2 DEF Mark
  <2> QED
    BY <1>1, <2>1, <2>2 DEF WorkerStep, CheckShutdown, Claim, InterruptAttempt, EndAttempt,
       OpenManifest, WriteManifest, SaveFails
<1>2. CASE MainStep
  BY <1>2 DEF MainStep, NoDevice, Refused, StartBatch, MainFails, PollWorkers,
     JoinTimesOut, Finalize, Cleanup, ProcessDies
<1>3. CASE Environment
  BY <1>3 DEF Environment, Interrupt, ForceExit, OtherTakes, OtherLeaves, OtherIsKilled
<1> QED
  BY <1>1, <1>2, <1>3 DEF Next, Terminated, vars

LEMMA TriedStep ==
  ASSUME TypeOK, MainInv, TriedInv, [Next]_vars
  PROVE  TriedInv'
<1> SUFFICES ASSUME (signals = 0 /\ ~diskFails /\ connected # {}
                     /\ mpc # "start" /\ exitCode # "locked")',
                    NEW d \in connected'
             PROVE  (wpc[d] # "unborn" /\ (wpc[d] = "ended" => Pending = {}))'
  BY DEF TriedInv
<1>0. Pending' \subseteq Pending
  BY PendingShrinks
<1> USE DEF TypeOK, None, MainPC, given, workers, queue, files, locking, main
<1>1. ASSUME NEW e \in Device, WorkerStep(e)
      PROVE  (wpc[d] # "unborn" /\ (wpc[d] = "ended" => Pending = {}))'
  <2>1. /\ UNCHANGED <<connected, diskFails, mpc, exitCode, signals>>
        /\ wpc[e] \notin {"unborn", "ended"} /\ wpc'[e] # "unborn"
        /\ \A f \in Device \ {e} : wpc'[f] = wpc[f]
    BY <1>1 DEF WorkerStep, CheckShutdown, Claim, TakeFirst, InterruptAttempt,
       EndAttempt, OpenManifest, WriteManifest, SaveFails, Goto
  <2>2. wpc'[e] = "ended" => Pending = {}
    BY <1>1, <2>1 DEF WorkerStep, CheckShutdown, Claim, TakeFirst, InterruptAttempt,
       EndAttempt, OpenManifest, WriteManifest, SaveFails, Goto, Shutdown
  <2> QED
    BY <1>0, <2>1, <2>2 DEF TriedInv
<1>2. CASE StartBatch
  BY <1>2 DEF StartBatch
<1>3. CASE NoDevice \/ Refused \/ MainFails
  BY <1>3 DEF NoDevice, Refused, MainFails, Exit
<1>4. CASE PollWorkers \/ JoinTimesOut \/ Finalize
  BY <1>0, <1>4 DEF PollWorkers, JoinTimesOut, Finalize, TriedInv
<1>5. CASE Cleanup
  BY <1>0, <1>5 DEF Cleanup, Exit, TriedInv
<1>6. CASE ProcessDies
  <2>1. mpc = "exit" /\ UNCHANGED <<connected, diskFails, exitCode, signals, status>>
    BY <1>6 DEF ProcessDies
  <2>2. wpc[d] # "unborn" /\ (wpc[d] = "ended" => Pending = {})
    BY <2>1 DEF TriedInv
  <2>3. wpc[d] \in {"unborn", "ended"}
    BY <2>1 DEF MainInv, Quiet
  <2> QED
    BY <1>0, <1>6, <2>2, <2>3 DEF ProcessDies
<1>7. CASE Environment
  BY <1>0, <1>7 DEF Environment, Interrupt, ForceExit, OtherTakes, OtherLeaves,
     OtherIsKilled, Exit, TriedInv
<1>8. CASE UNCHANGED vars
  BY <1>0, <1>8 DEF vars, TriedInv
<1> QED
  BY <1>1, <1>2, <1>3, <1>4, <1>5, <1>6, <1>7, <1>8 DEF Next, MainStep, Terminated

\* Every task is tried, whatever attempts end in: no way out of one takes the
\* worker with it, and workers do not end while tasks wait.
THEOREM EveryTaskTried == Spec => []AllTasksTried
<1>1. Init => TriedInv
  BY DEF Init, TriedInv
<1>2. TypeOK /\ MainInv /\ (OwnIds => WorkInv) /\ TriedInv => AllTasksTried
  <2> SUFFICES ASSUME TypeOK, MainInv, OwnIds => WorkInv, TriedInv,
                      exitCode \in {"0", "1"}, connected # {}, signals = 0, ~diskFails,
                      OwnIds, NEW t \in Task
               PROVE  status[t] \in {"succeeded", "failed"}
    BY DEF AllTasksTried, OwnIds
  <2>1. Quiet /\ mpc # "start"
    BY DEF TypeOK, MainInv, None
  <2>2. PICK d \in connected : d \in Device
    BY DEF TypeOK
  <2>3. Pending = {}
    BY <2>1, <2>2 DEF TriedInv, Quiet
  <2>4. status[t] # "running"
    BY <2>1 DEF WorkInv, Quiet, MainInv, TypeOK, Task, NoTask
  <2> QED
    BY <2>3, <2>4 DEF TypeOK, Pending
<1> QED
  BY <1>1, <1>2, TriedStep, MainAlways, WorkAlways, PTL DEF Spec

-----------------------------------------------------------------------------
\* LockInv is inductive with the other invariants.
LEMMA LockAlways == Spec => []LockInv
<1>1. Init => LockInv
  BY DEF Init, LockInv, InLock
<1>2. LockInv /\ [Next]_vars => LockInv'
  <2> SUFFICES ASSUME LockInv, [Next]_vars PROVE LockInv'
    OBVIOUS
  <2> USE DEF LockInv, InLock, None, given, workers, queue, files, locking, main
  <2>1. ASSUME NEW d \in Device, WorkerStep(d) PROVE LockInv'
    BY <2>1 DEF WorkerStep, CheckShutdown, Claim, InterruptAttempt, EndAttempt,
       OpenManifest, WriteManifest, SaveFails
  <2>2. CASE MainStep
    BY <2>2 DEF MainStep, NoDevice, Refused, StartBatch, MainFails, PollWorkers,
       JoinTimesOut, Finalize, Cleanup, ProcessDies, Exit
  <2>3. CASE Environment
    BY <2>3 DEF Environment, Interrupt, ForceExit, OtherTakes, OtherLeaves,
       OtherIsKilled, Exit
  <2>4. CASE UNCHANGED vars
    BY <2>4 DEF vars
  <2> QED
    BY <2>1, <2>2, <2>3, <2>4 DEF Next, Terminated
<1> QED
  BY <1>1, <1>2, PTL DEF Spec

\* The lock covers the work, until the user interrupts twice.
THEOREM LockCoverage == Spec => []LockCoversWork
<1>1. TypeOK /\ MainInv /\ LockInv => LockCoversWork
  BY DEF TypeOK, MainInv, Quiet, LockInv, InLock, LockCoversWork, MainPC
<1> QED
  BY <1>1, MainAlways, LockAlways, PTL

-----------------------------------------------------------------------------
\* Every step of the batch is a step of the pool, or invisible to it.
LEMMA PoolStep ==
  ASSUME TypeOK, OwnIds, WorkInv, MainInv, [Next]_vars
  PROVE  [Pool!Next]_Pool!vars
<1> USE DEF TypeOK, Task, NoTask, None, given, workers, queue, files, locking, main
<1>1. ASSUME NEW d \in Device, Claim(d) PROVE [Pool!Next]_Pool!vars
  <2>1. exitCode \in {None, "130"}
    BY <1>1 DEF Claim, TakeFirst, Goto, MainInv, Quiet, MainPC
  <2>2. \A t \in Task : claimedBy[t] = d => status[t] # "running"
    BY <1>1, SMTT(30) DEF Claim, TakeFirst, Goto, WorkInv, MainInv, Quiet
  <2>3. CASE TakeFirst(d)
    <3> PICK t \in Pending : /\ status' = [status EXCEPT ![t] = "running"]
                             /\ claimedBy' = [claimedBy EXCEPT ![t] = d]
      BY <2>3 DEF TakeFirst
    <3>1. t \in Task /\ status[t] = "pending" /\ UNCHANGED exitCode
      BY <1>1 DEF Pending, Claim
    <3>2. Pool!Open
      BY <2>1 DEF Pool!Open, Report, Pool!None
    <3>3. Pool!Begin(t, d)
      BY <2>2, <3>1, <3>2 DEF Pool!Begin, Report
    <3> QED
      BY <3>1, <3>3 DEF Pool!Next
  <2>4. CASE UNCHANGED queue
    BY <1>1, <2>4 DEF Claim, Pool!vars, Report
  <2> QED
    BY <1>1, <2>3, <2>4 DEF Claim
<1>2. ASSUME NEW d \in Device, NEW r \in {"0", "1", "130"}, wpc[d] = "run",
             Mark(d, r), UNCHANGED <<claimedBy, main>>
      PROVE  [Pool!Next]_Pool!vars
  <2>1. cur[d] \in Task /\ status[cur[d]] = "running"
    BY <1>2 DEF WorkInv
  <2>2. exitCode \in {None, "130"}
    BY <1>2 DEF MainInv, Quiet, MainPC
  <2>3. Pool!Open
    BY <2>2 DEF Pool!Open, Report, Pool!None
  <2>4. PICK x \in Pool!Result : status' = [status EXCEPT ![cur[d]] = x]
    BY <1>2, <2>1, MarksOwn DEF Pool!Result
  <2>5. Pool!End(cur[d], x)
    BY <1>2, <2>1, <2>3, <2>4 DEF Pool!End, Report
  <2> QED
    BY <2>1, <2>5 DEF Pool!Next
<1>3. ASSUME NEW d \in Device,
             CheckShutdown(d) \/ OpenManifest(d) \/ WriteManifest(d) \/ SaveFails(d)
      PROVE  UNCHANGED Pool!vars
  BY <1>3 DEF CheckShutdown, OpenManifest, WriteManifest, SaveFails, Pool!vars, Report
<1>4. CASE StartBatch \/ PollWorkers \/ JoinTimesOut \/ Finalize \/ ProcessDies
  BY <1>4 DEF StartBatch, PollWorkers, JoinTimesOut, Finalize, ProcessDies,
     Pool!vars, Report
<1>5. ASSUME NEW x \in {"0", "1", "130", "locked", "raised"},
             mpc \notin {"exit", "gone"}, Exit(x), UNCHANGED queue,
             x = "0" => \A t \in Task : status[t] = "succeeded",
             x = "1" => \E t \in Task : status[t] # "succeeded",
             x # "130" => mpc \in {"start", "final", "cleanup"}
      PROVE  [Pool!Next]_Pool!vars
  <2>1. exitCode = None /\ exitCode' = x
    BY <1>5 DEF Exit
  <2>2. Report = Pool!None /\ Report' \in {"ok", "failed", "error", "interrupted"}
    BY <2>1 DEF Report, Pool!None
  <2>3. x # "130" => \A t \in Task : status[t] # "running"
    BY <1>5 DEF MainInv, WorkInv, Quiet
  <2>4. Pool!Report(Report')
    BY <1>5, <2>1, <2>2, <2>3 DEF Report, Pool!Report, Pool!AllSucceeded, Pool!Settled
  <2> QED
    BY <2>2, <2>4 DEF Pool!Next
<1>6. CASE NoDevice
  <2>1. 1 \in Task /\ status[1] # "succeeded"
    BY <1>6, BatchAssumption DEF NoDevice, MainInv
  <2> QED
    BY <1>5, <1>6, <2>1 DEF NoDevice
<1>7. CASE Refused \/ MainFails
  BY <1>5, <1>7 DEF Refused, MainFails
<1>8. CASE Cleanup
  BY <1>5, <1>8 DEF Cleanup
<1>9. CASE ForceExit
  BY <1>5, <1>9 DEF ForceExit
<1>10. CASE Interrupt \/ OtherTakes \/ OtherLeaves \/ OtherIsKilled \/ UNCHANGED vars
  BY <1>10 DEF Interrupt, OtherTakes, OtherLeaves, OtherIsKilled, vars, Pool!vars, Report
<1>11. ASSUME NEW d \in Device, WorkerStep(d) PROVE [Pool!Next]_Pool!vars
  <2>1. ASSUME NEW r \in {"0", "1"}, EndAttempt(d, r) PROVE [Pool!Next]_Pool!vars
    BY <1>2, <2>1 DEF EndAttempt, Goto
  <2>2. CASE InterruptAttempt(d)
    BY <1>2, <2>2 DEF InterruptAttempt, Goto
  <2> QED
    BY <1>1, <1>3, <1>11, <2>1, <2>2 DEF WorkerStep
<1> QED
  BY <1>4, <1>6, <1>7, <1>8, <1>9, <1>10, <1>11
  DEF Next, MainStep, Environment, Terminated

\* A batch whose tasks have ids of their own implements TaskPool.
THEOREM Refinement == ASSUME DistinctIds PROVE Spec => ImplementsTaskPool
<1>1. Init => Pool!Init
  BY DEF Init, Pool!Init, Report, Pool!None, None, Task
<1>2. TypeOK /\ OwnIds /\ WorkInv /\ MainInv /\ [Next]_vars => [Pool!Next]_Pool!vars
  BY PoolStep
<1> QED
  BY <1>1, <1>2, WorkAlways, OwnIdsAlways, MainAlways, PTL
  DEF Spec, ImplementsTaskPool, Pool!Spec
=============================================================================
