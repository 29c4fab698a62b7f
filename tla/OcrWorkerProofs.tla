--------------------------- MODULE OcrWorkerProofs ---------------------------
(***************************************************************************)
(* Proofs about OcrWorker.  The heart of it: the queue of a device holds   *)
(* calls of its own clients only, and settings change only while none of   *)
(* them reads the screen, so that a model, a call and the settings meet    *)
(* only after the stale model was dropped.                                 *)
(***************************************************************************)
EXTENDS OcrWorker, TLAPS

-----------------------------------------------------------------------------
(* Sequences.                                                              *)

\* What Append leaves at which place.
LEMMA AppendAt ==
  ASSUME NEW S, NEW q \in Seq(S), NEW e \in S
  PROVE  /\ Append(q, e) \in Seq(S) /\ Append(q, e) # <<>>
         /\ Len(Append(q, e)) = Len(q) + 1 /\ Len(q) \in Nat
         /\ \A i \in 1..Len(q) : Append(q, e)[i] = q[i]
         /\ Append(q, e)[Len(q) + 1] = e
         /\ q # <<>> => Head(Append(q, e)) = Head(q)
<1>1. /\ Append(q, e) \in Seq(S)
      /\ Len(Append(q, e)) = Len(q) + 1 /\ Len(q) \in Nat
      /\ \A i \in 1..Len(q) : Append(q, e)[i] = q[i]
      /\ Append(q, e)[Len(q) + 1] = e
  OBVIOUS
<1>2. Append(q, e) # <<>>
  BY <1>1
<1>3. ASSUME q # <<>> PROVE Head(Append(q, e)) = Head(q)
  <2>1. Len(q) >= 1 /\ Head(q) = q[1]
    BY <1>3
  <2>2. Head(Append(q, e)) = Append(q, e)[1]
    BY <1>1, <1>2
  <2> QED BY <1>1, <2>1, <2>2
<1> QED BY <1>1, <1>2, <1>3

\* What Tail leaves at which place.
LEMMA TailAt ==
  ASSUME NEW S, NEW q \in Seq(S), q # <<>>
  PROVE  /\ Tail(q) \in Seq(S)
         /\ Len(q) \in Nat /\ Len(q) >= 1 /\ Len(Tail(q)) = Len(q) - 1
         /\ \A i \in 1..Len(Tail(q)) : i + 1 \in 1..Len(q) /\ Tail(q)[i] = q[i + 1]
         /\ Head(q) = q[1] /\ Head(q) \in S
  OBVIOUS

-----------------------------------------------------------------------------
(* The invariant.                                                          *)

Types ==
  /\ tasks \in [Device -> Nat]
  /\ stage \in [Device -> {"idle", "install", "phase"}]
  /\ client \in [Client -> {"off", "ready", "idle", "waiting", "release"}]
  /\ lock \in Client \cup {NoClient}
  /\ workers \subseteq Key
  /\ cfg \in [Key -> Config]
  /\ model \in [Key -> Config \cup {None}]
  /\ queue \in [Key -> Seq(Job)]
  /\ ocr \in [Key -> {"get", "model", "build", "predict"}]
  /\ inst \in [Key -> Config \cup {None}]
  /\ retried \in [Key -> BOOLEAN]
  /\ \A d \in Device : tasks[d] <= Len(Sections[d])

\* A job of key k: a call of the device waits for it, a reset only before the
\* phase, anything else only in it.
Fits(k, j) ==
  /\ client[j.by] = "waiting"
  /\ j.model \in {k, Default}
  /\ k \in Device => j.by[1] = k
  /\ j.do = "reset" => k \in Device /\ j.by = <<k, "main">> /\ stage[k] = "install"
  /\ k \in Device /\ j.do # "reset" => stage[k] = "phase"
  /\ j.do = "load" => j.model = k

JobsFit == \A k \in Key : \A i \in 1..Len(queue[k]) : Fits(k, queue[k][i])

\* A client waits for one job at a time.
OneJobEach ==
  \A j, k \in Key : \A m \in 1..Len(queue[j]), n \in 1..Len(queue[k]) :
    queue[j][m].by = queue[k][n].by => j = k /\ m = n

\* What the stage of a device says of its clients and its settings.
StageOf(d) ==
  /\ stage[d] = "idle" => Quiet(d)
  /\ stage[d] # "idle" => tasks[d] \in 1..Len(Sections[d])
  /\ stage[d] # "phase" => client[<<d, "exec">>] = "off"
  /\ stage[d] = "phase" => cfg[d] = Settings(d) /\ d \in workers
  /\ client[<<d, "main">>] \in {"waiting", "release"} =>
       stage[d] = "install" /\ cfg[d] = Settings(d) /\ d \in workers

StageFits == \A d \in Device : StageOf(d)

ReleaseIsMain == \A c \in Client : client[c] = "release" => c[2] = "main"

HasReset(k) == \E i \in 1..Len(queue[k]) : queue[k][i].do = "reset"

\* An OCR thread between two steps is busy with the head of its queue.
ThreadFits ==
  \A k \in Key : ocr[k] # "get" =>
    queue[k] # <<>> /\ Head(queue[k]).do \in {"infer", "load"} /\ Target(k) \in workers

\* A model that does not fit the settings is about to be dropped.
ModelOf(d) ==
  /\ model[d] = None \/ model[d] = cfg[d] \/ HasReset(d)
  /\ ocr[d] \in {"build", "predict"} /\ Target(d) = d => inst[d] = cfg[d]

ModelFits == \A d \in Device : ModelOf(d)

UnknownIsEmpty == \A k \in Key : k \notin workers => queue[k] = <<>> /\ model[k] = None

IInv == /\ Types /\ JobsFit /\ OneJobEach /\ StageFits /\ ReleaseIsMain
        /\ ThreadFits /\ ModelFits /\ UnknownIsEmpty

LEMMA InitIInv == Init => IInv
<1> SUFFICES ASSUME Init PROVE IInv
  OBVIOUS
<1>1. Types
  <2>1. \A d \in Device : Sections[d] \in Seq(Config) /\ 0 <= Len(Sections[d])
    <3> SUFFICES ASSUME NEW d \in Device PROVE Sections[d] \in Seq(Config) /\ 0 <= Len(Sections[d])
      OBVIOUS
    <3>1. Sections[d] \in Seq(Config)
      BY OcrAssumption
    <3> QED BY <3>1
  <2> QED BY <2>1, OcrAssumption DEF Init, Types
<1>2. \A k \in Key : Len(queue[k]) = 0
  BY DEF Init
<1>3. JobsFit /\ OneJobEach /\ UnknownIsEmpty /\ ThreadFits /\ ReleaseIsMain
  BY <1>2 DEF Init, JobsFit, OneJobEach, UnknownIsEmpty, ThreadFits, ReleaseIsMain
<1>4. StageFits
  BY OcrAssumption DEF Init, StageFits, StageOf, Quiet
<1>5. ModelFits
  BY DEF Init, ModelFits, ModelOf, Key
<1> QED BY <1>1, <1>3, <1>4, <1>5 DEF IInv

\* What a client is.
LEMMA Clients ==
  /\ \A c \in Client : /\ c[1] \in Device /\ c = <<c[1], c[2]>>
                       /\ c[2] \in {"main", "exec", "monitor"}
  /\ \A d \in Device : /\ d # Default /\ d \in Key
                       /\ <<d, "main">> \in Client /\ <<d, "exec">> \in Client
                       /\ <<d, "main">>[1] = d /\ <<d, "exec">>[1] = d
                       /\ <<d, "main">>[2] = "main" /\ <<d, "exec">>[2] = "exec"
  /\ Default \in Key
<1>1. ASSUME NEW c \in Client
      PROVE  c[1] \in Device /\ c = <<c[1], c[2]>> /\ c[2] \in {"main", "exec", "monitor"}
  <2>1. c \in Device \X {"main", "exec", "monitor"}
    BY OcrAssumption
  <2> QED BY <2>1
<1>2. ASSUME NEW d \in Device
      PROVE  /\ d # Default /\ d \in Key
             /\ <<d, "main">> \in Client /\ <<d, "exec">> \in Client
             /\ <<d, "main">>[1] = d /\ <<d, "exec">>[1] = d
             /\ <<d, "main">>[2] = "main" /\ <<d, "exec">>[2] = "exec"
  BY OcrAssumption DEF Key
<1> QED BY <1>1, <1>2 DEF Key

LEMMA SettingsType ==
  ASSUME NEW d \in Device, tasks[d] \in 1..Len(Sections[d])
  PROVE  Settings(d) \in Config
<1>1. Sections[d] \in Seq(Config)
  BY OcrAssumption
<1> QED BY <1>1 DEF Settings

-----------------------------------------------------------------------------
(* The callers.                                                            *)

LEMMA SkipWarmupStep ==
  ASSUME IInv, NEW d \in Device, SkipWarmup(d) PROVE IInv'
<1> USE Clients DEF SkipWarmup, IInv, task, registry, thread
<1>1. Types'
  BY DEF Types
<1>2. \A c \in Client : client[c] = "waiting" => client'[c] = "waiting"
  BY DEF Types
<1>3. JobsFit' /\ OneJobEach'
  BY <1>2 DEF Types, JobsFit, OneJobEach, Fits, Job
<1>4. StageFits'
  <2> SUFFICES ASSUME NEW e \in Device PROVE StageOf(e)'
    BY DEF StageFits
  <2>1. StageOf(d) /\ StageOf(e)
    BY DEF StageFits
  <2>2. stage[d] = "phase" /\ client'[<<e, "main">>] = client[<<e, "main">>]
    BY <2>1 DEF Types, StageOf
  <2>3. stage[e] # "phase" => client'[<<e, "exec">>] = "off"
    BY <2>1, <2>2 DEF Types, StageOf
  <2>4. stage[e] = "idle" => Quiet(e)'
    BY <2>1, <2>2 DEF Types, StageOf, Quiet
  <2> QED BY <2>1, <2>2, <2>3, <2>4 DEF StageOf, Settings
<1>5. ReleaseIsMain'
  BY DEF Types, ReleaseIsMain
<1>6. ThreadFits' /\ ModelFits' /\ UnknownIsEmpty'
  BY DEF ThreadFits, ModelFits, ModelOf, UnknownIsEmpty, HasReset, Target
<1> QED BY <1>1, <1>3, <1>4, <1>5, <1>6

\* While no client of a device waits, its queue is empty.
LEMMA QuietIsEmpty ==
  ASSUME IInv, NEW d \in Device, \A c \in Client : c[1] = d => client[c] # "waiting"
  PROVE  queue[d] = <<>>
<1> USE Clients DEF IInv
<1>1. queue[d] \in Seq(Job)
  BY DEF Types
<1>2. SUFFICES ASSUME queue[d] # <<>> PROVE FALSE
  OBVIOUS
<1>3. 1 \in 1..Len(queue[d]) /\ queue[d][1] \in Job
  BY <1>1, <1>2
<1>4. Fits(d, queue[d][1])
  BY <1>3 DEF JobsFit
<1> QED BY <1>3, <1>4 DEF Fits, Job

LEMMA BeginTaskStep ==
  ASSUME IInv, NEW d \in Device, BeginTask(d) PROVE IInv'
<1> USE Clients DEF BeginTask, IInv, task, registry, thread
<1>1. StageOf(d) /\ stage[d] = "idle"
  BY DEF StageFits
<1>2. \A c \in Client : c[1] = d => client[c] \in {"off", "idle"}
  BY <1>1 DEF StageOf, Quiet
<1>3. queue[d] = <<>>
  BY <1>2, QuietIsEmpty
<1>4. Len(Sections[d]) \in Nat
  <2>1. Sections[d] \in Seq(Config)
    BY OcrAssumption
  <2> QED BY <2>1
<1>5. Types'
  BY <1>4 DEF Types
<1>6. /\ \A c \in Client : client[c] = "waiting" => client'[c] = "waiting"
      /\ \A c \in Client : c[1] # d => client'[c] = client[c]
      /\ \A e \in Device : e # d => stage'[e] = stage[e] /\ tasks'[e] = tasks[e]
  BY <1>2 DEF Types
<1>7. JobsFit'
  <2> SUFFICES ASSUME NEW k \in Key, NEW i \in 1..Len(queue[k])
               PROVE  Fits(k, queue[k][i])'
    BY DEF JobsFit
  <2>1. Fits(k, queue[k][i]) /\ queue[k][i] \in Job /\ k # d
    BY <1>3 DEF JobsFit, Types
  <2> QED BY <1>6, <2>1 DEF Fits, Job
<1>8. StageFits'
  <2> SUFFICES ASSUME NEW e \in Device PROVE StageOf(e)'
    BY DEF StageFits
  <2>1. CASE e = d
    <3>1. stage'[d] = "install" /\ tasks'[d] \in 1..Len(Sections[d])
      BY <1>4 DEF Types
    <3>2. client'[<<d, "exec">>] = "off"
      BY <1>1 DEF StageOf, Types
    <3>3. client'[<<d, "main">>] = "idle"
      BY DEF Types
    <3> QED BY <2>1, <3>1, <3>2, <3>3 DEF StageOf
  <2>2. CASE e # d
    BY <1>6, <2>2 DEF StageFits, StageOf, Quiet, Settings
  <2> QED BY <2>1, <2>2
<1>9. ReleaseIsMain' /\ OneJobEach'
  BY DEF Types, ReleaseIsMain, OneJobEach
<1>10. ThreadFits' /\ ModelFits' /\ UnknownIsEmpty'
  BY DEF ThreadFits, ModelFits, ModelOf, UnknownIsEmpty, HasReset, Target
<1> QED BY <1>5, <1>7, <1>8, <1>9, <1>10

LEMMA EndTaskStep ==
  ASSUME IInv, NEW d \in Device, EndTask(d) PROVE IInv'
<1> USE Clients DEF EndTask, IInv, task, registry, thread
<1>1. \A c \in Client : c[1] = d => client[c] \in {"off", "idle"}
  BY DEF Quiet
<1>2. queue[d] = <<>>
  BY <1>1, QuietIsEmpty
<1>3. Types'
  BY DEF Types
<1>4. /\ \A c \in Client : client[c] = "waiting" => client'[c] = "waiting"
      /\ \A c \in Client : c[1] # d => client'[c] = client[c]
      /\ \A c \in Client : c[1] = d => client'[c] \in {"off", "idle"}
      /\ \A e \in Device : e # d => stage'[e] = stage[e]
  <2>1. /\ client'[<<d, "exec">>] = "off"
        /\ \A c \in Client : c # <<d, "exec">> => client'[c] = client[c]
    BY DEF Types
  <2>2. client[<<d, "exec">>] # "waiting"
    BY <1>1
  <2>3. \A e \in Device : e # d => stage'[e] = stage[e]
    BY DEF Types
  <2> QED BY <1>1, <2>1, <2>2, <2>3
<1>5. JobsFit'
  <2> SUFFICES ASSUME NEW k \in Key, NEW i \in 1..Len(queue[k])
               PROVE  Fits(k, queue[k][i])'
    BY DEF JobsFit
  <2>1. Fits(k, queue[k][i]) /\ queue[k][i] \in Job /\ k # d
    BY <1>2 DEF JobsFit, Types
  <2> QED BY <1>4, <2>1 DEF Fits, Job
<1>6. StageFits'
  <2> SUFFICES ASSUME NEW e \in Device PROVE StageOf(e)'
    BY DEF StageFits
  <2>1. CASE e = d
    <3>1. stage'[d] = "idle" /\ client'[<<d, "exec">>] = "off"
      BY DEF Types
    <3> QED BY <1>4, <2>1, <3>1 DEF StageOf, Quiet
  <2>2. CASE e # d
    BY <1>4, <2>2 DEF StageFits, StageOf, Quiet, Settings
  <2> QED BY <2>1, <2>2
<1>7. ReleaseIsMain' /\ OneJobEach'
  BY DEF Types, ReleaseIsMain, OneJobEach
<1>8. ThreadFits' /\ ModelFits' /\ UnknownIsEmpty'
  BY DEF ThreadFits, ModelFits, ModelOf, UnknownIsEmpty, HasReset, Target
<1> QED BY <1>3, <1>5, <1>6, <1>7, <1>8

LEMMA ReleaseLockStep ==
  ASSUME IInv, NEW c \in Client, ReleaseLock(c) PROVE IInv'
<1> USE Clients DEF ReleaseLock, Configured, IInv, thread
<1> DEFINE d == c[1]
<1>1. d \in Device /\ c = <<d, "main">> /\ client[c] = "release"
  BY DEF ReleaseIsMain
<1>2. StageOf(d)
  BY <1>1 DEF StageFits
<1>3. stage[d] = "install" /\ cfg[d] = Settings(d) /\ d \in workers
  BY <1>1, <1>2 DEF StageOf
<1>4. /\ client' = [client EXCEPT ![c] = "idle"]
      /\ stage' = [stage EXCEPT ![d] = "phase"]
  BY <1>1
<1>5. Types'
  BY <1>1, <1>4 DEF Types
<1>6. \A e \in Client : client[e] = "waiting" => client'[e] = "waiting"
  BY <1>1, <1>4 DEF Types
<1>7. JobsFit'
  <2> SUFFICES ASSUME NEW k \in Key, NEW i \in 1..Len(queue[k])
               PROVE  Fits(k, queue[k][i])'
    BY DEF JobsFit
  <2>1. Fits(k, queue[k][i]) /\ queue[k][i] \in Job
    BY DEF JobsFit, Types
  <2>2. queue[k][i].do = "reset" => k # d
    BY <1>1, <2>1 DEF Fits
  <2> QED BY <1>1, <1>4, <1>6, <2>1, <2>2 DEF Fits, Types, Job
<1>8. OneJobEach'
  BY DEF OneJobEach
<1>9. StageFits'
  <2> SUFFICES ASSUME NEW e \in Device PROVE StageOf(e)'
    BY DEF StageFits
  <2>1. CASE e = d
    <3>1. stage'[d] = "phase" /\ client'[<<d, "main">>] = "idle"
      <4>1. stage'[d] = "phase" /\ client'[c] = "idle"
        BY <1>1, <1>4 DEF Types
      <4> QED BY <1>1, <4>1
    <3> QED BY <1>2, <1>3, <2>1, <3>1 DEF StageOf, Settings
  <2>2. CASE e # d
    <3>1. StageOf(e) /\ stage'[e] = stage[e]
      BY <1>4, <2>2 DEF StageFits, Types
    <3>2. \A b \in Client : b[1] = e => client'[b] = client[b]
      <4>1. \A b \in Client : b[1] = e => b # c
        BY <2>2
      <4> QED BY <1>4, <4>1 DEF Types
    <3> QED BY <3>1, <3>2 DEF StageOf, Quiet, Settings
  <2> QED BY <2>1, <2>2
<1>10. ReleaseIsMain'
  BY <1>4 DEF Types, ReleaseIsMain
<1>11. ThreadFits' /\ ModelFits' /\ UnknownIsEmpty'
  BY DEF ThreadFits, ModelFits, ModelOf, UnknownIsEmpty, HasReset, Target
<1> QED BY <1>5, <1>7, <1>8, <1>9, <1>10, <1>11

-----------------------------------------------------------------------------
(* A job more in a queue.                                                  *)

\* What is in the queues after a job was put behind the others.
LEMMA Enqueued ==
  ASSUME Types, NEW k \in Key, NEW job \in Job, Enqueue(k, job)
  PROVE  /\ queue' \in [Key -> Seq(Job)]
         /\ \A j \in Key : j # k => queue'[j] = queue[j]
         /\ queue[k] \in Seq(Job) /\ queue'[k] = Append(queue[k], job)
         /\ \A j \in Key : \A i \in 1..Len(queue'[j]) :
              \/ i \in 1..Len(queue[j]) /\ queue'[j][i] = queue[j][i]
              \/ j = k /\ i = Len(queue[k]) + 1 /\ queue'[j][i] = job
         /\ \A j \in Key : queue[j] # <<>> =>
              queue'[j] # <<>> /\ Head(queue'[j]) = Head(queue[j])
         /\ \A j \in Key : HasReset(j) => HasReset(j)'
<1>1. /\ queue' \in [Key -> Seq(Job)]
      /\ \A j \in Key : j # k => queue'[j] = queue[j]
      /\ queue[k] \in Seq(Job) /\ queue'[k] = Append(queue[k], job)
  BY DEF Types, Enqueue
<1>2. /\ queue'[k] # <<>> /\ Len(queue'[k]) = Len(queue[k]) + 1 /\ Len(queue[k]) \in Nat
      /\ \A i \in 1..Len(queue[k]) : queue'[k][i] = queue[k][i]
      /\ queue'[k][Len(queue[k]) + 1] = job
      /\ queue[k] # <<>> => Head(queue'[k]) = Head(queue[k])
  BY <1>1, AppendAt
<1>3. ASSUME NEW j \in Key, NEW i \in 1..Len(queue'[j])
      PROVE  \/ i \in 1..Len(queue[j]) /\ queue'[j][i] = queue[j][i]
             \/ j = k /\ i = Len(queue[k]) + 1 /\ queue'[j][i] = job
  <2>1. CASE j # k
    BY <1>1, <2>1
  <2>2. CASE j = k
    <3>1. i \in 1..Len(queue[k]) \/ i = Len(queue[k]) + 1
      BY <1>2, <2>2
    <3> QED BY <1>2, <2>2, <3>1
  <2> QED BY <2>1, <2>2
<1>4. ASSUME NEW j \in Key, queue[j] # <<>>
      PROVE  queue'[j] # <<>> /\ Head(queue'[j]) = Head(queue[j])
  BY <1>1, <1>2, <1>4
<1>5. ASSUME NEW j \in Key, HasReset(j) PROVE HasReset(j)'
  <2>1. PICK i \in 1..Len(queue[j]) : queue[j][i].do = "reset"
    BY <1>5 DEF HasReset
  <2>2. i \in 1..Len(queue'[j]) /\ queue'[j][i] = queue[j][i]
    BY <1>1, <1>2
  <2> QED BY <2>1, <2>2 DEF HasReset
<1> QED BY <1>1, <1>3, <1>4, <1>5

\* A job of somebody who waits for nothing else.
LEMMA OneMore ==
  ASSUME IInv, NEW k \in Key, NEW job \in Job, Enqueue(k, job), client[job.by] # "waiting"
  PROVE  OneJobEach'
<1> USE DEF IInv
<1>1. ASSUME NEW j \in Key, NEW i \in 1..Len(queue[j]) PROVE queue[j][i].by # job.by
  BY DEF JobsFit, Fits
<1>2. \A j \in Key : \A i \in 1..Len(queue'[j]) :
        \/ i \in 1..Len(queue[j]) /\ queue'[j][i] = queue[j][i]
        \/ j = k /\ i = Len(queue[k]) + 1 /\ queue'[j][i] = job
  BY Enqueued
<1> SUFFICES ASSUME NEW j \in Key, NEW m \in 1..Len(queue'[j]),
                    NEW h \in Key, NEW n \in 1..Len(queue'[h]),
                    queue'[j][m].by = queue'[h][n].by
             PROVE  j = h /\ m = n
  BY DEF OneJobEach
<1>3. CASE m \in 1..Len(queue[j]) /\ queue'[j][m] = queue[j][m]
  <2>1. queue'[h][n] # job
    BY <1>1, <1>3
  <2>2. n \in 1..Len(queue[h]) /\ queue'[h][n] = queue[h][n]
    BY <1>2, <2>1
  <2> QED BY <1>3, <2>2 DEF OneJobEach
<1>4. CASE j = k /\ m = Len(queue[k]) + 1 /\ queue'[j][m] = job
  <2>1. ~(n \in 1..Len(queue[h]) /\ queue'[h][n] = queue[h][n])
    BY <1>1, <1>4
  <2> QED BY <1>2, <1>4, <2>1
<1> QED BY <1>2, <1>3, <1>4

\* A job more leaves the others in place, and is itself one of the device.
LEMMA EnqueuedFits ==
  ASSUME Types, JobsFit, NEW k \in Key, NEW job \in Job, Enqueue(k, job), Fits(k, job)',
         stage' = stage, \A b \in Client : client[b] = "waiting" => client'[b] = "waiting"
  PROVE  JobsFit'
<1> SUFFICES ASSUME NEW j \in Key, NEW i \in 1..Len(queue'[j]) PROVE Fits(j, queue[j][i])'
  BY DEF JobsFit
<1>1. CASE i \in 1..Len(queue[j]) /\ queue'[j][i] = queue[j][i]
  <2>1. Fits(j, queue[j][i])
    BY <1>1 DEF JobsFit
  <2>2. queue[j] \in Seq(Job)
    BY DEF Types
  <2>3. queue[j][i] \in Job
    BY <1>1, <2>2
  <2>4. queue[j][i].by \in Client
    BY <2>3 DEF Job
  <2> QED BY <1>1, <2>1, <2>4 DEF Fits
<1>2. CASE j = k /\ queue'[j][i] = job
  BY <1>2
<1> QED BY <1>1, <1>2, Enqueued

LEMMA Keys == Device \subseteq Key /\ Default \in Key /\ Default \notin Device
BY OcrAssumption DEF Key

LEMMA AskStep ==
  ASSUME IInv, NEW d \in Device, NEW c \in Client, NEW k \in {d, Default},
         NEW m \in {k, Default}, NEW act \in {"infer", "load"},
         c[1] = d, c[2] # "main", stage[d] # "idle", c[2] = "exec" \/ k = d => stage[d] = "phase",
         act = "load" => m = k,
         Ask(c, k, act, m)
  PROVE  IInv'
<1> DEFINE job == [by |-> c, do |-> act, model |-> m]
<1>1. job \in Job /\ k \in Key /\ job.by = c /\ job.do = act /\ job.model = m
  <2>1. k \in Key /\ m \in Key
    BY DEF Key
  <2> QED BY <2>1 DEF Job
<1>2. /\ client[c] # "waiting" /\ client' = [client EXCEPT ![c] = "waiting"]
      /\ Enqueue(k, job) /\ workers' = workers \cup {k}
      /\ UNCHANGED <<tasks, stage, lock, cfg, model, ocr, inst, retried>>
  BY DEF Ask, task
<1> HIDE DEF job
<1> USE DEF IInv
<1>3. Types'
  BY <1>1, <1>2, Enqueued DEF Types
<1>4. /\ client'[c] = "waiting" /\ \A b \in Client : b # c => client'[b] = client[b]
      /\ \A b \in Client : client[b] = "waiting" => client'[b] = "waiting"
  BY <1>2 DEF Types
<1>5. JobsFit'
  <2>1. Fits(k, job)'
    BY <1>1, <1>2, <1>4, Keys DEF Fits
  <2> QED BY <1>1, <1>2, <1>4, <2>1, EnqueuedFits
<1>6. OneJobEach'
  BY <1>1, <1>2, OneMore
<1>7. StageFits'
  <2> SUFFICES ASSUME NEW e \in Device PROVE StageOf(e)'
    BY DEF StageFits
  <2>1. /\ StageOf(e) /\ workers \subseteq workers'
        /\ stage'[e] = stage[e] /\ tasks'[e] = tasks[e] /\ cfg'[e] = cfg[e]
    BY <1>2 DEF StageFits
  <2>2. client'[<<e, "main">>] = client[<<e, "main">>]
    <3>1. <<e, "main">> \in Client /\ <<e, "main">> # c
      BY OcrAssumption
    <3> QED BY <1>4, <3>1
  <2>3. stage[e] # "phase" => client'[<<e, "exec">>] = client[<<e, "exec">>]
    <3>1. <<e, "exec">> \in Client
      BY OcrAssumption
    <3>2. ASSUME c = <<e, "exec">> PROVE stage[e] = "phase"
      BY <3>2
    <3> QED BY <1>4, <3>1, <3>2
  <2>4. stage[e] = "idle" => \A b \in Client : b[1] = e => client'[b] = client[b]
    BY <1>4
  <2> QED BY <2>1, <2>2, <2>3, <2>4 DEF StageOf, Quiet, Settings
<1>8. ReleaseIsMain'
  BY <1>4 DEF ReleaseIsMain
<1>9. \A j \in Key : /\ queue[j] # <<>> => queue'[j] # <<>> /\ Head(queue'[j]) = Head(queue[j])
                     /\ HasReset(j) => HasReset(j)'
                     /\ j # k => queue'[j] = queue[j]
  BY <1>1, <1>2, Enqueued
<1>10. ThreadFits'
  BY <1>2, <1>9 DEF ThreadFits, Target
<1>11. ModelFits'
  <2> SUFFICES ASSUME NEW e \in Device PROVE ModelOf(e)'
    BY DEF ModelFits
  <2>1. ModelOf(e) /\ (ocr[e] # "get" => queue[e] # <<>>)
    BY Keys DEF ModelFits, ThreadFits
  <2> QED BY <1>2, <1>9, <2>1, Keys DEF ModelOf, Target
<1>12. UnknownIsEmpty'
  BY <1>2, <1>9 DEF UnknownIsEmpty
<1> QED BY <1>3, <1>5, <1>6, <1>7, <1>8, <1>10, <1>11, <1>12

LEMMA ExecutorAsksStep ==
  ASSUME IInv, NEW d \in Device, ExecutorAsks(d) PROVE IInv'
<1> DEFINE c == <<d, "exec">>
<1>1. c \in Client /\ c[1] = d /\ c[2] = "exec"
  BY Clients
<1>2. PICK k \in {d, Default} : \E m \in {k, Default}, act \in {"infer", "load"} :
        (act = "load" => m = k) /\ Ask(c, k, act, m)
  BY DEF ExecutorAsks
<1>3. PICK m \in {k, Default}, act \in {"infer", "load"} :
        (act = "load" => m = k) /\ Ask(c, k, act, m)
  BY <1>2
<1>4. client[c] \in {"ready", "idle"}
  BY <1>3 DEF Ask
<1>5. stage[d] = "phase"
  BY <1>4 DEF IInv, StageFits, StageOf
<1> HIDE DEF c
<1> QED BY <1>1, <1>3, <1>5, AskStep

LEMMA MonitorAsksStep ==
  ASSUME IInv, NEW d \in Device, MonitorAsks(d) PROVE IInv'
<1> DEFINE c == <<d, "monitor">>
<1>1. c[1] = d /\ c[2] = "monitor"
  OBVIOUS
<1>2. CASE stage[d] = "install" /\ Ask(c, Default, "infer", Default)
  <2>1. c \in Client
    BY <1>2 DEF Ask
  <2> HIDE DEF c
  <2> QED BY <1>1, <1>2, <2>1, Clients, AskStep
<1>3. CASE stage[d] = "phase" /\ Ask(c, d, "infer", d)
  <2>1. c \in Client
    BY <1>3 DEF Ask
  <2> HIDE DEF c
  <2> QED BY <1>1, <1>3, <2>1, Clients, AskStep
<1> QED BY <1>2, <1>3 DEF MonitorAsks

\* Before the phase only a reset can be in the queue, and its caller waits for it.
LEMMA InstallIsEmpty ==
  ASSUME IInv, NEW d \in Device, stage[d] = "install", client[<<d, "main">>] # "waiting"
  PROVE  queue[d] = <<>> /\ ocr[d] = "get"
<1> USE Keys DEF IInv
<1>1. queue[d] \in Seq(Job)
  BY DEF Types
<1>2. ASSUME queue[d] # <<>> PROVE FALSE
  <2>1. 1 \in 1..Len(queue[d])
    BY <1>1, <1>2
  <2>2. Fits(d, queue[d][1])
    BY <2>1 DEF JobsFit
  <2> QED BY <2>2 DEF Fits
<1> QED BY <1>2 DEF ThreadFits, Types

\* A worker that is new, or whose model fits: the phase begins, or the executor is ready.
LEMMA ConfiguredStep ==
  ASSUME IInv, NEW c \in Client, NEW d \in Device, c[1] = d, MayConfigure(c),
         d \notin workers \/ cfg[d] = Settings(d),
         workers' = workers \cup {d}, cfg' = [cfg EXCEPT ![d] = Settings(d)],
         Configured(c), UNCHANGED <<tasks, lock, model, thread>>
  PROVE  IInv'
<1> USE DEF IInv, thread
<1>1. StageOf(d) /\ stage[d] # "idle"
  BY DEF StageFits, MayConfigure
<1>2. Settings(d) \in Config
  BY <1>1, SettingsType DEF StageOf
<1>3. /\ c \in {<<d, "main">>, <<d, "exec">>}
      /\ c[2] = "main" => client[c] = "idle" /\ c = <<d, "main">>
      /\ c[2] = "exec" => client[c] = "off" /\ c = <<d, "exec">>
      /\ c[2] \in {"main", "exec"}
  BY Clients DEF MayConfigure
<1>4. /\ client'[c] \in {"ready", "idle"} /\ client[c] \in {"off", "idle"}
      /\ client' \in [Client -> {"off", "ready", "idle", "waiting", "release"}]
      /\ \A b \in Client : b # c => client'[b] = client[b]
      /\ \A b \in Client : client[b] = "waiting" => client'[b] = "waiting"
      /\ stage'[d] = "phase" /\ \A e \in Device : e # d => stage'[e] = stage[e]
      /\ stage' \in [Device -> {"idle", "install", "phase"}]
  BY <1>3 DEF Types, Configured
<1>5. cfg'[d] = Settings(d) /\ \A k \in Key : k # d => cfg'[k] = cfg[k]
  BY Keys DEF Types
<1>6. Types'
  BY <1>2, <1>4, Keys DEF Types
<1>7. \A i \in 1..Len(queue[d]) : queue[d][i].do # "reset"
  <2>1. CASE stage[d] = "phase"
    <3>1. \A i \in 1..Len(queue[d]) : Fits(d, queue[d][i])
      BY Keys DEF JobsFit
    <3> QED BY <2>1, <3>1 DEF Fits
  <2>2. CASE stage[d] = "install"
    <3>1. c[2] # "exec"
      BY <2>2, <1>3 DEF MayConfigure
    <3>2. queue[d] = <<>>
      BY <2>2, <3>1, <1>3, InstallIsEmpty
    <3> QED BY <3>2
  <2> QED BY <1>1, <2>1, <2>2 DEF Types
<1>8. JobsFit'
  <2> SUFFICES ASSUME NEW k \in Key, NEW i \in 1..Len(queue[k]) PROVE Fits(k, queue[k][i])'
    BY DEF JobsFit
  <2>1. Fits(k, queue[k][i])
    BY DEF JobsFit
  <2>2. queue[k] \in Seq(Job)
    BY DEF Types
  <2>3. queue[k][i].by \in Client
    <3>1. queue[k][i] \in Job
      BY <2>2
    <3> QED BY <3>1 DEF Job
  <2>4. queue[k][i].do = "reset" => k # d
    BY <1>7
  <2>5. (k \in Device => stage'[k] = stage[k]) \/ (k = d /\ stage'[k] = "phase")
    BY <1>4
  <2> QED BY <1>4, <2>1, <2>3, <2>4, <2>5 DEF Fits
<1>9. OneJobEach'
  BY DEF OneJobEach
<1>10. StageFits'
  <2> SUFFICES ASSUME NEW e \in Device PROVE StageOf(e)'
    BY DEF StageFits
  <2>1. CASE e = d
    <3>1. client'[<<d, "main">>] \notin {"waiting", "release"}
      <4>1. <<d, "main">> \in Client
        BY OcrAssumption
      <4>2. CASE c = <<d, "main">>
        BY <1>4, <4>2
      <4>3. CASE c # <<d, "main">>
        <5>1. stage[d] = "phase"
          BY <1>3, <4>3 DEF MayConfigure
        <5>2. client[<<d, "main">>] \notin {"waiting", "release"}
          BY <1>1, <5>1 DEF StageOf
        <5> QED BY <1>4, <4>1, <4>3, <5>2
      <4> QED BY <4>2, <4>3
    <3> QED BY <1>1, <1>4, <1>5, <2>1, <3>1 DEF StageOf, Settings
  <2>2. CASE e # d
    <3>1. StageOf(e) /\ stage'[e] = stage[e] /\ cfg'[e] = cfg[e]
      BY <1>4, <1>5, <2>2, Keys DEF StageFits
    <3>2. \A b \in Client : b[1] = e => client'[b] = client[b]
      BY <1>4, <2>2
    <3>3. <<e, "main">> \in Client /\ <<e, "exec">> \in Client
      BY OcrAssumption
    <3>4. client'[<<e, "main">>] = client[<<e, "main">>] /\ client'[<<e, "exec">>] = client[<<e, "exec">>]
      BY <3>2, <3>3
    <3> QED BY <3>1, <3>2, <3>4 DEF StageOf, Quiet, Settings
  <2> QED BY <2>1, <2>2
<1>11. ReleaseIsMain'
  BY <1>4 DEF ReleaseIsMain
<1>12. ThreadFits' /\ UnknownIsEmpty'
  BY DEF ThreadFits, UnknownIsEmpty, Target
<1>13. ModelFits'
  <2> SUFFICES ASSUME NEW e \in Device PROVE ModelOf(e)'
    BY DEF ModelFits
  <2>1. ModelOf(e)
    BY DEF ModelFits
  <2>2. CASE e # d \/ cfg[d] = Settings(d)
    <3>1. cfg'[e] = cfg[e]
      BY <1>5, <2>2, Keys
    <3> QED BY <2>1, <3>1 DEF ModelOf, HasReset, Target
  <2>3. CASE e = d /\ d \notin workers
    <3>1. model[d] = None /\ queue[d] = <<>>
      BY <2>3, Keys DEF UnknownIsEmpty
    <3>2. ocr[d] = "get"
      BY <3>1, Keys DEF ThreadFits
    <3> QED BY <2>3, <3>1, <3>2 DEF ModelOf
  <2> QED BY <2>2, <2>3
<1> QED BY <1>6, <1>8, <1>9, <1>10, <1>11, <1>12, <1>13

\* A worker with a stale model: the phase waits until it is dropped.
LEMMA ReconfigureStep ==
  ASSUME IInv, NEW c \in Client, NEW d \in Device, c[1] = d, MayConfigure(c),
         d \in workers, cfg[d] # Settings(d),
         workers' = workers \cup {d}, cfg' = [cfg EXCEPT ![d] = Settings(d)],
         Enqueue(d, [by |-> c, do |-> "reset", model |-> d]),
         client' = [client EXCEPT ![c] = "waiting"], lock' = c,
         UNCHANGED <<stage, tasks, model, ocr, inst, retried>>
  PROVE  IInv'
<1> USE DEF IInv
<1>1. StageOf(d)
  BY DEF StageFits
<1>2. c = <<d, "main">> /\ stage[d] = "install" /\ client[c] = "idle"
  <2>1. stage[d] # "phase"
    BY <1>1 DEF StageOf
  <2>2. c = <<d, c[2]>>
    BY Clients
  <2> QED BY <2>1, <2>2 DEF MayConfigure
<1>3. queue[d] = <<>> /\ ocr[d] = "get"
  BY <1>2, InstallIsEmpty
<1>4. Settings(d) \in Config
  BY <1>1, <1>2, SettingsType DEF StageOf
<1>5. cfg'[d] = Settings(d) /\ \A k \in Key : k # d => cfg'[k] = cfg[k]
  BY Keys DEF Types
<1> DEFINE job == [by |-> c, do |-> "reset", model |-> d]
<1>6. job \in Job /\ job.by = c /\ job.do = "reset" /\ job.model = d
  BY Keys DEF Job
<1>7. Enqueue(d, job)
  OBVIOUS
<1> HIDE DEF job
<1>8. /\ client'[c] = "waiting" /\ \A b \in Client : b # c => client'[b] = client[b]
      /\ \A b \in Client : client[b] = "waiting" => client'[b] = "waiting"
      /\ client' \in [Client -> {"off", "ready", "idle", "waiting", "release"}]
  BY DEF Types
<1>9. Types'
  <2>1. queue' \in [Key -> Seq(Job)]
    BY <1>6, <1>7, Enqueued, Keys
  <2> QED BY <1>4, <1>8, <2>1, Keys DEF Types
<1>10. JobsFit'
  <2>1. Fits(d, job)'
    BY <1>2, <1>6, <1>8 DEF Fits
  <2> QED BY <1>6, <1>7, <1>8, <2>1, EnqueuedFits, Keys
<1>11. OneJobEach'
  BY <1>2, <1>6, <1>7, OneMore, Keys
<1>12. StageFits'
  <2> SUFFICES ASSUME NEW e \in Device PROVE StageOf(e)'
    BY DEF StageFits
  <2>1. CASE e = d
    <3>1. <<d, "exec">> \in Client /\ <<d, "exec">> # c
      BY <1>2, OcrAssumption
    <3>2. client'[<<d, "exec">>] = client[<<d, "exec">>]
      BY <1>8, <3>1
    <3> QED BY <1>1, <1>2, <1>5, <2>1, <3>2 DEF StageOf, Settings
  <2>2. CASE e # d
    <3>1. StageOf(e) /\ cfg'[e] = cfg[e]
      BY <1>5, <2>2, Keys DEF StageFits
    <3>2. \A b \in Client : b[1] = e => client'[b] = client[b]
      BY <1>8, <2>2
    <3>3. <<e, "main">> \in Client /\ <<e, "exec">> \in Client
      BY OcrAssumption
    <3>4. client'[<<e, "main">>] = client[<<e, "main">>] /\ client'[<<e, "exec">>] = client[<<e, "exec">>]
      BY <3>2, <3>3
    <3> QED BY <3>1, <3>2, <3>4 DEF StageOf, Quiet, Settings
  <2> QED BY <2>1, <2>2
<1>13. ReleaseIsMain'
  BY <1>8 DEF ReleaseIsMain
<1>14. \A j \in Key : /\ queue[j] # <<>> => queue'[j] # <<>> /\ Head(queue'[j]) = Head(queue[j])
                      /\ HasReset(j) => HasReset(j)'
                      /\ j # d => queue'[j] = queue[j]
  BY <1>6, <1>7, Enqueued, Keys
<1>15. ThreadFits'
  BY <1>14 DEF ThreadFits, Target
<1>16. UnknownIsEmpty'
  BY <1>14 DEF UnknownIsEmpty
<1>17. ModelFits'
  <2> SUFFICES ASSUME NEW e \in Device PROVE ModelOf(e)'
    BY DEF ModelFits
  <2>1. CASE e = d
    <3>1. queue'[d] = Append(queue[d], job)
      BY <1>6, <1>7, Enqueued, Keys
    <3>2. queue[d] \in Seq(Job)
      BY Keys DEF Types
    <3>3. Len(queue[d]) = 0 /\ Len(queue'[d]) = 1 /\ queue'[d][1] = job
      BY <1>3, <1>6, <3>1, <3>2, AppendAt
    <3>4. HasReset(d)'
      BY <1>6, <3>3 DEF HasReset
    <3> QED BY <1>3, <2>1, <3>4 DEF ModelOf
  <2>2. CASE e # d
    <3>1. ModelOf(e) /\ cfg'[e] = cfg[e] /\ queue'[e] = queue[e]
      BY <1>5, <1>14, <2>2, Keys DEF ModelFits
    <3> QED BY <3>1 DEF ModelOf, HasReset, Target
  <2> QED BY <2>1, <2>2
<1> QED BY <1>9, <1>10, <1>11, <1>12, <1>13, <1>15, <1>16, <1>17

LEMMA ConfigureStep ==
  ASSUME IInv, NEW c \in Client, Configure(c) PROVE IInv'
<1> DEFINE d == c[1]
<1>1. d \in Device
  BY Clients
<1>2. CASE d \in workers /\ cfg[d] # Settings(d)
  BY <1>1, <1>2, ReconfigureStep DEF Configure
<1>3. CASE ~(d \in workers /\ cfg[d] # Settings(d))
  <2>1. UNCHANGED <<tasks, lock, model, thread>>
    BY <1>3 DEF Configure, thread
  <2> QED BY <1>1, <1>3, <2>1, ConfiguredStep DEF Configure
<1> QED BY <1>2, <1>3

-----------------------------------------------------------------------------
(* The OCR thread.                                                         *)

\* What is in the queues after the head of one was taken.
LEMMA Popped ==
  ASSUME Types, NEW k \in Key, queue[k] # <<>>, queue' = [queue EXCEPT ![k] = Tail(@)]
  PROVE  /\ queue' \in [Key -> Seq(Job)]
         /\ queue[k] \in Seq(Job) /\ Head(queue[k]) \in Job
         /\ 1 \in 1..Len(queue[k]) /\ Head(queue[k]) = queue[k][1]
         /\ \A j \in Key : j # k => queue'[j] = queue[j]
         /\ \A i \in 1..Len(queue'[k]) : /\ i \in Nat \ {0} /\ i + 1 \in 1..Len(queue[k])
                                         /\ queue'[k][i] = queue[k][i + 1]
         /\ \A i \in 1..Len(queue[k]) : i # 1 =>
              i - 1 \in 1..Len(queue'[k]) /\ queue'[k][i - 1] = queue[k][i]
<1>1. queue[k] \in Seq(Job)
  BY DEF Types
<1>2. /\ Tail(queue[k]) \in Seq(Job)
      /\ Len(queue[k]) \in Nat /\ Len(queue[k]) >= 1
      /\ Len(Tail(queue[k])) = Len(queue[k]) - 1
      /\ \A i \in 1..Len(Tail(queue[k])) :
           i + 1 \in 1..Len(queue[k]) /\ Tail(queue[k])[i] = queue[k][i + 1]
      /\ Head(queue[k]) = queue[k][1] /\ Head(queue[k]) \in Job
  BY <1>1, TailAt
<1>3. /\ queue' \in [Key -> Seq(Job)] /\ queue'[k] = Tail(queue[k])
      /\ \A j \in Key : j # k => queue'[j] = queue[j]
  BY <1>2 DEF Types
<1>4. ASSUME NEW i \in 1..Len(queue[k]), i # 1
      PROVE  i - 1 \in 1..Len(queue'[k]) /\ queue'[k][i - 1] = queue[k][i]
  <2>1. i - 1 \in 1..Len(queue'[k]) /\ (i - 1) + 1 = i
    BY <1>2, <1>3, <1>4
  <2> QED BY <1>2, <1>3, <2>1
<1> QED BY <1>1, <1>2, <1>3, <1>4

\* The head of a queue is a call that fits, and no other call is of the same client.
LEMMA HeadFits ==
  ASSUME IInv, NEW k \in Key, queue[k] # <<>>
  PROVE  /\ Fits(k, Head(queue[k])) /\ Head(queue[k]) \in Job
         /\ Head(queue[k]).by \in Client /\ Target(k) \in Key /\ k \in workers
         /\ \A j \in Key : \A i \in 1..Len(queue[j]) :
              j # k \/ i # 1 => queue[j][i].by # Head(queue[k]).by
<1> USE DEF IInv
<1>1. queue[k] \in Seq(Job)
  BY DEF Types
<1>2. 1 \in 1..Len(queue[k]) /\ Head(queue[k]) = queue[k][1] /\ Head(queue[k]) \in Job
  BY <1>1, TailAt
<1>3. Fits(k, queue[k][1])
  BY <1>2 DEF JobsFit
<1>4. Head(queue[k]).by \in Client /\ Target(k) \in Key
  BY <1>2 DEF Job, Target
<1>5. k \in workers
  BY DEF UnknownIsEmpty
<1>6. ASSUME NEW j \in Key, NEW i \in 1..Len(queue[j]), j # k \/ i # 1
      PROVE  queue[j][i].by # queue[k][1].by
  BY <1>2, <1>6 DEF OneJobEach
<1> QED BY <1>2, <1>3, <1>4, <1>5, <1>6

\* The answer to the head of a queue; a reset drops the model before.
LEMMA AnswerStep ==
  ASSUME IInv, NEW k \in Key, queue[k] # <<>>, Answer(k), UNCHANGED <<task, registry>>,
         model' = IF Head(queue[k]).do = "reset" THEN [model EXCEPT ![k] = None] ELSE model
  PROVE  IInv'
<1> USE DEF IInv
<1> DEFINE b == Head(queue[k]).by
           reset == Head(queue[k]).do = "reset"
<1>1. /\ Fits(k, Head(queue[k])) /\ b \in Client /\ k \in workers
      /\ \A j \in Key : \A i \in 1..Len(queue[j]) : j # k \/ i # 1 => queue[j][i].by # b
  BY HeadFits
<1>2. /\ client[b] = "waiting" /\ (k \in Device => b[1] = k)
      /\ reset => k \in Device /\ b = <<k, "main">> /\ stage[k] = "install"
  BY <1>1 DEF Fits
<1>3. queue' = [queue EXCEPT ![k] = Tail(@)]
  BY DEF Answer
<1>4. /\ queue' \in [Key -> Seq(Job)]
      /\ queue[k] \in Seq(Job)
      /\ 1 \in 1..Len(queue[k]) /\ Head(queue[k]) = queue[k][1]
      /\ \A j \in Key : j # k => queue'[j] = queue[j]
      /\ \A i \in 1..Len(queue'[k]) : /\ i \in Nat \ {0} /\ i + 1 \in 1..Len(queue[k])
                                      /\ queue'[k][i] = queue[k][i + 1]
      /\ \A i \in 1..Len(queue[k]) : i # 1 =>
           i - 1 \in 1..Len(queue'[k]) /\ queue'[k][i - 1] = queue[k][i]
  BY <1>3, Popped
<1>5. /\ client' \in [Client -> {"off", "ready", "idle", "waiting", "release"}]
      /\ client'[b] = IF reset THEN "release" ELSE "idle"
      /\ \A c \in Client : c # b => client'[c] = client[c]
  BY <1>1 DEF Answer, Types
<1>6. /\ ocr' \in [Key -> {"get", "model", "build", "predict"}] /\ ocr'[k] = "get"
      /\ inst' \in [Key -> Config \cup {None}] /\ retried' \in [Key -> BOOLEAN]
      /\ \A j \in Key : j # k => ocr'[j] = ocr[j] /\ inst'[j] = inst[j]
  BY DEF Answer, Step, Types
<1>7. /\ tasks' = tasks /\ stage' = stage /\ lock' = lock
      /\ workers' = workers /\ cfg' = cfg
  BY DEF task, registry
<1>8. model' \in [Key -> Config \cup {None}] /\ \A j \in Key : j # k => model'[j] = model[j]
  BY DEF Types
<1>9. reset => model'[k] = None
  BY DEF Types
<1>10. ~reset => model' = model
  OBVIOUS
<1> HIDE DEF b, reset
<1>11. Types'
  BY <1>4, <1>5, <1>6, <1>7, <1>8 DEF Types
<1>12. \A j \in Key : \A i \in 1..Len(queue'[j]) :
         \E h \in 1..Len(queue[j]) : /\ queue'[j][i] = queue[j][h] /\ (j # k \/ h # 1)
                                   /\ h = IF j = k THEN i + 1 ELSE i
  <2> SUFFICES ASSUME NEW j \in Key, NEW i \in 1..Len(queue'[j])
               PROVE  \E h \in 1..Len(queue[j]) :
                        /\ queue'[j][i] = queue[j][h] /\ (j # k \/ h # 1)
                        /\ h = IF j = k THEN i + 1 ELSE i
    OBVIOUS
  <2>1. CASE j = k
    <3>1. i \in Nat \ {0} /\ i + 1 \in 1..Len(queue[k]) /\ queue'[k][i] = queue[k][i + 1]
      BY <1>4, <2>1
    <3>2. i + 1 # 1
      BY <3>1
    <3> QED BY <2>1, <3>1, <3>2
  <2>2. CASE j # k
    BY <1>4, <2>2
  <2> QED BY <2>1, <2>2
<1>13. JobsFit'
  <2> SUFFICES ASSUME NEW j \in Key, NEW i \in 1..Len(queue'[j]) PROVE Fits(j, queue[j][i])'
    BY DEF JobsFit
  <2>1. PICK h \in 1..Len(queue[j]) : queue'[j][i] = queue[j][h] /\ (j # k \/ h # 1)
    BY <1>12
  <2>2. Fits(j, queue[j][h]) /\ queue[j][h].by # b
    BY <1>1, <2>1 DEF JobsFit
  <2>3. queue[j] \in Seq(Job)
    BY DEF Types
  <2>4. queue[j][h] \in Job
    BY <2>3
  <2>5. queue[j][h].by \in Client
    BY <2>4 DEF Job
  <2> QED BY <1>5, <1>7, <2>1, <2>2, <2>5 DEF Fits
<1>14. OneJobEach'
  <2> SUFFICES ASSUME NEW j \in Key, NEW l \in Key,
                      NEW m \in 1..Len(queue'[j]), NEW n \in 1..Len(queue'[l]),
                      queue'[j][m].by = queue'[l][n].by
               PROVE  j = l /\ m = n
    BY DEF OneJobEach
  <2>1. PICK g \in 1..Len(queue[j]) : queue'[j][m] = queue[j][g] /\ g = IF j = k THEN m + 1 ELSE m
    BY <1>12
  <2>2. PICK h \in 1..Len(queue[l]) : queue'[l][n] = queue[l][h] /\ h = IF l = k THEN n + 1 ELSE n
    BY <1>12
  <2>3. j = l /\ g = h
    BY <2>1, <2>2 DEF OneJobEach
  <2> QED BY <2>1, <2>2, <2>3
<1>15. StageFits'
  <2> SUFFICES ASSUME NEW e \in Device PROVE StageOf(e)'
    BY DEF StageFits
  <2>1. StageOf(e)
    BY DEF StageFits
  <2>2. stage[e] = "idle" => b[1] # e
    BY <1>1, <1>2, <2>1 DEF StageOf, Quiet
  <2>3. stage[e] = "idle" => Quiet(e)'
    BY <1>5, <2>1, <2>2 DEF StageOf, Quiet
  <2>4. stage[e] # "phase" => client'[<<e, "exec">>] = "off"
    <3>1. <<e, "exec">> \in Client
      BY OcrAssumption
    <3> QED BY <1>2, <1>5, <2>1, <3>1 DEF StageOf
  <2>5. client'[<<e, "main">>] \in {"waiting", "release"} =>
          client[<<e, "main">>] \in {"waiting", "release"}
    <3>1. <<e, "main">> \in Client
      BY OcrAssumption
    <3> QED BY <1>2, <1>5, <3>1
  <2> QED BY <1>7, <2>1, <2>3, <2>4, <2>5 DEF StageOf, Settings
<1>16. ReleaseIsMain'
  <2> SUFFICES ASSUME NEW c \in Client, client'[c] = "release" PROVE c[2] = "main"
    BY DEF ReleaseIsMain
  <2>1. CASE c = b
    BY <1>2, <1>5, <2>1
  <2>2. CASE c # b
    BY <1>5, <2>2 DEF ReleaseIsMain
  <2> QED BY <2>1, <2>2
<1>17. ThreadFits'
  BY <1>4, <1>6, <1>7 DEF ThreadFits, Target
<1>18. ModelFits'
  <2> SUFFICES ASSUME NEW e \in Device PROVE ModelOf(e)'
    BY DEF ModelFits
  <2>1. ModelOf(e)
    BY DEF ModelFits
  <2>2. CASE e = k
    <3>1. ASSUME ~reset, HasReset(k) PROVE HasReset(k)'
      <4>1. PICK i \in 1..Len(queue[k]) : queue[k][i].do = "reset"
        BY <3>1 DEF HasReset
      <4>2. i # 1
        BY <1>4, <3>1, <4>1 DEF reset
      <4>3. i - 1 \in 1..Len(queue'[k]) /\ queue'[k][i - 1] = queue[k][i]
        BY <1>4, <4>2
      <4> QED BY <4>1, <4>3 DEF HasReset
    <3> QED BY <1>6, <1>7, <1>9, <1>10, <2>1, <2>2, <3>1 DEF ModelOf
  <2>3. CASE e # k
    BY <1>4, <1>6, <1>7, <1>8, <2>1, <2>3, Keys DEF ModelOf, HasReset, Target
  <2> QED BY <2>2, <2>3
<1>19. UnknownIsEmpty'
  BY <1>1, <1>4, <1>7, <1>8 DEF UnknownIsEmpty
<1> QED BY <1>11, <1>13, <1>14, <1>15, <1>16, <1>17, <1>18, <1>19

\* In the hands of a busy OCR thread there is a call of the phase, and no reset behind it.
LEMMA BusyInPhase ==
  ASSUME IInv, NEW k \in Key, queue[k] # <<>>, Head(queue[k]).do # "reset"
  PROVE  /\ k \in Device => stage[k] = "phase" /\ ~HasReset(k) /\ cfg[k] = Settings(k)
         /\ Target(k) \in {k, Default} /\ (Head(queue[k]).do = "load" => Target(k) = k)
<1>1. Fits(k, Head(queue[k]))
  BY HeadFits
<1>2. Target(k) \in {k, Default} /\ (Head(queue[k]).do = "load" => Target(k) = k)
  BY <1>1 DEF Fits, Target
<1>3. ASSUME k \in Device PROVE stage[k] = "phase" /\ ~HasReset(k) /\ cfg[k] = Settings(k)
  <2>1. stage[k] = "phase"
    BY <1>1, <1>3 DEF Fits
  <2>2. cfg[k] = Settings(k)
    BY <1>3, <2>1 DEF IInv, StageFits, StageOf
  <2>3. ~HasReset(k)
    BY <2>1 DEF IInv, JobsFit, Fits, HasReset
  <2> QED BY <2>1, <2>2, <2>3
<1> QED BY <1>2, <1>3

\* A step of OCR thread k that leaves the calls and the settings alone.
LEMMA ThreadStep ==
  ASSUME IInv, NEW k \in Key, UNCHANGED <<task, client, lock, cfg, queue>>,
         workers \subseteq workers', Types', ThreadFits', ModelFits', UnknownIsEmpty'
  PROVE  IInv'
<1> USE DEF IInv, task
<1>1. JobsFit' /\ OneJobEach' /\ ReleaseIsMain'
  BY DEF JobsFit, OneJobEach, ReleaseIsMain, Fits
<1>2. StageFits'
  BY DEF StageFits, StageOf, Quiet, Settings
<1> QED BY <1>1, <1>2

LEMMA LookUpStep == ASSUME IInv, NEW k \in Key, LookUp(k) PROVE IInv'
<1> USE DEF IInv, LookUp, Doing
<1>1. Target(k) \in Key
  BY HeadFits
<1>2. /\ workers' = workers \cup {Target(k)} /\ ocr' = [ocr EXCEPT ![k] = "model"]
      /\ UNCHANGED <<tasks, stage, client, lock, cfg, model, queue, inst, retried>>
  BY DEF Step, task
<1>3. Types'
  BY <1>1, <1>2 DEF Types
<1>4. ThreadFits'
  BY <1>2 DEF ThreadFits, Types, Target
<1>5. ModelFits'
  <2> SUFFICES ASSUME NEW d \in Device PROVE ModelOf(d)'
    BY DEF ModelFits
  <2>1. ModelOf(d) /\ HasReset(d)' = HasReset(d) /\ Target(d)' = Target(d)
    BY <1>2 DEF ModelFits, HasReset, Target
  <2>2. ocr'[d] = ocr[d] \/ ocr'[d] = "model"
    BY <1>2, Keys DEF Types
  <2> QED BY <1>2, <2>1, <2>2 DEF ModelOf
<1>6. UnknownIsEmpty'
  BY <1>2 DEF UnknownIsEmpty
<1> QED BY <1>2, <1>3, <1>4, <1>5, <1>6, ThreadStep DEF task

LEMMA WarmupStep == ASSUME IInv, NEW k \in Key, Warmup(k) PROVE IInv'
<1> USE DEF IInv, Warmup, Doing
<1>1. Target(k) = k /\ k \in workers
  BY HeadFits, BusyInPhase
<1>2. /\ ocr' = [ocr EXCEPT ![k] = "model"]
      /\ UNCHANGED <<workers, tasks, stage, client, lock, cfg, model, queue, inst, retried>>
  BY DEF Step, task, registry
<1>3. Types'
  BY <1>2 DEF Types
<1>4. ThreadFits'
  BY <1>1, <1>2 DEF ThreadFits, Types, Target
<1>5. ModelFits'
  <2> SUFFICES ASSUME NEW d \in Device PROVE ModelOf(d)'
    BY DEF ModelFits
  <2>1. ModelOf(d) /\ HasReset(d)' = HasReset(d) /\ Target(d)' = Target(d)
    BY <1>2 DEF ModelFits, HasReset, Target
  <2>2. ocr'[d] = ocr[d] \/ ocr'[d] = "model"
    BY <1>2, Keys DEF Types
  <2> QED BY <1>2, <2>1, <2>2 DEF ModelOf
<1>6. UnknownIsEmpty'
  BY <1>2 DEF UnknownIsEmpty
<1> QED BY <1>2, <1>3, <1>4, <1>5, <1>6, ThreadStep DEF task

LEMMA TakeModelStep == ASSUME IInv, NEW k \in Key, TakeModel(k) PROVE IInv'
<1> USE DEF IInv
<1> DEFINE t == Target(k)
<1>1. queue[k] # <<>> /\ Head(queue[k]).do \in {"infer", "load"} /\ t \in workers
  BY DEF TakeModel, ThreadFits
<1>2. t \in Key /\ t \in {k, Default}
  BY <1>1, HeadFits, BusyInPhase
<1>3. k \in Device => ~HasReset(k)
  BY <1>1, BusyInPhase
<1>4. PICK pc \in {"predict", "build"}, m \in Config \cup {None} :
        /\ ocr' = [ocr EXCEPT ![k] = pc] /\ inst' = [inst EXCEPT ![k] = m]
        /\ m = IF model[t] # None THEN model[t] ELSE cfg[t]
  BY <1>2 DEF TakeModel, Step, Types
<1>5. UNCHANGED <<workers, tasks, stage, client, lock, cfg, model, queue, retried>>
  BY DEF TakeModel, task, registry
<1>6. Types'
  BY <1>4, <1>5 DEF Types
<1>7. ThreadFits'
  BY <1>1, <1>4, <1>5 DEF ThreadFits, Types, Target
<1>8. ModelFits'
  <2> SUFFICES ASSUME NEW d \in Device PROVE ModelOf(d)'
    BY DEF ModelFits
  <2>1. ModelOf(d)
    BY DEF ModelFits
  <2>2. CASE d = k
    <3>1. model[k] = None \/ model[k] = cfg[k]
      BY <1>3, <2>1, <2>2 DEF ModelOf
    <3>2. inst'[k] = m
      BY <1>4 DEF Types
    <3>3. Target(k)' = t
      BY <1>5 DEF Target
    <3> QED BY <1>4, <1>5, <2>2, <3>1, <3>2, <3>3 DEF ModelOf
  <2>3. CASE d # k
    <3>1. ocr'[d] = ocr[d] /\ inst'[d] = inst[d]
      BY <1>4, <2>3, Keys DEF Types
    <3> QED BY <1>5, <2>1, <3>1 DEF ModelOf, HasReset, Target
  <2> QED BY <2>2, <2>3
<1>9. UnknownIsEmpty'
  BY <1>5 DEF UnknownIsEmpty
<1> QED BY <1>5, <1>6, <1>7, <1>8, <1>9, ThreadStep DEF task

LEMMA BuildStep == ASSUME IInv, NEW k \in Key, Build(k) PROVE IInv'
<1> USE DEF IInv
<1> DEFINE t == Target(k)
<1>1. queue[k] # <<>> /\ Head(queue[k]).do \in {"infer", "load"} /\ t \in workers
  BY DEF Build, ThreadFits
<1>2. t \in Key /\ t \in {k, Default}
  BY <1>1, HeadFits, BusyInPhase
<1>3. /\ ocr[k] = "build" /\ ocr' = [ocr EXCEPT ![k] = "predict"]
      /\ model' = [model EXCEPT ![t] = inst[k]]
      /\ UNCHANGED <<workers, tasks, stage, client, lock, cfg, queue, inst, retried>>
  BY DEF Build, Step, task, registry
<1> HIDE DEF t
<1>4. Types'
  BY <1>3 DEF Types
<1>5. ThreadFits'
  BY <1>1, <1>3 DEF ThreadFits, Types, Target
<1>6. ModelFits'
  <2> SUFFICES ASSUME NEW d \in Device PROVE ModelOf(d)'
    BY DEF ModelFits
  <2>1. ModelOf(d) /\ HasReset(d)' = HasReset(d) /\ Target(d)' = Target(d)
    BY <1>3 DEF ModelFits, HasReset, Target
  <2>2. CASE d = t
    <3>1. d = k
      BY <1>2, <2>2, Keys
    <3>2. inst[k] = cfg[k] /\ model'[k] = inst[k]
      BY <1>2, <1>3, <2>1, <2>2, <3>1 DEF ModelOf, Types, t
    <3> QED BY <1>3, <2>1, <3>1, <3>2 DEF ModelOf
  <2>3. CASE d # t
    <3>1. model'[d] = model[d]
      BY <1>2, <1>3, <2>3, Keys DEF Types
    <3>2. CASE d = k
      BY <1>3, <2>1, <2>3, <3>1, <3>2 DEF ModelOf, t
    <3>3. CASE d # k
      <4>1. ocr'[d] = ocr[d]
        BY <1>3, <3>3, Keys DEF Types
      <4> QED BY <1>3, <2>1, <3>1, <4>1 DEF ModelOf
    <3> QED BY <3>2, <3>3
  <2> QED BY <2>2, <2>3
<1>7. UnknownIsEmpty'
  BY <1>1, <1>2, <1>3 DEF UnknownIsEmpty, Types, t
<1> QED BY <1>3, <1>4, <1>5, <1>6, <1>7, ThreadStep DEF task

LEMMA FallBackStep == ASSUME IInv, NEW k \in Key, FallBack(k) PROVE IInv'
<1> USE DEF IInv
<1> DEFINE t == Target(k)
<1>1. queue[k] # <<>> /\ Head(queue[k]).do = "infer" /\ t \in workers
  BY DEF FallBack, Doing, ThreadFits
<1>2. t \in Key
  BY <1>1, HeadFits
<1>3. /\ ocr' = [ocr EXCEPT ![k] = "model"] /\ model' = [model EXCEPT ![t] = None]
      /\ retried' = [retried EXCEPT ![k] = TRUE]
      /\ UNCHANGED <<workers, tasks, stage, client, lock, cfg, queue, inst>>
  BY DEF FallBack, Step, task, registry
<1> HIDE DEF t
<1>4. Types'
  BY <1>3 DEF Types
<1>5. ThreadFits'
  BY <1>1, <1>3 DEF ThreadFits, Types, Target, t
<1>6. ModelFits'
  <2> SUFFICES ASSUME NEW d \in Device PROVE ModelOf(d)'
    BY DEF ModelFits
  <2>1. ModelOf(d) /\ HasReset(d)' = HasReset(d) /\ Target(d)' = Target(d)
    BY <1>3 DEF ModelFits, HasReset, Target
  <2>2. model'[d] = model[d] \/ model'[d] = None
    BY <1>3, Keys DEF Types
  <2>3. ocr'[d] = ocr[d] \/ ocr'[d] = "model"
    BY <1>3, Keys DEF Types
  <2> QED BY <1>3, <2>1, <2>2, <2>3 DEF ModelOf
<1>7. UnknownIsEmpty'
  BY <1>2, <1>3 DEF UnknownIsEmpty, Types
<1> QED BY <1>3, <1>4, <1>5, <1>6, <1>7, ThreadStep DEF task

LEMMA OcrThreadStep == ASSUME IInv, NEW k \in Key, OcrThread(k) PROVE IInv'
<1>1. CASE Reset(k)
  <2>1. queue[k] # <<>> /\ Head(queue[k]).do = "reset"
    BY <1>1 DEF Reset, Doing
  <2> QED BY <1>1, <2>1, AnswerStep DEF Reset
<1>2. ASSUME ocr[k] # "get" PROVE queue[k] # <<>> /\ Head(queue[k]).do # "reset"
  BY <1>2 DEF IInv, ThreadFits
<1>3. CASE BuildFails(k)
  <2>1. queue[k] # <<>> /\ Head(queue[k]).do # "reset"
    BY <1>2, <1>3 DEF BuildFails
  <2> QED BY <1>3, <2>1, AnswerStep DEF BuildFails
<1>4. CASE Predict(k)
  <2>1. queue[k] # <<>> /\ Head(queue[k]).do # "reset"
    BY <1>2, <1>4 DEF Predict
  <2> QED BY <1>4, <2>1, AnswerStep DEF Predict
<1> QED
  BY <1>1, <1>3, <1>4, LookUpStep, WarmupStep, TakeModelStep, BuildStep, FallBackStep
  DEF OcrThread

-----------------------------------------------------------------------------
(* The theorems.                                                           *)

LEMMA StepIInv == IInv /\ [Next]_vars => IInv'
<1> SUFFICES ASSUME IInv, [Next]_vars PROVE IInv'
  OBVIOUS
<1>1. CASE UNCHANGED vars
  <2> USE DEF vars, task, registry, thread
  <2>1. Types' /\ JobsFit' /\ OneJobEach' /\ ReleaseIsMain'
    BY <1>1 DEF IInv, Types, JobsFit, Fits, OneJobEach, ReleaseIsMain
  <2>2. StageFits'
    BY <1>1 DEF IInv, StageFits, StageOf, Quiet, Settings
  <2>3. ThreadFits' /\ ModelFits' /\ UnknownIsEmpty'
    BY <1>1 DEF IInv, ThreadFits, ModelFits, ModelOf, UnknownIsEmpty, HasReset, Target
  <2> QED BY <2>1, <2>2, <2>3 DEF IInv
<1>2. CASE Next
  BY <1>2, BeginTaskStep, EndTaskStep, SkipWarmupStep, ExecutorAsksStep, MonitorAsksStep,
     ConfigureStep, ReleaseLockStep, OcrThreadStep DEF Next
<1> QED BY <1>1, <1>2

\* The invariant holds in every state.
THEOREM Invariance == Spec => []IInv
BY InitIInv, StepIInv, PTL DEF Spec

\* Types of the variables; a key without a worker has no calls and no model.
THEOREM TypeCorrect == Spec => []TypeOK
<1>1. IInv => TypeOK
  BY DEF IInv, Types, UnknownIsEmpty, TypeOK
<1> QED BY <1>1, Invariance, PTL

\* An inference that names its device reads the screen with a model built with
\* the settings of the device's present task, whatever is built, dropped and
\* reconfigured around it.
THEOREM ModelIsOfTheTask == Spec => []FitsTheTask
<1>1. IInv => FitsTheTask
  <2> SUFFICES ASSUME IInv, NEW d \in Device, ocr[d] = "predict", Target(d) = d
               PROVE  inst[d] = Settings(d)
    BY DEF FitsTheTask
  <2>1. queue[d] # <<>> /\ Head(queue[d]).do # "reset"
    BY Keys DEF IInv, ThreadFits
  <2>2. inst[d] = cfg[d]
    BY DEF IInv, ModelFits, ModelOf
  <2> QED BY <2>1, <2>2, BusyInPhase, Keys
<1> QED BY <1>1, Invariance, PTL
=============================================================================
