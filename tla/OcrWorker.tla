------------------------------ MODULE OcrWorker ------------------------------
(***************************************************************************)
(* Text recognition: one OCR thread per device with a queue of calls, and  *)
(* the registry of these workers behind one lock (utils/ocr_worker.py,     *)
(* utils/ocr_util.py).  The callers of a device are its orchestrator,      *)
(* which configures the worker when a phase begins, the executor, and the  *)
(* install or network monitor.                                             *)
(*                                                                         *)
(* A call that names no device resolves it from a thread-local: the device *)
(* in the executor's own thread, "default" in any other thread, and so in  *)
(* the OCR thread itself.  A model is abstracted to the settings it was    *)
(* built with.                                                             *)
(***************************************************************************)
EXTENDS Naturals, Sequences

CONSTANTS
  Device,
  Config,        \* the OCR sections of settings.yaml that need another model
  DefaultConfig, \* OcrSection()
  Client,        \* bound: the threads that call, pairs of a device and a role
  Sections       \* bound: [Device -> what each of its tasks loads from settings.yaml]

Default == "default"
Key == Device \cup {Default}
None == "none"

ASSUME OcrAssumption ==
  /\ Default \notin Device /\ None \notin Config
  /\ DefaultConfig \in Config
  /\ Client \subseteq Device \X {"main", "exec", "monitor"}
  /\ \A d \in Device : {<<d, "main">>, <<d, "exec">>} \subseteq Client
  /\ Sections \in [Device -> Seq(Config)]

NoClient == <<>>

\* model: the worker whose model the call will use.
Job == [by : Client, do : {"infer", "load", "reset"}, model : Key]

VARIABLES
  tasks,    \* [Device -> tasks begun]
  stage,    \* [Device -> idle, install or phase]
  client,   \* [Client -> off, ready to warm up, idle, waiting, to release the lock]
  lock,     \* holder of _workers_lock over more than one step
  workers,  \* the keys of _workers
  cfg,      \* [Key -> OcrWorker._cfg]
  model,    \* [Key -> _ocr_instance: the settings it was built with]
  queue,    \* [Key -> Seq(Job), the head is being done]
  ocr,      \* [Key -> where the OCR thread is in the job]
  inst,     \* [Key -> the settings, then the model its job has in hand]
  retried   \* [Key -> the inference failed on the GPU once]

task == <<tasks, stage>>
registry == <<lock, workers, cfg>>
thread == <<queue, ocr, inst, retried>>
vars == <<task, client, registry, model, thread>>

TypeOK ==
  /\ tasks \in [Device -> Nat] /\ \A d \in Device : tasks[d] <= Len(Sections[d])
  /\ stage \in [Device -> {"idle", "install", "phase"}]
  /\ client \in [Client -> {"off", "ready", "idle", "waiting", "release"}]
  /\ lock \in Client \cup {NoClient}
  /\ workers \subseteq Key
  /\ cfg \in [Key -> Config]
  /\ model \in [Key -> Config \cup {None}]
  /\ queue \in [Key -> Seq(Job)]
  /\ ocr \in [Key -> {"get", "model", "build", "predict"}]
  /\ inst \in [Key -> Config \cup {None}]
  /\ retried \in [Key -> BOOLEAN]
  /\ \A k \in Key \ workers : queue[k] = <<>> /\ model[k] = None

Init ==
  /\ tasks = [d \in Device |-> 0]
  /\ stage = [d \in Device |-> "idle"]
  /\ client = [c \in Client |-> "off"]
  /\ lock = NoClient /\ workers = {}
  /\ cfg = [k \in Key |-> DefaultConfig]
  /\ model = [k \in Key |-> None]
  /\ queue = [k \in Key |-> <<>>]
  /\ ocr = [k \in Key |-> "get"]
  /\ inst = [k \in Key |-> None]
  /\ retried = [k \in Key |-> FALSE]

-----------------------------------------------------------------------------
(* The callers.                                                            *)

Quiet(d) == \A c \in Client : c[1] = d => client[c] \in {"off", "idle"}

\* An executor that has configured its worker may warm it up first.
SkipWarmup(d) ==
  /\ client[<<d, "exec">>] = "ready"
  /\ client' = [client EXCEPT ![<<d, "exec">>] = "idle"]
  /\ UNCHANGED <<task, registry, model, thread>>

\* The settings are loaded anew for every task; they may have been edited.
Settings(d) == Sections[d][tasks[d]]

BeginTask(d) ==
  /\ stage[d] = "idle" /\ tasks[d] < Len(Sections[d])
  /\ tasks' = [tasks EXCEPT ![d] = @ + 1]
  /\ stage' = [stage EXCEPT ![d] = "install"]
  /\ client' = [c \in Client |-> IF c[1] = d /\ c[2] # "exec" THEN "idle" ELSE client[c]]
  /\ UNCHANGED <<registry, model, thread>>

Enqueue(k, job) == queue' = [queue EXCEPT ![k] = Append(@, job)]

\* get_ocr_worker, which makes the worker when it is missing, and submit.
Ask(c, k, do, m) ==
  /\ c \in Client
  /\ client[c] = IF do = "load" THEN "ready" ELSE "idle"
  /\ lock = NoClient
  /\ workers' = workers \cup {k}
  /\ Enqueue(k, [by |-> c, do |-> do, model |-> m])
  /\ client' = [client EXCEPT ![c] = "waiting"]
  /\ UNCHANGED <<task, lock, cfg, model, ocr, inst, retried>>

\* The install monitor names no device, the network monitor does.
MonitorAsks(d) ==
  \/ stage[d] = "install" /\ Ask(<<d, "monitor">>, Default, "infer", Default)
  \/ stage[d] = "phase" /\ Ask(<<d, "monitor">>, d, "infer", d)

\* The executor warms the model up, then reads the screen naming the device or
\* not, in its own thread or in one of asyncio.to_thread.
ExecutorAsks(d) ==
  \/ Ask(<<d, "exec">>, d, "load", d)
  \/ Ask(<<d, "exec">>, d, "infer", d)
  \/ Ask(<<d, "exec">>, d, "infer", Default)
  \/ Ask(<<d, "exec">>, Default, "infer", Default)

\* Where a caller goes on when its worker is configured.
Configured(c) ==
  /\ client' = [client EXCEPT ![c] = IF c[2] = "exec" THEN "ready" ELSE "idle"]
  /\ stage' = [stage EXCEPT ![c[1]] = "phase"]

MayConfigure(c) ==
  \/ c[2] = "main" /\ stage[c[1]] = "install" /\ client[c] = "idle"
  \/ c[2] = "exec" /\ stage[c[1]] = "phase" /\ client[c] = "off"

ConfigureKeepsModel(c) ==
  LET d == c[1] IN
  /\ MayConfigure(c)
  /\ lock = NoClient
  /\ workers' = workers \cup {d}
  /\ cfg' = [cfg EXCEPT ![d] = Settings(d)]
  /\ Configured(c)
  /\ UNCHANGED <<tasks, lock, model, thread>>

\* configure_ocr_worker.  A worker whose model no longer fits drops it in its
\* own thread, and the caller waits for that inside `with _workers_lock`.
Configure(c) ==
  LET d == c[1] IN
  /\ MayConfigure(c)
  /\ lock = NoClient
  /\ workers' = workers \cup {d}
  /\ cfg' = [cfg EXCEPT ![d] = Settings(d)]
  /\ IF d \in workers /\ cfg[d] # Settings(d)
       THEN /\ Enqueue(d, [by |-> c, do |-> "reset", model |-> d])
            /\ client' = [client EXCEPT ![c] = "waiting"]
            /\ lock' = c
            /\ UNCHANGED stage
       ELSE Configured(c) /\ UNCHANGED <<queue, lock>>
  /\ UNCHANGED <<tasks, model, ocr, inst, retried>>

\* The end of `with _workers_lock`.
ReleaseLock(c) ==
  /\ client[c] = "release"
  /\ lock' = NoClient
  /\ Configured(c)
  /\ UNCHANGED <<tasks, workers, cfg, model, thread>>

\* The phase has joined its tasks and threads, and the task ends.
EndTask(d) ==
  /\ stage[d] = "phase" /\ Quiet(d)
  /\ stage' = [stage EXCEPT ![d] = "idle"]
  /\ client' = [client EXCEPT ![<<d, "exec">>] = "off"]
  /\ UNCHANGED <<tasks, registry, model, thread>>
-----------------------------------------------------------------------------
(* The OCR thread of key k.                                                *)

Doing(k, pc, do) == ocr[k] = pc /\ queue[k] # <<>> /\ Head(queue[k]).do \in do
Target(k) == Head(queue[k]).model
Step(k, pc) == ocr' = [ocr EXCEPT ![k] = pc]

\* future.set_result or set_exception, and the next item.
Answer(k) ==
  LET j == Head(queue[k]) IN
  /\ queue' = [queue EXCEPT ![k] = Tail(@)]
  /\ client' = [client EXCEPT ![j.by] = IF j.do = "reset" THEN "release" ELSE "idle"]
  /\ Step(k, "get")
  /\ inst' = [inst EXCEPT ![k] = None]
  /\ retried' = [retried EXCEPT ![k] = FALSE]

ResetLooksUp(k) ==
  /\ Doing(k, "get", {"reset"})
  /\ lock = NoClient
  /\ model' = [model EXCEPT ![k] = None]
  /\ Answer(k)
  /\ UNCHANGED <<task, registry>>

\* _reset_model
Reset(k) ==
  /\ Doing(k, "get", {"reset"})
  /\ model' = [model EXCEPT ![k] = None]
  /\ Answer(k)
  /\ UNCHANGED <<task, registry>>

\* _infer_ocr_frame asks for the worker once more, from the OCR thread.
LookUp(k) ==
  /\ Doing(k, "get", {"infer"})
  /\ lock = NoClient
  /\ workers' = workers \cup {Target(k)}
  /\ Step(k, "model")
  /\ UNCHANGED <<task, client, lock, cfg, model, queue, inst, retried>>

Warmup(k) ==
  /\ Doing(k, "get", {"load"})
  /\ Step(k, "model")
  /\ UNCHANGED <<task, client, registry, model, queue, inst, retried>>

\* get_ocr_instance: the model there is, or a new one with the settings of now.
TakeModel(k) ==
  /\ ocr[k] = "model"
  /\ IF model[Target(k)] # None
       THEN Step(k, "predict") /\ inst' = [inst EXCEPT ![k] = model[Target(k)]]
       ELSE Step(k, "build") /\ inst' = [inst EXCEPT ![k] = cfg[Target(k)]]
  /\ UNCHANGED <<task, client, registry, model, queue, retried>>

Build(k) ==
  /\ ocr[k] = "build"
  /\ model' = [model EXCEPT ![Target(k)] = inst[k]]
  /\ Step(k, "predict")
  /\ UNCHANGED <<task, client, registry, queue, inst, retried>>

\* No CUDA, no paddle, or no memory.
BuildFails(k) ==
  /\ ocr[k] = "build"
  /\ Answer(k)
  /\ UNCHANGED <<task, registry, model>>

\* The GPU fails: force_cpu_fallback drops the model, and one is built again.
FallBack(k) ==
  /\ Doing(k, "predict", {"infer"})
  /\ ~retried[k]
  /\ retried' = [retried EXCEPT ![k] = TRUE]
  /\ model' = [model EXCEPT ![Target(k)] = None]
  /\ Step(k, "model")
  /\ UNCHANGED <<task, client, registry, queue, inst>>

Predict(k) ==
  /\ ocr[k] = "predict"
  /\ Answer(k)
  /\ UNCHANGED <<task, registry, model>>

OcrThread(k) ==
  \/ Reset(k) \/ LookUp(k) \/ Warmup(k) \/ TakeModel(k)
  \/ Build(k) \/ BuildFails(k) \/ FallBack(k) \/ Predict(k)

Next ==
  \/ \E d \in Device :
       \/ BeginTask(d) \/ EndTask(d)
       \/ SkipWarmup(d) \/ ExecutorAsks(d) \/ MonitorAsks(d)
  \/ \E c \in Client : Configure(c) \/ ReleaseLock(c)
  \/ \E k \in Key : OcrThread(k)

Spec == Init /\ [][Next]_vars

\* Every thread is scheduled, and building and inference end.
FairSpec ==
  /\ Spec
  /\ WF_vars(\E c \in Client : ReleaseLock(c))
  /\ \A k \in Key : WF_vars(OcrThread(k))
-----------------------------------------------------------------------------
(* Properties.                                                             *)

\* Every call is answered.  A caller may wait for an OCR thread with the
\* registry locked, and OCR threads lock the registry: that nobody waits for
\* ever depends on who calls while a worker is being reconfigured.
CallsAnswered ==
  \A c \in Client : client[c] = "waiting" ~> client[c] = "idle"

\* An inference that names its device uses a model built with the settings of
\* the task that asks, though models outlive tasks and are built, dropped and
\* used in one thread while another changes the settings.
FitsTheTask ==
  \A d \in Device :
    ocr[d] = "predict" /\ Target(d) = d => inst[d] = Settings(d)

\* Docstring of ocr_worker.py: inference is serialised, so that no model is
\* in the hands of two threads at once.
OneThreadPerModel ==
  \A j, k \in Key :
    ocr[j] = "predict" /\ ocr[k] = "predict" /\ Target(j) = Target(k) => j = k
=============================================================================
