------------------------------ MODULE TaskPool ------------------------------
(***************************************************************************)
(* What a batch promises to whoever started it, whatever threads, queue    *)
(* and files it is made of: every task is started at most once, by one     *)
(* worker, a worker has one task at a time, a result is final, and the one *)
(* report the batch gives is about results that no longer change.  Module  *)
(* BatchRunner implements this specification.                              *)
(***************************************************************************)
EXTENDS Naturals

CONSTANTS Task, Worker

None == "none"
Result == {"succeeded", "failed"}

VARIABLES
  state,   \* [Task -> "pending", "running" or a result]
  owner,   \* [Task -> the worker that started it, or None]
  report   \* None until the batch has reported

vars == <<state, owner, report>>

Init ==
  /\ state = [t \in Task |-> "pending"]
  /\ owner = [t \in Task |-> None]
  /\ report = None

\* An interrupted batch reports at once; work may go on behind its back.
Open == report \in {None, "interrupted"}

Begin(t, w) ==
  /\ Open
  /\ state[t] = "pending"
  /\ \A u \in Task : owner[u] = w => state[u] # "running"
  /\ state' = [state EXCEPT ![t] = "running"]
  /\ owner' = [owner EXCEPT ![t] = w]
  /\ UNCHANGED report

End(t, r) ==
  /\ Open
  /\ state[t] = "running"
  /\ state' = [state EXCEPT ![t] = r]
  /\ UNCHANGED <<owner, report>>

AllSucceeded == \A t \in Task : state[t] = "succeeded"
Settled == \A t \in Task : state[t] # "running"

Report(r) ==
  /\ report = None
  /\ r = "ok" => AllSucceeded
  /\ r = "failed" => Settled /\ ~AllSucceeded
  /\ r = "error" => Settled
  /\ report' = r
  /\ UNCHANGED <<state, owner>>

Next ==
  \/ \E t \in Task, w \in Worker : Begin(t, w)
  \/ \E t \in Task, r \in Result : End(t, r)
  \/ \E r \in {"ok", "failed", "error", "interrupted"} : Report(r)

Spec == Init /\ [][Next]_vars
=============================================================================
