---- MODULE MCAttemptLoop ----
(* Up to three attempts: a first, a retry of a retry, and the last. *)
EXTENDS AttemptLoop
====
