---- MODULE MCSessionLog ----
(* Small bounds. *)
EXTENDS SessionLog
====
