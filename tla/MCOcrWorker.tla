---- MODULE MCOcrWorker ----
(* A device whose settings are edited between its two tasks, and another. *)
EXTENDS OcrWorker

CONSTANTS d1, d2, s1, s2

Devices == {d1, d2}
Configs == {s1, s2}
Edited == [d \in Devices |-> IF d = d1 THEN <<s1, s2>> ELSE <<s1>>]
Clients == Devices \X {"main", "exec"} \cup {<<d1, "monitor">>}
====
