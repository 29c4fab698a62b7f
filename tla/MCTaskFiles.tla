---- MODULE MCTaskFiles ----
(* Three tasks, two games: two tasks may test the same one. *)
EXTENDS TaskFiles, TLC

CONSTANTS t1, t2, t3, g1, g2

Tasks == {t1, t2, t3}
TwoTasks == {t1, t2}
Gids == {g1, g2}
TasksAndGids == Permutations(Tasks) \cup Permutations(Gids)
====
