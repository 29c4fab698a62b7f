------------------------- MODULE MCDeployBuildLock -------------------------
(* Instances of DeployBuildLock for TLC: two or three runner processes, one *)
(* of them with two device threads.                                         *)
EXTENDS DeployBuildLock, TLC

CONSTANTS r1, r2, r3, w1, w2, w3

TwoRunners == {r1, r2}
ThreeWorkers == {w1, w2, w3}
TwoRunnersOf == (w1 :> r1) @@ (w2 :> r1) @@ (w3 :> r2)

ThreeRunners == {r1, r2, r3}
OneWorkerEach == (w1 :> r1) @@ (w2 :> r2) @@ (w3 :> r3)
=============================================================================
