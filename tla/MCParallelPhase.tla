-------------------------- MODULE MCParallelPhase --------------------------
(* ParallelPhase with the two monitors of the code: logcat and network.    *)
EXTENDS ParallelPhase

CONSTANTS log, net

BothMonitors == {log, net}
=============================================================================
