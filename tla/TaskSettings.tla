---------------------------- MODULE TaskSettings ----------------------------
(* What the modules about a task have in common.                            *)
EXTENDS Naturals

CONSTANT MaxRetries  \* modules.max_retries

ASSUME RetriesAssumption == MaxRetries \in Nat \ {0}

\* No directory, no failure, no outcome.
None == "none"
=============================================================================
