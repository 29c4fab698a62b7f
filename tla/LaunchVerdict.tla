----------------------------- MODULE LaunchVerdict -----------------------------
(* What a launch of the game promises to its caller, whatever happens inside:  *)
(* the game is outside, then inside, then stable, it never goes back, and the  *)
(* launch ends with a result that agrees with how far the game came.           *)

VARIABLES
  stage,    \* "outside", "inside" (a first check passed), "stable" (the watch passed)
  result    \* "open" until the launch returns or raises

vars == <<stage, result>>

Init == stage = "outside" /\ result = "open"

Enter == /\ result = "open" /\ stage = "outside"
         /\ stage' = "inside" /\ UNCHANGED result

Settle == /\ result = "open" /\ stage = "inside"
          /\ stage' = "stable" /\ UNCHANGED result

Close == /\ result = "open"
         /\ result' \in {IF stage = "stable" THEN "success" ELSE "failure", "exception"}
         /\ UNCHANGED stage

Next == Enter \/ Settle \/ Close

Spec == Init /\ [][Next]_vars /\ <>(result # "open")
================================================================================
