---------------------------- MODULE LaunchPlanners -----------------------------
(* The three ways the graph explores screens that no static node knows: the    *)
(* phases that the model proposes (services/phase_engine.py, adaptive_tree.py),*)
(* the chain of taps read off a character screen (dynamic_route_planner.py),   *)
(* and the free action (free_node).  Each operator gives the states that one   *)
(* round of its node may leave; what the device and the model answer is free.  *)
EXTENDS LaunchTree

CONSTANTS MaxAdaptiveNoProgress, MaxAdaptiveReplan, MaxDynamicStepAttempts,
          MaxFreeSameAction,
          Specs                 \* the phases a model may propose: phase, action and rule

ASSUME PlannersAssumption ==
  /\ {MaxAdaptiveNoProgress, MaxAdaptiveReplan, MaxDynamicStepAttempts,
      MaxFreeSameAction} \subseteq Nat \ {0}
  /\ Specs \subseteq [phase : STRING, action : {"tap_xy", "wait", "press_back", "none"},
                      rule : {"fingerprint_change", "ocr_contains", "always_after_wait",
                              "manual_next_plan"}]

Phases == {p.phase : p \in Specs}

(* ------------------------------ phase engine ------------------------------ *)

MarkAdaptiveFlowDone(s) == [s EXCEPT !.adapt.done = TRUE, !.adapt.spec = NoSpec]

\* The stalls of one plan are used up: plan anew, or give the phase engine up.
Replan(s) ==
  LET t == [s EXCEPT !.adapt.replans = @ + 1, !.adapt.stalls = 0]
  IN IF t.adapt.replans >= MaxAdaptiveReplan THEN MarkAdaptiveFlowDone(t) ELSE t

AfterStall(s) == IF s.adapt.stalls >= MaxAdaptiveNoProgress THEN Replan(s) ELSE s

BeginAgain(s, spec) == [s EXCEPT !.adapt.spec = spec, !.adapt.tree[spec.phase] = "active"]

\* A phase that is done is not begun again.
DecidePhase(s, spec) ==
  IF s.adapt.tree[spec.phase] = "done"
  THEN AfterStall([s EXCEPT !.adapt.stalls = @ + 1])
  ELSE [s EXCEPT !.adapt.spec = spec, !.adapt.tree[spec.phase] = "active"]

\* No plan and "nothing to do here" both end the engine; an unsure tap becomes a wait.
Think(s) ==
  {MarkAdaptiveFlowDone(s)}
  \cup {DecidePhase(s, spec) : spec \in Specs}
  \cup {DecidePhase(s, [spec EXCEPT !.action = "wait"]) :
          spec \in {p \in Specs : p.action \in {"tap_xy", "press_back"}}}

PhaseComplete(spec, changed, hit, executed) ==
  CASE spec.rule = "fingerprint_change" -> changed
    [] spec.rule = "ocr_contains" -> hit
    [] spec.rule = "always_after_wait" -> spec.action = "wait" /\ executed
    [] spec.rule = "manual_next_plan" -> executed /\ changed

CommitPhase(s) ==
  [s EXCEPT !.adapt.tree[s.adapt.spec.phase] = "done", !.adapt.spec = NoSpec,
            !.adapt.stalls = 0]

\* A phase that did not complete: a stall unless the screen changed or it was a wait.
Unfinished(s, changed) ==
  LET t == [s EXCEPT !.adapt.stalls =
              IF ~changed /\ s.adapt.spec.action # "wait" THEN @ + 1 ELSE 0]
  IN IF t.adapt.stalls < MaxAdaptiveNoProgress THEN t
     ELSE Replan([t EXCEPT !.adapt.tree[s.adapt.spec.phase] = "failed", !.adapt.spec = NoSpec])

ActVerify(s) ==
  {IF PhaseComplete(s.adapt.spec, changed, hit, executed)
   THEN CommitPhase(s) ELSE Unfinished(s, changed) :
     changed \in BOOLEAN, hit \in BOOLEAN,
     executed \in IF s.adapt.spec.action = "tap_xy" THEN BOOLEAN ELSE {TRUE}}

AdaptivePhaseOnce(s) ==
  LET t == [s EXCEPT !.adapt.rounds = @ + 1]
  IN IF s.adapt.done THEN {s}
     ELSE IF t.adapt.rounds > MaxAdaptiveRounds THEN {MarkAdaptiveFlowDone(t)}
     ELSE IF t.adapt.spec # NoSpec THEN ActVerify(t)
     ELSE Think(t)

(* ------------------------------ dynamic chain ----------------------------- *)

ShouldBuildChain(s, f, words) ==
  /\ s.login /\ ~s.confirmed /\ ~s.entry
  /\ s.adapt.spec = NoSpec
  /\ s.adapt.done \/ ~ShouldRouteAdaptive(s, f)
  /\ ~s.chain.failed /\ s.chain.at > Len(s.chain.steps)
  /\ ~f.login /\ ~f.sub /\ ~f.dialog /\ ~f.download
  /\ f.role \/ f.interp = "character_creation" \/ words

MaybeBuildChain(s, f, o) ==
  IF ShouldBuildChain(s, f, o.role) /\ o.chain # <<>>
  THEN [s EXCEPT !.chain = [NoChain EXCEPT !.steps = o.chain]] ELSE s

\* A chain that ends, in success or not, leaves its counters behind.
ClearChain(s, failed) ==
  [s EXCEPT !.chain.steps = <<>>, !.chain.at = 1, !.chain.tries = 0,
            !.chain.failed = @ \/ failed]

StepDone(s) ==
  LET t == [s EXCEPT !.chain.stalls = 0, !.chain.tries = 0, !.chain.at = @ + 1,
                     !.tapped = @ \/ s.chain.steps[s.chain.at] = "enter"]
  IN IF t.chain.at > Len(t.chain.steps) THEN ClearChain(t, FALSE) ELSE t

StepStalled(s) ==
  LET t == [s EXCEPT !.chain.stalls = @ + 1, !.chain.tries = @ + 1]
  IN IF t.chain.tries >= MaxDynamicStepAttempts THEN ClearChain(t, TRUE) ELSE t

DynamicOnce(s) ==
  LET t == [s EXCEPT !.chain.rounds = @ + 1]
  IN IF ~HasActiveChain(s) THEN {ClearChain(s, TRUE)}
     ELSE IF \/ t.chain.rounds > MaxDynamicRounds
             \/ t.chain.stalls >= MaxDynamicNoProgress
     THEN {ClearChain(t, TRUE)}
     ELSE {StepDone(t), StepStalled(t)}

(* ------------------------------- free action ------------------------------ *)

FreePlans == {"tap1", "tap2", "wait"}
Taps == {"tap1", "tap2"}

\* Which action is executed, and the streak of equal ones: a tap that would come too
\* often in a row is replaced by a wait.
FreeChoice(s, plan) ==
  LET same == IF plan = s.free.sig THEN s.free.same + 1 ELSE 1
  IN IF same >= MaxFreeSameAction /\ plan \in Taps
     THEN [act |-> "wait", same |-> 0] ELSE [act |-> plan, same |-> same]

FreeAct(s, plan, stalled) ==
  LET c == FreeChoice(s, plan)
  IN [s EXCEPT !.free.sig = c.act,
               !.free.same = IF c.act \in Taps THEN c.same ELSE 0,
               !.free.stalls = IF s.free.seen /\ stalled THEN @ + 1 ELSE 0,
               !.free.seen = TRUE,
               !.tapped = @ \/ c.act = "tap1"]

\* "hud": the game shows its controls and the model agrees that this is the game.
FreeOnce(s, hud) ==
  LET t == [s EXCEPT !.free.rounds = @ + 1]
  IN IF t.free.rounds > MaxFreeRounds \/ t.free.stalls >= MaxFreeNoProgress THEN {t}
     ELSE IF hud /\ ~s.entry /\ s.login THEN {[t EXCEPT !.entry = TRUE]}
     ELSE {FreeAct(t, plan, stalled) : plan \in FreePlans, stalled \in BOOLEAN}
================================================================================
