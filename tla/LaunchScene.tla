------------------------------ MODULE LaunchScene ------------------------------
(* Scenes: dialogues, tutorials and loading screens that are advanced cheaply. *)
(* The rules that name a scene (services/scene_classifier.py), the verdict of  *)
(* the model that may replace the name (scene_gate.py), and when a strategy is *)
(* switched on and off and what it does (scene_strategies.py).  Confidences    *)
(* are in hundredths.                                                          *)
EXTENDS LaunchStore

SceneStrategyIds == {"dialogue", "tutorial", "loading"}
Sure == 55          \* enough to act upon a scene
VlmSure == 50       \* enough for the model's word
MaxWeak == 2        \* _SCENE_LOW_CONFIDENCE_DEACTIVATE_STREAK

DialogueScore(f, o) ==
  IF \/ f.login \/ f.sub \/ f.dialog \/ f.notice \/ f.role \/ o.hud
     \/ o.chain = <<"select", "enter">>
  THEN 0 ELSE o.talk.dialogue

TutorialScore(f, o) == IF DialogueScore(f, o) >= 65 THEN 0 ELSE o.talk.tutorial

ClassifyScene(f, o) ==
  LET scene(id, conf) == [id |-> id, conf |-> conf]
      quiet == ~(f.download \/ f.sub \/ f.login \/ f.server \/ f.dialog \/ f.terms)
  IN CASE f.notice -> scene("blocking_popup", 90)
       [] ~f.notice /\ o.hud -> scene("in_game_hud", 85)
       [] ~f.notice /\ ~o.hud /\ (f.role \/ f.interp = "character_creation") ->
            scene("character_creation", 80)
       [] OTHER ->
            IF o.chain = <<"select", "enter">> THEN scene("character_select", 75)
            ELSE IF quiet /\ (o.black \/ o.loading)
            THEN scene("loading", IF o.black THEN 90 ELSE 70)
            ELSE IF DialogueScore(f, o) >= Sure THEN scene("dialogue", DialogueScore(f, o))
            ELSE IF TutorialScore(f, o) >= Sure THEN scene("tutorial", TutorialScore(f, o))
            ELSE scene("unknown", 0)

\* The kind of a transition.  The kind "blocking_popup" needs an anomaly in the facts, and
\* only the background answers write one: classify_screen begins with fresh facts.
Transition(prev, c, o) ==
  CASE o.black -> "animation_or_loading"
    [] ~o.black /\ (o.hud \/ c.id = "in_game_hud") -> "exit_to_game"
    [] OTHER ->
         IF \/ c.id \in {"blocking_popup", "character_creation", "character_select"}
            \/ prev \notin {"", "unknown", c.id} /\ c.conf >= 60
         THEN "scene_changed"
         ELSE IF c.conf < 40 /\ prev \in SceneStrategyIds THEN "low_confidence"
         ELSE "none"

(* ------------------------------ scene_gate.py ----------------------------- *)

ShouldInvokeSceneGate(s, f) ==
  /\ s.login /\ ~s.confirmed /\ ~s.entry
  /\ ~HasPendingStaticWork(s, f)
  /\ ~f.download

\* A sure verdict replaces the rule, an unsure one never does.
MergeJudgment(rule, j) ==
  IF \/ j.conf < Sure /\ rule.conf >= Sure
     \/ j.conf < VlmSure \/ j.id = "unknown"
  THEN rule
  ELSE [id |-> j.id,
        conf |-> IF j.id = rule.id /\ rule.conf > j.conf THEN rule.conf ELSE j.conf]

\* The states and scenes after the gate: the same picture is not asked about twice.
SceneGate(s, f, o, rule, judgments) ==
  IF ~ShouldInvokeSceneGate(s, f) THEN {[s |-> s, c |-> rule]}
  ELSE {[s |-> [s EXCEPT !.scene.gate =
                  [pic |-> o, id |-> MergeJudgment(rule, j).id,
                   conf |-> MergeJudgment(rule, j).conf, wait |-> j.wait]],
         c |-> MergeJudgment(rule, j)] : j \in judgments}
       \cup (IF s.scene.gate.pic = o /\ s.scene.gate.id # ""
             THEN {[s |-> s, c |-> [id |-> s.scene.gate.id, conf |-> s.scene.gate.conf]]}
             ELSE {})

GatedScene(s, fallback) ==
  IF s.scene.gate.id \in SceneStrategyIds /\ s.scene.gate.conf >= VlmSure
  THEN s.scene.gate.id ELSE fallback

(* --------------------------- scene_strategies.py -------------------------- *)

\* Before the login: a loading screen, or the gap after the privacy dialog.
IsPreLoginPassiveWait(s, f, c) ==
  /\ ~s.login /\ ~s.confirmed /\ ~s.entry
  /\ ~HasPendingStaticWork(s, f)
  /\ \/ c.id = "loading" /\ c.conf >= Sure
     \/ /\ Completed(s, "handle_initial_privacy_dialog")
        /\ c.id = "unknown" /\ c.conf < Sure /\ ~f.terms

ShouldActivate(s, f, c) ==
  \/ IsPreLoginPassiveWait(s, f, c)
  \/ /\ s.login /\ ~s.confirmed /\ ~s.entry
     /\ ~HasPendingStaticWork(s, f)
     /\ c.id \in SceneStrategyIds /\ c.conf >= Sure

\* Called with the streak already counted for a transition of low confidence.
ShouldDeactivate(s, f, c, kind) ==
  /\ s.scene.active
  /\ \/ kind = "exit_to_game"
     \/ HasPendingStaticWork(s, f)
     \/ kind = "scene_changed" /\ c.id \notin SceneStrategyIds
     \/ kind = "low_confidence" /\ s.scene.weak >= MaxWeak
     \/ kind = "none" /\ c.id = "unknown" /\ s.scene.strategy = ""

ApplyScene(s, f, c, kind) ==
  LET weak == IF kind # "low_confidence" THEN 0
              ELSE IF s.scene.active /\ ~HasPendingStaticWork(s, f)
              THEN s.scene.weak + 1 ELSE s.scene.weak
      t == [s EXCEPT !.scene.id = c.id, !.scene.conf = c.conf, !.scene.weak = weak]
      take == [t EXCEPT !.scene.active = TRUE, !.scene.strategy = c.id]
  IN IF ShouldDeactivate(t, f, c, kind)
     THEN [t EXCEPT !.scene.active = FALSE, !.scene.strategy = "", !.scene.weak = 0]
     ELSE IF ShouldActivate(t, f, c) THEN take
     ELSE IF \/ t.scene.strategy = "loading" /\ c.id \in {"dialogue", "tutorial"} /\ c.conf >= 45
             \/ c.id \in SceneStrategyIds /\ c.conf >= Sure
     THEN IF t.scene.active THEN take ELSE t
     ELSE t

\* What a strategy does with the screen: a dialogue or a tutorial always finds something
\* to tap, in a text, on a button or at the bottom.
PlanSceneAction(id, kind) ==
  CASE id = "loading" -> "wait"
    [] id \in {"dialogue", "tutorial"} -> IF kind = "animation_or_loading" THEN "wait" ELSE "tap"
    [] OTHER -> "none"

\* The action of the scene node: the rules are asked again about the screen, and may
\* overrule the scene that the model named.
ActingScene(s, f, o) ==
  LET live == ClassifyScene(f, o)
      named == GatedScene(s, IF s.scene.strategy # "" THEN s.scene.strategy ELSE s.scene.id)
  IN IF \/ live.id \in {"dialogue", "tutorial"} /\ live.conf >= 45
        \/ live.id = "loading" /\ live.conf >= Sure
     THEN live ELSE [id |-> named, conf |-> s.scene.conf]

SceneAction(s, f, o, kind) ==
  LET c == ActingScene(s, f, o)
  IN IF IsPreLoginPassiveWait(s, f, c) THEN "wait"
     ELSE IF s.scene.gate.wait /\ GatedScene(s, c.id) = "loading" THEN "wait"
     ELSE IF c.id = "loading" /\ o.black /\ ShouldHandleBlackout(s)
     THEN IF ShouldPressBack(s.black) THEN "back" ELSE "wait"
     ELSE PlanSceneAction(c.id, kind)
================================================================================
