--------------------------- MODULE LaunchGraphProofs ---------------------------
(* Safety of the launch graph for all games, limits and answers.  The planners  *)
(* are pure: a lemma for each says which fields of LaunchGraphState it may      *)
(* change (Changes) and for which node it counts an attempt (Counted); the      *)
(* invariants then look at the fields they speak of.  Frame keeps the shape of  *)
(* the record, Planned says what the route guarantees to the node it leads to,  *)
(* VerdictInv what the flags of the game and the result say of each other,      *)
(* LoginInv counts the submissions against the attempts left, and TypeInv ties  *)
(* the number of the round to the place in it.                                  *)
EXTENDS LaunchGraph, TLAPS

--------------------------------------------------------------------------------
(* The record of the state: what an update of one field leaves alone.         *)

Fields == {"privacy", "login", "sub", "server", "tapped", "entry", "confirmed", "finished",
           "terminal", "iter", "stage", "submitting", "pic", "black", "tries", "watch",
           "scene", "chain", "free", "adapt"}

Shape(t) ==
  /\ DOMAIN t = Fields
  /\ t.tries \in [Nodes -> NodeRecord]
  /\ DOMAIN t.watch = {"rounds", "started", "due", "checked"}
  /\ DOMAIN t.scene = {"id", "conf", "active", "strategy", "weak", "gate"}
  /\ DOMAIN t.adapt = {"rounds", "stalls", "replans", "done", "spec", "tree"}
  /\ DOMAIN t.adapt.tree = Phases

\* Only the fields in F may differ.
Changes(u, t, F) == Shape(t) /\ \A x \in Fields \ F : t[x] = u[x]

LEMMA ShapeOfEmpty ==
  ASSUME NEW privacy, NEW server
  PROVE  Shape(EmptyLaunchGraphState(Phases, privacy, server))
BY DEF Shape, Fields, EmptyLaunchGraphState, NoScene, NodeRecord

\* The record of one node changes, those of the others do not.
Counted(u, t, n) ==
  Changes(u, t, {"tries"}) /\ \A m \in Nodes \ {n} : t.tries[m] = u.tries[m]

LEMMA MarkDoneCounts ==
  ASSUME NEW u, Shape(u), NEW n \in Nodes
  PROVE  /\ Counted(u, MarkDone(u, n), n)
         /\ MarkDone(u, n).tries[n] = [done |-> u.tries[n].done + 1, failed |-> 0]
BY DEF Shape, Fields, MarkDone, Counted, Changes, NodeRecord

LEMMA MarkFailedCounts ==
  ASSUME NEW u, Shape(u), NEW n \in Nodes
  PROVE  /\ Counted(u, MarkFailed(u, n), n)
         /\ MarkFailed(u, n).tries[n].failed = NodeAttempts(u, n) + 1
BY DEF Shape, Fields, MarkFailed, NodeAttempts, Counted, Changes, NodeRecord

LEMMA ClearFailedCounts ==
  ASSUME NEW u, Shape(u), NEW n \in Nodes
  PROVE  Counted(u, ClearFailed(u, n), n)
BY DEF Shape, Fields, ClearFailed, Counted, Changes, NodeRecord

(* The search in the tree takes a node that it may take.                      *)

LEMMA FirstOfTree ==
  ASSUME NEW open, open \subseteq 1..11, open # {}
  PROVE  \E i \in open : \A j \in open : i <= j
<1>1. SUFFICES ASSUME \A i \in open : \E j \in open : j < i PROVE FALSE
  OBVIOUS
<1> DEFINE Above(i) == \A j \in open : j > i
<1>2. Above(0)
  OBVIOUS
<1>3. \A i \in 0..11 : Above(i) => \A j \in open : j # i + 1
  BY <1>1
<1>4. \A i \in 0..11 : Above(i) => Above(i + 1)
  BY <1>3
<1>5. Above(11)
  BY <1>2, <1>4
<1>6. PICK j \in open : TRUE
  OBVIOUS
<1> QED BY <1>5, <1>6

LEMMA TreeDomain == DOMAIN TreeOrder = 1..11
BY DEF TreeOrder

LEMMA DfsTakesEligible ==
  ASSUME NEW u, NEW f, DfsNextAction(u, f) # ""
  PROVE  Eligible(u, f, DfsNextAction(u, f))
<1> DEFINE open == {i \in DOMAIN TreeOrder : Eligible(u, f, TreeOrder[i])}
<1>1. DOMAIN TreeOrder = 1..11
  BY TreeDomain
<1>2. open # {}
  BY DEF DfsNextAction
<1>3. \E i \in open : \A j \in open : i <= j
  BY <1>1, <1>2, FirstOfTree
<1>4. DfsNextAction(u, f) = TreeOrder[CHOOSE i \in open : \A j \in open : i <= j]
  BY <1>2 DEF DfsNextAction
<1> QED BY <1>3, <1>4

--------------------------------------------------------------------------------
(* Scenes.                                                                    *)

LEMMA SceneApplied ==
  ASSUME NEW u, Shape(u), NEW f, NEW c, NEW kind
  PROVE  /\ Changes(u, ApplyScene(u, f, c, kind), {"scene"})
         /\ ApplyScene(u, f, c, kind).scene.id = c.id
         /\ ApplyScene(u, f, c, kind).scene.conf = c.conf
         /\ ApplyScene(u, f, c, kind).scene.gate = u.scene.gate
BY DEF Shape, Fields, ApplyScene, Changes

LEMMA GateKeeps ==
  ASSUME NEW u, Shape(u), NEW f, NEW o, NEW rule,
         NEW g \in SceneGate(u, f, o, rule, Judgments)
  PROVE  Changes(u, g.s, {"scene"}) /\ (~u.login => g.s = u /\ g.c = rule)
<1> DEFINE Asked(id, conf, wait) ==
             [u EXCEPT !.scene.gate = [pic |-> o, id |-> id, conf |-> conf, wait |-> wait]]
<1>1. \A id, conf, wait : Changes(u, Asked(id, conf, wait), {"scene"})
  BY DEF Shape, Fields, Changes
<1>2. Changes(u, u, {"scene"})
  BY DEF Changes
<1>3. CASE ~ShouldInvokeSceneGate(u, f)
  BY <1>2, <1>3 DEF SceneGate
<1>4. CASE ShouldInvokeSceneGate(u, f)
  <2> DEFINE Verdict1(j) == MergeJudgment(rule, j)
  <2>1. \/ g = [s |-> u, c |-> [id |-> u.scene.gate.id, conf |-> u.scene.gate.conf]]
        \/ \E j \in Judgments :
             g = [s |-> Asked(Verdict1(j).id, Verdict1(j).conf, j.wait), c |-> Verdict1(j)]
    BY <1>4 DEF SceneGate
  <2>2. u.login
    BY <1>4 DEF ShouldInvokeSceneGate
  <2> HIDE DEF Asked, Verdict1
  <2> QED BY <1>1, <1>2, <2>1, <2>2
<1> QED BY <1>3, <1>4

--------------------------------------------------------------------------------
(* The planners.                                                              *)

LEMMA ChainBuilt ==
  ASSUME NEW u, Shape(u), NEW f, NEW o
  PROVE  Changes(u, MaybeBuildChain(u, f, o), {"chain"})
BY DEF Shape, Fields, MaybeBuildChain, Changes

LEMMA DynamicKeeps ==
  ASSUME NEW u, Shape(u), NEW t \in DynamicOnce(u)
  PROVE  Changes(u, t, {"chain", "tapped"})
<1> DEFINE F == {"chain", "tapped"}
           w == [u EXCEPT !.chain.rounds = @ + 1]
<1>1. Changes(u, w, F)
  BY DEF Shape, Fields, Changes
<1>2. ASSUME NEW v, NEW failed, Changes(u, v, F) PROVE Changes(u, ClearChain(v, failed), F)
  BY <1>2 DEF Shape, Fields, ClearChain, Changes
<1>3. Changes(u, u, F)
  BY DEF Changes
<1> HIDE DEF w
<1>4. Changes(u, StepDone(w), F)
  <2> DEFINE v == [w EXCEPT !.chain.stalls = 0, !.chain.tries = 0, !.chain.at = @ + 1,
                     !.tapped = @ \/ w.chain.steps[w.chain.at] = "enter"]
  <2>1. Changes(u, v, F)
    BY <1>1 DEF Shape, Fields, Changes
  <2> QED BY <1>2, <2>1 DEF StepDone
<1>5. Changes(u, StepStalled(w), F)
  <2> DEFINE v == [w EXCEPT !.chain.stalls = @ + 1, !.chain.tries = @ + 1]
  <2>1. Changes(u, v, F)
    BY <1>1 DEF Shape, Fields, Changes
  <2> QED BY <1>2, <2>1 DEF StepStalled
<1>6. t \in {ClearChain(u, TRUE), ClearChain(w, TRUE), StepDone(w), StepStalled(w)}
  BY DEF DynamicOnce, w
<1> QED BY <1>1, <1>2, <1>3, <1>4, <1>5, <1>6

LEMMA FreeKeeps ==
  ASSUME NEW u, Shape(u), NEW hud, NEW t \in FreeOnce(u, hud)
  PROVE  Changes(u, t, {"free", "tapped", "entry"}) /\ (u.entry => t.entry)
<1> DEFINE F == {"free", "tapped", "entry"}
           w == [u EXCEPT !.free.rounds = @ + 1]
           in == [w EXCEPT !.entry = TRUE]
<1>1. Changes(u, w, F) /\ w.entry = u.entry
  BY DEF Shape, Fields, Changes
<1>2. Changes(u, in, F) /\ in.entry
  BY DEF Shape, Fields, Changes
<1> HIDE DEF w
<1>3. ASSUME NEW plan, NEW stalled
      PROVE  Changes(u, FreeAct(w, plan, stalled), F) /\ FreeAct(w, plan, stalled).entry = u.entry
  BY <1>1 DEF Shape, Fields, FreeAct, Changes
<1>4. t \in {w, in} \/ \E plan, stalled : t = FreeAct(w, plan, stalled)
  BY DEF FreeOnce, w
<1> HIDE DEF in
<1> QED BY <1>1, <1>2, <1>3, <1>4

\* The phase that is acted upon is not a completed one.
SpecOpen(t) ==
  t.adapt.spec # NoSpec => t.adapt.spec.phase \in Phases /\ t.adapt.tree[t.adapt.spec.phase] # "done"

DoneStays(u, t) == \A p \in Phases : u.adapt.tree[p] = "done" => t.adapt.tree[p] = "done"

\* What every operator of the phase engine keeps.
Explores(u, t) == Changes(u, t, {"adapt"}) /\ SpecOpen(t) /\ DoneStays(u, t)

LEMMA ExploresTrans ==
  ASSUME NEW u, NEW v, NEW t, Explores(u, v), Explores(v, t) PROVE Explores(u, t)
BY DEF Explores, Changes, DoneStays

LEMMA FlowDoneExplores ==
  ASSUME NEW u, Shape(u) PROVE Explores(u, MarkAdaptiveFlowDone(u))
BY DEF Shape, Fields, MarkAdaptiveFlowDone, Explores, Changes, SpecOpen, DoneStays

LEMMA CountersExplore ==
  ASSUME NEW u, Shape(u), SpecOpen(u), NEW n, NEW m
  PROVE  /\ Explores(u, [u EXCEPT !.adapt.rounds = n])
         /\ Explores(u, [u EXCEPT !.adapt.stalls = n])
         /\ Explores(u, [u EXCEPT !.adapt.replans = n, !.adapt.stalls = m])
BY DEF Shape, Fields, Explores, Changes, SpecOpen, DoneStays

LEMMA ReplanExplores ==
  ASSUME NEW u, Shape(u), SpecOpen(u) PROVE Explores(u, Replan(u)) /\ Explores(u, AfterStall(u))
<1> DEFINE t == [u EXCEPT !.adapt.replans = @ + 1, !.adapt.stalls = 0]
<1>1. Explores(u, t)
  BY CountersExplore
<1>2. Shape(t)
  BY <1>1 DEF Explores, Changes
<1>3. Explores(u, u)
  BY DEF Explores, Changes, DoneStays
<1> HIDE DEF t
<1>4. Explores(u, MarkAdaptiveFlowDone(t))
  BY <1>1, <1>2, FlowDoneExplores, ExploresTrans
<1>5. Explores(u, Replan(u))
  BY <1>1, <1>4 DEF Replan, t
<1> QED BY <1>3, <1>5 DEF AfterStall

LEMMA DecideExplores ==
  ASSUME NEW u, Shape(u), SpecOpen(u), NEW spec, spec.phase \in Phases
  PROVE  Explores(u, DecidePhase(u, spec))
<1>1. CASE u.adapt.tree[spec.phase] = "done"
  <2> DEFINE t == [u EXCEPT !.adapt.stalls = @ + 1]
  <2>1. Explores(u, t)
    BY CountersExplore
  <2>2. Shape(t) /\ SpecOpen(t)
    BY <2>1 DEF Explores, Changes
  <2> HIDE DEF t
  <2>3. Explores(u, AfterStall(t))
    BY <2>1, <2>2, ReplanExplores, ExploresTrans
  <2> QED BY <1>1, <2>3 DEF DecidePhase, t
<1>2. CASE u.adapt.tree[spec.phase] # "done"
  BY <1>2 DEF DecidePhase, Shape, Fields, Explores, Changes, SpecOpen, DoneStays
<1> QED BY <1>1, <1>2

LEMMA ActOutcome ==
  ASSUME NEW u, NEW t \in ActVerify(u)
  PROVE  t = CommitPhase(u) \/ \E changed \in BOOLEAN : t = Unfinished(u, changed)
<1> DEFINE Executed == IF u.adapt.spec.action = "tap_xy" THEN BOOLEAN ELSE {TRUE}
           Outcome(changed, hit, executed) ==
             IF PhaseComplete(u.adapt.spec, changed, hit, executed)
             THEN CommitPhase(u) ELSE Unfinished(u, changed)
<1>1. ActVerify(u) = {Outcome(changed, hit, executed) :
                        changed \in BOOLEAN, hit \in BOOLEAN, executed \in Executed}
  BY DEF ActVerify
<1> HIDE DEF Outcome, Executed
<1>2. PICK changed \in BOOLEAN, hit \in BOOLEAN, executed \in Executed :
        t = Outcome(changed, hit, executed)
  BY <1>1
<1> USE DEF Outcome
<1>3. t \in {CommitPhase(u), Unfinished(u, changed)}
  BY <1>2
<1> QED BY <1>3

LEMMA ActExplores ==
  ASSUME NEW u, Shape(u), SpecOpen(u), u.adapt.spec # NoSpec, NEW t \in ActVerify(u)
  PROVE  Explores(u, t)
<1>1. Explores(u, CommitPhase(u))
  BY DEF CommitPhase, Shape, Fields, Explores, Changes, SpecOpen, DoneStays
<1>2. ASSUME NEW changed PROVE Explores(u, Unfinished(u, changed))
  <2> DEFINE v == [u EXCEPT !.adapt.stalls =
                     IF ~changed /\ u.adapt.spec.action # "wait" THEN @ + 1 ELSE 0]
             w == [v EXCEPT !.adapt.tree[u.adapt.spec.phase] = "failed", !.adapt.spec = NoSpec]
  <2>1. Explores(u, v)
    BY CountersExplore
  <2>2. Shape(v) /\ v.adapt.spec = u.adapt.spec /\ v.adapt.tree = u.adapt.tree
    BY DEF Shape, Fields
  <2> HIDE DEF v
  <2>3. Explores(v, w)
    BY <2>2 DEF Shape, Fields, Explores, Changes, SpecOpen, DoneStays
  <2>4. Shape(w) /\ SpecOpen(w)
    BY <2>3 DEF Explores, Changes
  <2> HIDE DEF w
  <2>5. Explores(u, Replan(w))
    BY <2>1, <2>3, <2>4, ReplanExplores, ExploresTrans
  <2>6. Unfinished(u, changed) \in {v, Replan(w)}
    BY <2>2 DEF Unfinished, v, w
  <2> QED BY <2>1, <2>5, <2>6
<1>3. t = CommitPhase(u) \/ \E changed \in BOOLEAN : t = Unfinished(u, changed)
  BY ActOutcome
<1> QED BY <1>1, <1>2, <1>3

LEMMA AdaptiveExplores ==
  ASSUME NEW u, Shape(u), SpecOpen(u), NEW t \in AdaptivePhaseOnce(u) PROVE Explores(u, t)
<1> DEFINE w == [u EXCEPT !.adapt.rounds = @ + 1]
<1>1. Explores(u, u)
  BY DEF Explores, Changes, DoneStays
<1>2. Explores(u, w)
  BY CountersExplore
<1>3. Shape(w) /\ SpecOpen(w)
  BY <1>2 DEF Explores, Changes
<1>4. t \in {u, MarkAdaptiveFlowDone(w)} \/ (w.adapt.spec # NoSpec /\ t \in ActVerify(w))
        \/ t \in Think(w)
  BY DEF AdaptivePhaseOnce
<1> HIDE DEF w
<1>5. ASSUME t \in Think(w) PROVE Explores(w, t)
  <2>1. \/ t = MarkAdaptiveFlowDone(w)
        \/ \E spec \in Specs : t = DecidePhase(w, spec)
        \/ \E spec \in Specs : t = DecidePhase(w, [spec EXCEPT !.action = "wait"])
    BY <1>5 DEF Think
  <2>2. \A spec \in Specs : spec.phase \in Phases /\ [spec EXCEPT !.action = "wait"].phase \in Phases
    BY PlannersAssumption DEF Phases
  <2> QED BY <1>3, <2>1, <2>2, FlowDoneExplores, DecideExplores
<1>6. Explores(w, MarkAdaptiveFlowDone(w))
  BY <1>3, FlowDoneExplores
<1>7. ASSUME w.adapt.spec # NoSpec, t \in ActVerify(w) PROVE Explores(w, t)
  BY <1>3, <1>7, ActExplores
<1> QED BY <1>1, <1>2, <1>4, <1>5, <1>6, <1>7, ExploresTrans

--------------------------------------------------------------------------------
(* The steps.                                                                 *)

\* What no node undoes: the login, the entry, the model's last verdict on a scene, and a
\* completed phase.
Forward(u, t) ==
  /\ Shape(t) /\ SpecOpen(t)
  /\ u.login => t.login
  /\ u.entry => t.entry
  /\ t.scene.gate = u.scene.gate
  /\ DoneStays(u, t)

\* No part in the login.
LoginKept(u, t) ==
  /\ t.login = u.login
  /\ t.tries["atomic_login"] = u.tries["atomic_login"]
  /\ t.tries["recover_from_failure"] = u.tries["recover_from_failure"]

\* No part in the watch and the end of the graph.
VerdictKept(u, t) ==
  t.confirmed = u.confirmed /\ t.watch = u.watch /\ t.terminal = u.terminal

Harmless(u, t) == Forward(u, t) /\ LoginKept(u, t) /\ VerdictKept(u, t)

LEMMA HarmlessChange ==
  ASSUME NEW u, Shape(u), SpecOpen(u), NEW t,
         Changes(u, t, Fields \ {"login", "entry", "confirmed", "watch", "terminal", "tries",
                                 "scene", "adapt"})
  PROVE  Harmless(u, t)
BY DEF Shape, Fields, Changes, Harmless, LoginKept, VerdictKept, Forward, SpecOpen, DoneStays

LEMMA HarmlessCount ==
  ASSUME NEW u, Shape(u), SpecOpen(u), NEW n \in Nodes \ {"atomic_login", "recover_from_failure"}
  PROVE  Harmless(u, MarkDone(u, n)) /\ Harmless(u, MarkFailed(u, n))
<1>1. \A t : Counted(u, t, n) => Harmless(u, t)
  BY DEF Nodes, Fields, Counted, Changes, Harmless, LoginKept, VerdictKept, Forward, SpecOpen, DoneStays
<1> QED BY <1>1, MarkDoneCounts, MarkFailedCounts

LEMMA HarmlessTrans ==
  ASSUME NEW u, NEW v, NEW t, Harmless(u, v), Harmless(v, t) PROVE Harmless(u, t)
BY DEF Harmless, LoginKept, VerdictKept, Forward, DoneStays

\* One of the nodes that find their way to the game and do nothing else.
Wayfinding ==
  \/ HandleInitialPrivacyDialog \/ EnsurePrivacyCheckbox \/ HandleDownload
  \/ DismissBlockingOverlay \/ SelectSubAccount \/ TapEnterGame \/ CheckInGame
  \/ AdaptivePhase \/ DynamicAction \/ SceneActionNode \/ Free

Left == pc' = "observe" /\ given' = FALSE /\ UNCHANGED <<game, stop>>

LEMMA WayfindingHarmless ==
  ASSUME Shape(s), SpecOpen(s), Wayfinding
  PROVE  Harmless(s, s') /\ Left /\ UNCHANGED <<run, logins>>
<1> USE DEF Quiet, Leave, Left
<1>1. \A n \in Nodes \ {"atomic_login", "recover_from_failure"} :
        /\ Harmless(s, MarkDone(s, n)) /\ Harmless(s, MarkFailed(s, n))
        /\ \A t : Harmless(s, t) => Harmless(s, MarkDone(t, n))
  <2>1. ASSUME NEW n \in Nodes \ {"atomic_login", "recover_from_failure"}, NEW t, Harmless(s, t)
        PROVE  Harmless(s, MarkDone(t, n))
    <3>1. Shape(t) /\ SpecOpen(t)
      BY <2>1 DEF Harmless, LoginKept, VerdictKept, Forward
    <3> QED BY <2>1, <3>1, HarmlessCount, HarmlessTrans
  <2> QED BY <2>1, HarmlessCount
<1>2. /\ Harmless(s, s) /\ Harmless(s, [s EXCEPT !.privacy = TRUE])
      /\ Harmless(s, [s EXCEPT !.sub = TRUE]) /\ Harmless(s, [s EXCEPT !.tapped = TRUE])
  <2>1. Harmless(s, s)
    BY DEF Harmless, LoginKept, VerdictKept, Forward, DoneStays
  <2>2. \A F : F \subseteq {"privacy", "sub", "tapped"} =>
          \A t : Changes(s, t, F) => Harmless(s, t)
    BY HarmlessChange DEF Changes, Fields
  <2>3. /\ Changes(s, [s EXCEPT !.privacy = TRUE], {"privacy"})
        /\ Changes(s, [s EXCEPT !.sub = TRUE], {"sub"})
        /\ Changes(s, [s EXCEPT !.tapped = TRUE], {"tapped"})
    BY DEF Changes, Shape, Fields
  <2> QED BY <2>1, <2>2, <2>3
<1>3. Harmless(s, [s EXCEPT !.entry = TRUE])
  BY DEF Shape, Fields, Harmless, LoginKept, VerdictKept, Forward, SpecOpen, DoneStays
<1>4. CASE HandleInitialPrivacyDialog
  BY <1>1, <1>4 DEF HandleInitialPrivacyDialog, Nodes
<1>5. CASE EnsurePrivacyCheckbox
  BY <1>1, <1>2, <1>5 DEF EnsurePrivacyCheckbox, Nodes
<1>6. CASE HandleDownload
  BY <1>1, <1>2, <1>6 DEF HandleDownload, Nodes
<1>7. CASE DismissBlockingOverlay
  BY <1>1, <1>7 DEF DismissBlockingOverlay, Nodes
<1>8. CASE SelectSubAccount
  BY <1>1, <1>2, <1>8 DEF SelectSubAccount, Nodes
<1>9. CASE TapEnterGame
  BY <1>1, <1>2, <1>9 DEF TapEnterGame, Nodes
<1>10. CASE CheckInGame
  BY <1>1, <1>3, <1>10 DEF CheckInGame, Nodes
<1>11. CASE AdaptivePhase
  <2>1. Explores(s, s') /\ Left /\ UNCHANGED <<run, logins>>
    BY <1>11, AdaptiveExplores DEF AdaptivePhase
  <2> QED BY <2>1 DEF Explores, Changes, Fields, Harmless, LoginKept, VerdictKept, Forward
<1>12. CASE DynamicAction
  <2>1. Changes(s, s', {"chain", "tapped"}) /\ Left /\ UNCHANGED <<run, logins>>
    BY <1>12, DynamicKeeps DEF DynamicAction
  <2> QED BY <2>1 DEF Changes, Fields, Harmless, LoginKept, VerdictKept, Forward, SpecOpen, DoneStays
<1>13. CASE SceneActionNode
  <2>1. Left /\ UNCHANGED <<run, logins>> /\ \E f, c, kind : s' = ApplyScene(s, f, c, kind)
    BY <1>13 DEF SceneActionNode
  <2>2. Changes(s, s', {"scene"}) /\ s'.scene.gate = s.scene.gate
    BY <2>1, SceneApplied
  <2> QED BY <2>1, <2>2 DEF Changes, Fields, Harmless, LoginKept, VerdictKept, Forward, SpecOpen,
                             DoneStays
<1>14. CASE Free
  <2>1. Left /\ UNCHANGED <<run, logins>> /\ \E hud : s' \in FreeOnce(s, hud)
    BY <1>14 DEF Free
  <2>2. Changes(s, s', {"free", "tapped", "entry"}) /\ (s.entry => s'.entry)
    BY <2>1, FreeKeeps
  <2> QED BY <2>1, <2>2 DEF Changes, Fields, Harmless, LoginKept, VerdictKept, Forward, SpecOpen,
                             DoneStays
<1> QED BY <1>4, <1>5, <1>6, <1>7, <1>8, <1>9, <1>10, <1>11, <1>12, <1>13, <1>14 DEF Wayfinding

LEMMA AtomicLoginStep ==
  ASSUME Shape(s), SpecOpen(s), AtomicLogin
  PROVE  /\ Left /\ Forward(s, s') /\ VerdictKept(s, s') /\ UNCHANGED run
         /\ logins' \in {logins, logins + 1}
         /\ s'.tries["recover_from_failure"] = s.tries["recover_from_failure"]
         /\ \/ s'.login
            \/ /\ s'.login = s.login
               /\ NodeAttempts(s', "atomic_login") = NodeAttempts(s, "atomic_login") + 1
<1> DEFINE n == "atomic_login"
           w == SetLoginDone(s)
<1>1. n \in Nodes /\ "recover_from_failure" \in Nodes \ {n}
  BY DEF Nodes
<1>2. Changes(s, w, {"login"}) /\ w.login
  BY DEF SetLoginDone, Shape, Fields, Changes
<1>3. /\ Left /\ UNCHANGED run
      /\ logins' \in {logins, logins + 1}
      /\ s' \in {MarkFailed(s, n), MarkDone(w, n)}
  BY DEF AtomicLogin, Leave, Left
<1> HIDE DEF w
<1>4. CASE s' = MarkFailed(s, n)
  <2>1. Counted(s, s', n) /\ s'.tries[n].failed = NodeAttempts(s, n) + 1
    BY <1>1, <1>4, MarkFailedCounts
  <2>2. NodeAttempts(s, n) \in Nat
    BY <1>1 DEF NodeAttempts, Shape, NodeRecord
  <2>3. NodeAttempts(s', n) = NodeAttempts(s, n) + 1
    BY <2>1, <2>2 DEF NodeAttempts
  <2> QED BY <1>1, <1>3, <2>1, <2>3
       DEF Counted, Changes, Fields, Forward, VerdictKept, SpecOpen, DoneStays
<1>5. CASE s' = MarkDone(w, n)
  <2>1. Counted(w, s', n)
    BY <1>1, <1>2, <1>5, MarkDoneCounts DEF Changes
  <2> QED BY <1>1, <1>2, <1>3, <2>1
       DEF Counted, Changes, Fields, Forward, VerdictKept, SpecOpen, DoneStays
<1> QED BY <1>3, <1>4, <1>5

LEMMA RecoverStep ==
  ASSUME Shape(s), SpecOpen(s), RecoverFromFailure
  PROVE  /\ Left /\ Forward(s, s') /\ VerdictKept(s, s') /\ UNCHANGED run
         /\ logins' \in {logins, logins + 1} /\ (s.login => UNCHANGED logins)
         /\ s'.tries["recover_from_failure"] =
              [done |-> s.tries["recover_from_failure"].done + 1, failed |-> 0]
         /\ \/ s'.login
            \/ s'.login = s.login /\ s'.tries["atomic_login"] = s.tries["atomic_login"]
<1> DEFINE n == "recover_from_failure"
           w == SetLoginDone(s)
           v == ClearFailed(w, "atomic_login")
<1>1. n \in Nodes /\ "atomic_login" \in Nodes \ {n}
  BY DEF Nodes
<1>2. Changes(s, w, {"login"}) /\ w.login
  BY DEF SetLoginDone, Shape, Fields, Changes
<1>3. /\ Left /\ UNCHANGED run
      /\ logins' \in {logins, logins + 1} /\ (s.login => UNCHANGED logins)
      /\ s' \in {MarkDone(s, n), MarkDone(v, n)}
  BY DEF RecoverFromFailure, Leave, Left, IsLoginFlowInProgress
<1> HIDE DEF w
<1>4. Counted(w, v, "atomic_login")
  BY <1>1, <1>2, ClearFailedCounts DEF Changes
<1> HIDE DEF v
<1>5. CASE s' = MarkDone(s, n)
  <2>1. Counted(s, s', n) /\ s'.tries[n] = [done |-> s.tries[n].done + 1, failed |-> 0]
    BY <1>1, <1>5, MarkDoneCounts
  <2> QED BY <1>1, <1>3, <2>1
       DEF Counted, Changes, Fields, Forward, VerdictKept, SpecOpen, DoneStays
<1>6. CASE s' = MarkDone(v, n)
  <2>1. Counted(v, s', n) /\ s'.tries[n] = [done |-> v.tries[n].done + 1, failed |-> 0]
    BY <1>1, <1>4, <1>6, MarkDoneCounts DEF Counted, Changes
  <2>2. v.tries[n] = s.tries[n]
    BY <1>1, <1>2, <1>4 DEF Counted, Changes, Fields
  <2> QED BY <1>2, <1>3, <1>4, <2>1, <2>2
       DEF Counted, Changes, Fields, Forward, VerdictKept, SpecOpen, DoneStays
<1> QED BY <1>3, <1>5, <1>6

LEMMA ServerStep ==
  ASSUME Shape(s), SpecOpen(s), CheckServerSelector
  PROVE  /\ Left /\ Forward(s, s') /\ LoginKept(s, s') /\ UNCHANGED logins
         /\ s'.confirmed = s.confirmed /\ s'.watch = s.watch
         /\ \/ s'.terminal = s.terminal /\ UNCHANGED run
            \/ /\ s'.terminal = "e2006"
               /\ run' = [finished |-> TRUE, success |-> FALSE, note |-> "e2006"]
<1> DEFINE n == "check_server_selector"
           w == [s EXCEPT !.server = TRUE]
           v == Terminate(s, "e2006")
<1>1. n \in Nodes /\ {"atomic_login", "recover_from_failure"} \subseteq Nodes \ {n}
  BY DEF Nodes
<1>2. Changes(s, w, {"server"}) /\ Changes(s, v, {"finished", "terminal"}) /\ v.terminal = "e2006"
  BY DEF Terminate, Shape, Fields, Changes
<1>3. /\ Left /\ UNCHANGED logins
      /\ \/ s' \in {MarkDone(w, n), MarkFailed(s, n)} /\ UNCHANGED run
         \/ /\ s' = MarkFailed(v, n)
            /\ run' = [finished |-> TRUE, success |-> FALSE, note |-> "e2006"]
  BY DEF CheckServerSelector, Leave, Left, Quiet
<1> HIDE DEF w, v
<1>4. Counted(w, MarkDone(w, n), n) /\ Counted(s, MarkFailed(s, n), n)
      /\ Counted(v, MarkFailed(v, n), n)
  BY <1>1, <1>2, MarkDoneCounts, MarkFailedCounts DEF Changes
<1> QED BY <1>1, <1>2, <1>3, <1>4
     DEF Counted, Changes, Fields, Forward, LoginKept, SpecOpen, DoneStays

LEMMA WatchedForward ==
  ASSUME NEW u, SpecOpen(u), NEW q, NEW t,
         Changes(u, q, {"watch", "confirmed", "finished", "terminal"}),
         Counted(q, t, "stability_observe")
  PROVE  /\ Forward(u, t) /\ LoginKept(u, t) /\ t.entry = u.entry
         /\ t.watch = q.watch /\ t.confirmed = q.confirmed /\ t.terminal = q.terminal
<1>1. {"atomic_login", "recover_from_failure"} \subseteq Nodes \ {"stability_observe"}
  BY DEF Nodes
<1> QED BY <1>1 DEF Counted, Changes, Fields, Forward, LoginKept, SpecOpen, DoneStays

LEMMA StabilityStep ==
  ASSUME Shape(s), SpecOpen(s), StabilityObserve
  PROVE  /\ Left /\ Forward(s, s') /\ LoginKept(s, s') /\ UNCHANGED logins
         /\ s'.entry = s.entry
         /\ s.watch.due => s'.watch.due
         /\ s.watch.checked => s'.watch.checked
         /\ \/ s'.confirmed = s.confirmed /\ s'.terminal = s.terminal /\ UNCHANGED run
            \/ /\ s'.confirmed = s.confirmed
               /\ s'.terminal \in {"rounds", "anomaly"}
               /\ run' = [finished |-> TRUE, success |-> FALSE, note |-> s'.terminal]
            \/ /\ s'.confirmed /\ s'.watch.due /\ s'.watch.checked
               /\ s'.terminal = s.terminal
               /\ run' = [finished |-> TRUE, success |-> TRUE, note |-> "stable"]
<1> DEFINE n == "stability_observe"
<1>1. n \in Nodes /\ {"atomic_login", "recover_from_failure"} \subseteq Nodes \ {n}
  BY DEF Nodes
<1>2. PICK due \in Due :
        LET t == [s EXCEPT !.watch.rounds = StabilityRounds, !.watch.started = TRUE,
                           !.watch.due = due]
            c == Checked(t)
        IN IF StabilityRounds > MaxStabilityRounds
           THEN StabilityFails([s EXCEPT !.watch.rounds = StabilityRounds], "rounds")
           ELSE \/ ~due /\ s.watch.checked /\ Quiet(MarkDone(t, pc))
                \/ StabilityFails(c, "anomaly")
                \/ ~due /\ Quiet(MarkDone(c, pc))
                \/ /\ due /\ Leave(MarkDone(SetInGameConfirmed(c), pc))
                   /\ run' = [finished |-> TRUE, success |-> TRUE, note |-> "stable"]
                   /\ UNCHANGED logins
  BY DEF StabilityObserve
<1>3. s.watch.due => due
  BY DEF Due
<1> DEFINE r == [s EXCEPT !.watch.rounds = StabilityRounds]
           t == [s EXCEPT !.watch.rounds = StabilityRounds, !.watch.started = TRUE,
                          !.watch.due = due]
           c == Checked(t)
<1>4. /\ Changes(s, r, {"watch"}) /\ r.watch.due = s.watch.due /\ r.watch.checked = s.watch.checked
      /\ Changes(s, t, {"watch"}) /\ t.watch.due = due /\ t.watch.checked = s.watch.checked
  BY DEF Shape, Fields, Changes
<1> HIDE DEF r, t
<1>5. Changes(s, c, {"watch"}) /\ c.watch.due = due /\ c.watch.checked
  BY <1>4 DEF Checked, Shape, Fields, Changes
<1> HIDE DEF c
<1> DEFINE d == SetInGameConfirmed(c)
<1>6. /\ Changes(c, d, {"confirmed", "finished"}) /\ d.confirmed
      /\ Changes(r, Terminate(r, "rounds"), {"finished", "terminal"})
      /\ Changes(c, Terminate(c, "anomaly"), {"finished", "terminal"})
      /\ Terminate(r, "rounds").terminal = "rounds" /\ Terminate(c, "anomaly").terminal = "anomaly"
  BY <1>4, <1>5 DEF SetInGameConfirmed, Terminate, Shape, Fields, Changes
<1> HIDE DEF d
<1>7. pc = n
  BY DEF StabilityObserve
<1>8. /\ Left /\ UNCHANGED logins
      /\ \/ s' \in {MarkDone(t, n), MarkDone(c, n)} /\ UNCHANGED run
         \/ /\ s' = MarkFailed(Terminate(r, "rounds"), n)
            /\ run' = [finished |-> TRUE, success |-> FALSE, note |-> "rounds"]
         \/ /\ s' = MarkFailed(Terminate(c, "anomaly"), n)
            /\ run' = [finished |-> TRUE, success |-> FALSE, note |-> "anomaly"]
         \/ /\ s' = MarkDone(d, n) /\ due
            /\ run' = [finished |-> TRUE, success |-> TRUE, note |-> "stable"]
  BY <1>2, <1>7 DEF Quiet, Leave, Left, StabilityFails, r, t, c, d
<1>9. /\ Counted(t, MarkDone(t, n), n) /\ Counted(c, MarkDone(c, n), n)
      /\ Counted(d, MarkDone(d, n), n)
      /\ Counted(Terminate(r, "rounds"), MarkFailed(Terminate(r, "rounds"), n), n)
      /\ Counted(Terminate(c, "anomaly"), MarkFailed(Terminate(c, "anomaly"), n), n)
  BY <1>1, <1>4, <1>5, <1>6, MarkDoneCounts, MarkFailedCounts DEF Changes
<1> DEFINE e == Terminate(r, "rounds")
           a == Terminate(c, "anomaly")
           F == {"watch", "confirmed", "finished", "terminal"}
<1>10. /\ Changes(s, t, F) /\ Changes(s, c, F) /\ Changes(s, d, F) /\ Changes(s, e, F)
       /\ Changes(s, a, F)
  BY <1>4, <1>5, <1>6 DEF Changes
<1>11. /\ d.watch = c.watch /\ d.terminal = s.terminal /\ e.watch = r.watch /\ a.watch = c.watch
       /\ t.confirmed = s.confirmed /\ c.confirmed = s.confirmed /\ e.confirmed = s.confirmed
       /\ a.confirmed = s.confirmed /\ t.terminal = s.terminal /\ c.terminal = s.terminal
  BY <1>4, <1>5, <1>6 DEF Changes, Fields
<1> HIDE DEF e, a
<1>12. \A q \in {t, c, d, e, a} : \A m : Counted(q, m, n) =>
         /\ Forward(s, m) /\ LoginKept(s, m) /\ m.entry = s.entry
         /\ m.watch = q.watch /\ m.confirmed = q.confirmed /\ m.terminal = q.terminal
  BY <1>10, WatchedForward
<1>13. \/ Counted(t, s', n) /\ UNCHANGED run
       \/ Counted(c, s', n) /\ UNCHANGED run
       \/ /\ Counted(e, s', n)
          /\ run' = [finished |-> TRUE, success |-> FALSE, note |-> "rounds"]
       \/ /\ Counted(a, s', n)
          /\ run' = [finished |-> TRUE, success |-> FALSE, note |-> "anomaly"]
       \/ /\ Counted(d, s', n) /\ due
          /\ run' = [finished |-> TRUE, success |-> TRUE, note |-> "stable"]
  BY <1>8, <1>9 DEF e, a
<1>14. e.terminal = "rounds" /\ a.terminal = "anomaly" /\ d.confirmed
  BY <1>6 DEF e, a
<1> QED BY <1>3, <1>4, <1>5, <1>8, <1>11, <1>12, <1>13, <1>14

LEMMA BlackoutKeeps ==
  ASSUME NEW u, Shape(u), NEW o, NEW b \in Blackout(u, o) PROVE Changes(u, b[1], {"black"})
<1> DEFINE Black(v, n) == [v EXCEPT !.black = n]
           w == [u EXCEPT !.black = IF @ < DismissStreak THEN @ + 1 ELSE @]
<1>1. \A n : Changes(u, Black(u, n), {"black"})
  BY DEF Shape, Fields, Changes
<1>2. Changes(u, w, {"black"})
  BY <1>1
<1> HIDE DEF w
<1>3. \A n : Changes(u, Black(w, n), {"black"})
  BY <1>2 DEF Shape, Fields, Changes
<1>4. Changes(u, u, {"black"})
  BY DEF Changes
<1>5. CASE ~o.black
  BY <1>1, <1>5 DEF Blackout
<1>6. CASE o.black /\ IsLoginFlowInProgress(u)
  <2>1. \E q \in Looks : b = <<[u EXCEPT !.black = IF q.black THEN @ ELSE 0], q>>
    BY <1>6 DEF Blackout
  <2> QED BY <1>1, <2>1
<1>7. CASE o.black /\ ~IsLoginFlowInProgress(u) /\ ~ShouldHandleBlackout(u)
  BY <1>4, <1>7 DEF Blackout
<1>8. CASE o.black /\ ~IsLoginFlowInProgress(u) /\ ShouldHandleBlackout(u)
  <2>1. \/ b = <<w, o>>
        \/ \E q \in Looks : b = <<[w EXCEPT !.black = IF q.black THEN @ ELSE 0], q>>
    BY <1>8 DEF Blackout, w
  <2> QED BY <1>2, <1>3, <2>1
<1> QED BY <1>5, <1>6, <1>7, <1>8

LEMMA ObserveStep ==
  ASSUME Shape(s), SpecOpen(s), ObserveScreen
  PROVE  /\ pc' = "classify" /\ UNCHANGED <<game, given, run, stop, logins>>
         /\ Forward(s, s') /\ LoginKept(s, s') /\ s'.entry = s.entry
         /\ s'.confirmed = s.confirmed /\ s'.watch = s.watch
         /\ s'.terminal \in {s.terminal, "stop", "limit"}
<1> DEFINE w == [s EXCEPT !.iter = @ + 1]
           v == Terminate(s, "stop")
           l == [Terminate(s, "limit") EXCEPT !.iter = @ + 1]
           F == {"iter", "black", "finished", "terminal"}
<1>1. /\ Changes(s, w, F) /\ w.terminal = s.terminal /\ Changes(s, v, F) /\ v.terminal = "stop"
      /\ Changes(s, l, F) /\ l.terminal = "limit"
  BY DEF Shape, Fields, Terminate, Changes
<1> HIDE DEF w, v, l
<1>2. \/ s' = v \/ s' = l
      \/ \E o \in Looks : \E b \in Blackout(w, o) : s' = b[1]
  BY DEF ObserveScreen, w, v, l
<1>3. ASSUME NEW o, NEW b \in Blackout(w, o)
      PROVE  Changes(s, b[1], F) /\ b[1].terminal = s.terminal
  <2>1. Changes(w, b[1], {"black"})
    BY <1>1, BlackoutKeeps DEF Changes
  <2> QED BY <1>1, <2>1 DEF Changes, Fields
<1>4. Changes(s, s', F) /\ s'.terminal \in {s.terminal, "stop", "limit"}
  BY <1>1, <1>2, <1>3
<1>5. pc' = "classify" /\ UNCHANGED <<game, given, run, stop, logins>>
  BY DEF ObserveScreen
<1> HIDE DEF F
<1> QED BY <1>4, <1>5 DEF F, Changes, Fields, Forward, LoginKept, SpecOpen, DoneStays

--------------------------------------------------------------------------------
(* Where a node may be planned.                                               *)

Acting == Nodes \cup {"adaptive_phase", "dynamic_action", "scene_action", "free"}

LEMMA LimitsNat ==
  LeafAttempts \in Nat \ {0} /\ BranchAttempts \in Nat \ {0} /\ MaxNodeAttempts \in Nat \ {0}
BY LimitsAssumption

LEMMA AttemptsNat ==
  ASSUME NEW t, Shape(t), NEW n \in Nodes PROVE NodeAttempts(t, n) \in Nat
BY DEF Shape, NodeAttempts, NodeRecord

TreeNodes == (Nodes \ {"recover_from_failure"}) \cup {"adaptive_phase"}

LEMMA TreeNames == \A i \in 1..11 : TreeOrder[i] \in TreeNodes
BY DEF TreeOrder, TreeNodes, Nodes

LEMMA DfsInTree ==
  ASSUME NEW t, NEW f
  PROVE  LET n == DfsNextAction(t, f)
         IN n # "" => n \in TreeNodes
                      /\ Eligible(t, f, n)
<1> DEFINE open == {i \in DOMAIN TreeOrder : Eligible(t, f, TreeOrder[i])}
<1>2. open # {} => \E i \in open : \A j \in open : i <= j
  BY TreeDomain, FirstOfTree
<1>3. DfsNextAction(t, f) # "" => \E i \in 1..11 : DfsNextAction(t, f) = TreeOrder[i]
  BY <1>2, TreeDomain DEF DfsNextAction
<1> QED BY <1>3, TreeNames, DfsTakesEligible

LEMMA Routes ==
  ASSUME NEW t, Shape(t), NEW f, NEW words
  PROVE  LET r == PlanRoute(t, f, words)
         IN /\ r \in Acting \cup {"end"}
            /\ r # "end" => ~t.confirmed /\ t.terminal = ""
            /\ r = "stability_observe" => t.entry
            /\ r = "atomic_login" => ~t.login /\ NodeAttempts(t, r) < LeafAttempts
            /\ r = "recover_from_failure" => NodeAttempts(t, r) < MaxNodeAttempts
            /\ r = "scene_action" => ShouldRouteScene(t, f)
<1> DEFINE r == PlanRoute(t, f, words)
           dfs == DfsNextAction(t, f)
<1>1. \/ r = "end"
      \/ r = dfs /\ dfs # ""
      \/ r = "scene_action" /\ ShouldRouteScene(t, f)
      \/ r \in {"adaptive_phase", "dynamic_action", "free"}
      \/ r = "recover_from_failure" /\ ~(NodeAttempts(t, r) >= MaxNodeAttempts)
  <2>1. "" \notin StaticBlockingActions
    <3>1. \A i \in 1..7 : TreeOrder[i] \in TreeNodes
      BY TreeNames
    <3>2. "" \notin TreeNodes
      BY DEF TreeNodes, Nodes
    <3> QED BY <3>1, <3>2 DEF StaticBlockingActions
  <2> HIDE DEF dfs
  <2> QED BY <2>1 DEF PlanRoute, dfs
<1>2. r # "end" => ~t.confirmed /\ t.terminal = ""
  BY DEF PlanRoute
<1> HIDE DEF r
<1>3. CASE r = dfs /\ dfs # ""
  <2>1. r \in TreeNodes /\ Eligible(t, f, r)
    BY <1>3, DfsInTree
  <2>2. r = "stability_observe" => t.entry
    BY <2>1 DEF Eligible, Guard, ShouldStabilityObserve
  <2>3. r = "atomic_login" => ~t.login /\ NodeAttempts(t, r) < LeafAttempts
    BY <2>1 DEF Eligible, Guard, LoginBlocking, MaxAttempts, Nodes
  <2>4. "scene_action" \notin TreeNodes /\ "recover_from_failure" \notin TreeNodes
    BY DEF TreeNodes, Nodes
  <2> QED BY <1>2, <2>1, <2>2, <2>3, <2>4 DEF Acting, TreeNodes, r
<1>4. CASE r = "recover_from_failure" /\ ~(NodeAttempts(t, r) >= MaxNodeAttempts)
  <2>1. r \in Nodes
    BY <1>4 DEF Nodes
  <2>2. NodeAttempts(t, r) \in Nat
    BY <2>1, AttemptsNat
  <2>3. NodeAttempts(t, r) < MaxNodeAttempts
    BY <1>4, <2>2, LimitsNat
  <2> QED BY <1>2, <1>4, <2>1, <2>3 DEF Acting, r
<1> QED BY <1>1, <1>2, <1>3, <1>4 DEF Acting, r

--------------------------------------------------------------------------------
(* The step that plans.                                                       *)

\* The model is asked about a scene after the login only.
GateFits(t) == t.login \/ t.scene.gate.id \notin SceneStrategyIds

\* Before the login the route to the scene node is taken for a wait alone, and the node
\* then finds nothing else to do: the scene that it acts upon is the one that was routed.
LEMMA PassiveScene ==
  ASSUME NEW u, Shape(u), ~u.login, GateFits(u), NEW f, NEW o, NEW kind, NEW t,
         Changes(ApplyScene(u, f, ClassifyScene(f, o), kind), t, {"entry"}),
         u.entry => t.entry,
         ShouldRouteScene(t, f)
  PROVE  SceneAction(t, f, o, kind) = "wait"
<1> DEFINE c == ClassifyScene(f, o)
           a == ApplyScene(u, f, c, kind)
<1>1. /\ Changes(u, a, {"scene"}) /\ a.scene.id = c.id /\ a.scene.conf = c.conf
      /\ a.scene.gate = u.scene.gate
  BY SceneApplied
<1>2. /\ t.scene = a.scene /\ ~t.login /\ t.confirmed = u.confirmed
      /\ t.sub = u.sub /\ t.privacy = u.privacy /\ t.server = u.server /\ t.tries = u.tries
      /\ t.login = u.login
  BY <1>1 DEF Changes, Fields
<1>3. \A v : /\ v.login = u.login /\ v.sub = u.sub /\ v.privacy = u.privacy
             /\ v.server = u.server /\ v.tries = u.tries
             => (HasPendingStaticWork(v, f) <=> HasPendingStaticWork(u, f))
  BY DEF HasPendingStaticWork, Completed
<1>4. IsPreLoginPassiveWait(t, f, [id |-> c.id, conf |-> c.conf])
  BY <1>1, <1>2 DEF ShouldRouteScene
<1> DEFINE Quietly(d) ==
      \/ d.id = "loading" /\ d.conf >= Sure
      \/ /\ Completed(t, "handle_initial_privacy_dialog")
         /\ d.id = "unknown" /\ d.conf < Sure /\ ~f.terms
<1>5. ~t.confirmed /\ ~t.entry /\ ~HasPendingStaticWork(t, f) /\ Quietly(c)
  BY <1>4 DEF IsPreLoginPassiveWait
<1>6. \A d : Quietly(d) => IsPreLoginPassiveWait(t, f, d)
  BY <1>2, <1>5 DEF IsPreLoginPassiveWait
<1>7. t.scene.strategy \in {"", c.id}
  <2> DEFINE weak == IF kind # "low_confidence" THEN 0
                     ELSE IF u.scene.active /\ ~HasPendingStaticWork(u, f)
                     THEN u.scene.weak + 1 ELSE u.scene.weak
             b == [u EXCEPT !.scene.id = c.id, !.scene.conf = c.conf, !.scene.weak = weak]
  <2> HIDE DEF weak, c
  <2>1. Changes(u, b, {"scene"})
    BY DEF Shape, Fields, Changes
  <2>2. IsPreLoginPassiveWait(b, f, c)
    <3>1. /\ b.login = u.login /\ b.sub = u.sub /\ b.privacy = u.privacy /\ b.server = u.server
          /\ b.tries = u.tries /\ b.confirmed = u.confirmed /\ b.entry = u.entry
      BY <2>1 DEF Changes, Fields
    <3>2. ~HasPendingStaticWork(b, f)
      BY <1>2, <1>3, <1>5, <3>1
    <3> QED BY <1>2, <1>5, <3>1, <3>2 DEF IsPreLoginPassiveWait, Completed
  <2>3. ShouldActivate(b, f, c)
    BY <2>2 DEF ShouldActivate
  <2>4. a \in {[b EXCEPT !.scene.active = FALSE, !.scene.strategy = "", !.scene.weak = 0],
               [b EXCEPT !.scene.active = TRUE, !.scene.strategy = c.id]}
    BY <2>3 DEF ApplyScene, weak
  <2> HIDE DEF a, b
  <2>5. a.scene.strategy \in {"", c.id}
    <3>1. "scene" \in DOMAIN b /\ {"active", "strategy", "weak"} \subseteq DOMAIN b.scene
      BY <2>1 DEF Changes, Shape, Fields
    <3>2. CASE a = [b EXCEPT !.scene.active = FALSE, !.scene.strategy = "", !.scene.weak = 0]
      BY <3>1, <3>2
    <3>3. CASE a = [b EXCEPT !.scene.active = TRUE, !.scene.strategy = c.id]
      BY <3>1, <3>3
    <3> QED BY <2>4, <3>2, <3>3
  <2> QED BY <1>2, <2>5
<1> HIDE DEF c, a
<1>8. Quietly(ActingScene(t, f, o))
  <2>1. CASE c.id = "loading"
    BY <1>5, <2>1 DEF ActingScene, c
  <2>2. CASE c.id # "loading"
    <3>1. c.id = "unknown" /\ c.conf < Sure
      BY <1>5, <2>2
    <3>2. t.scene.gate.id \notin SceneStrategyIds
      BY <1>1, <1>2 DEF GateFits
    <3>3. GatedScene(t, IF t.scene.strategy # "" THEN t.scene.strategy ELSE t.scene.id) = "unknown"
      BY <1>1, <1>2, <1>7, <3>1, <3>2 DEF GatedScene
    <3>4. ActingScene(t, f, o) = [id |-> "unknown", conf |-> c.conf]
      BY <1>1, <1>2, <3>1, <3>3 DEF ActingScene, c
    <3> QED BY <1>5, <2>2, <3>1, <3>4
  <2> QED BY <2>1, <2>2
<1>9. IsPreLoginPassiveWait(t, f, ActingScene(t, f, o))
  BY <1>6, <1>8
<1> QED BY <1>9 DEF SceneAction

\* What may be said of the planned node when it is planned.
Planned ==
  /\ pc \in Acting \cup {"start"} => ~s.confirmed /\ s.terminal = ""
  /\ pc = "stability_observe" => s.entry
  /\ pc = "atomic_login" => ~s.login /\ NodeAttempts(s, pc) < LeafAttempts
  /\ pc = "recover_from_failure" => NodeAttempts(s, pc) < MaxNodeAttempts
  /\ PassiveBeforeLogin

\* The step that plans, taken apart: the facts of the screen read, the chain they build, and
\* what follows from the scene g and the check of the controls.
ReadFacts(facts) ==
  [s EXCEPT !.pic = IF facts.interp # "" THEN look ELSE @,
            !.stage = IF facts.login THEN "login_form" ELSE "launch"]

Judged(facts) ==
  SceneGate(MaybeBuildChain(ReadFacts(facts), facts, look), facts, look,
            ClassifyScene(facts, look), Judgments)

Routed(facts, g, hud) ==
  LET kind == Transition(s.scene.id, g.c, look)
      scened == ApplyScene(g.s, facts, g.c, kind)
      checked == [scened EXCEPT !.entry = @ \/ hud]
      route == PlanRoute(checked, facts, look.role)
  IN /\ hud => look.hud /\ s.login /\ ~s.entry /\ ~s.confirmed
     /\ s' = [checked EXCEPT !.submitting = route = "atomic_login"]
     /\ given' = Given(route, checked, facts, look, kind) /\ pc' = route

LEMMA ClassifyPlans ==
  ASSUME ClassifyScreen, ~s.finished
  PROVE  \E known \in BOOLEAN :
         \E facts \in FactsOf(look, Completed(s, "handle_initial_privacy_dialog") /\ s.privacy,
                              known, Answers) :
         \E g \in Judged(facts) : \E hud \in BOOLEAN : Routed(facts, g, hud)
<1> DEFINE settled == Completed(s, "handle_initial_privacy_dialog") /\ s.privacy
           Chosen(known, facts, g, hud) ==
             LET kind == Transition(s.scene.id, g.c, look)
                 scened == ApplyScene(g.s, facts, g.c, kind)
                 checked == [scened EXCEPT !.entry = @ \/ hud]
                 route == PlanRoute(checked, facts, look.role)
             IN /\ known => s.pic = look /\ look # NoText
                /\ hud => look.hud /\ s.login /\ ~s.entry /\ ~s.confirmed
                /\ s' = [checked EXCEPT !.submitting = route = "atomic_login"]
                /\ given' = Given(route, checked, facts, look, kind) /\ pc' = route
           Plan(known, facts) ==
             LET read == [s EXCEPT !.pic = IF facts.interp # "" THEN look ELSE @,
                                   !.stage = IF facts.login THEN "login_form" ELSE "launch"]
                 built == MaybeBuildChain(read, facts, look)
             IN \E g \in SceneGate(built, facts, look, ClassifyScene(facts, look), Judgments) :
                \E hud \in BOOLEAN : Chosen(known, facts, g, hud)
<1>1. \E known \in BOOLEAN : \E facts \in FactsOf(look, settled, known, Answers) :
        Plan(known, facts)
  BY DEF ClassifyScreen
<1>2. ASSUME NEW known, NEW facts, Plan(known, facts)
      PROVE  \E g \in Judged(facts) : \E hud \in BOOLEAN : Routed(facts, g, hud)
  <2>1. \E g \in Judged(facts) : \E hud \in BOOLEAN : Chosen(known, facts, g, hud)
    BY <1>2 DEF Judged, ReadFacts
  <2>2. \A g, hud : Chosen(known, facts, g, hud) => Routed(facts, g, hud)
    BY DEF Routed
  <2> HIDE DEF Chosen
  <2> QED BY <2>1, <2>2
<1> HIDE DEF Plan
<1> QED BY <1>1, <1>2

LEMMA ClassifyStep ==
  ASSUME Shape(s), SpecOpen(s), GateFits(s), ClassifyScreen
  PROVE  /\ Changes(s, s', {"pic", "stage", "chain", "scene", "entry", "submitting"})
         /\ s.entry => s'.entry
         /\ GateFits(s') /\ Planned'
         /\ pc' \in Acting \cup {"end"} /\ UNCHANGED <<game, run, stop, logins>>
<1>1. UNCHANGED <<game, run, stop, logins>>
  BY DEF ClassifyScreen
<1>2. CASE s.finished
  <2>1. pc' = "end" /\ \E hud \in BOOLEAN : s' = [s EXCEPT !.entry = @ \/ hud]
    BY <1>2 DEF ClassifyScreen
  <2>2. Changes(s, s', {"entry"}) /\ (s.entry => s'.entry)
    BY <2>1 DEF Shape, Fields, Changes
  <2>3. "end" \notin Acting
    BY DEF Acting, Nodes
  <2> QED BY <1>1, <2>1, <2>2, <2>3 DEF Changes, Fields, GateFits, Planned, PassiveBeforeLogin
<1>3. CASE ~s.finished
  <2> DEFINE settled == Completed(s, "handle_initial_privacy_dialog") /\ s.privacy
  <2>1. PICK known \in BOOLEAN : \E facts \in FactsOf(look, settled, known, Answers) :
          \E g \in Judged(facts) : \E hud \in BOOLEAN : Routed(facts, g, hud)
    BY <1>3, ClassifyPlans
  <2>2. PICK facts \in FactsOf(look, settled, known, Answers) :
          \E g \in Judged(facts) : \E hud \in BOOLEAN : Routed(facts, g, hud)
    BY <2>1
  <2>3. PICK g \in Judged(facts) : \E hud \in BOOLEAN : Routed(facts, g, hud)
    BY <2>2
  <2>4. PICK hud \in BOOLEAN : Routed(facts, g, hud)
    BY <2>3
  <2> DEFINE read == ReadFacts(facts)
             built == MaybeBuildChain(read, facts, look)
             rule == ClassifyScene(facts, look)
             kind == Transition(s.scene.id, g.c, look)
             scened == ApplyScene(g.s, facts, g.c, kind)
             checked == [scened EXCEPT !.entry = @ \/ hud]
             route == PlanRoute(checked, facts, look.role)
  <2>5. g \in SceneGate(built, facts, look, rule, Judgments)
    BY <2>3 DEF Judged
  <2>6. /\ s' = [checked EXCEPT !.submitting = route = "atomic_login"]
        /\ given' = Given(route, checked, facts, look, kind) /\ pc' = route
    BY <2>4 DEF Routed
  <2>7. Changes(s, read, {"pic", "stage"})
    BY DEF ReadFacts, Shape, Fields, Changes
  <2> HIDE DEF read
  <2>8. Changes(s, built, {"pic", "stage", "chain"})
    BY <2>7, ChainBuilt DEF Changes
  <2> HIDE DEF built, rule
  <2>9. Changes(built, g.s, {"scene"}) /\ (~built.login => g.s = built /\ g.c = rule)
    BY <2>5, <2>8, GateKeeps DEF Changes
  <2>10. /\ Changes(g.s, scened, {"scene"}) /\ scened.scene.gate = g.s.scene.gate
    BY <2>9, SceneApplied DEF Changes
  <2> HIDE DEF scened
  <2>11. Changes(scened, checked, {"entry"}) /\ (scened.entry => checked.entry)
    BY <2>10 DEF Shape, Fields, Changes
  <2> HIDE DEF checked
  <2>12. Changes(checked, s', {"submitting"})
    BY <2>6, <2>11 DEF Shape, Fields, Changes
  <2>13. /\ Changes(s, checked, {"pic", "stage", "chain", "scene", "entry"})
         /\ s.entry => checked.entry
    BY <2>8, <2>9, <2>10, <2>11 DEF Changes, Fields
  <2>14. s.login => checked.login
    BY <2>13 DEF Changes, Fields
  <2>15. ~s.login => checked.scene.gate = s.scene.gate
    BY <2>8, <2>9, <2>10, <2>11 DEF Changes, Fields
  <2>16. GateFits(checked)
    BY <2>14, <2>15 DEF GateFits
  <2> HIDE DEF route
  <2>17. ASSUME route = "scene_action", ~checked.login PROVE ~given'
    <3>1. ~s.login /\ ~built.login
      BY <2>8, <2>13, <2>17 DEF Changes, Fields
    <3>2. g.s = built /\ g.c = rule
      BY <2>9, <3>1
    <3>3. Shape(built) /\ GateFits(built) /\ (built.entry => checked.entry)
      BY <2>8, <2>11, <2>10, <3>2 DEF Changes, Fields, GateFits
    <3>4. ShouldRouteScene(checked, facts)
      BY <2>11, <2>17, Routes DEF route, Changes
    <3>5. SceneAction(checked, facts, look, kind) = "wait"
      BY <2>11, <3>1, <3>2, <3>3, <3>4, PassiveScene DEF scened, rule
    <3> QED BY <2>6, <2>17, <3>5 DEF Given
  <2> HIDE DEF kind
  <2>18. /\ route \in Acting \cup {"end"}
         /\ route # "end" => ~checked.confirmed /\ checked.terminal = ""
         /\ route = "stability_observe" => checked.entry
         /\ route = "atomic_login" => ~checked.login /\ NodeAttempts(checked, route) < LeafAttempts
         /\ route = "recover_from_failure" => NodeAttempts(checked, route) < MaxNodeAttempts
    BY <2>11, Routes DEF route, Changes
  <2>19. /\ s'.confirmed = checked.confirmed /\ s'.terminal = checked.terminal
         /\ s'.entry = checked.entry /\ s'.login = checked.login /\ s'.tries = checked.tries
         /\ s'.scene = checked.scene
    BY <2>12 DEF Changes, Fields
  <2>20. Planned'
    <3>1. \A n : NodeAttempts(s', n) = NodeAttempts(checked, n)
      BY <2>19 DEF NodeAttempts
    <3>2. "end" \notin Acting /\ "start" \notin Acting
      BY DEF Acting, Nodes
    <3> QED BY <2>6, <2>17, <2>18, <2>19, <3>1, <3>2 DEF Planned, PassiveBeforeLogin
  <2>21. GateFits(s')
    BY <2>16, <2>19 DEF GateFits
  <2>22. Changes(s, s', {"pic", "stage", "chain", "scene", "entry", "submitting"})
    BY <2>12, <2>13 DEF Changes, Fields
  <2> QED BY <1>1, <2>6, <2>13, <2>18, <2>19, <2>20, <2>21, <2>22
<1> QED BY <1>2, <1>3

--------------------------------------------------------------------------------
(* The inductive invariant.                                                   *)

Frame == Shape(s) /\ SpecOpen(s) /\ GateFits(s)

\* A confirmation has its evidence, and the caller's RunState agrees with it.
VerdictInv ==
  /\ s.confirmed => s.entry /\ s.watch.due /\ s.watch.checked /\ run.note # ""
  /\ run.success => s.confirmed
  /\ s.terminal \in {"e2006", "anomaly", "rounds"} => ~s.confirmed
  /\ pc = "returned" => run.finished /\ run.note # "" /\ (run.success <=> s.confirmed)

Over == pc \in {"returned", "raised"}

\* Every submission is one counted attempt of the login or of the recovery, as long as
\* the login is not done; after that there is none.
LoginInv ==
  /\ logins \in Nat /\ LoginsBounded
  /\ s.tries["recover_from_failure"].failed = 0
  /\ ~Over => NodeAttempts(s, "recover_from_failure") <= MaxNodeAttempts
  /\ ~Over /\ ~s.login =>
       /\ NodeAttempts(s, "atomic_login") <= LeafAttempts
       /\ logins <= NodeAttempts(s, "atomic_login") + NodeAttempts(s, "recover_from_failure")

Inv == Frame /\ Planned /\ VerdictInv /\ LoginInv

LEMMA PlacesDiffer ==
  {"observe", "classify", "end", "returned", "raised"} \cap (Acting \cup {"start"}) = {}
BY DEF Acting, Nodes

LEMMA DroppedFrame ==
  ASSUME Shape(s)
  PROVE
  /\ Shape(Dropped) /\ SpecOpen(Dropped) /\ GateFits(Dropped)
  /\ Dropped.entry = s.entry /\ Dropped.confirmed = s.confirmed
  /\ Dropped.terminal = s.terminal /\ Dropped.watch = s.watch /\ ~Dropped.login
  /\ \A n \in Nodes : Dropped.tries[n] = [done |-> 0, failed |-> 0]
<1> DEFINE e == EmptyLaunchGraphState(Phases, FALSE, FALSE)
<1>1. Shape(e)
  BY ShapeOfEmpty
<1>2. /\ e.adapt.spec = NoSpec /\ e.scene.gate.id = "" /\ ~e.login
      /\ \A n \in Nodes : e.tries[n] = [done |-> 0, failed |-> 0]
  BY DEF EmptyLaunchGraphState, NoScene
<1> HIDE DEF e
<1>3. Dropped = [e EXCEPT !.entry = s.entry, !.confirmed = s.confirmed,
                          !.terminal = s.terminal, !.watch = s.watch]
  BY DEF Dropped, e
<1> QED BY <1>1, <1>2, <1>3 DEF Shape, Fields, SpecOpen, GateFits, SceneStrategyIds

LEMMA InitInv == Init => Inv
<1> SUFFICES ASSUME Init PROVE Inv
  OBVIOUS
<1>1. Shape(s)
  BY ShapeOfEmpty DEF Init
<1>2. /\ s.adapt.spec = NoSpec /\ s.scene.gate.id = "" /\ s.login = FALSE /\ s.confirmed = FALSE
      /\ s.terminal = "" /\ \A n \in Nodes : s.tries[n] = [done |-> 0, failed |-> 0]
  BY DEF Init, EmptyLaunchGraphState, NoScene
<1>3. Frame
  BY <1>1, <1>2 DEF Frame, SpecOpen, GateFits, SceneStrategyIds
<1>4. pc = "start" /\ run.success = FALSE /\ logins = 0
  BY DEF Init
<1>5. Planned
  BY <1>2, <1>4 DEF Planned, PassiveBeforeLogin
<1>6. VerdictInv
  BY <1>2, <1>4 DEF VerdictInv
<1>7. {"atomic_login", "recover_from_failure"} \subseteq Nodes
  BY DEF Nodes
<1>8. LoginInv
  <2>1. /\ NodeAttempts(s, "atomic_login") = 0 /\ NodeAttempts(s, "recover_from_failure") = 0
        /\ s.tries["recover_from_failure"].failed = 0
    <3>1. /\ s.tries["atomic_login"] = [done |-> 0, failed |-> 0]
          /\ s.tries["recover_from_failure"] = [done |-> 0, failed |-> 0]
      BY <1>2, <1>7
    <3> QED BY <3>1 DEF NodeAttempts
  <2> QED BY <1>4, <2>1, LimitsNat DEF LoginInv, LoginsBounded
<1> QED BY <1>3, <1>5, <1>6, <1>8 DEF Inv

\* A step of a node that has no part in the login.
LEMMA LoginInvKept ==
  ASSUME LoginInv, LoginKept(s, s'), UNCHANGED logins, ~Over
  PROVE  LoginInv'
BY DEF LoginInv, LoginsBounded, LoginKept, NodeAttempts

\* A step that leaves the watch, the confirmation and the caller's RunState alone.
LEMMA VerdictInvKept ==
  ASSUME VerdictInv, s.entry => s'.entry, s'.confirmed = s.confirmed, s'.watch = s.watch,
         s'.terminal \in {s.terminal, "stop", "limit"}, UNCHANGED run, pc' # "returned"
  PROVE  VerdictInv'
BY DEF VerdictInv

LEMMA LeftIsPlain ==
  ASSUME pc' \in {"observe", "classify", "end", "returned", "raised"} PROVE Planned'
BY PlacesDiffer DEF Planned, PassiveBeforeLogin, Acting, Nodes

LEMMA ForwardFrame ==
  ASSUME Frame, Forward(s, s') PROVE Frame'
BY DEF Frame, Forward, GateFits

LEMMA WayfindingInv == ASSUME Inv, Wayfinding PROVE Inv'
<1>1. Harmless(s, s') /\ Left /\ UNCHANGED <<run, logins>>
  BY WayfindingHarmless DEF Inv, Frame
<1>2. ~Over
  BY DEF Wayfinding, Over, HandleInitialPrivacyDialog, EnsurePrivacyCheckbox, HandleDownload,
         DismissBlockingOverlay, SelectSubAccount, TapEnterGame, CheckInGame, AdaptivePhase,
         DynamicAction, SceneActionNode, Free
<1>3. VerdictInv'
  BY <1>1, VerdictInvKept DEF Inv, Harmless, VerdictKept, Forward, Left
<1>4. LoginInv'
  BY <1>1, <1>2, LoginInvKept DEF Inv, Harmless
<1> QED BY <1>1, <1>3, <1>4, ForwardFrame, LeftIsPlain DEF Inv, Harmless, Left

LEMMA AtomicLoginInv == ASSUME Inv, AtomicLogin PROVE Inv'
<1> DEFINE a == NodeAttempts(s, "atomic_login")
           r == NodeAttempts(s, "recover_from_failure")
<1>1. /\ Left /\ Forward(s, s') /\ VerdictKept(s, s') /\ UNCHANGED run
      /\ logins' \in {logins, logins + 1}
      /\ s'.tries["recover_from_failure"] = s.tries["recover_from_failure"]
      /\ s'.login \/ (s'.login = s.login /\ NodeAttempts(s', "atomic_login") = a + 1)
  BY AtomicLoginStep DEF Inv, Frame
<1>2. /\ pc = "atomic_login" /\ ~Over /\ ~s.login /\ a < LeafAttempts
  BY DEF AtomicLogin, Inv, Planned, Over
<1>3. a \in Nat /\ r \in Nat
  BY AttemptsNat DEF Inv, Frame, Nodes
<1>4. logins \in Nat /\ logins <= a + r /\ r <= MaxNodeAttempts
  BY <1>2 DEF Inv, LoginInv
<1>5. NodeAttempts(s', "recover_from_failure") = r
  BY <1>1 DEF NodeAttempts
<1> HIDE DEF a, r
<1>6. LoginInv'
  <2>1. logins' \in Nat /\ logins' <= a + r + 1 /\ logins' <= LeafAttempts + MaxNodeAttempts
    BY <1>1, <1>2, <1>3, <1>4, LimitsNat
  <2>2. s'.tries["recover_from_failure"].failed = 0
    BY <1>1 DEF Inv, LoginInv
  <2>3. ~s'.login => /\ NodeAttempts(s', "atomic_login") <= LeafAttempts
                     /\ logins' <= NodeAttempts(s', "atomic_login") + r
    BY <1>1, <1>2, <1>3, <2>1, LimitsNat
  <2> QED BY <1>4, <1>5, <2>1, <2>2, <2>3 DEF LoginInv, LoginsBounded
<1>7. VerdictInv'
  BY <1>1, VerdictInvKept DEF Inv, VerdictKept, Forward, Left
<1> QED BY <1>1, <1>6, <1>7, ForwardFrame, LeftIsPlain DEF Inv, Left

LEMMA RecoverInv == ASSUME Inv, RecoverFromFailure PROVE Inv'
<1> DEFINE a == NodeAttempts(s, "atomic_login")
           r == NodeAttempts(s, "recover_from_failure")
<1>1. /\ Left /\ Forward(s, s') /\ VerdictKept(s, s') /\ UNCHANGED run
      /\ logins' \in {logins, logins + 1} /\ (s.login => UNCHANGED logins)
      /\ s'.tries["recover_from_failure"] =
           [done |-> s.tries["recover_from_failure"].done + 1, failed |-> 0]
      /\ \/ s'.login
         \/ s'.login = s.login /\ s'.tries["atomic_login"] = s.tries["atomic_login"]
  BY RecoverStep DEF Inv, Frame
<1>2. pc = "recover_from_failure" /\ ~Over /\ r < MaxNodeAttempts
  BY DEF RecoverFromFailure, Inv, Planned, Over
<1>3. a \in Nat /\ r \in Nat
  BY AttemptsNat DEF Inv, Frame, Nodes
<1>4. /\ logins \in Nat /\ logins <= LeafAttempts + MaxNodeAttempts
      /\ ~s.login => a <= LeafAttempts /\ logins <= a + r
  BY <1>2 DEF Inv, LoginInv, LoginsBounded
<1>5. NodeAttempts(s', "recover_from_failure") = r + 1
  <2>1. s.tries["recover_from_failure"].failed = 0
    BY DEF Inv, LoginInv
  <2>2. s.tries["recover_from_failure"].done \in Nat
    BY DEF Inv, Frame, Shape, Nodes, NodeRecord
  <2> QED BY <1>1, <2>1, <2>2 DEF NodeAttempts
<1>6. ~s'.login => NodeAttempts(s', "atomic_login") = a /\ ~s.login
  BY <1>1 DEF NodeAttempts
<1> HIDE DEF a, r
<1>7. LoginInv'
  <2>1. logins' \in Nat /\ logins' <= LeafAttempts + MaxNodeAttempts
    BY <1>1, <1>2, <1>3, <1>4, LimitsNat
  <2>2. s'.tries["recover_from_failure"].failed = 0
    BY <1>1
  <2>3. ~s'.login => /\ NodeAttempts(s', "atomic_login") <= LeafAttempts
                     /\ logins' <= NodeAttempts(s', "atomic_login") + r + 1
    BY <1>1, <1>3, <1>4, <1>6
  <2>4. r + 1 <= MaxNodeAttempts
    BY <1>2, <1>3, LimitsNat
  <2>5. ~s'.login => logins' <= NodeAttempts(s', "atomic_login") + (r + 1)
    BY <1>3, <1>6, <2>3
  <2> QED BY <1>5, <2>1, <2>2, <2>3, <2>4, <2>5 DEF LoginInv, LoginsBounded
<1>8. VerdictInv'
  BY <1>1, VerdictInvKept DEF Inv, VerdictKept, Forward, Left
<1> QED BY <1>1, <1>7, <1>8, ForwardFrame, LeftIsPlain DEF Inv, Left

LEMMA ServerInv == ASSUME Inv, CheckServerSelector PROVE Inv'
<1>1. /\ Left /\ Forward(s, s') /\ LoginKept(s, s') /\ UNCHANGED logins
      /\ s'.confirmed = s.confirmed /\ s'.watch = s.watch
      /\ \/ s'.terminal = s.terminal /\ UNCHANGED run
         \/ /\ s'.terminal = "e2006"
            /\ run' = [finished |-> TRUE, success |-> FALSE, note |-> "e2006"]
  BY ServerStep DEF Inv, Frame
<1>2. ~s.confirmed /\ ~Over /\ pc' # "returned"
  BY <1>1 DEF CheckServerSelector, Inv, Planned, Over, Acting, Nodes, Left
<1>3. LoginInv'
  BY <1>1, <1>2, LoginInvKept DEF Inv
<1>4. CASE s'.terminal = s.terminal /\ UNCHANGED run
  <2>1. VerdictInv'
    BY <1>1, <1>2, <1>4, VerdictInvKept DEF Inv, Forward
  <2> QED BY <1>1, <1>3, <2>1, ForwardFrame, LeftIsPlain DEF Inv, Left
<1>5. CASE run' = [finished |-> TRUE, success |-> FALSE, note |-> "e2006"]
  <2>1. VerdictInv'
    BY <1>1, <1>2, <1>5 DEF VerdictInv
  <2> QED BY <1>1, <1>3, <2>1, ForwardFrame, LeftIsPlain DEF Inv, Left
<1> QED BY <1>1, <1>4, <1>5

LEMMA StabilityInv == ASSUME Inv, StabilityObserve PROVE Inv'
<1>1. /\ Left /\ Forward(s, s') /\ LoginKept(s, s') /\ UNCHANGED logins
      /\ s'.entry = s.entry
      /\ \/ s'.confirmed = s.confirmed /\ s'.terminal = s.terminal /\ UNCHANGED run
         \/ /\ s'.confirmed = s.confirmed
            /\ s'.terminal \in {"rounds", "anomaly"}
            /\ run' = [finished |-> TRUE, success |-> FALSE, note |-> s'.terminal]
         \/ /\ s'.confirmed /\ s'.watch.due /\ s'.watch.checked
            /\ s'.terminal = s.terminal
            /\ run' = [finished |-> TRUE, success |-> TRUE, note |-> "stable"]
  BY StabilityStep DEF Inv, Frame
<1>2. ~s.confirmed /\ s.terminal = "" /\ s.entry /\ ~Over /\ pc' # "returned"
  BY <1>1 DEF StabilityObserve, Inv, Planned, Over, Acting, Nodes, Left
<1>3. ~run.success
  BY <1>2 DEF Inv, VerdictInv
<1>4. LoginInv'
  BY <1>1, <1>2, LoginInvKept DEF Inv
<1>5. VerdictInv'
  <2>1. CASE s'.confirmed = s.confirmed /\ s'.terminal = s.terminal /\ UNCHANGED run
    BY <1>2, <1>3, <2>1 DEF VerdictInv
  <2>2. CASE /\ s'.confirmed = s.confirmed
             /\ run' = [finished |-> TRUE, success |-> FALSE, note |-> s'.terminal]
    BY <1>2, <2>2 DEF VerdictInv
  <2>3. CASE /\ s'.confirmed /\ s'.watch.due /\ s'.watch.checked
             /\ s'.terminal = s.terminal
             /\ run' = [finished |-> TRUE, success |-> TRUE, note |-> "stable"]
    BY <1>1, <1>2, <2>3 DEF VerdictInv
  <2> QED BY <1>1, <2>1, <2>2, <2>3
<1> QED BY <1>1, <1>4, <1>5, ForwardFrame, LeftIsPlain DEF Inv, Left

LEMMA ObserveInv == ASSUME Inv, ObserveScreen PROVE Inv'
<1>1. /\ pc' = "classify" /\ UNCHANGED <<game, given, run, stop, logins>>
      /\ Forward(s, s') /\ LoginKept(s, s') /\ s'.entry = s.entry
      /\ s'.confirmed = s.confirmed /\ s'.watch = s.watch
      /\ s'.terminal \in {s.terminal, "stop", "limit"}
  BY ObserveStep DEF Inv, Frame
<1>2. ~Over
  BY DEF ObserveScreen, Over
<1> QED BY <1>1, <1>2, LoginInvKept, VerdictInvKept, ForwardFrame, LeftIsPlain DEF Inv

LEMMA ClassifyInv == ASSUME Inv, ClassifyScreen PROVE Inv'
<1>1. /\ Changes(s, s', {"pic", "stage", "chain", "scene", "entry", "submitting"})
      /\ s.entry => s'.entry
      /\ GateFits(s') /\ Planned'
      /\ pc' \in Acting \cup {"end"} /\ UNCHANGED <<game, run, stop, logins>>
  BY ClassifyStep DEF Inv, Frame
<1>2. /\ s'.login = s.login /\ s'.tries = s.tries /\ s'.adapt = s.adapt
      /\ s'.confirmed = s.confirmed /\ s'.watch = s.watch /\ s'.terminal = s.terminal
  BY <1>1 DEF Changes, Fields
<1>3. Frame'
  BY <1>1, <1>2 DEF Inv, Frame, Changes, SpecOpen
<1>4. ~Over /\ pc' # "returned"
  BY <1>1, PlacesDiffer DEF ClassifyScreen, Over
<1>5. LoginInv'
  BY <1>1, <1>2, <1>4, LoginInvKept DEF Inv, LoginKept
<1>6. VerdictInv'
  BY <1>1, <1>2, <1>4, VerdictInvKept DEF Inv
<1> QED BY <1>1, <1>3, <1>5, <1>6 DEF Inv

\* What the end of the graph leaves.
LEMMA DroppedInv ==
  ASSUME Inv, s' = Dropped, pc' \in {"returned", "raised"}, UNCHANGED logins, VerdictInv'
  PROVE  Inv'
<1>1. /\ Shape(s') /\ SpecOpen(s') /\ GateFits(s')
      /\ s'.tries["recover_from_failure"] = [done |-> 0, failed |-> 0]
  BY DroppedFrame DEF Inv, Frame, Nodes
<1>2. LoginInv'
  BY <1>1 DEF Inv, LoginInv, LoginsBounded, Over
<1> QED BY <1>1, <1>2, LeftIsPlain DEF Inv, Frame

LEMMA EndInv == ASSUME Inv, SyncRunState \/ Raise PROVE Inv'
<1>1. /\ s'.entry = s.entry /\ s'.confirmed = s.confirmed
      /\ s'.terminal = s.terminal /\ s'.watch = s.watch
  BY DroppedFrame DEF Inv, Frame, SyncRunState, Raise
<1>2. CASE SyncRunState
  <2>1. /\ pc' = "returned" /\ s' = Dropped /\ UNCHANGED logins
        /\ run' = [finished |-> TRUE, success |-> s.confirmed,
                   note |-> IF s.terminal # "" THEN s.terminal
                            ELSE IF s.confirmed THEN run.note ELSE "recover"]
    BY <1>2 DEF SyncRunState, Success
  <2>2. run'.note # "" /\ run'.finished /\ run'.success = s.confirmed
    BY <2>1 DEF Inv, VerdictInv
  <2>3. VerdictInv'
    BY <1>1, <2>1, <2>2 DEF Inv, VerdictInv
  <2> QED BY <2>1, <2>3, DroppedInv
<1>3. CASE Raise
  <2>1. pc' = "raised" /\ s' = Dropped /\ UNCHANGED <<run, logins>>
    BY <1>3 DEF Raise
  <2>2. VerdictInv'
    BY <1>1, <2>1 DEF Inv, VerdictInv
  <2> QED BY <2>1, <2>2, DroppedInv
<1> QED BY <1>2, <1>3

LEMMA AroundInv == ASSUME Inv, Bootstrap \/ MonitorStop \/ UNCHANGED vars PROVE Inv'
<1>1. CASE Bootstrap
  <2>1. /\ pc = "start" /\ UNCHANGED <<s, logins>> /\ pc' \in {"observe", "returned"}
        /\ \/ pc' = "observe" /\ UNCHANGED run
           \/ run'.finished /\ run'.success = FALSE /\ run'.note # ""
    <3>1. /\ pc = "start" /\ UNCHANGED <<s, logins>> /\ pc' \in {"observe", "returned"}
          /\ \/ pc' = "observe" /\ UNCHANGED run
             \/ run' = [finished |-> TRUE, success |-> FALSE,
                        note |-> IF stop THEN "stop" ELSE "package"]
      BY <1>1 DEF Bootstrap
    <3> DEFINE why == IF stop THEN "stop" ELSE "package"
    <3>2. why # ""
      OBVIOUS
    <3> HIDE DEF why
    <3>3. CASE run' = [finished |-> TRUE, success |-> FALSE, note |-> why]
      BY <3>1, <3>2, <3>3
    <3> QED BY <3>1, <3>3 DEF why
  <2>2. ~s.confirmed
    BY <2>1 DEF Inv, Planned
  <2>3. VerdictInv'
    BY <2>1, <2>2 DEF Inv, VerdictInv
  <2>4. LoginInv'
    BY <2>1 DEF Inv, LoginInv, LoginsBounded, Over
  <2> QED BY <2>1, <2>3, <2>4, LeftIsPlain DEF Inv, Frame
<1>2. CASE MonitorStop \/ UNCHANGED vars
  <2>1. UNCHANGED <<pc, s, given, run, logins>>
    BY <1>2 DEF MonitorStop, vars
  <2> QED BY <2>1 DEF Inv, Frame, Planned, PassiveBeforeLogin, VerdictInv, LoginInv,
                      LoginsBounded, Over
<1> QED BY <1>1, <1>2

LEMMA StepInv == Inv /\ [Next]_vars => Inv'
BY WayfindingInv, AtomicLoginInv, RecoverInv, ServerInv, StabilityInv, ObserveInv, ClassifyInv,
   EndInv, AroundInv DEF Next, Graph, Node, Wayfinding

LEMMA InvAlways == Spec => []Inv
BY InitInv, StepInv, PTL DEF Spec

--------------------------------------------------------------------------------
(* Types: the parts of the record that the planners write.                    *)

Status == {"planned", "active", "done", "failed"}
Plans == Specs \cup {NoSpec} \cup {[p EXCEPT !.action = "wait"] : p \in Specs}
Chains == Seq({"select", "enter", "create"})

\* A place in the chain, or one past its end.
ChainKind(c) ==
  /\ DOMAIN c = {"steps", "at", "tries", "rounds", "stalls", "failed"}
  /\ c.steps \in Chains /\ c.at \in 1..Len(c.steps) + 1

Kinds(t) ==
  /\ t.adapt.tree \in [Phases -> Status] /\ t.adapt.spec \in Plans
  /\ ChainKind(t.chain)
  /\ t.scene.weak \in 0..MaxWeak
  /\ t.terminal \in Ends /\ t.confirmed \in BOOLEAN

\* A node keeps the types and is not a round of its own.
Steady(u, t) == Shape(t) /\ Kinds(t) /\ t.iter = u.iter

LEMMA SteadyChange ==
  ASSUME NEW u, Kinds(u), NEW t,
         Changes(u, t, Fields \ {"iter", "adapt", "chain", "scene", "terminal", "confirmed"})
  PROVE  Steady(u, t)
BY DEF Fields, Changes, Steady, Kinds

LEMMA SteadyCount ==
  ASSUME NEW u, NEW v, Steady(u, v), NEW n \in Nodes
  PROVE  Steady(u, MarkDone(v, n)) /\ Steady(u, MarkFailed(v, n)) /\ Steady(u, ClearFailed(v, n))
<1>1. \A t : Counted(v, t, n) => Steady(v, t)
  BY SteadyChange DEF Counted, Changes, Fields, Steady
<1>2. Steady(v, MarkDone(v, n)) /\ Steady(v, MarkFailed(v, n)) /\ Steady(v, ClearFailed(v, n))
  BY <1>1, MarkDoneCounts, MarkFailedCounts, ClearFailedCounts DEF Steady
<1> QED BY <1>2 DEF Steady

LEMMA PhasesOfPlans == \A p \in Plans : p # NoSpec => p.phase \in Phases
BY PlannersAssumption DEF Plans, Phases

LEMMA SceneSteady ==
  ASSUME NEW u, Shape(u), Kinds(u), NEW f, NEW c, NEW kind
  PROVE  Steady(u, ApplyScene(u, f, c, kind))
<1> DEFINE weak == IF kind # "low_confidence" THEN 0
                   ELSE IF u.scene.active /\ ~HasPendingStaticWork(u, f)
                   THEN u.scene.weak + 1 ELSE u.scene.weak
           t == [u EXCEPT !.scene.id = c.id, !.scene.conf = c.conf, !.scene.weak = weak]
           a == ApplyScene(u, f, c, kind)
<1>1. Changes(u, a, {"scene"})
  BY SceneApplied
<1>2. /\ t.scene.weak = weak /\ t.scene.active = u.scene.active
      /\ "scene" \in DOMAIN t /\ {"active", "strategy", "weak"} \subseteq DOMAIN t.scene
  BY DEF Shape, Fields
<1>3. \/ a = [t EXCEPT !.scene.active = FALSE, !.scene.strategy = "", !.scene.weak = 0]
      \/ /\ ~ShouldDeactivate(t, f, c, kind)
         /\ a \in {t, [t EXCEPT !.scene.active = TRUE, !.scene.strategy = c.id]}
  BY DEF ApplyScene
<1> HIDE DEF a, t
<1>4. ASSUME ~ShouldDeactivate(t, f, c, kind) PROVE weak \in 0..MaxWeak
  <2>1. ~(t.scene.active /\ kind = "low_confidence" /\ t.scene.weak >= MaxWeak)
    BY <1>4 DEF ShouldDeactivate
  <2> QED BY <1>2, <2>1 DEF Kinds, MaxWeak
<1> HIDE DEF weak
<1>5. a.scene.weak \in 0..MaxWeak
  <2>1. CASE a = [t EXCEPT !.scene.active = FALSE, !.scene.strategy = "", !.scene.weak = 0]
    <3>1. a.scene.weak = 0
      BY <1>2, <2>1
    <3> QED BY <3>1 DEF MaxWeak
  <2>2. CASE a = t /\ ~ShouldDeactivate(t, f, c, kind)
    BY <1>2, <1>4, <2>2
  <2>3. CASE /\ ~ShouldDeactivate(t, f, c, kind)
             /\ a = [t EXCEPT !.scene.active = TRUE, !.scene.strategy = c.id]
    BY <1>2, <1>4, <2>3
  <2> QED BY <1>3, <2>1, <2>2, <2>3
<1> QED BY <1>1, <1>5 DEF a, Changes, Fields, Kinds, Steady

LEMMA GateSteady ==
  ASSUME NEW u, Shape(u), Kinds(u), NEW f, NEW o, NEW rule,
         NEW g \in SceneGate(u, f, o, rule, Judgments)
  PROVE  Steady(u, g.s)
<1> DEFINE Asked(id, conf, wait) ==
             [u EXCEPT !.scene.gate = [pic |-> o, id |-> id, conf |-> conf, wait |-> wait]]
<1>1. \A id, conf, wait : Steady(u, Asked(id, conf, wait))
  BY DEF Shape, Fields, Kinds, Steady
<1>2. Steady(u, u)
  BY DEF Steady
<1> DEFINE Merged(j) == MergeJudgment(rule, j)
<1>3. \/ g.s = u \/ \E j \in Judgments : g.s = Asked(Merged(j).id, Merged(j).conf, j.wait)
  <2>1. CASE ~ShouldInvokeSceneGate(u, f)
    BY <2>1 DEF SceneGate
  <2>2. CASE ShouldInvokeSceneGate(u, f)
    <3>1. \/ g = [s |-> u, c |-> [id |-> u.scene.gate.id, conf |-> u.scene.gate.conf]]
          \/ \E j \in Judgments : g = [s |-> Asked(Merged(j).id, Merged(j).conf, j.wait),
                                      c |-> Merged(j)]
      BY <2>2 DEF SceneGate
    <3> HIDE DEF Asked, Merged
    <3> QED BY <3>1
  <2> QED BY <2>1, <2>2
<1> HIDE DEF Asked, Merged
<1> QED BY <1>1, <1>2, <1>3

\* The chain of taps.
LEMMA ChainLengths == <<>> \in Chains /\ Len(<<>>) = 0 /\ \A c \in Chains : Len(c) \in Nat
BY DEF Chains

LEMMA ChainUpdates ==
  ASSUME NEW c, ChainKind(c)
  PROVE  /\ \A n : ChainKind([c EXCEPT !.rounds = n])
         /\ \A n, m : ChainKind([c EXCEPT !.stalls = n, !.tries = m])
         /\ c.at <= Len(c.steps) => ChainKind([c EXCEPT !.stalls = 0, !.tries = 0, !.at = @ + 1])
BY ChainLengths DEF ChainKind

\* The chain alone, and the tap on the button that enters the game, may differ.
LEMMA OwnChainSteady ==
  ASSUME NEW u, NEW v, Steady(u, v), NEW t, Changes(v, t, {"chain", "tapped"}),
         ChainKind(t.chain)
  PROVE  Steady(u, t)
BY DEF Changes, Fields, Kinds, Steady

LEMMA ChainSteady ==
  ASSUME NEW u, Shape(u), Kinds(u), NEW f, NEW o \in LookType
  PROVE  Steady(u, MaybeBuildChain(u, f, o))
<1> DEFINE new == [NoChain EXCEPT !.steps = o.chain]
           t == [u EXCEPT !.chain = new]
<1>1. o.chain \in Chains
  BY DEF LookType, Chains
<1>2. ChainKind(new)
  BY <1>1, ChainLengths DEF NoChain, ChainKind
<1> HIDE DEF new
<1>3. t.chain = new /\ Changes(u, t, {"chain", "tapped"})
  BY DEF Shape, Fields, Changes
<1>4. Steady(u, u)
  BY DEF Steady
<1> HIDE DEF t
<1>5. Steady(u, t)
  BY <1>2, <1>3, <1>4, OwnChainSteady
<1>6. MaybeBuildChain(u, f, o) \in {t, u}
  BY DEF MaybeBuildChain, new, t
<1> QED BY <1>4, <1>5, <1>6

LEMMA ClearSteady ==
  ASSUME NEW u, NEW v, Steady(u, v), NEW failed \in BOOLEAN
  PROVE  Steady(u, ClearChain(v, failed))
<1> DEFINE t == ClearChain(v, failed)
<1>1. Changes(v, t, {"chain", "tapped"})
  BY DEF Steady, Shape, Fields, ClearChain, Changes
<1>2. t.chain = [v.chain EXCEPT !.steps = <<>>, !.at = 1, !.tries = 0,
                                !.failed = @ \/ failed]
  BY DEF Steady, Shape, Fields, ClearChain
<1>3. ChainKind(v.chain)
  BY DEF Steady, Kinds
<1> HIDE DEF t
<1>4. ChainKind(t.chain)
  BY <1>2, <1>3, ChainLengths DEF ChainKind
<1>5. Steady(u, t)
  BY <1>1, <1>4, OwnChainSteady
<1> QED BY <1>5 DEF t

LEMMA DynamicSteady ==
  ASSUME NEW u, Shape(u), Kinds(u), NEW t \in DynamicOnce(u)
  PROVE  Steady(u, t)
<1> DEFINE w == [u EXCEPT !.chain.rounds = @ + 1]
           F == {"chain", "tapped"}
<1>1. Steady(u, u)
  BY DEF Steady
<1>2. w.chain = [u.chain EXCEPT !.rounds = @ + 1] /\ Changes(u, w, F)
  BY DEF Shape, Fields, Changes
<1> HIDE DEF w
<1>3. /\ ChainKind(u.chain) /\ ChainKind(w.chain)
      /\ w.chain.at = u.chain.at /\ w.chain.steps = u.chain.steps
  BY <1>2, ChainUpdates DEF Kinds, ChainKind
<1>4. Steady(u, w)
  BY <1>1, <1>2, <1>3, OwnChainSteady
<1>5. ASSUME HasActiveChain(u) PROVE Steady(u, StepDone(w))
  <2> DEFINE v == [w EXCEPT !.chain.stalls = 0, !.chain.tries = 0, !.chain.at = @ + 1,
                     !.tapped = @ \/ w.chain.steps[w.chain.at] = "enter"]
  <2>1. Changes(w, v, F)
    BY <1>4 DEF Steady, Shape, Fields, Changes
  <2>2. v.chain = [w.chain EXCEPT !.stalls = 0, !.tries = 0, !.at = @ + 1]
    BY <1>4 DEF Steady, Shape, Fields
  <2> HIDE DEF v
  <2>3. ChainKind(v.chain)
    BY <1>3, <1>5, <2>2, ChainUpdates DEF HasActiveChain
  <2>4. Steady(u, v)
    BY <1>4, <2>1, <2>3, OwnChainSteady
  <2>5. StepDone(w) \in {v, ClearChain(v, FALSE)}
    BY DEF StepDone, v
  <2> QED BY <2>4, <2>5, ClearSteady
<1>6. Steady(u, StepStalled(w))
  <2> DEFINE v == [w EXCEPT !.chain.stalls = @ + 1, !.chain.tries = @ + 1]
  <2>1. Changes(w, v, F)
    BY <1>4 DEF Steady, Shape, Fields, Changes
  <2>2. v.chain = [w.chain EXCEPT !.stalls = @ + 1, !.tries = @ + 1]
    BY <1>4 DEF Steady, Shape, Fields
  <2> HIDE DEF v
  <2>3. ChainKind(v.chain)
    BY <1>3, <2>2, ChainUpdates DEF ChainKind
  <2>4. Steady(u, v)
    BY <1>4, <2>1, <2>3, OwnChainSteady
  <2>5. StepStalled(w) \in {v, ClearChain(v, TRUE)}
    BY DEF StepStalled, v
  <2> QED BY <2>4, <2>5, ClearSteady
<1>7. \/ t \in {ClearChain(u, TRUE), ClearChain(w, TRUE)}
      \/ HasActiveChain(u) /\ t \in {StepDone(w), StepStalled(w)}
  BY DEF DynamicOnce, w
<1> QED BY <1>1, <1>4, <1>5, <1>6, <1>7, ClearSteady

\* The phase engine.
LEMMA OwnAdaptSteady ==
  ASSUME NEW u, Kinds(u), NEW t, Explores(u, t),
         t.adapt.tree \in [Phases -> Status], t.adapt.spec \in Plans
  PROVE  Steady(u, t)
BY DEF Explores, Changes, Fields, Kinds, Steady

LEMMA FlowDoneSteady ==
  ASSUME NEW u, NEW v, Steady(u, v)
  PROVE  Steady(u, MarkAdaptiveFlowDone(v)) /\ SpecOpen(MarkAdaptiveFlowDone(v))
<1> DEFINE t == MarkAdaptiveFlowDone(v)
<1>1. Explores(v, t)
  BY FlowDoneExplores DEF Steady
<1>2. t.adapt.tree = v.adapt.tree /\ t.adapt.spec = NoSpec
  BY DEF Steady, Shape, Fields, MarkAdaptiveFlowDone
<1> HIDE DEF t
<1>3. NoSpec \in Plans
  BY DEF Plans
<1>4. Steady(v, t)
  BY <1>1, <1>2, <1>3, OwnAdaptSteady DEF Steady, Kinds
<1> QED BY <1>1, <1>4 DEF Steady, Explores, t

\* The counters of the engine.
LEMMA CountersSteady ==
  ASSUME NEW u, NEW v, Steady(u, v), SpecOpen(v), NEW n, NEW m
  PROVE  /\ Steady(u, [v EXCEPT !.adapt.rounds = n])
         /\ Steady(u, [v EXCEPT !.adapt.stalls = n])
         /\ Steady(u, [v EXCEPT !.adapt.replans = n, !.adapt.stalls = m])
BY DEF Steady, Kinds, Shape, Fields

LEMMA ReplanSteady ==
  ASSUME NEW u, NEW v, Steady(u, v), SpecOpen(v)
  PROVE  Steady(u, Replan(v)) /\ Steady(u, AfterStall(v))
<1> DEFINE t == [v EXCEPT !.adapt.replans = @ + 1, !.adapt.stalls = 0]
<1>1. Steady(u, t)
  BY CountersSteady
<1> HIDE DEF t
<1>2. Steady(u, MarkAdaptiveFlowDone(t))
  BY <1>1, FlowDoneSteady
<1>3. Replan(v) \in {t, MarkAdaptiveFlowDone(t)}
  BY DEF Replan, t
<1>4. AfterStall(v) \in {v, Replan(v)}
  BY DEF AfterStall
<1> QED BY <1>1, <1>2, <1>3, <1>4

LEMMA DecideSteady ==
  ASSUME NEW u, NEW v, Steady(u, v), SpecOpen(v), NEW spec \in Plans, spec.phase \in Phases
  PROVE  Steady(u, DecidePhase(v, spec))
<1>1. CASE v.adapt.tree[spec.phase] = "done"
  <2> DEFINE t == [v EXCEPT !.adapt.stalls = @ + 1]
  <2>1. Steady(u, t)
    BY CountersSteady
  <2>2. SpecOpen(t)
    BY CountersExplore DEF Explores, Steady
  <2> HIDE DEF t
  <2>3. Steady(u, AfterStall(t))
    BY <2>1, <2>2, ReplanSteady
  <2> QED BY <1>1, <2>3 DEF DecidePhase, t
<1>2. CASE v.adapt.tree[spec.phase] # "done"
  <2> DEFINE t == [v EXCEPT !.adapt.spec = spec, !.adapt.tree[spec.phase] = "active"]
  <2>1. DecidePhase(v, spec) = t
    BY <1>2 DEF DecidePhase
  <2>2. Explores(v, t)
    BY <2>1, DecideExplores DEF Steady
  <2>3. t.adapt.spec = spec /\ t.adapt.tree = [v.adapt.tree EXCEPT ![spec.phase] = "active"]
    BY DEF Steady, Shape, Fields
  <2> HIDE DEF t
  <2>4. t.adapt.tree \in [Phases -> Status]
    BY <2>3 DEF Steady, Kinds, Status
  <2>5. Steady(v, t)
    BY <2>2, <2>3, <2>4, OwnAdaptSteady DEF Steady
  <2> QED BY <2>1, <2>5 DEF Steady
<1> QED BY <1>1, <1>2

LEMMA ActSteady ==
  ASSUME NEW u, NEW v, Steady(u, v), SpecOpen(v), v.adapt.spec # NoSpec, NEW t \in ActVerify(v)
  PROVE  Steady(u, t)
<1>1. v.adapt.spec.phase \in Phases /\ NoSpec \in Plans
  BY DEF SpecOpen, Plans
<1>2. Steady(u, CommitPhase(v))
  <2> DEFINE w == CommitPhase(v)
  <2>1. /\ w.adapt.tree = [v.adapt.tree EXCEPT ![v.adapt.spec.phase] = "done"]
        /\ w.adapt.spec = NoSpec /\ Changes(v, w, {"adapt"})
    BY DEF CommitPhase, Steady, Shape, Fields, Changes
  <2> HIDE DEF w
  <2>2. w.adapt.tree \in [Phases -> Status]
    BY <2>1 DEF Steady, Kinds, Status
  <2>3. Steady(u, w)
    BY <1>1, <2>1, <2>2 DEF Steady, Kinds, Changes, Fields
  <2> QED BY <2>3 DEF w
<1>3. ASSUME NEW changed PROVE Steady(u, Unfinished(v, changed))
  <2> DEFINE w == [v EXCEPT !.adapt.stalls =
                     IF ~changed /\ v.adapt.spec.action # "wait" THEN @ + 1 ELSE 0]
             x == [w EXCEPT !.adapt.tree[v.adapt.spec.phase] = "failed", !.adapt.spec = NoSpec]
  <2>1. Steady(u, w) /\ w.adapt.tree = v.adapt.tree
    <3>1. Steady(u, w)
      BY CountersSteady
    <3>2. w.adapt.tree = v.adapt.tree
      BY DEF Steady, Shape, Fields
    <3> QED BY <3>1, <3>2
  <2> HIDE DEF w
  <2>2. /\ x.adapt.tree = [w.adapt.tree EXCEPT ![v.adapt.spec.phase] = "failed"]
        /\ x.adapt.spec = NoSpec /\ Changes(w, x, {"adapt"})
    BY <2>1 DEF Steady, Shape, Fields, Changes
  <2> HIDE DEF x
  <2>3. x.adapt.tree \in [Phases -> Status]
    BY <2>1, <2>2 DEF Steady, Kinds, Status
  <2>4. Steady(u, x) /\ SpecOpen(x)
    BY <1>1, <2>1, <2>2, <2>3 DEF Steady, Kinds, Changes, Fields, SpecOpen
  <2>5. Steady(u, Replan(x))
    BY <2>4, ReplanSteady
  <2>6. Unfinished(v, changed) \in {w, Replan(x)}
    BY DEF Unfinished, w, x
  <2> QED BY <2>1, <2>5, <2>6
<1>4. t = CommitPhase(v) \/ \E changed \in BOOLEAN : t = Unfinished(v, changed)
  BY ActOutcome
<1> QED BY <1>2, <1>3, <1>4

LEMMA AdaptiveSteady ==
  ASSUME NEW u, Shape(u), SpecOpen(u), Kinds(u), NEW t \in AdaptivePhaseOnce(u)
  PROVE  Steady(u, t)
<1> DEFINE w == [u EXCEPT !.adapt.rounds = @ + 1]
<1>1. Steady(u, u)
  BY DEF Steady
<1>2. Steady(u, w) /\ SpecOpen(w)
  BY <1>1, CountersSteady, CountersExplore DEF Explores
<1>3. t \in {u, MarkAdaptiveFlowDone(w)} \/ (w.adapt.spec # NoSpec /\ t \in ActVerify(w))
        \/ t \in Think(w)
  BY DEF AdaptivePhaseOnce
<1> HIDE DEF w
<1>4. ASSUME t \in Think(w) PROVE Steady(u, t)
  <2>1. \/ t = MarkAdaptiveFlowDone(w)
        \/ \E spec \in Specs : t = DecidePhase(w, spec)
        \/ \E spec \in Specs : t = DecidePhase(w, [spec EXCEPT !.action = "wait"])
    BY <1>4 DEF Think
  <2>2. \A spec \in Specs : /\ spec \in Plans /\ spec.phase \in Phases
                            /\ [spec EXCEPT !.action = "wait"] \in Plans
                            /\ [spec EXCEPT !.action = "wait"].phase \in Phases
    BY PlannersAssumption DEF Plans, Phases
  <2> QED BY <1>2, <2>1, <2>2, FlowDoneSteady, DecideSteady
<1>5. Steady(u, MarkAdaptiveFlowDone(w))
  BY <1>2, FlowDoneSteady
<1>6. ASSUME w.adapt.spec # NoSpec, t \in ActVerify(w) PROVE Steady(u, t)
  BY <1>2, <1>6, ActSteady
<1> QED BY <1>1, <1>3, <1>4, <1>5, <1>6

--------------------------------------------------------------------------------
(* The facts that the nodes act upon.                                         *)

FactsKind(f) ==
  /\ {"agree", "subXY", "enter"} \subseteq DOMAIN f
  /\ f.agree \in BOOLEAN /\ f.subXY \in BOOLEAN /\ f.enter \in BOOLEAN

LEMMA LookBooleans ==
  ASSUME NEW o \in LookType
  PROVE  o.spot \in BOOLEAN /\ o.enter \in BOOLEAN /\ o.consent \in BOOLEAN
BY DEF LookType

LEMMA FactsTyped ==
  ASSUME NEW o \in LookType, NEW settled, NEW known, NEW f \in FactsOf(o, settled, known, Answers)
  PROVE  FactsKind(f)
<1>1. FactsKind(ClassifyScreenFacts(o))
  BY LookBooleans DEF ClassifyScreenFacts, NoFacts, FactsKind
<1>2. ASSUME NEW e, FactsKind(e), NEW p \in PrivacyGate(e, o, settled) PROVE FactsKind(p)
  BY <1>2, LookBooleans DEF PrivacyGate, PrivacyJudged, FactsKind
<1>3. ASSUME NEW e, FactsKind(e), NEW b \in SubAccountGate(e, o) PROVE FactsKind(b)
  <2>1. FactsKind(SubAccountProbe(e, o))
    BY <1>3, LookBooleans DEF SubAccountProbe, FactsKind
  <2> DEFINE p == SubAccountProbe(e, o)
  <2> HIDE DEF p
  <2>2. \/ b = p
        \/ \E tap \in BOOLEAN : b = [p EXCEPT !.sub = TRUE, !.stage = "sub_account_select",
                                              !.subXY = tap]
    BY <1>3 DEF SubAccountGate, p
  <2> QED BY <2>1, <2>2 DEF FactsKind, p
<1>4. ASSUME NEW e, FactsKind(e), NEW d \in DownloadGate(e, o) PROVE FactsKind(d)
  BY <1>4 DEF DownloadGate, FactsKind
<1>5. ASSUME NEW e, FactsKind(e), NEW v \in Answers PROVE FactsKind(MergeInterpretation(e, v))
  <2>1. v.tap \in BOOLEAN
    BY GraphAssumption DEF Interpretations
  <2> DEFINE g == [e EXCEPT !.interp = v.stage]
  <2>2. FactsKind(g)
    BY <1>5 DEF FactsKind
  <2> HIDE DEF g
  <2>3. MergeInterpretation(e, v) \in
          {g, [g EXCEPT !.role = TRUE, !.sub = FALSE, !.stage = "clear"],
           [g EXCEPT !.sub = TRUE, !.stage = "sub_account_select", !.subXY = @ \/ v.tap],
           [g EXCEPT !.login = TRUE, !.stage = "login_form"],
           [g EXCEPT !.enter = TRUE],
           [g EXCEPT !.notice = @ \/ v.blocking, !.noticeXY = @ \/ v.tap],
           [g EXCEPT !.role = TRUE], [g EXCEPT !.download = TRUE]}
    BY DEF MergeInterpretation, g
  <2> QED BY <2>1, <2>2, <2>3 DEF FactsKind
<1>6. PICK p \in PrivacyGate(ClassifyScreenFacts(o), o, settled) :
      \E b \in SubAccountGate(p, o) : \E d \in DownloadGate(b, o) :
        f = d \/ \E v \in Answers : f = MergeInterpretation(d, v)
  BY DEF FactsOf
<1> QED BY <1>1, <1>2, <1>3, <1>4, <1>5, <1>6

LEMMA GivenTyped ==
  ASSUME NEW n, NEW t, NEW f, FactsKind(f), NEW o, NEW kind
  PROVE  Given(n, t, f, o, kind) \in BOOLEAN
<1> DEFINE acts == SceneAction(t, f, o, kind) \in {"tap", "back"}
<1>1. acts \in BOOLEAN
  OBVIOUS
<1>2. Given(n, t, f, o, kind) =
        CASE n = "handle_initial_privacy_dialog" -> f.agree
          [] n = "select_sub_account" -> f.subXY
          [] n = "tap_enter_game" -> f.enter
          [] n = "handle_download" -> ~o.download
          [] n = "scene_action" -> acts
          [] OTHER -> FALSE
  BY DEF Given
<1> HIDE DEF acts
<1>3. CASE n = "handle_initial_privacy_dialog"
  BY <1>2, <1>3 DEF FactsKind
<1>4. CASE n = "select_sub_account"
  BY <1>2, <1>4 DEF FactsKind
<1>5. CASE n = "tap_enter_game"
  BY <1>2, <1>5 DEF FactsKind
<1>6. CASE n = "handle_download"
  BY <1>2, <1>6
<1>7. CASE n = "scene_action"
  BY <1>1, <1>2, <1>7
<1>8. CASE n \notin {"handle_initial_privacy_dialog", "select_sub_account", "tap_enter_game",
                    "handle_download", "scene_action"}
  BY <1>2, <1>8
<1> QED BY <1>3, <1>4, <1>5, <1>6, <1>7, <1>8

LEMMA NoTextIsLook == NoText \in LookType
<1>1. <<>> \in Seq({"select", "enter", "create"})
  OBVIOUS
<1> QED BY <1>1 DEF NoText, LookType

--------------------------------------------------------------------------------
(* Types, and the rounds: the limit is found by the round that would exceed it, *)
(* before it looks at the screen.                                               *)

RunType == [finished : BOOLEAN, success : BOOLEAN, note : Notes]

RoundsInv ==
  /\ s.iter \in 0..MaxIterations
  /\ pc \in Acting \cup {"start", "observe"} => s.iter < MaxIterations
  /\ pc = "classify" /\ ~s.finished => s.iter < MaxIterations

OtherTypes ==
  /\ game \in Games /\ pc \in Places
  /\ look \in Looks \cup {NoText} /\ given \in BOOLEAN
  /\ run \in RunType /\ stop \in BOOLEAN

TypeInv == Kinds(s) /\ RoundsInv /\ OtherTypes

LEMMA GameTyped ==
  ASSUME game \in Games
  PROVE  MaxIterations \in Nat \ {0} /\ Looks \cup {NoText} \subseteq LookType
BY GraphAssumption, NoTextIsLook DEF MaxIterations, Looks

LEMMA KindsOfEmpty ==
  ASSUME NEW privacy, NEW server
  PROVE  LET e == EmptyLaunchGraphState(Phases, privacy, server) IN Kinds(e) /\ e.iter = 0
<1>1. ChainKind(NoChain)
  BY ChainLengths DEF NoChain, ChainKind
<1>2. NoSpec \in Plans /\ 0 \in 0..MaxWeak
  BY DEF Plans, MaxWeak
<1>3. [p \in Phases |-> "planned"] \in [Phases -> Status]
  BY DEF Status
<1> DEFINE e == EmptyLaunchGraphState(Phases, privacy, server)
<1>4. /\ e.adapt.tree = [p \in Phases |-> "planned"] /\ e.adapt.spec = NoSpec
      /\ e.chain = NoChain /\ e.scene.weak = 0 /\ e.terminal = "" /\ e.confirmed = FALSE
      /\ e.iter = 0
  BY DEF EmptyLaunchGraphState, NoScene
<1> HIDE DEF e
<1>5. Kinds(e) /\ e.iter = 0
  BY <1>1, <1>2, <1>3, <1>4 DEF Kinds, Ends
<1> QED BY <1>5 DEF e

LEMMA DroppedKinds == ASSUME Kinds(s) PROVE Kinds(Dropped) /\ Dropped.iter = 0
<1> DEFINE e == EmptyLaunchGraphState(Phases, FALSE, FALSE)
<1>1. Kinds(e) /\ e.iter = 0 /\ Shape(e)
  BY KindsOfEmpty, ShapeOfEmpty
<1> HIDE DEF e
<1>2. Dropped = [e EXCEPT !.entry = s.entry, !.confirmed = s.confirmed,
                          !.terminal = s.terminal, !.watch = s.watch]
  BY DEF Dropped, e
<1> QED BY <1>1, <1>2 DEF Kinds, Shape, Fields

\* One field that has no type to keep is set.
LEMMA SteadySet ==
  ASSUME NEW u, Shape(u), Kinds(u)
  PROVE  /\ Steady(u, u)
         /\ Steady(u, [u EXCEPT !.privacy = TRUE]) /\ Steady(u, [u EXCEPT !.sub = TRUE])
         /\ Steady(u, [u EXCEPT !.server = TRUE]) /\ Steady(u, [u EXCEPT !.tapped = TRUE])
         /\ Steady(u, [u EXCEPT !.entry = TRUE]) /\ Steady(u, SetLoginDone(u))
         /\ Steady(u, SetInGameConfirmed(u))
         /\ \A why \in Ends : Steady(u, Terminate(u, why))
<1>1. Steady(u, SetInGameConfirmed(u)) /\ \A why \in Ends : Steady(u, Terminate(u, why))
  BY DEF Steady, Kinds, Shape, Fields, SetInGameConfirmed, Terminate, Ends
<1>2. /\ Changes(u, u, {"privacy"})
      /\ Changes(u, [u EXCEPT !.privacy = TRUE], {"privacy"})
      /\ Changes(u, [u EXCEPT !.sub = TRUE], {"sub"})
      /\ Changes(u, [u EXCEPT !.server = TRUE], {"server"})
      /\ Changes(u, [u EXCEPT !.tapped = TRUE], {"tapped"})
      /\ Changes(u, [u EXCEPT !.entry = TRUE], {"entry"})
      /\ Changes(u, SetLoginDone(u), {"login"})
  BY DEF Changes, Shape, Fields, SetLoginDone
<1>3. \A F : F \subseteq {"privacy", "sub", "server", "tapped", "entry", "login"} =>
        \A t : Changes(u, t, F) => Steady(u, t)
  BY SteadyChange DEF Changes, Fields
<1> QED BY <1>1, <1>2, <1>3

LEMMA SteadyTrans ==
  ASSUME NEW u, NEW v, NEW t, Steady(u, v), Steady(v, t) PROVE Steady(u, t)
BY DEF Steady

LEMMA FreeSteady ==
  ASSUME NEW u, Shape(u), Kinds(u), NEW hud, NEW t \in FreeOnce(u, hud) PROVE Steady(u, t)
<1>1. Changes(u, t, {"free", "tapped", "entry"})
  BY FreeKeeps
<1> QED BY <1>1, SteadyChange DEF Changes, Fields

LEMMA RunRecord ==
  ASSUME NEW f \in BOOLEAN, NEW g \in BOOLEAN, NEW why \in Notes
  PROVE  [finished |-> f, success |-> g, note |-> why] \in RunType
BY DEF RunType

LEMMA StabilitySteady ==
  ASSUME Shape(s), Kinds(s), StabilityObserve
  PROVE  Steady(s, s') /\ Left /\ look' = NoText /\ (UNCHANGED run \/ run' \in RunType)
<1> DEFINE n == "stability_observe"
<1>1. n \in Nodes /\ pc = n
  BY DEF Nodes, StabilityObserve
<1>2. PICK due \in Due :
        LET t == [s EXCEPT !.watch.rounds = StabilityRounds, !.watch.started = TRUE,
                           !.watch.due = due]
            c == Checked(t)
        IN IF StabilityRounds > MaxStabilityRounds
           THEN StabilityFails([s EXCEPT !.watch.rounds = StabilityRounds], "rounds")
           ELSE \/ ~due /\ s.watch.checked /\ Quiet(MarkDone(t, pc))
                \/ StabilityFails(c, "anomaly")
                \/ ~due /\ Quiet(MarkDone(c, pc))
                \/ /\ due /\ Leave(MarkDone(SetInGameConfirmed(c), pc))
                   /\ run' = [finished |-> TRUE, success |-> TRUE, note |-> "stable"]
                   /\ UNCHANGED logins
  BY DEF StabilityObserve
<1> DEFINE r == [s EXCEPT !.watch.rounds = StabilityRounds]
           t == [s EXCEPT !.watch.rounds = StabilityRounds, !.watch.started = TRUE,
                          !.watch.due = due]
           c == Checked(t)
<1>3. Changes(s, r, {"watch"}) /\ Changes(s, t, {"watch"}) /\ Changes(s, c, {"watch"})
  BY DEF Checked, Shape, Fields, Changes
<1> HIDE DEF r, t, c
<1>4. Steady(s, r) /\ Steady(s, t) /\ Steady(s, c)
  BY <1>3, SteadyChange DEF Changes, Fields
<1>5. /\ Steady(r, Terminate(r, "rounds")) /\ Steady(c, Terminate(c, "anomaly"))
      /\ Steady(c, SetInGameConfirmed(c))
  <2>1. Shape(r) /\ Kinds(r) /\ Shape(c) /\ Kinds(c)
    BY <1>4 DEF Steady
  <2> QED BY <2>1, SteadySet DEF Ends
<1>6. /\ Left /\ look' = NoText
      /\ \/ s' \in {MarkDone(t, n), MarkDone(c, n)} /\ UNCHANGED run
         \/ /\ s' = MarkFailed(Terminate(r, "rounds"), n)
            /\ run' = [finished |-> TRUE, success |-> FALSE, note |-> "rounds"]
         \/ /\ s' = MarkFailed(Terminate(c, "anomaly"), n)
            /\ run' = [finished |-> TRUE, success |-> FALSE, note |-> "anomaly"]
         \/ /\ s' = MarkDone(SetInGameConfirmed(c), n)
            /\ run' = [finished |-> TRUE, success |-> TRUE, note |-> "stable"]
  BY <1>1, <1>2 DEF Quiet, Leave, Left, StabilityFails, r, t, c
<1>7. UNCHANGED run \/ run' \in RunType
  BY <1>6, RunRecord DEF Notes, Ends
<1>8. Steady(s, s')
  BY <1>1, <1>4, <1>5, <1>6, SteadyCount, SteadyTrans
<1> QED BY <1>6, <1>7, <1>8

LEMMA NodeSteady ==
  ASSUME Shape(s), SpecOpen(s), Kinds(s), Node
  PROVE  Steady(s, s') /\ Left /\ look' = NoText /\ (UNCHANGED run \/ run' \in RunType)
<1> USE DEF Quiet, Leave, Left
<1> DEFINE Counts(t) == \A n \in Nodes : Steady(s, MarkDone(t, n)) /\ Steady(s, MarkFailed(t, n))
           w == SetLoginDone(s)
<1>1. \A t : Steady(s, t) => Counts(t)
  BY SteadyCount
<1>2. /\ Counts(s) /\ Steady(s, s)
      /\ Counts([s EXCEPT !.privacy = TRUE]) /\ Counts([s EXCEPT !.sub = TRUE])
      /\ Counts([s EXCEPT !.server = TRUE]) /\ Counts([s EXCEPT !.tapped = TRUE])
      /\ Counts([s EXCEPT !.entry = TRUE]) /\ Counts(w) /\ Counts(Terminate(s, "e2006"))
      /\ Counts(ClearFailed(w, "atomic_login"))
  <2>1. Steady(s, w)
    BY SteadySet
  <2>2. Steady(s, ClearFailed(w, "atomic_login"))
    BY <2>1, SteadyCount DEF Nodes
  <2>3. /\ Steady(s, s)
        /\ Steady(s, [s EXCEPT !.privacy = TRUE]) /\ Steady(s, [s EXCEPT !.sub = TRUE])
        /\ Steady(s, [s EXCEPT !.server = TRUE]) /\ Steady(s, [s EXCEPT !.tapped = TRUE])
        /\ Steady(s, [s EXCEPT !.entry = TRUE]) /\ Steady(s, Terminate(s, "e2006"))
    BY SteadySet DEF Ends
  <2> HIDE DEF Counts, w
  <2> QED BY <1>1, <2>1, <2>2, <2>3
<1> HIDE DEF w
<1>3. CASE HandleInitialPrivacyDialog
  BY <1>2, <1>3 DEF HandleInitialPrivacyDialog, Nodes
<1>4. CASE EnsurePrivacyCheckbox
  BY <1>2, <1>4 DEF EnsurePrivacyCheckbox, Nodes
<1>5. CASE HandleDownload
  BY <1>2, <1>5 DEF HandleDownload, Nodes
<1>6. CASE DismissBlockingOverlay
  BY <1>2, <1>6 DEF DismissBlockingOverlay, Nodes
<1>7. CASE AtomicLogin
  BY <1>2, <1>7 DEF AtomicLogin, Nodes, w
<1>8. CASE SelectSubAccount
  BY <1>2, <1>8 DEF SelectSubAccount, Nodes
<1>9. CASE CheckServerSelector
  BY <1>2, <1>9, RunRecord DEF CheckServerSelector, Nodes, Notes, Ends
<1>10. CASE TapEnterGame
  BY <1>2, <1>10 DEF TapEnterGame, Nodes
<1>11. CASE CheckInGame
  BY <1>2, <1>11 DEF CheckInGame, Nodes
<1>12. CASE StabilityObserve
  BY <1>12, StabilitySteady
<1>13. CASE AdaptivePhase
  BY <1>13, AdaptiveSteady DEF AdaptivePhase
<1>14. CASE DynamicAction
  BY <1>14, DynamicSteady DEF DynamicAction
<1>15. CASE SceneActionNode
  <2>1. \E f, c, kind : s' = ApplyScene(s, f, c, kind)
    BY <1>15 DEF SceneActionNode
  <2> QED BY <1>15, <2>1, SceneSteady DEF SceneActionNode
<1>16. CASE Free
  <2>1. \E hud : s' \in FreeOnce(s, hud)
    BY <1>16 DEF Free
  <2> QED BY <1>16, <2>1, FreeSteady DEF Free
<1>17. CASE RecoverFromFailure
  BY <1>2, <1>17 DEF RecoverFromFailure, Nodes, w
<1> QED BY <1>3, <1>4, <1>5, <1>6, <1>7, <1>8, <1>9, <1>10, <1>11, <1>12, <1>13, <1>14,
           <1>15, <1>16, <1>17 DEF Node

\* Places where a round is open: the limit was looked at and not reached.
LEMMA PlacesOfRounds ==
  /\ Acting \cup {"start", "observe", "classify", "end", "returned", "raised"} \subseteq Places
  /\ {"classify", "end", "returned", "raised"} \cap (Acting \cup {"start", "observe"}) = {}
BY DEF Acting, Places, Nodes

LEMMA BlackoutLook ==
  ASSUME NEW u, NEW o \in Looks, NEW b \in Blackout(u, o) PROVE b[2] \in Looks
<1> DEFINE Pressed(v, q) == <<[v EXCEPT !.black = IF q.black THEN @ ELSE 0], q>>
           w == [u EXCEPT !.black = IF @ < DismissStreak THEN @ + 1 ELSE @]
<1>1. \/ \E v : b = <<v, o>>
      \/ \E v : \E q \in Looks : b = Pressed(v, q)
  <2>1. CASE ~o.black \/ (~IsLoginFlowInProgress(u) /\ ~ShouldHandleBlackout(u))
    BY <2>1 DEF Blackout
  <2>2. CASE o.black /\ IsLoginFlowInProgress(u)
    BY <2>2 DEF Blackout
  <2>3. CASE o.black /\ ~IsLoginFlowInProgress(u) /\ ShouldHandleBlackout(u)
    <3>1. b = <<w, o>> \/ \E q \in Looks : b = Pressed(w, q)
      BY <2>3 DEF Blackout
    <3> HIDE DEF Pressed, w
    <3> QED BY <3>1
  <2> QED BY <2>1, <2>2, <2>3
<1> QED BY <1>1

LEMMA ObserveTyped == ASSUME Inv, TypeInv, ObserveScreen PROVE TypeInv'
<1> DEFINE w == [s EXCEPT !.iter = @ + 1]
           v == Terminate(s, "stop")
           l == [Terminate(s, "limit") EXCEPT !.iter = @ + 1]
<1>1. Shape(s) /\ Kinds(s) /\ pc = "observe" /\ s.iter \in Nat /\ s.iter < MaxIterations
  BY GameTyped DEF Inv, Frame, TypeInv, OtherTypes, RoundsInv, ObserveScreen
<1>2. MaxIterations \in Nat
  BY GameTyped DEF TypeInv, OtherTypes
<1>3. /\ Shape(w) /\ Kinds(w) /\ w.iter = s.iter + 1
      /\ Shape(v) /\ Kinds(v) /\ v.iter = s.iter /\ v.finished
      /\ Shape(l) /\ Kinds(l) /\ l.iter = s.iter + 1 /\ l.finished
  BY <1>1 DEF Shape, Fields, Kinds, Terminate, Ends
<1> HIDE DEF w, v, l
<1>4. /\ pc' = "classify" /\ UNCHANGED <<game, given, run, stop>>
      /\ \/ s' \in {v, l} /\ UNCHANGED look
         \/ /\ ~(s.iter + 1 >= MaxIterations)
            /\ \E o \in Looks : \E b \in Blackout(w, o) : s' = b[1] /\ look' = b[2]
  BY DEF ObserveScreen, IterationsUsedUp, w, v, l
<1>5. CASE s' \in {v, l} /\ UNCHANGED look
  <2>1. Kinds(s') /\ s'.finished /\ s'.iter \in 0..MaxIterations
    BY <1>1, <1>2, <1>3, <1>5
  <2> QED BY <1>4, <1>5, <2>1, PlacesOfRounds
          DEF TypeInv, RoundsInv, OtherTypes, MaxIterations, Looks
<1>6. CASE /\ ~(s.iter + 1 >= MaxIterations)
           /\ \E o \in Looks : \E b \in Blackout(w, o) : s' = b[1] /\ look' = b[2]
  <2>0. PICK o \in Looks : \E b \in Blackout(w, o) : s' = b[1] /\ look' = b[2]
    BY <1>6
  <2>1. PICK b \in Blackout(w, o) : s' = b[1] /\ look' = b[2]
    BY <2>0
  <2>2. Changes(w, s', {"black"}) /\ look' \in Looks
    BY <1>3, <2>1, BlackoutKeeps, BlackoutLook
  <2>3. Kinds(s') /\ s'.iter = s.iter + 1
    BY <1>3, <2>2 DEF Changes, Fields, Kinds
  <2>4. s'.iter \in 0..MaxIterations /\ s'.iter < MaxIterations
    BY <1>1, <1>2, <1>6, <2>3
  <2> QED BY <1>4, <2>2, <2>3, <2>4, PlacesOfRounds
          DEF TypeInv, RoundsInv, OtherTypes, MaxIterations, Looks
<1> QED BY <1>4, <1>5, <1>6

LEMMA ClassifySteady ==
  ASSUME Shape(s), Kinds(s), look \in LookType, ClassifyScreen
  PROVE  /\ Steady(s, s') /\ (s.finished => pc' = "end")
         /\ given' = given \/ given' \in BOOLEAN
<1>1. CASE s.finished
  <2>1. pc' = "end" /\ UNCHANGED given /\ \E hud \in BOOLEAN : s' = [s EXCEPT !.entry = @ \/ hud]
    BY <1>1 DEF ClassifyScreen
  <2>2. Changes(s, s', {"entry"})
    BY <2>1 DEF Shape, Fields, Changes
  <2> QED BY <2>1, <2>2, SteadyChange DEF Changes, Fields
<1>2. CASE ~s.finished
  <2> DEFINE settled == Completed(s, "handle_initial_privacy_dialog") /\ s.privacy
  <2>1. PICK known \in BOOLEAN : \E facts \in FactsOf(look, settled, known, Answers) :
          \E g \in Judged(facts) : \E hud \in BOOLEAN : Routed(facts, g, hud)
    BY <1>2, ClassifyPlans
  <2>2. PICK facts \in FactsOf(look, settled, known, Answers) :
          \E g \in Judged(facts) : \E hud \in BOOLEAN : Routed(facts, g, hud)
    BY <2>1
  <2>3. PICK g \in Judged(facts) : \E hud \in BOOLEAN : Routed(facts, g, hud)
    BY <2>2
  <2>4. PICK hud \in BOOLEAN : Routed(facts, g, hud)
    BY <2>3
  <2> DEFINE read == ReadFacts(facts)
             built == MaybeBuildChain(read, facts, look)
             rule == ClassifyScene(facts, look)
             kind == Transition(s.scene.id, g.c, look)
             scened == ApplyScene(g.s, facts, g.c, kind)
             checked == [scened EXCEPT !.entry = @ \/ hud]
             route == PlanRoute(checked, facts, look.role)
  <2>5. g \in SceneGate(built, facts, look, rule, Judgments)
    BY <2>3 DEF Judged
  <2>6. /\ s' = [checked EXCEPT !.submitting = route = "atomic_login"]
        /\ given' = Given(route, checked, facts, look, kind) /\ pc' = route
    BY <2>4 DEF Routed
  <2>7. Changes(s, read, {"pic", "stage"})
    BY DEF ReadFacts, Shape, Fields, Changes
  <2>8. Steady(s, read)
    BY <2>7, SteadyChange DEF Changes, Fields
  <2> HIDE DEF read
  <2>9. Steady(read, built)
    BY <2>8, ChainSteady DEF Steady
  <2> HIDE DEF built, rule
  <2>10. Steady(built, g.s)
    BY <2>5, <2>9, GateSteady DEF Steady
  <2>11. Steady(g.s, scened)
    BY <2>10, SceneSteady DEF Steady
  <2> HIDE DEF scened
  <2>12. Changes(scened, checked, {"entry"})
    BY <2>11 DEF Steady, Shape, Fields, Changes
  <2>13. Steady(scened, checked)
    BY <2>11, <2>12, SteadyChange DEF Steady, Changes, Fields
  <2> HIDE DEF checked, route, kind
  <2>14. Changes(checked, s', {"submitting"})
    BY <2>6, <2>13 DEF Steady, Shape, Fields, Changes
  <2>15. Steady(checked, s')
    BY <2>13, <2>14, SteadyChange DEF Steady, Changes, Fields
  <2>16. Steady(s, s')
    BY <2>8, <2>9, <2>10, <2>11, <2>13, <2>15 DEF Steady
  <2>17. given' \in BOOLEAN
    BY <2>6, FactsTyped, GivenTyped
  <2> QED BY <1>2, <2>16, <2>17
<1> QED BY <1>1, <1>2

LEMMA ClassifyTyped == ASSUME Inv, TypeInv, ClassifyScreen PROVE TypeInv'
<1>1. /\ Kinds(s') /\ s'.iter = s.iter /\ given' \in BOOLEAN /\ (s.finished => pc' = "end")
  <2>1. look \in LookType
    BY GameTyped DEF TypeInv, OtherTypes
  <2> QED BY <2>1, ClassifySteady DEF Inv, Frame, TypeInv, OtherTypes, Steady
<1>2. pc' \in Acting \cup {"end"} /\ UNCHANGED <<game, run, stop>> /\ look' = NoText
  BY ClassifyStep DEF Inv, Frame, ClassifyScreen
<1>3. pc = "classify"
  BY DEF ClassifyScreen
<1> QED BY <1>1, <1>2, <1>3, PlacesOfRounds
    DEF TypeInv, RoundsInv, OtherTypes, MaxIterations, Looks

LEMMA NodeTyped == ASSUME Inv, TypeInv, Node PROVE TypeInv'
<1>1. Kinds(s') /\ s'.iter = s.iter /\ Left /\ look' = NoText /\ run' \in RunType
  BY NodeSteady DEF Inv, Frame, TypeInv, OtherTypes, Steady
<1>2. pc \in Acting
  BY DEF Node, Acting, Nodes, HandleInitialPrivacyDialog, EnsurePrivacyCheckbox, HandleDownload,
     DismissBlockingOverlay, AtomicLogin, SelectSubAccount, CheckServerSelector, TapEnterGame,
     CheckInGame, StabilityObserve, AdaptivePhase, DynamicAction, SceneActionNode, Free,
     RecoverFromFailure
<1> QED BY <1>1, <1>2, PlacesOfRounds
    DEF TypeInv, RoundsInv, OtherTypes, MaxIterations, Looks, Left

LEMMA EndTyped == ASSUME TypeInv, SyncRunState \/ Raise PROVE TypeInv'
<1>1. /\ s' = Dropped /\ pc' \in {"returned", "raised"} /\ UNCHANGED <<game, stop>>
      /\ look' \in {look, NoText} /\ given' \in {given, FALSE}
  BY DEF SyncRunState, Raise
<1>2. Kinds(s') /\ s'.iter = 0
  BY <1>1, DroppedKinds DEF TypeInv
<1>3. run' \in RunType
  <2>1. CASE Raise
    BY <2>1 DEF Raise, TypeInv, OtherTypes
  <2>2. CASE SyncRunState
    <3> DEFINE why == IF s.terminal # "" THEN s.terminal
                      ELSE IF s.confirmed THEN run.note ELSE "recover"
    <3>1. run' = [finished |-> TRUE, success |-> s.confirmed, note |-> why]
      BY <2>2 DEF SyncRunState, Success
    <3>2. why \in Notes /\ s.confirmed \in BOOLEAN
      BY DEF TypeInv, Kinds, OtherTypes, RunType, Notes
    <3> HIDE DEF why
    <3> QED BY <3>1, <3>2, RunRecord
  <2> QED BY <2>1, <2>2
<1>4. MaxIterations \in Nat
  BY GameTyped DEF TypeInv, OtherTypes
<1>5. RoundsInv'
  BY <1>1, <1>2, <1>4, PlacesOfRounds DEF RoundsInv, MaxIterations
<1>6. OtherTypes'
  BY <1>1, <1>3, PlacesOfRounds DEF TypeInv, OtherTypes, Looks
<1> QED BY <1>2, <1>5, <1>6 DEF TypeInv

LEMMA AroundTyped == ASSUME TypeInv, Bootstrap \/ MonitorStop \/ UNCHANGED vars PROVE TypeInv'
<1>1. CASE Bootstrap
  <2>1. /\ pc = "start" /\ pc' \in {"observe", "returned"} /\ UNCHANGED <<game, s, look, given, stop>>
    BY <1>1 DEF Bootstrap
  <2>2. run' \in RunType
    <3> DEFINE why == IF stop THEN "stop" ELSE "package"
    <3>1. UNCHANGED run \/ run' = [finished |-> TRUE, success |-> FALSE, note |-> why]
      BY <1>1 DEF Bootstrap
    <3>2. why \in Notes
      BY DEF Notes, Ends
    <3> HIDE DEF why
    <3> QED BY <3>1, <3>2, RunRecord DEF TypeInv, OtherTypes
  <2> QED BY <2>1, <2>2, PlacesOfRounds
      DEF TypeInv, RoundsInv, OtherTypes, MaxIterations, Looks, Kinds
<1>2. CASE MonitorStop \/ UNCHANGED vars
  <2>1. UNCHANGED <<game, pc, s, look, given, run>> /\ stop' \in {stop, TRUE}
    BY <1>2 DEF MonitorStop, vars
  <2> QED BY <2>1 DEF TypeInv, RoundsInv, OtherTypes, MaxIterations, Looks, Kinds
<1> QED BY <1>1, <1>2

LEMMA InitTyped == Init => TypeInv
<1> SUFFICES ASSUME Init PROVE TypeInv
  OBVIOUS
<1>1. Kinds(s) /\ s.iter = 0
  BY KindsOfEmpty DEF Init
<1>2. MaxIterations \in Nat \ {0}
  BY GameTyped DEF Init
<1>3. run \in RunType
  BY RunRecord DEF Init, Notes, Ends
<1>4. RoundsInv
  <2>1. pc = "start"
    BY DEF Init
  <2> QED BY <1>1, <1>2, <2>1 DEF RoundsInv
<1>5. OtherTypes
  BY <1>3, PlacesOfRounds DEF Init, OtherTypes
<1> QED BY <1>1, <1>4, <1>5 DEF TypeInv

LEMMA TypeInvAlways == Spec => []TypeInv
<1>1. Inv /\ TypeInv /\ [Next]_vars => TypeInv'
  BY ObserveTyped, ClassifyTyped, NodeTyped, EndTyped, AroundTyped DEF Next, Graph
<1> QED BY <1>1, InitTyped, InvAlways, PTL DEF Spec

--------------------------------------------------------------------------------
(* The theorems.                                                              *)

\* Every variable keeps its type: the graph makes no more rounds than max_graph_iterations,
\* the chain is never read past its end, the streak of weak scenes stays within its limit,
\* and the caller reads one of the named reasons.
THEOREM TypeCorrect == Spec => []TypeOK
<1>1. Inv /\ TypeInv => TypeOK
  BY DEF Inv, Frame, LoginInv, TypeInv, RoundsInv, OtherTypes, Kinds, ChainKind, Shape, TypeOK,
     Plans, Status, RunType
<1> QED BY <1>1, InvAlways, TypeInvAlways, PTL

\* A success is reported only with the evidence of both checks: the game was entered, and
\* the watch made a check and came to its deadline.
THEOREM EarnedSuccess == Spec => []SuccessIsEarned
<1>1. Inv => SuccessIsEarned
  BY DEF Inv, VerdictInv, SuccessIsEarned
<1> QED BY <1>1, InvAlways, PTL

\* When the graph has returned, its caller reads a finished run, a success exactly if the
\* game was confirmed, and a reason; a fatal end is never a success.
THEOREM CompleteVerdict == Spec => []VerdictIsComplete
<1>1. Inv => VerdictIsComplete
  BY DEF Inv, VerdictInv, VerdictIsComplete
<1> QED BY <1>1, InvAlways, PTL

\* The login form is submitted no more often than the attempts of the login node and of
\* the recovery allow together.
THEOREM BoundedLogins == Spec => []LoginsBounded
<1>1. Inv => LoginsBounded
  BY DEF Inv, LoginInv
<1> QED BY <1>1, InvAlways, PTL

\* The scene node does nothing but wait on the screens before the login.
THEOREM PassiveScenes == Spec => []PassiveBeforeLogin
<1>1. Inv => PassiveBeforeLogin
  BY DEF Inv, Planned
<1> QED BY <1>1, InvAlways, PTL

\* What every step inside the graph keeps.
LEMMA StepForward ==
  ASSUME Inv, [Next]_vars, pc' \notin {"returned", "raised"}
  PROVE  DoneStays(s, s') /\ (s.entry => s'.entry)
<1> USE DEF Inv, Frame
<1>1. CASE Wayfinding
  BY <1>1, WayfindingHarmless DEF Harmless, Forward
<1>2. CASE AtomicLogin
  BY <1>2, AtomicLoginStep DEF Forward
<1>3. CASE RecoverFromFailure
  BY <1>3, RecoverStep DEF Forward
<1>4. CASE CheckServerSelector
  BY <1>4, ServerStep DEF Forward
<1>5. CASE StabilityObserve
  BY <1>5, StabilityStep DEF Forward
<1>6. CASE ObserveScreen
  BY <1>6, ObserveStep DEF Forward
<1>7. CASE ClassifyScreen
  BY <1>7, ClassifyStep DEF Changes, Fields, DoneStays
<1>8. CASE Bootstrap \/ MonitorStop \/ UNCHANGED vars
  BY <1>8 DEF Bootstrap, MonitorStop, vars, DoneStays
<1> QED BY <1>1, <1>2, <1>3, <1>4, <1>5, <1>6, <1>7, <1>8
        DEF Next, Graph, Node, Wayfinding, SyncRunState, Raise

\* As long as the graph runs, a phase that is completed stays completed.
THEOREM DonePhases == Spec => PhasesStayDone
<1>1. Inv /\ [Next]_vars =>
        [pc' \notin {"returned", "raised"} =>
           \A p \in Phases : s.adapt.tree[p] = "done" => s'.adapt.tree[p] = "done"]_vars
  BY StepForward DEF DoneStays
<1> QED BY <1>1, InvAlways, PTL DEF Spec, PhasesStayDone

\* The step of the promise that a step inside the graph is.
LEMMA StepInside ==
  ASSUME s.confirmed => s.entry, s'.confirmed => s.entry, s.entry => s'.entry,
         s.confirmed => s'.confirmed,
         pc \notin {"returned", "raised"}, pc' \notin {"returned", "raised"}
  PROVE  [Verdict!Next]_(Verdict!vars)
<1> USE DEF Verdict!Next, Verdict!vars, Verdict!Enter, Verdict!Settle
<1>1. CASE s.confirmed
  BY <1>1
<1>2. CASE ~s.confirmed /\ s'.confirmed
  BY <1>2
<1>3. CASE ~s.confirmed /\ ~s'.confirmed /\ ~s.entry /\ s'.entry
  BY <1>3
<1>4. CASE ~s.confirmed /\ ~s'.confirmed /\ (s.entry <=> s'.entry)
  BY <1>4
<1> QED BY <1>1, <1>2, <1>3, <1>4

LEMMA StepOfVerdict ==
  ASSUME Inv, Inv', [Next]_vars
  PROVE  [Verdict!Next]_(Verdict!vars)
<1>1. CASE /\ pc \notin {"returned", "raised"} /\ pc' \notin {"returned", "raised"}
           /\ ~UNCHANGED <<pc, s, run>>
  <2>1. (s.confirmed => s.entry) /\ (s.entry => s'.entry)
    BY <1>1, StepForward DEF Inv, VerdictInv
  <2>2. (s.confirmed => s'.confirmed) /\ (s'.confirmed => s.entry)
    <3> USE DEF Inv, Frame
    <3>1. CASE Wayfinding
      BY <2>1, <3>1, WayfindingHarmless DEF Harmless, VerdictKept
    <3>2. CASE AtomicLogin
      BY <2>1, <3>2, AtomicLoginStep DEF VerdictKept
    <3>3. CASE RecoverFromFailure
      BY <2>1, <3>3, RecoverStep DEF VerdictKept
    <3>4. CASE CheckServerSelector
      BY <2>1, <3>4, ServerStep
    <3>5. CASE StabilityObserve
      <4>1. s.entry /\ ~s.confirmed
        BY <3>5 DEF StabilityObserve, Planned, Acting, Nodes
      <4> QED BY <4>1
    <3>6. CASE ObserveScreen
      BY <2>1, <3>6, ObserveStep
    <3>7. CASE ClassifyScreen
      BY <2>1, <3>7, ClassifyStep DEF Changes, Fields
    <3>8. CASE Bootstrap \/ MonitorStop
      BY <2>1, <3>8 DEF Bootstrap, MonitorStop
    <3> QED BY <1>1, <3>1, <3>2, <3>3, <3>4, <3>5, <3>6, <3>7, <3>8
            DEF Next, Graph, Node, Wayfinding, SyncRunState, Raise, vars
  <2> QED BY <1>1, <2>1, <2>2, StepInside
<1>2. CASE UNCHANGED <<pc, s, run>>
  BY <1>2 DEF Verdict!vars
<1>3. CASE pc \in {"returned", "raised"}
  <2>1. UNCHANGED <<pc, s, run>>
    BY <1>3 DEF Next, Graph, Node, Bootstrap, ObserveScreen, ClassifyScreen, SyncRunState, Raise,
       MonitorStop, vars, HandleInitialPrivacyDialog, EnsurePrivacyCheckbox, HandleDownload,
       DismissBlockingOverlay, AtomicLogin, SelectSubAccount, CheckServerSelector, TapEnterGame,
       CheckInGame, StabilityObserve, AdaptivePhase, DynamicAction, SceneActionNode, Free,
       RecoverFromFailure
  <2> QED BY <1>2, <2>1
<1>4. CASE pc \notin {"returned", "raised"} /\ pc' \in {"returned", "raised"}
  <2>1. Bootstrap \/ SyncRunState \/ Raise \/ UNCHANGED <<pc, s, run>>
    <3>1. CASE Wayfinding
      BY <1>4, <3>1, WayfindingHarmless DEF Inv, Frame, Left
    <3>2. CASE AtomicLogin \/ RecoverFromFailure \/ CheckServerSelector \/ StabilityObserve
      BY <1>4, <3>2, AtomicLoginStep, RecoverStep, ServerStep, StabilityStep DEF Inv, Frame, Left
    <3>3. CASE ObserveScreen \/ MonitorStop
      BY <1>4, <3>3 DEF ObserveScreen, MonitorStop
    <3>4. CASE ClassifyScreen
      BY <1>4, <3>4, ClassifyStep, PlacesDiffer DEF Inv, Frame
    <3> QED BY <3>1, <3>2, <3>3, <3>4 DEF Next, Graph, Node, Wayfinding, vars
  <2>2. s'.confirmed = s.confirmed /\ s'.entry = s.entry
    BY <2>1, DroppedFrame DEF Bootstrap, SyncRunState, Raise, Inv, Frame
  <2>3. pc' = "returned" => (run'.success <=> s.confirmed)
    BY <2>2 DEF Inv, VerdictInv
  <2>4. Verdict!Close
    BY <1>4, <2>2, <2>3 DEF Verdict!Close
  <2> QED BY <2>4 DEF Verdict!Next
<1> QED BY <1>1, <1>2, <1>3, <1>4

\* The safety of KeepsVerdict: the graph begins where the promise begins, and every step is
\* a step of the promise or none.  (That a result comes in the end is left to TLC.)
THEOREM VerdictKeptStepwise == Spec => Verdict!Init /\ [][Verdict!Next]_(Verdict!vars)
<1>1. Init => Verdict!Init
  <2> SUFFICES ASSUME Init PROVE Verdict!Init
    OBVIOUS
  <2>1. s.confirmed = FALSE /\ s.entry = FALSE
    BY DEF Init, EmptyLaunchGraphState
  <2>2. pc = "start"
    BY DEF Init
  <2> QED BY <2>1, <2>2 DEF Verdict!Init
<1> QED BY <1>1, InvAlways, StepOfVerdict, PTL DEF Spec
================================================================================
