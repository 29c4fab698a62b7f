------------------------------ MODULE LaunchGraph ------------------------------
(* The launch graph: the loop that brings a freshly started game through the   *)
(* privacy dialogs, the login, the server list and the character screens until *)
(* a check finds that the game runs, and watches it for a while.  Each round   *)
(* observes the screen, classifies it and plans the next node, and runs that   *)
(* node (graphs/launch_flow.py, graphs/launch_nodes.py).  The screen, the      *)
(* device and the models answer as they like; a monitor may ask for a stop.    *)
EXTENDS LaunchPlanners

CONSTANTS MaxStabilityRounds,
          Games,                \* the screenshots that a game may show, and max_iterations
          Answers,              \* interpretations of a screen that the model may give
          Judgments             \* scenes that the model may name

ASSUME GraphAssumption ==
  /\ MaxStabilityRounds \in Nat \ {0}
  /\ \A g \in Games : g.looks \subseteq LookType /\ g.iterations \in Nat \ {0}
  /\ Answers \subseteq Interpretations

VARIABLES
  game,    \* the game that is launched
  pc,      \* the node about to run
  s,       \* LaunchGraphState
  look,    \* the last screenshot, until it is classified
  given,   \* whether the facts give the planned node what it acts upon
  run,     \* the RunState that the caller gets
  stop,    \* a monitor has asked for a stop
  logins   \* how often the login form was filled and submitted

vars == <<game, pc, s, look, given, run, stop, logins>>

Looks == game.looks
MaxIterations == game.iterations

Places == Nodes \cup {"start", "observe", "classify", "adaptive_phase", "dynamic_action",
                      "scene_action", "free", "end", "returned", "raised"}

\* How the graph may be ended from inside, and what the caller may read.
Ends == {"", "stop", "limit", "e2006", "anomaly", "rounds"}
Notes == Ends \cup {"package", "recover", "stable"}

TypeOK ==
  /\ game \in Games
  /\ pc \in Places
  /\ s.iter \in 0..MaxIterations
  /\ s.tries \in [Nodes -> NodeRecord]
  /\ s.adapt.tree \in [Phases -> {"planned", "active", "done", "failed"}]
  /\ s.adapt.spec \in Specs \cup {NoSpec} \cup {[p EXCEPT !.action = "wait"] : p \in Specs}
  /\ s.chain.at \in 1..Len(s.chain.steps) + 1
  /\ s.scene.weak \in 0..MaxWeak
  /\ look \in Looks \cup {NoText} /\ given \in BOOLEAN
  /\ s.terminal \in Ends
  /\ run \in [finished : BOOLEAN, success : BOOLEAN, note : Notes]
  /\ stop \in BOOLEAN /\ logins \in Nat

Init ==
  /\ game \in Games
  /\ pc = "start"
  /\ s = EmptyLaunchGraphState(Phases, FALSE, FALSE)
  /\ look = NoText /\ given = FALSE
  /\ run = [finished |-> FALSE, success |-> FALSE, note |-> ""]
  /\ stop = FALSE /\ logins = 0

\* A node of the graph leaves the state t; what it saw is looked at anew in the next round.
Leave(t) ==
  /\ s' = t /\ pc' = "observe"
  /\ look' = NoText /\ given' = FALSE
  /\ UNCHANGED <<game, stop>>

Quiet(t) == Leave(t) /\ UNCHANGED <<run, logins>>

(* ---------------------------- around the graph ---------------------------- *)

\* The graph's state is dropped with the graph; the properties still ask how far it came.
Dropped ==
  [EmptyLaunchGraphState(Phases, FALSE, FALSE) EXCEPT
     !.entry = s.entry, !.confirmed = s.confirmed, !.terminal = s.terminal, !.watch = s.watch]

\* AttemptContext.signal_fatal, by a monitor or by the caller.
MonitorStop ==
  /\ pc \notin {"returned", "raised"}
  /\ ~stop /\ stop' = TRUE
  /\ UNCHANGED <<game, pc, s, look, given, run, logins>>

\* Wait for the package and start the game; a stop ends the wait or is seen after it.
Bootstrap ==
  /\ pc = "start"
  /\ \/ /\ ~stop /\ pc' = "observe" /\ UNCHANGED run
     \/ /\ pc' = "returned"
        /\ run' = [finished |-> TRUE, success |-> FALSE,
                   note |-> IF stop THEN "stop" ELSE "package"]
  /\ UNCHANGED <<game, s, look, given, stop, logins>>

SuccessOnEntry == s.entry
Success == s.confirmed

\* The graph has reached END: the caller's RunState is written from its state.
SyncRunState ==
  /\ pc = "end" /\ pc' = "returned"
  /\ run' = [finished |-> TRUE, success |-> Success,
             note |-> IF s.terminal # "" THEN s.terminal
                      ELSE IF Success THEN run.note ELSE "recover"]
  /\ s' = Dropped
  /\ UNCHANGED <<game, look, given, stop, logins>>

\* The device or a model fails in a node that does not expect it: the graph ends with the
\* exception and the RunState is lost.
Raise ==
  /\ pc \notin {"start", "end", "returned", "raised"}
  /\ pc' = "raised"
  /\ s' = Dropped /\ look' = NoText /\ given' = FALSE
  /\ UNCHANGED <<game, run, stop, logins>>

(* --------------------------- observe and classify ------------------------- *)

\* The streak of black frames, and the screen after what was done about the keyboard.
Blackout(t, o) ==
  IF ~o.black THEN {<<[t EXCEPT !.black = 0], o>>}
  ELSE IF IsLoginFlowInProgress(t)
  THEN {<<[t EXCEPT !.black = IF q.black THEN @ ELSE 0], q>> : q \in Looks}
  ELSE IF ~ShouldHandleBlackout(t) THEN {<<t, o>>}
  ELSE LET u == [t EXCEPT !.black = IF @ < DismissStreak THEN @ + 1 ELSE @]
       IN IF ShouldPressBack(u.black)
          THEN {<<[u EXCEPT !.black = IF q.black THEN @ ELSE 0], q>> : q \in Looks}
          ELSE {<<u, o>>}

ShouldStopExecutor == stop

IterationsUsedUp == s.iter + 1 >= MaxIterations

ObserveScreen ==
  /\ pc = "observe" /\ pc' = "classify"
  /\ IF ShouldStopExecutor THEN s' = Terminate(s, "stop") /\ UNCHANGED look
     ELSE IF IterationsUsedUp
     THEN s' = [Terminate(s, "limit") EXCEPT !.iter = @ + 1] /\ UNCHANGED look
     ELSE \E o \in Looks : \E b \in Blackout([s EXCEPT !.iter = @ + 1], o) :
            s' = b[1] /\ look' = b[2]
  /\ UNCHANGED <<game, given, run, stop, logins>>

\* What the planned node finds in the facts: the button of the dialog, the row of the list,
\* the button that enters the game, the end of the download; a scene to tap on.
Given(n, t, facts, o, kind) ==
  CASE n = "handle_initial_privacy_dialog" -> facts.agree
    [] n = "select_sub_account" -> facts.subXY
    [] n = "tap_enter_game" -> facts.enter
    [] n = "handle_download" -> ~o.download
    [] n = "scene_action" -> SceneAction(t, facts, o, kind) \in {"tap", "back"}
    [] OTHER -> FALSE

\* The facts of the look, the chain, the scene and the check of the controls, in this order,
\* and the route that follows from all of them.  Once finished, the previous screenshot is
\* classified again and only the check of the controls still says something.
ClassifyScreen ==
  /\ pc = "classify" /\ look' = NoText
  /\ IF s.finished
     THEN /\ \E hud \in BOOLEAN : (hud => s.login) /\ s' = [s EXCEPT !.entry = @ \/ hud]
          /\ pc' = "end" /\ UNCHANGED given
     ELSE \E known \in BOOLEAN :
          \E facts \in FactsOf(look, Completed(s, "handle_initial_privacy_dialog") /\ s.privacy,
                               known, Answers) :
          LET read == [s EXCEPT !.pic = IF facts.interp # "" THEN look ELSE @,
                                !.stage = IF facts.login THEN "login_form" ELSE "launch"]
              built == MaybeBuildChain(read, facts, look)
          IN \E g \in SceneGate(built, facts, look, ClassifyScene(facts, look), Judgments) :
             \E hud \in BOOLEAN :
             LET kind == Transition(s.scene.id, g.c, look)
                 scened == ApplyScene(g.s, facts, g.c, kind)
                 checked == [scened EXCEPT !.entry = @ \/ hud]
                 route == PlanRoute(checked, facts, look.role)
             IN /\ known => s.pic = look /\ look # NoText
                /\ hud => look.hud /\ s.login /\ ~s.entry /\ ~s.confirmed
                /\ s' = [checked EXCEPT !.submitting = route = "atomic_login"]
                /\ given' = Given(route, checked, facts, look, kind) /\ pc' = route
  /\ UNCHANGED <<game, run, stop, logins>>

(* ------------------------------ static nodes ------------------------------ *)

HandleInitialPrivacyDialog ==
  /\ pc = "handle_initial_privacy_dialog"
  /\ Quiet(IF given THEN MarkDone(s, pc) ELSE MarkFailed(s, pc))

EnsurePrivacyCheckbox ==
  /\ pc = "ensure_privacy_checkbox"
  /\ \/ Quiet(MarkDone([s EXCEPT !.privacy = TRUE], pc))
     \/ Quiet(MarkFailed(s, pc))

\* While the text still speaks of a download nothing is counted.
HandleDownload ==
  /\ pc = "handle_download"
  /\ Quiet(IF given THEN MarkDone(s, pc) ELSE s)

DismissBlockingOverlay ==
  /\ pc = "dismiss_blocking_overlay"
  /\ Quiet(MarkDone(s, pc)) \/ Quiet(MarkFailed(s, pc))

\* Without credentials nothing is submitted; a submission may be found wrong.
AtomicLogin ==
  /\ pc = "atomic_login"
  /\ UNCHANGED run
  /\ \/ Leave(MarkFailed(s, pc)) /\ UNCHANGED logins
     \/ Leave(MarkFailed(s, pc)) /\ logins' = logins + 1
     \/ Leave(MarkDone(SetLoginDone(s), pc)) /\ logins' = logins + 1

SelectSubAccount ==
  /\ pc = "select_sub_account"
  /\ \/ given /\ Quiet(MarkDone([s EXCEPT !.sub = TRUE], pc))
     \/ Quiet(MarkFailed(s, pc))

\* E2006 of the server list ends the whole graph.
CheckServerSelector ==
  /\ pc = "check_server_selector"
  /\ \/ Quiet(MarkDone([s EXCEPT !.server = TRUE], pc))
     \/ Quiet(MarkFailed(s, pc))
     \/ /\ Leave(MarkFailed(Terminate(s, "e2006"), pc))
        /\ run' = [finished |-> TRUE, success |-> FALSE, note |-> "e2006"]
        /\ UNCHANGED logins

TapEnterGame ==
  /\ pc = "tap_enter_game"
  /\ Quiet(IF given THEN MarkDone([s EXCEPT !.tapped = TRUE], pc) ELSE MarkFailed(s, pc))

\* Inside the game, on a character screen, or neither.
CheckInGame ==
  /\ pc = "check_in_game"
  /\ \/ Quiet(MarkDone([s EXCEPT !.entry = TRUE], pc))
     \/ Quiet(MarkDone(s, pc))
     \/ Quiet(MarkFailed(s, pc))

(* -------------------------------- stability ------------------------------- *)

StabilityRounds == s.watch.rounds + 1

DeadlineAlone(t) == t
Checked(t) == [t EXCEPT !.watch.checked = TRUE]

\* The clock: the deadline is set in the first round and passes at some time after.
Due == IF s.watch.due THEN {TRUE} ELSE IF s.watch.started THEN BOOLEAN ELSE {FALSE}

StabilityFails(t, why) ==
  /\ Leave(MarkFailed(Terminate(t, why), "stability_observe"))
  /\ run' = [finished |-> TRUE, success |-> FALSE, note |-> why]
  /\ UNCHANGED logins

StabilityObserve ==
  /\ pc = "stability_observe"
  /\ \E due \in Due :
     LET t == [s EXCEPT !.watch.rounds = StabilityRounds, !.watch.started = TRUE,
                        !.watch.due = due]
         c == Checked(t)
     IN IF StabilityRounds > MaxStabilityRounds
        THEN StabilityFails([s EXCEPT !.watch.rounds = StabilityRounds], "rounds")
        ELSE \/ /\ ~due /\ s.watch.checked          \* too early for the next check
                /\ Quiet(MarkDone(t, pc))
             \/ StabilityFails(c, "anomaly")
             \/ /\ ~due
                /\ Quiet(MarkDone(c, pc))
             \/ /\ due
                /\ Leave(MarkDone(SetInGameConfirmed(c), pc))
                /\ run' = [finished |-> TRUE, success |-> TRUE, note |-> "stable"]
                /\ UNCHANGED logins

(* ------------------------------ exploring nodes --------------------------- *)

AdaptivePhase ==
  /\ pc = "adaptive_phase"
  /\ \E t \in AdaptivePhaseOnce(s) : Quiet(t)

DynamicAction ==
  /\ pc = "dynamic_action"
  /\ \E t \in DynamicOnce(s) : Quiet(t)

\* The strategy's action, and the scene that the screen shows after it.
SceneActionNode ==
  /\ pc = "scene_action"
  /\ \E o \in Looks :
     LET after == ClassifyScreenFacts(o)
         c == ClassifyScene(after, o)
     IN Quiet(ApplyScene(s, after, c, Transition(s.scene.id, c, o)))

Free ==
  /\ pc = "free"
  /\ \E o \in Looks : \E t \in FreeOnce(s, o.hud) \cup FreeOnce(s, FALSE) : Quiet(t)

\* During the login the form is filled again without looking; otherwise the screen is
\* analysed and an overlay is tapped away, which leaves no trace in the state.
RecoverFromFailure ==
  /\ pc = "recover_from_failure"
  /\ UNCHANGED run
  /\ IF IsLoginFlowInProgress(s)
     THEN \/ Leave(MarkDone(s, pc)) /\ logins' \in {logins, logins + 1}
          \/ /\ Leave(MarkDone(ClearFailed(SetLoginDone(s), "atomic_login"), pc))
             /\ logins' = logins + 1
     ELSE Leave(MarkDone(s, pc)) /\ UNCHANGED logins

Node ==
  \/ HandleInitialPrivacyDialog \/ EnsurePrivacyCheckbox \/ HandleDownload
  \/ DismissBlockingOverlay \/ AtomicLogin \/ SelectSubAccount \/ CheckServerSelector
  \/ TapEnterGame \/ CheckInGame \/ StabilityObserve
  \/ AdaptivePhase \/ DynamicAction \/ SceneActionNode \/ Free \/ RecoverFromFailure

Graph == Bootstrap \/ ObserveScreen \/ ClassifyScreen \/ Node \/ SyncRunState

Next == Graph \/ Raise \/ MonitorStop

Spec == Init /\ [][Next]_vars

\* The event loop runs the planned node and no node waits for ever; nothing forces a stop
\* or an exception.
Turn == pc \notin {"returned", "raised"} /\ pc' \in Places \ {pc}
FairSpec == Spec /\ WF_pc(Turn)

(* ------------------------------- properties ------------------------------- *)

\* A success is reported only for a game that passed both checks: one found it running, and
\* a later one, at or after the deadline of the watch, found nothing wrong.  The two nodes
\* that give the evidence are rounds apart, with any screens, stops and errors in between.
SuccessIsEarned ==
  run.success => s.entry /\ s.confirmed /\ s.watch.due /\ s.watch.checked

\* What the caller reads when the graph has returned: a finished run, a success exactly if
\* the game was confirmed, a reason for every failure; E2006, an anomaly and a watch
\* without end are failures even if they strike after the game was entered.
VerdictIsComplete ==
  pc = "returned" =>
    /\ run.finished
    /\ run.success <=> s.confirmed
    /\ run.note # ""
    /\ s.terminal \in {"e2006", "anomaly", "rounds"} => ~run.success

\* The account is not locked by a graph that tries for ever: the login node and the blind
\* retries of the recovery together submit the form a bounded number of times.
LoginsBounded == logins <= LeafAttempts + MaxNodeAttempts

\* Before the login the scene node only waits: no dialogue, tutorial or black screen that
\* the rules or the model see makes it tap or press back on the screens of the login.
PassiveBeforeLogin == pc = "scene_action" /\ ~s.login => ~given

\* A strategy that has seen two screens in a row that it does not know is switched off.
WeakScenesEnd ==
  [][/\ pc = "classify" /\ pc' \notin {"classify", "raised"}
     /\ s.login /\ ~s.finished
     /\ s.scene.active /\ s.scene.id = "unknown" /\ s'.scene.id = "unknown"
     => ~s'.scene.active]_vars

\* A phase that the engine has completed is never begun, failed or acted upon again, however
\* often the model proposes it.
PhasesStayDone ==
  [][pc' \notin {"returned", "raised"} =>
       \A p \in Phases : s.adapt.tree[p] = "done" => s'.adapt.tree[p] = "done"]_vars

\* What the rest of the program relies on, without the graph inside.
Verdict == INSTANCE LaunchVerdict WITH
  stage <- IF s.confirmed THEN "stable" ELSE IF s.entry THEN "inside" ELSE "outside",
  result <- CASE pc = "raised" -> "exception"
              [] pc = "returned" -> IF run.success THEN "success" ELSE "failure"
              [] OTHER -> "open"

\* The graph keeps the promise of LaunchVerdict: the game is entered before it is stable and
\* never left, the result agrees with it, and there is a result in the end.
KeepsVerdict == Verdict!Spec
================================================================================
