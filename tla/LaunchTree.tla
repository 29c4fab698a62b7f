------------------------------ MODULE LaunchTree -------------------------------
(* Which node comes next: the tree of guarded nodes (graphs/launch_tree.py),   *)
(* searched depth first (graphs/state_tree.py), and the order of the routes    *)
(* around it (graphs/launch_routing.py).  Pure operators on the state s and    *)
(* the facts f of the screen.                                                  *)
EXTENDS LaunchScene

CONSTANTS LeafAttempts,         \* attempts of a node of the tree (3 in the code)
          BranchAttempts,       \* attempts of the stability node (16 in the code)
          MaxNodeAttempts,      \* attempts of recover_from_failure (settings)
          MaxAdaptiveRounds, MaxFreeRounds, MaxFreeNoProgress,
          MaxDynamicRounds, MaxDynamicNoProgress

ASSUME LimitsAssumption ==
  {LeafAttempts, BranchAttempts, MaxNodeAttempts, MaxAdaptiveRounds, MaxFreeRounds,
   MaxFreeNoProgress, MaxDynamicRounds, MaxDynamicNoProgress} \subseteq Nat \ {0}

(* --------------------------------- guards --------------------------------- *)

InitialPrivacyActive(s, f) == f.dialog /\ ~Completed(s, "handle_initial_privacy_dialog")
LoginBlocking(s, f) == ~s.login /\ f.login
SubAccountBlocking(s, f) == f.sub /\ ~s.sub
OverlayBlocking(s, f) == f.notice /\ ~Completed(s, "dismiss_blocking_overlay")

CanTapEnter(s, f) ==
  /\ ~OverlayBlocking(s, f) /\ ~InitialPrivacyActive(s, f)
  /\ ~f.role /\ f.enter
  /\ ~f.login /\ ~f.sub
  /\ f.terms => s.privacy
  /\ f.server /\ s.login => s.server

\* What both the tree and the router ask before the adaptive phase.
WantsAdaptive(s, f) ==
  /\ s.login /\ ~s.confirmed /\ ~s.entry
  /\ ~s.adapt.done /\ s.adapt.rounds < MaxAdaptiveRounds
  /\ ~f.login /\ ~f.sub /\ ~f.dialog
  /\ \/ s.adapt.spec # NoSpec
     \/ Failed(s, "check_in_game")
     \/ f.role
     \/ f.interp \in {"character_creation", "unknown"}

ShouldCheckInGame(s, f) ==
  /\ ~s.entry
  /\ s.adapt.done \/ ~WantsAdaptive(s, f)
  /\ ~InitialPrivacyActive(s, f)
  /\ ~f.role /\ s.tapped /\ ~f.enter
  /\ ~f.login /\ ~f.sub
  /\ f.terms => s.privacy
  /\ f.server => s.server
  /\ s.login \/ f.stage # "login_form"

WatchFromTheTap(s) == s.tapped /\ ~s.confirmed
ShouldStabilityObserve(s) == s.entry /\ ~s.confirmed

(* --------------------------------- the tree ------------------------------- *)

\* The nodes in the order of the tree; the limit of the adaptive node, which counts
\* its rounds elsewhere, is never reached.
TreeOrder == <<"handle_initial_privacy_dialog", "ensure_privacy_checkbox", "atomic_login",
               "select_sub_account", "handle_download", "dismiss_blocking_overlay",
               "check_server_selector", "adaptive_phase", "check_in_game",
               "stability_observe", "tap_enter_game">>

Guard(s, f, n) ==
  CASE n = "handle_initial_privacy_dialog" -> InitialPrivacyActive(s, f)
    [] n = "ensure_privacy_checkbox" -> f.terms /\ ~s.privacy
    [] n = "atomic_login" -> LoginBlocking(s, f)
    [] n = "select_sub_account" -> SubAccountBlocking(s, f)
    [] n = "handle_download" -> f.download
    [] n = "dismiss_blocking_overlay" -> OverlayBlocking(s, f)
    [] n = "check_server_selector" ->
         f.server /\ ~s.server /\ (s.login \/ ~f.login) /\ ~OverlayBlocking(s, f)
    [] n = "adaptive_phase" -> WantsAdaptive(s, f)
    [] n = "check_in_game" -> ShouldCheckInGame(s, f)
    [] n = "stability_observe" -> ShouldStabilityObserve(s)
    [] n = "tap_enter_game" -> CanTapEnter(s, f)

NodeDone(s, n) ==
  CASE n = "ensure_privacy_checkbox" -> s.privacy
    [] n = "atomic_login" -> s.login
    [] n = "select_sub_account" -> s.sub
    [] n = "check_server_selector" -> s.server
    [] n = "adaptive_phase" -> s.adapt.done
    [] n = "check_in_game" -> s.entry
    [] n = "stability_observe" -> s.confirmed
    [] n = "tap_enter_game" -> FALSE
    [] OTHER -> Completed(s, n)

MaxAttempts(n) == IF n = "stability_observe" THEN BranchAttempts ELSE LeafAttempts

Eligible(s, f, n) ==
  /\ Guard(s, f, n) /\ ~NodeDone(s, n)
  /\ n \in Nodes => NodeAttempts(s, n) < MaxAttempts(n)

\* The first eligible node in the order of the tree, or "" if there is none.
DfsNextAction(s, f) ==
  LET open == {i \in DOMAIN TreeOrder : Eligible(s, f, TreeOrder[i])}
  IN IF open = {} THEN "" ELSE TreeOrder[CHOOSE i \in open : \A j \in open : i <= j]

(* --------------------------------- routes --------------------------------- *)

StaticBlockingActions == {TreeOrder[i] : i \in 1..7}

RouteSceneAlways(s, f) ==
  /\ ~s.confirmed /\ ~s.entry
  /\ ~f.login /\ ~f.sub /\ ~f.dialog
  /\ ~HasPendingStaticWork(s, f)
  /\ s.scene.id \in SceneStrategyIds /\ s.scene.conf >= Sure

ShouldRouteScene(s, f) ==
  /\ ~s.confirmed /\ ~s.entry
  /\ ~f.login /\ ~f.sub /\ ~f.dialog
  /\ ~HasPendingStaticWork(s, f)
  /\ \/ IsPreLoginPassiveWait(s, f, [id |-> s.scene.id, conf |-> s.scene.conf])
     \/ /\ s.login
        /\ \/ /\ s.scene.active
              /\ (IF s.scene.strategy # "" THEN s.scene.strategy ELSE s.scene.id)
                   \in SceneStrategyIds
           \/ s.scene.id \in SceneStrategyIds /\ s.scene.conf >= Sure

ShouldRouteAdaptive(s, f) == ~ShouldRouteScene(s, f) /\ WantsAdaptive(s, f)

HasActiveChain(s) == s.chain.at <= Len(s.chain.steps) /\ ~s.chain.failed

ShouldRouteDynamic(s, f) ==
  /\ ~ShouldRouteScene(s, f) /\ ~ShouldRouteAdaptive(s, f)
  /\ ~(s.entry /\ ~s.confirmed)
  /\ s.chain.rounds < MaxDynamicRounds /\ s.chain.stalls < MaxDynamicNoProgress
  /\ HasActiveChain(s)

\* "words": the text of the screen speaks of characters.
ShouldRouteFree(s, f, dfs, words) ==
  /\ s.login /\ ~s.confirmed /\ ~s.entry
  /\ ~ShouldRouteAdaptive(s, f) /\ ~ShouldRouteScene(s, f) /\ ~ShouldRouteDynamic(s, f)
  /\ s.free.rounds < MaxFreeRounds /\ s.free.stalls < MaxFreeNoProgress
  /\ ~f.login /\ ~f.sub /\ ~f.dialog
  /\ f.terms => s.privacy
  /\ \/ f.role \/ words \/ f.interp = "character_creation"
     \/ Failed(s, "check_in_game")
     \/ dfs = "" /\ ~f.download

PlanRoute(s, f, words) ==
  LET dfs == DfsNextAction(s, f)
  IN IF s.finished \/ s.terminal # "" \/ s.confirmed THEN "end"
     ELSE IF dfs \in StaticBlockingActions THEN dfs
     ELSE IF ShouldRouteScene(s, f) THEN "scene_action"
     ELSE IF ShouldRouteAdaptive(s, f) THEN "adaptive_phase"
     ELSE IF ShouldRouteDynamic(s, f) THEN "dynamic_action"
     ELSE IF dfs # "" THEN dfs
     ELSE IF ShouldRouteFree(s, f, dfs, words) THEN "free"
     ELSE IF NodeAttempts(s, "recover_from_failure") >= MaxNodeAttempts THEN "end"
     ELSE "recover_from_failure"
================================================================================
