------------------------------ MODULE LaunchStore ------------------------------
(* The state that the nodes of the launch graph share (LaunchGraphState), kept *)
(* as one record as in the code, and the helpers that read and write it        *)
(* (models/launch_graph_state.py, graphs/launch_state_store.py).  A node has   *)
(* the name of its action; the tree ids of the code are a renaming of these.   *)
EXTENDS LaunchFacts

\* The nodes whose attempts somebody reads.  The store counts those of the exploring
\* nodes (adaptive, dynamic, scene, free) too, and nobody asks for them.
Nodes == {"handle_initial_privacy_dialog", "ensure_privacy_checkbox", "atomic_login",
          "select_sub_account", "handle_download", "dismiss_blocking_overlay",
          "check_server_selector", "check_in_game", "stability_observe",
          "tap_enter_game", "recover_from_failure"}

\* "done" is the attempts of the record in completed_nodes (0: none), "failed" those of
\* the record in failed_nodes.
NodeRecord == [done : Nat, failed : Nat]

NodeAttempts(s, n) == IF s.tries[n].failed > 0 THEN s.tries[n].failed ELSE s.tries[n].done
Completed(s, n) == s.tries[n].done > 0
Failed(s, n) == s.tries[n].failed > 0

MarkDone(s, n) == [s EXCEPT !.tries[n] = [done |-> @.done + 1, failed |-> 0]]
MarkFailedAnew(s, n) == [s EXCEPT !.tries[n].failed = 1]
MarkFailed(s, n) == [s EXCEPT !.tries[n].failed = NodeAttempts(s, n) + 1]
ClearFailed(s, n) == [s EXCEPT !.tries[n].failed = 0]

\* account_filled, password_filled and login_submitted are written here and nowhere else.
SetLoginDone(s) == [s EXCEPT !.login = TRUE]
SetInGameConfirmed(s) == [s EXCEPT !.confirmed = TRUE, !.finished = TRUE]
Terminate(s, why) == [s EXCEPT !.finished = TRUE, !.terminal = why]

\* The parts of the state that belong to the exploring nodes.
NoScene == [id |-> "unknown", conf |-> 0, active |-> FALSE, strategy |-> "", weak |-> 0,
            gate |-> [pic |-> NoText, id |-> "", conf |-> 0, wait |-> FALSE]]
NoChain == [steps |-> <<>>, at |-> 1, tries |-> 0, rounds |-> 0, stalls |-> 0,
            failed |-> FALSE]
NoFree == [rounds |-> 0, stalls |-> 0, seen |-> FALSE, sig |-> "", same |-> 0]
NoSpec == [phase |-> "", action |-> "none", rule |-> ""]

EmptyLaunchGraphState(phases, privacy, server) ==
  [privacy |-> privacy, login |-> FALSE, sub |-> FALSE, server |-> server,
   tapped |-> FALSE, entry |-> FALSE, confirmed |-> FALSE, finished |-> FALSE,
   terminal |-> "", iter |-> 0, stage |-> "launch", submitting |-> FALSE, pic |-> NoText, black |-> 0,
   tries |-> [n \in Nodes |-> [done |-> 0, failed |-> 0]],
   watch |-> [rounds |-> 0, started |-> FALSE, due |-> FALSE, checked |-> FALSE],
   scene |-> NoScene, chain |-> NoChain, free |-> NoFree,
   adapt |-> [rounds |-> 0, stalls |-> 0, replans |-> 0, done |-> FALSE, spec |-> NoSpec,
              tree |-> [p \in phases |-> "planned"]]]

(* ------------------------- graphs/static_priority.py ---------------------- *)

\* A milestone is open on this screen: the scene strategies must not take the turn.
HasPendingStaticWork(s, f) ==
  \/ f.dialog \/ f.login \/ f.sub
  \/ s.login /\ ~s.sub /\ f.stage = "sub_account_select"
  \/ f.terms /\ ~s.privacy
  \/ f.download /\ ~Completed(s, "handle_download")
  \/ f.notice /\ ~Completed(s, "dismiss_blocking_overlay")
  \/ f.server /\ ~s.server

(* ---------------------- services/login_secure_keyboard.py ------------------ *)

IsLoginFlowInProgress(s) ==
  ~s.login /\ (s.stage = "login_form" \/ s.submitting)

ShouldHandleBlackout(s) ==
  /\ ~s.confirmed /\ ~s.entry
  /\ IsLoginFlowInProgress(s) \/ (s.login /\ ~s.sub)

DismissStreak == 3
ShouldPressBack(streak) == streak >= DismissStreak
================================================================================
