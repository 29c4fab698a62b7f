----------------------------- MODULE MCLaunchGraph -----------------------------
(* Instances of the launch graph for TLC.                                      *)
EXTENDS LaunchGraph

\* Screens before and at the login, at the server list, and inside the game.
Plain == [NoText EXCEPT !.loading = TRUE]
Black == [NoText EXCEPT !.black = TRUE]
Dialog == [NoText EXCEPT !.privacy = TRUE, !.consent = TRUE]
LoginForm == [NoText EXCEPT !.probe = "login_form", !.privacy = TRUE]
Form == [NoText EXCEPT !.probe = "login_form"]
Door == [NoText EXCEPT !.enter = TRUE]
Picker == [NoText EXCEPT !.probe = "sub_account_select", !.spot = TRUE, !.hint = TRUE]
Servers == [NoText EXCEPT !.server = TRUE, !.enter = TRUE]
Gate == [NoText EXCEPT !.enter = TRUE, !.privacy = TRUE]
Download == [NoText EXCEPT !.download = TRUE]
Notice == [NoText EXCEPT !.notice = TRUE]
Characters == [NoText EXCEPT !.role = TRUE, !.chain = <<"select", "enter">>]
Creation == [NoText EXCEPT !.role = TRUE, !.chain = <<"create">>]
Talk == [NoText EXCEPT !.talk = [dialogue |-> 70, tutorial |-> 0]]
Controls == [NoText EXCEPT !.hud = TRUE]

\* Many screens for a few rounds, and few for as long as a whole launch takes.
MCGames ==
  {[looks |-> {Black, Dialog, LoginForm, Gate, Notice}, iterations |-> 5],
   [looks |-> {LoginForm, Picker, Servers, Download}, iterations |-> 5],
   [looks |-> {LoginForm, Characters, Talk, Plain}, iterations |-> 6],
   [looks |-> {Form, Door, Controls}, iterations |-> 7]}

MCSpecs == {[phase |-> "pick", action |-> "tap_xy", rule |-> "fingerprint_change"],
            [phase |-> "rest", action |-> "wait", rule |-> "always_after_wait"]}
MCAnswers == {[stage |-> "unknown", blocking |-> FALSE, tap |-> FALSE, select |-> FALSE],
              [stage |-> "announcement", blocking |-> TRUE, tap |-> TRUE, select |-> FALSE],
              [stage |-> "character_creation", blocking |-> TRUE, tap |-> FALSE, select |-> FALSE]}
MCJudgments == {[id |-> "unknown", conf |-> 0, wait |-> FALSE],
                [id |-> "loading", conf |-> 80, wait |-> TRUE]}
================================================================================
