------------------------------ MODULE LaunchFacts ------------------------------
(* What the launch graph knows about one screen: the facts that the OCR rules  *)
(* find (graphs/launch_facts.py), and what the gates and the multimodal model  *)
(* add to them.  A look is the outcome of the OCR rules on one screenshot; a   *)
(* verdict of a model is free, so each gate is the set of facts it may return. *)
EXTENDS Naturals, Sequences

\* One screenshot as the OCR rules read it.  "probe" is probe_login_stage, "spot"
\* whether it found a row to tap, "talk" the scores of the dialogue and tutorial rules.
NoText == [probe |-> "clear", spot |-> FALSE, hint |-> FALSE, privacy |-> FALSE,
           consent |-> FALSE, enter |-> FALSE, server |-> FALSE, download |-> FALSE,
           progress |-> FALSE, notice |-> FALSE, role |-> FALSE, chain |-> <<>>,
           hud |-> FALSE, black |-> FALSE, loading |-> FALSE,
           talk |-> [dialogue |-> 0, tutorial |-> 0]]

LookType == [probe : {"clear", "login_form", "sub_account_select"}, spot : BOOLEAN,
             hint : BOOLEAN, privacy : BOOLEAN, consent : BOOLEAN, enter : BOOLEAN,
             server : BOOLEAN, download : BOOLEAN, progress : BOOLEAN, notice : BOOLEAN,
             role : BOOLEAN, chain : Seq({"select", "enter", "create"}), hud : BOOLEAN,
             black : BOOLEAN, loading : BOOLEAN, talk : [dialogue : 0..100, tutorial : 0..100]]

NoFacts == [login |-> FALSE, stage |-> "clear", sub |-> FALSE, subXY |-> FALSE,
            dialog |-> FALSE, agree |-> FALSE, terms |-> FALSE, enter |-> FALSE,
            server |-> FALSE, download |-> FALSE, notice |-> FALSE, noticeXY |-> FALSE,
            role |-> FALSE, interp |-> "", vision |-> ""]

ClassifyScreenFacts(o) ==
  [NoFacts EXCEPT !.login = o.probe = "login_form", !.stage = o.probe,
                  !.sub = o.probe = "sub_account_select", !.subXY = o.spot,
                  !.enter = o.enter, !.server = o.server, !.download = o.download,
                  !.notice = o.notice, !.role = o.role]

(* ------------------------------- the gates -------------------------------- *)

PrivacyAsked(f, o, settled) ==
  /\ ~f.login /\ ~f.sub /\ ~f.download
  /\ ~settled
  /\ o.privacy

\* The verdict is a modal (with a place to tap or not), a checkbox, or neither.
PrivacyJudged(f, o) ==
  {[f EXCEPT !.dialog = TRUE, !.terms = FALSE, !.agree = spot \/ o.consent] :
     spot \in BOOLEAN}
  \cup {[f EXCEPT !.dialog = FALSE, !.terms = TRUE, !.agree = FALSE],
        [f EXCEPT !.dialog = FALSE, !.terms = FALSE]}

PrivacyGate(f, o, settled) ==
  IF PrivacyAsked(f, o, settled) THEN PrivacyJudged(f, o) ELSE {f}

SubAccountProbe(f, o) ==
  IF o.probe = "sub_account_select"
  THEN [f EXCEPT !.sub = TRUE, !.stage = "sub_account_select", !.subXY = @ \/ o.spot]
  ELSE f

SubAccountAsked(f, o) == ~f.subXY /\ (f.sub \/ (o.hint /\ ~f.login))

SubAccountGate(f, o) ==
  LET p == SubAccountProbe(f, o)
  IN {p} \cup (IF SubAccountAsked(p, o)
               THEN {[p EXCEPT !.sub = TRUE, !.stage = "sub_account_select", !.subXY = tap] :
                       tap \in BOOLEAN}
               ELSE {})

\* Words about a download: with a progress bar the OCR decides, otherwise the model may
\* say that it is done.
DownloadGate(f, o) ==
  IF ~o.download THEN {f}
  ELSE {[f EXCEPT !.download = TRUE]}
       \cup (IF o.progress THEN {} ELSE {[f EXCEPT !.download = FALSE]})

(* ---------------------------- interpretation ------------------------------ *)

NeedsInterpretation(f, o) ==
  /\ ~f.terms /\ ~f.download
  /\ ~(f.sub /\ f.subXY)
  /\ \/ f.sub
     \/ o.hint /\ ~f.login
     \/ f.notice /\ ~f.noticeXY
     \/ f.role \/ o.role

\* An interpretation: the stage, whether it blocks, a place to tap, and whether its text
\* is that of a list of characters.
Interpretations ==
  [stage : {"sub_account", "login", "server_select", "announcement",
            "character_creation", "resource_download", "unknown"},
   blocking : BOOLEAN, tap : BOOLEAN, select : BOOLEAN]

MergeInterpretation(f, v) ==
  LET g == [f EXCEPT !.interp = v.stage]
  IN CASE v.stage = "sub_account" /\ v.select ->
            [g EXCEPT !.role = TRUE, !.sub = FALSE, !.stage = "clear"]
       [] v.stage = "sub_account" /\ ~v.select /\ v.blocking ->
            [g EXCEPT !.sub = TRUE, !.stage = "sub_account_select", !.subXY = @ \/ v.tap]
       [] v.stage = "login" /\ v.blocking /\ ~f.sub ->
            [g EXCEPT !.login = TRUE, !.stage = "login_form"]
       [] v.stage = "server_select" /\ v.tap -> [g EXCEPT !.enter = TRUE]
       [] v.stage = "announcement" ->
            [g EXCEPT !.notice = @ \/ v.blocking, !.noticeXY = @ \/ v.tap]
       [] v.stage = "character_creation" /\ v.blocking -> [g EXCEPT !.role = TRUE]
       [] v.stage = "resource_download" /\ v.blocking -> [g EXCEPT !.download = TRUE]
       [] OTHER -> g

\* The facts that classify_screen may arrive at from a look.  "settled": the privacy
\* milestones are done; "known": this very screenshot was interpreted before.
FactsOf(o, settled, known, answers) ==
  UNION {UNION {UNION {
    IF NeedsInterpretation(d, o) /\ ~known
    THEN {MergeInterpretation(d, v) : v \in answers}
    ELSE {d}
    : d \in DownloadGate(b, o)}
    : b \in SubAccountGate(p, o)}
    : p \in PrivacyGate(ClassifyScreenFacts(o), o, settled)}
================================================================================
