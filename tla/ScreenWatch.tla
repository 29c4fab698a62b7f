----------------------------- MODULE ScreenWatch -----------------------------
(***************************************************************************)
(* Who looks at the screen while a game is tested: the network anomaly     *)
(* coordinator, which polls in the event loop of the phase (controllers/   *)
(* network_anomaly_coordinator.py), and the executor thread, which looks   *)
(* at every round of the launch graph and has a model describe announce-   *)
(* ments in the background (graphs/vision_enrichment.py).  They share the  *)
(* AttemptContext: the observed stage and progress, and the flag that says *)
(* that the executor is reading a screenshot (modules/run_context.py).     *)
(*                                                                         *)
(* Time is counted in polls of the coordinator.  A progress text is the    *)
(* percentage in it.                                                       *)
(***************************************************************************)
EXTENDS Naturals

CONSTANTS
  None,
  Screens,     \* what the device may show
  Settings,    \* values of require_multimodal_confirm, llm_multimodal, use_ocr_poll
  Patience,    \* download_progress_stall_s in polls
  PassivePolls,\* polls between two looks at a screen that is not watched
  MaxFailures  \* bound: screenshots and model calls that fail

\* "loading" stands for both of the stages whose stall is watched, "notice"
\* for the ones with a name that are not.
Stage == {"loading", "notice", "unknown"}
Percent == {None, 1, 2}
Screen ==
  {s \in [stage : Stage, percent : Percent, dialog : BOOLEAN] :
     s.percent # None => s.stage = "loading"}
NoScreen == [stage |-> "none", percent |-> None, dialog |-> FALSE]

\* The last screenshot or one before it: names are unique to the microsecond.
Shot == {"last", "older"}

ASSUME WatchAssumption ==
  /\ None \notin Nat \cup Shot
  /\ Screens \subseteq Screen /\ Settings \subseteq BOOLEAN \X BOOLEAN \X BOOLEAN
  /\ Patience \in Nat \ {0} /\ PassivePolls \in Nat \ {0} /\ MaxFailures \in Nat

VARIABLES
  screen,      \* what the device shows
  failures,    \* failed screenshots and model calls so far
  settings,    \* is a confirmation required, is there a model, does the poll read the screen
  \* AttemptContext
  ui,          \* ui_stage and ui_progress
  busy,        \* _ocr_busy
  stop,        \* stop_all
  fatal,       \* the coordinator signalled a fatal reason
  \* the coordinator
  pcN,         \* sleep, read, ask, over
  stage, progress, \* what it read at the beginning of the poll, until it is used
  frame,       \* the screen on this poll's screenshot, or NoScreen
  key, age,    \* ScreenProgressTracker
  passive,     \* polls since the last look at a screen that is not watched
  stalled,     \* the tracker's verdict, if it is being judged or has stopped the phase
  evidence,    \* anomaly_evidence.json
  \* the executor
  pcE,         \* observe, ocr, act, closing, off
  seen,        \* what is on the last screenshot, until it is classified
  answer,      \* what the answer in the facts was about when merged, or None
  task,        \* the slot of the queue: a screenshot and how its call is
  cancelled    \* calls were told to end and have not yet

context == <<ui, busy, stop, fatal>>
poll == <<stage, progress, frame>>
tracker == <<key, age, passive>>
coordinator == <<pcN, poll, tracker, stalled, evidence>>
queue == <<task, cancelled>>
executor == <<pcE, seen, answer, queue>>
require == settings[1]
hasModel == settings[2]
usesOcr == settings[3]
vars == <<screen, failures, settings, context, coordinator, executor>>

NoTask == [shot |-> None, state |-> "none"]

NoKey == <<"none", None>>

TypeOK ==
  /\ screen \in Screens /\ failures \in 0..MaxFailures
  /\ settings \in Settings
  /\ ui \in [stage : Stage, progress : Percent]
  /\ busy \in BOOLEAN /\ stop \in BOOLEAN /\ fatal \in BOOLEAN
  /\ pcN \in {"sleep", "read", "ask", "over"}
  /\ stage \in Stage /\ progress \in Percent /\ frame \in Screens \cup {NoScreen}
  /\ key \in (Stage \X Percent) \cup {NoKey}
  /\ age \in 0..Patience /\ passive \in 0..PassivePolls
  /\ stalled \in BOOLEAN /\ evidence \in Screens \cup {NoScreen}
  /\ pcE \in {"observe", "ocr", "act", "closing", "off"}
  /\ seen \in Screens \cup {NoScreen}
  /\ answer \in Shot \cup {None}
  /\ task \in [shot : Shot \cup {None}, state : {"none", "running", "answered", "failed"}]
  /\ cancelled \in BOOLEAN

Init ==
  /\ screen \in Screens
  /\ failures = 0
  /\ settings \in Settings
  /\ ui = [stage |-> "unknown", progress |-> None]
  /\ busy = FALSE /\ stop = FALSE /\ fatal = FALSE
  /\ pcN = "sleep" /\ stage = "unknown" /\ progress = None /\ frame = NoScreen
  /\ key = NoKey /\ age = 0 /\ passive = PassivePolls
  /\ stalled = FALSE /\ evidence = NoScreen
  /\ pcE = "observe" /\ seen = NoScreen
  /\ answer = None /\ task = NoTask /\ cancelled = FALSE

-----------------------------------------------------------------------------
(* The game, and everything else that may end the phase.                    *)

ScreenChanges ==
  /\ pcN # "over" /\ ~stop
  /\ screen' \in Screens \ {screen}
  /\ UNCHANGED <<failures, settings, context, coordinator, executor>>

PhaseStops ==
  /\ ~stop
  /\ stop' = TRUE
  /\ UNCHANGED <<screen, failures, settings, ui, busy, fatal, coordinator, executor>>

-----------------------------------------------------------------------------
(* The coordinator.                                                         *)

Watched(s) == s = "loading"

\* _should_run_ocr_poll
LooksAt(s) == usesOcr /\ (s = "unknown" \/ Watched(s) \/ passive = PassivePolls)

\* A passive look counts as one also when the executor is just reading.
PassiveAfter(s) ==
  IF usesOcr /\ s # "unknown" /\ ~Watched(s) /\ passive = PassivePolls THEN 0
  ELSE IF passive < PassivePolls THEN passive + 1 ELSE passive

PercentOf(text, image) == IF text # None THEN text ELSE image.percent

\* ScreenProgressTracker.observe: polls since the key changed.
Aged(k) == IF k # key THEN 0 ELSE IF age < Patience THEN age + 1 ELSE age

\* Is the report confirmed?  seenAnomaly is the model's verdict.
ConfirmedByStall(image, stall, seenAnomaly) == stall /\ (seenAnomaly \/ ~require)

ConfirmedUnasked(image, stall, seenAnomaly) == image.dialog \/ stall \/ seenAnomaly

Confirmed(image, stall, seenAnomaly) ==
  IF require THEN seenAnomaly \/ (image.dialog /\ ~hasModel)
             ELSE image.dialog \/ seenAnomaly \/ stall

PollDone == stage' = "unknown" /\ progress' = None

Quiet ==
  /\ pcN' = "sleep" /\ frame' = NoScreen /\ stalled' = FALSE
  /\ UNCHANGED <<evidence, fatal, stop>>

\* The evidence is on disk before the reason is signalled and stop_all set.
Report(image, stall) ==
  /\ evidence' = image /\ stalled' = stall
  /\ fatal' = TRUE /\ stop' = TRUE
  /\ pcN' = "over" /\ frame' = NoScreen

Decide(image, stall, seenAnomaly) ==
  \/ Confirmed(image, stall, seenAnomaly) /\ Report(image, stall)
  \/ ~Confirmed(image, stall, seenAnomaly) /\ Quiet

AskModel(image, stall) ==
  /\ pcN' = "ask" /\ frame' = image /\ stalled' = stall
  /\ UNCHANGED <<evidence, fatal, stop>>

MayAsk(image) == (require \/ ~image.dialog) /\ hasModel /\ image # NoScreen

\* The rest of a poll once there is a frame, or none.  The percentage of a
\* watched stage is written into the observation, under the stage the poll
\* began with, and is not looked for again while it stands there.  (For other
\* stages the tracker's key and age are left out, nothing depends on them.)
Assess(s, p, image) ==
  LET percent == PercentOf(p, image)
      k == IF Watched(s) THEN <<s, percent>> ELSE NoKey
      stall == Watched(s) /\ Aged(k) >= Patience
      suspect == image.dialog \/ stall
  IN /\ ui' = IF Watched(s) /\ p = None /\ percent # None
                THEN [stage |-> s, progress |-> percent] ELSE ui
     /\ key' = k
     /\ age' = IF Watched(s) THEN Aged(k) ELSE 0
     /\ PollDone
     /\ \/ ~suspect /\ Quiet
        \/ suspect /\ MayAsk(image) /\ AskModel(image, stall)
        \/ suspect /\ ~MayAsk(image) /\ Decide(image, stall, FALSE)

Fails == failures < MaxFailures /\ failures' = failures + 1

\* The head of a poll: it reads the observation and takes a screenshot in a
\* thread, an error counts as no frame; while the executor is reading one of
\* its own it goes on without.
Wake ==
  /\ pcN = "sleep" /\ ~stop
  /\ passive' = PassiveAfter(ui.stage)
  /\ \/ /\ LooksAt(ui.stage) /\ ~busy
        /\ stage' = ui.stage /\ progress' = ui.progress
        /\ pcN' = "read"
        /\ \/ frame' = screen /\ UNCHANGED failures
           \/ frame' = NoScreen /\ Fails
        /\ UNCHANGED <<ui, stop, fatal, key, age, stalled, evidence>>
     \/ /\ ~(LooksAt(ui.stage) /\ ~busy)
        /\ Assess(ui.stage, ui.progress, NoScreen)
        /\ UNCHANGED failures
  /\ UNCHANGED <<screen, settings, busy, executor>>

\* Its OCR is done, and the poll goes on in the event loop.
Read ==
  /\ pcN = "read"
  /\ Assess(stage, progress, frame)
  /\ UNCHANGED <<screen, failures, settings, busy, passive, executor>>

\* analyze_game_state: the model tells whether the frame shows an anomaly.
Answer ==
  /\ pcN = "ask"
  /\ \/ Decide(frame, stalled, frame.dialog) /\ UNCHANGED failures
     \/ Decide(frame, stalled, FALSE) /\ Fails
  /\ UNCHANGED <<screen, settings, ui, busy, stage, progress, tracker, executor>>

StopWatching ==
  /\ pcN = "sleep" /\ stop
  /\ pcN' = "over"
  /\ UNCHANGED <<screen, failures, settings, context, poll, tracker, stalled, evidence,
                 executor>>

Coordinator == Wake \/ Read \/ Answer \/ StopWatching

-----------------------------------------------------------------------------
(* The executor and its queue.                                              *)

\* merge_if_ready: what is done leaves the slot ...
Kept == IF task.state \in {"answered", "failed"} THEN NoTask ELSE task

MergedAnyway == IF task.state = "answered" THEN task.shot ELSE answer

\* ... and its answer is merged, one about an older screenshot is dropped.
Merged == IF task.state = "answered" /\ task.shot = "last" THEN "last" ELSE answer

\* With a new screenshot the last one becomes an older one.
Older(n) == IF n = None THEN None ELSE "older"

ObserveAnyway ==
  /\ pcE = "observe"
  /\ answer' = Merged
  /\ busy' = TRUE /\ seen' = screen /\ pcE' = "ocr"
  /\ task' = [Kept EXCEPT !.shot = Older(@)]
  /\ UNCHANGED <<screen, failures, settings, ui, stop, fatal, coordinator, cancelled>>

\* observe_screen up to the OCR.
Observe ==
  /\ pcE = "observe"
  /\ answer' = Merged
  /\ IF stop
       THEN pcE' = "closing" /\ task' = Kept /\ UNCHANGED <<busy, seen>>
       ELSE /\ busy' = TRUE /\ seen' = screen /\ pcE' = "ocr"
            /\ task' = [Kept EXCEPT !.shot = Older(@)]
  /\ UNCHANGED <<screen, failures, settings, ui, stop, fatal, coordinator, cancelled>>

\* VisionEnrichmentQueue.submit: one slot, the call in it is cancelled.
Submit ==
  /\ cancelled' = (cancelled \/ task.state = "running")
  /\ task' = [shot |-> "last", state |-> "running"]

\* _infer_stage_label: none of the labels of the executor ("launch", "download",
\* "login_form", ...) is the name of a stage whose stall is watched.
Labelled == [stage |-> "notice", progress |-> None]

\* The OCR is done, and classify_screen makes the facts anew, and the
\* observation too.  (To the coordinator, the time the gates take is as the
\* time before observe_screen.)
Classify ==
  /\ pcE = "ocr"
  /\ busy' = FALSE
  /\ answer' = None
  /\ IF seen.stage = "notice" /\ hasModel THEN Submit ELSE UNCHANGED queue
  /\ ui' = Labelled
  /\ seen' = NoScreen
  /\ pcE' = "act"
  /\ UNCHANGED <<screen, failures, settings, stop, fatal, coordinator>>

\* What the nodes do: take and read screenshots of their own, have the model
\* analyse the screen (run_analyze_screen: the answer comes when the screen may
\* be another one, with or without the progress), label it, go to the next
\* round, or end the graph.
Act ==
  /\ pcE = "act"
  /\ \/ /\ busy' = ~busy
        /\ task' \in {task, [task EXCEPT !.shot = Older(@)]}
        /\ UNCHANGED <<ui, pcE>>
     \/ /\ ~busy /\ hasModel
        /\ \E s \in Screens : \E p \in {None, s.percent} :
             ui' = [stage |-> s.stage, progress |-> p]
        /\ UNCHANGED <<busy, pcE, task>>
     \/ ~busy /\ ui' = Labelled /\ UNCHANGED <<busy, pcE, task>>
     \/ ~busy /\ pcE' \in {"observe", "closing"} /\ UNCHANGED <<ui, busy, task>>
  /\ UNCHANGED <<screen, failures, settings, stop, fatal, coordinator, seen, answer, cancelled>>

ForgetCall ==
  /\ pcE = "closing"
  /\ pcE' = "off"
  /\ task' = NoTask
  /\ UNCHANGED <<screen, failures, settings, context, coordinator, seen, answer, cancelled>>

\* shutdown() cancels the call and waits for its end; the event loop of the
\* thread then waits for the ones cancelled before.
Close ==
  /\ pcE = "closing"
  /\ task' = NoTask
  /\ IF task.state = "running"
       THEN cancelled' = TRUE /\ UNCHANGED pcE
       ELSE ~cancelled /\ pcE' = "off" /\ UNCHANGED cancelled
  /\ UNCHANGED <<screen, failures, settings, context, coordinator, seen, answer>>

CallEnds ==
  /\ \/ task.state = "running" /\ task' = [task EXCEPT !.state = "answered"]
        /\ UNCHANGED <<cancelled, failures>>
     \/ task.state = "running" /\ task' = [task EXCEPT !.state = "failed"] /\ Fails
        /\ UNCHANGED cancelled
     \/ cancelled /\ cancelled' = FALSE /\ UNCHANGED <<task, failures>>
  /\ UNCHANGED <<screen, settings, context, coordinator, pcE, seen, answer>>

Executor == Observe \/ Classify \/ Close \/ CallEnds

Next == ScreenChanges \/ PhaseStops \/ Coordinator \/ Executor \/ Act

Spec == Init /\ [][Next]_vars

\* The event loops go on and calls end; the nodes may take any time.
FairSpec == Spec /\ WF_vars(Coordinator) /\ WF_vars(Executor)
-----------------------------------------------------------------------------
(* Properties.                                                              *)

\* A report that stops the phase has a network dialog on the screenshot in the
\* evidence; without required confirmation, or else a stall.  (The model's
\* verdict on a screenshot is taken to be right.)
ReportIsFounded == fatal => evidence.dialog \/ (~require /\ stalled)

\* An answer that came in the background is used for the screenshot it is
\* about only, and no call outlives the graph.
EnrichmentFits ==
  /\ answer # "older"
  /\ pcE = "off" => task.state # "running" /\ ~cancelled

\* A network dialog that stays is reported, provided that the coordinator gets
\* to look: the executor's reading does not always keep it from it.
DialogReported ==
  <>[]screen.dialog /\ []<>(pcN = "read") => <>(fatal \/ stop)

\* Who is told to stop ends: the coordinator whatever it waits for, and the
\* executor, provided its nodes come back, with all of its calls.
StopIsHeard ==
  []<>(pcE # "act") => (stop ~> (pcN = "over" /\ pcE = "off"))
=============================================================================
