------------------------- MODULE ScreenWatchProofs --------------------------
(* A report of the network monitor has its reason in the evidence, and an       *)
(* enrichment is merged into the observation it was made for.  The monitor      *)
(* reports in the step that judges the evidence, so ReportInv only has to add   *)
(* that the poll is over and that nothing changes the evidence afterwards;      *)
(* EnrichInv says that no call outlives the executor either.                    *)
EXTENDS ScreenWatch, TLAPS

-----------------------------------------------------------------------------
(* Types.                                                                  *)

Image == Screens \cup {NoScreen}
Observation == [stage : Stage, progress : Percent]

LEMMA ImageType ==
  ASSUME NEW image \in Image
  PROVE  image.dialog \in BOOLEAN /\ image.percent \in Percent
<1>1. CASE image = NoScreen
  BY <1>1 DEF NoScreen, Percent
<1>2. CASE image \in Screens
  BY <1>2, WatchAssumption DEF Screen
<1> QED BY <1>1, <1>2 DEF Image

\* The variables that the rest of a poll may write.
PollTypes ==
  /\ ui \in Observation
  /\ key \in (Stage \X Percent) \cup {NoKey} /\ age \in 0..Patience
  /\ stage \in Stage /\ progress \in Percent
  /\ pcN \in {"sleep", "read", "ask", "over"} /\ frame \in Image
  /\ stalled \in BOOLEAN /\ evidence \in Image
  /\ fatal \in BOOLEAN /\ stop \in BOOLEAN

\* The variables that it leaves alone.
RestTypes ==
  /\ screen \in Screens /\ failures \in 0..MaxFailures /\ settings \in Settings
  /\ busy \in BOOLEAN /\ passive \in 0..PassivePolls
  /\ pcE \in {"observe", "ocr", "act", "closing", "off"}
  /\ seen \in Image
  /\ answer \in Shot \cup {None}
  /\ task \in [shot : Shot \cup {None}, state : {"none", "running", "answered", "failed"}]
  /\ cancelled \in BOOLEAN

\* Together they are the type invariant.
LEMMA TypesSuffice == PollTypes /\ RestTypes => TypeOK
BY DEF TypeOK, PollTypes, RestTypes, Image, Observation

\* Quiet, Report and AskModel, whatever the verdict.
LEMMA VerdictTypes ==
  ASSUME PollTypes, NEW image \in Image, NEW stall \in BOOLEAN,
         Quiet \/ Report(image, stall) \/ AskModel(image, stall)
  PROVE  /\ pcN' \in {"sleep", "read", "ask", "over"} /\ frame' \in Image
         /\ stalled' \in BOOLEAN /\ evidence' \in Image
         /\ fatal' \in BOOLEAN /\ stop' \in BOOLEAN
<1>1. CASE Quiet
  BY <1>1 DEF Quiet, PollTypes, Image
<1>2. CASE Report(image, stall)
  BY <1>2 DEF Report, Image
<1>3. CASE AskModel(image, stall)
  BY <1>3 DEF AskModel, PollTypes
<1> QED BY <1>1, <1>2, <1>3

LEMMA AgedType ==
  ASSUME PollTypes, NEW k PROVE Aged(k) \in 0..Patience
BY WatchAssumption DEF PollTypes, Aged

LEMMA AssessTypes ==
  ASSUME PollTypes, NEW st \in Stage, NEW p \in Percent, NEW image \in Image,
         Assess(st, p, image)
  PROVE  PollTypes'
<1> DEFINE percent == PercentOf(p, image)
           k == IF Watched(st) THEN <<st, percent>> ELSE NoKey
           stall == Watched(st) /\ Aged(k) >= Patience
<1>1. percent \in Percent
  BY ImageType DEF PercentOf
<1>2. k \in (Stage \X Percent) \cup {NoKey} /\ Aged(k) \in 0..Patience /\ stall \in BOOLEAN
  BY <1>1, AgedType DEF Watched
<1>3. /\ ui' = IF Watched(st) /\ p = None /\ percent # None
                 THEN [stage |-> st, progress |-> percent] ELSE ui
      /\ key' = k
      /\ age' = IF Watched(st) THEN Aged(k) ELSE 0
      /\ PollDone
      /\ Quiet \/ Report(image, stall) \/ AskModel(image, stall)
  BY DEF Assess, Decide
<1>4. ui' \in Observation
  BY <1>1, <1>3 DEF Observation, PollTypes
<1>5. key' \in (Stage \X Percent) \cup {NoKey}
  BY <1>2, <1>3
<1>6. age' \in 0..Patience
  <2>1. 0 \in 0..Patience
    BY WatchAssumption
  <2> HIDE DEF k
  <2> QED BY <1>2, <1>3, <2>1
<1>7. stage' \in Stage /\ progress' \in Percent
  BY <1>3 DEF PollDone, Stage, Percent
<1> HIDE DEF stall
<1>8. /\ pcN' \in {"sleep", "read", "ask", "over"} /\ frame' \in Image
      /\ stalled' \in BOOLEAN /\ evidence' \in Image
      /\ fatal' \in BOOLEAN /\ stop' \in BOOLEAN
  BY <1>2, <1>3, VerdictTypes
<1> QED BY <1>4, <1>5, <1>6, <1>7, <1>8 DEF PollTypes

LEMMA FailsType == ASSUME RestTypes, Fails PROVE failures' \in 0..MaxFailures
BY WatchAssumption DEF RestTypes, Fails

LEMMA InitType == Init => PollTypes /\ RestTypes
<1> SUFFICES ASSUME Init PROVE PollTypes /\ RestTypes
  OBVIOUS
<1>1. 0 \in 0..Patience /\ PassivePolls \in 0..PassivePolls /\ 0 \in 0..MaxFailures
  BY WatchAssumption
<1>2. NoScreen \in Image
  BY DEF Image
<1>3. NoTask \in [shot : Shot \cup {None}, state : {"none", "running", "answered", "failed"}]
  BY DEF NoTask
<1>4. ui \in Observation /\ stage \in Stage /\ progress \in Percent
  BY DEF Init, Observation, Stage, Percent
<1>5. PollTypes
  BY <1>1, <1>2, <1>4 DEF Init, PollTypes
<1>6. RestTypes
  BY <1>1, <1>2, <1>3 DEF Init, RestTypes
<1> QED BY <1>5, <1>6

LEMMA WakeType == ASSUME PollTypes, RestTypes, Wake PROVE PollTypes' /\ RestTypes'
<1>2. ui.stage \in Stage /\ ui.progress \in Percent /\ screen \in Image /\ NoScreen \in Image
  BY DEF PollTypes, RestTypes, Observation, Image
<1>3. passive' \in 0..PassivePolls
  <2>1. passive \in 0..PassivePolls /\ PassivePolls \in Nat
    BY WatchAssumption DEF RestTypes
  <2> QED BY <2>1 DEF Wake, PassiveAfter
<1>4. CASE LooksAt(ui.stage) /\ ~busy
  <2>1. /\ stage' = ui.stage /\ progress' = ui.progress /\ pcN' = "read"
        /\ frame' \in {screen, NoScreen}
        /\ UNCHANGED failures \/ Fails
        /\ UNCHANGED <<ui, stop, fatal, key, age, stalled, evidence, screen, settings, busy,
                       executor>>
    BY <1>4 DEF Wake
  <2>2. PollTypes'
    BY <1>2, <2>1 DEF PollTypes
  <2>3. failures' \in 0..MaxFailures
    BY <2>1, FailsType DEF RestTypes
  <2>4. RestTypes'
    BY <1>3, <2>1, <2>3 DEF RestTypes, executor, queue
  <2> QED BY <2>2, <2>4
<1>5. CASE ~(LooksAt(ui.stage) /\ ~busy)
  <2>1. /\ Assess(ui.stage, ui.progress, NoScreen)
        /\ UNCHANGED <<failures, screen, settings, busy, executor>>
    BY <1>5 DEF Wake
  <2>2. PollTypes'
    BY <1>2, <2>1, AssessTypes
  <2>3. RestTypes'
    BY <1>3, <2>1 DEF RestTypes, executor, queue
  <2> QED BY <2>2, <2>3
<1> QED BY <1>4, <1>5

LEMMA CoordinatorType == ASSUME PollTypes, RestTypes, Coordinator PROVE PollTypes' /\ RestTypes'
<1>2. CASE Read
  <2>1. Assess(stage, progress, frame)
        /\ UNCHANGED <<screen, failures, settings, busy, passive, executor>>
    BY <1>2 DEF Read
  <2>2. stage \in Stage /\ progress \in Percent /\ frame \in Image
    BY DEF PollTypes
  <2>3. PollTypes'
    BY <2>1, <2>2, AssessTypes
  <2>4. RestTypes'
    BY <2>1 DEF RestTypes, executor, queue
  <2> QED BY <2>3, <2>4
<1>3. CASE Answer
  <2>1. /\ UNCHANGED <<screen, settings, ui, busy, stage, progress, tracker, executor>>
        /\ Quiet \/ Report(frame, stalled)
        /\ UNCHANGED failures \/ Fails
    BY <1>3 DEF Answer, Decide
  <2>2. frame \in Image /\ stalled \in BOOLEAN
    BY DEF PollTypes
  <2>3. /\ pcN' \in {"sleep", "read", "ask", "over"} /\ frame' \in Image
        /\ stalled' \in BOOLEAN /\ evidence' \in Image
        /\ fatal' \in BOOLEAN /\ stop' \in BOOLEAN
    BY <2>1, <2>2, VerdictTypes
  <2>4. PollTypes'
    BY <2>1, <2>3 DEF PollTypes, tracker
  <2>5. failures' \in 0..MaxFailures
    BY <2>1, FailsType DEF RestTypes
  <2>6. RestTypes'
    BY <2>1, <2>5 DEF RestTypes, tracker, executor, queue
  <2> QED BY <2>4, <2>6
<1>4. CASE StopWatching
  BY <1>4 DEF StopWatching, PollTypes, RestTypes, context, poll, tracker, executor, queue
<1> QED BY <1>2, <1>3, <1>4, WakeType DEF Coordinator

LEMMA ExecutorType == ASSUME PollTypes, RestTypes, Executor \/ Act PROVE PollTypes' /\ RestTypes'
<1>2. /\ task.shot \in Shot \cup {None} /\ NoTask \in [shot : Shot \cup {None},
              state : {"none", "running", "answered", "failed"}]
      /\ NoScreen \in Image /\ screen \in Image
  BY DEF RestTypes, NoTask, Image
<1> USE DEF coordinator, context, poll, tracker, executor, queue
<1>3. CASE Observe
  <2>1. answer' \in Shot \cup {None}
    BY <1>2, <1>3 DEF Observe, Merged, RestTypes, Shot
  <2>2. task' \in [shot : Shot \cup {None}, state : {"none", "running", "answered", "failed"}]
    BY <1>2, <1>3 DEF Observe, Kept, Older, RestTypes, Shot
  <2>3. /\ UNCHANGED <<screen, failures, settings, ui, stop, fatal, coordinator, cancelled>>
        /\ pcE' \in {"closing", "ocr"} /\ busy' \in BOOLEAN /\ seen' \in Image
    BY <1>2, <1>3 DEF Observe, RestTypes
  <2>4. RestTypes'
    BY <2>1, <2>2, <2>3 DEF RestTypes
  <2>5. PollTypes'
    BY <2>3 DEF PollTypes
  <2> QED BY <2>4, <2>5
<1>4. CASE Classify
  <2>1. /\ UNCHANGED <<screen, failures, settings, stop, fatal, coordinator>>
        /\ busy' = FALSE /\ answer' = None /\ seen' = NoScreen /\ pcE' = "act"
        /\ ui' = Labelled
        /\ Submit \/ UNCHANGED queue
    BY <1>4 DEF Classify
  <2>2. task' \in [shot : Shot \cup {None}, state : {"none", "running", "answered", "failed"}]
    BY <2>1 DEF Submit, RestTypes, Shot
  <2>6. cancelled' \in BOOLEAN
    <3>1. CASE Submit
      <4>1. cancelled' \in BOOLEAN
        BY <3>1, Zenon DEF Submit
      <4> QED BY <4>1
    <3>2. CASE UNCHANGED queue
      BY <3>2 DEF RestTypes
    <3> QED BY <2>1, <3>1, <3>2
  <2>3. RestTypes'
    BY <1>2, <2>1, <2>2, <2>6 DEF RestTypes
  <2>4. ui' \in Observation
    BY <2>1 DEF Labelled, Observation, Stage, Percent
  <2>5. PollTypes'
    BY <2>1, <2>4 DEF PollTypes
  <2> QED BY <2>3, <2>5
<1>5. CASE Close
  <2>1. /\ UNCHANGED <<screen, failures, settings, context, coordinator, seen, answer>>
        /\ task' = NoTask /\ cancelled' \in BOOLEAN
        /\ pcE' \in {pcE, "off"}
    BY <1>5 DEF Close, RestTypes
  <2>2. RestTypes'
    BY <1>2, <2>1 DEF RestTypes
  <2>3. PollTypes'
    BY <2>1 DEF PollTypes
  <2> QED BY <2>2, <2>3
<1>6. CASE CallEnds
  <2>1. /\ UNCHANGED <<screen, settings, context, coordinator, pcE, seen, answer>>
        /\ task' \in [shot : Shot \cup {None}, state : {"none", "running", "answered", "failed"}]
        /\ cancelled' \in BOOLEAN
        /\ UNCHANGED failures \/ Fails
    BY <1>6 DEF CallEnds, RestTypes
  <2>2. failures' \in 0..MaxFailures
    BY <2>1, FailsType DEF RestTypes
  <2>3. RestTypes'
    BY <2>1, <2>2 DEF RestTypes
  <2>4. PollTypes'
    BY <2>1 DEF PollTypes
  <2> QED BY <2>3, <2>4
<1>7. CASE Act
  <2>1. /\ UNCHANGED <<screen, failures, settings, stop, fatal, coordinator, seen, answer,
                       cancelled>>
        /\ busy' \in BOOLEAN /\ pcE' \in {"act", "observe", "closing"}
        /\ task' \in {task, [task EXCEPT !.shot = Older(@)]}
    BY <1>7 DEF Act, RestTypes
  <2>5. task' \in [shot : Shot \cup {None}, state : {"none", "running", "answered", "failed"}]
    BY <1>2, <2>1 DEF Older, RestTypes, Shot
  <2>2. RestTypes'
    BY <2>1, <2>5 DEF RestTypes
  <2>3. ui' \in Observation
    <3>1. CASE UNCHANGED ui
      BY <3>1 DEF PollTypes
    <3>2. CASE ui' = Labelled
      BY <3>2 DEF Labelled, Observation, Stage, Percent
    <3>3. ASSUME NEW s \in Screens, NEW p \in {None, s.percent},
                 ui' = [stage |-> s.stage, progress |-> p]
          PROVE  ui' \in Observation
      <4>1. s.stage \in Stage /\ s.percent \in Percent /\ None \in Percent
        BY WatchAssumption DEF Screen, Percent
      <4> QED BY <3>3, <4>1 DEF Observation
    <3> QED BY <1>7, <3>1, <3>2, <3>3 DEF Act
  <2>4. PollTypes'
    BY <2>1, <2>3 DEF PollTypes
  <2> QED BY <2>2, <2>4
<1> QED BY <1>3, <1>4, <1>5, <1>6, <1>7 DEF Executor

LEMMA NextType == ASSUME PollTypes, RestTypes, [Next]_vars PROVE PollTypes' /\ RestTypes'
<1> USE DEF coordinator, context, poll, tracker, executor, queue
<1>1. CASE ScreenChanges
  BY <1>1 DEF ScreenChanges, PollTypes, RestTypes
<1>2. CASE PhaseStops
  BY <1>2 DEF PhaseStops, PollTypes, RestTypes
<1>3. CASE UNCHANGED vars
  BY <1>3 DEF vars, PollTypes, RestTypes
<1> QED BY <1>1, <1>2, <1>3, CoordinatorType, ExecutorType DEF Next

\* Type correctness: the tracker's age stays within the patience, the passive polls within
\* their interval, the answer is about a screenshot or there is none.
THEOREM TypeCorrect == Spec => []TypeOK
<1>1. Spec => [](PollTypes /\ RestTypes)
  BY InitType, NextType, PTL DEF Spec
<1> QED BY <1>1, TypesSuffice, PTL

-----------------------------------------------------------------------------
(* A report is founded.                                                      *)

Founded(image, stall) == image.dialog \/ (~require /\ stall)

\* Who has signalled a fatal reason is done, and the evidence supports it.
ReportInv == fatal => pcN = "over" /\ Founded(evidence, stalled)

\* The model's verdict on a frame is TRUE only of a dialog.
LEMMA DecideFounded ==
  ASSUME ReportInv, pcN # "over", NEW image \in Image, NEW stall \in BOOLEAN, NEW verdict,
         verdict \in {FALSE, image.dialog}, UNCHANGED settings,
         Decide(image, stall, verdict) \/ AskModel(image, stall) \/ Quiet
  PROVE  ReportInv'
<1>1. image.dialog \in BOOLEAN
  BY ImageType
<1>2. CASE Quiet
  BY <1>2 DEF Quiet, ReportInv
<1>3. CASE AskModel(image, stall)
  BY <1>3 DEF AskModel, ReportInv
<1>4. CASE Confirmed(image, stall, verdict) /\ Report(image, stall)
  <2>1. Founded(image, stall)
    BY <1>1, <1>4 DEF Confirmed, Founded
  <2> QED BY <1>4, <2>1 DEF Report, ReportInv, Founded, require
<1> QED BY <1>2, <1>3, <1>4 DEF Decide

LEMMA AssessFounded ==
  ASSUME ReportInv, PollTypes, pcN # "over", NEW st, NEW p, NEW image \in Image,
         UNCHANGED settings, Assess(st, p, image)
  PROVE  ReportInv'
<1> DEFINE percent == PercentOf(p, image)
           k == IF Watched(st) THEN <<st, percent>> ELSE NoKey
           stall == Watched(st) /\ Aged(k) >= Patience
<1>1. stall \in BOOLEAN
  OBVIOUS
<1>2. Decide(image, stall, FALSE) \/ AskModel(image, stall) \/ Quiet
  BY DEF Assess
<1> HIDE DEF stall
<1> QED BY <1>1, <1>2, DecideFounded

LEMMA StepFounded ==
  ASSUME ReportInv, PollTypes, RestTypes, [Next]_vars PROVE ReportInv'
<1> USE DEF coordinator, context, poll, tracker, executor, queue
<1>1. CASE Wake
  <2>1. pcN # "over" /\ UNCHANGED settings /\ NoScreen \in Image
    BY <1>1 DEF Wake, Image
  <2>2. \/ Assess(ui.stage, ui.progress, NoScreen)
        \/ UNCHANGED <<fatal>>
    BY <1>1 DEF Wake
  <2> QED BY <2>1, <2>2, AssessFounded DEF ReportInv
<1>2. CASE Read
  <2>1. pcN # "over" /\ UNCHANGED settings /\ frame \in Image /\ Assess(stage, progress, frame)
    BY <1>2 DEF Read, PollTypes
  <2> QED BY <2>1, AssessFounded
<1>3. CASE Answer
  <2>1. /\ pcN # "over" /\ UNCHANGED settings /\ frame \in Image /\ stalled \in BOOLEAN
        /\ Decide(frame, stalled, frame.dialog) \/ Decide(frame, stalled, FALSE)
    BY <1>3 DEF Answer, PollTypes
  <2> QED BY <2>1, DecideFounded
<1>4. CASE StopWatching
  BY <1>4 DEF StopWatching, ReportInv
<1>5. CASE Executor
  BY <1>5 DEF Executor, Observe, Classify, Close, CallEnds, ReportInv, Founded, require
<1>6. CASE ScreenChanges \/ PhaseStops \/ Act \/ UNCHANGED vars
  BY <1>6 DEF ScreenChanges, PhaseStops, Act, vars, ReportInv, Founded, require
<1> QED BY <1>1, <1>2, <1>3, <1>4, <1>5, <1>6 DEF Next, Coordinator

\* No phase is stopped for an anomaly that nobody saw: the evidence on disk shows a network
\* dialog, or a stall if no confirmation is required.
THEOREM FoundedReports == Spec => []ReportIsFounded
<1>1. Init => ReportInv
  BY DEF Init, ReportInv
<1>2. Spec => [](PollTypes /\ RestTypes)
  BY InitType, NextType, PTL DEF Spec
<1>3. ReportInv => ReportIsFounded
  BY DEF ReportInv, ReportIsFounded, Founded
<1> QED BY <1>1, <1>2, <1>3, StepFounded, PTL DEF Spec

-----------------------------------------------------------------------------
(* Background answers.                                                       *)

\* An answer is about the last screenshot of its merge; the graph that is off left no call.
EnrichInv ==
  /\ answer \in {None, "last"}
  /\ pcE = "off" => task.state # "running" /\ ~cancelled

LEMMA ExecutorEnriches ==
  ASSUME EnrichInv, RestTypes, Executor \/ Act PROVE EnrichInv'
<1> USE DEF coordinator, context, poll, tracker, executor, queue
<1>1. CASE Observe
  <2>1. answer' \in {None, "last"}
    BY <1>1 DEF Observe, Merged, EnrichInv
  <2>2. pcE' # "off"
    BY <1>1 DEF Observe
  <2> QED BY <2>1, <2>2 DEF EnrichInv
<1>2. CASE Classify
  BY <1>2 DEF Classify, EnrichInv
<1>3. CASE Close
  BY <1>3 DEF Close, NoTask, EnrichInv
<1>4. CASE CallEnds
  <2>1. pcE # "off"
    BY <1>4 DEF CallEnds, EnrichInv
  <2>2. UNCHANGED <<pcE, answer>>
    BY <1>4 DEF CallEnds
  <2> QED BY <2>1, <2>2 DEF EnrichInv
<1>5. CASE Act
  BY <1>5 DEF Act, EnrichInv, RestTypes
<1> QED BY <1>1, <1>2, <1>3, <1>4, <1>5 DEF Executor

\* No answer in the facts was merged for a screenshot that was already replaced, and when
\* the graph is off no call of the model runs on or waits for its end.
THEOREM FittingAnswers == Spec => []EnrichmentFits
<1>1. Init => EnrichInv
  BY DEF Init, EnrichInv
<1>2. ASSUME EnrichInv, RestTypes, [Next]_vars PROVE EnrichInv'
  <2> USE DEF coordinator, context, poll, tracker, executor, queue
  <2>1. CASE Coordinator
    <3>1. UNCHANGED <<pcE, answer, task, cancelled>>
      BY <2>1 DEF Coordinator, Wake, Read, Answer, StopWatching
    <3> QED BY <1>2, <3>1 DEF EnrichInv
  <2>2. CASE ScreenChanges \/ PhaseStops \/ UNCHANGED vars
    BY <1>2, <2>2 DEF ScreenChanges, PhaseStops, vars, EnrichInv
  <2> QED BY <1>2, <2>1, <2>2, ExecutorEnriches DEF Next
<1>3. Spec => [](PollTypes /\ RestTypes)
  BY InitType, NextType, PTL DEF Spec
<1>4. EnrichInv => EnrichmentFits
  <2>1. None # "older"
    BY WatchAssumption DEF Shot
  <2> QED BY <2>1 DEF EnrichInv, EnrichmentFits
<1> QED BY <1>1, <1>2, <1>3, <1>4, PTL DEF Spec
=============================================================================
