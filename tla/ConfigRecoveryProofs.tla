------------------------ MODULE ConfigRecoveryProofs -------------------------
(***************************************************************************)
(* The roll-back of the configuration, for any number of attempts, patches *)
(* and repairs.                                                            *)
(***************************************************************************)
EXTENDS ConfigRecovery, WellFoundedInduction, TLAPS

BeforeModify == {"attempt", "failed", "cleanup", "prepare"}
InModify == {"analyse", "ask", "apply", "deploy", "repair"}
Deploying == {"deploy", "repair"}

Types ==
  /\ start \in Configs
  /\ retry \in 1..Limit
  /\ games \in Configs /\ thisRound \in Configs
  /\ baseline \in Configs \union {None}
  /\ before \in [Attempts -> Configs \union {None}]
  /\ after \in [Attempts -> Configs \union {None}]
  /\ journal \in Seq(Entries)
  /\ hint \in 0..Limit
  /\ restored \in {"", "before", "baseline"}
  /\ pc \in {"apply", "deploy", "repair"} => patch \in Patches
  /\ pc \in BeforeModify \union InModify \union {"done"}

\* A round of Modify has an attempt to come.
RoundHasNext == pc \in InModify \union {"prepare"} => retry < Limit

\* Before Modify the backup of the last round is the start; in it, the new one.
BackupIsStart ==
  /\ pc \in BeforeModify /\ retry > 1 => before[retry] = start
  /\ pc \in InModify => before[retry + 1] = start

GamesIsThisRound ==
  /\ pc \in BeforeModify /\ retry = 1 => games = start
  /\ pc \in {"analyse", "ask", "apply"} => games = start
  /\ pc \in InModify => games = thisRound
  /\ pc = "attempt" /\ retry > 1 => games = thisRound /\ deployed = thisRound

\* The entry e is the one of the round for attempt n.
Tells(e, n) ==
  /\ e.next_attempt = n
  /\ e.patch.direct_patterns \subseteq games.direct_patterns
  /\ after[n] = ApplyPatch(start, e.patch)

JournalIsOfThisRound ==
  /\ pc \in Deploying => journal # << >> /\ Tells(journal[Len(journal)], retry + 1)
  /\ pc = "attempt" /\ retry > 1 =>
       journal # << >> /\ Tells(journal[Len(journal)], retry)

IInv == Types /\ RoundHasNext /\ BackupIsStart /\ GamesIsThisRound /\ JournalIsOfThisRound

-----------------------------------------------------------------------------
(* The edits.                                                              *)

LEMMA ApplyPatchType ==
  ASSUME NEW c \in Configs, NEW p,
         p.direct_patterns \in SUBSET Patterns, p.port_rules \in Tables
  PROVE  /\ ApplyPatch(c, p) \in Configs
         /\ c.direct_patterns \subseteq ApplyPatch(c, p).direct_patterns
         /\ p.direct_patterns \subseteq ApplyPatch(c, p).direct_patterns
<1>1. MergePortRules(c.port_rules, p.port_rules) \in Tables
  BY DEF MergePortRules, Tables, Configs
<1> QED BY <1>1 DEF ApplyPatch, Configs

LEMMA ApplyFixType ==
  ASSUME NEW c \in Configs, NEW f \in Fixes
  PROVE  /\ ApplyFix(c, f) \in Configs
         /\ c.direct_patterns \subseteq ApplyFix(c, f).direct_patterns
<1> DEFINE d == [c EXCEPT !.game_id = IF f.game_id = NoGid THEN "right" ELSE f.game_id]
<1>1. d \in Configs /\ d.direct_patterns = c.direct_patterns
  BY DEF Configs, Fixes, Gids
<1>2. f.direct_patterns \in SUBSET Patterns /\ f.port_rules \in Tables
  BY DEF Fixes
<1>3. ApplyPatch(d, f) \in Configs /\ d.direct_patterns \subseteq ApplyPatch(d, f).direct_patterns
  BY <1>1, <1>2, ApplyPatchType
<1> QED BY <1>1, <1>3 DEF ApplyFix

-----------------------------------------------------------------------------
(* The count of the attempts.                                              *)

LEMMA Counted ==
  ASSUME Types
  PROVE  /\ Limit \in Nat /\ retry \in Nat /\ retry \in 0..Limit
         /\ retry \in Attempts /\ retry + 1 \in Attempts
         /\ retry < 2 <=> retry = 1
         /\ retry > 1 <=> retry # 1
         /\ retry + 1 # 1
<1>1. Limit \in Nat /\ retry \in 1..Limit
  BY CountsAssumption DEF Types
<1> QED BY <1>1 DEF Attempts

LEMMA Successor ==
  ASSUME Types, retry < Limit
  PROVE  retry + 1 \in 1..Limit /\ retry + 1 > 1
<1>1. Limit \in Nat /\ retry \in 1..Limit
  BY CountsAssumption DEF Types
<1> QED BY <1>1

-----------------------------------------------------------------------------
(* The invariant.                                                          *)

LEMMA InitIInv == Init => IInv
<1> SUFFICES ASSUME Init PROVE IInv
  OBVIOUS
<1>1. start \in Configs
  BY DataAssumption DEF Init
<1>2. 1 \in 1..Limit /\ 0 \in 0..Limit /\ ~(1 > 1)
  BY CountsAssumption
<1>3. Types
  <2>1. retry \in 1..Limit /\ hint \in 0..Limit
    BY <1>2 DEF Init
  <2>2. /\ before \in [Attempts -> Configs \union {None}]
        /\ after \in [Attempts -> Configs \union {None}]
    BY DEF Init
  <2>3. journal \in Seq(Entries)
    <3>1. journal = << >>
      BY DEF Init
    <3> QED BY <3>1
  <2>4. start \in Configs /\ games \in Configs /\ thisRound \in Configs /\ baseline = None
    BY <1>1 DEF Init
  <2>5. pc = "attempt" /\ restored = ""
    BY DEF Init
  <2> QED
    BY <2>1, <2>2, <2>3, <2>4, <2>5 DEF Types, BeforeModify, InModify
<1> QED
  BY <1>2, <1>3
  DEF Init, IInv, RoundHasNext, BackupIsStart, GamesIsThisRound, JournalIsOfThisRound,
      BeforeModify, InModify, Deploying

LEMMA StepIInv == IInv /\ [Next]_vars => IInv'
<1> SUFFICES ASSUME IInv, [Next]_vars PROVE IInv'
  OBVIOUS
<1> USE DEF IInv, BeforeModify, InModify, Deploying
<1>1. CASE Pass
  BY <1>1 DEF Pass, End, given, files, judged, evidence, round, Types, RoundHasNext,
     BackupIsStart, GamesIsThisRound, JournalIsOfThisRound, Tells
<1>2. CASE PhaseFails
  <2>1. hint' \in 0..Limit
    BY <1>2, Counted DEF PhaseFails
  <2> QED
    BY <1>2, <2>1 DEF PhaseFails, given, files, evidence, round, Types, RoundHasNext,
       BackupIsStart, GamesIsThisRound, JournalIsOfThisRound, Tells
<1>3. CASE InitFails
  BY <1>3 DEF InitFails, given, files, judged, evidence, round, Types, RoundHasNext,
     BackupIsStart, GamesIsThisRound, JournalIsOfThisRound, Tells
<1>4. CASE Decide
  BY <1>4 DEF Decide, given, files, judged, evidence, round, Types, RoundHasNext,
     BackupIsStart, GamesIsThisRound, JournalIsOfThisRound, Tells
<1>5. CASE CleanUp
  BY <1>5, CountsAssumption DEF CleanUp, Collect, Give, End, WillRetry, given, files, judged, evidence,
     round, Types, RoundHasNext, BackupIsStart, GamesIsThisRound, JournalIsOfThisRound, Tells
<1>6. CASE Prepare
  <2>1. retry < Limit
    BY <1>6 DEF Prepare, RoundHasNext
  <2>2. start # None
    BY NoneAssumption DEF Types
  <2>3. games' = start
    <3>1. CASE retry = 1
      <4>1. RestoredFrom = ""
        BY <3>1, Counted DEF RestoredFrom
      <4> QED BY <1>6, <3>1, <4>1 DEF Prepare, Restored, GamesIsThisRound
    <3>2. CASE retry # 1
      <4>1. before[retry] = start
        BY <1>6, <3>2, Counted DEF Prepare, BackupIsStart
      <4>2. RestoredFrom = "before"
        BY <2>2, <3>2, <4>1, Counted DEF RestoredFrom
      <4> QED BY <1>6, <4>1, <4>2 DEF Prepare, Restored
    <3> QED BY <3>1, <3>2
  <2>4. before' \in [Attempts -> Configs \union {None}] /\ before'[retry + 1] = start
    BY <1>6, <2>3, Counted DEF Prepare, BackUpBefore, Types
  <2>5. Types'
    <3>1. restored' \in {"", "before", "baseline"}
      BY <1>6 DEF Prepare, RestoredFrom
    <3> QED BY <1>6, <2>3, <2>4, <3>1 DEF Prepare, BaselineFrom, given, judged,
           evidence, Types
  <2> QED
    BY <1>6, <2>1, <2>3, <2>4, <2>5 DEF Prepare, given, judged, evidence, RoundHasNext,
       BackupIsStart, GamesIsThisRound, JournalIsOfThisRound
<1>7. CASE Analyse
  BY <1>7 DEF Analyse, Give, End, given, files, judged, evidence, round, Types, RoundHasNext,
     BackupIsStart, GamesIsThisRound, JournalIsOfThisRound, Tells
<1>8. CASE Ask
  <2>1. Types'
    BY <1>8, DataAssumption DEF Ask, Propose, Give, End, given, files, evidence, Types
  <2> QED
    BY <1>8, <2>1 DEF Ask, Give, End, given, files, evidence, RoundHasNext, BackupIsStart,
       GamesIsThisRound, JournalIsOfThisRound, Tells
<1>9. CASE Apply
  <2>1. CASE pc' = "done"
    BY <1>9, <2>1 DEF Apply, Give, End, given, evidence, Types, RoundHasNext, BackupIsStart,
       GamesIsThisRound, JournalIsOfThisRound, Tells
  <2>2. CASE pc' = "deploy"
    <3> DEFINE new == ApplyPatch(start, patch)
    <3>0. /\ games' = ApplyPatch(games, patch) /\ thisRound' = ApplyPatch(thisRound, patch)
          /\ after' = [after EXCEPT ![retry + 1] = games']
          /\ journal' = Append(journal, Entry(retry))
          /\ pc = "apply"
          /\ UNCHANGED <<given, retry, baseline, before, deployed, hint, restored, patch>>
      BY <1>9, <2>2 DEF Apply, BackUpAfter, Record, Give, End
    <3>1. retry < Limit /\ retry \in Attempts /\ retry + 1 \in Attempts
      BY <3>0, Counted DEF RoundHasNext
    <3>2. games = start /\ thisRound = start /\ patch \in Patches /\ start \in Configs
      BY <3>0 DEF GamesIsThisRound, Types
    <3>3. new \in Configs /\ patch.direct_patterns \subseteq new.direct_patterns
      BY <3>2, ApplyPatchType DEF Patches
    <3>4. games' = new /\ thisRound' = new /\ UNCHANGED start
      BY <3>0, <3>2 DEF given
    <3>5. after' \in [Attempts -> Configs \union {None}] /\ after'[retry + 1] = new
      BY <3>0, <3>1, <3>3, <3>4 DEF Types
    <3>6. Entry(retry) \in Entries /\ Entry(retry).next_attempt = retry + 1
          /\ Entry(retry).patch = patch
      <4>1. hint # 0 => hint \in Attempts
        <5>1. Limit \in Nat /\ hint \in 0..Limit
          BY CountsAssumption DEF Types
        <5> QED BY <5>1 DEF Attempts
      <4> QED BY <3>1, <3>2, <4>1 DEF Entry, Entries, Types
    <3>7. journal' \in Seq(Entries) /\ journal' # << >>
          /\ journal'[Len(journal')] = Entry(retry)
      <4> DEFINE e == Entry(retry)
      <4>1. e \in Entries /\ journal \in Seq(Entries) /\ journal' = Append(journal, e)
        BY <3>0, <3>6 DEF Types
      <4> HIDE DEF e
      <4>2. journal' \in Seq(Entries) /\ journal' # << >> /\ journal'[Len(journal')] = e
        BY <4>1
      <4> QED BY <4>2 DEF e
    <3>8. Types'
      BY <2>2, <3>0, <3>2, <3>3, <3>4, <3>5, <3>7 DEF given, Types
    <3>9. Tells(journal[Len(journal)], retry + 1)'
      BY <3>0, <3>3, <3>4, <3>5, <3>6, <3>7 DEF Tells
    <3> QED
      BY <2>2, <3>0, <3>1, <3>4, <3>7, <3>8, <3>9 DEF given, RoundHasNext, BackupIsStart,
         GamesIsThisRound, JournalIsOfThisRound
  <2> QED BY <1>9, <2>1, <2>2 DEF Apply, Give, End
<1>10. CASE Deploy
  <2>1. CASE pc' = "attempt"
    <3>1. /\ deployed' = games /\ retry' = retry + 1 /\ pc = "deploy"
          /\ UNCHANGED <<given, files, hint, restored, patch, thisRound>>
      BY <1>10, <2>1 DEF Deploy, End, judged, round
    <3>2. retry < Limit
      BY <3>1 DEF RoundHasNext
    <3>3. retry' \in 1..Limit /\ retry' > 1 /\ retry' # 1
      BY <3>1, <3>2, Successor, Counted
    <3> QED
      BY <2>1, <3>1, <3>3 DEF given, files, Types, RoundHasNext, BackupIsStart,
         GamesIsThisRound, JournalIsOfThisRound, Tells
  <2>2. CASE pc' # "attempt"
    BY <1>10, <2>2 DEF Deploy, End, given, files, judged, evidence, round, Types, RoundHasNext,
       BackupIsStart, GamesIsThisRound, JournalIsOfThisRound, Tells
  <2> QED BY <2>1, <2>2
<1>11. CASE Repair
  <2>0. /\ pc = "repair" /\ pc' = "deploy"
        /\ UNCHANGED <<given, retry, baseline, before, after, journal, hint, restored, patch>>
    BY <1>11 DEF Repair, judged
  <2>1. games' = thisRound' /\ games' \in Configs
        /\ games.direct_patterns \subseteq games'.direct_patterns
    <3>1. games = thisRound /\ games \in Configs
      BY <2>0 DEF GamesIsThisRound, Types
    <3>2. CASE UNCHANGED <<games, thisRound>>
      BY <3>1, <3>2
    <3>3. ASSUME NEW fix \in Repairs, games' = ApplyFix(games, fix),
                 thisRound' = ApplyFix(thisRound, fix)
          PROVE  games' = thisRound' /\ games' \in Configs
                 /\ games.direct_patterns \subseteq games'.direct_patterns
      <4>1. fix \in Fixes
        BY DataAssumption
      <4>2. ApplyFix(games, fix) \in Configs
            /\ games.direct_patterns \subseteq ApplyFix(games, fix).direct_patterns
        BY <3>1, <4>1, ApplyFixType
      <4> QED BY <3>1, <3>3, <4>2
    <3> QED BY <1>11, <3>2, <3>3 DEF Repair
  <2>2. Types'
    BY <2>0, <2>1 DEF given, Types
  <2>3. JournalIsOfThisRound'
    BY <2>0, <2>1 DEF given, JournalIsOfThisRound, Tells
  <2> QED
    BY <2>0, <2>1, <2>2, <2>3 DEF given, RoundHasNext, BackupIsStart, GamesIsThisRound
<1>12. CASE UNCHANGED vars
  BY <1>12 DEF vars, given, files, judged, evidence, round, Types, RoundHasNext,
     BackupIsStart, GamesIsThisRound, JournalIsOfThisRound, Tells
<1> QED
  BY <1>1, <1>2, <1>3, <1>4, <1>5, <1>6, <1>7, <1>8, <1>9, <1>10, <1>11, <1>12
  DEF Next, Step, Terminated

-----------------------------------------------------------------------------
(* The theorems.                                                           *)

\* The invariant all others follow from.
THEOREM RollBack == Spec => []IInv
<1> QED BY InitIInv, StepIInv, PTL DEF Spec

\* For any number of attempts and whatever the model proposes, an attempt plays
\* the first configuration with the edits of one round (prepare_modify_stage).
THEOREM NoPileUp == Spec => []RoundsDoNotPileUp
<1>1. IInv => RoundsDoNotPileUp
  BY DEF IInv, GamesIsThisRound, RoundsDoNotPileUp
<1> QED BY <1>1, RollBack, PTL

\* restore_before_new_patch always finds the backup of the round it takes back.
THEOREM BackupFound == Spec => []RestoreFindsBackup
<1>1. IInv => RestoreFindsBackup
  BY NoneAssumption DEF IInv, Types, BackupIsStart, BeforeModify, RestoreFindsBackup
<1> QED BY <1>1, RollBack, PTL

\* The last journal entry, which the executor is told, is about what it plays.
THEOREM BriefIsTrue == Spec => []BriefIsOfThisRound
<1>1. IInv => BriefIsOfThisRound
  BY DEF IInv, BackupIsStart, GamesIsThisRound, JournalIsOfThisRound, Tells, BeforeModify,
     BriefIsOfThisRound
<1> QED BY <1>1, RollBack, PTL

-----------------------------------------------------------------------------
(* The code of a task that is given up.                                    *)

Failures == {Failed(reason, None, None) : reason \in PhaseReasons} \union InitFailures

\* A verdict is a code from Decide on, and the code of Network a task is given
\* up with is that verdict.
VerdictInv ==
  /\ pc # "done" => outcome = None
  /\ pc = "failed" => failure \in Failures
  /\ pc = "cleanup" => verdict \in Codes
  /\ verdict \in Codes \union {None}
  /\ NetworkOnlyWhenExhausted

LEMMA LeastExists ==
  ASSUME NEW S \in SUBSET Nat, S # {}
  PROVE  \E n \in S : \A m \in S : n <= m
<1> DEFINE less == OpToRel(<, Nat)
<1>1. PICK n \in S : \A m \in S : <<m, n>> \notin less
  BY NatLessThanWellFounded, WFMin
<1>2. ASSUME NEW m \in S PROVE n <= m
  <2>1. ~(m < n)
    BY <1>1 DEF OpToRel
  <2> QED BY <2>1
<1> QED BY <1>2

LEMMA MarksGiveCode == ASSUME NEW marks PROVE ByMarks(marks) \in Codes
<1> DEFINE hits == {i \in DOMAIN TextRules : TextRules[i].has \subseteq marks}
<1>1. DOMAIN TextRules = 1..18 /\ TextRules[18].has = {}
  BY DEF TextRules
<1>2. hits \in SUBSET Nat /\ 18 \in hits
  BY <1>1
<1>3. PICK n \in hits : \A m \in hits : n <= m
  BY <1>2, LeastExists
<1>4. Min(hits) \in DOMAIN TextRules
  BY <1>3 DEF Min
<1>5. \A i \in 1..18 : TextRules[i].code \in Codes
  BY DEF TextRules, Codes, Network
<1> QED BY <1>1, <1>4, <1>5 DEF ByMarks

LEMMA TextGivesCode ==
  ASSUME NEW text, text.code \in Codes \union {NoCode} PROVE ClassifyText(text) \in Codes
BY MarksGiveCode DEF ClassifyText

LEMMA FailureGivesCode == ASSUME NEW f \in Failures PROVE CodeOf(f) \in Codes
<1>1. f.reason.code \in Codes \union {NoCode}
  BY DEF Failures, InitFailures, PhaseReasons, ServerCheckFailed, Failed, Text, Codes
<1>2. CASE f.class = None
  BY <1>1, <1>2, TextGivesCode DEF CodeOf
<1>3. CASE f.class # None
  <2>1. f.class \in {"other", "NameError", "DeployPhase"} /\ f.msg.code = NoCode
    BY <1>3 DEF Failures, InitFailures, Failed, Text
  <2>2. Joined(f.reason, f.msg).code = f.reason.code
    BY DEF Joined, Text
  <2>3. /\ ClassifyText(f.msg) \in Codes
        /\ ClassifyText(Joined(f.reason, f.msg)) \in Codes
    BY <1>1, <2>1, <2>2, TextGivesCode
  <2>4. CodeOf(f) = ClassifyException(f.class, f.reason, f.msg)
    BY <1>3 DEF CodeOf
  <2>5. CASE f.class = "other"
    BY <2>3, <2>4, <2>5 DEF ClassifyException, Codes
  <2>6. CASE f.class = "NameError"
    BY <2>4, <2>6 DEF ClassifyException, Codes
  <2>7. CASE f.class = "DeployPhase"
    BY <2>3, <2>4, <2>7 DEF ClassifyException, Codes
  <2> QED BY <2>1, <2>5, <2>6, <2>7
<1> QED BY <1>2, <1>3

LEMMA InitVerdict == Init => VerdictInv
BY NoneAssumption DEF Init, VerdictInv, NetworkOnlyWhenExhausted, Codes

LEMMA StepVerdict == IInv /\ VerdictInv /\ [Next]_vars => VerdictInv'
<1> SUFFICES ASSUME IInv, VerdictInv, [Next]_vars PROVE VerdictInv'
  OBVIOUS
<1> USE NoneAssumption DEF VerdictInv, NetworkOnlyWhenExhausted, given, judged
<1>1. CASE Pass
  BY <1>1 DEF Pass, End
<1>2. CASE PhaseFails \/ InitFails
  BY <1>2 DEF PhaseFails, InitFails, Failures
<1>3. CASE Decide
  BY <1>3, FailureGivesCode DEF Decide
<1>4. CASE CleanUp
  <2>1. verdict \in Codes /\ NoCode \notin Codes
    BY <1>4 DEF CleanUp, Codes, Network, NoCode
  <2>2. ClassifyText(Format(verdict, failure.reason)) = verdict
    BY <2>1 DEF ClassifyText, Format, Text
  <2>3. Limit \in Nat /\ retry \in 1..Limit
    BY CountsAssumption DEF IInv, Types
  <2> QED BY <1>4, <2>1, <2>2, <2>3 DEF CleanUp, Give, End, WillRetry
<1>5. CASE Prepare \/ Deploy \/ Repair
  <2>1. pc # "done" /\ pc' # "failed" /\ pc' # "cleanup" /\ UNCHANGED verdict
    BY <1>5 DEF Prepare, Deploy, Repair, End
  <2>2. (pc' # "done" /\ UNCHANGED outcome) \/ (pc' = "done" /\ outcome' = "raised")
    BY <1>5 DEF Prepare, Deploy, Repair, End
  <2> QED BY <2>1, <2>2
<1>6. CASE Analyse \/ Ask \/ Apply
  <2>1. {"E1003", "E1006"} \subseteq Codes \ Network
    BY DEF Codes, Network
  <2>2. CASE \E code \in {"E1003", "E1006"} : Give(code)
    BY <2>1, <2>2 DEF Give, End
  <2>3. CASE pc' # "failed" /\ pc' # "cleanup" /\ pc # "done" /\ UNCHANGED <<verdict, outcome>>
    BY <2>3
  <2> QED BY <1>6, <2>2, <2>3 DEF Analyse, Ask, Apply
<1>7. CASE UNCHANGED vars
  BY <1>7 DEF vars
<1> QED
  BY <1>1, <1>2, <1>3, <1>4, <1>5, <1>6, <1>7 DEF Next, Step, Terminated

\* Whatever the reasons, exceptions and answers are, a task ends with an E2 code
\* only when no attempt is left or none was allowed (_on_attempt_failure).
THEOREM GivenUpWhenExhausted == Spec => []NetworkOnlyWhenExhausted
<1>1. VerdictInv => NetworkOnlyWhenExhausted
  BY DEF VerdictInv
<1> QED BY <1>1, RollBack, InitVerdict, StepVerdict, PTL DEF Spec

-----------------------------------------------------------------------------
(* Types.                                                                  *)

\* The tries of a patch and of a deploy are counted from one to their limit.
TriesInv ==
  /\ tries \in Nat
  /\ pc \in BeforeModify \union {"done"} => tries <= PatchTries + DeployTries
  /\ pc = "ask" => tries <= PatchTries
  /\ pc \in {"analyse", "apply"} => tries <= PatchTries + DeployTries
  /\ pc = "deploy" => tries <= DeployTries
  /\ pc = "repair" => tries < DeployTries

OtherTypes ==
  /\ retryOn \in BOOLEAN
  /\ deployed \in Configs \union {None}
  /\ log \subseteq {"marker", "line"} /\ analysed \in BOOLEAN
  /\ patch \in Patches \union {None}
  /\ outcome \in {None, "passed", "failed", "raised"}

LEMMA InitOther == Init => OtherTypes /\ TriesInv
<1> SUFFICES ASSUME Init PROVE OtherTypes /\ TriesInv
  OBVIOUS
<1>1. tries = 0 /\ pc = "attempt"
  BY DEF Init
<1>2. TriesInv
  BY <1>1, CountsAssumption DEF TriesInv, BeforeModify
<1>3. OtherTypes
  BY DEF Init, OtherTypes
<1> QED BY <1>2, <1>3

LEMMA StepOther == IInv /\ OtherTypes /\ [Next]_vars => OtherTypes'
<1> SUFFICES ASSUME IInv, OtherTypes, [Next]_vars PROVE OtherTypes'
  OBVIOUS
<1> USE DEF OtherTypes, given, evidence, round, End, Give
<1>1. CASE Pass \/ PhaseFails \/ InitFails \/ Decide
  BY <1>1 DEF Pass, PhaseFails, InitFails, Decide
<1>2. CASE CleanUp
  BY <1>2 DEF CleanUp, Collect
<1>3. CASE Prepare \/ Repair
  BY <1>3 DEF Prepare, Repair
<1>4. CASE Analyse \/ Apply
  BY <1>4 DEF Analyse, Apply
<1>5. CASE Ask
  BY <1>5, DataAssumption DEF Ask, Propose
<1>6. CASE Deploy
  BY <1>6 DEF Deploy, IInv, Types
<1>7. CASE UNCHANGED vars
  BY <1>7 DEF vars
<1> QED
  BY <1>1, <1>2, <1>3, <1>4, <1>5, <1>6, <1>7 DEF Next, Step, Terminated

LEMMA StepTries == TriesInv /\ [Next]_vars => TriesInv'
<1> SUFFICES ASSUME TriesInv, [Next]_vars PROVE TriesInv'
  OBVIOUS
<1> USE CountsAssumption DEF TriesInv, BeforeModify, End, Give
<1>1. CASE Pass \/ PhaseFails \/ InitFails \/ Decide
  BY <1>1 DEF Pass, PhaseFails, InitFails, Decide
<1>2. CASE CleanUp \/ Prepare
  BY <1>2 DEF CleanUp, Prepare
<1>3. CASE Analyse \/ Apply
  BY <1>3 DEF Analyse, Apply
<1>4. CASE Ask
  BY <1>4 DEF Ask
<1>5. CASE Deploy \/ Repair
  BY <1>5 DEF Deploy, Repair
<1>6. CASE UNCHANGED vars
  BY <1>6 DEF vars
<1> QED
  BY <1>1, <1>2, <1>3, <1>4, <1>5, <1>6 DEF Next, Step, Terminated

\* Types of the variables, with the bounds in them: the attempts of run(), the tries of the
\* model in _ask_patch and those of the deploy stay within the settings.
THEOREM TypeCorrect == Spec => []TypeOK
<1>1. IInv /\ VerdictInv /\ TriesInv /\ OtherTypes => TypeOK
  <2> SUFFICES ASSUME IInv, VerdictInv, TriesInv, OtherTypes PROVE TypeOK
    OBVIOUS
  <2>1. tries \in 0..(PatchTries + DeployTries)
    <3>1. /\ PatchTries \in Nat /\ DeployTries \in Nat /\ tries \in Nat
          /\ pc \in BeforeModify \union {"analyse", "ask", "apply", "deploy", "repair", "done"}
      BY CountsAssumption DEF TriesInv, IInv, Types, InModify
    <3>2. tries <= PatchTries + DeployTries
      BY <3>1 DEF TriesInv
    <3> QED BY <3>1, <3>2
  <2> QED BY <2>1 DEF IInv, Types, VerdictInv, OtherTypes, TypeOK, BeforeModify, InModify
<1> QED
  BY <1>1, RollBack, InitVerdict, StepVerdict, InitOther, StepOther, StepTries, PTL DEF Spec
=============================================================================
