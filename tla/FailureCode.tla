----------------------------- MODULE FailureCode -----------------------------
(***************************************************************************)
(* models/run_failure.py: which error code a failed attempt gets, from the *)
(* text of the reason and, if there is one, from the exception.            *)
(*                                                                         *)
(* A text is the code it begins with, if it does, and the marks in it: the *)
(* words and lists of words the rules look for.                            *)
(***************************************************************************)
EXTENDS Naturals, FiniteSetsExt

NoCode == "no code"

\* Another attempt may help against E2, never against E1.
Network == {"E2001", "E2002", "E2003", "E2004", "E2005", "E2006"}
Codes == Network \union
  {"E1000", "E1001", "E1002", "E1003", "E1004", "E1005", "E1006", "E1007",
   "E1008", "E1009", "E1010", "E1011"}

\* "anomaly": a confirmed or screen anomaly; "modify", "local", "network": the
\* three lists of substrings; the others are words of their own ("E2006": that
\* code anywhere but in front).
Marks == {"log", "anomaly", "modify", "local", "preprocess", "deploy", "fails",
          "auth", "probe", "absent", "timeout", "name", "network", "session",
          "download", "plugin", "idle", "toolChoice", "E2006"}

Text(code, marks) == [code |-> code, marks |-> marks]

\* classify_failure asks in this order; the first rule whose marks are all in
\* the text decides, and a text without any is E1000.
TextRules ==
  << [has |-> {"log"},                        code |-> "E1000"],
     [has |-> {"anomaly"},                    code |-> "E2002"],
     [has |-> {"modify"},                     code |-> "E1006"],
     [has |-> {"local", "preprocess"},        code |-> "E1005"],
     [has |-> {"local", "deploy", "fails"},   code |-> "E1004"],
     [has |-> {"local", "auth"},              code |-> "E1002"],
     [has |-> {"local", "probe"},             code |-> "E1007"],
     [has |-> {"local", "absent"},            code |-> "E1009"],
     [has |-> {"local", "timeout"},           code |-> "E1010"],
     [has |-> {"local", "name"},              code |-> "E1001"],
     [has |-> {"local"},                      code |-> "E1008"],
     [has |-> {"network", "session"},         code |-> "E2003"],
     [has |-> {"network", "download"},        code |-> "E2005"],
     [has |-> {"network"},                    code |-> "E2004"],
     [has |-> {"deploy", "fails"},            code |-> "E1004"],
     [has |-> {"plugin"},                     code |-> "E1006"],
     [has |-> {"idle"},                       code |-> "E1011"],
     [has |-> {},                             code |-> "E1000"] >>

ByMarks(marks) ==
  TextRules[Min({i \in DOMAIN TextRules : TextRules[i].has \subseteq marks})].code

\* A text that begins with a code keeps it.
ClassifyText(text) ==
  IF text.code # NoCode THEN text.code ELSE ByMarks(text.marks)

\* f"{context} {msg}": only the first text can begin with a code.
Joined(context, msg) == Text(context.code, context.marks \union msg.marks)

\* The classes of exception that have a rule of their own; any other is judged
\* by the two texts.
ClassifyException(class, context, msg) ==
  CASE class = "ShutdownRequested"   -> "E1000"
    [] class = "ConfigPatchLlm"      -> "E1003"
    [] class = "ConfigPatchRejected" -> "E1006"
    [] class = "ConfigPatchGeneration" -> "E1006"
    [] class = "DeployPhase" ->
         IF ClassifyText(msg) \in Network THEN ClassifyText(msg) ELSE "E1004"
    [] class = "NameError"           -> "E1001"
    [] class = "other" ->
         IF "auth" \in Joined(context, msg).marks THEN "E1002"
         ELSE IF "toolChoice" \in Joined(context, msg).marks THEN "E1003"
         ELSE ClassifyText(Joined(context, msg))

\* RunFailure.format: the code comes first, whatever the message began with.
Format(code, text) == Text(code, text.marks)
=============================================================================
