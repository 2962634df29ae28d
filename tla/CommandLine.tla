---------------------------- MODULE CommandLine ----------------------------
(***************************************************************************)
(* run_cli (cli/main.py, cli/parser.py): one invocation from its arguments *)
(* to its exit code, with the process that drives it through stdin and     *)
(* stdout. The run itself is Orchestrator's; here it emits events and      *)
(* returns a result, or raises.                                            *)
(***************************************************************************)
EXTENDS Naturals, Sequences

CONSTANTS
  ArgsUsed,    \* the command lines in use
  MaxLines,    \* bound: the lines of stdin
  MaxEvents,   \* bound: the events of a run
  Patient,     \* does the driver answer a permission request only when asked, or at the end?
  Fragile      \* may a write to stdout raise?

Formats == {"text", "json", "stream-json"}

\* What the parser makes of the arguments. An option may be given empty.
Given == {"no", "empty", "yes"}
Args ==
  [syntax : {"ok", "bad", "help"}, input : {"text", "stream-json"}, output : Formats,
   prompt : Given, latest : BOOLEAN, resume : Given]

\* The lines a driver may write: the three control messages, JSON objects of
\* another type, JSON that is no object (or whose type has no hash), and what is
\* no JSON.
Messages == {"user_message", "permission_decision", "interrupt"}
LineKinds == Messages \cup {"blank", "garbage", "array", "unknown"}

ASSUME ArgsAssumption == ArgsUsed \subseteq Args
ASSUME BoundAssumption == MaxLines \in Nat /\ MaxEvents \in Nat
ASSUME SwitchAssumption == Patient \in BOOLEAN /\ Fragile \in BOOLEAN

VARIABLES
  at, args,
  script,      \* the lines the driver means to write
  sent,        \* how many it has written
  eof,         \* it has closed its end
  taken,       \* how many of them the program has looked at
  msgs,        \* the control messages of the run
  prompt,      \* where the prompt came from
  events,      \* history: the events of the run
  out,         \* what stdout was given
  result,      \* the run's [code, message], once it has returned
  cause,       \* why it raised
  exit         \* the exit code

cliVars == <<at, args, script, sent, eof, taken, msgs, prompt, events, out, result, cause, exit>>

NoCode == 10
Ended == {"done", "escaped"}
NoResult == [code |-> NoCode, message |-> FALSE]
Events == {"event", "tool_permission_required"}

Init ==
  /\ at = "start"
  /\ args \in ArgsUsed
  /\ script \in UNION {[1..n -> LineKinds] : n \in 0..MaxLines}
  /\ sent = 0
  /\ eof = FALSE
  /\ taken = 0
  /\ msgs = <<>>
  /\ prompt = "none"
  /\ events = <<>>
  /\ out = <<>>
  /\ result = NoResult
  /\ cause = "none"
  /\ exit = NoCode

driver == <<script, sent, eof>>
Exit(n) == at' = "done" /\ exit' = n
Escape == at' = "escaped" /\ UNCHANGED exit
Goto(next) == at' = next /\ UNCHANGED exit
-----------------------------------------------------------------------------
(* The driver. *)

Write ==
  /\ ~eof /\ sent < Len(script)
  /\ (Patient /\ script[sent + 1] = "permission_decision") =>
       (\E i \in DOMAIN out : out[i] = "tool_permission_required") \/ at \in Ended
  /\ sent' = sent + 1
  /\ UNCHANGED <<at, args, script, eof, taken, msgs, prompt, events, out, result, cause, exit>>

Close ==
  /\ ~eof /\ sent = Len(script)
  /\ eof' = TRUE
  /\ UNCHANGED <<at, args, script, sent, taken, msgs, prompt, events, out, result, cause, exit>>
-----------------------------------------------------------------------------
(* The program. *)

\* validate_args: an empty prompt or session id counts as none.
Valid(a) ==
  /\ a.syntax = "ok"
  /\ ~(a.input = "stream-json" /\ a.prompt = "yes")
  /\ ~(a.latest /\ a.resume = "yes")

\* argparse leaves with SystemExit, for --help too.
Parse ==
  /\ at = "start"
  /\ IF Valid(args) THEN Goto("read") ELSE Exit(2)
  /\ UNCHANGED <<args, driver, taken, msgs, prompt, events, out, result, cause>>

\* stdin is read to its end, whatever the input format and the prompt are.
Read ==
  /\ at = "read" /\ eof
  /\ IF args.input = "text"
       THEN /\ prompt' = IF args.prompt = "no" THEN "stdin" ELSE "argument"
            /\ Goto("run")
       ELSE Goto("lines") /\ UNCHANGED prompt
  /\ UNCHANGED <<args, driver, taken, msgs, events, out, result, cause>>

\* Mutant: the type is not looked at.
AnyObject(l) == l \in Messages \cup {"unknown"}

Understood(l) == l \in Messages

\* One turn of the loop of _load_stream_json_messages. A line that is no object
\* has no `get`, and nothing catches that here.
TakeLine ==
  /\ at = "lines" /\ taken < Len(script)
  /\ LET l == script[taken + 1]
     IN  \/ l = "blank" /\ Goto("lines") /\ UNCHANGED msgs
         \/ Understood(l) /\ Goto("lines") /\ msgs' = Append(msgs, l)
         \/ l = "array" /\ Escape /\ UNCHANGED msgs
         \/ l \notin {"blank", "array"} /\ ~Understood(l) /\ Exit(2) /\ UNCHANGED msgs
  /\ taken' = taken + 1
  /\ UNCHANGED <<args, driver, prompt, events, out, result, cause>>

\* The first user message is the prompt.
HasPrompt == \E i \in DOMAIN msgs : msgs[i] = "user_message"

\* Mutant: the first user message ends the loop.
PromptTaken ==
  /\ at = "lines" /\ (taken = Len(script) \/ HasPrompt)
  /\ IF HasPrompt THEN prompt' = "message" /\ Goto("run") ELSE Exit(2) /\ UNCHANGED prompt
  /\ UNCHANGED <<args, driver, taken, msgs, events, out, result, cause>>

LinesTaken ==
  /\ at = "lines" /\ taken = Len(script)
  /\ IF HasPrompt THEN prompt' = "message" /\ Goto("run") ELSE Exit(2) /\ UNCHANGED prompt
  /\ UNCHANGED <<args, driver, taken, msgs, events, out, result, cause>>

\* A subscriber of the event bus writes each event; if that raises, so does the
\* run.
Emit ==
  /\ at = "run" /\ Len(events) < MaxEvents
  /\ \E e \in Events :
       /\ events' = Append(events, e)
       /\ \/ /\ out' = IF args.output = "stream-json" THEN Append(out, e) ELSE out
             /\ Goto("run")
             /\ UNCHANGED cause
          \/ /\ Fragile /\ args.output = "stream-json"
             /\ cause' = "stdout"
             /\ Exit(9)
             /\ UNCHANGED out
  /\ UNCHANGED <<args, driver, taken, msgs, prompt, result>>

\* Only a completed run has a message, and it may have none.
Return ==
  /\ at = "run"
  /\ \E c \in {0, 3, 4, 5, 6}, m \in BOOLEAN :
       /\ m => c = 0
       /\ result' = [code |-> c, message |-> m]
  /\ Goto("report")
  /\ UNCHANGED <<args, driver, taken, msgs, prompt, events, out, cause>>

\* "store": a transcript, a rule file or the index cannot be read or written.
RunRaises ==
  /\ at = "run"
  /\ cause' \in {"store", "other"}
  /\ Exit(9)
  /\ UNCHANGED <<args, driver, taken, msgs, prompt, events, out, result>>

\* Mutant: the text goes out in every format.
ReportText == IF result.message THEN <<"message">> ELSE <<>>

\* What is written after the run.
Report ==
  CASE args.output = "text" -> IF result.message THEN <<"message">> ELSE <<>>
    [] args.output = "json" -> <<"object">>
    [] OTHER -> <<>>

\* The write is outside the try of run_cli.
Finish ==
  /\ at = "report"
  /\ \/ out' = out \o Report /\ Exit(result.code)
     \/ Fragile /\ Report # <<>> /\ Escape /\ UNCHANGED out
  /\ UNCHANGED <<args, driver, taken, msgs, prompt, events, result, cause>>

Program == Parse \/ Read \/ TakeLine \/ LinesTaken \/ Emit \/ Return \/ RunRaises \/ Finish

Next == Program \/ Write \/ Close

Spec == Init /\ [][Next]_cliVars

\* The program runs whenever it can, and the driver does what it means to; that
\* the run ends is EveryRunEnds of RunProperties.
FairSpec ==
  Spec /\ WF_cliVars(Program) /\ WF_cliVars(Return \/ RunRaises) /\ WF_cliVars(Write \/ Close)
-----------------------------------------------------------------------------
(* What the command line promises. *)

\* Every variable has its type.
TypeOK ==
  /\ at \in {"start", "read", "lines", "run", "report"} \cup Ended
  /\ args \in ArgsUsed
  /\ sent \in 0..Len(script)
  /\ eof \in BOOLEAN
  /\ taken \in 0..Len(script)
  /\ msgs \in Seq(Messages)
  /\ prompt \in {"none", "argument", "stdin", "message"}
  /\ events \in Seq(Events)
  /\ out \in Seq(Events \cup {"message", "object"})
  /\ result \in [code : {0, 3, 4, 5, 6, NoCode}, message : BOOLEAN]
  /\ cause \in {"none", "store", "stdout", "other"}
  /\ exit \in {0, 2, 3, 4, 5, 6, 9, NoCode}

Started == at = "run" \/ events # <<>> \/ result # NoResult \/ cause # "none"

\* m is the first n lines the driver means to write, without the blank ones, in
\* their order.
Gathered(m, n) ==
  \E f \in [DOMAIN m -> 1..n] :
    /\ \A i, j \in DOMAIN m : i < j => f[i] < f[j]
    /\ \A i \in DOMAIN m : m[i] = script[f[i]]
    /\ \A k \in 1..n : script[k] = "blank" \/ \E i \in DOMAIN m : f[i] = k

\* A run only starts on input that was understood to its end: the driver has
\* closed stdin, no line of it was dropped or is out of its place, there is a user
\* message, and the answers to permission requests that were written are there,
\* after it or before it (_load_stream_json_messages, run_cli).
RunsOnWholeInput ==
  (Started /\ args.input = "stream-json") =>
    /\ eof /\ sent = Len(script)
    /\ Gathered(msgs, Len(script)) /\ HasPrompt

\* stdout is what the format says for every exit code: nothing when the usage
\* was wrong, the events and nothing else in stream-json, one object for a run
\* that returned in json, failed or not, and in text at most the message. An
\* invocation that an exception ends has written nothing: either no run was begun,
\* or the run is over and it is its object or its message that could not be
\* written, so that a stream of events never ends so.
OutputMatchesExit ==
  /\ at = "escaped" =>
       /\ exit = NoCode /\ out = <<>> /\ cause = "none"
       /\ result = NoResult => ~Started
       /\ result # NoResult => args.output # "stream-json" /\ (args.output = "text" => result.message)
  /\ at = "done" =>
    /\ exit = 2 => ~Started /\ out = <<>>
    /\ exit = 9 <=> cause # "none"
    /\ exit \notin {2, 9} <=> result.code = exit
    /\ (args.output = "stream-json" /\ cause # "stdout") => out = events
    /\ args.output = "json" => out = IF exit \in {2, 9} THEN <<>> ELSE <<"object">>
    /\ args.output = "text" => out \in {<<>>, <<"message">>} /\ (out # <<>> => exit = 0)
-----------------------------------------------------------------------------
(* Documented and not kept. *)

\* run_cli is the "single top-level exception boundary" (docs/spec.md:144).
NothingEscapes == at # "escaped"

\* "prompt from positional arg if present, else read full stdin, if neither:
\* usage error" (docs/spec.md:238).
PromptRequired ==
  (Started /\ args.input = "text") => args.prompt = "yes" \/ \E i \in DOMAIN script : script[i] # "blank"

\* "8 transcript persistence/resume corruption" (docs/spec.md:285).
CorruptionHasItsCode == (at = "done" /\ cause = "store") => exit = 8

\* An "interactive decision channel exists" with stream-json input
\* (docs/spec.md:270-271), and control messages may come "mid-run" (docs/spec.md:259):
\* a driver that sends a message and waits to be asked or told the end sees one.
DriverServed ==
  script = <<"user_message", "permission_decision">> => <>(at \in Ended)
=============================================================================
