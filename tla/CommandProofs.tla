---------------------------- MODULE CommandProofs ----------------------------
(***************************************************************************)
(* Theorems about the command line, for any arguments, any lines on stdin, *)
(* any number of events and a stdout that may fail at any write. The       *)
(* invariant says what is known of the input while it is taken line by     *)
(* line, and of stdout from the first event to the exit code.              *)
(***************************************************************************)
EXTENDS CommandLine, SequenceTheorems, TLAPS

\* Where the run has not begun.
Before == {"start", "read", "lines"}

\* The input, as far as it was looked at.
InputInv ==
  /\ script \in Seq(LineKinds)
  /\ at \in {"lines", "run", "report"} \/ Started => eof
  /\ eof => sent = Len(script)
  /\ at \in {"start", "read"} => taken = 0 /\ msgs = <<>>
  /\ at = "lines" => Gathered(msgs, taken)
  /\ RunsOnWholeInput

\* What stdout holds while nothing failed.
Spoken == out = IF args.output = "stream-json" THEN events ELSE <<>>

\* stdout and the result, at each place.
OutputInv ==
  /\ at \notin Ended => exit = NoCode
  /\ at \in Before => ~Started /\ out = <<>>
  /\ at = "run" => cause = "none" /\ result = NoResult /\ Spoken
  /\ at = "report" =>
       /\ cause = "none" /\ Spoken
       /\ result.code # NoCode /\ (result.message => result.code = 0)
  /\ OutputMatchesExit

CommandInv == TypeOK /\ InputInv /\ OutputInv
-----------------------------------------------------------------------------
(* Types. *)

Said == Events \cup {"message", "object"}

LEMMA ReportSaid == Report \in Seq(Said)
<1>1. <<>> \in Seq(Said) /\ <<"message">> \in Seq(Said) /\ <<"object">> \in Seq(Said)
  BY DEF Said
<1> QED BY <1>1 DEF Report

LEMMA InitTypes == Init => TypeOK /\ script \in Seq(LineKinds)
<1> SUFFICES ASSUME Init PROVE TypeOK /\ script \in Seq(LineKinds)
  OBVIOUS
<1>1. PICK n \in 0..MaxLines : script \in [1..n -> LineKinds]
  BY DEF Init
<1>2. script \in Seq(LineKinds) /\ Len(script) \in Nat
  BY <1>1, BoundAssumption, SeqDef, LenProperties
<1>3. 0 \in 0..Len(script)
  BY <1>2
<1>4. msgs \in Seq(Messages) /\ events \in Seq(Events) /\ out \in Seq(Said)
  BY EmptySeq DEF Init
<1>5. result \in [code : {0, 3, 4, 5, 6, NoCode}, message : BOOLEAN]
  BY DEF Init, NoResult
<1> QED BY <1>2, <1>3, <1>4, <1>5 DEF Init, TypeOK, NoCode, Said

LEMMA TypeNext ==
  ASSUME TypeOK, script \in Seq(LineKinds), [Next]_cliVars
  PROVE  TypeOK' /\ UNCHANGED script
<1>0. Len(script) \in Nat /\ script' = script
  BY LenProperties DEF Next, Program, Parse, Read, TakeLine, LinesTaken, Emit, Return, RunRaises, Finish,
     Write, Close, driver, cliVars
<1>1. CASE Parse
  BY <1>0, <1>1 DEF TypeOK, Parse, driver, Goto, Exit, Ended
<1>2. CASE Read
  BY <1>0, <1>2 DEF TypeOK, Read, driver, Goto, Ended
<1>3. CASE TakeLine
  <2>1. taken + 1 \in 0..Len(script)
    BY <1>0, <1>3 DEF TypeOK, TakeLine
  <2>2. msgs' \in Seq(Messages)
    <3>1. \A l \in Messages : Append(msgs, l) \in Seq(Messages)
      BY AppendProperties DEF TypeOK
    <3> QED BY <1>3, <3>1 DEF TypeOK, TakeLine, Understood
  <2>3. at' \in {"lines", "done", "escaped"} /\ exit' \in {exit, 2}
    BY <1>3 DEF TakeLine, Goto, Exit, Escape
  <2>4. UNCHANGED <<args, driver, prompt, events, out, result, cause>> /\ taken' = taken + 1
    BY <1>3 DEF TakeLine
  <2> QED BY <1>0, <2>1, <2>2, <2>3, <2>4 DEF TypeOK, driver, Ended
<1>4. CASE LinesTaken
  BY <1>0, <1>4 DEF TypeOK, LinesTaken, driver, Goto, Exit, Ended
<1>5. CASE Emit
  <2>1. PICK e \in Events :
          events' = Append(events, e) /\ (out' = Append(out, e) \/ out' = out)
    BY <1>5 DEF Emit
  <2>2. events' \in Seq(Events)
    BY <2>1, AppendProperties DEF TypeOK
  <2>3. out \in Seq(Said) /\ e \in Said
    BY <2>1 DEF TypeOK, Said
  <2>4. out' \in Seq(Said)
    <3>1. Append(out, e) \in Seq(Said)
      BY <2>3, AppendProperties
    <3> QED BY <2>1, <2>3, <3>1
  <2>5. at' \in {"run", "done"} /\ exit' \in {exit, 9} /\ cause' \in {cause, "stdout"}
    BY <1>5 DEF Emit, Goto, Exit
  <2> QED BY <1>0, <1>5, <2>2, <2>4, <2>5 DEF TypeOK, Emit, driver, Ended, Said
<1>6. CASE Return
  <2>1. PICK c \in {0, 3, 4, 5, 6}, m \in BOOLEAN : result' = [code |-> c, message |-> m]
    BY <1>6 DEF Return
  <2>2. result' \in [code : {0, 3, 4, 5, 6, NoCode}, message : BOOLEAN]
    BY <2>1
  <2> QED BY <1>0, <1>6, <2>2 DEF TypeOK, Return, driver, Goto, Ended
<1>7. CASE RunRaises
  BY <1>0, <1>7 DEF TypeOK, RunRaises, driver, Exit, Ended
<1>8. CASE Finish
  <2>1. out \in Seq(Said) /\ out \o Report \in Seq(Said)
    BY ReportSaid, ConcatProperties DEF TypeOK, Said
  <2>2. result.code \in {0, 2, 3, 4, 5, 6, 9, NoCode}
    BY DEF TypeOK
  <2>3. at' \in Ended /\ exit' \in {exit, result.code} /\ out' \in {out, out \o Report}
    BY <1>8 DEF Finish, Exit, Escape, Ended
  <2>4. UNCHANGED <<args, driver, taken, msgs, prompt, events, result, cause>>
    BY <1>8 DEF Finish
  <2>5. exit' \in {0, 2, 3, 4, 5, 6, 9, NoCode}
    BY <2>2, <2>3 DEF TypeOK
  <2>6. out' \in Seq(Said)
    BY <2>1, <2>3
  <2>7. at' \in {"start", "read", "lines", "run", "report"} \cup Ended
    BY <2>3
  <2> QED BY <1>0, <2>4, <2>5, <2>6, <2>7 DEF TypeOK, driver, Said
<1>9. CASE Write \/ Close
  <2>1. CASE sent < Len(script) /\ sent' = sent + 1 /\ eof' = eof
    BY <1>0, <1>9, <2>1 DEF TypeOK, Write, Close
  <2>2. CASE sent' = sent /\ eof' = TRUE
    BY <1>0, <1>9, <2>2 DEF TypeOK, Write, Close
  <2>3. QED BY <1>9, <2>1, <2>2 DEF Write, Close
<1>10. CASE UNCHANGED cliVars
  BY <1>0, <1>10 DEF TypeOK, cliVars
<1> QED BY <1>1, <1>2, <1>3, <1>4, <1>5, <1>6, <1>7, <1>8, <1>9, <1>10 DEF Next, Program
-----------------------------------------------------------------------------
(* The input. *)

\* A line that is understood joins those gathered, a blank one leaves them.
LEMMA GatherLine ==
  ASSUME TypeOK, script \in Seq(LineKinds), taken < Len(script), Gathered(msgs, taken),
         NEW l, l = script[taken + 1]
  PROVE  /\ l = "blank" => Gathered(msgs, taken + 1)
         /\ l \in Messages => Gathered(Append(msgs, l), taken + 1)
<1>0. /\ taken \in Nat /\ msgs \in Seq(Messages) /\ Len(msgs) \in Nat
      /\ DOMAIN msgs = 1..Len(msgs)
  BY LenProperties DEF TypeOK
<1>1. PICK f \in [DOMAIN msgs -> 1..taken] :
        /\ \A i, j \in DOMAIN msgs : i < j => f[i] < f[j]
        /\ \A i \in DOMAIN msgs : msgs[i] = script[f[i]]
        /\ \A k \in 1..taken : script[k] = "blank" \/ \E i \in DOMAIN msgs : f[i] = k
  BY DEF Gathered
<1>2. \A k \in 1..(taken + 1) : k \in 1..taken \/ k = taken + 1
  BY <1>0
<1>3. \A i \in DOMAIN msgs : f[i] \in 1..(taken + 1) /\ f[i] < taken + 1
  BY <1>0, <1>1
<1>4. ASSUME l = "blank" PROVE Gathered(msgs, taken + 1)
  <2>1. f \in [DOMAIN msgs -> 1..(taken + 1)]
    BY <1>1, <1>3
  <2>2. \A k \in 1..(taken + 1) : script[k] = "blank" \/ \E i \in DOMAIN msgs : f[i] = k
    BY <1>1, <1>2, <1>4
  <2> QED BY <1>1, <2>1, <2>2 DEF Gathered
<1>5. ASSUME l \in Messages PROVE Gathered(Append(msgs, l), taken + 1)
  <2> DEFINE m == Append(msgs, l)
             g == [i \in DOMAIN m |-> IF i \in DOMAIN msgs THEN f[i] ELSE taken + 1]
             n == Len(msgs) + 1
  <2>1. /\ m \in Seq(Messages) /\ Len(m) = n
        /\ \A i \in 1..Len(msgs) : m[i] = msgs[i]
        /\ m[n] = l
    BY <1>0, <1>5, AppendProperties
  <2>2. DOMAIN m = 1..n
    BY <2>1, LenProperties
  <2> HIDE DEF m
  <2>3. /\ \A i \in DOMAIN m : i \in DOMAIN msgs \/ i = n
        /\ n \in DOMAIN m /\ n \notin DOMAIN msgs /\ DOMAIN msgs \subseteq DOMAIN m
        /\ \A i \in DOMAIN m : ~(n < i)
    BY <1>0, <2>2
  <2>4. /\ g[n] = taken + 1
        /\ \A i \in DOMAIN msgs : g[i] = f[i]
    BY <2>3
  <2>5. g \in [DOMAIN m -> 1..(taken + 1)]
    BY <1>0, <1>3
  <2> HIDE DEF g
  <2>6. \A i, j \in DOMAIN m : i < j => g[i] < g[j]
    BY <1>1, <1>3, <2>3, <2>4
  <2>7. \A i \in DOMAIN m : m[i] = script[g[i]]
    BY <1>0, <1>1, <2>1, <2>3, <2>4
  <2>8. \A k \in 1..(taken + 1) : script[k] = "blank" \/ \E i \in DOMAIN m : g[i] = k
    BY <1>1, <1>2, <2>3, <2>4
  <2>9. Gathered(m, taken + 1)
    BY <2>5, <2>6, <2>7, <2>8 DEF Gathered
  <2> QED BY <2>9 DEF m
<1> QED BY <1>4, <1>5

\* A step that takes no line, and begins no run but from a whole input.
LEMMA InputKept ==
  ASSUME InputInv, UNCHANGED <<script, args, taken, msgs>>,
         at' \in {"start", "read"} => at \in {"start", "read"},
         at' = "lines" => (at = "lines" \/ Gathered(msgs, taken)),
         at' \in {"lines", "run", "report"} \/ Started' => eof,
         eof' => sent' = Len(script), eof => eof',
         Started' /\ args.input = "stream-json" =>
           Started \/ (Gathered(msgs, Len(script)) /\ HasPrompt)
  PROVE  InputInv'
<1>1. /\ Gathered(msgs, taken)' = Gathered(msgs, taken)
      /\ Gathered(msgs, Len(script))' = Gathered(msgs, Len(script))
      /\ HasPrompt' = HasPrompt
  BY DEF Gathered, HasPrompt
<1> QED BY <1>1 DEF InputInv, RunsOnWholeInput

LEMMA InputNext ==
  ASSUME TypeOK, InputInv, OutputInv, [Next]_cliVars, UNCHANGED script
  PROVE  InputInv'
<1>0. at \in Before => ~Started
  BY DEF OutputInv
<1>1. CASE Parse
  <2>1. at = "start" /\ at' \in {"read", "done"} /\ ~Started'
    BY <1>0, <1>1 DEF Parse, Goto, Exit, Started, Before
  <2> QED BY <1>1, <2>1, InputKept DEF Parse, driver, InputInv
<1>2. CASE Read
  <2>1. at = "read" /\ at' \in {"lines", "run"} /\ eof /\ ~Started
    BY <1>0, <1>2 DEF Read, Goto, Before
  <2>2. Gathered(msgs, taken)
    <3>1. taken = 0 /\ msgs = <<>> /\ DOMAIN msgs = {}
      BY <2>1 DEF InputInv
    <3>2. /\ [i \in DOMAIN msgs |-> 0] \in [DOMAIN msgs -> 1..taken]
          /\ \A k \in 1..taken : FALSE
      BY <3>1
    <3> QED BY <3>1, <3>2 DEF Gathered
  <2>3. args.input # "text" => at' = "lines" /\ ~Started'
    BY <1>2, <2>1 DEF Read, Goto, Started
  <2>4. args.input = "stream-json" => ~Started'
    BY <2>3
  <2> QED BY <1>2, <2>1, <2>2, <2>4, InputKept DEF Read, driver, InputInv
<1>3. CASE TakeLine
  <2>1. /\ at = "lines" /\ taken < Len(script) /\ ~Started /\ eof
        /\ UNCHANGED <<args, sent, eof, events, result, cause>> /\ taken' = taken + 1
        /\ at' \in {"lines", "done", "escaped"}
    BY <1>0, <1>3 DEF TakeLine, driver, Goto, Exit, Escape, Before, InputInv
  <2>2. ~Started'
    BY <2>1 DEF Started
  <2>3. /\ script[taken + 1] = "blank" => Gathered(msgs, taken + 1)
        /\ script[taken + 1] \in Messages => Gathered(Append(msgs, script[taken + 1]), taken + 1)
    BY <2>1, GatherLine DEF InputInv
  <2>4. at' = "lines" => \/ script[taken + 1] = "blank" /\ UNCHANGED msgs
                         \/ script[taken + 1] \in Messages /\ msgs' = Append(msgs, script[taken + 1])
    BY <1>3 DEF TakeLine, Goto, Exit, Escape, Understood
  <2>5. ASSUME at' = "lines" PROVE Gathered(msgs, taken)'
    <3>1. Gathered(msgs', taken')
      BY <2>1, <2>3, <2>4, <2>5
    <3> QED BY <3>1 DEF Gathered
  <2> QED BY <2>1, <2>2, <2>5 DEF InputInv, RunsOnWholeInput
<1>4. CASE LinesTaken
  <2>1. /\ at = "lines" /\ taken = Len(script) /\ ~Started /\ eof
        /\ UNCHANGED <<args, sent, eof, events, result, cause, taken, msgs>>
        /\ (at' = "run" /\ HasPrompt) \/ at' = "done"
    BY <1>0, <1>4 DEF LinesTaken, driver, Goto, Exit, Before, InputInv
  <2>2. Started' => HasPrompt
    BY <2>1 DEF Started
  <2>3. Gathered(msgs, Len(script)) /\ sent = Len(script)
    BY <2>1 DEF InputInv
  <2> QED BY <2>1, <2>2, <2>3, InputKept
<1>5. CASE Emit \/ Return \/ RunRaises
  <2>1. at = "run" /\ at' \in {"run", "report", "done"} /\ UNCHANGED <<args, driver, taken, msgs>>
    BY <1>5 DEF Emit, Return, RunRaises, Goto, Exit
  <2>2. Started
    BY <2>1 DEF Started
  <2> QED BY <2>1, <2>2, InputKept DEF InputInv, driver
<1>6. CASE Finish
  <2>1. at = "report" /\ at' \in Ended /\ UNCHANGED <<args, driver, taken, msgs, events, result, cause>>
    BY <1>6 DEF Finish, Exit, Escape, Ended
  <2>2. Started' => Started
    BY <2>1 DEF Started, Ended
  <2> QED BY <2>1, <2>2, InputKept DEF InputInv, driver, Ended
<1>7. CASE Write \/ Close \/ UNCHANGED cliVars
  <2>1. /\ UNCHANGED <<at, args, taken, msgs, events, result, cause>>
        /\ UNCHANGED <<sent, eof>> \/ (~eof /\ eof' = eof) \/ (sent = Len(script) /\ sent' = sent)
        /\ eof => eof'
    BY <1>7 DEF Write, Close, cliVars
  <2>2. Started' = Started
    BY <2>1 DEF Started
  <2> QED BY <2>1, <2>2, InputKept DEF InputInv
<1> QED BY <1>1, <1>2, <1>3, <1>4, <1>5, <1>6, <1>7 DEF Next, Program
-----------------------------------------------------------------------------
(* stdout and the exit code. *)

LEMMA OutputNext ==
  ASSUME TypeOK, OutputInv, [Next]_cliVars
  PROVE  OutputInv'
<1>0. /\ args \in Args /\ args.output \in Formats
      /\ result.code \in {0, 3, 4, 5, 6, NoCode} /\ result.code \notin {2, 9}
  BY ArgsAssumption DEF TypeOK, Args, NoCode
<1>1. CASE Parse
  <2>1. /\ at = "start" /\ at' \in {"read", "done"}
        /\ at' = "done" => exit' = 2
        /\ at' # "done" => exit' = exit
        /\ UNCHANGED <<args, events, out, result, cause>>
    BY <1>1 DEF Parse, Goto, Exit
  <2>2. ~Started' /\ cause = "none" /\ events = <<>> /\ out = <<>>
    BY <2>1 DEF OutputInv, Before, Started
  <2> QED BY <1>0, <2>1, <2>2 DEF OutputInv, Before, Ended, OutputMatchesExit
<1>2. CASE Read \/ TakeLine \/ LinesTaken
  <2>1. /\ at \in {"read", "lines"} /\ at' \in {"lines", "run", "done", "escaped"}
        /\ at' = "done" => exit' = 2
        /\ at' # "done" => exit' = exit
        /\ UNCHANGED <<args, events, out, result, cause>>
    BY <1>2 DEF Read, TakeLine, LinesTaken, Goto, Exit, Escape
  <2>2. /\ at' # "run" => ~Started'
        /\ cause = "none" /\ events = <<>> /\ out = <<>> /\ result = NoResult
    BY <2>1 DEF OutputInv, Before, Started
  <2> QED BY <1>0, <2>1, <2>2 DEF OutputInv, Before, Ended, OutputMatchesExit, Spoken
<1>3. CASE Emit
  <2>0. at = "run" /\ cause = "none" /\ result = NoResult /\ Spoken /\ exit = NoCode
    BY <1>3 DEF Emit, OutputInv, Ended
  <2>1. PICK e \in Events :
          /\ events' = Append(events, e)
          /\ \/ /\ out' = IF args.output = "stream-json" THEN Append(out, e) ELSE out
                /\ Goto("run")
                /\ UNCHANGED cause
             \/ /\ args.output = "stream-json" /\ cause' = "stdout" /\ Exit(9)
                /\ UNCHANGED out
    BY <1>3 DEF Emit
  <2>2. UNCHANGED <<args, result>>
    BY <1>3 DEF Emit
  <2>3. CASE Goto("run") /\ UNCHANGED cause
    BY <1>0, <2>0, <2>1, <2>2, <2>3 DEF Goto, Exit, OutputInv, Spoken, Before, Ended, OutputMatchesExit
  <2>4. CASE args.output = "stream-json" /\ cause' = "stdout" /\ Exit(9)
    BY <1>0, <2>0, <2>2, <2>4 DEF Exit, OutputInv, Before, Ended, OutputMatchesExit
  <2> QED BY <2>1, <2>3, <2>4
<1>4. CASE Return
  <2>0. at = "run" /\ cause = "none" /\ Spoken /\ exit = NoCode
    BY <1>4 DEF Return, OutputInv, Ended
  <2>1. /\ at' = "report" /\ UNCHANGED <<args, events, out, cause, exit>>
        /\ result'.code # NoCode /\ (result'.message => result'.code = 0)
    BY <1>4 DEF Return, Goto, NoCode
  <2> QED BY <2>0, <2>1 DEF OutputInv, Spoken, Before, Ended, OutputMatchesExit
<1>5. CASE RunRaises
  <2>0. at = "run" /\ Spoken /\ exit = NoCode
    BY <1>5 DEF RunRaises, OutputInv, Ended
  <2>1. /\ at' = "done" /\ exit' = 9 /\ cause' \in {"store", "other"}
        /\ UNCHANGED <<args, events, out, result>>
    BY <1>5 DEF RunRaises, Exit
  <2> QED BY <1>0, <2>0, <2>1 DEF OutputInv, Spoken, Before, Ended, OutputMatchesExit
<1>6. CASE Finish
  <2>0. /\ at = "report" /\ cause = "none" /\ Spoken
        /\ result.code \in {0, 3, 4, 5, 6} /\ (result.message => result.code = 0)
    BY <1>0, <1>6 DEF Finish, OutputInv
  <2>1. /\ UNCHANGED <<args, events, result, cause>>
        /\ \/ at' = "done" /\ exit' = result.code /\ out' = out \o Report
           \/ at' = "escaped" /\ Report # <<>> /\ UNCHANGED <<exit, out>>
    BY <1>6 DEF Finish, Exit, Escape
  <2>2. CASE at' = "escaped" /\ Report # <<>> /\ UNCHANGED <<exit, out>>
    <3>1. args.output # "stream-json" /\ (args.output = "text" => result.message)
      BY <1>0, <2>2 DEF Report
    <3>2. result # NoResult /\ out = <<>> /\ exit = NoCode
      BY <2>0, <3>1 DEF NoResult, NoCode, Spoken, OutputInv, Ended
    <3> QED BY <2>0, <2>1, <2>2, <3>1, <3>2 DEF OutputInv, Before, Ended, OutputMatchesExit
  <2>3. CASE at' = "done" /\ exit' = result.code /\ out' = out \o Report
    <3>1. events \in Seq(Events) /\ <<>> \o Report = Report /\ events \o <<>> = events
      BY ReportSaid, ConcatProperties DEF TypeOK
    <3>2. /\ args.output = "stream-json" => out' = events
          /\ args.output = "json" => out' = <<"object">>
          /\ args.output = "text" => out' = IF result.message THEN <<"message">> ELSE <<>>
      BY <2>0, <2>3, <3>1 DEF Spoken, Report
    <3> QED BY <2>0, <2>1, <2>3, <3>2 DEF OutputInv, Before, Ended, OutputMatchesExit
  <2> QED BY <2>1, <2>2, <2>3
<1>7. CASE Write \/ Close \/ UNCHANGED cliVars
  <2>1. UNCHANGED <<at, args, events, out, result, cause, exit>>
    BY <1>7 DEF Write, Close, cliVars
  <2> QED BY <2>1 DEF OutputInv, Spoken, Started, OutputMatchesExit
<1> QED BY <1>1, <1>2, <1>3, <1>4, <1>5, <1>6, <1>7 DEF Next, Program

LEMMA CommandInit == Init => CommandInv
<1> SUFFICES ASSUME Init PROVE CommandInv
  OBVIOUS
<1>1. ~Started
  BY DEF Init, Started
<1> QED BY <1>1, InitTypes DEF Init, CommandInv, InputInv, OutputInv, RunsOnWholeInput,
           OutputMatchesExit, Before, Ended

LEMMA CommandNext == CommandInv /\ [Next]_cliVars => CommandInv'
BY TypeNext, InputNext, OutputNext DEF CommandInv, InputInv

\* Every variable of an invocation keeps its type; the messages of a run are
\* control messages and nothing else (_load_stream_json_messages).
THEOREM CommandTypes == Spec => []TypeOK
<1>1. CommandInv => TypeOK
  BY DEF CommandInv
<1> QED BY <1>1, CommandInit, CommandNext, PTL DEF Spec

\* A run with stream-json input starts after the driver has closed stdin, on every
\* line that is not blank, each understood and in its place, and never without a
\* user message (run_cli, _load_stream_json_messages).
THEOREM RunsOnAllInput == Spec => []RunsOnWholeInput
<1>1. CommandInv => RunsOnWholeInput
  BY DEF CommandInv, InputInv
<1> QED BY <1>1, CommandInit, CommandNext, PTL DEF Spec

\* Whatever an invocation is given and wherever it fails, stdout is what the
\* format says for its exit code: nothing when the usage was wrong, the events and
\* nothing else, one object, or at most a message; and an exception that leaves
\* without an exit code leaves it empty, before a run or after it (run_cli).
THEOREM OutputTruthful == Spec => []OutputMatchesExit
<1>1. CommandInv => OutputMatchesExit
  BY DEF CommandInv, OutputInv
<1> QED BY <1>1, CommandInit, CommandNext, PTL DEF Spec
=============================================================================
