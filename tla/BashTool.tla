------------------------------ MODULE BashTool ------------------------------
(***************************************************************************)
(* The Bash tool (tools/builtins/bash_tool.py): a session's commands, one  *)
(* call after the other, over subprocess.run with captured output and a    *)
(* timeout. The command is external: it may write, leave processes behind  *)
(* that keep its output open or not, and exit or not. ToolExecutor models  *)
(* a call of this tool as the one step Execute or ToolRaises.              *)
(***************************************************************************)
EXTENDS Naturals

CONSTANTS
  Limit,     \* _BASH_TIMEOUT_SECONDS, in ticks
  MaxCalls,  \* bound: the calls of the session
  Mortal     \* may the program be killed?

ASSUME LimitAssumption == Limit \in Nat
ASSUME CallBoundAssumption == MaxCalls \in Nat
ASSUME MortalAssumption == Mortal \in BOOLEAN

VARIABLES
  at,        \* where the tool stands
  command,   \* what becomes of the command of this call
  call,      \* its number, 0 before the first
  child,     \* the process of the command
  closed,    \* it has closed its output
  exit,      \* how it ended
  output,    \* what was written: is it text in the encoding of the locale?
  behind,    \* the processes left behind: <<call, keeps its output open>>
  clock,     \* ticks since the process was started
  result

bashVars == <<at, command, call, child, closed, exit, output, behind, clock, result>>

\* A command no quoting makes sense of, an empty one, one that names a path
\* outside the working directory, one there is no program for, and one that runs.
Commands == {"unparsable", "empty", "outside", "missing", "runs"}

Result(status, code, error) == [status |-> status, exit |-> code, error |-> error]
Failed(error) == Result("error", "none", error)

\* The next call of the session may come, after an exception from a later run.
Ready == {"idle", "returned", "raised", "dead"}

Init ==
  /\ at = "idle"
  /\ command = "empty"
  /\ call = 0
  /\ child = "none"
  /\ closed = FALSE
  /\ exit = "none"
  /\ output = "text"
  /\ behind = {}
  /\ clock = 0
  /\ result = Failed("")
-----------------------------------------------------------------------------
(* The tool. *)

Call ==
  /\ at \in Ready
  /\ call < MaxCalls
  /\ call' = call + 1
  /\ command' \in Commands
  /\ at' = "check"
  /\ child' = "none"
  /\ closed' = FALSE
  /\ exit' = "none"
  /\ output' = "text"
  /\ clock' = 0
  /\ UNCHANGED <<behind, result>>

Return(r) == at' = "returned" /\ result' = r

Refuse ==
  /\ at = "check"
  /\ \/ command \in {"unparsable", "empty"} /\ Return(Failed("COMMAND_EXECUTION_FAILED"))
     \/ command = "outside" /\ Return(Failed("COMMAND_PATH_OUTSIDE_ROOT"))
  /\ UNCHANGED <<command, call, child, closed, exit, output, behind, clock>>

\* Mutant: the arguments are not looked at.
SpawnUnchecked ==
  /\ at = "check"
  /\ command \in {"outside", "runs"}
  /\ at' = "wait" /\ child' = "running"
  /\ UNCHANGED <<command, call, closed, exit, output, behind, clock, result>>

Spawn ==
  /\ at = "check"
  /\ \/ /\ command = "runs"
        /\ at' = "wait" /\ child' = "running"
        /\ UNCHANGED result
     \/ /\ command = "missing"
        /\ Return(Failed("COMMAND_EXECUTION_FAILED"))
        /\ UNCHANGED child
  /\ UNCHANGED <<command, call, closed, exit, output, behind, clock>>

\* Both pipes are at their end: nobody who inherited them keeps them open.
OutputEnded == (child # "running" \/ closed) /\ <<call, TRUE>> \notin behind

\* Mutant: the end of the output is taken for the end of the command.
CollectAtEnd ==
  /\ at = "wait" /\ OutputEnded
  /\ child' = "reaped"
  /\ \/ output = "text" /\ Return(Result("success", "zero", ""))
     \/ output = "bytes" /\ at' = "raised" /\ UNCHANGED result
  /\ UNCHANGED <<command, call, closed, exit, output, behind, clock>>

\* communicate returns: the command is waited for, then its output is decoded,
\* and what is no text raises an exception nobody catches.
Collect ==
  /\ at = "wait" /\ OutputEnded /\ child = "exited"
  /\ child' = "reaped"
  /\ \/ /\ output = "text"
        /\ Return(Result(IF exit = "zero" THEN "success" ELSE "error", exit, ""))
     \/ output = "bytes" /\ at' = "raised" /\ UNCHANGED result
  /\ UNCHANGED <<command, call, closed, exit, output, behind, clock>>

\* The time is up: the process of the command is killed, no other.
TimeOut ==
  /\ at = "wait" /\ clock = Limit
  /\ at' = "reap"
  /\ child' = "exited"
  /\ exit' = IF child = "running" THEN "killed" ELSE exit
  /\ UNCHANGED <<command, call, closed, output, behind, clock, result>>

\* Mutant: nobody waits for the killed process.
LeaveZombie ==
  /\ at = "reap"
  /\ Return(Failed("COMMAND_TIMEOUT"))
  /\ UNCHANGED <<command, call, child, closed, exit, output, behind, clock>>

\* Mutant: what is left of the output is read first.
ReapAtEnd ==
  /\ at = "reap" /\ OutputEnded
  /\ child' = "reaped"
  /\ Return(Failed("COMMAND_TIMEOUT"))
  /\ UNCHANGED <<command, call, closed, exit, output, behind, clock>>

\* It is waited for and the pipes are closed, open elsewhere or not.
Reap ==
  /\ at = "reap"
  /\ child' = "reaped"
  /\ Return(Failed("COMMAND_TIMEOUT"))
  /\ UNCHANGED <<command, call, closed, exit, output, behind, clock>>

ToolStep == Refuse \/ Spawn \/ Collect \/ TimeOut \/ Reap

\* The program is killed; what it started is not.
Die ==
  /\ Mortal /\ at \notin Ready
  /\ at' = "dead"
  /\ child' = "none"
  /\ behind' = behind \cup {x \in {<<call, ~closed>>} : child = "running"}
  /\ UNCHANGED <<command, call, closed, exit, output, clock, result>>
-----------------------------------------------------------------------------
(* The command, and time. *)

Writes ==
  /\ ~OutputEnded
  /\ output' = "bytes"
  /\ UNCHANGED <<at, command, call, child, closed, exit, behind, clock, result>>

Closes ==
  /\ child = "running"
  /\ closed' = TRUE
  /\ UNCHANGED <<at, command, call, child, exit, output, behind, clock, result>>

LeavesBehind ==
  /\ child = "running"
  /\ \E keeps \in {~closed, FALSE} : behind' = behind \cup {<<call, keeps>>}
  /\ UNCHANGED <<at, command, call, child, closed, exit, output, clock, result>>

Exits ==
  /\ child = "running"
  /\ child' = "exited"
  /\ exit' \in {"zero", "nonzero"}
  /\ UNCHANGED <<at, command, call, closed, output, behind, clock, result>>

BehindEnds ==
  /\ \E b \in behind : behind' = behind \ {b}
  /\ UNCHANGED <<at, command, call, child, closed, exit, output, clock, result>>

Tick ==
  /\ at = "wait" /\ clock < Limit
  /\ clock' = clock + 1
  /\ UNCHANGED <<at, command, call, child, closed, exit, output, behind, result>>

CommandStep == Writes \/ Closes \/ LeavesBehind \/ Exits \/ BehindEnds

\* The session is over; what it left behind may run on.
Idle ==
  /\ at \in Ready /\ call = MaxCalls
  /\ UNCHANGED bashVars

Next == Call \/ ToolStep \/ Die \/ CommandStep \/ Tick \/ Idle

Spec == Init /\ [][Next]_bashVars

\* Time passes and the program runs; nothing is said of the command.
FairSpec == Spec /\ WF_bashVars(ToolStep) /\ WF_bashVars(Tick)
-----------------------------------------------------------------------------
(* What the tool promises. *)

\* Every variable has its type, and only a command that passed the checks has
\* a process.
TypeOK ==
  /\ at \in Ready \cup {"check", "wait", "reap"}
  /\ command \in Commands
  /\ call \in 0..MaxCalls
  /\ child \in {"none", "running", "exited", "reaped"}
  /\ closed \in BOOLEAN
  /\ exit \in {"none", "zero", "nonzero", "killed"}
  /\ output \in {"text", "bytes"}
  /\ behind \in SUBSET ((1..MaxCalls) \X BOOLEAN)
  /\ clock \in 0..Limit
  /\ result \in [status : {"success", "error"}, exit : {"none", "zero", "nonzero", "killed"},
                 error : {"", "COMMAND_EXECUTION_FAILED", "COMMAND_PATH_OUTSIDE_ROOT",
                          "COMMAND_TIMEOUT"}]
  /\ child # "none" => command = "runs"

\* A result is true of the command: an exit code is that of a command that ended
\* by itself and whose output, all of it text, was read to its end, success is the
\* code zero, and a command that ran has no code only in a timeout, which is reported
\* no earlier than at the limit (execute). That a command which ended in time is
\* always reported with its code is not said: its end may be seen too late.
ResultTruthful ==
  at = "returned" =>
    /\ result.status = "success" <=> result.exit = "zero"
    /\ result.exit # "none" =>
         /\ result.exit = exit /\ exit # "killed"
         /\ <<call, TRUE>> \notin behind /\ output = "text"
    /\ result.error = "COMMAND_TIMEOUT" <=> (command = "runs" /\ result.exit = "none")
    /\ result.error = "COMMAND_TIMEOUT" => clock = Limit
    /\ result.error # "" => result.exit = "none" /\ result.status = "error"

\* When the tool is through with a call, by a result or an exception, the
\* process of the command has ended and nothing of it is left to the kernel.
CommandReaped == at \in {"returned", "raised"} => child \in {"none", "reaped"}

\* Every call ends, by a result or an exception, whatever the command does and
\* keeps open.
CommandReturns == at = "check" ~> at \in {"returned", "raised", "dead"}
-----------------------------------------------------------------------------
(* Documented and not kept. *)

\* "returns structured timeout / execution / exit-code results"
\* (docs/current-implementation.md:117): no call ends in an exception.
ReturnsResult == at # "raised"

\* "shell runs one foreground command per session" (docs/spec.md:822): when a
\* command is started, nothing of an earlier one is running.
OneCommandAtATime == (at = "wait" /\ clock = 0) => \A b \in behind : b[1] = call
=============================================================================
