----------------------------- MODULE BashProofs -----------------------------
(***************************************************************************)
(* What the Bash tool reports is true of the command, for any timeout and  *)
(* any number of calls. The invariant ties the place of the tool to the    *)
(* state of the command's process: how it ended is known exactly when it   *)
(* is no longer running, and it is running only while the tool waits.      *)
(***************************************************************************)
EXTENDS BashTool, TLAPS

\* The type invariant in parts.
Labels ==
  /\ at \in Ready \cup {"check", "wait", "reap"}
  /\ command \in Commands
  /\ child \in {"none", "running", "exited", "reaped"}
  /\ exit \in {"none", "zero", "nonzero", "killed"}
  /\ output \in {"text", "bytes"}
  /\ closed \in BOOLEAN
  /\ child # "none" => command = "runs"

Counts == call \in 0..MaxCalls /\ clock \in 0..Limit

Left == behind \in SUBSET ((1..MaxCalls) \X BOOLEAN)

Results ==
  [status : {"success", "error"}, exit : {"none", "zero", "nonzero", "killed"},
   error : {"", "COMMAND_EXECUTION_FAILED", "COMMAND_PATH_OUTSIDE_ROOT", "COMMAND_TIMEOUT"}]

\* Where the tool stands and what it then knows of the process.
Placed ==
  /\ at # "idle" => call # 0
  /\ at = "check" => child = "none" /\ exit = "none"
  /\ at = "wait" =>
       /\ command = "runs"
       /\ \/ child = "running" /\ exit = "none"
          \/ child = "exited" /\ exit \in {"zero", "nonzero"}
  /\ at = "reap" => command = "runs" /\ child = "exited" /\ clock = Limit
  /\ at \in Ready => child \in {"none", "reaped"}

BashInv == Labels /\ Counts /\ Left /\ result \in Results /\ Placed /\ ResultTruthful

Act == Call \/ ToolStep \/ Die \/ CommandStep \/ Tick

LEMMA TypesInParts == TypeOK <=> Labels /\ Counts /\ Left /\ result \in Results
BY DEF TypeOK, Labels, Counts, Left, Results

LEMMA LabelsKept == ASSUME Labels, Placed, Act PROVE Labels'
<1>1. CASE Call
  BY <1>1 DEF Call, Labels, Placed, Return, Ready, Commands
<1>2. CASE Refuse
  BY <1>2 DEF Refuse, Labels, Placed, Return, Ready, Commands
<1>3. CASE Spawn
  BY <1>3 DEF Spawn, Labels, Placed, Return, Ready, Commands
<1>4. CASE Collect
  BY <1>4 DEF Collect, Labels, Placed, Return, Ready, Commands
<1>5. CASE TimeOut
  BY <1>5 DEF TimeOut, Labels, Placed, Return, Ready, Commands
<1>6. CASE Reap
  BY <1>6 DEF Reap, Labels, Placed, Return, Ready, Commands
<1>7. CASE Die
  BY <1>7 DEF Die, Labels, Placed, Return, Ready, Commands
<1>8. CASE Writes
  BY <1>8 DEF Writes, Labels, Placed, Return, Ready, Commands
<1>9. CASE Closes
  BY <1>9 DEF Closes, Labels, Placed, Return, Ready, Commands
<1>10. CASE LeavesBehind
  BY <1>10 DEF LeavesBehind, Labels, Placed, Return, Ready, Commands
<1>11. CASE Exits
  BY <1>11 DEF Exits, Labels, Placed, Return, Ready, Commands
<1>12. CASE BehindEnds
  BY <1>12 DEF BehindEnds, Labels, Placed, Return, Ready, Commands
<1>13. CASE Tick
  BY <1>13 DEF Tick, Labels, Placed, Return, Ready, Commands
<1> QED BY <1>1, <1>2, <1>3, <1>4, <1>5, <1>6, <1>7, <1>8, <1>9, <1>10, <1>11, <1>12, <1>13
   DEF Act, ToolStep, CommandStep

LEMMA PlacedKept == ASSUME Labels, Counts, Placed, Act PROVE Placed'
<1>1. CASE Call
  BY <1>1, LimitAssumption DEF Call, Labels, Counts, Placed, Return, Ready
<1>2. CASE Refuse
  BY <1>2, LimitAssumption DEF Refuse, Labels, Counts, Placed, Return, Ready
<1>3. CASE Spawn
  BY <1>3, LimitAssumption DEF Spawn, Labels, Counts, Placed, Return, Ready
<1>4. CASE Collect
  BY <1>4, LimitAssumption DEF Collect, Labels, Counts, Placed, Return, Ready
<1>5. CASE TimeOut
  BY <1>5, LimitAssumption DEF TimeOut, Labels, Counts, Placed, Return, Ready
<1>6. CASE Reap
  BY <1>6, LimitAssumption DEF Reap, Labels, Counts, Placed, Return, Ready
<1>7. CASE Die
  BY <1>7, LimitAssumption DEF Die, Labels, Counts, Placed, Return, Ready
<1>8. CASE Writes
  BY <1>8, LimitAssumption DEF Writes, Labels, Counts, Placed, Return, Ready
<1>9. CASE Closes
  BY <1>9, LimitAssumption DEF Closes, Labels, Counts, Placed, Return, Ready
<1>10. CASE LeavesBehind
  BY <1>10, LimitAssumption DEF LeavesBehind, Labels, Counts, Placed, Return, Ready
<1>11. CASE Exits
  BY <1>11, LimitAssumption DEF Exits, Labels, Counts, Placed, Return, Ready
<1>12. CASE BehindEnds
  BY <1>12, LimitAssumption DEF BehindEnds, Labels, Counts, Placed, Return, Ready
<1>13. CASE Tick
  BY <1>13, LimitAssumption DEF Tick, Labels, Counts, Placed, Return, Ready
<1> QED BY <1>1, <1>2, <1>3, <1>4, <1>5, <1>6, <1>7, <1>8, <1>9, <1>10, <1>11, <1>12, <1>13
   DEF Act, ToolStep, CommandStep

LEMMA CountsKept == ASSUME Counts, Act PROVE Counts'
<1>1. CASE Call
  BY <1>1, LimitAssumption, CallBoundAssumption DEF Call, Counts
<1>2. CASE Tick
  BY <1>2, LimitAssumption DEF Tick, Counts
<1>3. CASE ~(Call \/ Tick)
  <2>1. UNCHANGED <<call, clock>>
    BY <1>3 DEF Act, ToolStep, CommandStep, Refuse, Spawn, Collect, TimeOut, Reap, Die, Writes, Closes,
       LeavesBehind, Exits, BehindEnds
  <2> QED BY <2>1 DEF Counts
<1> QED BY <1>1, <1>2, <1>3

LEMMA LeftKept == ASSUME Labels, Counts, Left, Placed, Act PROVE Left'
<1>1. CASE Die
  <2>1. call \in 1..MaxCalls
    BY <1>1, CallBoundAssumption DEF Die, Counts, Placed, Ready
  <2>2. <<call, ~closed>> \in (1..MaxCalls) \X BOOLEAN
    BY <2>1
  <2>3. behind' \subseteq behind \cup {<<call, ~closed>>}
    BY <1>1 DEF Die
  <2> QED BY <2>2, <2>3 DEF Left
<1>2. CASE LeavesBehind
  <2>1. call \in 1..MaxCalls
    BY <1>2, CallBoundAssumption DEF LeavesBehind, Labels, Counts, Placed, Ready
  <2>2. PICK keeps \in {~closed, FALSE} : behind' = behind \cup {<<call, keeps>>}
    BY <1>2 DEF LeavesBehind
  <2>3. <<call, keeps>> \in (1..MaxCalls) \X BOOLEAN
    BY <2>1, <2>2 DEF Labels
  <2> QED BY <2>2, <2>3 DEF Left
<1>3. CASE BehindEnds
  BY <1>3 DEF BehindEnds, Left
<1>4. CASE ~(Die \/ LeavesBehind \/ BehindEnds)
  <2>1. UNCHANGED behind
    BY <1>4 DEF Act, ToolStep, CommandStep, Call, Refuse, Spawn, Collect, TimeOut, Reap, Writes, Closes,
       Exits, Tick
  <2> QED BY <2>1 DEF Left
<1> QED BY <1>1, <1>2, <1>3, <1>4

LEMMA FailureFacts ==
  ASSUME NEW e \in {"COMMAND_EXECUTION_FAILED", "COMMAND_PATH_OUTSIDE_ROOT", "COMMAND_TIMEOUT"}
  PROVE /\ Failed(e) \in Results
        /\ Failed(e).status = "error"
        /\ Failed(e).exit = "none"
        /\ Failed(e).error = e
BY DEF Failed, Result, Results

LEMMA ResultsKept == ASSUME Labels, result \in Results, Act PROVE (result \in Results)'
<1>1. CASE Refuse
  <2>1. result' = Failed("COMMAND_EXECUTION_FAILED") \/ result' = Failed("COMMAND_PATH_OUTSIDE_ROOT")
    BY <1>1 DEF Refuse, Return
  <2> QED BY <2>1, FailureFacts
<1>2. CASE Spawn
  <2>1. UNCHANGED result \/ result' = Failed("COMMAND_EXECUTION_FAILED")
    BY <1>2 DEF Spawn, Return
  <2> QED BY <2>1, FailureFacts
<1>3. CASE Collect
  <2>1. \/ UNCHANGED result
        \/ result' = Result(IF exit = "zero" THEN "success" ELSE "error", exit, "")
    BY <1>3 DEF Collect, Return
  <2>2. Result(IF exit = "zero" THEN "success" ELSE "error", exit, "") \in Results
    BY DEF Labels, Result, Results
  <2> QED BY <2>1, <2>2
<1>4. CASE Reap
  BY <1>4, FailureFacts DEF Reap, Return
<1>5. CASE ~(Refuse \/ Spawn \/ Collect \/ Reap)
  <2>1. UNCHANGED result
    BY <1>5 DEF Act, ToolStep, CommandStep, Call, TimeOut, Die, Writes, Closes, LeavesBehind, Exits,
       BehindEnds, Tick
  <2> QED BY <2>1
<1> QED BY <1>1, <1>2, <1>3, <1>4, <1>5

\* A result is told when the call returns, and what happens later concerns only
\* processes left behind, of which none is added: they write no more where an exit
\* code was told.
LEMMA TruthKept == ASSUME Labels, Placed, ResultTruthful, Act PROVE ResultTruthful'
<1>1. CASE Refuse
  <2>1. PICK e \in {"COMMAND_EXECUTION_FAILED", "COMMAND_PATH_OUTSIDE_ROOT"} : result' = Failed(e)
    BY <1>1 DEF Refuse, Return
  <2>2. at' = "returned" /\ command' # "runs"
    BY <1>1 DEF Refuse, Return
  <2> QED BY <2>1, <2>2, FailureFacts DEF ResultTruthful
<1>2. CASE Spawn
  <2>1. CASE command = "runs"
    BY <1>2, <2>1 DEF Spawn, ResultTruthful
  <2>2. CASE command = "missing"
    <3>1. /\ result' = Failed("COMMAND_EXECUTION_FAILED")
          /\ at' = "returned" /\ command' = "missing"
      BY <1>2, <2>2 DEF Spawn, Return
    <3> QED BY <3>1, FailureFacts DEF ResultTruthful
  <2> QED BY <1>2, <2>1, <2>2 DEF Spawn
<1>3. CASE Collect
  <2>1. CASE output = "text"
    <3> DEFINE s == IF exit = "zero" THEN "success" ELSE "error"
    <3>1. /\ result' = Result(s, exit, "")
          /\ at' = "returned"
          /\ UNCHANGED <<command, call, exit, behind, output>>
          /\ <<call, TRUE>> \notin behind
      BY <1>3, <2>1 DEF Collect, OutputEnded, Return
    <3>2. s \in {"success", "error"} /\ exit \in {"zero", "nonzero"} /\ (s = "success" <=> exit = "zero")
      BY <1>3 DEF Collect, Placed
    <3>3. result'.status = s /\ result'.exit = exit /\ result'.error = ""
      BY <3>1 DEF Result
    <3> HIDE DEF s
    <3> QED BY <2>1, <3>1, <3>2, <3>3 DEF ResultTruthful
  <2>2. CASE output # "text"
    BY <1>3, <2>2 DEF Collect, Return, ResultTruthful
  <2> QED BY <2>1, <2>2
<1>4. CASE Reap
  <2>1. /\ result' = Failed("COMMAND_TIMEOUT")
        /\ at' = "returned"
        /\ command' = "runs" /\ clock' = Limit
    BY <1>4 DEF Reap, Return, Placed
  <2> QED BY <2>1, FailureFacts DEF ResultTruthful
<1>5. CASE Call \/ TimeOut \/ Die \/ Tick
  <2>1. at' # "returned"
    BY <1>5 DEF Call, TimeOut, Die, Tick
  <2> QED BY <2>1 DEF ResultTruthful
<1>6. CASE CommandStep
  <2> SUFFICES ASSUME at = "returned" PROVE ResultTruthful'
    BY <1>6 DEF CommandStep, Writes, Closes, LeavesBehind, Exits, BehindEnds, ResultTruthful
  <2>1. child # "running"
    BY DEF Placed, Ready
  <2>2. behind' \subseteq behind /\ UNCHANGED <<at, command, call, exit, clock, result>>
    BY <1>6, <2>1 DEF CommandStep, Writes, Closes, LeavesBehind, Exits, BehindEnds
  <2>3. result.exit # "none" => UNCHANGED output
    <3> SUFFICES ASSUME result.exit # "none" PROVE UNCHANGED output
      OBVIOUS
    <3>1. OutputEnded
      BY <2>1 DEF ResultTruthful, OutputEnded
    <3> QED BY <1>6, <3>1 DEF CommandStep, Writes, Closes, LeavesBehind, Exits, BehindEnds
  <2> QED BY <2>2, <2>3 DEF ResultTruthful
<1> QED BY <1>1, <1>2, <1>3, <1>4, <1>5, <1>6 DEF Act, ToolStep

LEMMA InitBash == Init => BashInv
<1> SUFFICES ASSUME Init PROVE BashInv
  OBVIOUS
<1>1. Labels /\ Placed /\ ResultTruthful
  BY DEF Init, Labels, Placed, ResultTruthful, Ready, Commands
<1>2. Counts
  <2>1. call = 0 /\ clock = 0
    BY DEF Init
  <2> QED BY <2>1, LimitAssumption, CallBoundAssumption DEF Counts
<1>3. Left
  BY DEF Init, Left
<1>4. result \in Results
  BY DEF Init, Failed, Result, Results
<1> QED BY <1>1, <1>2, <1>3, <1>4 DEF BashInv

LEMMA NextBash == BashInv /\ [Next]_bashVars => BashInv'
<1> SUFFICES ASSUME BashInv, [Next]_bashVars PROVE BashInv'
  OBVIOUS
<1>1. CASE Act
  BY <1>1, LabelsKept, PlacedKept, CountsKept, LeftKept, ResultsKept, TruthKept DEF BashInv
<1>2. CASE UNCHANGED bashVars
  BY <1>2 DEF bashVars, BashInv, Labels, Counts, Left, Placed, ResultTruthful
<1> QED BY <1>1, <1>2 DEF Next, Act, Idle

LEMMA BashInvariant == Spec => []BashInv
BY InitBash, NextBash, PTL DEF Spec

\* Every variable of the tool keeps its type, and only a command that passed the
\* checks of BashTool.execute has a process.
THEOREM BashTypes == Spec => []TypeOK
<1>1. BashInv => TypeOK
  BY TypesInParts DEF BashInv
<1> QED BY <1>1, BashInvariant, PTL

\* Whatever a command does, keeps open or leaves behind, and whenever the program
\* is killed, what a result of BashTool.execute says is so: an exit code is the one
\* the command of this call ended with, and the absence of one means that the time
\* was up or that nothing ran.
THEOREM ResultsTruthful == Spec => []ResultTruthful
<1>1. BashInv => ResultTruthful
  BY DEF BashInv
<1> QED BY <1>1, BashInvariant, PTL

\* After a call, by a result, a timeout or an exception, no process of its command
\* is left to be waited for.
THEOREM CommandsReaped == Spec => []CommandReaped
<1>1. BashInv => CommandReaped
  BY DEF BashInv, Placed, Ready, CommandReaped
<1> QED BY <1>1, BashInvariant, PTL
=============================================================================
