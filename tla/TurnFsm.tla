------------------------------ MODULE TurnFsm ------------------------------
(***************************************************************************)
(* The turn state machine every emitted event is checked against           *)
(* (runtime/turn_fsm.py) and the event classes of runtime/events.py.       *)
(* The target of a legal transition depends on the event alone, so the     *)
(* machine is a guard, Accepts, and a target, Target.                      *)
(***************************************************************************)

TerminalTypes == {"session_completed", "session_failed"}
StreamOnlyTypes == {"assistant_delta"}

EventTypes ==
  {"session_start", "session_resumed", "user_message", "assistant_delta",
   "assistant_message", "tool_call_requested", "tool_permission_required",
   "tool_permission_decided", "tool_execution_started", "tool_result",
   "tool_execution_finished"} \cup TerminalTypes

TurnStates ==
  {"init", "started", "user", "streaming", "tool_requested", "tool_required",
   "tool_decided", "tool_running", "tool_result", "done", "failed"}

\* Mutant: nothing may follow a finished tool call.
OpenUntilTool == {"user", "streaming"}

\* The states in which the model may speak or ask for a tool.
OpenStates == {"user", "streaming", "tool_result"}

\* TRUE iff transition(type) in this state does not raise.
Accepts(state, type) ==
  \/ state = "init" /\ type \in {"session_start", "session_resumed"}
  \/ state = "started" /\ type = "user_message"
  \/ /\ state \in OpenStates
     /\ type \in {"assistant_delta", "assistant_message", "tool_call_requested"}
  \/ state = "tool_requested" /\ type = "tool_permission_required"
  \/ state \in {"tool_requested", "tool_required"} /\ type = "tool_permission_decided"
  \/ state = "tool_decided" /\ type \in {"tool_execution_started", "tool_result"}
  \/ state = "tool_running" /\ type = "tool_result"
  \/ state = "tool_result" /\ type = "tool_execution_finished"
  \/ type \in TerminalTypes

Target(type) ==
  IF type \in {"session_start", "session_resumed"}          THEN "started"
  ELSE IF type = "user_message"                             THEN "user"
  ELSE IF type \in {"assistant_delta", "assistant_message"} THEN "streaming"
  ELSE IF type = "tool_call_requested"                      THEN "tool_requested"
  ELSE IF type = "tool_permission_required"                 THEN "tool_required"
  ELSE IF type = "tool_permission_decided"                  THEN "tool_decided"
  ELSE IF type = "tool_execution_started"                   THEN "tool_running"
  ELSE IF type \in {"tool_result", "tool_execution_finished"} THEN "tool_result"
  ELSE IF type = "session_completed"                        THEN "done"
  ELSE "failed"
=============================================================================
