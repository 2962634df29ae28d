---------------------------- MODULE ToolExecutor ----------------------------
(***************************************************************************)
(* One tool call from request to result: ToolExecutor.execute              *)
(* (tools/executor.py) with the durable rule file                          *)
(* (storage/permission_rule_store.py) and the remembered answers of the    *)
(* process. One action per event it emits, and one for the tool itself.    *)
(***************************************************************************)
EXTENDS TranscriptLog, PermissionEngine

ASSUME NoRequestAssumption == NoRequest \notin Requests

VARIABLES
  mode, channel,  \* run -> permission mode; where answers may come from
  replay,         \* host -> session -> _SESSION_REPLAY_STATE
  rules,          \* the rows of permission_rules.jsonl: <<request, effect>>
  cache,          \* run -> the persistent rules it loaded or added itself
  calls,          \* run -> _tool_call_counter
  cur,            \* run -> the request of the call in progress
  dec,            \* run -> its decision
  status,         \* run -> the status of its result
  retrying,       \* run -> the call is the recovery of an earlier one
  effects,        \* history: the tool executions that began
  answers         \* history: the answers users gave

permVars == <<replay, rules, cache, answers>>
callVars == <<calls, cur, dec, status, retrying, effects>>

\* "stream": stream-json input, which carries queued decisions. "terminal":
\* text input without --print, interactive by definition though nobody is
\* asked. "print": text input with --print.
Channels == {"stream", "terminal", "print"}
Interactive(r) == channel[r] # "print"

NoDecision == Decision("deny", "ask_unavailable", 9)

\* What a record can say: a decision, or the status of a result.
Infos == {"", "allow", "deny", "denied", "success", "error"}

CallEvent(r, type, q, info) == Event(r, type, calls[r], q, info)

\* The caller allots the next tool call id.
Begin(r, q, retry) ==
  /\ calls' = [calls EXCEPT ![r] = @ + 1]
  /\ cur' = [cur EXCEPT ![r] = q]
  /\ retrying' = [retrying EXCEPT ![r] = retry]
  /\ UNCHANGED <<dec, status, effects>>

Request(r) ==
  /\ pc[r] = "request"
  /\ Emit(r, CallEvent(r, "tool_call_requested", cur[r], ""), "decide")
  /\ UNCHANGED <<permVars, callVars>>

\* The decision before a user is asked.
Provisional(r) ==
  ApplyReplay(Decide(cur[r], mode[r], Interactive(r)), cur[r],
              replay[HostOf[r]][sid[r]], cache[r])

DecideCall(r) ==
  /\ pc[r] = "decide"
  /\ dec' = [dec EXCEPT ![r] = Provisional(r)]
  /\ IF Provisional(r).decision = "ask"
       THEN Emit(r, CallEvent(r, "tool_permission_required", cur[r], ""), "answer")
       ELSE Goto(r, "decided")
  /\ UNCHANGED <<permVars, calls, cur, status, retrying, effects>>

PersistentEffect(answer) ==
  IF answer = "allow_persistent" THEN {"allow"}
  ELSE IF answer = "deny_persistent" THEN {"deny"} ELSE {}

\* Mutant: where nobody is connected the run waits for an answer.
AnswersAwaited(r) == IF channel[r] = "stream" THEN Answers ELSE {}

\* Decisions come queued in the stream-json input or not at all.
PossibleAnswers(r) == IF channel[r] = "stream" THEN Answers ELSE {NoAnswer}

\* resolve_permission: the answer is remembered, and a persistent one is
\* synced to the rule file, before the decision is emitted.
Answer(r) ==
  /\ pc[r] = "answer"
  /\ \E a \in PossibleAnswers(r) :
       LET h == HostOf[r]
           q == cur[r]
       IN  /\ dec' = [dec EXCEPT ![r] = Resolve(@, a, mode[r])]
           /\ replay' = [replay EXCEPT ![h][sid[r]] =
                           Remember(@, q, a, "allow_session", "deny_session")]
           /\ cache' = [cache EXCEPT ![r] =
                          Remember(@, q, a, "allow_persistent", "deny_persistent")]
           /\ rules' = IF persist[r]
                         THEN rules \cup ({q} \X PersistentEffect(a))
                         ELSE rules
           /\ answers' = answers \cup
                {[by |-> r, sid |-> sid[r], tc |-> calls[r], req |-> q, answer |-> a]}
  /\ Goto(r, "decided")
  /\ UNCHANGED <<calls, cur, status, retrying, effects>>

EmitDecided(r) ==
  /\ pc[r] = "decided"
  /\ Emit(r, CallEvent(r, "tool_permission_decided", cur[r], dec[r].decision),
          IF dec[r].decision = "allow" THEN "launch" ELSE "result")
  /\ status' = [status EXCEPT ![r] = "denied"]
  /\ UNCHANGED <<permVars, calls, cur, dec, retrying, effects>>

\* Mutant: the tool is looked up before its start is recorded.
LaunchKnown(r) ==
  /\ pc[r] = "launch"
  /\ IF ToolOf[cur[r]] \in RegisteredTools
       THEN Emit(r, CallEvent(r, "tool_execution_started", NoRequest, ""), "execute")
       ELSE Goto(r, "result")
  /\ status' = [status EXCEPT ![r] = "error"]
  /\ UNCHANGED <<permVars, calls, cur, dec, retrying, effects>>

\* An allowed call of a tool nobody registered goes through the motions.
Launch(r) ==
  /\ pc[r] = "launch"
  /\ Emit(r, CallEvent(r, "tool_execution_started", NoRequest, ""),
          IF ToolOf[cur[r]] \in RegisteredTools THEN "execute" ELSE "result")
  /\ status' = [status EXCEPT ![r] = "error"]
  /\ UNCHANGED <<permVars, calls, cur, dec, retrying, effects>>

Effect(r) ==
  [by |-> r, sid |-> sid[r], tc |-> calls[r], req |-> cur[r], retry |-> retrying[r]]

\* tool.execute returns a result of its own making ...
Execute(r) ==
  /\ pc[r] = "execute"
  /\ effects' = effects \cup {Effect(r)}
  /\ \E s \in {"success", "error"} : status' = [status EXCEPT ![r] = s]
  /\ Goto(r, "result")
  /\ UNCHANGED <<permVars, calls, cur, dec, retrying>>

\* ... or raises, as Read does for a missing file: nothing catches it here.
ToolRaises(r) ==
  /\ pc[r] = "execute"
  /\ effects' = effects \cup {Effect(r)}
  /\ Raise(r, "tool")
  /\ UNCHANGED <<logVars, permVars, calls, cur, dec, status, retrying>>

\* Mutant: the result closes the call.
EmitResultOnly(r) ==
  /\ pc[r] = "result"
  /\ Emit(r, CallEvent(r, "tool_result", NoRequest, status[r]), "outcome")
  /\ UNCHANGED <<permVars, callVars>>

EmitResult(r) ==
  /\ pc[r] = "result"
  /\ Emit(r, CallEvent(r, "tool_result", NoRequest, status[r]), "finish_call")
  /\ UNCHANGED <<permVars, callVars>>

EmitFinished(r) ==
  /\ pc[r] = "finish_call"
  /\ Emit(r, CallEvent(r, "tool_execution_finished", NoRequest, status[r]), "outcome")
  /\ UNCHANGED <<permVars, callVars>>

ExecutorStep(r) ==
  \/ Request(r) \/ DecideCall(r) \/ Answer(r) \/ EmitDecided(r) \/ Launch(r)
  \/ Execute(r) \/ ToolRaises(r) \/ EmitResult(r) \/ EmitFinished(r)
=============================================================================
