---------------------------- MODULE Orchestrator ----------------------------
(***************************************************************************)
(* SessionOrchestrator.run (runtime/orchestrator.py): one run per command  *)
(* line invocation, from the resolution of its session to its exit code,   *)
(* with the session index (storage/session_index.py), the stream adapter   *)
(* (model/stream_adapter.py) and the recovery of an interrupted read.      *)
(* The model provider is external: it answers with any finite sequence of  *)
(* chunks, or raises. A process may be killed between any two steps.       *)
(***************************************************************************)
EXTENDS ToolExecutor, Recovery

CONSTANTS
  Configs,     \* run -> the command lines it may be started with
  Overlap,     \* may runs of different processes be live at the same time?
  Killable,    \* the runs whose process may be killed
  Failing,     \* the runs in which a file or stdout may fail
  MaxChunks    \* bound: run -> the chunks its provider answer may hold

Kinds == {"new", "forced", "resume", "continue"}

\* sid matters to --session-id (forced) and --resume only.
CommandLines ==
  [kind : Kinds, sid : Sessions, mode : Modes, channel : Channels, persist : BOOLEAN]

ASSUME ConfigAssumption == Configs \in [Runs -> SUBSET CommandLines]
ASSUME OverlapAssumption == Overlap \in BOOLEAN
ASSUME BoundAssumption == MaxChunks \in [Runs -> Nat]

VARIABLES
  kind,               \* run -> how it chose its session
  nextSid, nextRid,   \* host -> _session_counter, _run_counter
  index,              \* the rows of session_index.jsonl, in file order
  streaming,          \* run -> the provider has answered
  chunks,             \* run -> chunks taken from the answer so far
  sawDelta,           \* run -> saw_delta of the stream adapter
  message,            \* run -> final_message is not None
  toolUsed,           \* run -> had_tool_call
  code                \* run -> the exit code of its RunResult

confVars == <<persist, mode, channel, kind>>
idVars == <<sid, rid, nextSid, nextRid>>
turnVars == <<streaming, chunks, sawDelta, message, toolUsed>>
endVars == <<index, code>>
vars == <<logVars, ctlVars, confVars, idVars, permVars, callVars, turnVars, endVars>>

NoCode == 10   \* no RunResult yet; exit codes are 0..9
Resumed(r) == kind[r] \in {"resume", "continue"}

Init ==
  /\ transcript = [s \in Sessions |-> <<>>]
  /\ pc = [r \in Runs |-> "idle"]
  /\ raised = [r \in Runs |-> "no"]
  /\ persist = [r \in Runs |-> TRUE]
  /\ mode = [r \in Runs |-> "ask"]
  /\ channel = [r \in Runs |-> "print"]
  /\ kind = [r \in Runs |-> "new"]
  /\ sid = [r \in Runs |-> 0]
  /\ rid = [r \in Runs |-> 0]
  /\ seq = [r \in Runs |-> 0]
  /\ last = [r \in Runs |-> 0]
  /\ fsm = [r \in Runs |-> "init"]
  /\ term = [r \in Runs |-> FALSE]
  /\ deltas = {}
  /\ nextSid = [h \in Hosts |-> 1]
  /\ nextRid = [h \in Hosts |-> 1]
  /\ replay = [h \in Hosts |-> [s \in Sessions |-> NoRules]]
  /\ rules = {}
  /\ cache = [r \in Runs |-> NoRules]
  /\ answers = {}
  /\ calls = [r \in Runs |-> 0]
  /\ cur = [r \in Runs |-> NoRequest]
  /\ dec = [r \in Runs |-> NoDecision]
  /\ status = [r \in Runs |-> "error"]
  /\ retrying = [r \in Runs |-> FALSE]
  /\ effects = {}
  /\ index = <<>>
  /\ streaming = [r \in Runs |-> FALSE]
  /\ chunks = [r \in Runs |-> 0]
  /\ sawDelta = [r \in Runs |-> FALSE]
  /\ message = [r \in Runs |-> FALSE]
  /\ toolUsed = [r \in Runs |-> FALSE]
  /\ code = [r \in Runs |-> NoCode]
-----------------------------------------------------------------------------
(* Session and run identity. *)

\* A process runs one invocation at a time.
MayStart(r) ==
  /\ pc[r] = "idle"
  /\ \A o \in Runs : Live(o) => Overlap /\ HostOf[o] # HostOf[r]

\* util/ids.py counts in the memory of the process.
NewSessionId(r) ==
  /\ nextSid[HostOf[r]] \in Sessions
  /\ sid' = [sid EXCEPT ![r] = nextSid[HostOf[r]]]
  /\ nextSid' = [nextSid EXCEPT ![HostOf[r]] = @ + 1]

NewRunId(r) ==
  /\ rid' = [rid EXCEPT ![r] = nextRid[HostOf[r]]]
  /\ nextRid' = [nextRid EXCEPT ![HostOf[r]] = @ + 1]

\* The command line is read and the orchestrator built; the session is the
\* next free number, the one named, or the latest of the index.
Start(r) ==
  /\ MayStart(r)
  /\ \E c \in Configs[r] :
       /\ kind' = [kind EXCEPT ![r] = c.kind]
       /\ mode' = [mode EXCEPT ![r] = c.mode]
       /\ channel' = [channel EXCEPT ![r] = c.channel]
       /\ persist' = [persist EXCEPT ![r] = c.persist]
       /\ \/ /\ c.kind = "new"
             /\ NewSessionId(r)
             /\ Goto(r, "run_id")
          \/ /\ c.kind \in {"forced", "resume"}
             /\ sid' = [sid EXCEPT ![r] = c.sid]
             /\ Goto(r, "run_id")
             /\ UNCHANGED nextSid
          \/ /\ c.kind = "continue" /\ index # <<>>
             /\ sid' = [sid EXCEPT ![r] = index[Len(index)]]
             /\ Goto(r, "run_id")
             /\ UNCHANGED nextSid
          \/ /\ c.kind = "continue" /\ index = <<>>
             /\ Raise(r, "no_session")
             /\ UNCHANGED <<sid, nextSid, logVars>>
  /\ UNCHANGED <<rid, nextRid, permVars, callVars, turnVars, endVars>>

\* Mutant: the resumed run goes on under the last run id.
LastRunIds(log) ==
  {log[i].run : i \in {k \in DOMAIN log : \A j \in DOMAIN log : log[j].run <= log[k].run}}

\* One more than the highest run id of a transcript; none for an empty one.
NextRunIds(log) ==
  {log[i].run + 1 : i \in {k \in DOMAIN log : \A j \in DOMAIN log : log[j].run <= log[k].run}}

\* A resumed session numbers its runs from its transcript, leaving the
\* process-local counter alone; every other run takes that counter.
ChooseRunId(r) ==
  LET log == transcript[sid[r]]
  IN  /\ pc[r] = "run_id"
      /\ \/ /\ Resumed(r)
            /\ \E n \in NextRunIds(log) : rid' = [rid EXCEPT ![r] = n]
            /\ UNCHANGED nextRid
         \/ /\ Resumed(r) => log = <<>>
            /\ NewRunId(r)
      /\ Goto(r, "load_seq")
      /\ UNCHANGED <<confVars, sid, nextSid, permVars, callVars, turnVars, endVars>>

\* Mutant: the parent is read before the number.
LoadSwapped(r) ==
  /\ \/ /\ pc[r] = "load_seq"
        /\ last' = [last EXCEPT ![r] = LastEvent(sid[r])]
        /\ pc' = [pc EXCEPT ![r] = "load_parent"]
        /\ UNCHANGED seq
     \/ /\ pc[r] = "load_parent"
        /\ seq' = [seq EXCEPT ![r] = NextSeq(sid[r]) - 1]
        /\ pc' = [pc EXCEPT ![r] = "bind"]
        /\ UNCHANGED last
  /\ UNCHANGED <<raised, transcript, fsm, term, deltas>>
  /\ UNCHANGED <<confVars, idVars, permVars, callVars, turnVars, endVars>>

Load(r) ==
  /\ LoadSeq(r) \/ LoadParent(r)
  /\ UNCHANGED <<confVars, idVars, permVars, callVars, turnVars, endVars>>

\* Mutant: the durable rules are not read.
BindUnread(r) ==
  /\ pc[r] = "bind"
  /\ replay' = IF seq[r] = 0
                 THEN [replay EXCEPT ![HostOf[r]][sid[r]] = NoRules]
                 ELSE replay
  /\ Goto(r, "open")
  /\ UNCHANGED <<confVars, idVars, rules, cache, answers, callVars, turnVars, endVars>>

\* An empty transcript forgets the session's remembered answers; the durable
\* rules are read once, here.
Bind(r) ==
  /\ pc[r] = "bind"
  /\ replay' = IF seq[r] = 0
                 THEN [replay EXCEPT ![HostOf[r]][sid[r]] = NoRules]
                 ELSE replay
  /\ cache' = [cache EXCEPT ![r] =
                 IF persist[r]
                   THEN [allow |-> {q \in Requests : <<q, "allow">> \in rules},
                         deny |-> {q \in Requests : <<q, "deny">> \in rules}]
                   ELSE NoRules]
  /\ Goto(r, "open")
  /\ UNCHANGED <<confVars, idVars, rules, answers, callVars, turnVars, endVars>>

EmitOpening(r) ==
  /\ pc[r] = "open"
  /\ Emit(r, Plain(r, IF Resumed(r) THEN "session_resumed" ELSE "session_start"), "user")
  /\ UNCHANGED <<confVars, idVars, permVars, callVars, turnVars, endVars>>

EmitUser(r) ==
  /\ pc[r] = "user"
  /\ Emit(r, Plain(r, "user_message"), IF Resumed(r) THEN "recover" ELSE "provider")
  /\ UNCHANGED <<confVars, idVars, permVars, callVars, turnVars, endVars>>
-----------------------------------------------------------------------------
(* Recovery: the one tool call a resumed run may make before it asks the model. *)

Retry(r) ==
  LET log == transcript[sid[r]]
  IN  /\ pc[r] = "recover"
      /\ \E i \in DOMAIN log :
           /\ IsRetryable(log, i, ToolOf[log[i].req])
           /\ Begin(r, log[i].req, TRUE)
      /\ toolUsed' = [toolUsed EXCEPT ![r] = TRUE]
      /\ Goto(r, "request")
      /\ UNCHANGED <<confVars, idVars, permVars, streaming, chunks, sawDelta, message, endVars>>

NothingToRetry(r) ==
  LET log == transcript[sid[r]]
  IN  /\ pc[r] = "recover"
      /\ \A i \in DOMAIN log : ~IsRetryable(log, i, ToolOf[log[i].req])
      /\ Goto(r, "provider")
      /\ UNCHANGED <<confVars, idVars, permVars, callVars, turnVars, endVars>>
-----------------------------------------------------------------------------
(* The model turn. *)

\* list(provider.stream(request)) completes before the first chunk is used.
Provider(r) ==
  /\ pc[r] = "provider"
  /\ \/ /\ streaming' = [streaming EXCEPT ![r] = TRUE]
        /\ Goto(r, "model")
     \/ /\ Raise(r, "provider")
        /\ UNCHANGED <<streaming, logVars>>
  /\ UNCHANGED <<confVars, idVars, permVars, callVars, chunks, sawDelta, message, toolUsed, endVars>>

TakeChunk(r) ==
  /\ pc[r] = "model"
  /\ chunks[r] < MaxChunks[r]
  /\ chunks' = [chunks EXCEPT ![r] = @ + 1]

DeltaChunk(r) ==
  /\ TakeChunk(r)
  /\ sawDelta' = [sawDelta EXCEPT ![r] = TRUE]
  /\ Emit(r, Plain(r, "assistant_delta"), "model")
  /\ UNCHANGED <<confVars, idVars, permVars, callVars, streaming, message, toolUsed, endVars>>

\* A message nobody streamed is first streamed whole.
MessageChunk(r) ==
  /\ TakeChunk(r)
  /\ IF sawDelta[r] THEN Goto(r, "message")
     ELSE Emit(r, Plain(r, "assistant_delta"), "message")
  /\ UNCHANGED <<confVars, idVars, permVars, callVars, streaming, sawDelta, message, toolUsed, endVars>>

\* Mutant: what was streamed for one message counts for the next.
EmitMessageUnreset(r) ==
  /\ pc[r] = "message"
  /\ message' = [message EXCEPT ![r] = TRUE]
  /\ Emit(r, Plain(r, "assistant_message"), "model")
  /\ UNCHANGED <<confVars, idVars, permVars, callVars, streaming, chunks, sawDelta, toolUsed, endVars>>

EmitMessage(r) ==
  /\ pc[r] = "message"
  /\ message' = [message EXCEPT ![r] = TRUE]
  /\ sawDelta' = [sawDelta EXCEPT ![r] = FALSE]
  /\ Emit(r, Plain(r, "assistant_message"), "model")
  /\ UNCHANGED <<confVars, idVars, permVars, callVars, streaming, chunks, toolUsed, endVars>>

ToolChunk(r) ==
  /\ TakeChunk(r)
  /\ \E q \in Requests : Begin(r, q, FALSE)
  /\ toolUsed' = [toolUsed EXCEPT ![r] = TRUE]
  /\ Goto(r, "request")
  /\ UNCHANGED <<confVars, idVars, permVars, streaming, sawDelta, message, endVars>>

\* An unsupported chunk kind.
BadChunk(r) ==
  /\ TakeChunk(r)
  /\ Raise(r, "chunk")
  /\ UNCHANGED <<logVars, confVars, idVars, permVars, callVars, streaming, sawDelta, message, toolUsed, endVars>>
-----------------------------------------------------------------------------
(* The end of the run. *)

PERMISSION_DENIED == 5
PERMISSION_UNAVAILABLE == 6
TOOL_RUNTIME_FAILURE == 4
MODEL_FAILURE == 3
SUCCESS == 0
INVARIANT_FAILURE == 9

\* Mutant: only the unanswerable denial is told from a tool failure.
FailureCodeCoarse(r) ==
  IF dec[r].reason = "ask_unavailable" THEN PERMISSION_UNAVAILABLE
  ELSE TOOL_RUNTIME_FAILURE

FailureCode(r) ==
  IF status[r] # "denied" THEN TOOL_RUNTIME_FAILURE
  ELSE IF dec[r].reason = "ask_unavailable" THEN PERMISSION_UNAVAILABLE
  ELSE PERMISSION_DENIED

Finish(r, type, result) ==
  /\ Emit(r, Plain(r, type), "index")
  /\ code' = [code EXCEPT ![r] = result]
  /\ UNCHANGED <<confVars, idVars, permVars, callVars, turnVars, index>>

ToolFailed(r) ==
  /\ pc[r] = "outcome" /\ status[r] # "success"
  /\ Finish(r, "session_failed", FailureCode(r))

\* Mutant: the run goes on whatever became of the call.
ToolReturned(r) ==
  /\ pc[r] = "outcome"
  /\ Goto(r, IF streaming[r] THEN "model" ELSE "provider")
  /\ UNCHANGED <<confVars, idVars, permVars, callVars, turnVars, endVars>>

ToolSucceeded(r) ==
  /\ pc[r] = "outcome" /\ status[r] = "success"
  /\ Goto(r, IF streaming[r] THEN "model" ELSE "provider")
  /\ UNCHANGED <<confVars, idVars, permVars, callVars, turnVars, endVars>>

\* The chunks are used up.
NoMessage(r) ==
  /\ pc[r] = "model" /\ ~message[r] /\ ~toolUsed[r]
  /\ Finish(r, "session_failed", MODEL_FAILURE)

Complete(r) ==
  /\ pc[r] = "model" /\ (message[r] \/ toolUsed[r])
  /\ Finish(r, "session_completed", SUCCESS)

\* The index is appended even under --no-session-persistence.
UpdateIndex(r) ==
  /\ pc[r] = "index"
  /\ index' = Append(index, sid[r])
  /\ Goto(r, "exited")
  /\ UNCHANGED <<confVars, idVars, permVars, callVars, turnVars, code>>

ExitCode(r) == IF raised[r] # "no" THEN INVARIANT_FAILURE ELSE code[r]

\* An append, a sync, a read or a subscriber of the event bus raises: the record
\* of the event is on disk or not, the run ends at the boundary of run_cli, the
\* process and what it remembers live on.
IoFails(r) ==
  /\ r \in Failing /\ Live(r)
  /\ Raise(r, "io")
  /\ UNCHANGED <<logVars, confVars, idVars, permVars, callVars, turnVars, endVars>>

\* The process is killed: its memory is gone, and a later run of the same
\* host starts from a fresh one.
Kill(r) ==
  /\ r \in Killable /\ Live(r)
  /\ pc' = [pc EXCEPT ![r] = "crashed"]
  /\ replay' = [replay EXCEPT ![HostOf[r]] = [s \in Sessions |-> NoRules]]
  /\ nextSid' = [nextSid EXCEPT ![HostOf[r]] = 1]
  /\ nextRid' = [nextRid EXCEPT ![HostOf[r]] = 1]
  /\ UNCHANGED <<logVars, raised, confVars, sid, rid, rules, cache, answers, callVars, turnVars, endVars>>
-----------------------------------------------------------------------------
ToolStep(r) ==
  /\ ExecutorStep(r)
  /\ UNCHANGED <<confVars, idVars, turnVars, endVars>>

TurnStep(r) ==
  \/ Provider(r) \/ DeltaChunk(r) \/ MessageChunk(r) \/ EmitMessage(r)
  \/ ToolChunk(r) \/ BadChunk(r)
  \/ ToolSucceeded(r) \/ ToolFailed(r) \/ NoMessage(r) \/ Complete(r) \/ UpdateIndex(r)

\* Every step of a run that has started.
RunStep(r) ==
  \/ ChooseRunId(r) \/ Load(r) \/ Bind(r) \/ EmitOpening(r) \/ EmitUser(r)
  \/ Retry(r) \/ NothingToRetry(r) \/ ToolStep(r) \/ TurnStep(r)

\* All invocations are over.
AllDone ==
  /\ \A r \in Runs : pc[r] \in Ended
  /\ UNCHANGED vars

Next == (\E r \in Runs : Start(r) \/ RunStep(r) \/ IoFails(r) \/ Kill(r)) \/ AllDone

Spec == Init /\ [][Next]_vars

\* A started run keeps executing: it is sequential code that waits for nobody.
\* A tool call and a provider answer return (Bash has a timeout, the provider
\* is assumed to); nothing says that an invocation is made or a process killed.
FairSpec == Spec /\ \A r \in Runs : WF_vars(RunStep(r))
=============================================================================
