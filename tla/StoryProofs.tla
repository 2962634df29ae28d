------------------------------ MODULE StoryProofs ------------------------------
(***************************************************************************)
(* What a reader of one run's records may conclude from them, whatever     *)
(* other processes write to the same session in between and whoever is     *)
(* killed: its chain is unbroken, its messages were streamed, its calls    *)
(* are told whole, its exit code is the one its records end with, and what *)
(* it retried was safe. Each is a small invariant on top of the stories    *)
(* the ledger lets it tell: what a run's memory says of its own            *)
(* records. A step of a run either tells an event, which the turn state    *)
(* machine accepts or refuses, or moves, or places the run in the file     *)
(* (StepKinds); every preservation proof follows these cases.              *)
(***************************************************************************)
EXTENDS OrchestratorProofs
-----------------------------------------------------------------------------
(***************************************************************************)
(* The orchestrator implements the ledger (RunLedger): for any number of   *)
(* processes and sessions, and any kill, the records of each run tell one  *)
(* legal story. The invariant says what the latest record of a run is at   *)
(* each place control may be; every emission must then be one the ledger   *)
(* lets follow it.                                                         *)
(***************************************************************************)

Talking == {"recover", "provider", "model", "message"}
Telling == {"user"} \cup Talking \cup CallPcs

\* After x the model may speak, or ask for a tool.
Speakable(x) ==
  \/ x.type \in {"user_message", "assistant_message"}
  \/ x.type = "tool_execution_finished" /\ x.info = "success"

\* A run stands at p, having a message (m) and having made a call (u) or not,
\* with q the request and st the status of call c: its latest record is x.
Stands(p, x, m, u, c, q, st) ==
  /\ p = "user" => x.type \in {"session_start", "session_resumed"} /\ ~m /\ ~u
  /\ p \in Talking => Speakable(x) /\ (x.type = "user_message" <=> ~m /\ ~u)
  /\ p \in CallPcs => u
  /\ p = "request" => Speakable(x)
  /\ p \in CallPcs \ {"request"} => x.tc = c
  /\ p = "decide" => x.type = "tool_call_requested" /\ x.req = q
  /\ p = "answer" => x.type = "tool_permission_required" /\ x.req = q
  /\ p = "decided" => /\ x.type \in {"tool_call_requested", "tool_permission_required"}
                      /\ x.req = q
  /\ p = "launch" => x.type = "tool_permission_decided" /\ x.info = "allow"
  /\ p = "execute" => x.type = "tool_execution_started"
  /\ p = "result" =>
       \/ x.type = "tool_permission_decided" /\ x.info = "deny" /\ st = "denied"
       \/ x.type = "tool_execution_started" /\ st \in {"success", "error"}
  /\ p = "finish_call" => x.type = "tool_result" /\ x.info = st
  /\ p = "outcome" => x.type = "tool_execution_finished" /\ x.info = st

\* x is the latest record of run b in file f.
LastOf(f, b, x) ==
  \E i \in DOMAIN f : /\ f[i] = x /\ x.by = b
                      /\ \A j \in DOMAIN f : f[j].by = b => j <= i

Story(r) ==
  /\ pc[r] \in Before \cup {"user"} => ~message[r] /\ ~toolUsed[r]
  /\ (persist[r] /\ pc[r] \in Telling) =>
       \E x : /\ LastOf(transcript[sid[r]], r, x)
              /\ Stands(pc[r], x, message[r], toolUsed[r], calls[r], cur[r], status[r])

\* Records are those of runs that have opened, about calls they have begun.
RecordsBehind ==
  \A s \in Sessions : \A i \in DOMAIN transcript[s] :
    LET x == transcript[s][i]
    IN  /\ pc[x.by] \notin Before
        /\ x.tc <= calls[x.by]
        /\ pc[x.by] = "request" => x.tc < calls[x.by]

\* Likewise the executions; the call in progress has had none before its result.
EffectsBehind ==
  \A e \in effects :
    /\ pc[e.by] \notin Before
    /\ e.tc <= calls[e.by]
    /\ pc[e.by] \in {"request", "decide", "answer", "decided", "launch", "execute"} =>
         e.tc < calls[e.by]

StoryInv == AuditInv /\ RecordsBehind /\ EffectsBehind /\ \A r \in Runs : Story(r)
-----------------------------------------------------------------------------
(* The latest record of a run. *)

LEMMA LastAppended ==
  ASSUME NEW S, NEW f \in Seq(S), NEW x, NEW b, x.by = b
  PROVE  LastOf(Append(f, x), b, x)
<1>1. /\ Len(f) \in Nat /\ DOMAIN Append(f, x) = 1..(Len(f) + 1)
      /\ Append(f, x)[Len(f) + 1] = x
  BY AppendKeeps
<1> QED BY <1>1 DEF LastOf

LEMMA LastKept ==
  ASSUME NEW S, NEW f \in Seq(S), NEW x, NEW b, NEW y, x.by # b, LastOf(f, b, y)
  PROVE  LastOf(Append(f, x), b, y)
<1>1. /\ Len(f) \in Nat /\ DOMAIN f = 1..Len(f)
      /\ DOMAIN Append(f, x) = 1..(Len(f) + 1)
      /\ \A i \in 1..Len(f) : Append(f, x)[i] = f[i]
      /\ Append(f, x)[Len(f) + 1] = x
  BY AppendKeeps
<1>2. PICK i \in 1..Len(f) : f[i] = y /\ y.by = b /\ \A j \in 1..Len(f) : f[j].by = b => j <= i
  BY <1>1 DEF LastOf
<1>3. i \in 1..(Len(f) + 1) /\ Append(f, x)[i] = y
  BY <1>1, <1>2
<1>4. \A j \in 1..(Len(f) + 1) : Append(f, x)[j].by = b => j <= i
  <2> SUFFICES ASSUME NEW j \in 1..(Len(f) + 1), Append(f, x)[j].by = b PROVE j <= i
    OBVIOUS
  <2>1. j # Len(f) + 1
    BY <1>1
  <2>2. j \in 1..Len(f)
    BY <1>1, <2>1
  <2> QED BY <1>1, <1>2, <2>2
<1> QED BY <1>1, <1>2, <1>3, <1>4 DEF LastOf

\* The ledger lets e follow what run r has written.
MayTell(r, e) ==
  LET f == transcript[sid[r]]
  IN  /\ \/ Ledger!Unheard(f, r) /\ e.type \in Ledger!Openings
         \/ \E x : LastOf(f, r, x) /\ Ledger!MayFollow(x, e)
      /\ e.type = "tool_call_requested" => Ledger!NewCall(f, e)

LedgerStep == Ledger!Next \/ UNCHANGED Ledger!ledgerVars

LEMMA QuietLedger ==
  ASSUME UNCHANGED <<transcript, effects, persist>>
  PROVE  LedgerStep
<1>1. Performed' = Performed
  BY DEF Performed
<1> QED BY <1>1 DEF LedgerStep, Ledger!ledgerVars

\* An emission the ledger allows is a step of the ledger, or none.
LEMMA EmissionTold ==
  ASSUME TypeInv, NEW r \in Runs, Live(r), NEW e, NEW next, Emit(r, e, next), e.by = r,
         UNCHANGED <<effects, persist>>,
         persist[r] /\ e.type \notin StreamOnlyTypes => MayTell(r, e)
  PROVE  LedgerStep
<1>1. CASE ~Written(r, e)
  BY <1>1, QuietLedger DEF Emit
<1>2. CASE Written(r, e)
  <2> DEFINE s == sid[r]
             f == transcript[s]
  <2>1. s \in Sessions /\ f \in Seq(Records) /\ transcript \in [Sessions -> Seq(Records)]
    BY DEF TypeInv, TypeOK, ScopeOK, LogTypeOK
  <2>2. transcript' = [transcript EXCEPT ![s] = Append(@, e)]
    BY <1>2 DEF Emit, AppendRecord
  <2>3. transcript'[s] = Append(f, e)
    BY <2>1, <2>2
  <2>4. transcript'[s] # <<>> /\ transcript'[s][Len(transcript'[s])] = e
    <3>1. Len(Append(f, e)) = Len(f) + 1 /\ Append(f, e)[Len(f) + 1] = e /\ Len(f) \in Nat
      BY <2>1, AppendKeeps
    <3> QED BY <2>3, <3>1
  <2>5. MayTell(r, e)
    BY <1>2 DEF Written
  <2>6. \/ Ledger!Unheard(f, e.by) /\ e.type \in Ledger!Openings
        \/ \E i \in DOMAIN f :
             f[i].by = e.by /\ Ledger!IsLatest(f, i) /\ Ledger!MayFollow(f[i], e)
    BY <2>5 DEF MayTell, LastOf, Ledger!IsLatest
  <2>7. e.type = "tool_call_requested" => Ledger!NewCall(f, e)
    BY <2>5 DEF MayTell
  <2>8. Performed' = Performed
    BY DEF Performed
  <2> HIDE DEF s, f
  <2>9. Ledger!Tell(s, e)
    BY <2>2, <2>6, <2>7, <2>8 DEF Ledger!Tell, f
  <2> QED BY <2>1, <2>4, <2>9 DEF LedgerStep, Ledger!Next
<1> QED BY <1>1, <1>2
-----------------------------------------------------------------------------
(* What a step of a run does to its records and calls. *)

\* The places from the request of a call to its execution.
Approach == {"decide", "answer", "decided", "launch", "execute"}

\* A record of run r about its current call, or about none.
OwnRecord(r, x) == x.by = r /\ x.tc \in {0, calls[r]}

Appended(r) ==
  \/ UNCHANGED transcript
  \/ \E x : OwnRecord(r, x) /\ transcript' = [transcript EXCEPT ![sid[r]] = Append(@, x)]

LEMMA EmitAppends ==
  ASSUME NEW r, NEW e, NEW next, OwnRecord(r, e), Emit(r, e, next)
  PROVE  Appended(r)
BY DEF Emit, AppendRecord, Appended

LEMMA EventOwn ==
  ASSUME NEW r, NEW type, NEW q, NEW info
  PROVE  /\ OwnRecord(r, Plain(r, type)) /\ Plain(r, type).type = type
         /\ OwnRecord(r, CallEvent(r, type, q, info)) /\ CallEvent(r, type, q, info).type = type
BY DEF OwnRecord, Plain, CallEvent, Event

\* A call begins without a record, and nothing else changes the counter; who has
\* not opened writes nothing; the execution is approached step by step.
Shape(r) ==
  /\ Appended(r)
  /\ \/ calls' = calls /\ pc'[r] # "request"
     \/ calls' = [calls EXCEPT ![r] = @ + 1] /\ pc'[r] = "request" /\ UNCHANGED transcript
  /\ pc'[r] \in Before => pc[r] \in Before /\ UNCHANGED <<transcript, effects>>
  /\ pc'[r] \in Approach => pc[r] \in ({"request"} \cup Approach) \ {"execute"}
  /\ UNCHANGED <<sid, persist>>
  /\ \A o \in Runs \ {r} :
       /\ pc'[o] = pc[o] /\ calls'[o] = calls[o] /\ cur'[o] = cur[o] /\ status'[o] = status[o]
       /\ message'[o] = message[o] /\ toolUsed'[o] = toolUsed[o]

LEMMA OtherFields ==
  ASSUME TypeInv, NEW r \in Runs, RunStep(r)
  PROVE  \A o \in Runs \ {r} : /\ status'[o] = status[o]
                               /\ message'[o] = message[o] /\ toolUsed'[o] = toolUsed[o]
BY DEF RunStep, ChooseRunId, Load, Bind, EmitOpening, EmitUser, Retry, NothingToRetry,
       ToolStep, ExecutorStep, Request, DecideCall, Answer, EmitDecided, Launch,
       Execute, ToolRaises, EmitResult, EmitFinished, TurnStep, Provider, DeltaChunk,
       MessageChunk, EmitMessage, ToolChunk, BadChunk, Begin,
       ToolSucceeded, ToolFailed, NoMessage, Complete, Finish, UpdateIndex, callVars, turnVars,
       TypeInv, TypeOK, CallTypeOK, TurnTypeOK

LEMMA StepShape ==
  ASSUME TypeInv, NEW r \in Runs, RunStep(r)
  PROVE  Shape(r)
<1> USE DEF Before, Approach
<1>0. pc \in [Runs -> Pcs]
  BY DEF TypeInv, TypeOK, LogTypeOK
<1>1. /\ UNCHANGED <<sid, persist>>
      /\ \A o \in Runs \ {r} : pc'[o] = pc[o] /\ calls'[o] = calls[o] /\ cur'[o] = cur[o]
  BY RunStepFrame
<1>2. Appended(r)
  <2>1. ASSUME UNCHANGED transcript PROVE Appended(r)
    BY <2>1 DEF Appended
  <2>2. CASE ToolStep(r)
    BY <2>1, <2>2, EmitAppends, EventOwn
       DEF ToolStep, ExecutorStep, Request, DecideCall, Answer, EmitDecided, Launch, Execute,
           ToolRaises, EmitResult, EmitFinished, Goto, logVars
  <2>3. CASE TurnStep(r)
    BY <2>1, <2>3, EmitAppends, EventOwn
       DEF TurnStep, Provider, DeltaChunk, MessageChunk, EmitMessage, ToolChunk, BadChunk,
           ToolSucceeded, ToolFailed, NoMessage, Complete, Finish, UpdateIndex, Goto, logVars
  <2>4. CASE \/ ChooseRunId(r) \/ Load(r) \/ Bind(r) \/ EmitOpening(r) \/ EmitUser(r)
             \/ Retry(r) \/ NothingToRetry(r)
    BY <2>1, <2>4, EmitAppends, EventOwn
       DEF ChooseRunId, Load, LoadSeq, LoadParent, Bind, EmitOpening, EmitUser, Retry,
           NothingToRetry, Goto, logVars
  <2> QED BY <2>2, <2>3, <2>4 DEF RunStep
<1>3. \/ calls' = calls /\ pc'[r] # "request"
      \/ calls' = [calls EXCEPT ![r] = @ + 1] /\ pc'[r] = "request" /\ UNCHANGED transcript
  <2>1. CASE ToolStep(r)
    BY <1>0, <2>1
       DEF ToolStep, ExecutorStep, Request, DecideCall, Answer, EmitDecided, Launch, Execute,
           ToolRaises, EmitResult, EmitFinished, Emit, Goto, Raise, callVars
  <2>2. CASE TurnStep(r)
    BY <1>0, <2>2
       DEF TurnStep, Provider, DeltaChunk, MessageChunk, EmitMessage, ToolChunk, BadChunk, Begin,
           ToolSucceeded, ToolFailed, NoMessage, Complete, Finish, UpdateIndex, Emit, Goto, Raise,
           callVars, logVars
  <2>3. CASE \/ ChooseRunId(r) \/ Load(r) \/ Bind(r) \/ EmitOpening(r) \/ EmitUser(r)
             \/ Retry(r) \/ NothingToRetry(r)
    BY <1>0, <2>3
       DEF ChooseRunId, Load, LoadSeq, LoadParent, Bind, EmitOpening, EmitUser, Retry, Begin,
           NothingToRetry, Emit, Goto, callVars, logVars
  <2> QED BY <2>1, <2>2, <2>3 DEF RunStep
<1>4. pc'[r] \in Before => pc[r] \in Before /\ UNCHANGED <<transcript, effects>>
  <2>1. CASE ToolStep(r) \/ TurnStep(r)
    <3>1. pc'[r] \notin Before
      BY <1>0, <2>1
         DEF ToolStep, ExecutorStep, Request, DecideCall, Answer, EmitDecided, Launch, Execute,
           ToolRaises, EmitResult, EmitFinished, TurnStep, Provider, DeltaChunk, MessageChunk,
           EmitMessage, ToolChunk, BadChunk, ToolSucceeded, ToolFailed, NoMessage, Complete,
           Finish, UpdateIndex, Emit, Goto, Raise
    <3> QED BY <3>1
  <2>2. CASE \/ ChooseRunId(r) \/ Load(r) \/ Bind(r) \/ EmitOpening(r) \/ EmitUser(r)
             \/ Retry(r) \/ NothingToRetry(r)
    BY <1>0, <2>2
       DEF ChooseRunId, Load, LoadSeq, LoadParent, Bind, EmitOpening, EmitUser, Retry,
           NothingToRetry, Emit, Goto, callVars, logVars
  <2> QED BY <2>1, <2>2 DEF RunStep
<1>5. pc'[r] \in Approach => pc[r] \in ({"request"} \cup Approach) \ {"execute"}
  <2>1. CASE ToolStep(r)
    BY <1>0, <2>1
       DEF ToolStep, ExecutorStep, Request, DecideCall, Answer, EmitDecided, Launch, Execute,
           ToolRaises, EmitResult, EmitFinished, Emit, Goto, Raise
  <2>2. CASE TurnStep(r)
    BY <1>0, <2>2
       DEF TurnStep, Provider, DeltaChunk, MessageChunk, EmitMessage, ToolChunk, BadChunk,
           ToolSucceeded, ToolFailed, NoMessage, Complete, Finish, UpdateIndex, Emit, Goto, Raise
  <2>3. CASE \/ ChooseRunId(r) \/ Load(r) \/ Bind(r) \/ EmitOpening(r) \/ EmitUser(r)
             \/ Retry(r) \/ NothingToRetry(r)
    BY <1>0, <2>3
       DEF ChooseRunId, Load, LoadSeq, LoadParent, Bind, EmitOpening, EmitUser, Retry,
           NothingToRetry, Emit, Goto
  <2> QED BY <2>1, <2>2, <2>3 DEF RunStep
<1> QED BY <1>1, <1>2, <1>3, <1>4, <1>5, OtherFields DEF Shape
-----------------------------------------------------------------------------
(* Records and executions stay behind the counters. *)

LEMMA RecordsStayBehind ==
  ASSUME StoryInv, NEW r \in Runs, Shape(r), pc[r] # "idle" , Live(r)
  PROVE  RecordsBehind'
<1>1. /\ transcript \in [Sessions -> Seq(Records)] /\ calls \in [Runs -> Nat] /\ sid[r] \in Sessions
  BY DEF StoryInv, AuditInv, TypeInv, TypeOK, LogTypeOK, CallTypeOK, ScopeOK
<1>2. ASSUME NEW x \in Records, pc[x.by] \notin Before, x.tc <= calls[x.by],
             pc[x.by] = "request" => x.tc < calls[x.by]
      PROVE  /\ pc'[x.by] \notin Before
             /\ x.tc <= calls'[x.by]
             /\ pc'[x.by] = "request" => x.tc < calls'[x.by]
  <2>1. x.by \in Runs /\ x.tc \in Nat
    BY DEF Records
  <2>2. CASE x.by = r
    BY <1>1, <1>2, <2>1, <2>2 DEF Shape
  <2>3. CASE x.by # r
    BY <1>2, <2>1, <2>3 DEF Shape
  <2> QED BY <2>2, <2>3
<1>3. CASE UNCHANGED transcript
  <2> SUFFICES ASSUME NEW s \in Sessions, NEW i \in DOMAIN transcript[s]
               PROVE  LET x == transcript[s][i]
                      IN  /\ pc'[x.by] \notin Before
                          /\ x.tc <= calls'[x.by]
                          /\ pc'[x.by] = "request" => x.tc < calls'[x.by]
    BY <1>3 DEF RecordsBehind
  <2>1. transcript[s][i] \in Records
    BY <1>1
  <2> QED BY <1>2, <2>1 DEF StoryInv, RecordsBehind
<1>4. ASSUME NEW e, OwnRecord(r, e), transcript' = [transcript EXCEPT ![sid[r]] = Append(@, e)],
             ~UNCHANGED transcript
      PROVE  RecordsBehind'
  <2>1. calls' = calls /\ pc'[r] \notin Before \cup {"request"}
    BY <1>4 DEF Shape
  <2> SUFFICES ASSUME NEW s \in Sessions, NEW i \in DOMAIN transcript'[s]
               PROVE  LET x == transcript'[s][i]
                      IN  /\ pc'[x.by] \notin Before
                          /\ x.tc <= calls'[x.by]
                          /\ pc'[x.by] = "request" => x.tc < calls'[x.by]
    BY DEF RecordsBehind
  <2>2. \/ i \in DOMAIN transcript[s] /\ transcript'[s][i] = transcript[s][i]
        \/ transcript'[s][i] = e
    <3>1. transcript[s] \in Seq(Records)
      BY <1>1
    <3>2. transcript'[s] = transcript[s] \/ transcript'[s] = Append(transcript[s], e)
      BY <1>1, <1>4
    <3>3. /\ Len(transcript[s]) \in Nat /\ DOMAIN transcript[s] = 1..Len(transcript[s])
          /\ DOMAIN Append(transcript[s], e) = 1..(Len(transcript[s]) + 1)
          /\ \A k \in 1..Len(transcript[s]) : Append(transcript[s], e)[k] = transcript[s][k]
          /\ Append(transcript[s], e)[Len(transcript[s]) + 1] = e
      BY <3>1, AppendKeeps
    <3> QED BY <3>2, <3>3
  <2>3. CASE transcript'[s][i] = e
    <3>1. e.by = r /\ e.tc \in {0, calls[r]}
      BY <1>4 DEF OwnRecord
    <3> QED BY <1>1, <2>1, <2>3, <3>1
  <2>4. CASE i \in DOMAIN transcript[s] /\ transcript'[s][i] = transcript[s][i]
    <3>1. transcript[s][i] \in Records
      BY <1>1, <2>4
    <3> QED BY <1>2, <2>4, <3>1 DEF StoryInv, RecordsBehind
  <2> QED BY <2>2, <2>3, <2>4
<1> QED BY <1>3, <1>4 DEF Shape, Appended

LEMMA EffectsStayBehind ==
  ASSUME StoryInv, NEW r \in Runs, Shape(r), RunStep(r)
  PROVE  EffectsBehind'
<1>1. calls \in [Runs -> Nat] /\ \A e \in effects : e.by \in Runs /\ e.tc \in Nat
  BY DEF StoryInv, AuditInv, TypeInv, TypeOK, CallTypeOK
<1> SUFFICES ASSUME NEW e \in effects'
             PROVE  /\ pc'[e.by] \notin Before
                    /\ e.tc <= calls'[e.by]
                    /\ pc'[e.by] \in {"request"} \cup Approach => e.tc < calls'[e.by]
  BY DEF EffectsBehind, Approach
<1>2. CASE e \in effects /\ e.by # r
  BY <1>1, <1>2 DEF Shape, StoryInv, EffectsBehind, Approach
<1>3. CASE e \in effects /\ e.by = r
  <2>1. /\ pc[r] \notin Before /\ e.tc <= calls[r] /\ e.tc \in Nat /\ calls[r] \in Nat
        /\ pc[r] \in {"request"} \cup Approach => e.tc < calls[r]
    BY <1>1, <1>3 DEF StoryInv, EffectsBehind, Approach
  <2>2. pc'[r] \notin Before
    BY <2>1 DEF Shape
  <2>3. CASE calls' = calls /\ pc'[r] # "request"
    BY <1>3, <2>1, <2>2, <2>3 DEF Shape
  <2>4. CASE calls' = [calls EXCEPT ![r] = @ + 1] /\ pc'[r] = "request"
    <3>1. calls'[r] = calls[r] + 1
      BY <1>1, <2>4
    <3> QED BY <1>3, <2>1, <2>2, <3>1
  <2> QED BY <2>3, <2>4 DEF Shape
<1>4. CASE pc[r] = "execute" /\ e = Effect(r)
  <2>1. e.by = r /\ e.tc = calls[r] /\ calls[r] \in Nat
    BY <1>1, <1>4 DEF Effect
  <2>2. pc'[r] \notin Before \cup Approach
    BY <1>4 DEF Shape, Approach, Before
  <2>3. CASE calls' = calls /\ pc'[r] # "request"
    BY <2>1, <2>2, <2>3
  <2>4. CASE calls' = [calls EXCEPT ![r] = @ + 1]
    <3>1. calls'[r] = calls[r] + 1
      BY <1>1, <2>4
    <3> QED BY <2>1, <2>2, <3>1
  <2> QED BY <2>3, <2>4 DEF Shape
<1> QED BY <1>2, <1>3, <1>4, EffectsOfStep
-----------------------------------------------------------------------------
(* The story of a run goes on. *)

\* Where a step leaves a run alone, its latest record stays.
LEMMA OtherStory ==
  ASSUME StoryInv, NEW r \in Runs, Appended(r), sid[r] \in Sessions \/ UNCHANGED transcript,
         NEW o \in Runs \ {r},
         pc'[o] = pc[o], sid'[o] = sid[o], persist'[o] = persist[o], calls'[o] = calls[o],
         cur'[o] = cur[o], status'[o] = status[o], message'[o] = message[o],
         toolUsed'[o] = toolUsed[o]
  PROVE  Story(o)'
<1>1. Story(o)
  BY DEF StoryInv
<1> SUFFICES ASSUME persist[o], pc[o] \in Telling
             PROVE  \E x : /\ LastOf(transcript'[sid[o]], o, x)
                           /\ Stands(pc[o], x, message[o], toolUsed[o], calls[o], cur[o], status[o])
  BY <1>1 DEF Story
<1>2. PICK x : /\ LastOf(transcript[sid[o]], o, x)
               /\ Stands(pc[o], x, message[o], toolUsed[o], calls[o], cur[o], status[o])
  BY <1>1 DEF Story
<1>3. sid[o] \in Sessions /\ transcript \in [Sessions -> Seq(Records)]
  BY DEF StoryInv, AuditInv, TypeInv, TypeOK, LogTypeOK, ScopeOK, Live, Ended, Telling, Talking, CallPcs
<1>4. LastOf(transcript'[sid[o]], o, x)
  <2>1. CASE UNCHANGED transcript
    BY <1>2, <2>1
  <2>2. ASSUME NEW e, OwnRecord(r, e), transcript' = [transcript EXCEPT ![sid[r]] = Append(@, e)]
        PROVE  LastOf(transcript'[sid[o]], o, x)
    <3>1. \/ transcript'[sid[o]] = transcript[sid[o]]
          \/ transcript'[sid[o]] = Append(transcript[sid[o]], e)
      BY <1>3, <2>2
    <3>2. e.by # o
      BY <2>2 DEF OwnRecord
    <3>3. transcript[sid[o]] \in Seq(Records)
      BY <1>3
    <3>4. LastOf(Append(transcript[sid[o]], e), o, x)
      BY <1>2, <3>2, <3>3, LastKept
    <3> QED BY <1>2, <3>1, <3>4
  <2> QED BY <2>1, <2>2 DEF Appended
<1> QED BY <1>2, <1>4

\* The run's own story, after a step without a record ...
LEMMA QuietStory ==
  ASSUME StoryInv, NEW r \in Runs, UNCHANGED <<transcript, sid, persist>>,
         pc'[r] \in Before \cup {"user"} => ~message'[r] /\ ~toolUsed'[r],
         persist[r] /\ pc'[r] \in Telling =>
           \E x : /\ LastOf(transcript[sid[r]], r, x)
                  /\ Stands(pc'[r], x, message'[r], toolUsed'[r], calls'[r], cur'[r], status'[r])
  PROVE  Story(r)'
BY DEF Story

\* ... and after an emission, which makes its record the latest.
LEMMA SpokenStory ==
  ASSUME StoryInv, NEW r \in Runs, Live(r), NEW e, e.by = r, e.type \notin StreamOnlyTypes,
         NEW next, Emit(r, e, next), UNCHANGED <<sid, persist>>,
         next \notin Before, next = "user" => ~message'[r] /\ ~toolUsed'[r],
         persist[r] =>
           Stands(next, e, message'[r], toolUsed'[r], calls'[r], cur'[r], status'[r])
  PROVE  Story(r)'
<1>1. pc'[r] \in {next, "exited"} /\ TypeInv
  BY DEF StoryInv, AuditInv, TypeInv, TypeOK, LogTypeOK, Emit
<1>2. CASE pc'[r] = "exited"
  BY <1>2 DEF Story, Before, Telling, Talking, CallPcs
<1>3. CASE pc'[r] # "exited"
  <2>1. pc'[r] = next
    BY <1>1, <1>3
  <2>2. persist[r] => LastOf(transcript'[sid[r]], r, e)
    <3> SUFFICES ASSUME persist[r] PROVE LastOf(transcript'[sid[r]], r, e)
      OBVIOUS
    <3>1. transcript'[sid[r]] = Append(transcript[sid[r]], e)
      BY <1>1, <1>3, EmitWrites
    <3>2. transcript[sid[r]] \in Seq(Records)
      BY <1>1 DEF TypeInv, TypeOK, LogTypeOK, ScopeOK
    <3> QED BY <3>1, <3>2, LastAppended
  <2> QED BY <2>1, <2>2 DEF Story
<1> QED BY <1>2, <1>3

\* An emission the ledger allows, of a record that stands where control goes.
LEMMA Spoken ==
  ASSUME StoryInv, NEW r \in Runs, Live(r), NEW e, e.by = r, e.type \notin StreamOnlyTypes,
         NEW next, Emit(r, e, next), UNCHANGED <<effects, sid, persist>>,
         next \notin Before, next = "user" => ~message'[r] /\ ~toolUsed'[r],
         persist[r] =>
           /\ MayTell(r, e)
           /\ Stands(next, e, message'[r], toolUsed'[r], calls'[r], cur'[r], status'[r])
  PROVE  LedgerStep /\ Story(r)'
<1>1. LedgerStep
  BY EmissionTold DEF StoryInv, AuditInv
<1>2. Story(r)'
  BY SpokenStory
<1> QED BY <1>1, <1>2

\* What the invariant says of a persisted run that has spoken.
LEMMA Latest ==
  ASSUME StoryInv, NEW r \in Runs, persist[r], pc[r] \in Telling
  PROVE  \E x : /\ LastOf(transcript[sid[r]], r, x)
                /\ Stands(pc[r], x, message[r], toolUsed[r], calls[r], cur[r], status[r])
BY DEF StoryInv, Story

\* The records of a tool call, but the first.
LEMMA MayContinue ==
  ASSUME NEW r, NEW e, NEW x, LastOf(transcript[sid[r]], r, x), Ledger!MayFollow(x, e),
         e.type # "tool_call_requested"
  PROVE  MayTell(r, e)
BY DEF MayTell

LEMMA RequestStory ==
  ASSUME StoryInv, NEW r \in Runs, Request(r), UNCHANGED <<sid, persist, message, toolUsed>>
  PROVE  LedgerStep /\ Story(r)'
<1> DEFINE e == CallEvent(r, "tool_call_requested", cur[r], "")
<1>1. /\ pc[r] = "request" /\ Live(r) /\ pc[r] \in Telling /\ Emit(r, e, "decide")
      /\ UNCHANGED <<calls, cur, status, effects>>
  BY DEF Request, callVars, Live, Ended, Telling, CallPcs
<1>2. /\ e.by = r /\ e.type = "tool_call_requested" /\ e.tc = calls[r] /\ e.req = cur[r]
      /\ e.type \notin StreamOnlyTypes
  BY DEF CallEvent, Event, StreamOnlyTypes
<1> HIDE DEF e
<1>3. ASSUME persist[r]
      PROVE  MayTell(r, e) /\ Stands("decide", e, message[r], toolUsed[r], calls[r], cur[r], status[r])
  <2>1. PICK x : /\ LastOf(transcript[sid[r]], r, x)
                 /\ Stands("request", x, message[r], toolUsed[r], calls[r], cur[r], status[r])
    BY <1>1, <1>3, Latest
  <2>2. Speakable(x) /\ toolUsed[r]
    BY <2>1 DEF Stands, CallPcs
  <2>3. Ledger!MayFollow(x, e)
    BY <1>2, <2>2 DEF Speakable, Ledger!MayFollow, Ledger!Open
  <2>4. Ledger!NewCall(transcript[sid[r]], e)
    <3>1. sid[r] \in Sessions
      BY <1>1 DEF StoryInv, AuditInv, TypeInv, TypeOK, ScopeOK
    <3> QED BY <1>1, <1>2, <3>1 DEF StoryInv, RecordsBehind, Ledger!NewCall
  <2>5. Stands("decide", e, message[r], toolUsed[r], calls[r], cur[r], status[r])
    BY <1>2, <2>2 DEF Stands, Talking
  <2> QED BY <2>1, <2>3, <2>4, <2>5 DEF MayTell
<1> QED BY <1>1, <1>2, <1>3, Spoken DEF Before

LEMMA DecideStory ==
  ASSUME StoryInv, NEW r \in Runs, DecideCall(r) \/ Answer(r),
         UNCHANGED <<sid, persist, message, toolUsed>>
  PROVE  LedgerStep /\ Story(r)'
<1>1. /\ pc[r] \in {"decide", "answer"} /\ Live(r) /\ pc[r] \in Telling
      /\ UNCHANGED <<calls, cur, status, effects>> /\ TypeInv
  BY DEF DecideCall, Answer, Live, Ended, Telling, CallPcs, StoryInv, AuditInv
<1>2. CASE DecideCall(r) /\ Provisional(r).decision = "ask"
  <2> DEFINE e == CallEvent(r, "tool_permission_required", cur[r], "")
  <2>1. pc[r] = "decide" /\ Emit(r, e, "answer")
    BY <1>2 DEF DecideCall
  <2>2. /\ e.by = r /\ e.type = "tool_permission_required" /\ e.tc = calls[r] /\ e.req = cur[r]
        /\ e.type \notin StreamOnlyTypes
    BY DEF CallEvent, Event, StreamOnlyTypes
  <2> HIDE DEF e
  <2>3. ASSUME persist[r]
        PROVE  MayTell(r, e) /\ Stands("answer", e, message[r], toolUsed[r], calls[r], cur[r], status[r])
    <3>1. PICK x : /\ LastOf(transcript[sid[r]], r, x)
                   /\ Stands("decide", x, message[r], toolUsed[r], calls[r], cur[r], status[r])
      BY <1>1, <2>1, <2>3, Latest
    <3>2. x.type = "tool_call_requested" /\ x.req = cur[r] /\ x.tc = calls[r] /\ toolUsed[r]
      BY <3>1 DEF Stands, CallPcs
    <3>3. Ledger!MayFollow(x, e)
      BY <2>2, <3>2 DEF Ledger!MayFollow, Ledger!SameCall
    <3>4. Stands("answer", e, message[r], toolUsed[r], calls[r], cur[r], status[r])
      BY <2>2, <3>2 DEF Stands, Talking
    <3> QED BY <2>2, <3>1, <3>3, <3>4, MayContinue
  <2> QED BY <1>1, <2>1, <2>2, <2>3, Spoken DEF Before
<1>3. CASE ~(DecideCall(r) /\ Provisional(r).decision = "ask")
  <2>1. UNCHANGED transcript /\ pc'[r] = "decided"
    BY <1>1, <1>3 DEF DecideCall, Answer, Goto, logVars, TypeInv, TypeOK, LogTypeOK
  <2>2. ASSUME persist[r]
        PROVE  \E x : /\ LastOf(transcript[sid[r]], r, x)
                      /\ Stands("decided", x, message[r], toolUsed[r], calls[r], cur[r], status[r])
    <3>1. PICK x : /\ LastOf(transcript[sid[r]], r, x)
                   /\ Stands(pc[r], x, message[r], toolUsed[r], calls[r], cur[r], status[r])
      BY <1>1, <2>2, Latest
    <3>2. Stands("decided", x, message[r], toolUsed[r], calls[r], cur[r], status[r])
      BY <1>1, <3>1 DEF Stands, Talking, CallPcs
    <3> QED BY <3>1, <3>2
  <2>3. LedgerStep
    BY <1>1, <2>1, QuietLedger
  <2>4. Story(r)'
    BY <1>1, <2>1, <2>2, QuietStory DEF Before
  <2> QED BY <2>3, <2>4
<1> QED BY <1>2, <1>3

LEMMA DecidedStory ==
  ASSUME StoryInv, NEW r \in Runs, EmitDecided(r), UNCHANGED <<sid, persist, message, toolUsed>>
  PROVE  LedgerStep /\ Story(r)'
<1> DEFINE e == CallEvent(r, "tool_permission_decided", cur[r], dec[r].decision)
           next == IF dec[r].decision = "allow" THEN "launch" ELSE "result"
<1>1. /\ pc[r] = "decided" /\ Live(r) /\ pc[r] \in Telling /\ Emit(r, e, next)
      /\ UNCHANGED <<calls, cur, effects>> /\ status'[r] = "denied"
  BY DEF EmitDecided, Live, Ended, Telling, CallPcs, StoryInv, AuditInv, TypeInv, TypeOK, CallTypeOK
<1>2. /\ e.by = r /\ e.type = "tool_permission_decided" /\ e.tc = calls[r] /\ e.req = cur[r]
      /\ e.info = dec[r].decision /\ e.type \notin StreamOnlyTypes
  BY DEF CallEvent, Event, StreamOnlyTypes
<1>3. dec[r].decision \in {"allow", "deny"}
  BY <1>1 DEF StoryInv, AuditInv, TypeInv, TypeOK, ScopeOK, Effects
<1> HIDE DEF e
<1>4. ASSUME persist[r]
      PROVE  MayTell(r, e) /\ Stands(next, e, message[r], toolUsed[r], calls[r], cur[r], "denied")
  <2>1. PICK x : /\ LastOf(transcript[sid[r]], r, x)
                 /\ Stands("decided", x, message[r], toolUsed[r], calls[r], cur[r], status[r])
    BY <1>1, <1>4, Latest
  <2>2. /\ x.type \in {"tool_call_requested", "tool_permission_required"}
        /\ x.req = cur[r] /\ x.tc = calls[r] /\ toolUsed[r]
    BY <2>1 DEF Stands, CallPcs
  <2>3. Ledger!MayFollow(x, e)
    BY <1>2, <1>3, <2>2 DEF Ledger!MayFollow, Ledger!SameCall
  <2>4. Stands(next, e, message[r], toolUsed[r], calls[r], cur[r], "denied")
    BY <1>2, <1>3, <2>2 DEF Stands, Talking
  <2> QED BY <1>2, <2>1, <2>3, <2>4, MayContinue
<1>5. next \notin Before /\ next # "user"
  BY DEF Before
<1> HIDE DEF next
<1> QED BY <1>1, <1>2, <1>4, <1>5, Spoken

LEMMA LaunchStory ==
  ASSUME StoryInv, NEW r \in Runs, Launch(r), UNCHANGED <<sid, persist, message, toolUsed>>
  PROVE  LedgerStep /\ Story(r)'
<1> DEFINE e == CallEvent(r, "tool_execution_started", NoRequest, "")
           next == IF ToolOf[cur[r]] \in RegisteredTools THEN "execute" ELSE "result"
<1>1. /\ pc[r] = "launch" /\ Live(r) /\ pc[r] \in Telling /\ Emit(r, e, next)
      /\ UNCHANGED <<calls, cur, effects>> /\ status'[r] = "error"
  BY DEF Launch, Live, Ended, Telling, CallPcs, StoryInv, AuditInv, TypeInv, TypeOK, CallTypeOK
<1>2. /\ e.by = r /\ e.type = "tool_execution_started" /\ e.tc = calls[r]
      /\ e.type \notin StreamOnlyTypes
  BY DEF CallEvent, Event, StreamOnlyTypes
<1> HIDE DEF e
<1>3. ASSUME persist[r]
      PROVE  MayTell(r, e) /\ Stands(next, e, message[r], toolUsed[r], calls[r], cur[r], "error")
  <2>1. PICK x : /\ LastOf(transcript[sid[r]], r, x)
                 /\ Stands("launch", x, message[r], toolUsed[r], calls[r], cur[r], status[r])
    BY <1>1, <1>3, Latest
  <2>2. x.type = "tool_permission_decided" /\ x.info = "allow" /\ x.tc = calls[r] /\ toolUsed[r]
    BY <2>1 DEF Stands, CallPcs
  <2>3. Ledger!MayFollow(x, e)
    BY <1>2, <2>2 DEF Ledger!MayFollow, Ledger!SameCall
  <2>4. Stands(next, e, message[r], toolUsed[r], calls[r], cur[r], "error")
    BY <1>2, <2>2 DEF Stands, Talking
  <2> QED BY <1>2, <2>1, <2>3, <2>4, MayContinue
<1>4. next \notin Before /\ next # "user"
  BY DEF Before
<1> HIDE DEF next
<1> QED BY <1>1, <1>2, <1>3, <1>4, Spoken

LEMMA ResultStory ==
  ASSUME StoryInv, NEW r \in Runs, EmitResult(r) \/ EmitFinished(r),
         UNCHANGED <<sid, persist, message, toolUsed>>
  PROVE  LedgerStep /\ Story(r)'
<1>1. /\ pc[r] \in {"result", "finish_call"} /\ Live(r) /\ pc[r] \in Telling
      /\ UNCHANGED <<calls, cur, status, effects>>
  BY DEF EmitResult, EmitFinished, callVars, Live, Ended, Telling, CallPcs
<1>2. CASE EmitResult(r)
  <2> DEFINE e == CallEvent(r, "tool_result", NoRequest, status[r])
  <2>1. pc[r] = "result" /\ Emit(r, e, "finish_call")
    BY <1>2 DEF EmitResult
  <2>2. /\ e.by = r /\ e.type = "tool_result" /\ e.tc = calls[r] /\ e.info = status[r]
        /\ e.type \notin StreamOnlyTypes
    BY DEF CallEvent, Event, StreamOnlyTypes
  <2> HIDE DEF e
  <2>3. ASSUME persist[r]
        PROVE  /\ MayTell(r, e)
               /\ Stands("finish_call", e, message[r], toolUsed[r], calls[r], cur[r], status[r])
    <3>1. PICK x : /\ LastOf(transcript[sid[r]], r, x)
                   /\ Stands("result", x, message[r], toolUsed[r], calls[r], cur[r], status[r])
      BY <1>1, <2>1, <2>3, Latest
    <3>2. /\ \/ x.type = "tool_permission_decided" /\ x.info = "deny" /\ status[r] = "denied"
             \/ x.type = "tool_execution_started" /\ status[r] \in {"success", "error"}
          /\ x.tc = calls[r] /\ toolUsed[r]
      BY <3>1 DEF Stands, CallPcs
    <3>3. Ledger!MayFollow(x, e)
      BY <2>2, <3>2 DEF Ledger!MayFollow, Ledger!SameCall
    <3>4. Stands("finish_call", e, message[r], toolUsed[r], calls[r], cur[r], status[r])
      BY <2>2, <3>2 DEF Stands, Talking
    <3> QED BY <2>2, <3>1, <3>3, <3>4, MayContinue
  <2> QED BY <1>1, <2>1, <2>2, <2>3, Spoken DEF Before
<1>3. CASE EmitFinished(r)
  <2> DEFINE e == CallEvent(r, "tool_execution_finished", NoRequest, status[r])
  <2>1. pc[r] = "finish_call" /\ Emit(r, e, "outcome")
    BY <1>3 DEF EmitFinished
  <2>2. /\ e.by = r /\ e.type = "tool_execution_finished" /\ e.tc = calls[r] /\ e.info = status[r]
        /\ e.type \notin StreamOnlyTypes
    BY DEF CallEvent, Event, StreamOnlyTypes
  <2> HIDE DEF e
  <2>3. ASSUME persist[r]
        PROVE  /\ MayTell(r, e)
               /\ Stands("outcome", e, message[r], toolUsed[r], calls[r], cur[r], status[r])
    <3>1. PICK x : /\ LastOf(transcript[sid[r]], r, x)
                   /\ Stands("finish_call", x, message[r], toolUsed[r], calls[r], cur[r], status[r])
      BY <1>1, <2>1, <2>3, Latest
    <3>2. x.type = "tool_result" /\ x.info = status[r] /\ x.tc = calls[r] /\ toolUsed[r]
      BY <3>1 DEF Stands, CallPcs
    <3>3. Ledger!MayFollow(x, e)
      BY <2>2, <3>2 DEF Ledger!MayFollow, Ledger!SameCall
    <3>4. Stands("outcome", e, message[r], toolUsed[r], calls[r], cur[r], status[r])
      BY <2>2, <3>2 DEF Stands, Talking
    <3> QED BY <2>2, <3>1, <3>3, <3>4, MayContinue
  <2> QED BY <1>1, <2>1, <2>2, <2>3, Spoken DEF Before
<1> QED BY <1>2, <1>3

\* The tool runs, with success or without, or raises: the ledger performs.
LEMMA ExecuteStory ==
  ASSUME StoryInv, NEW r \in Runs, Execute(r) \/ ToolRaises(r),
         UNCHANGED <<sid, persist, message, toolUsed>>
  PROVE  LedgerStep /\ Story(r)'
<1>1. /\ pc[r] = "execute" /\ Live(r) /\ pc[r] \in Telling /\ TypeInv
      /\ UNCHANGED <<calls, cur, transcript>> /\ effects' = effects \cup {Effect(r)}
  BY DEF Execute, ToolRaises, Goto, logVars, Live, Ended, Telling, CallPcs, StoryInv, AuditInv
<1>2. sid[r] \in Sessions /\ cur[r] \in Requests
  BY <1>1 DEF TypeInv, TypeOK, ScopeOK, CallPcs
<1>3. ASSUME persist[r]
      PROVE  \E x : /\ LastOf(transcript[sid[r]], r, x) /\ x.type = "tool_execution_started"
                    /\ x.tc = calls[r] /\ toolUsed[r]
  <2>1. PICK x : /\ LastOf(transcript[sid[r]], r, x)
                 /\ Stands("execute", x, message[r], toolUsed[r], calls[r], cur[r], status[r])
    BY <1>1, <1>3, Latest
  <2> QED BY <2>1 DEF Stands, CallPcs
<1>4. CASE ~persist[r]
  <2>1. Performed' = Performed
    BY <1>1, <1>4 DEF Performed, Effect
  <2> QED BY <1>1, <1>4, <2>1, QuietStory
          DEF LedgerStep, Ledger!ledgerVars, Execute, ToolRaises, Goto, Raise, Before,
              TypeInv, TypeOK, LogTypeOK
<1>5. CASE persist[r]
  <2> DEFINE s == sid[r]
             n == [by |-> r, sid |-> s, tc |-> calls[r], req |-> cur[r]]
  <2>1. PICK j \in DOMAIN transcript[s] :
          /\ transcript[s][j].by = r /\ transcript[s][j].type = "tool_execution_started"
          /\ transcript[s][j].tc = calls[r] /\ Ledger!IsLatest(transcript[s], j)
    BY <1>3, <1>5 DEF LastOf, Ledger!IsLatest
  <2>2. PICK i \in DOMAIN transcript[s] : Says(transcript[s][i], r, calls[r], "tool_call_requested", cur[r])
    BY <1>1, <1>5 DEF StoryInv, AuditInv, Trail, Audited
  <2>3. Performed' = Performed \cup {n}
    <3>1. /\ Effect(r).by = r /\ Effect(r).sid = s /\ Effect(r).tc = calls[r]
          /\ Effect(r).req = cur[r]
      BY DEF Effect
    <3> QED BY <1>1, <1>5, <3>1 DEF Performed
  <2>4. \A p \in Performed : p.by = r => p.tc # calls[r]
    <3>1. \A e \in effects : e.by = r => e.tc < calls[r]
      BY <1>1 DEF StoryInv, EffectsBehind
    <3>2. \A e \in effects : e.by = r => e.tc # calls[r]
      BY <1>1, <3>1 DEF TypeInv, TypeOK, CallTypeOK
    <3> QED BY <3>2 DEF Performed
  <2>5. Performed' # Performed
    <3>1. n.by = r /\ n.tc = calls[r]
      OBVIOUS
    <3> HIDE DEF n
    <3> QED BY <2>3, <2>4, <3>1
  <2> HIDE DEF s
  <2>6. Ledger!Perform(r, s, cur[r])
    BY <1>1, <2>1, <2>2, <2>3, <2>4, <2>5 DEF Ledger!Perform, Ledger!SameCall, Says
  <2>7. LedgerStep
    BY <1>2, <2>6 DEF LedgerStep, Ledger!Next, s
  <2>8. Story(r)'
    <3>1. pc'[r] \in {"result", "exited"} /\ (pc'[r] = "result" => status'[r] \in {"success", "error"})
      BY <1>1 DEF Execute, ToolRaises, Goto, Raise, TypeInv, TypeOK, LogTypeOK, CallTypeOK
    <3>2. PICK x : /\ LastOf(transcript[sid[r]], r, x) /\ x.type = "tool_execution_started"
                   /\ x.tc = calls[r] /\ toolUsed[r]
      BY <1>3, <1>5
    <3>3. pc'[r] \in Telling =>
            Stands(pc'[r], x, message[r], toolUsed[r], calls[r], cur[r], status'[r])
      BY <3>1, <3>2 DEF Stands, Telling, Talking, CallPcs
    <3> QED BY <1>1, <3>1, <3>2, <3>3, QuietStory DEF Before
  <2> QED BY <2>7, <2>8
<1> QED BY <1>4, <1>5
-----------------------------------------------------------------------------
(* The steps of run itself. *)

\* Before the opening.
LEMMA QuietStart ==
  ASSUME StoryInv, NEW r \in Runs, ChooseRunId(r) \/ Load(r) \/ Bind(r)
  PROVE  LedgerStep /\ Story(r)'
<1>1. /\ pc[r] \in Before /\ pc'[r] \in Before
      /\ UNCHANGED <<transcript, effects, persist, sid, message, toolUsed>>
  BY DEF ChooseRunId, Load, LoadSeq, LoadParent, Bind, Goto, logVars, confVars, idVars, callVars,
         turnVars, Before, StoryInv, AuditInv, TypeInv, TypeOK, LogTypeOK
<1>2. ~message[r] /\ ~toolUsed[r]
  BY <1>1 DEF StoryInv, Story
<1>3. pc'[r] \notin Telling
  BY <1>1 DEF Before, Telling, Talking, CallPcs
<1> QED BY <1>1, <1>2, <1>3, QuietLedger, QuietStory

LEMMA OpeningStory ==
  ASSUME StoryInv, NEW r \in Runs, EmitOpening(r)
  PROVE  LedgerStep /\ Story(r)'
<1> DEFINE type == IF Resumed(r) THEN "session_resumed" ELSE "session_start"
           e == Plain(r, type)
<1>1. /\ pc[r] = "open" /\ Live(r) /\ Emit(r, e, "user")
      /\ UNCHANGED <<effects, sid, persist, message, toolUsed>>
  BY DEF EmitOpening, Live, Ended, confVars, idVars, callVars, turnVars
<1>2. /\ e.by = r /\ e.type \in {"session_resumed", "session_start"}
      /\ e.type \notin StreamOnlyTypes
  BY DEF Plain, Event, StreamOnlyTypes
<1> HIDE DEF e
<1>3. ~message[r] /\ ~toolUsed[r]
  BY <1>1 DEF StoryInv, Story, Before
<1>4. MayTell(r, e)
  <2>1. sid[r] \in Sessions
    BY <1>1 DEF StoryInv, AuditInv, TypeInv, TypeOK, ScopeOK
  <2>2. Ledger!Unheard(transcript[sid[r]], r)
    BY <1>1, <2>1 DEF StoryInv, RecordsBehind, Before, Ledger!Unheard
  <2> QED BY <1>2, <2>2 DEF MayTell, Ledger!Openings
<1>5. Stands("user", e, message'[r], toolUsed'[r], calls'[r], cur'[r], status'[r])
  BY <1>1, <1>2, <1>3 DEF Stands, Talking, CallPcs
<1> QED BY <1>1, <1>2, <1>3, <1>4, <1>5, Spoken DEF Before

LEMMA UserStory ==
  ASSUME StoryInv, NEW r \in Runs, EmitUser(r)
  PROVE  LedgerStep /\ Story(r)'
<1> DEFINE e == Plain(r, "user_message")
           next == IF Resumed(r) THEN "recover" ELSE "provider"
<1>1. /\ pc[r] = "user" /\ Live(r) /\ pc[r] \in Telling /\ Emit(r, e, next)
      /\ UNCHANGED <<effects, sid, persist, message, toolUsed>>
  BY DEF EmitUser, Live, Ended, Telling, confVars, idVars, callVars, turnVars
<1>2. e.by = r /\ e.type = "user_message" /\ e.type \notin StreamOnlyTypes
  BY DEF Plain, Event, StreamOnlyTypes
<1> HIDE DEF e
<1>3. ~message[r] /\ ~toolUsed[r]
  BY <1>1 DEF StoryInv, Story
<1>4. persist[r] => MayTell(r, e)
  <2> SUFFICES ASSUME persist[r] PROVE MayTell(r, e)
    OBVIOUS
  <2>1. PICK x : /\ LastOf(transcript[sid[r]], r, x)
                 /\ Stands("user", x, message[r], toolUsed[r], calls[r], cur[r], status[r])
    BY <1>1, Latest
  <2>2. Ledger!MayFollow(x, e)
    BY <1>2, <2>1 DEF Stands, Ledger!MayFollow, Ledger!Openings
  <2> QED BY <1>2, <2>1, <2>2, MayContinue
<1>5. next \notin Before /\ next # "user"
  BY DEF Before
<1>6. Stands(next, e, message'[r], toolUsed'[r], calls'[r], cur'[r], status'[r])
  BY <1>1, <1>2, <1>3 DEF Stands, Talking, CallPcs, Speakable
<1> HIDE DEF next
<1> QED BY <1>1, <1>2, <1>4, <1>5, <1>6, Spoken

\* A run that may speak and begins a call, of the model's or of its own, or
\* goes on without a record.
LEMMA TalkStory ==
  ASSUME StoryInv, NEW r \in Runs, pc[r] \in Talking, UNCHANGED <<transcript, effects, sid, persist>>,
         \/ pc'[r] \in Talking /\ UNCHANGED <<message, toolUsed>>
         \/ pc'[r] = "request" /\ toolUsed'[r]
         \/ pc'[r] = "exited"
  PROVE  LedgerStep /\ Story(r)'
<1>1. pc[r] \in Telling /\ pc'[r] \notin Before \cup {"user"}
  BY DEF Telling, Talking, Before
<1>2. ASSUME persist[r], pc'[r] \in Telling
      PROVE  \E x : /\ LastOf(transcript[sid[r]], r, x)
                    /\ Stands(pc'[r], x, message'[r], toolUsed'[r], calls'[r], cur'[r], status'[r])
  <2>1. PICK x : /\ LastOf(transcript[sid[r]], r, x)
                 /\ Stands(pc[r], x, message[r], toolUsed[r], calls[r], cur[r], status[r])
    BY <1>1, <1>2, Latest
  <2>2. Speakable(x) /\ (x.type = "user_message" <=> ~message[r] /\ ~toolUsed[r])
    BY <2>1 DEF Stands
  <2>3. Stands(pc'[r], x, message'[r], toolUsed'[r], calls'[r], cur'[r], status'[r])
    BY <1>2, <2>2 DEF Stands, Talking, CallPcs, Telling
  <2> QED BY <2>1, <2>3
<1> QED BY <1>1, <1>2, QuietLedger, QuietStory

LEMMA QuietTurn ==
  ASSUME StoryInv, NEW r \in Runs,
         \/ Retry(r) \/ NothingToRetry(r) \/ Provider(r) \/ DeltaChunk(r) \/ MessageChunk(r)
         \/ ToolChunk(r) \/ BadChunk(r)
  PROVE  LedgerStep /\ Story(r)'
<1>1. pc \in [Runs -> Pcs] /\ toolUsed \in [Runs -> BOOLEAN]
  BY DEF StoryInv, AuditInv, TypeInv, TypeOK, LogTypeOK, TurnTypeOK
<1>2. Plain(r, "assistant_delta").type \in StreamOnlyTypes
  BY DEF Plain, Event, StreamOnlyTypes
<1>3. pc[r] \in Talking
  BY DEF Retry, NothingToRetry, Provider, DeltaChunk, MessageChunk, ToolChunk, BadChunk, TakeChunk,
         Talking
<1>4. UNCHANGED <<effects, sid, persist>>
  BY DEF Retry, NothingToRetry, Provider, DeltaChunk, MessageChunk, ToolChunk, BadChunk, Begin,
         confVars, idVars, callVars
<1>5. CASE DeltaChunk(r) \/ MessageChunk(r)
  <2>1. UNCHANGED <<transcript, message, toolUsed>>
    BY <1>2, <1>5 DEF DeltaChunk, MessageChunk, Emit, Goto, Written, logVars
  <2>2. pc'[r] \in Talking \cup {"exited"}
    BY <1>1, <1>5 DEF DeltaChunk, MessageChunk, Emit, Goto, Talking
  <2> QED BY <1>3, <1>4, <2>1, <2>2, TalkStory
<1>6. CASE NothingToRetry(r) \/ Provider(r)
  <2>1. UNCHANGED <<transcript, message, toolUsed>>
    BY <1>6 DEF NothingToRetry, Provider, Goto, logVars, turnVars
  <2>2. pc'[r] \in Talking \cup {"exited"}
    BY <1>1, <1>6 DEF NothingToRetry, Provider, Goto, Raise, Talking
  <2> QED BY <1>3, <1>4, <2>1, <2>2, TalkStory
<1>7. CASE Retry(r) \/ ToolChunk(r)
  <2>1. UNCHANGED transcript /\ pc'[r] = "request" /\ toolUsed'[r]
    BY <1>1, <1>7 DEF Retry, ToolChunk, Goto, logVars
  <2> QED BY <1>3, <1>4, <2>1, TalkStory
<1>8. CASE BadChunk(r)
  <2>1. UNCHANGED transcript /\ pc'[r] = "exited"
    BY <1>1, <1>8 DEF BadChunk, Raise, logVars
  <2> QED BY <1>3, <1>4, <2>1, TalkStory
<1> QED BY <1>5, <1>6, <1>7, <1>8

LEMMA MessageStory ==
  ASSUME StoryInv, NEW r \in Runs, EmitMessage(r)
  PROVE  LedgerStep /\ Story(r)'
<1> DEFINE e == Plain(r, "assistant_message")
<1>1. /\ pc[r] = "message" /\ Live(r) /\ pc[r] \in Telling /\ Emit(r, e, "model")
      /\ UNCHANGED <<effects, sid, persist, toolUsed>> /\ message'[r]
  BY DEF EmitMessage, Live, Ended, Telling, Talking, confVars, idVars, callVars,
         StoryInv, AuditInv, TypeInv, TypeOK, TurnTypeOK
<1>2. e.by = r /\ e.type = "assistant_message" /\ e.type \notin StreamOnlyTypes
  BY DEF Plain, Event, StreamOnlyTypes
<1> HIDE DEF e
<1>3. persist[r] => MayTell(r, e)
  <2> SUFFICES ASSUME persist[r] PROVE MayTell(r, e)
    OBVIOUS
  <2>1. PICK x : /\ LastOf(transcript[sid[r]], r, x)
                 /\ Stands("message", x, message[r], toolUsed[r], calls[r], cur[r], status[r])
    BY <1>1, Latest
  <2>2. Speakable(x)
    BY <2>1 DEF Stands, Talking
  <2>3. Ledger!MayFollow(x, e)
    BY <1>2, <2>2 DEF Speakable, Ledger!MayFollow, Ledger!Open
  <2> QED BY <1>2, <2>1, <2>3, MayContinue
<1>4. Stands("model", e, message'[r], toolUsed'[r], calls'[r], cur'[r], status'[r])
  BY <1>1, <1>2 DEF Stands, Talking, CallPcs, Speakable
<1> QED BY <1>1, <1>2, <1>3, <1>4, Spoken DEF Before

\* The terminal record, after a failed call, silence or what was said.
LEMMA EndingStory ==
  ASSUME StoryInv, NEW r \in Runs, ToolFailed(r) \/ NoMessage(r) \/ Complete(r)
  PROVE  LedgerStep /\ Story(r)'
<1> DEFINE type == IF Complete(r) THEN "session_completed" ELSE "session_failed"
           e == Plain(r, type)
<1>1. /\ pc[r] \in {"model", "outcome"} /\ Live(r) /\ pc[r] \in Telling
      /\ UNCHANGED <<effects, sid, persist>>
  BY DEF ToolFailed, NoMessage, Complete, Finish, Live, Ended, Telling, Talking, CallPcs,
         confVars, idVars, callVars
<1>2. Emit(r, e, "index")
  <2>1. CASE Complete(r)
    BY <2>1 DEF Complete, Finish
  <2>2. CASE ~Complete(r)
    BY <2>2 DEF ToolFailed, NoMessage, Finish
  <2> QED BY <2>1, <2>2
<1>3. e.by = r /\ e.type = type /\ e.type \notin StreamOnlyTypes
  BY DEF Plain, Event, StreamOnlyTypes
<1> HIDE DEF e
<1>4. persist[r] => MayTell(r, e)
  <2> SUFFICES ASSUME persist[r] PROVE MayTell(r, e)
    OBVIOUS
  <2>1. PICK x : /\ LastOf(transcript[sid[r]], r, x)
                 /\ Stands(pc[r], x, message[r], toolUsed[r], calls[r], cur[r], status[r])
    BY <1>1, Latest
  <2>2. CASE Complete(r)
    <3>1. pc[r] = "model" /\ (message[r] \/ toolUsed[r])
      BY <2>2 DEF Complete
    <3>2. Speakable(x) /\ x.type # "user_message"
      BY <2>1, <3>1 DEF Stands, Talking
    <3>3. Ledger!MayFollow(x, e)
      BY <1>3, <2>2, <3>2 DEF Speakable, Ledger!MayFollow, Ledger!Open
    <3> QED BY <1>3, <2>1, <2>2, <3>3, MayContinue
  <2>3. CASE NoMessage(r) /\ ~Complete(r)
    <3>1. pc[r] = "model" /\ ~message[r] /\ ~toolUsed[r]
      BY <2>3 DEF NoMessage
    <3>2. x.type = "user_message"
      BY <2>1, <3>1 DEF Stands, Talking
    <3>3. Ledger!MayFollow(x, e)
      BY <1>3, <2>3, <3>2 DEF Ledger!MayFollow
    <3> QED BY <1>3, <2>1, <2>3, <3>3, MayContinue
  <2>4. CASE ToolFailed(r) /\ ~Complete(r)
    <3>1. pc[r] = "outcome" /\ status[r] # "success"
      BY <2>4 DEF ToolFailed
    <3>2. x.type = "tool_execution_finished" /\ x.info # "success"
      BY <2>1, <3>1 DEF Stands
    <3>3. Ledger!MayFollow(x, e)
      BY <1>3, <2>4, <3>2 DEF Ledger!MayFollow
    <3> QED BY <1>3, <2>1, <2>4, <3>3, MayContinue
  <2> QED BY <2>2, <2>3, <2>4
<1>5. Stands("index", e, message'[r], toolUsed'[r], calls'[r], cur'[r], status'[r])
  BY DEF Stands, Talking, CallPcs
<1> QED BY <1>1, <1>2, <1>3, <1>4, <1>5, Spoken DEF Before

LEMMA ReturnStory ==
  ASSUME StoryInv, NEW r \in Runs, ToolSucceeded(r) \/ UpdateIndex(r)
  PROVE  LedgerStep /\ Story(r)'
<1>1. UNCHANGED <<transcript, effects, sid, persist, message, toolUsed>>
  BY DEF ToolSucceeded, UpdateIndex, Goto, logVars, confVars, idVars, callVars, turnVars
<1>2. CASE UpdateIndex(r)
  <2>1. pc'[r] = "exited"
    BY <1>2 DEF UpdateIndex, Goto, StoryInv, AuditInv, TypeInv, TypeOK, LogTypeOK
  <2> QED BY <1>1, <2>1, QuietLedger, QuietStory DEF Before, Telling, Talking, CallPcs
<1>3. CASE ToolSucceeded(r)
  <2>1. pc[r] = "outcome" /\ status[r] = "success" /\ pc'[r] \in {"model", "provider"}
    BY <1>3 DEF ToolSucceeded, Goto, StoryInv, AuditInv, TypeInv, TypeOK, LogTypeOK
  <2>2. ASSUME persist[r]
        PROVE  \E x : /\ LastOf(transcript[sid[r]], r, x)
                      /\ Stands(pc'[r], x, message'[r], toolUsed'[r], calls'[r], cur'[r], status'[r])
    <3>1. PICK x : /\ LastOf(transcript[sid[r]], r, x)
                   /\ Stands("outcome", x, message[r], toolUsed[r], calls[r], cur[r], status[r])
      BY <2>1, <2>2, Latest DEF Telling, CallPcs
    <3>2. x.type = "tool_execution_finished" /\ x.info = "success" /\ toolUsed[r]
      BY <2>1, <3>1 DEF Stands, CallPcs
    <3>3. Stands(pc'[r], x, message'[r], toolUsed'[r], calls'[r], cur'[r], status'[r])
      BY <1>1, <2>1, <3>2 DEF Stands, Talking, CallPcs, Speakable
    <3> QED BY <3>1, <3>3
  <2> QED BY <1>1, <2>1, <2>2, QuietLedger, QuietStory DEF Before
<1> QED BY <1>2, <1>3

LEMMA RunStepStory ==
  ASSUME StoryInv, NEW r \in Runs, RunStep(r)
  PROVE  LedgerStep /\ Story(r)'
<1>1. CASE ToolStep(r)
  <2>1. UNCHANGED <<sid, persist, message, toolUsed>>
    BY <1>1 DEF ToolStep, confVars, idVars, turnVars
  <2> QED BY <1>1, <2>1, RequestStory, DecideStory, DecidedStory, LaunchStory, ResultStory,
             ExecuteStory DEF ToolStep, ExecutorStep
<1>2. CASE TurnStep(r)
  BY <1>2, QuietTurn, MessageStory, EndingStory, ReturnStory DEF TurnStep
<1>3. CASE \/ ChooseRunId(r) \/ Load(r) \/ Bind(r) \/ EmitOpening(r) \/ EmitUser(r)
           \/ Retry(r) \/ NothingToRetry(r)
  BY <1>3, QuietStart, OpeningStory, UserStory, QuietTurn
<1> QED BY <1>1, <1>2, <1>3 DEF RunStep
-----------------------------------------------------------------------------
(* The refinement. *)

LEMMA RunStepTold ==
  ASSUME StoryInv, NEW r \in Runs, RunStep(r), AuditInv'
  PROVE  LedgerStep /\ StoryInv'
<1>1. LedgerStep /\ Story(r)'
  BY RunStepStory
<1>2. Shape(r) /\ pc[r] # "idle" /\ Live(r)
  BY StepShape, RunStepFrame DEF StoryInv, AuditInv
<1>3. RecordsBehind' /\ EffectsBehind'
  BY <1>2, RecordsStayBehind, EffectsStayBehind
<1>4. sid[r] \in Sessions
  BY <1>2 DEF StoryInv, AuditInv, TypeInv, TypeOK, ScopeOK
<1>5. \A o \in Runs \ {r} : Story(o)'
  BY <1>2, <1>4, OtherStory DEF Shape
<1> QED BY <1>1, <1>3, <1>5 DEF StoryInv

LEMMA StartOrEndTold ==
  ASSUME StoryInv, NEW r \in Runs, Start(r) \/ IoFails(r) \/ Kill(r), AuditInv'
  PROVE  LedgerStep /\ StoryInv'
<1>1. /\ UNCHANGED <<transcript, effects, calls, cur, status, message, toolUsed>>
      /\ pc'[r] \in {"run_id", "exited", "crashed"}
      /\ pc'[r] = "run_id" => pc[r] = "idle"
      /\ \A o \in Runs \ {r} : pc'[o] = pc[o] /\ sid'[o] = sid[o] /\ persist'[o] = persist[o]
  <2>0. /\ pc \in [Runs -> Pcs] /\ sid \in [Runs -> Sessions \cup {0}]
        /\ persist \in [Runs -> BOOLEAN]
    BY DEF StoryInv, AuditInv, TypeInv, TypeOK, LogTypeOK, ConfTypeOK
  <2>1. UNCHANGED <<transcript, effects, calls, cur, status, message, toolUsed>>
    BY DEF Start, Goto, IoFails, Kill, callVars, turnVars, logVars
  <2>2. \/ pc[r] = "idle" /\ \E end \in {"run_id", "exited"} : pc' = [pc EXCEPT ![r] = end]
        \/ \E end \in Ended : pc' = [pc EXCEPT ![r] = end]
    BY DEF Start, MayStart, Goto, IoFails, Kill, Raise, Ended
  <2>3. sid' = sid \/ \E x : sid' = [sid EXCEPT ![r] = x]
    BY DEF Start, NewSessionId, IoFails, Kill, idVars
  <2>4. persist' = persist \/ \E x : persist' = [persist EXCEPT ![r] = x]
    BY DEF Start, IoFails, Kill, confVars
  <2> QED BY <2>0, <2>1, <2>2, <2>3, <2>4 DEF Ended
<1>2. \A e \in effects : e.by \in Runs /\ persist'[e.by] = persist[e.by]
  <2>1. \A e \in effects : e.by \in Runs /\ pc[e.by] # "idle"
    BY DEF StoryInv, AuditInv, TypeInv, TypeOK, CallTypeOK, IdleRunsActNot
  <2>2. CASE Start(r)
    BY <1>1, <2>1, <2>2 DEF Start, MayStart
  <2>3. CASE IoFails(r) \/ Kill(r)
    BY <2>1, <2>3 DEF IoFails, Kill, confVars
  <2> QED BY <2>2, <2>3
<1>3. LedgerStep
  <2>1. Performed' = Performed
    BY <1>1, <1>2 DEF Performed
  <2> QED BY <1>1, <2>1 DEF LedgerStep, Ledger!ledgerVars
<1>4. RecordsBehind'
  <2> SUFFICES ASSUME NEW s \in Sessions, NEW i \in DOMAIN transcript[s]
               PROVE  LET x == transcript[s][i]
                      IN  /\ pc'[x.by] \notin Before
                          /\ x.tc <= calls[x.by]
                          /\ pc'[x.by] = "request" => x.tc < calls[x.by]
    BY <1>1 DEF RecordsBehind
  <2> DEFINE x == transcript[s][i]
  <2>1. x.by \in Runs
    <3>1. x \in Records
      BY DEF StoryInv, AuditInv, TypeInv, TypeOK, LogTypeOK
    <3> QED BY <3>1 DEF Records
  <2>2. /\ pc[x.by] \notin Before /\ x.tc <= calls[x.by]
        /\ pc[x.by] = "request" => x.tc < calls[x.by]
    BY DEF StoryInv, RecordsBehind
  <2> HIDE DEF x
  <2>3. pc'[x.by] \notin Before /\ (pc'[x.by] = "request" => pc[x.by] = "request")
    BY <1>1, <2>1, <2>2 DEF Before
  <2> QED BY <2>2, <2>3 DEF x
<1>5. EffectsBehind'
  <2> SUFFICES ASSUME NEW e \in effects
               PROVE  /\ pc'[e.by] \notin Before
                      /\ e.tc <= calls[e.by]
                      /\ pc'[e.by] \in {"request"} \cup Approach => e.tc < calls[e.by]
    BY <1>1 DEF EffectsBehind, Approach
  <2>1. /\ pc[e.by] \notin Before /\ e.tc <= calls[e.by]
        /\ pc[e.by] \in {"request"} \cup Approach => e.tc < calls[e.by]
    BY DEF StoryInv, EffectsBehind, Approach
  <2> QED BY <1>1, <1>2, <2>1 DEF Before, Approach
<1>6. Story(r)'
  <2>1. pc'[r] \notin Telling
    BY <1>1 DEF Telling, Talking, CallPcs
  <2>2. pc'[r] \in Before \cup {"user"} => ~message[r] /\ ~toolUsed[r]
    BY <1>1 DEF StoryInv, Story, Before
  <2> QED BY <1>1, <2>1, <2>2 DEF Story
<1>7. \A o \in Runs \ {r} : Story(o)'
  BY <1>1, OtherStory DEF Appended
<1> QED BY <1>3, <1>4, <1>5, <1>6, <1>7 DEF StoryInv

LEMMA NextTold == StoryInv /\ [Next]_vars => LedgerStep /\ StoryInv'
<1> SUFFICES ASSUME StoryInv, [Next]_vars PROVE LedgerStep /\ StoryInv'
  OBVIOUS
<1>1. AuditInv'
  BY AuditNext DEF StoryInv
<1>2. CASE UNCHANGED vars
  <2>1. UNCHANGED <<transcript, pc, sid, persist, calls, cur, status, message, toolUsed, effects>>
    BY <1>2 DEF vars, logVars, ctlVars, confVars, idVars, callVars, turnVars
  <2>2. RecordsBehind' /\ EffectsBehind'
    BY <2>1 DEF StoryInv, RecordsBehind, EffectsBehind
  <2>3. \A r \in Runs : Story(r)'
    BY <2>1 DEF StoryInv, Story
  <2> QED BY <1>1, <2>1, <2>2, <2>3, QuietLedger DEF StoryInv
<1> QED BY <1>1, <1>2, RunStepTold, StartOrEndTold DEF Next, AllDone

LEMMA InitTold == Init => Ledger!Init /\ StoryInv
<1> SUFFICES ASSUME Init PROVE Ledger!Init /\ StoryInv
  OBVIOUS
<1>1. AuditInv
  BY AuditInit
<1>2. Ledger!Init
  BY DEF Init, Ledger!Init, Performed
<1>3. RecordsBehind /\ EffectsBehind
  BY DEF Init, RecordsBehind, EffectsBehind
<1>4. \A r \in Runs : Story(r)
  BY DEF Init, Story, Telling, Talking, CallPcs
<1> QED BY <1>1, <1>2, <1>3, <1>4 DEF StoryInv

\* The orchestrator (run, execute, _emit) implements the ledger: whatever the
\* provider sends and users answer, whichever processes share a session and are
\* killed, every persisted run tells one legal story and executes a tool only
\* where the story has come to its start, once per call.
THEOREM StoriesLegal == Spec => TellsOneStory
<1>1. StoryInv /\ [Next]_vars => [Ledger!Next]_(Ledger!ledgerVars)
  BY NextTold DEF LedgerStep
<1> QED BY <1>1, InitTold, NextTold, PTL DEF Spec, TellsOneStory, Ledger!Spec
-----------------------------------------------------------------------------
(* The stories. *)

\* What a step of run r leaves to the other runs.
OthersKept(r) ==
  \A o \in Runs \ {r} :
    /\ pc'[o] = pc[o] /\ raised'[o] = raised[o] /\ code'[o] = code[o]
    /\ sid'[o] = sid[o] /\ persist'[o] = persist[o]
    /\ seq'[o] = seq[o] /\ last'[o] = last[o]
    /\ calls'[o] = calls[o] /\ cur'[o] = cur[o] /\ retrying'[o] = retrying[o]
    /\ message'[o] = message[o] /\ toolUsed'[o] = toolUsed[o] /\ sawDelta'[o] = sawDelta[o]

\* The record of e is at the end of the file of its run.
Wrote(r, e) ==
  /\ transcript'[sid[r]] = Append(transcript[sid[r]], e)
  /\ \A s \in Sessions \ {sid[r]} : transcript'[s] = transcript[s]

\* The event is numbered, linked and written or streamed, and the run goes on ...
Accepted(r, e, next) ==
  /\ pc'[r] = next /\ raised'[r] = raised[r] /\ seq'[r] = e.seq
  /\ IF e.type \in StreamOnlyTypes
       THEN /\ UNCHANGED <<transcript, last>>
            /\ deltas' = deltas \cup {[sid |-> sid[r], seq |-> e.seq, by |-> r]}
       ELSE /\ last'[r] = e.seq /\ UNCHANGED deltas
            /\ IF persist[r] THEN Wrote(r, e) ELSE UNCHANGED transcript

\* ... or the turn state machine refuses it and the run is over.
Refused(r) ==
  /\ pc'[r] = "exited" /\ raised'[r] # "no"
  /\ UNCHANGED <<transcript, deltas>>

LEMMA AcceptedOrRefused ==
  ASSUME TypeInv, NEW r \in Runs, Live(r), NEW e, NEW next, Tells(r, e, next)
  PROVE  Accepted(r, e, next) \/ Refused(r)
<1>0. /\ transcript \in [Sessions -> Seq(Records)] /\ pc \in [Runs -> Pcs]
      /\ raised \in [Runs -> RaiseCauses] /\ seq \in [Runs -> Nat] /\ last \in [Runs -> Nat]
      /\ sid[r] \in Sessions /\ Emit(r, e, next) /\ e.seq = seq[r] + 1
  BY DEF TypeInv, TypeOK, LogTypeOK, ScopeOK, Tells, NextEvent
<1>1. CASE Legal(r, e)
  <2>1. ~SecondTerminal(r, e)
    BY <1>1 DEF Legal
  <2>2. pc'[r] = next /\ raised'[r] = raised[r] /\ seq'[r] = e.seq
    BY <1>0, <1>1, <2>1 DEF Emit
  <2>3. CASE e.type \in StreamOnlyTypes
    BY <1>0, <1>1, <2>2, <2>3 DEF Emit, Written, Accepted
  <2>4. CASE e.type \notin StreamOnlyTypes
    <3>1. last'[r] = e.seq /\ UNCHANGED deltas
      BY <1>0, <1>1, <2>4 DEF Emit
    <3>2. IF persist[r] THEN Wrote(r, e) ELSE UNCHANGED transcript
      BY <1>0, <1>1, <2>4 DEF Emit, Written, AppendRecord, Wrote
    <3> QED BY <2>2, <2>4, <3>1, <3>2 DEF Accepted
  <2> QED BY <2>3, <2>4
<1>2. CASE ~Legal(r, e)
  BY <1>0, <1>2 DEF Emit, Written, Refused
<1> QED BY <1>1, <1>2

LEMMA OthersOfStep ==
  ASSUME TypeInv, NEW r \in Runs, RunStep(r)
  PROVE  OthersKept(r)
<1>0. /\ raised \in [Runs -> RaiseCauses] /\ seq \in [Runs -> Nat] /\ last \in [Runs -> Nat]
      /\ code \in [Runs -> 0..NoCode] /\ retrying \in [Runs -> BOOLEAN]
      /\ sawDelta \in [Runs -> BOOLEAN]
  BY DEF TypeInv, TypeOK, LogTypeOK, CallTypeOK, TurnTypeOK
<1>1. \A o \in Runs \ {r} : raised'[o] = raised[o] /\ seq'[o] = seq[o] /\ last'[o] = last[o]
  <2>1. ASSUME NEW e, NEW next, Tells(r, e, next)
        PROVE  \A o \in Runs \ {r} :
                 raised'[o] = raised[o] /\ seq'[o] = seq[o] /\ last'[o] = last[o]
    BY <1>0, <2>1 DEF Tells, Emit
  <2>2. CASE Places(r)
    BY <1>0, <2>2 DEF Places, ChooseRunId, LoadSeq, LoadParent, Goto, logVars
  <2>3. CASE Moves(r)
    <3>1. raised' = raised \/ \E why : raised' = [raised EXCEPT ![r] = why]
      BY DEF RunStep, ChooseRunId, Load, LoadSeq, LoadParent, Bind, EmitOpening, EmitUser, Retry,
         NothingToRetry, ToolStep, ExecutorStep, Request, DecideCall, Answer, EmitDecided, Launch,
         Execute, ToolRaises, EmitResult, EmitFinished, TurnStep, Provider, DeltaChunk,
         MessageChunk, EmitMessage, ToolChunk, BadChunk, ToolSucceeded, ToolFailed,
         NoMessage, Complete, Finish, UpdateIndex, Emit, Goto, Raise
    <3> QED BY <1>0, <2>3, <3>1 DEF Moves
  <2> QED BY <2>1, <2>2, <2>3, StepKinds
<1>2. \A o \in Runs \ {r} : /\ code'[o] = code[o] /\ retrying'[o] = retrying[o]
                            /\ sawDelta'[o] = sawDelta[o]
  BY <1>0 DEF RunStep, ChooseRunId, Load, Bind, EmitOpening, EmitUser, Retry, NothingToRetry,
       ToolStep, ExecutorStep, Request, DecideCall, Answer, EmitDecided, Launch,
       Execute, ToolRaises, EmitResult, EmitFinished, TurnStep, Provider, DeltaChunk,
       MessageChunk, EmitMessage, ToolChunk, BadChunk, Begin,
       ToolSucceeded, ToolFailed, NoMessage, Complete, Finish, UpdateIndex, callVars, turnVars,
       endVars
<1> QED BY <1>1, <1>2, RunStepFrame, OtherFields DEF OthersKept

\* Run r begins, or is ended by the file system or from outside.
Bounds(r) ==
  /\ UNCHANGED <<transcript, seq, last, deltas, calls, cur, retrying, effects, message, toolUsed,
                 sawDelta, code>>
  /\ OthersKept(r)
  /\ \/ pc[r] = "idle" /\ (pc'[r] = "run_id" \/ (pc'[r] = "exited" /\ raised'[r] # "no"))
     \/ /\ Live(r) /\ UNCHANGED <<sid, persist>>
        /\ pc'[r] = "crashed" \/ (pc'[r] = "exited" /\ raised'[r] # "no")

LEMMA BoundsOfStep ==
  ASSUME TypeInv, NEW r \in Runs, Start(r) \/ IoFails(r) \/ Kill(r)
  PROVE  Bounds(r)
<1>0. /\ pc \in [Runs -> Pcs] /\ sid \in [Runs -> Sessions \cup {0}]
      /\ persist \in [Runs -> BOOLEAN] /\ raised \in [Runs -> RaiseCauses]
  BY DEF TypeInv, TypeOK, LogTypeOK, ConfTypeOK
<1>1. UNCHANGED <<transcript, seq, last, deltas, calls, cur, retrying, effects, message, toolUsed,
                  sawDelta, code>>
  BY DEF Start, Goto, IoFails, Kill, callVars, turnVars, logVars, endVars
<1>2. /\ sid' = sid \/ \E x : sid' = [sid EXCEPT ![r] = x]
      /\ persist' = persist \/ \E x : persist' = [persist EXCEPT ![r] = x]
      /\ raised' = raised \/ \E x : raised' = [raised EXCEPT ![r] = x]
      /\ \E x : pc' = [pc EXCEPT ![r] = x]
  BY DEF Start, NewSessionId, Goto, IoFails, Kill, Raise, idVars, confVars
<1>3. OthersKept(r)
  BY <1>0, <1>1, <1>2 DEF OthersKept
<1>4. CASE Start(r)
  <2>1. pc[r] = "idle" /\ (Goto(r, "run_id") \/ Raise(r, "no_session"))
    BY <1>4 DEF Start, MayStart
  <2> QED BY <1>0, <1>1, <1>3, <2>1 DEF Goto, Raise, Bounds
<1>5. CASE IoFails(r) \/ Kill(r)
  BY <1>0, <1>1, <1>3, <1>5 DEF IoFails, Kill, Raise, confVars, idVars, Bounds
<1> QED BY <1>4, <1>5
-----------------------------------------------------------------------------
(* Whose a record is, and what it is about. *)

RecordKinds ==
  \A s \in Sessions : \A i \in DOMAIN transcript[s] :
    LET x == transcript[s][i]
    IN  /\ x.by \in Runs /\ sid[x.by] = s /\ persist[x.by]
        /\ x.tc # 0 <=> x.type \in CallTypes

Numbered(r) ==
  /\ pc[r] \in CallPcs => calls[r] > 0
  /\ pc[r] \in Before \cup {"user", "recover"} => calls[r] = 0

KindInv == StoryInv /\ RecordKinds /\ \A r \in Runs : Numbered(r)

\* A record after a step was there before, or is the one the step wrote.
LEMMA RecordsOfStep ==
  ASSUME TypeInv, NEW r \in Runs, Live(r), NEW e, Wrote(r, e), NEW s \in Sessions
  PROVE  LET n == Len(transcript[sid[r]])
         IN  /\ n \in Nat /\ sid[r] \in Sessions /\ transcript[s] \in Seq(Records)
             /\ DOMAIN transcript[s] = 1..Len(transcript[s]) /\ Len(transcript[s]) \in Nat
             /\ \A i \in DOMAIN transcript[s] :
                  i \in DOMAIN transcript'[s] /\ transcript'[s][i] = transcript[s][i]
             /\ n + 1 \in DOMAIN transcript'[sid[r]] /\ transcript'[sid[r]][n + 1] = e
             /\ \A i \in DOMAIN transcript'[s] :
                  \/ i \in DOMAIN transcript[s]
                  \/ s = sid[r] /\ i = n + 1
<1> DEFINE n == Len(transcript[sid[r]])
<1>1. sid[r] \in Sessions /\ transcript \in [Sessions -> Seq(Records)]
  BY DEF TypeInv, TypeOK, LogTypeOK, ScopeOK
<1>2. /\ transcript[s] \in Seq(Records) /\ transcript[sid[r]] \in Seq(Records)
      /\ DOMAIN transcript[s] = 1..Len(transcript[s]) /\ Len(transcript[s]) \in Nat /\ n \in Nat
  BY <1>1
<1>3. /\ DOMAIN transcript'[sid[r]] = 1..(n + 1) /\ transcript'[sid[r]][n + 1] = e
      /\ \A i \in 1..n : transcript'[sid[r]][i] = transcript[sid[r]][i]
  BY <1>2, AppendKeeps DEF Wrote
<1>4. n + 1 \in 1..(n + 1) /\ \A i \in 1..(n + 1) : i \in 1..n \/ i = n + 1
  BY <1>2
<1>5. 1..n \subseteq 1..(n + 1)
  BY <1>2
<1>6. CASE s = sid[r]
  BY <1>1, <1>2, <1>3, <1>4, <1>5, <1>6
<1>7. CASE s # sid[r]
  BY <1>1, <1>2, <1>3, <1>4, <1>7 DEF Wrote
<1> QED BY <1>6, <1>7

LEMMA RunStepNumbered ==
  ASSUME KindInv, NEW r \in Runs, RunStep(r)
  PROVE  \A o \in Runs : Numbered(o)'
<1>0. /\ TypeInv /\ calls \in [Runs -> Nat] /\ Numbered(r) /\ Live(r)
  BY RunStepFrame DEF KindInv, StoryInv, AuditInv, TypeInv, TypeOK, CallTypeOK
<1>1. Numbered(r)'
  <2>1. ASSUME NEW e, NEW next, Tells(r, e, next) PROVE Numbered(r)'
    <3>1. calls' = calls /\ (pc'[r] = next \/ pc'[r] = "exited")
      BY <1>0, <2>1, AcceptedOrRefused DEF Tells, Accepted, Refused
    <3>2. next \in CallPcs => pc[r] \in CallPcs
      BY <2>1 DEF Tells, InCall, CallTypes
    <3>3. next \notin Before /\ (next \in {"user", "recover"} => pc[r] \in Before \cup {"user"})
      BY <2>1 DEF Tells, Before
    <3> QED BY <1>0, <3>1, <3>2, <3>3 DEF Numbered, CallPcs, Before
  <2>2. CASE Places(r)
    BY <1>0, <2>2 DEF Places, Numbered, Unplaced, Before, CallPcs
  <2>3. CASE Moves(r)
    <3>1. CASE pc'[r] = "request" /\ calls' = [calls EXCEPT ![r] = @ + 1]
      BY <1>0, <3>1 DEF Numbered, Before
    <3>2. CASE pc'[r] # "request" /\ calls' = calls
      BY <1>0, <2>3, <3>2 DEF Moves, Numbered, InCall, CallPcs
    <3> QED BY <2>3, <3>1, <3>2 DEF Moves
  <2> QED BY <1>0, <2>1, <2>2, <2>3, StepKinds
<1>2. \A o \in Runs \ {r} : Numbered(o)'
  BY <1>0, OthersOfStep DEF OthersKept, KindInv, Numbered
<1> QED BY <1>1, <1>2

LEMMA RunStepKinds ==
  ASSUME KindInv, NEW r \in Runs, RunStep(r)
  PROVE  RecordKinds'
<1>0. TypeInv /\ Live(r) /\ UNCHANGED <<sid, persist>>
  BY RunStepFrame DEF KindInv, StoryInv, AuditInv
<1>1. CASE UNCHANGED transcript
  BY <1>0, <1>1 DEF KindInv, RecordKinds
<1>2. ASSUME NEW e, NEW next, Tells(r, e, next), Accepted(r, e, next), ~UNCHANGED transcript
      PROVE  RecordKinds'
  <2>1. Wrote(r, e) /\ persist[r] /\ e.by = r
    BY <1>2 DEF Accepted, Tells, NextEvent
  <2>2. e.tc # 0 <=> e.type \in CallTypes
    <3>1. e.type \in CallTypes => calls[r] > 0 /\ calls[r] \in Nat
      BY <1>0, <1>2 DEF Tells, InCall, KindInv, Numbered, TypeInv, TypeOK, CallTypeOK
    <3> QED BY <1>2, <3>1 DEF Tells, NextEvent
  <2> SUFFICES ASSUME NEW s \in Sessions, NEW i \in DOMAIN transcript'[s]
               PROVE  LET x == transcript'[s][i]
                      IN  /\ x.by \in Runs /\ sid[x.by] = s /\ persist[x.by]
                          /\ x.tc # 0 <=> x.type \in CallTypes
    BY <1>0 DEF RecordKinds
  <2> QED BY <1>0, <2>1, <2>2, RecordsOfStep DEF KindInv, RecordKinds
<1>3. UNCHANGED transcript \/ \E e, next : Tells(r, e, next) /\ Accepted(r, e, next)
  BY <1>0, StepKinds, AcceptedOrRefused DEF Refused, Moves, Places
<1> QED BY <1>1, <1>2, <1>3

LEMMA BoundsKinds ==
  ASSUME KindInv, NEW r \in Runs, Bounds(r)
  PROVE  RecordKinds' /\ \A o \in Runs : Numbered(o)'
<1>1. RecordKinds'
  <2> SUFFICES ASSUME NEW s \in Sessions, NEW i \in DOMAIN transcript[s]
               PROVE  LET x == transcript[s][i]
                      IN  /\ x.by \in Runs /\ sid'[x.by] = s /\ persist'[x.by]
                          /\ x.tc # 0 <=> x.type \in CallTypes
    BY DEF RecordKinds, Bounds
  <2> DEFINE x == transcript[s][i]
  <2>1. /\ x.by \in Runs /\ sid[x.by] = s /\ persist[x.by]
        /\ x.tc # 0 <=> x.type \in CallTypes
        /\ pc[x.by] # "idle"
    BY DEF KindInv, RecordKinds, StoryInv, RecordsBehind, Before
  <2> HIDE DEF x
  <2>2. sid'[x.by] = sid[x.by] /\ persist'[x.by] = persist[x.by]
    BY <2>1 DEF Bounds, OthersKept
  <2> QED BY <2>1, <2>2 DEF x
<1>2. Numbered(r)'
  <2>1. Numbered(r) /\ calls' = calls /\ (pc'[r] = "run_id" => pc[r] = "idle")
        /\ pc'[r] \in {"run_id", "exited", "crashed"}
    BY DEF KindInv, Bounds
  <2> QED BY <2>1 DEF Numbered, Before, CallPcs
<1>3. \A o \in Runs \ {r} : Numbered(o)'
  BY DEF KindInv, Numbered, Bounds, OthersKept
<1> QED BY <1>1, <1>2, <1>3

LEMMA KindNext == KindInv /\ [Next]_vars => KindInv'
<1> SUFFICES ASSUME KindInv, [Next]_vars PROVE KindInv'
  OBVIOUS
<1>1. StoryInv' /\ TypeInv
  BY NextTold DEF KindInv, StoryInv, AuditInv
<1>2. CASE UNCHANGED vars
  BY <1>1, <1>2 DEF KindInv, RecordKinds, Numbered, vars, logVars, ctlVars, confVars, idVars, callVars
<1> QED BY <1>1, <1>2, RunStepKinds, RunStepNumbered, BoundsOfStep, BoundsKinds
        DEF KindInv, Next, AllDone

LEMMA KindInit == Init => KindInv
<1> SUFFICES ASSUME Init PROVE KindInv
  OBVIOUS
<1>1. StoryInv
  BY InitTold
<1>2. RecordKinds /\ \A r \in Runs : Numbered(r)
  BY DEF Init, RecordKinds, Numbered, CallPcs
<1> QED BY <1>1, <1>2 DEF KindInv
-----------------------------------------------------------------------------
(* The run's own chain. *)

\* An append leaves who follows whom; the new record follows the latest of its run.
LEMMA FollowedAppend ==
  ASSUME NEW S, NEW f \in Seq(S), NEW x
  PROVE  /\ \A i, j \in 1..Len(f) : FollowedBy(Append(f, x), i, j) <=> FollowedBy(f, i, j)
         /\ \A i \in 1..Len(f) : FollowedBy(Append(f, x), i, Len(f) + 1) <=>
              f[i].by = x.by /\ Ledger!IsLatest(f, i)
<1> DEFINE n == Len(f)
           g == Append(f, x)
<1>1. /\ n \in Nat /\ DOMAIN f = 1..n /\ g[n + 1] = x
      /\ \A i \in 1..n : g[i] = f[i]
  BY AppendKeeps
<1> HIDE DEF n, g
<1>2. ASSUME NEW i \in 1..n, NEW j \in 1..n PROVE FollowedBy(g, i, j) <=> FollowedBy(f, i, j)
  <2>1. \A k \in (i + 1)..(j - 1) : k \in 1..n
    BY <1>1
  <2> QED BY <1>1, <2>1 DEF FollowedBy
<1>3. ASSUME NEW i \in 1..n
      PROVE  FollowedBy(g, i, n + 1) <=> f[i].by = x.by /\ Ledger!IsLatest(f, i)
  <2>1. /\ i < n + 1 /\ (n + 1) - 1 = n
        /\ \A k \in (i + 1)..n : k \in 1..n /\ ~(k <= i)
        /\ \A k \in 1..n : k <= i \/ k \in (i + 1)..n
    BY <1>1
  <2> QED BY <1>1, <2>1 DEF FollowedBy, Ledger!IsLatest
<1> QED BY <1>1, <1>2, <1>3 DEF n, g

\* What a live run knows of its own records: its counter is not behind, and the
\* latest is the parent of the next.
Linked(r) ==
  Live(r) => \A s \in Sessions : \A i \in DOMAIN transcript[s] :
    transcript[s][i].by = r =>
      /\ transcript[s][i].seq <= seq[r]
      /\ Ledger!IsLatest(transcript[s], i) => last[r] = transcript[s][i].seq

LinkInv == KindInv /\ OwnRecordsChained /\ \A r \in Runs : Linked(r)

LEMMA WroteChained ==
  ASSUME LinkInv, NEW r \in Runs, Live(r), NEW e, NEW next, Tells(r, e, next), Wrote(r, e)
  PROVE  OwnRecordsChained'
<1> DEFINE f == transcript[sid[r]]
           n == Len(f)
           g == transcript'[sid[r]]
<1>1. /\ TypeInv /\ sid[r] \in Sessions /\ f \in Seq(Records) /\ g = Append(f, e)
      /\ e.by = r /\ e.seq = seq[r] + 1 /\ e.parent = last[r] /\ seq[r] \in Nat
  BY DEF LinkInv, KindInv, StoryInv, AuditInv, TypeInv, TypeOK, LogTypeOK, ScopeOK,
         Wrote, Tells, NextEvent
<1>2. /\ n \in Nat /\ DOMAIN f = 1..n /\ DOMAIN g = 1..(n + 1)
      /\ g[n + 1] = e /\ \A i \in 1..n : g[i] = f[i]
  BY <1>1, AppendKeeps
<1>3. /\ \A i, j \in 1..n : FollowedBy(g, i, j) <=> FollowedBy(f, i, j)
      /\ \A i \in 1..n : FollowedBy(g, i, n + 1) <=> f[i].by = r /\ Ledger!IsLatest(f, i)
  BY <1>1, FollowedAppend
<1>4. \A i \in 1..n : f[i].seq \in Nat
  BY <1>1, <1>2, LineOfRecords
<1>5. \A j \in 1..n : \A i \in 1..(j - 1) :
        FollowedBy(f, i, j) => f[i].seq < f[j].seq /\ f[j].parent = f[i].seq
  BY <1>1, <1>2 DEF LinkInv, OwnRecordsChained
<1>6. \A i \in 1..n : f[i].by = r => /\ f[i].seq <= seq[r]
                                     /\ Ledger!IsLatest(f, i) => last[r] = f[i].seq
  BY <1>1, <1>2 DEF LinkInv, Linked
<1> HIDE DEF f, n, g
<1> SUFFICES ASSUME NEW s \in Sessions, NEW j \in DOMAIN transcript'[s], NEW i \in 1..(j - 1),
                    FollowedBy(transcript'[s], i, j)
             PROVE  /\ transcript'[s][i].seq < transcript'[s][j].seq
                    /\ transcript'[s][j].parent = transcript'[s][i].seq
  BY DEF OwnRecordsChained
<1>7. CASE s # sid[r]
  BY <1>7 DEF Wrote, LinkInv, OwnRecordsChained
<1>8. CASE s = sid[r]
  <2>1. j \in 1..(n + 1) /\ i \in 1..n /\ FollowedBy(g, i, j) /\ transcript'[s] = g
    BY <1>2, <1>8 DEF g
  <2>2. CASE j \in 1..n
    BY <1>2, <1>3, <1>5, <2>1, <2>2
  <2>3. CASE j = n + 1
    <3>1. f[i].by = r /\ Ledger!IsLatest(f, i)
      BY <1>3, <2>1, <2>3
    <3>2. f[i].seq <= seq[r] /\ last[r] = f[i].seq
      BY <1>6, <2>1, <3>1
    <3>3. g[i] = f[i] /\ g[j] = e /\ f[i].seq \in Nat
      BY <1>2, <1>4, <2>1, <2>3
    <3> QED BY <1>1, <2>1, <3>2, <3>3
  <2> QED BY <1>2, <2>1, <2>2, <2>3
<1> QED BY <1>7, <1>8

\* Files grow and a run's own latest record stays, unless it writes another.
LEMMA WroteLinked ==
  ASSUME LinkInv, NEW r \in Runs, Live(r), NEW e, NEW next, Tells(r, e, next), Wrote(r, e),
         OthersKept(r), seq'[r] = e.seq, last'[r] = e.seq, UNCHANGED sid
  PROVE  \A o \in Runs : Linked(o)'
<1>0. /\ TypeInv /\ e.by = r /\ e.seq = seq[r] + 1 /\ seq[r] \in Nat
  BY DEF LinkInv, KindInv, StoryInv, AuditInv, TypeInv, TypeOK, LogTypeOK, Tells, NextEvent
<1> SUFFICES ASSUME NEW o \in Runs, Live(o)', NEW s \in Sessions, NEW i \in DOMAIN transcript'[s],
                    transcript'[s][i].by = o
             PROVE  /\ transcript'[s][i].seq <= seq'[o]
                    /\ Ledger!IsLatest(transcript'[s], i) => last'[o] = transcript'[s][i].seq
  BY DEF Linked
<1>1. /\ \A k \in DOMAIN transcript[s] :
           k \in DOMAIN transcript'[s] /\ transcript'[s][k] = transcript[s][k]
      /\ i \in DOMAIN transcript[s] \/ (s = sid[r] /\ transcript'[s][i] = e)
      /\ transcript[s] \in Seq(Records)
      /\ Len(transcript[s]) \in Nat /\ DOMAIN transcript[s] = 1..Len(transcript[s])
      /\ s = sid[r] => /\ Len(transcript[s]) + 1 \in DOMAIN transcript'[s]
                       /\ transcript'[s][Len(transcript[s]) + 1] = e
  BY <1>0, RecordsOfStep
<1>2. CASE i \notin DOMAIN transcript[s]
  BY <1>0, <1>1, <1>2
<1>3. CASE i \in DOMAIN transcript[s] /\ o # r
  <2>1. Live(o) /\ seq'[o] = seq[o] /\ last'[o] = last[o]
    BY <1>3 DEF OthersKept, Live
  <2>2. Ledger!IsLatest(transcript'[s], i) => Ledger!IsLatest(transcript[s], i)
    BY <1>1, <1>3 DEF Ledger!IsLatest
  <2> QED BY <1>1, <1>3, <2>1, <2>2 DEF LinkInv, Linked
<1>4. CASE i \in DOMAIN transcript[s] /\ o = r
  <2>1. s = sid[r] /\ transcript[s][i].seq <= seq[r]
    BY <1>1, <1>4 DEF LinkInv, KindInv, RecordKinds, Linked
  <2>2. transcript[s][i].seq \in Nat
    BY <1>1, <1>4, LineOfRecords
  <2>3. ~(Len(transcript[s]) + 1 <= i)
    BY <1>1, <1>4
  <2>4. ~Ledger!IsLatest(transcript'[s], i)
    BY <1>0, <1>1, <1>4, <2>1, <2>3 DEF Ledger!IsLatest
  <2> QED BY <1>0, <1>1, <1>4, <2>1, <2>2, <2>4
<1> QED BY <1>2, <1>3, <1>4

\* A run without records, because it has not opened or does not persist.
LEMMA Unwritten ==
  ASSUME KindInv, NEW r \in Runs, pc[r] \in Before \/ ~persist[r]
  PROVE  \A s \in Sessions : \A i \in DOMAIN transcript[s] : transcript[s][i].by # r
BY DEF KindInv, StoryInv, RecordsBehind, RecordKinds

LEMMA QuietLinked ==
  ASSUME LinkInv, NEW r \in Runs, UNCHANGED transcript, OthersKept(r),
         \/ pc'[r] \in Ended
         \/ pc[r] \in Before \/ ~persist[r]
         \/ Live(r) /\ seq[r] <= seq'[r] /\ seq'[r] \in Nat /\ last'[r] = last[r]
  PROVE  OwnRecordsChained' /\ \A o \in Runs : Linked(o)'
<1>1. OwnRecordsChained'
  BY DEF LinkInv, OwnRecordsChained
<1>2. \A o \in Runs \ {r} : Linked(o)'
  BY DEF LinkInv, Linked, OthersKept, Live
<1>3. Linked(r)'
  <2>1. CASE pc'[r] \in Ended
    BY <2>1 DEF Linked, Live
  <2>2. CASE pc[r] \in Before \/ ~persist[r]
    BY <2>2, Unwritten DEF LinkInv, Linked
  <2>3. CASE Live(r) /\ seq[r] <= seq'[r] /\ seq'[r] \in Nat /\ last'[r] = last[r]
    <3> SUFFICES ASSUME NEW s \in Sessions, NEW i \in DOMAIN transcript[s],
                        transcript[s][i].by = r
                 PROVE  /\ transcript[s][i].seq <= seq'[r]
                        /\ Ledger!IsLatest(transcript[s], i) => last[r] = transcript[s][i].seq
      BY <2>3 DEF Linked
    <3>1. transcript[s] \in Seq(Records) /\ seq[r] \in Nat
      BY DEF LinkInv, KindInv, StoryInv, AuditInv, TypeInv, TypeOK, LogTypeOK
    <3>2. transcript[s][i].seq \in Nat
      BY <3>1, LineOfRecords
    <3> QED BY <2>3, <3>1, <3>2 DEF LinkInv, Linked
  <2> QED BY <2>1, <2>2, <2>3
<1> QED BY <1>1, <1>2, <1>3

LEMMA RunStepLinked ==
  ASSUME LinkInv, NEW r \in Runs, RunStep(r)
  PROVE  OwnRecordsChained' /\ \A o \in Runs : Linked(o)'
<1>0. /\ TypeInv /\ Live(r) /\ UNCHANGED sid /\ OthersKept(r) /\ seq[r] \in Nat
  BY RunStepFrame, OthersOfStep
     DEF LinkInv, KindInv, StoryInv, AuditInv, TypeInv, TypeOK, LogTypeOK
<1>1. CASE Moves(r)
  BY <1>0, <1>1, QuietLinked DEF Moves
<1>2. CASE Places(r)
  BY <1>0, <1>2, QuietLinked DEF Places, Unplaced, Before
<1>3. CASE Refused(r)
  BY <1>0, <1>3, QuietLinked DEF Refused, Ended
<1>4. ASSUME NEW e, NEW next, Tells(r, e, next), Accepted(r, e, next)
      PROVE  OwnRecordsChained' /\ \A o \in Runs : Linked(o)'
  <2>1. CASE Wrote(r, e) /\ e.type \notin StreamOnlyTypes
    BY <1>0, <1>4, <2>1, WroteChained, WroteLinked DEF Accepted
  <2>2. CASE UNCHANGED transcript /\ (e.type \in StreamOnlyTypes \/ ~persist[r])
    <3>1. e.type \in StreamOnlyTypes => last'[r] = last[r]
      BY <1>4 DEF Accepted
    <3>2. seq[r] <= seq'[r] /\ seq'[r] \in Nat
      BY <1>0, <1>4 DEF Accepted, Tells, NextEvent
    <3> QED BY <1>0, <2>2, <3>1, <3>2, QuietLinked
  <2> QED BY <1>4, <2>1, <2>2 DEF Accepted
<1> QED BY <1>0, <1>1, <1>2, <1>3, <1>4, StepKinds, AcceptedOrRefused

LEMMA LinkNext == LinkInv /\ [Next]_vars => LinkInv'
<1> SUFFICES ASSUME LinkInv, [Next]_vars PROVE LinkInv'
  OBVIOUS
<1>1. KindInv' /\ TypeInv
  BY KindNext DEF LinkInv, KindInv, StoryInv, AuditInv
<1>2. CASE UNCHANGED vars
  BY <1>1, <1>2 DEF LinkInv, OwnRecordsChained, Linked, Live, vars, logVars, ctlVars
<1>3. ASSUME NEW r \in Runs, Bounds(r) PROVE OwnRecordsChained' /\ \A o \in Runs : Linked(o)'
  BY <1>3, QuietLinked DEF Bounds, Ended, Before
<1> QED BY <1>1, <1>2, <1>3, RunStepLinked, BoundsOfStep DEF LinkInv, Next, AllDone

LEMMA LinkInit == Init => LinkInv
<1> SUFFICES ASSUME Init PROVE LinkInv
  OBVIOUS
<1>1. OwnRecordsChained /\ \A r \in Runs : Linked(r)
  BY DEF Init, OwnRecordsChained, Linked
<1> QED BY <1>1, KindInit DEF LinkInv

\* Whatever other processes write in between and whoever is killed, the numbers of
\* a run's own records increase and each has the one before it as parent (_emit).
THEOREM OwnChainsUnbroken == Spec => []OwnRecordsChained
<1>1. LinkInv => OwnRecordsChained
  BY DEF LinkInv
<1> QED BY <1>1, LinkInit, LinkNext, PTL DEF Spec
-----------------------------------------------------------------------------
(* Where a run joins the file. *)

\* What a run that has not opened knows: the number of a line, and then that of the
\* same line or a later one.
Joining(r) ==
  LET f == transcript[sid[r]]
  IN  /\ pc[r] = "load_parent" => \E i \in 0..Len(f) : seq[r] = NumberAt(f, i)
      /\ pc[r] \in {"bind", "open"} =>
           \E i \in 0..Len(f) : \E j \in i..Len(f) :
             seq[r] = NumberAt(f, i) /\ last[r] = NumberAt(f, j)

JoinInv == KindInv /\ FirstRecordAttached /\ \A r \in Runs : Joining(r)

\* The numbers of a file's lines are still there when it has grown.
LEMMA NumbersStay ==
  ASSUME TypeInv, Grew, NEW s \in Sessions
  PROVE  /\ Len(transcript[s]) \in Nat /\ Len(transcript'[s]) \in Nat
         /\ Len(transcript[s]) <= Len(transcript'[s])
         /\ \A i \in 0..Len(transcript[s]) : NumberAt(transcript'[s], i) = NumberAt(transcript[s], i)
<1>1. transcript[s] \in Seq(Records) /\ Len(transcript[s]) \in Nat
  BY DEF TypeInv, TypeOK, LogTypeOK
<1>2. CASE transcript'[s] = transcript[s]
  BY <1>1, <1>2
<1>3. ASSUME NEW x, transcript'[s] = Append(transcript[s], x)
      PROVE  /\ Len(transcript'[s]) = Len(transcript[s]) + 1
             /\ \A i \in 1..Len(transcript[s]) : transcript'[s][i] = transcript[s][i]
  BY <1>1, <1>3, AppendKeeps
<1>4. ASSUME NEW x, transcript'[s] = Append(transcript[s], x), NEW i \in 0..Len(transcript[s])
      PROVE  NumberAt(transcript'[s], i) = NumberAt(transcript[s], i)
  <2>1. i = 0 \/ i \in 1..Len(transcript[s])
    BY <1>1
  <2> QED BY <1>3, <1>4, <2>1 DEF NumberAt
<1>5. ASSUME NEW x, transcript'[s] = Append(transcript[s], x)
      PROVE  Len(transcript'[s]) \in Nat /\ Len(transcript[s]) <= Len(transcript'[s])
  BY <1>1, <1>3, <1>5
<1>6. transcript'[s] = transcript[s] \/ \E x : transcript'[s] = Append(transcript[s], x)
  BY DEF Grew
<1> QED BY <1>1, <1>2, <1>4, <1>5, <1>6

\* A run that does not move keeps its place, however the file grows.
LEMMA JoiningKept ==
  ASSUME TypeInv, Grew, NEW o \in Runs, Joining(o),
         pc'[o] \in {"load_parent", "bind", "open"} =>
           /\ pc'[o] = pc[o] \/ (pc[o] \in {"bind", "open"} /\ pc'[o] \in {"bind", "open"})
           /\ sid'[o] = sid[o] /\ seq'[o] = seq[o] /\ last'[o] = last[o]
  PROVE  Joining(o)'
<1> SUFFICES ASSUME pc'[o] \in {"load_parent", "bind", "open"} PROVE Joining(o)'
  BY DEF Joining
<1> DEFINE f == transcript[sid[o]]
           g == transcript'[sid[o]]
<1>1. sid[o] \in Sessions /\ sid'[o] = sid[o] /\ seq'[o] = seq[o] /\ last'[o] = last[o]
  BY DEF TypeInv, TypeOK, ScopeOK, Live, Ended
<1>2. /\ Len(f) \in Nat /\ Len(g) \in Nat /\ Len(f) <= Len(g)
      /\ \A i \in 0..Len(f) : NumberAt(g, i) = NumberAt(f, i)
  BY <1>1, NumbersStay
<1>3. Joining(o)' <=> /\ pc'[o] = "load_parent" => \E i \in 0..Len(g) : seq[o] = NumberAt(g, i)
                      /\ pc'[o] \in {"bind", "open"} =>
                           \E i \in 0..Len(g) : \E j \in i..Len(g) :
                             seq[o] = NumberAt(g, i) /\ last[o] = NumberAt(g, j)
  BY <1>1 DEF Joining
<1>4. /\ pc[o] = "load_parent" => \E i \in 0..Len(f) : seq[o] = NumberAt(f, i)
      /\ pc[o] \in {"bind", "open"} =>
           \E i \in 0..Len(f) : \E j \in i..Len(f) :
             seq[o] = NumberAt(f, i) /\ last[o] = NumberAt(f, j)
  BY DEF Joining
<1> HIDE DEF f, g
<1>5. CASE pc'[o] = "load_parent"
  <2>1. PICK i \in 0..Len(f) : seq[o] = NumberAt(f, i)
    BY <1>4, <1>5
  <2>2. i \in 0..Len(g) /\ seq[o] = NumberAt(g, i)
    BY <1>2, <2>1
  <2> QED BY <1>3, <1>5, <2>2
<1>6. CASE pc'[o] \in {"bind", "open"}
  <2>0. PICK i \in 0..Len(f) : \E j \in i..Len(f) :
          seq[o] = NumberAt(f, i) /\ last[o] = NumberAt(f, j)
    BY <1>4, <1>6
  <2>1. PICK j \in i..Len(f) : seq[o] = NumberAt(f, i) /\ last[o] = NumberAt(f, j)
    BY <2>0
  <2>2. i \in 0..Len(g) /\ j \in i..Len(g) /\ j \in 0..Len(f)
    BY <1>2
  <2>3. seq[o] = NumberAt(g, i) /\ last[o] = NumberAt(g, j)
    BY <1>2, <2>1, <2>2
  <2> QED BY <1>3, <1>6, <2>2, <2>3
<1> QED BY <1>5, <1>6

\* The loads find what is in the last line, if there is one.
LEMMA JoiningPlaced ==
  ASSUME JoinInv, NEW r \in Runs, Live(r), Places(r), UNCHANGED <<sid, transcript>>
  PROVE  Joining(r)'
<1> DEFINE f == transcript[sid[r]]
           n == Len(f)
<1>1. /\ TypeInv /\ Joining(r) /\ sid[r] \in Sessions /\ f \in Seq(Records) /\ n \in Nat
      /\ seq \in [Runs -> Nat] /\ last \in [Runs -> Nat] /\ pc \in [Runs -> Pcs]
  BY DEF JoinInv, KindInv, StoryInv, AuditInv, TypeInv, TypeOK, LogTypeOK, ScopeOK
<1>2. NextSeq(sid[r]) - 1 = NumberAt(f, n) /\ LastEvent(sid[r]) = NumberAt(f, n)
  <2>1. CASE f = <<>>
    <3>1. n = 0
      BY <2>1
    <3> HIDE DEF n
    <3> QED BY <2>1, <3>1 DEF NextSeq, LastEvent, NumberAt
  <2>2. CASE f # <<>>
    <3>1. n # 0 /\ n \in 1..Len(f)
      BY <1>1, <2>2
    <3>2. f[n].seq \in Nat
      BY <1>1, <3>1, LineOfRecords
    <3> QED BY <2>2, <3>1, <3>2 DEF NextSeq, LastEvent, NumberAt
  <2> QED BY <2>1, <2>2
<1>3. n \in 0..n
  BY <1>1
<1>4. CASE ChooseRunId(r)
  <2>1. pc'[r] = "load_seq"
    BY <1>1, <1>4 DEF ChooseRunId, Goto
  <2> QED BY <2>1 DEF Joining
<1>5. CASE LoadSeq(r)
  <2>1. pc'[r] = "load_parent" /\ seq'[r] = NumberAt(f, n)
    BY <1>1, <1>2, <1>5 DEF LoadSeq
  <2> QED BY <1>3, <2>1 DEF Joining
<1>6. CASE LoadParent(r)
  <2>1. /\ pc[r] = "load_parent" /\ pc'[r] = "bind" /\ seq'[r] = seq[r]
        /\ last'[r] = NumberAt(f, n)
    BY <1>1, <1>2, <1>6 DEF LoadParent
  <2>2. PICK i \in 0..n : seq[r] = NumberAt(f, i)
    BY <1>1, <2>1 DEF Joining
  <2>3. n \in i..n
    BY <1>1
  <2> QED BY <2>1, <2>2, <2>3 DEF Joining
<1> QED BY <1>4, <1>5, <1>6 DEF Places

\* The first record of a run is the one it opens with.
LEMMA WroteAttached ==
  ASSUME JoinInv, NEW r \in Runs, Live(r), NEW e, NEW next, Tells(r, e, next),
         persist[r], Wrote(r, e)
  PROVE  FirstRecordAttached'
<1> DEFINE f == transcript[sid[r]]
           n == Len(f)
           g == transcript'[sid[r]]
<1>1. /\ TypeInv /\ sid[r] \in Sessions /\ f \in Seq(Records) /\ g = Append(f, e)
      /\ e.by = r /\ e.seq = seq[r] + 1 /\ e.parent = last[r]
  BY DEF JoinInv, KindInv, StoryInv, AuditInv, TypeInv, TypeOK, LogTypeOK, ScopeOK,
         Wrote, Tells, NextEvent
<1>2. /\ n \in Nat /\ DOMAIN f = 1..n /\ DOMAIN g = 1..(n + 1)
      /\ g[n + 1] = e /\ \A i \in 1..n : g[i] = f[i]
  BY <1>1, AppendKeeps
<1>3. \A k \in 1..n : (\A i \in 1..(k - 1) : f[i].by # f[k].by) => Attached(f, k)
  BY <1>1, <1>2 DEF JoinInv, FirstRecordAttached
<1>4. \A i \in 0..n : NumberAt(g, i) = NumberAt(f, i)
  <2> SUFFICES ASSUME NEW i \in 0..n PROVE NumberAt(g, i) = NumberAt(f, i)
    OBVIOUS
  <2>1. i = 0 \/ i \in 1..n
    BY <1>2
  <2> HIDE DEF f, g, n
  <2> QED BY <1>2, <2>1 DEF NumberAt
<1>5. pc[r] = "open" \/ \E i \in 1..n : f[i].by = r
  <2>1. pc[r] = "open" \/ pc[r] \in Telling
    <3>1. pc[r] \in Pcs /\ pc[r] \notin Unplaced \cup {"bind", "index"} /\ Live(r)
      BY <1>1 DEF Tells, TypeInv, TypeOK, LogTypeOK
    <3> QED BY <3>1 DEF Pcs, Telling, Talking, Unplaced, Live
  <2>2. pc[r] \in Telling => \E x : LastOf(f, r, x)
    BY DEF JoinInv, KindInv, StoryInv, Story
  <2> QED BY <1>2, <2>1, <2>2 DEF LastOf
<1>6. pc[r] = "open" => Attached(g, n + 1)
  <2> SUFFICES ASSUME pc[r] = "open" PROVE Attached(g, n + 1)
    OBVIOUS
  <2>0. PICK i \in 0..n : \E j \in i..n : seq[r] = NumberAt(f, i) /\ last[r] = NumberAt(f, j)
    BY DEF JoinInv, Joining
  <2>1. PICK j \in i..n : seq[r] = NumberAt(f, i) /\ last[r] = NumberAt(f, j)
    BY <2>0
  <2>2. /\ i \in 0..((n + 1) - 1) /\ j \in i..((n + 1) - 1) /\ j \in 0..n
    BY <1>2
  <2> HIDE DEF f, g, n
  <2>3. g[n + 1].seq = NumberAt(g, i) + 1 /\ g[n + 1].parent = NumberAt(g, j)
    BY <1>1, <1>2, <1>4, <2>1, <2>2
  <2> QED BY <2>2, <2>3 DEF Attached
<1> HIDE DEF f, n, g
<1> SUFFICES ASSUME NEW s \in Sessions, NEW k \in DOMAIN transcript'[s],
                    \A i \in 1..(k - 1) : transcript'[s][i].by # transcript'[s][k].by
             PROVE  Attached(transcript'[s], k)
  BY DEF FirstRecordAttached
<1>7. CASE s # sid[r]
  BY <1>7 DEF Wrote, JoinInv, FirstRecordAttached
<1>8. CASE s = sid[r]
  <2>1. k \in 1..(n + 1) /\ transcript'[s] = g
    BY <1>2, <1>8 DEF g
  <2>2. CASE k \in 1..n
    <3>1. \A i \in 1..(k - 1) : i \in 1..n
      BY <1>2, <2>2
    <3>2. \A i \in 1..(k - 1) : f[i].by # f[k].by
      BY <1>2, <2>1, <2>2, <3>1
    <3>0. PICK i \in 0..(k - 1) : \E j \in i..(k - 1) :
            f[k].seq = NumberAt(f, i) + 1 /\ f[k].parent = NumberAt(f, j)
      BY <1>3, <2>2, <3>2 DEF Attached
    <3>3. PICK j \in i..(k - 1) :
            f[k].seq = NumberAt(f, i) + 1 /\ f[k].parent = NumberAt(f, j)
      BY <3>0
    <3>4. i \in 0..n /\ j \in 0..n
      BY <1>2, <2>2
    <3>5. g[k].seq = NumberAt(g, i) + 1 /\ g[k].parent = NumberAt(g, j)
      BY <1>2, <1>4, <2>2, <3>3, <3>4
    <3> QED BY <2>1, <3>3, <3>5 DEF Attached
  <2>3. CASE k = n + 1
    <3>1. \A i \in 1..n : f[i].by # r
      <4>1. (n + 1) - 1 = n
        BY <1>2
      <4> QED BY <1>1, <1>2, <2>1, <2>3, <4>1
    <3> QED BY <1>5, <1>6, <2>1, <2>3, <3>1
  <2> QED BY <1>2, <2>1, <2>2, <2>3
<1> QED BY <1>7, <1>8

LEMMA RunStepJoined ==
  ASSUME JoinInv, NEW r \in Runs, RunStep(r), Grew
  PROVE  FirstRecordAttached' /\ \A o \in Runs : Joining(o)'
<1>0. /\ TypeInv /\ Live(r) /\ UNCHANGED sid /\ OthersKept(r) /\ Joining(r)
  BY RunStepFrame, OthersOfStep DEF JoinInv, KindInv, StoryInv, AuditInv
<1>1. \A o \in Runs \ {r} : Joining(o)'
  BY <1>0, JoiningKept DEF JoinInv, OthersKept
<1>2. ASSUME UNCHANGED transcript PROVE FirstRecordAttached'
  BY <1>2 DEF JoinInv, FirstRecordAttached
<1>3. CASE Places(r)
  <2>1. UNCHANGED transcript
    BY <1>3 DEF Places
  <2> QED BY <1>0, <1>1, <1>2, <1>3, <2>1, JoiningPlaced
<1>4. CASE Moves(r)
  <2>1. /\ UNCHANGED <<transcript, seq, last>> /\ pc[r] \notin Unplaced
        /\ pc'[r] \notin Unplaced /\ (pc'[r] \in Before => pc[r] \in Before)
    BY <1>4 DEF Moves
  <2>2. pc'[r] \in {"load_parent", "bind", "open"} => pc[r] \in {"bind", "open"} /\ pc'[r] # "load_parent"
    BY <1>0, <2>1 DEF Before, Unplaced, Live
  <2> QED BY <1>0, <1>1, <1>2, <2>1, <2>2, JoiningKept
<1>5. CASE Refused(r)
  <2>1. UNCHANGED transcript /\ pc'[r] = "exited"
    BY <1>5 DEF Refused
  <2> QED BY <1>0, <1>1, <1>2, <2>1, JoiningKept
<1>6. ASSUME NEW e, NEW next, Tells(r, e, next), Accepted(r, e, next)
      PROVE  FirstRecordAttached' /\ Joining(r)'
  <2>1. pc'[r] \notin Before
    BY <1>6 DEF Tells, Accepted, Before
  <2>2. Joining(r)'
    BY <2>1 DEF Joining, Before
  <2>3. UNCHANGED transcript \/ (persist[r] /\ Wrote(r, e))
    BY <1>6 DEF Accepted
  <2> QED BY <1>0, <1>2, <1>6, <2>2, <2>3, WroteAttached
<1> QED BY <1>0, <1>1, <1>3, <1>4, <1>5, <1>6, StepKinds, AcceptedOrRefused

LEMMA JoinNext == JoinInv /\ [Next]_vars => JoinInv'
<1> SUFFICES ASSUME JoinInv, [Next]_vars PROVE JoinInv'
  OBVIOUS
<1>1. KindInv' /\ TypeInv /\ Grew
  BY KindNext, StepGrows DEF JoinInv, KindInv, StoryInv, AuditInv
<1>2. CASE UNCHANGED vars
  BY <1>1, <1>2 DEF JoinInv, FirstRecordAttached, Joining, vars, logVars, ctlVars, idVars
<1>3. ASSUME NEW r \in Runs, Bounds(r) PROVE FirstRecordAttached' /\ \A o \in Runs : Joining(o)'
  <2>1. FirstRecordAttached'
    BY <1>3 DEF JoinInv, FirstRecordAttached, Bounds
  <2>2. \A o \in Runs \ {r} : Joining(o)'
    BY <1>1, <1>3, JoiningKept DEF JoinInv, Bounds, OthersKept
  <2>3. Joining(r)'
    BY <1>3 DEF Joining, Bounds
  <2> QED BY <2>1, <2>2, <2>3
<1> QED BY <1>1, <1>2, <1>3, RunStepJoined, BoundsOfStep DEF JoinInv, Next, AllDone

LEMMA JoinInit == Init => JoinInv
<1> SUFFICES ASSUME Init PROVE JoinInv
  OBVIOUS
<1>1. FirstRecordAttached /\ \A r \in Runs : Joining(r)
  BY DEF Init, FirstRecordAttached, Joining
<1> QED BY <1>1, KindInit DEF JoinInv

\* However processes overlap, and whoever is killed: the first record of a run is
\* numbered after a line above it, and its parent is that line or a later one above
\* it (run, which loads the number before the parent).
THEOREM FirstRecordsAttached == Spec => []FirstRecordAttached
<1>1. JoinInv => FirstRecordAttached
  BY DEF JoinInv
<1> QED BY <1>1, JoinInit, JoinNext, PTL DEF Spec
-----------------------------------------------------------------------------
(* Messages are streamed. *)

\* A streamed piece belongs to a run that has opened, whose counter is past it.
DeltasBehind ==
  \A d \in deltas : /\ pc[d.by] \notin Before /\ sid[d.by] = d.sid
                    /\ Live(d.by) => d.seq <= seq[d.by]

\* Every message of run r so far is numbered below n.
Said(r, n) ==
  \A s \in Sessions : \A i \in DOMAIN transcript[s] :
    (transcript[s][i].by = r /\ transcript[s][i].type = "assistant_message")
      => transcript[s][i].seq < n

\* Something was streamed since the latest message.
Streamed(r) ==
  (pc[r] \notin Ended /\ (sawDelta[r] \/ pc[r] = "message")) =>
    \E d \in deltas : d.by = r /\ Said(r, d.seq)

HeardInv == LinkInv /\ MessagesStreamed /\ DeltasBehind /\ \A r \in Runs : Streamed(r)

LEMMA HeardTypes ==
  ASSUME HeardInv, NEW r \in Runs
  PROVE  /\ TypeInv /\ KindInv /\ seq[r] \in Nat
         /\ \A d \in deltas : d.by \in Runs /\ d.sid \in Sessions /\ d.seq \in Nat
         /\ Live(r) => Said(r, seq[r] + 1)
<1>1. /\ TypeInv /\ KindInv /\ seq[r] \in Nat
      /\ \A d \in deltas : d.by \in Runs /\ d.sid \in Sessions /\ d.seq \in Nat
  BY DEF HeardInv, LinkInv, KindInv, StoryInv, AuditInv, TypeInv, TypeOK, LogTypeOK
<1>2. ASSUME Live(r), NEW s \in Sessions, NEW i \in DOMAIN transcript[s], transcript[s][i].by = r
      PROVE  transcript[s][i].seq < seq[r] + 1
  <2>1. transcript[s] \in Seq(Records)
    BY <1>1 DEF TypeInv, TypeOK, LogTypeOK
  <2>2. transcript[s][i].seq \in Nat
    BY <2>1, LineOfRecords
  <2>3. transcript[s][i].seq <= seq[r]
    BY <1>2 DEF HeardInv, LinkInv, Linked
  <2> QED BY <1>1, <2>2, <2>3
<1> QED BY <1>1, <1>2 DEF Said

\* A step that writes nothing and streams nothing.
LEMMA QuietHeard ==
  ASSUME HeardInv, NEW r \in Runs, UNCHANGED <<transcript, deltas>>, OthersKept(r),
         \/ pc'[r] \in Ended \/ seq[r] <= seq'[r] \/ pc[r] \in Before,
         sid'[r] = sid[r] \/ pc[r] = "idle", pc'[r] \in Before => pc[r] \in Before,
         seq'[r] \in Nat,
         pc'[r] \notin Ended => pc[r] \notin Ended,
         pc'[r] \notin Ended /\ (sawDelta'[r] \/ pc'[r] = "message") =>
           sawDelta[r] \/ pc[r] = "message"
  PROVE  MessagesStreamed' /\ DeltasBehind' /\ \A o \in Runs : Streamed(o)'
<1>0. /\ \A d \in deltas : d.by \in Runs /\ d.sid \in Sessions /\ d.seq \in Nat
      /\ \A b \in Runs : seq[b] \in Nat
  BY HeardTypes
<1>1. MessagesStreamed'
  BY DEF HeardInv, MessagesStreamed
<1>2. DeltasBehind'
  <2> SUFFICES ASSUME NEW d \in deltas
               PROVE  /\ pc'[d.by] \notin Before /\ sid'[d.by] = d.sid
                      /\ pc'[d.by] \notin Ended \cup {"idle"} => d.seq <= seq'[d.by]
    BY DEF DeltasBehind, Live
  <2>1. /\ pc[d.by] \notin Before /\ sid[d.by] = d.sid
        /\ pc[d.by] \notin Ended \cup {"idle"} => d.seq <= seq[d.by]
    BY DEF HeardInv, DeltasBehind, Live
  <2>2. CASE d.by = r
    BY <1>0, <2>1, <2>2 DEF Before
  <2>3. CASE d.by # r
    BY <1>0, <2>1, <2>3 DEF OthersKept
  <2> QED BY <2>2, <2>3
<1>3. \A o \in Runs : Streamed(o)'
  BY DEF HeardInv, Streamed, Said, OthersKept
<1> QED BY <1>1, <1>2, <1>3

\* A piece is streamed: it is numbered past every message of its run.
LEMMA StreamHeard ==
  ASSUME HeardInv, NEW r \in Runs, Live(r), NEW e, NEW next, Tells(r, e, next),
         Accepted(r, e, next), e.type \in StreamOnlyTypes, OthersKept(r), UNCHANGED sid
  PROVE  MessagesStreamed' /\ DeltasBehind' /\ \A o \in Runs : Streamed(o)'
<1> DEFINE n == [sid |-> sid[r], seq |-> e.seq, by |-> r]
<1>0. /\ \A d \in deltas : d.by \in Runs /\ d.sid \in Sessions /\ d.seq \in Nat
      /\ \A b \in Runs : seq[b] \in Nat
      /\ Said(r, seq[r] + 1)
  BY HeardTypes
<1>1. /\ UNCHANGED transcript /\ deltas' = deltas \cup {n} /\ seq'[r] = e.seq
      /\ e.seq = seq[r] + 1 /\ pc'[r] = next /\ next \notin Before
      /\ n.by = r /\ n.sid = sid[r] /\ n.seq = e.seq
  BY DEF Accepted, Tells, NextEvent
<1> HIDE DEF n
<1>2. MessagesStreamed'
  BY <1>1 DEF HeardInv, MessagesStreamed
<1>3. DeltasBehind'
  <2> SUFFICES ASSUME NEW d \in deltas'
               PROVE  /\ pc'[d.by] \notin Before /\ sid[d.by] = d.sid
                      /\ pc'[d.by] \notin Ended \cup {"idle"} => d.seq <= seq'[d.by]
    BY DEF DeltasBehind, Live
  <2>1. CASE d = n
    BY <1>0, <1>1, <2>1
  <2>2. CASE d \in deltas
    <3>1. /\ pc[d.by] \notin Before /\ sid[d.by] = d.sid
          /\ pc[d.by] \notin Ended \cup {"idle"} => d.seq <= seq[d.by]
      BY <2>2 DEF HeardInv, DeltasBehind, Live
    <3>2. CASE d.by = r
      BY <1>0, <1>1, <2>2, <3>1, <3>2 DEF Live
    <3>3. CASE d.by # r
      BY <1>0, <2>2, <3>1, <3>3 DEF OthersKept
    <3> QED BY <3>2, <3>3
  <2> QED BY <1>1, <2>1, <2>2
<1>4. Streamed(r)'
  <2>1. ASSUME NEW s \in Sessions, NEW i \in DOMAIN transcript'[s], transcript'[s][i].by = r,
               transcript'[s][i].type = "assistant_message"
        PROVE  transcript'[s][i].seq < e.seq
    BY <1>0, <1>1, <2>1 DEF Said
  <2>2. n \in deltas' /\ n.by = r /\ n.seq = e.seq
    BY <1>1
  <2> QED BY <2>1, <2>2 DEF Streamed, Said
<1>5. \A o \in Runs \ {r} : Streamed(o)'
  BY <1>1 DEF HeardInv, Streamed, Said, OthersKept
<1> QED BY <1>2, <1>3, <1>4, <1>5

\* A record is written; if it is a message, what was streamed lies before it.
LEMMA WroteHeard ==
  ASSUME HeardInv, NEW r \in Runs, Live(r), NEW e, NEW next, Tells(r, e, next),
         Accepted(r, e, next), e.type \notin StreamOnlyTypes, Wrote(r, e),
         OthersKept(r), UNCHANGED sid
  PROVE  MessagesStreamed' /\ DeltasBehind' /\ \A o \in Runs : Streamed(o)'
<1>0. /\ \A d \in deltas : d.by \in Runs /\ d.sid \in Sessions /\ d.seq \in Nat
      /\ \A b \in Runs : seq[b] \in Nat
      /\ Said(r, seq[r] + 1) /\ TypeInv /\ KindInv
  BY HeardTypes
<1>1. /\ deltas' = deltas /\ seq'[r] = e.seq /\ e.seq = seq[r] + 1 /\ pc'[r] = next
      /\ next \notin Before /\ e.by = r
  BY DEF Accepted, Tells, NextEvent
<1>2. DeltasBehind'
  <2> SUFFICES ASSUME NEW d \in deltas
               PROVE  /\ pc'[d.by] \notin Before /\ sid[d.by] = d.sid
                      /\ pc'[d.by] \notin Ended \cup {"idle"} => d.seq <= seq'[d.by]
    BY <1>1 DEF DeltasBehind, Live
  <2>1. /\ pc[d.by] \notin Before /\ sid[d.by] = d.sid
        /\ pc[d.by] \notin Ended \cup {"idle"} => d.seq <= seq[d.by]
    BY DEF HeardInv, DeltasBehind, Live
  <2>2. CASE d.by = r
    BY <1>0, <1>1, <2>1, <2>2 DEF Live
  <2>3. CASE d.by # r
    BY <1>0, <2>1, <2>3 DEF OthersKept
  <2> QED BY <2>2, <2>3
<1>3. ASSUME NEW s \in Sessions, NEW i \in DOMAIN transcript'[s]
      PROVE  \/ i \in DOMAIN transcript[s] /\ transcript'[s][i] = transcript[s][i]
             \/ s = sid[r] /\ transcript'[s][i] = e
  BY <1>0, RecordsOfStep
<1>4. ASSUME NEW o \in Runs, NEW n, Said(o, n), o # r \/ e.type # "assistant_message"
      PROVE  Said(o, n)'
  BY <1>1, <1>3, <1>4 DEF Said
<1>5. \A o \in Runs : Streamed(o)'
  <2>1. ASSUME NEW o \in Runs \ {r} PROVE Streamed(o)'
    BY <1>1, <1>4, <2>1 DEF HeardInv, Streamed, OthersKept
  <2>2. Streamed(r)'
    <3> SUFFICES ASSUME sawDelta'[r] \/ next = "message"
                 PROVE  \E d \in deltas : d.by = r /\ Said(r, d.seq)'
      BY <1>1 DEF Streamed
    <3>1. sawDelta[r] /\ e.type # "assistant_message"
      BY DEF Tells, StreamOnlyTypes
    <3>2. PICK d \in deltas : d.by = r /\ Said(r, d.seq)
      BY <3>1 DEF HeardInv, Streamed, Live
    <3> QED BY <1>4, <3>1, <3>2
  <2> QED BY <2>1, <2>2
<1>6. MessagesStreamed'
  <2> SUFFICES ASSUME NEW s \in Sessions, NEW j \in DOMAIN transcript'[s],
                      transcript'[s][j].type = "assistant_message"
               PROVE  \E d \in deltas :
                        /\ d.by = transcript'[s][j].by /\ d.sid = s
                        /\ d.seq < transcript'[s][j].seq
                        /\ \A i \in 1..(j - 1) :
                             /\ transcript'[s][i].type = "assistant_message"
                             /\ transcript'[s][i].by = transcript'[s][j].by
                             => transcript'[s][i].seq < d.seq
    BY <1>1 DEF MessagesStreamed
  <2> DEFINE f == transcript[s]
             g == transcript'[s]
  <2>0. /\ Len(f) \in Nat /\ DOMAIN f = 1..Len(f) /\ \A i \in DOMAIN f : g[i] = f[i]
        /\ j \notin DOMAIN f => s = sid[r] /\ j = Len(f) + 1 /\ g[j] = e
    BY <1>0, RecordsOfStep
  <2>1. CASE j \in DOMAIN f
    <3>1. \A i \in 1..(j - 1) : i \in DOMAIN f
      BY <2>0, <2>1
    <3>2. PICK d \in deltas :
            /\ d.by = f[j].by /\ d.sid = s /\ d.seq < f[j].seq
            /\ \A i \in 1..(j - 1) :
                 f[i].type = "assistant_message" /\ f[i].by = f[j].by => f[i].seq < d.seq
      <4>1. f[j].type = "assistant_message" /\ j \in DOMAIN transcript[s]
        BY <2>0, <2>1
      <4> QED BY <4>1 DEF HeardInv, MessagesStreamed
    <3>3. g[j] = f[j] /\ \A i \in 1..(j - 1) : g[i] = f[i]
      BY <2>0, <2>1, <3>1
    <3> HIDE DEF f, g
    <3> QED BY <3>2, <3>3 DEF f, g
  <2>2. CASE j \notin DOMAIN f
    <3>1. s = sid[r] /\ j = Len(f) + 1 /\ g[j] = e
      BY <2>0, <2>2
    <3>2. pc[r] = "message"
      BY <3>1 DEF Tells
    <3>3. PICK d \in deltas : d.by = r /\ Said(r, d.seq)
      BY <3>2 DEF HeardInv, Streamed, Ended
    <3>4. d.sid = s /\ d.seq < e.seq
      BY <1>0, <1>1, <3>1, <3>3 DEF HeardInv, DeltasBehind
    <3>5. \A i \in 1..(j - 1) :
            g[i].type = "assistant_message" /\ g[i].by = r => g[i].seq < d.seq
      <4>1. \A i \in 1..(j - 1) : i \in DOMAIN f /\ g[i] = f[i]
        BY <2>0, <3>1
      <4>2. \A i \in DOMAIN f : f[i].type = "assistant_message" /\ f[i].by = r => f[i].seq < d.seq
        BY <3>1, <3>3 DEF Said
      <4> HIDE DEF f, g
      <4> QED BY <4>1, <4>2
    <3> QED BY <1>1, <3>1, <3>3, <3>4, <3>5
  <2> QED BY <2>1, <2>2
<1> QED BY <1>2, <1>5, <1>6

LEMMA RunStepHeard ==
  ASSUME HeardInv, NEW r \in Runs, RunStep(r)
  PROVE  MessagesStreamed' /\ DeltasBehind' /\ \A o \in Runs : Streamed(o)'
<1>0. /\ TypeInv /\ Live(r) /\ UNCHANGED sid /\ OthersKept(r) /\ seq[r] \in Nat
      /\ pc[r] \notin Ended
  BY HeardTypes, RunStepFrame, OthersOfStep DEF Live
<1>1. CASE Moves(r)
  BY <1>0, <1>1, QuietHeard DEF Moves
<1>2. CASE Places(r)
  <2>1. seq'[r] \in Nat
    <3>1. TypeInv'
      BY <1>0, NextTypes DEF Next
    <3> QED BY <3>1 DEF TypeInv, TypeOK, LogTypeOK
  <2> QED BY <1>0, <1>2, <2>1, QuietHeard DEF Places, Unplaced, Before
<1>3. ASSUME NEW e, NEW next, Tells(r, e, next)
      PROVE  MessagesStreamed' /\ DeltasBehind' /\ \A o \in Runs : Streamed(o)'
  <2>0. seq'[r] \in Nat
    BY <1>0, <1>3 DEF Tells, NextEvent, Emit, TypeInv, TypeOK, LogTypeOK
  <2>1. CASE Refused(r)
    BY <1>0, <2>0, <2>1, QuietHeard DEF Refused, Ended, Before
  <2>2. CASE Accepted(r, e, next) /\ e.type \in StreamOnlyTypes
    BY <1>0, <1>3, <2>2, StreamHeard
  <2>3. CASE Accepted(r, e, next) /\ e.type \notin StreamOnlyTypes /\ Wrote(r, e)
    BY <1>0, <1>3, <2>3, WroteHeard
  <2>4. CASE Accepted(r, e, next) /\ e.type \notin StreamOnlyTypes /\ UNCHANGED transcript
    BY <1>0, <1>3, <2>0, <2>4, QuietHeard DEF Accepted, Tells, NextEvent, StreamOnlyTypes
  <2> QED BY <1>0, <1>3, <2>1, <2>2, <2>3, <2>4, AcceptedOrRefused DEF Accepted
<1> QED BY <1>0, <1>1, <1>2, <1>3, StepKinds

LEMMA HeardNext == HeardInv /\ [Next]_vars => HeardInv'
<1> SUFFICES ASSUME HeardInv, [Next]_vars PROVE HeardInv'
  OBVIOUS
<1>1. LinkInv' /\ TypeInv /\ TypeInv'
  BY LinkNext, NextTypes DEF HeardInv, LinkInv, KindInv, StoryInv, AuditInv
<1>2. CASE UNCHANGED vars
  <2>1. UNCHANGED <<transcript, deltas, pc, sid, seq, sawDelta>>
    BY <1>2 DEF vars, logVars, ctlVars, idVars, turnVars
  <2> QED BY <1>1, <2>1 DEF HeardInv, MessagesStreamed, DeltasBehind, Streamed, Said, Live
<1>3. ASSUME NEW r \in Runs, Bounds(r)
      PROVE  MessagesStreamed' /\ DeltasBehind' /\ \A o \in Runs : Streamed(o)'
  <2>1. seq'[r] \in Nat
    BY <1>1 DEF TypeInv, TypeOK, LogTypeOK
  <2> QED BY <1>3, <2>1, QuietHeard DEF Bounds, Ended, Before, Live
<1> QED BY <1>1, <1>2, <1>3, RunStepHeard, BoundsOfStep DEF HeardInv, Next, AllDone

LEMMA HeardInit == Init => HeardInv
<1> SUFFICES ASSUME Init PROVE HeardInv
  OBVIOUS
<1>1. MessagesStreamed /\ DeltasBehind /\ \A r \in Runs : Streamed(r)
  BY DEF Init, MessagesStreamed, DeltasBehind, Streamed
<1> QED BY <1>1, LinkInit DEF HeardInv

\* A subscriber of the stream misses no message: at least one piece was streamed
\* for each, after the messages of the run before it (ModelStreamAdapter.adapt,
\* _emit), whatever the provider sends and whoever shares the session.
THEOREM MessagesHeard == Spec => []MessagesStreamed
<1>1. HeardInv => MessagesStreamed
  BY DEF HeardInv
<1> QED BY <1>1, HeardInit, HeardNext, PTL DEF Spec
-----------------------------------------------------------------------------
(* Calls are told whole. *)

\* In file f each record but the first of its run is one the ledger lets follow
\* the run's record before it, and a call is requested with a new id.
Told(f) ==
  \A j \in DOMAIN f :
    /\ \/ f[j].type \in Ledger!Openings /\ \A i \in 1..(j - 1) : f[i].by # f[j].by
       \/ \E i \in 1..(j - 1) : FollowedBy(f, i, j) /\ Ledger!MayFollow(f[i], f[j])
    /\ f[j].type = "tool_call_requested" =>
         \A i \in 1..(j - 1) : f[i].by = f[j].by => f[i].tc < f[j].tc

\* Call c of run r is told to its end.
Finished(r, c) ==
  \E s \in Sessions : \E i \in DOMAIN transcript[s] :
    LET x == transcript[s][i]
    IN  x.by = r /\ x.tc = c /\ x.type = "tool_execution_finished"

\* All calls of run r but the one in progress are.
Whole(r) ==
  (persist[r] /\ (Live(r) \/ Reported(r))) =>
    \A c \in 1..calls[r] : (c # calls[r] \/ pc[r] \notin InCall) => Finished(r, c)

ToldInv == KindInv /\ (\A s \in Sessions : Told(transcript[s])) /\ \A r \in Runs : Whole(r)

LEMMA ToldAppended ==
  ASSUME NEW f \in Seq(Records), Told(f), NEW x,
         \/ Ledger!Unheard(f, x.by) /\ x.type \in Ledger!Openings
         \/ \E i \in DOMAIN f :
              /\ f[i].by = x.by /\ Ledger!IsLatest(f, i)
              /\ Ledger!MayFollow(f[i], x),
         x.type = "tool_call_requested" => Ledger!NewCall(f, x)
  PROVE  Told(Append(f, x))
<1> DEFINE n == Len(f)
           g == Append(f, x)
<1>1. /\ n \in Nat /\ DOMAIN f = 1..n /\ DOMAIN g = 1..(n + 1) /\ g[n + 1] = x
      /\ \A i \in 1..n : g[i] = f[i]
  BY AppendKeeps
<1>2. /\ \A i, j \in 1..n : FollowedBy(g, i, j) <=> FollowedBy(f, i, j)
      /\ \A i \in 1..n : FollowedBy(g, i, n + 1) <=> f[i].by = x.by /\ Ledger!IsLatest(f, i)
  BY FollowedAppend
<1> HIDE DEF n, g
<1> SUFFICES ASSUME NEW j \in 1..(n + 1)
             PROVE  /\ \/ /\ g[j].type \in Ledger!Openings
                          /\ \A i \in 1..(j - 1) : g[i].by # g[j].by
                       \/ \E i \in 1..(j - 1) : FollowedBy(g, i, j) /\ Ledger!MayFollow(g[i], g[j])
                    /\ g[j].type = "tool_call_requested" =>
                         \A i \in 1..(j - 1) : g[i].by = g[j].by => g[i].tc < g[j].tc
  BY <1>1 DEF Told, g
<1>3. CASE j \in 1..n
  <2>1. \A i \in 1..(j - 1) : i \in 1..n /\ g[i] = f[i]
    BY <1>1, <1>3
  <2>2. g[j] = f[j]
    BY <1>1, <1>3
  <2> QED BY <1>1, <1>2, <1>3, <2>1, <2>2 DEF Told
<1>4. CASE j = n + 1
  <2>1. g[j] = x /\ 1..(j - 1) = 1..n
    BY <1>1, <1>4
  <2> QED BY <1>1, <1>2, <1>4, <2>1 DEF Ledger!Unheard, Ledger!NewCall
<1>5. j \in 1..n \/ j = n + 1
  BY <1>1
<1> QED BY <1>3, <1>4, <1>5

LEMMA ToldStep ==
  ASSUME TypeInv, \A s \in Sessions : Told(transcript[s]), LedgerStep
  PROVE  \A s \in Sessions : Told(transcript'[s])
<1>0. transcript \in [Sessions -> Seq(Records)]
  BY DEF TypeInv, TypeOK, LogTypeOK
<1>1. CASE UNCHANGED transcript
  BY <1>1
<1>2. ASSUME NEW s \in Sessions, NEW b, Ledger!Tell(s, b)
      PROVE  \A t \in Sessions : Told(transcript'[t])
  <2>1. transcript[s] \in Seq(Records) /\ transcript'[s] = Append(transcript[s], b)
    BY <1>0, <1>2 DEF Ledger!Tell
  <2>2. Told(Append(transcript[s], b))
    BY <1>2, <2>1, ToldAppended DEF Ledger!Tell
  <2>3. \A t \in Sessions \ {s} : transcript'[t] = transcript[t]
    BY <1>0, <1>2 DEF Ledger!Tell
  <2> QED BY <2>1, <2>2, <2>3
<1>3. ASSUME NEW r \in Runs, NEW s \in Sessions, NEW q \in Requests, Ledger!Perform(r, s, q)
      PROVE  UNCHANGED transcript
  BY <1>3 DEF Ledger!Perform
<1> QED BY <1>1, <1>2, <1>3 DEF LedgerStep, Ledger!Next, Ledger!ledgerVars

\* What was finished stays so.
LEMMA FinishedKept ==
  ASSUME TypeInv, NEW r \in Runs,
         \/ UNCHANGED transcript
         \/ Live(r) /\ \E e : Wrote(r, e)
  PROVE  \A o, c : Finished(o, c) => Finished(o, c)'
<1>1. \A s \in Sessions : \A i \in DOMAIN transcript[s] :
        i \in DOMAIN transcript'[s] /\ transcript'[s][i] = transcript[s][i]
  BY RecordsOfStep
<1> QED BY <1>1 DEF Finished

LEMMA RunStepWhole ==
  ASSUME ToldInv, NEW r \in Runs, RunStep(r)
  PROVE  \A o \in Runs : Whole(o)'
<1>0. /\ KindInv /\ TypeInv /\ Live(r) /\ OthersKept(r) /\ UNCHANGED persist
      /\ calls \in [Runs -> Nat] /\ Numbered(r) /\ Whole(r)
  BY RunStepFrame, OthersOfStep
     DEF ToldInv, KindInv, StoryInv, AuditInv, TypeInv, TypeOK, CallTypeOK
<1>1. ASSUME \A o, c : Finished(o, c) => Finished(o, c)'
      PROVE  \A o \in Runs \ {r} : Whole(o)'
  <2> SUFFICES ASSUME NEW o \in Runs \ {r}, persist[o], Live(o) \/ Reported(o),
                      NEW c \in 1..calls[o], c # calls[o] \/ pc[o] \notin InCall
               PROVE  Finished(o, c)
    BY <1>0, <1>1 DEF OthersKept, Whole, Live, Reported
  <2> QED BY DEF ToldInv, Whole
<1>2. CASE Refused(r)
  BY <1>0, <1>1, <1>2, FinishedKept DEF Refused, Whole, Live, Reported, Ended
<1>3. ASSUME NEW e, NEW next, Tells(r, e, next), Accepted(r, e, next)
      PROVE  \A o \in Runs : Whole(o)'
  <2>1. \A o, c : Finished(o, c) => Finished(o, c)'
    BY <1>0, <1>3, FinishedKept DEF Accepted
  <2> SUFFICES ASSUME persist[r], NEW c \in 1..calls[r], c # calls[r] \/ next \notin InCall
               PROVE  Finished(r, c)'
    BY <1>0, <1>1, <1>3, <2>1 DEF Whole, Tells, Accepted
  <2>2. CASE c # calls[r] \/ pc[r] \notin InCall
    BY <1>0, <2>1, <2>2 DEF Whole
  <2>3. CASE c = calls[r] /\ pc[r] \in InCall
    <3>1. e.type = "tool_execution_finished" /\ e.by = r /\ e.tc = c
      BY <1>3, <2>3 DEF Tells, NextEvent, CallTypes
    <3>2. Wrote(r, e)
      BY <1>3, <3>1 DEF Accepted, StreamOnlyTypes
    <3>3. /\ sid[r] \in Sessions
          /\ Len(transcript[sid[r]]) + 1 \in DOMAIN transcript'[sid[r]]
          /\ transcript'[sid[r]][Len(transcript[sid[r]]) + 1] = e
      <4>1. sid[r] \in Sessions
        BY <1>0 DEF TypeInv, TypeOK, ScopeOK
      <4> QED BY <1>0, <3>2, <4>1, RecordsOfStep
    <3> QED BY <3>1, <3>3 DEF Finished
  <2> QED BY <2>2, <2>3
<1>4. CASE Moves(r)
  <2>1. \A o, c : Finished(o, c) => Finished(o, c)'
    BY <1>0, <1>4, FinishedKept DEF Moves
  <2>2. CASE pc'[r] # "request" /\ UNCHANGED calls
    BY <1>0, <1>1, <1>4, <2>1, <2>2 DEF Moves, Whole, Reported, Live, InCall, CallPcs, Ended
  <2>3. CASE pc[r] \in {"recover", "model"} /\ calls' = [calls EXCEPT ![r] = @ + 1]
    <3>1. /\ calls'[r] = calls[r] + 1 /\ pc[r] \notin InCall /\ calls[r] \in Nat
          /\ pc'[r] = "request"
      BY <1>0, <1>4, <2>3 DEF InCall, CallPcs, Moves
    <3>2. \A c \in 1..(calls[r] + 1) : c = calls[r] + 1 \/ c \in 1..calls[r]
      BY <3>1
    <3> QED BY <1>0, <1>1, <2>1, <3>1, <3>2 DEF Whole, InCall, CallPcs
  <2> QED BY <1>4, <2>2, <2>3 DEF Moves
<1>5. CASE Places(r)
  <2>1. calls'[r] = 0
    BY <1>0, <1>5 DEF Places, Unplaced, Before, Numbered
  <2>2. \A o, c : Finished(o, c) => Finished(o, c)'
    BY <1>0, <1>5, FinishedKept DEF Places
  <2> QED BY <1>1, <2>1, <2>2 DEF Whole
<1> QED BY <1>0, <1>2, <1>3, <1>4, <1>5, StepKinds, AcceptedOrRefused

LEMMA ToldNext == ToldInv /\ [Next]_vars => ToldInv'
<1> SUFFICES ASSUME ToldInv, [Next]_vars PROVE ToldInv'
  OBVIOUS
<1>1. KindInv' /\ TypeInv /\ StoryInv
  BY KindNext DEF ToldInv, KindInv, StoryInv, AuditInv
<1>2. \A s \in Sessions : Told(transcript'[s])
  BY <1>1, NextTold, ToldStep DEF ToldInv
<1>3. ASSUME UNCHANGED vars PROVE \A o \in Runs : Whole(o)'
  BY <1>3 DEF ToldInv, Whole, Finished, Live, Reported, vars, logVars, ctlVars, confVars, callVars
<1>4. ASSUME NEW r \in Runs, Bounds(r) PROVE \A o \in Runs : Whole(o)'
  <2>1. \A o, c : Finished(o, c) => Finished(o, c)'
    BY <1>1, <1>4, FinishedKept DEF Bounds
  <2>2. \A o \in Runs \ {r} : Whole(o)'
    <3> SUFFICES ASSUME NEW o \in Runs \ {r}, persist[o], Live(o) \/ Reported(o),
                        NEW c \in 1..calls[o], c # calls[o] \/ pc[o] \notin InCall
                 PROVE  Finished(o, c)
      BY <1>4, <2>1 DEF Bounds, OthersKept, Whole, Live, Reported
    <3> QED BY DEF ToldInv, Whole
  <2>3. Whole(r)'
    <3>1. pc[r] = "idle" => calls'[r] = 0
      BY <1>4 DEF ToldInv, KindInv, Numbered, Bounds, Before
    <3> QED BY <1>4, <3>1 DEF Bounds, Whole, Live, Reported, Ended
  <2> QED BY <2>2, <2>3
<1>5. \A o \in Runs : Whole(o)'
  <2>1. CASE AllDone \/ UNCHANGED vars
    BY <1>3, <2>1 DEF AllDone
  <2>2. ASSUME NEW r \in Runs, Start(r) \/ IoFails(r) \/ Kill(r) PROVE \A o \in Runs : Whole(o)'
    BY <1>1, <1>4, <2>2, BoundsOfStep
  <2>3. ASSUME NEW r \in Runs, RunStep(r) PROVE \A o \in Runs : Whole(o)'
    BY <2>3, RunStepWhole
  <2> QED BY <2>1, <2>2, <2>3 DEF Next
<1> QED BY <1>1, <1>2, <1>5 DEF ToldInv

LEMMA ToldInit == Init => ToldInv
<1> SUFFICES ASSUME Init PROVE ToldInv
  OBVIOUS
<1>1. (\A s \in Sessions : Told(transcript[s])) /\ \A r \in Runs : Whole(r)
  BY DEF Init, Told, Whole
<1> QED BY <1>1, KindInit DEF ToldInv

LEMMA ToldLifecycle == ToldInv => ToolLifecycle
<1> SUFFICES ASSUME ToldInv, NEW s \in Sessions
             PROVE  LET log == transcript[s]
                    IN  /\ \A j \in DOMAIN log : log[j].tc # 0 =>
                             IF log[j].type = "tool_call_requested"
                               THEN \A i \in 1..(j - 1) :
                                      log[i].by = log[j].by => log[i].tc < log[j].tc
                               ELSE \E i \in 1..(j - 1) :
                                      FollowedBy(log, i, j) /\ CallFollows(log[i], log[j])
                        /\ \A j \in DOMAIN log : \A i \in 1..(j - 1) :
                             (/\ log[i].tc # 0 /\ log[i].type # "tool_execution_finished"
                              /\ FollowedBy(log, i, j)) => CallFollows(log[i], log[j])
                        /\ \A r \in Runs : (Reported(r) /\ sid[r] = s) =>
                             \A c \in 1..calls[r] : \E i \in DOMAIN log :
                               /\ log[i].by = r /\ log[i].tc = c
                               /\ log[i].type = "tool_execution_finished"
  BY DEF ToolLifecycle
<1> DEFINE log == transcript[s]
<1>1. /\ Told(log) /\ log \in Seq(Records) /\ Len(log) \in Nat /\ DOMAIN log = 1..Len(log)
      /\ \A i \in DOMAIN log : log[i].tc # 0 <=> log[i].type \in CallTypes
  <2>1. log \in Seq(Records)
    BY DEF ToldInv, KindInv, StoryInv, AuditInv, TypeInv, TypeOK, LogTypeOK
  <2> QED BY <2>1 DEF ToldInv, KindInv, RecordKinds
<1>2. ASSUME NEW a, NEW b, Ledger!MayFollow(a, b),
             \/ b.type \in CallTypes \ {"tool_call_requested"}
             \/ a.type \in CallTypes \ {"tool_execution_finished"}
      PROVE  CallFollows(a, b)
  BY <1>2 DEF Ledger!MayFollow, Ledger!Open, Ledger!SameCall, Ledger!Openings, CallTypes, CallFollows
<1> HIDE DEF log
<1>3. ASSUME NEW j \in DOMAIN log, log[j].tc # 0, log[j].type # "tool_call_requested"
      PROVE  \E i \in 1..(j - 1) : FollowedBy(log, i, j) /\ CallFollows(log[i], log[j])
  <2>1. log[j].type \in CallTypes \ {"tool_call_requested"} /\ log[j].type \notin Ledger!Openings
    BY <1>1, <1>3 DEF CallTypes, Ledger!Openings
  <2>2. PICK i \in 1..(j - 1) : FollowedBy(log, i, j) /\ Ledger!MayFollow(log[i], log[j])
    BY <1>1, <2>1 DEF Told
  <2> QED BY <1>2, <2>1, <2>2
<1>4. ASSUME NEW j \in DOMAIN log, NEW i \in 1..(j - 1), log[i].tc # 0,
             log[i].type # "tool_execution_finished", FollowedBy(log, i, j)
      PROVE  CallFollows(log[i], log[j])
  <2>1. i \in DOMAIN log /\ log[i].type \in CallTypes \ {"tool_execution_finished"}
    BY <1>1, <1>4
  <2>2. PICK k \in 1..(j - 1) : FollowedBy(log, k, j) /\ Ledger!MayFollow(log[k], log[j])
    BY <1>1, <1>4 DEF Told, FollowedBy
  <2>3. k = i
    <3>1. ~(k < i) /\ ~(i < k)
      BY <1>1, <1>4, <2>2 DEF FollowedBy
    <3> QED BY <1>1, <3>1
  <2> QED BY <1>2, <2>1, <2>2, <2>3
<1>5. ASSUME NEW r \in Runs, Reported(r), sid[r] = s, NEW c \in 1..calls[r]
      PROVE  \E i \in DOMAIN log :
               log[i].by = r /\ log[i].tc = c /\ log[i].type = "tool_execution_finished"
  <2>1. Finished(r, c)
    BY <1>5 DEF ToldInv, Whole, Reported, InCall, CallPcs
  <2> QED BY <1>5, <2>1 DEF Finished, ToldInv, KindInv, RecordKinds, log
<1>6. \A j \in DOMAIN log : log[j].type = "tool_call_requested" =>
        \A i \in 1..(j - 1) : log[i].by = log[j].by => log[i].tc < log[j].tc
  BY <1>1 DEF Told
<1> QED BY <1>3, <1>4, <1>5, <1>6 DEF log

\* Whoever else writes to the session, the records of a call follow one another
\* among those of their run along one legal life, and a run that ended by itself
\* told every call to its end (ToolExecutor.execute).
THEOREM CallsToldWhole == Spec => []ToolLifecycle
BY ToldInit, ToldNext, ToldLifecycle, PTL DEF Spec
-----------------------------------------------------------------------------
(* The exit code says what the transcript says. *)

\* What a run in its turn has not written yet.
Silence(r) ==
  (persist[r] /\ pc[r] \in Telling) =>
    \A s \in Sessions : \A i \in DOMAIN transcript[s] :
      LET x == transcript[s][i]
      IN  x.by = r => /\ x.type \notin TerminalTypes
                      /\ x.type = "assistant_message" => message[r]
                      /\ x.tc # 0 => toolUsed[r]

\* A run with its last event out has told its exit code.
Over(r) ==
  (persist[r] /\ (pc[r] = "index" \/ Reported(r))) =>
    sid[r] \in Sessions /\ EndsAs(transcript[sid[r]], r, code[r])

ExitInv == KindInv /\ \A r \in Runs : Silence(r) /\ Over(r)

LEMMA EndsAsKept ==
  ASSUME NEW f \in Seq(Records), NEW x, NEW r, x.by # r, NEW c, EndsAs(f, r, c)
  PROVE  EndsAs(Append(f, x), r, c)
<1> DEFINE n == Len(f)
           g == Append(f, x)
           own == {i \in DOMAIN f : f[i].by = r}
<1>1. /\ n \in Nat /\ DOMAIN f = 1..n /\ DOMAIN g = 1..(n + 1) /\ g[n + 1] = x
      /\ \A i \in 1..n : g[i] = f[i]
  BY AppendKeeps
<1>2. \A i, j \in 1..n : FollowedBy(g, i, j) <=> FollowedBy(f, i, j)
  BY FollowedAppend
<1>3. /\ {i \in DOMAIN g : g[i].by = r} = own /\ own \subseteq 1..n
      /\ \A i \in own : g[i] = f[i]
  BY <1>1
<1> DEFINE silent(log) == \A i \in own : log[i].type # "assistant_message" /\ log[i].tc = 0
           after(log, m, info) == \E i \in own : /\ FollowedBy(log, i, m) /\ log[i].info = info
                                                /\ log[i].type = "tool_execution_finished"
<1> HIDE DEF n, g
<1>4. PICK m \in own :
         /\ \A i \in own : i <= m /\ (f[i].type \in TerminalTypes <=> i = m)
         /\ f[m].type = "session_completed" <=> c = SUCCESS
         /\ c = SUCCESS => ~silent(f) /\ ~after(f, m, "error") /\ ~after(f, m, "denied")
         /\ c = TOOL_RUNTIME_FAILURE => after(f, m, "error")
         /\ c \in {PERMISSION_DENIED, PERMISSION_UNAVAILABLE} => after(f, m, "denied")
         /\ c = MODEL_FAILURE => silent(f)
  BY DEF EndsAs
<1>5. /\ silent(g) <=> silent(f)
      /\ \A info : after(g, m, info) <=> after(f, m, info)
      /\ \A i \in own : i <= m /\ (g[i].type \in TerminalTypes <=> i = m)
      /\ g[m].type = f[m].type
  BY <1>2, <1>3, <1>4
<1> HIDE DEF silent, after, own
<1>6.    /\ \A i \in own : i <= m /\ (g[i].type \in TerminalTypes <=> i = m)
         /\ g[m].type = "session_completed" <=> c = SUCCESS
         /\ c = SUCCESS => ~silent(g) /\ ~after(g, m, "error") /\ ~after(g, m, "denied")
         /\ c = TOOL_RUNTIME_FAILURE => after(g, m, "error")
         /\ c \in {PERMISSION_DENIED, PERMISSION_UNAVAILABLE} => after(g, m, "denied")
         /\ c = MODEL_FAILURE => silent(g)
  BY <1>4, <1>5
<1>7. /\ silent(g) <=> \A i \in own : g[i].type # "assistant_message" /\ g[i].tc = 0
      /\ \A info : after(g, m, info) <=>
           \E i \in own : /\ FollowedBy(g, i, m) /\ g[i].info = info
                          /\ g[i].type = "tool_execution_finished"
  <2>1. silent(g) <=> \A i \in own : g[i].type # "assistant_message" /\ g[i].tc = 0
    BY Zenon DEF silent
  <2>2. \A info : after(g, m, info) <=>
           \E i \in own : /\ FollowedBy(g, i, m) /\ g[i].info = info
                          /\ g[i].type = "tool_execution_finished"
    BY Zenon DEF after
  <2> QED BY <2>1, <2>2
<1>8. own = {i \in DOMAIN g : g[i].by = r} /\ m \in own
  BY <1>3
<1> QED BY <1>6, <1>7, <1>8 DEF EndsAs, g

LEMMA EndsAsAppended ==
  ASSUME NEW f \in Seq(Records), NEW r, NEW c, NEW x, x.by = r, x.tc = 0,
         x.type \in TerminalTypes, x.type = "session_completed" <=> c = SUCCESS,
         \A i \in DOMAIN f : f[i].by = r => f[i].type \notin TerminalTypes,
         NEW y, LastOf(f, r, y),
         c = SUCCESS => /\ y.type = "assistant_message" \/ y.tc # 0
                        /\ ~(y.type = "tool_execution_finished" /\ y.info \in {"error", "denied"}),
         c = TOOL_RUNTIME_FAILURE => y.type = "tool_execution_finished" /\ y.info = "error",
         c \in {PERMISSION_DENIED, PERMISSION_UNAVAILABLE} =>
           y.type = "tool_execution_finished" /\ y.info = "denied",
         c = MODEL_FAILURE => \A i \in DOMAIN f :
           f[i].by = r => f[i].type # "assistant_message" /\ f[i].tc = 0
  PROVE  EndsAs(Append(f, x), r, c)
<1> DEFINE n == Len(f)
           g == Append(f, x)
           own == {i \in DOMAIN g : g[i].by = r}
           silent == \A i \in own : g[i].type # "assistant_message" /\ g[i].tc = 0
           after(info) == \E i \in own : /\ FollowedBy(g, i, n + 1) /\ g[i].info = info
                                         /\ g[i].type = "tool_execution_finished"
<1>1. /\ n \in Nat /\ DOMAIN f = 1..n /\ DOMAIN g = 1..(n + 1) /\ g[n + 1] = x
      /\ \A i \in 1..n : g[i] = f[i]
  BY AppendKeeps
<1>2. \A i \in 1..n : FollowedBy(g, i, n + 1) <=> f[i].by = r /\ Ledger!IsLatest(f, i)
  BY FollowedAppend
<1>3. PICK k \in 1..n : f[k] = y /\ y.by = r /\ \A j \in 1..n : f[j].by = r => j <= k
  BY <1>1 DEF LastOf
<1> HIDE DEF n, g
<1>4. /\ k \in own /\ n + 1 \in own /\ g[k] = y
      /\ \A i \in own : i = n + 1 \/ (i \in 1..n /\ f[i].by = r /\ g[i] = f[i] /\ i # n + 1)
      /\ \A i \in own : i <= n + 1
  BY <1>1, <1>3
<1>5. FollowedBy(g, k, n + 1)
  BY <1>1, <1>2, <1>3 DEF Ledger!IsLatest
<1>6. ASSUME NEW i \in own, FollowedBy(g, i, n + 1) PROVE i = k
  <2>1. i \in 1..n
    BY <1>1, <1>4, <1>6 DEF FollowedBy
  <2>2. f[i].by = r /\ Ledger!IsLatest(f, i)
    BY <1>2, <1>6, <2>1
  <2>3. i <= k /\ k <= i
    BY <1>1, <1>3, <2>1, <2>2 DEF Ledger!IsLatest
  <2> QED BY <1>1, <2>1, <2>3
<1>7. \A i \in own : i <= n + 1 /\ (g[i].type \in TerminalTypes <=> i = n + 1)
  BY <1>1, <1>4
<1>8. c = SUCCESS => ~silent /\ ~after("error") /\ ~after("denied")
  BY <1>4, <1>6
<1>9. /\ c = TOOL_RUNTIME_FAILURE => after("error")
      /\ c \in {PERMISSION_DENIED, PERMISSION_UNAVAILABLE} => after("denied")
  BY <1>4, <1>5
<1>10. c = MODEL_FAILURE => silent
  BY <1>1, <1>4 DEF TerminalTypes
<1>11. /\ g[n + 1].type = "session_completed" <=> c = SUCCESS
       /\ n + 1 \in own
  BY <1>1, <1>4
<1> HIDE DEF silent, after, own
<1>12. /\ silent <=> \A i \in own : g[i].type # "assistant_message" /\ g[i].tc = 0
       /\ \A info : after(info) <=>
            \E i \in own : /\ FollowedBy(g, i, n + 1) /\ g[i].info = info
                           /\ g[i].type = "tool_execution_finished"
       /\ own = {i \in DOMAIN g : g[i].by = r}
  BY DEF silent, after, own
<1> QED BY <1>7, <1>8, <1>9, <1>10, <1>11, <1>12 DEF EndsAs, g
\* The steps about the end of a run.
LEMMA IndexStep ==
  ASSUME TypeInv, NEW r \in Runs, RunStep(r), pc[r] = "index"
  PROVE  UpdateIndex(r)
BY DEF RunStep, ChooseRunId, Load, LoadSeq, LoadParent, Bind, EmitOpening, EmitUser, Retry,
       NothingToRetry, ToolStep, ExecutorStep, Request, DecideCall, Answer, EmitDecided, Launch,
       Execute, ToolRaises, EmitResult, EmitFinished, TurnStep, Provider, DeltaChunk,
       MessageChunk, EmitMessage, ToolChunk, BadChunk, TakeChunk, ToolSucceeded, ToolFailed,
       NoMessage, Complete

LEMMA EndingStep ==
  ASSUME TypeInv, NEW r \in Runs, RunStep(r), pc'[r] = "index"
  PROVE  ToolFailed(r) \/ NoMessage(r) \/ Complete(r)
<1>0. pc \in [Runs -> Pcs]
  BY DEF TypeInv, TypeOK, LogTypeOK
<1>1. CASE ToolStep(r)
  BY <1>0, <1>1
     DEF ToolStep, ExecutorStep, Request, DecideCall, Answer, EmitDecided, Launch, Execute,
         ToolRaises, EmitResult, EmitFinished, Emit, Goto, Raise
<1>2. CASE TurnStep(r)
  BY <1>0, <1>2
     DEF TurnStep, Provider, DeltaChunk, MessageChunk, EmitMessage, ToolChunk, BadChunk,
         ToolSucceeded, UpdateIndex, Emit, Goto, Raise
<1>3. CASE \/ ChooseRunId(r) \/ Load(r) \/ Bind(r) \/ EmitOpening(r) \/ EmitUser(r)
           \/ Retry(r) \/ NothingToRetry(r)
  BY <1>0, <1>3
     DEF ChooseRunId, Load, LoadSeq, LoadParent, Bind, EmitOpening, EmitUser, Retry,
         NothingToRetry, Emit, Goto
<1> QED BY <1>1, <1>2, <1>3 DEF RunStep

LEMMA EndingOver ==
  ASSUME ExitInv, NEW r \in Runs, ToolFailed(r) \/ NoMessage(r) \/ Complete(r),
         pc'[r] = "index", persist[r]
  PROVE  sid'[r] \in Sessions /\ EndsAs(transcript'[sid'[r]], r, code'[r])
<1> DEFINE f == transcript[sid[r]]
<1>1. PICK type, c : type \in TerminalTypes /\ Finish(r, type, c) /\
        \/ /\ pc[r] = "outcome" /\ status[r] # "success"
           /\ type = "session_failed" /\ c = FailureCode(r)
        \/ /\ pc[r] = "model" /\ ~message[r] /\ ~toolUsed[r]
           /\ type = "session_failed" /\ c = MODEL_FAILURE
        \/ /\ pc[r] = "model" /\ (message[r] \/ toolUsed[r])
           /\ type = "session_completed" /\ c = SUCCESS
  BY DEF ToolFailed, NoMessage, Complete, TerminalTypes
<1> DEFINE e == Plain(r, type)
<1>2. /\ StoryInv /\ TypeInv /\ Live(r) /\ pc[r] \in Telling /\ sid[r] \in Sessions
      /\ transcript \in [Sessions -> Seq(Records)] /\ f \in Seq(Records) /\ pc \in [Runs -> Pcs]
      /\ code \in [Runs -> 0..NoCode] /\ status[r] \in {"denied", "success", "error"}
  <2>1. StoryInv /\ TypeInv /\ Live(r) /\ pc[r] \in Telling
    BY <1>1 DEF ExitInv, KindInv, StoryInv, AuditInv, Live, Ended, Telling, Talking, CallPcs
  <2>2. sid[r] \in Sessions /\ transcript \in [Sessions -> Seq(Records)]
    BY <2>1 DEF TypeInv, TypeOK, LogTypeOK, ScopeOK
  <2> QED BY <2>1, <2>2 DEF TypeInv, TypeOK, LogTypeOK, CallTypeOK, TurnTypeOK
<1>3. e.by = r /\ e.tc = 0 /\ e.type = type
  BY DEF Plain, Event
<1>4. UNCHANGED sid /\ code'[r] = c /\ Emit(r, e, "index")
  BY <1>1, <1>2 DEF Finish, idVars
<1> HIDE DEF e, f
<1>5. Legal(r, e)
  BY <1>2, <1>4 DEF Emit
<1>6. transcript'[sid'[r]] = Append(f, e)
  BY <1>1, <1>2, <1>3, <1>4, <1>5 DEF Emit, Written, AppendRecord, TerminalTypes, StreamOnlyTypes, f
<1>7. PICK y : /\ LastOf(f, r, y)
               /\ Stands(pc[r], y, message[r], toolUsed[r], calls[r], cur[r], status[r])
  BY <1>2, Latest DEF f
<1>8. \A i \in DOMAIN f : f[i].by = r => /\ f[i].type \notin TerminalTypes
                                         /\ f[i].type = "assistant_message" => message[r]
                                         /\ f[i].tc # 0 => toolUsed[r]
                                         /\ f[i].type \in CallTypes => f[i].tc # 0
  BY <1>2 DEF ExitInv, Silence, KindInv, RecordKinds, f
<1> USE DEF PERMISSION_DENIED, PERMISSION_UNAVAILABLE, TOOL_RUNTIME_FAILURE, MODEL_FAILURE, SUCCESS
<1>9. type = "session_completed" <=> c = SUCCESS
  BY <1>1 DEF FailureCode
<1>10. c = SUCCESS => /\ y.type = "assistant_message" \/ y.tc # 0
                      /\ ~(y.type = "tool_execution_finished" /\ y.info \in {"error", "denied"})
  <2> SUFFICES ASSUME c = SUCCESS
               PROVE  /\ y.type = "assistant_message" \/ y.tc # 0
                      /\ ~(y.type = "tool_execution_finished" /\ y.info \in {"error", "denied"})
    OBVIOUS
  <2>1. pc[r] = "model" /\ (message[r] \/ toolUsed[r])
    BY <1>1 DEF FailureCode
  <2>2. Speakable(y) /\ y.type # "user_message"
    BY <1>7, <2>1 DEF Stands, Talking
  <2>3. y.type \in CallTypes => y.tc # 0
    BY <1>7, <1>8 DEF LastOf
  <2> QED BY <2>2, <2>3 DEF Speakable, CallTypes
<1>11. /\ c = TOOL_RUNTIME_FAILURE => y.type = "tool_execution_finished" /\ y.info = "error"
       /\ c \in {PERMISSION_DENIED, PERMISSION_UNAVAILABLE} =>
            y.type = "tool_execution_finished" /\ y.info = "denied"
  <2> SUFFICES ASSUME c \in {TOOL_RUNTIME_FAILURE, PERMISSION_DENIED, PERMISSION_UNAVAILABLE}
               PROVE  /\ y.type = "tool_execution_finished"
                      /\ y.info = IF c = TOOL_RUNTIME_FAILURE THEN "error" ELSE "denied"
    OBVIOUS
  <2>1. pc[r] = "outcome" /\ status[r] # "success" /\ c = FailureCode(r)
    BY <1>1
  <2>2. y.type = "tool_execution_finished" /\ y.info = status[r]
    BY <1>7, <2>1 DEF Stands
  <2> QED BY <1>2, <2>1, <2>2 DEF FailureCode
<1>12. c = MODEL_FAILURE => \A i \in DOMAIN f :
         f[i].by = r => f[i].type # "assistant_message" /\ f[i].tc = 0
  BY <1>1, <1>8 DEF FailureCode
<1> HIDE DEF PERMISSION_DENIED, PERMISSION_UNAVAILABLE, TOOL_RUNTIME_FAILURE, MODEL_FAILURE, SUCCESS
<1>13. EndsAs(Append(f, e), r, c)
  BY <1>1, <1>2, <1>3, <1>7, <1>8, <1>9, <1>10, <1>11, <1>12, EndsAsAppended
<1> QED BY <1>2, <1>4, <1>6, <1>13

\* What a record of another run leaves alone.
LEMMA OverKept ==
  ASSUME ExitInv, NEW r \in Runs, OthersKept(r), NEW o \in Runs \ {r},
         UNCHANGED transcript \/ (Live(r) /\ \E e : e.by = r /\ Wrote(r, e))
  PROVE  Over(o)'
<1> SUFFICES ASSUME persist[o], pc[o] = "index" \/ Reported(o)
             PROVE  sid[o] \in Sessions /\ EndsAs(transcript'[sid[o]], o, code[o])
  BY DEF OthersKept, Over, Reported
<1>1. sid[o] \in Sessions /\ EndsAs(transcript[sid[o]], o, code[o])
  BY DEF ExitInv, Over
<1>2. transcript[sid[o]] \in Seq(Records)
  BY <1>1 DEF ExitInv, KindInv, StoryInv, AuditInv, TypeInv, TypeOK, LogTypeOK
<1>3. ASSUME NEW e, e.by = r, Wrote(r, e) PROVE EndsAs(transcript'[sid[o]], o, code[o])
  <2>1. CASE sid[o] = sid[r]
    <3>1. transcript'[sid[o]] = Append(transcript[sid[o]], e) /\ e.by # o
      BY <1>3, <2>1 DEF Wrote
    <3> QED BY <1>1, <1>2, <3>1, EndsAsKept
  <2>2. CASE sid[o] # sid[r]
    BY <1>1, <1>3, <2>2 DEF Wrote
  <2> QED BY <2>1, <2>2
<1> QED BY <1>1, <1>3

LEMMA RunStepOver ==
  ASSUME ExitInv, NEW r \in Runs, RunStep(r)
  PROVE  \A o \in Runs : Over(o)'
<1>0. TypeInv /\ Live(r) /\ OthersKept(r) /\ UNCHANGED <<sid, persist>> /\ pc \in [Runs -> Pcs]
  BY RunStepFrame, OthersOfStep DEF ExitInv, KindInv, StoryInv, AuditInv, TypeInv, TypeOK, LogTypeOK
<1>1. UNCHANGED transcript \/ \E e : e.by = r /\ Wrote(r, e)
  BY <1>0, StepKinds, AcceptedOrRefused DEF Moves, Places, Refused, Accepted, Tells, NextEvent
<1>2. ASSUME pc'[r] = "index" PROVE Over(r)'
  BY <1>0, <1>2, EndingStep, EndingOver DEF Over
<1>3. ASSUME pc'[r] # "index", Reported(r)' PROVE Over(r)'
  <2>1. pc[r] = "index"
    BY <1>0, <1>3, StepKinds, AcceptedOrRefused
       DEF Moves, Places, Refused, Accepted, Tells, Reported, Before
  <2>2. UNCHANGED <<transcript, code>>
    BY <1>0, <2>1, IndexStep DEF UpdateIndex, Goto, logVars
  <2> QED BY <1>0, <2>1, <2>2 DEF ExitInv, Over
<1>4. ASSUME pc'[r] # "index", ~Reported(r)' PROVE Over(r)'
  BY <1>4 DEF Over
<1> QED BY <1>0, <1>1, <1>2, <1>3, <1>4, OverKept

LEMMA RunStepSilent ==
  ASSUME ExitInv, NEW r \in Runs, RunStep(r)
  PROVE  \A o \in Runs : Silence(o)'
<1>0. /\ TypeInv /\ Live(r) /\ OthersKept(r) /\ UNCHANGED <<sid, persist>> /\ KindInv /\ StoryInv
      /\ pc[r] \in Pcs /\ pc'[r] \in Pcs /\ toolUsed[r] \in BOOLEAN /\ toolUsed'[r] \in BOOLEAN
  <2>1. TypeInv /\ TypeInv'
    BY NextTypes DEF ExitInv, KindInv, StoryInv, AuditInv, Next
  <2> QED BY <2>1, RunStepFrame, OthersOfStep
          DEF ExitInv, KindInv, StoryInv, AuditInv, TypeInv, TypeOK, LogTypeOK, TurnTypeOK
<1>1. UNCHANGED transcript \/ \E e : e.by = r /\ Wrote(r, e)
  BY <1>0, StepKinds, AcceptedOrRefused DEF Moves, Places, Refused, Accepted, Tells, NextEvent
<1>2. ASSUME NEW s \in Sessions, NEW i \in DOMAIN transcript'[s]
      PROVE  \/ i \in DOMAIN transcript[s] /\ transcript'[s][i] = transcript[s][i]
             \/ transcript'[s][i].by = r
  BY <1>0, <1>1, RecordsOfStep
<1>3. ASSUME NEW o \in Runs \ {r} PROVE Silence(o)'
  <2>1. pc'[o] = pc[o] /\ message'[o] = message[o] /\ toolUsed'[o] = toolUsed[o]
    BY <1>0 DEF OthersKept
  <2>2. Silence(o)
    BY DEF ExitInv
  <2> QED BY <1>0, <1>2, <2>1, <2>2 DEF Silence
<1>4. Silence(r)'
  <2> SUFFICES ASSUME persist[r], pc'[r] \in Telling, NEW s \in Sessions,
                      NEW i \in DOMAIN transcript'[s], transcript'[s][i].by = r
               PROVE  LET x == transcript'[s][i]
                      IN  /\ x.type \notin TerminalTypes
                          /\ x.type = "assistant_message" => message'[r]
                          /\ x.tc # 0 => toolUsed'[r]
    BY <1>0 DEF Silence
  <2>1. (message[r] => message'[r]) /\ (toolUsed[r] => toolUsed'[r])
    BY <1>0, StepKinds DEF Tells, Moves, Places
  <2>2. CASE i \in DOMAIN transcript[s] /\ transcript'[s][i] = transcript[s][i]
    <3>1. pc[r] \in Telling
      <4>1. pc[r] \notin Before
        BY <1>0, <2>2, Unwritten
      <4>2. pc[r] # "index"
        BY <1>0, IndexStep DEF UpdateIndex, Goto, TypeInv, TypeOK, LogTypeOK, Telling, Talking, CallPcs
      <4> QED BY <1>0, <4>1, <4>2 DEF Pcs, Before, Live, Telling, Talking
    <3> QED BY <1>0, <2>1, <2>2, <3>1 DEF ExitInv, Silence
  <2>3. ASSUME NEW e, NEW next, Tells(r, e, next), Accepted(r, e, next), transcript'[s][i] = e
        PROVE  LET x == transcript'[s][i]
               IN  /\ x.type \notin TerminalTypes
                   /\ x.type = "assistant_message" => message'[r]
                   /\ x.tc # 0 => toolUsed'[r]
    <3>1. next # "index"
      BY <2>3 DEF Accepted, Telling, Talking, CallPcs
    <3>2. e.tc # 0 => pc[r] \in CallPcs
      BY <2>3 DEF Tells, NextEvent, InCall
    <3>3. e.tc # 0 => toolUsed[r]
      BY <1>0, <3>2, Latest DEF Stands, Telling
    <3> QED BY <2>1, <2>3, <3>1, <3>3 DEF Tells
  <2>4. \/ i \in DOMAIN transcript[s] /\ transcript'[s][i] = transcript[s][i]
        \/ \E e, next : Tells(r, e, next) /\ Accepted(r, e, next) /\ transcript'[s][i] = e
    <3>1. UNCHANGED transcript
          \/ \E e, next : Tells(r, e, next) /\ Accepted(r, e, next) /\ Wrote(r, e)
      BY <1>0, StepKinds, AcceptedOrRefused DEF Moves, Places, Refused, Accepted
    <3> QED BY <1>0, <3>1, RecordsOfStep
  <2> QED BY <2>2, <2>3, <2>4
<1> QED BY <1>3, <1>4

LEMMA ExitNext == ExitInv /\ [Next]_vars => ExitInv'
<1> SUFFICES ASSUME ExitInv, [Next]_vars PROVE ExitInv'
  OBVIOUS
<1>1. KindInv' /\ TypeInv
  BY KindNext DEF ExitInv, KindInv, StoryInv, AuditInv
<1>2. ASSUME UNCHANGED vars PROVE \A o \in Runs : Silence(o)' /\ Over(o)'
  BY <1>2 DEF ExitInv, Silence, Over, Reported, vars, logVars, ctlVars, confVars, idVars,
              turnVars, endVars
<1>3. ASSUME NEW r \in Runs, Bounds(r) PROVE \A o \in Runs : Silence(o)' /\ Over(o)'
  <2>1. \A o \in Runs \ {r} : Over(o)' /\ Silence(o)'
    <3>1. \A o \in Runs \ {r} : Silence(o)'
      BY <1>3 DEF ExitInv, Bounds, OthersKept, Silence
    <3> QED BY <1>3, <3>1, OverKept DEF Bounds
  <2>2. pc'[r] \notin Telling \cup {"index"} /\ ~Reported(r)'
    BY <1>3 DEF Bounds, Reported, Telling, Talking, CallPcs
  <2>3. Silence(r)' /\ Over(r)'
    BY <2>2 DEF Silence, Over
  <2> QED BY <2>1, <2>3
<1>4. \A o \in Runs : Silence(o)' /\ Over(o)'
  <2>1. CASE AllDone \/ UNCHANGED vars
    BY <1>2, <2>1 DEF AllDone
  <2>2. ASSUME NEW r \in Runs, Start(r) \/ IoFails(r) \/ Kill(r)
        PROVE  \A o \in Runs : Silence(o)' /\ Over(o)'
    BY <1>1, <1>3, <2>2, BoundsOfStep
  <2>3. ASSUME NEW r \in Runs, RunStep(r) PROVE \A o \in Runs : Silence(o)' /\ Over(o)'
    BY <2>3, RunStepSilent, RunStepOver
  <2> QED BY <2>1, <2>2, <2>3 DEF Next
<1> QED BY <1>1, <1>4 DEF ExitInv

LEMMA ExitInit == Init => ExitInv
<1> SUFFICES ASSUME Init PROVE ExitInv
  OBVIOUS
<1>1. \A r \in Runs : Silence(r) /\ Over(r)
  BY DEF Init, Silence, Over, Reported, Telling, Talking, CallPcs
<1> QED BY <1>1, KindInit DEF ExitInv

\* A run that reports an exit code of its own has told it: its records end with
\* the only terminal one, after what the code stands for, whatever other runs
\* write to the file (run, _finish).
THEOREM ExitsTruthful == Spec => []ExitMatchesTranscript
<1>1. ExitInv => ExitMatchesTranscript
  BY DEF ExitInv, Over, Reported, ExitMatchesTranscript
<1> QED BY <1>1, ExitInit, ExitNext, PTL DEF Spec
-----------------------------------------------------------------------------
(* What a resumed run retries. *)

\* Another run than r announced request q in session s.
Foreign(r, s, q) ==
  \E i \in DOMAIN transcript[s] :
    LET x == transcript[s][i]
    IN  x.by # r /\ x.type = "tool_call_requested" /\ x.req = q

\* A retry in progress is the first call of its run.
Retrying(r) ==
  (retrying[r] /\ pc[r] \in CallPcs) =>
    calls[r] = 1 /\ ToolOf[cur[r]] \in SafeReadTools /\ Foreign(r, sid[r], cur[r])

RetriedOnce ==
  /\ \A e \in effects : e.retry =>
       e.tc = 1 /\ ToolOf[e.req] \in SafeReadTools /\ Foreign(e.by, e.sid, e.req)
  /\ \A e, f \in effects : e.by = f.by /\ e.tc = f.tc => e = f

RetryInv == KindInv /\ RetriedOnce /\ \A r \in Runs : Retrying(r)

LEMMA RequestStep ==
  ASSUME TypeInv, NEW r \in Runs, RunStep(r), pc'[r] = "request"
  PROVE  Retry(r) \/ ToolChunk(r)
<1>0. pc \in [Runs -> Pcs]
  BY DEF TypeInv, TypeOK, LogTypeOK
<1>1. CASE ToolStep(r)
  BY <1>0, <1>1
     DEF ToolStep, ExecutorStep, Request, DecideCall, Answer, EmitDecided, Launch, Execute,
         ToolRaises, EmitResult, EmitFinished, Emit, Goto, Raise
<1>2. CASE TurnStep(r)
  BY <1>0, <1>2
     DEF TurnStep, Provider, DeltaChunk, MessageChunk, EmitMessage, BadChunk, ToolSucceeded,
         ToolFailed, NoMessage, Complete, Finish, UpdateIndex, Emit, Goto, Raise
<1>3. CASE \/ ChooseRunId(r) \/ Load(r) \/ Bind(r) \/ EmitOpening(r) \/ EmitUser(r)
           \/ Retry(r) \/ NothingToRetry(r)
  BY <1>0, <1>3
     DEF ChooseRunId, Load, LoadSeq, LoadParent, Bind, EmitOpening, EmitUser,
         NothingToRetry, Emit, Goto
<1> QED BY <1>1, <1>2, <1>3 DEF RunStep

\* The call a resumed run begins on its own account.
LEMMA RetryBegins ==
  ASSUME RetryInv, NEW r \in Runs, Retry(r)
  PROVE  Retrying(r)'
<1>1. /\ StoryInv /\ KindInv /\ sid[r] \in Sessions /\ transcript \in [Sessions -> Seq(Records)]
      /\ calls \in [Runs -> Nat] /\ cur \in [Runs -> Requests \cup {NoRequest}]
      /\ retrying \in [Runs -> BOOLEAN] /\ pc[r] = "recover" /\ calls[r] = 0
      /\ UNCHANGED <<transcript, sid>>
  <2>1. pc[r] = "recover" /\ UNCHANGED <<transcript, sid>>
    BY DEF Retry, Goto, logVars, idVars
  <2>2. StoryInv /\ KindInv /\ TypeInv /\ calls[r] = 0
    BY <2>1 DEF RetryInv, KindInv, Numbered, StoryInv, AuditInv
  <2>3. sid[r] \in Sessions
    BY <2>1, <2>2 DEF TypeInv, TypeOK, ScopeOK, Live, Ended
  <2> QED BY <2>1, <2>2, <2>3 DEF TypeInv, TypeOK, LogTypeOK, CallTypeOK
<1> DEFINE f == transcript[sid[r]]
<1>2. PICK i \in DOMAIN f : IsRetryable(f, i, ToolOf[f[i].req]) /\ Begin(r, f[i].req, TRUE)
  BY DEF Retry
<1>3. /\ f[i].type = "tool_call_requested" /\ ToolOf[f[i].req] \in SafeReadTools
      /\ calls'[r] = 1 /\ cur'[r] = f[i].req
  BY <1>1, <1>2 DEF IsRetryable, IsLatestRequest, RecoveryAction, RetryEligibleTools,
                    SafeReadTools, Begin
<1>4. f[i].by # r
  <2>1. f[i].tc # 0 /\ f[i].tc <= calls[f[i].by] /\ f[i].tc \in Nat
    <3>1. f[i].tc # 0
      BY <1>1, <1>3 DEF KindInv, RecordKinds, CallTypes
    <3>2. f[i].tc <= calls[f[i].by]
      BY <1>1 DEF StoryInv, RecordsBehind
    <3>3. f[i] \in Records
      BY <1>1
    <3> QED BY <3>1, <3>2, <3>3 DEF Records
  <2> QED BY <1>1, <2>1
<1> QED BY <1>1, <1>3, <1>4 DEF Retrying, Foreign

LEMMA RetryNext == RetryInv /\ [Next]_vars => RetryInv'
<1> SUFFICES ASSUME RetryInv, [Next]_vars PROVE RetryInv'
  OBVIOUS
<1>1. KindInv' /\ TypeInv /\ StoryInv
  BY KindNext DEF RetryInv, KindInv, StoryInv, AuditInv
<1>2. ASSUME NEW s \in Sessions PROVE \A o, q : Foreign(o, s, q) => Foreign(o, s, q)'
  <2>1. \A i \in DOMAIN transcript[s] : i \in DOMAIN transcript'[s] /\ transcript'[s][i] = transcript[s][i]
    BY <1>1, StepGrows DEF Grew
  <2> QED BY <2>1 DEF Foreign
<1>3. ASSUME UNCHANGED effects PROVE RetriedOnce'
  <2>1. \A e \in effects : e.sid \in Sessions
    BY <1>1 DEF TypeInv, TypeOK, CallTypeOK
  <2> QED BY <1>2, <1>3, <2>1 DEF RetryInv, RetriedOnce
<1>4. ASSUME NEW r \in Runs, OthersKept(r) PROVE \A o \in Runs \ {r} : Retrying(o)'
  <2> SUFFICES ASSUME NEW o \in Runs \ {r}, retrying[o], pc[o] \in CallPcs
               PROVE  /\ calls[o] = 1 /\ ToolOf[cur[o]] \in SafeReadTools
                      /\ Foreign(o, sid[o], cur[o])'
    BY <1>4 DEF OthersKept, Retrying
  <2>1. sid[o] \in Sessions /\ sid'[o] = sid[o] /\ cur'[o] = cur[o]
    BY <1>1, <1>4 DEF OthersKept, TypeInv, TypeOK, ScopeOK, Live, Ended, CallPcs
  <2> QED BY <1>2, <2>1 DEF RetryInv, Retrying, Foreign
<1>5. ASSUME NEW r \in Runs, Bounds(r) PROVE RetriedOnce' /\ \A o \in Runs : Retrying(o)'
  <2>1. Retrying(r)'
    BY <1>5 DEF Bounds, Retrying, CallPcs
  <2> QED BY <1>3, <1>4, <1>5, <2>1 DEF Bounds
<1>6. ASSUME NEW r \in Runs, RunStep(r) PROVE RetriedOnce' /\ \A o \in Runs : Retrying(o)'
  <2>0. OthersKept(r) /\ Live(r) /\ sid[r] \in Sessions /\ UNCHANGED sid
    BY <1>1, <1>6, OthersOfStep, RunStepFrame DEF TypeInv, TypeOK, ScopeOK
  <2>1. Retrying(r)'
    <3>1. CASE pc'[r] = "request"
      <4>1. ToolChunk(r) => ~retrying'[r]
        BY <1>1 DEF ToolChunk, Begin, TypeInv, TypeOK, CallTypeOK
      <4> QED BY <1>1, <1>6, <3>1, <4>1, RequestStep, RetryBegins DEF Retrying
    <3>2. CASE pc'[r] # "request"
      <4>1. /\ UNCHANGED <<calls, cur, retrying>>
            /\ pc'[r] \in CallPcs => pc[r] \in CallPcs
        BY <1>1, <1>6, <2>0, <3>2, StepKinds, AcceptedOrRefused
           DEF Tells, Accepted, Refused, Moves, Places, InCall, CallPcs, Before
      <4>2. /\ sid'[r] = sid[r] /\ cur'[r] = cur[r] /\ retrying'[r] = retrying[r]
            /\ calls'[r] = calls[r]
        BY <2>0, <4>1
      <4>3. Retrying(r)
        BY DEF RetryInv
      <4>4. Foreign(r, sid[r], cur[r]) => Foreign(r, sid[r], cur[r])'
        BY <1>2, <2>0, <4>2 DEF Foreign
      <4> QED BY <4>1, <4>2, <4>3, <4>4 DEF Retrying
    <3> QED BY <3>1, <3>2
  <2>2. CASE pc[r] = "execute" /\ effects' = effects \cup {Effect(r)}
    <3> DEFINE n == Effect(r)
    <3>1. /\ n.by = r /\ n.sid = sid[r] /\ n.tc = calls[r] /\ n.req = cur[r]
          /\ n.retry = retrying[r]
      BY DEF Effect
    <3> HIDE DEF n
    <3>2. n.retry => n.tc = 1 /\ ToolOf[n.req] \in SafeReadTools /\ Foreign(n.by, n.sid, n.req)
      BY <2>2, <3>1 DEF RetryInv, Retrying, CallPcs
    <3>3. \A e \in effects : e.by = r => e.tc # n.tc
      <4>1. \A e \in effects : e.tc \in Nat
        BY <1>1 DEF TypeInv, TypeOK, CallTypeOK
      <4> QED BY <1>1, <2>2, <3>1, <4>1 DEF StoryInv, EffectsBehind
    <3>4. \A e \in effects' : e.retry =>
            e.tc = 1 /\ ToolOf[e.req] \in SafeReadTools /\ Foreign(e.by, e.sid, e.req)'
      <4>1. \A e \in effects : e.sid \in Sessions
        BY <1>1 DEF TypeInv, TypeOK, CallTypeOK
      <4>2. effects' = effects \cup {n}
        BY <2>2 DEF n
      <4> QED BY <1>2, <2>0, <3>1, <3>2, <4>1, <4>2 DEF RetryInv, RetriedOnce
    <3>5. \A e, f \in effects' : e.by = f.by /\ e.tc = f.tc => e = f
      BY <2>2, <3>1, <3>3 DEF RetryInv, RetriedOnce, n
    <3> QED BY <1>4, <2>0, <2>1, <3>4, <3>5 DEF RetriedOnce, Foreign
  <2> QED BY <1>3, <1>4, <1>6, <2>0, <2>1, <2>2, EffectsOfStep
<1>7. ASSUME UNCHANGED vars PROVE RetriedOnce' /\ \A o \in Runs : Retrying(o)'
  BY <1>7 DEF RetryInv, RetriedOnce, Retrying, Foreign, vars, logVars, ctlVars, idVars, callVars
<1>8. RetriedOnce' /\ \A o \in Runs : Retrying(o)'
  <2>1. CASE AllDone \/ UNCHANGED vars
    BY <1>7, <2>1 DEF AllDone
  <2>2. ASSUME NEW r \in Runs, Start(r) \/ IoFails(r) \/ Kill(r)
        PROVE  RetriedOnce' /\ \A o \in Runs : Retrying(o)'
    BY <1>1, <1>5, <2>2, BoundsOfStep
  <2> QED BY <1>6, <2>1, <2>2 DEF Next
<1> QED BY <1>1, <1>8 DEF RetryInv

LEMMA RetryInit == Init => RetryInv
<1> SUFFICES ASSUME Init PROVE RetryInv
  OBVIOUS
<1>1. RetriedOnce /\ \A r \in Runs : Retrying(r)
  BY DEF Init, RetriedOnce, Retrying
<1> QED BY <1>1, KindInit DEF RetryInv

\* A resumed run executes on its own account one request at most, of a safe read
\* tool, which another run of the session had announced
\* (_recover_interrupted_safe_read_once, decide_recovery_action).
THEOREM RetriesSafe == Spec => []RetryOnlySafeReads
<1>1. RetryInv => RetryOnlySafeReads
  BY DEF RetryInv, RetriedOnce, Foreign, RetryOnlySafeReads
<1> QED BY <1>1, RetryInit, RetryNext, PTL DEF Spec
=============================================================================
