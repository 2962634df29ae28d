------------------------- MODULE OrchestratorProofs -------------------------
(***************************************************************************)
(* Theorems about the orchestrator, for any number of runs, processes,     *)
(* sessions and requests: types, and the transcript as an audit trail. A   *)
(* record of a tool call request names a request, which the recovery of a  *)
(* later run relies on; with that, TypeOK is inductive.                    *)
(***************************************************************************)
EXTENDS RunProperties, TLAPS

RequestsNamed ==
  \A s \in Sessions : \A i \in 1..Len(transcript[s]) :
    transcript[s][i].type = "tool_call_requested" => transcript[s][i].req \in Requests

TypeInv == TypeOK /\ RequestsNamed

\* What a line of a transcript holds.
LEMMA LineOfRecords ==
  ASSUME NEW log \in Seq(Records)
  PROVE  /\ Len(log) \in Nat /\ DOMAIN log = 1..Len(log)
         /\ log # <<>> => Len(log) \in 1..Len(log)
         /\ \A i \in 1..Len(log) : log[i].seq \in Nat /\ log[i].run \in Nat
<1>1. /\ Len(log) \in Nat /\ DOMAIN log = 1..Len(log)
      /\ log # <<>> => Len(log) \in 1..Len(log)
      /\ \A i \in 1..Len(log) : log[i] \in Records
  OBVIOUS
<1>2. \A x \in Records : x.seq \in Nat /\ x.run \in Nat
  BY DEF Records
<1> QED BY <1>1, <1>2

\* Nothing but the log moves in an emission, which ends at `next` or in an
\* exception; other runs stay where they are.
LEMMA EmitFrame ==
  ASSUME LogTypeOK, NEW r \in Runs, NEW e \in Records, NEW next \in Pcs,
         Emit(r, e, next)
  PROVE  /\ pc'[r] \in {next, "exited"}
         /\ \A o \in Runs \ {r} : pc'[o] = pc[o] /\ fsm'[o] = fsm[o] /\ term'[o] = term[o]
                                  /\ raised'[o] = raised[o]
BY DEF LogTypeOK, Emit

\* An emission by a run with a session keeps the types of the log.
LEMMA EmitTypes ==
  ASSUME LogTypeOK, RequestsNamed, NEW r \in Runs, sid[r] \in Sessions,
         NEW e \in Records, NEW next \in Pcs, Emit(r, e, next),
         e.type = "tool_call_requested" => e.req \in Requests
  PROVE  LogTypeOK' /\ RequestsNamed'
<1>1. transcript' \in [Sessions -> Seq(Records)] /\ RequestsNamed'
  <2>1. CASE Written(r, e)
    <3>1. transcript' = [transcript EXCEPT ![sid[r]] = Append(@, e)]
      BY <2>1 DEF Emit, AppendRecord
    <3>2. QED BY <3>1, SMTT(20) DEF LogTypeOK, RequestsNamed
  <2>2. CASE ~Written(r, e)
    BY <2>2 DEF Emit, LogTypeOK, RequestsNamed
  <2> QED BY <2>1, <2>2
<1>2. pc' \in [Runs -> Pcs] /\ raised' \in [Runs -> RaiseCauses]
  BY DEF Emit, LogTypeOK, Pcs, Ended, RaiseCauses
<1>3. seq' \in [Runs -> Nat] /\ last' \in [Runs -> Nat] /\ term' \in [Runs -> BOOLEAN]
  BY DEF Emit, LogTypeOK, Records
<1>4. fsm' \in [Runs -> TurnStates]
  <2>1. Target(e.type) \in TurnStates
    BY DEF Records, EventTypes, TerminalTypes, Target, TurnStates
  <2> QED BY <2>1 DEF Emit, LogTypeOK
<1>5. deltas' \in SUBSET [sid : Sessions, seq : Nat, by : Runs]
  BY DEF Emit, LogTypeOK, Records
<1> QED BY <1>1, <1>2, <1>3, <1>4, <1>5 DEF LogTypeOK

LEMMA EventIsRecord ==
  ASSUME LogTypeOK, ConfTypeOK, NEW r \in Runs, NEW type \in EventTypes, NEW tc \in Nat,
         NEW q \in Requests \cup {NoRequest}, NEW info \in Infos
  PROVE  /\ Event(r, type, tc, q, info) \in Records
         /\ Event(r, type, tc, q, info).type = type
         /\ Event(r, type, tc, q, info).req = q
BY DEF LogTypeOK, ConfTypeOK, Event, Records

\* What an emission in the middle of a run leaves for its caller to show.
LEMMA EmitStep ==
  ASSUME TypeInv, NEW r \in Runs, Live(r), NEW type \in EventTypes, NEW tc \in Nat,
         NEW q \in Requests \cup {NoRequest}, NEW info \in Infos, NEW next \in Pcs,
         type = "tool_call_requested" => q \in Requests,
         next \in CallPcs => cur[r] \in Requests, next # "decided",
         Emit(r, Event(r, type, tc, q, info), next),
         UNCHANGED <<sid, cur>>, \A o \in Runs \ {r} : dec'[o] = dec[o]
  PROVE  LogTypeOK' /\ RequestsNamed' /\ ScopeOK'
<1> DEFINE e == Event(r, type, tc, q, info)
<1>1. e \in Records /\ e.type = type /\ e.req = q
  BY EventIsRecord DEF TypeInv, TypeOK
<1>2. sid[r] \in Sessions
  BY DEF TypeInv, TypeOK, ScopeOK
<1> HIDE DEF e
<1>3. Emit(r, e, next)
  BY DEF e
<1>4. LogTypeOK' /\ RequestsNamed'
  BY <1>1, <1>2, <1>3, EmitTypes DEF TypeInv, TypeOK
<1>5. /\ pc'[r] \in {next, "exited"}
      /\ \A o \in Runs \ {r} : pc'[o] = pc[o]
  BY <1>1, <1>3, EmitFrame DEF TypeInv, TypeOK
<1>6. ScopeOK'
  BY <1>2, <1>5 DEF TypeInv, TypeOK, ScopeOK, Live, Ended, CallPcs
<1> QED BY <1>4, <1>6

\* The same for a step that only moves control.
LEMMA GotoStep ==
  ASSUME TypeInv, NEW r \in Runs, NEW next \in Pcs, Goto(r, next)
  PROVE  /\ LogTypeOK' /\ RequestsNamed'
         /\ pc'[r] = next
         /\ \A o \in Runs \ {r} : pc'[o] = pc[o]
BY DEF TypeInv, TypeOK, LogTypeOK, RequestsNamed, Goto, logVars

LEMMA RaiseStep ==
  ASSUME TypeInv, NEW r \in Runs, NEW why \in RaiseCauses, Raise(r, why), UNCHANGED logVars
  PROVE  /\ LogTypeOK' /\ RequestsNamed'
         /\ pc'[r] = "exited"
         /\ \A o \in Runs \ {r} : pc'[o] = pc[o]
BY DEF TypeInv, TypeOK, LogTypeOK, RequestsNamed, Raise, logVars, Pcs, Ended

\* The decision of a request, whoever answers, is a decision.
LEMMA DecideType ==
  ASSUME NEW q \in Requests, NEW m \in Modes, NEW i \in BOOLEAN
  PROVE  Decide(q, m, i) \in Decisions
BY DEF Decide, Decision, Decisions, Effects, Reasons

LEMMA ReplayType ==
  ASSUME NEW d \in Decisions, NEW q \in Requests, NEW s \in RuleSets, NEW p \in RuleSets
  PROVE  ApplyReplay(d, q, s, p) \in Decisions
BY DEF ApplyReplay, Decision, Decisions, Effects, Reasons

LEMMA ResolveType ==
  ASSUME NEW d \in Decisions, NEW a \in Answers, NEW m \in Modes
  PROVE  /\ Resolve(d, a, m) \in Decisions
         /\ Resolve(d, a, m).decision \in Effects
BY DEF Resolve, Decision, Decisions, Effects, Reasons

LEMMA RememberType ==
  ASSUME NEW s \in RuleSets, NEW q \in Requests, NEW a, NEW x, NEW y
  PROVE  Remember(s, q, a, x, y) \in RuleSets
BY DEF Remember, RuleSets
-----------------------------------------------------------------------------
(* Type correctness of a tool call. *)

LEMMA ToolStepTypes ==
  ASSUME TypeInv, NEW r \in Runs, ToolStep(r)
  PROVE  TypeInv'
<1> USE DEF TypeInv
<1>0. /\ ConfTypeOK' /\ TurnTypeOK'
      /\ UNCHANGED <<sid, persist>>
  BY DEF ToolStep, TypeOK, ConfTypeOK, TurnTypeOK, confVars, idVars, turnVars, endVars
<1>1. CASE Request(r)
  <2>1. cur[r] \in Requests /\ calls[r] \in Nat /\ Live(r)
    BY <1>1 DEF Request, TypeOK, ScopeOK, CallPcs, Live, Ended, CallTypeOK
  <2>2. LogTypeOK' /\ RequestsNamed' /\ ScopeOK'
    BY <1>0, <1>1, <2>1, EmitStep DEF Request, CallEvent, callVars, EventTypes, Infos, Pcs, CallPcs
  <2>3. PermTypeOK' /\ CallTypeOK'
    BY <1>1 DEF Request, TypeOK, PermTypeOK, CallTypeOK, permVars, callVars
  <2> QED BY <1>0, <2>2, <2>3 DEF TypeOK
<1>2. CASE DecideCall(r)
  <2>1. cur[r] \in Requests /\ calls[r] \in Nat /\ Live(r) /\ sid[r] \in Sessions
    BY <1>2 DEF DecideCall, TypeOK, ScopeOK, CallPcs, Live, Ended, CallTypeOK
  <2>2. Provisional(r) \in Decisions
    <3>1. Decide(cur[r], mode[r], Interactive(r)) \in Decisions
      BY <2>1, DecideType DEF TypeOK, ConfTypeOK, Interactive
    <3>2. replay[HostOf[r]][sid[r]] \in RuleSets /\ cache[r] \in RuleSets
      BY <2>1, HostAssumption DEF TypeOK, PermTypeOK
    <3> QED BY <2>1, <3>1, <3>2, ReplayType DEF Provisional
  <2>3. LogTypeOK' /\ RequestsNamed' /\ ScopeOK'
    <3>1. CASE Provisional(r).decision = "ask"
      <4>1. /\ Emit(r, CallEvent(r, "tool_permission_required", cur[r], ""), "answer")
            /\ UNCHANGED <<sid, cur>> /\ \A o \in Runs \ {r} : dec'[o] = dec[o]
        BY <1>0, <1>2, <3>1 DEF DecideCall, TypeOK, CallTypeOK
      <4> QED BY <2>1, <4>1, EmitStep DEF CallEvent, EventTypes, Infos, Pcs, CallPcs
    <3>2. CASE Provisional(r).decision # "ask"
      <4>1. /\ LogTypeOK' /\ RequestsNamed' /\ pc'[r] = "decided"
            /\ \A o \in Runs \ {r} : pc'[o] = pc[o]
        BY <1>2, <3>2, GotoStep DEF DecideCall, Pcs, CallPcs
      <4>2. dec'[r].decision \in Effects
        BY <1>2, <2>2, <3>2 DEF DecideCall, Decisions, TypeOK, CallTypeOK
      <4> QED BY <1>0, <1>2, <2>1, <4>1, <4>2 DEF DecideCall, TypeOK, ScopeOK, Live, Ended, CallTypeOK
    <3> QED BY <3>1, <3>2
  <2>4. PermTypeOK' /\ CallTypeOK'
    BY <1>2, <2>2 DEF DecideCall, TypeOK, PermTypeOK, CallTypeOK, permVars
  <2> QED BY <1>0, <2>3, <2>4 DEF TypeOK
<1>3. CASE Answer(r)
  <2>1. cur[r] \in Requests /\ calls[r] \in Nat /\ Live(r) /\ sid[r] \in Sessions
    BY <1>3 DEF Answer, TypeOK, ScopeOK, CallPcs, Live, Ended, CallTypeOK
  <2>2. PICK a \in Answers :
          /\ dec' = [dec EXCEPT ![r] = Resolve(@, a, mode[r])]
          /\ replay' = [replay EXCEPT ![HostOf[r]][sid[r]] =
                          Remember(@, cur[r], a, "allow_session", "deny_session")]
          /\ cache' = [cache EXCEPT ![r] =
                         Remember(@, cur[r], a, "allow_persistent", "deny_persistent")]
          /\ rules' = IF persist[r] THEN rules \cup ({cur[r]} \X PersistentEffect(a)) ELSE rules
          /\ answers' = answers \cup
               {[by |-> r, sid |-> sid[r], tc |-> calls[r], req |-> cur[r], answer |-> a]}
    BY <1>3 DEF Answer, PossibleAnswers, Answers
  <2>3. LogTypeOK' /\ RequestsNamed' /\ ScopeOK'
    <3>1. /\ LogTypeOK' /\ RequestsNamed' /\ pc'[r] = "decided"
          /\ \A o \in Runs \ {r} : pc'[o] = pc[o]
      BY <1>3, GotoStep DEF Answer, Pcs, CallPcs
    <3>2. dec'[r].decision \in Effects /\ \A o \in Runs \ {r} : dec'[o] = dec[o]
      BY <2>2, ResolveType DEF TypeOK, CallTypeOK, ConfTypeOK
    <3> QED BY <1>0, <1>3, <2>1, <3>1, <3>2 DEF Answer, TypeOK, ScopeOK, Live, Ended
  <2>4. dec' \in [Runs -> Decisions]
    BY <2>2, ResolveType DEF TypeOK, CallTypeOK, ConfTypeOK
  <2>5. replay' \in [Hosts -> [Sessions -> RuleSets]]
    <3>1. \A s \in RuleSets :
            Remember(s, cur[r], a, "allow_session", "deny_session") \in RuleSets
      BY <2>1, RememberType
    <3> QED BY <2>1, <2>2, <3>1, HostAssumption DEF TypeOK, PermTypeOK
  <2>6. cache' \in [Runs -> RuleSets]
    <3>1. \A s \in RuleSets :
            Remember(s, cur[r], a, "allow_persistent", "deny_persistent") \in RuleSets
      BY <2>1, RememberType
    <3> QED BY <2>2, <3>1 DEF TypeOK, PermTypeOK
  <2>7. rules' \in SUBSET (Requests \X Effects)
    BY <2>1, <2>2 DEF TypeOK, PermTypeOK, PersistentEffect, Effects
  <2>8. answers' \in SUBSET [by : Runs, sid : Sessions, tc : Nat, req : Requests, answer : Answers]
    BY <2>1, <2>2 DEF TypeOK, PermTypeOK
  <2>9. PermTypeOK' /\ CallTypeOK'
    BY <1>3, <2>4, <2>5, <2>6, <2>7, <2>8 DEF Answer, TypeOK, PermTypeOK, CallTypeOK
  <2> QED BY <1>0, <2>3, <2>9 DEF TypeOK
<1>4. CASE EmitDecided(r)
  <2>1. cur[r] \in Requests /\ calls[r] \in Nat /\ Live(r) /\ dec[r] \in Decisions
    BY <1>4 DEF EmitDecided, TypeOK, ScopeOK, CallPcs, Live, Ended, CallTypeOK
  <2>2. (IF dec[r].decision = "allow" THEN "launch" ELSE "result") \in CallPcs
    BY DEF CallPcs
  <2>3. LogTypeOK' /\ RequestsNamed' /\ ScopeOK'
    <3>1. dec[r].decision \in Infos
      BY <1>4, <2>1 DEF EmitDecided, TypeOK, ScopeOK, Effects, Infos
    <3> QED BY <1>0, <1>4, <2>1, <2>2, <3>1, EmitStep, ZenonT(60)
            DEF EmitDecided, CallEvent, EventTypes, Infos, Pcs
  <2>4. PermTypeOK' /\ CallTypeOK'
    BY <1>4 DEF EmitDecided, TypeOK, PermTypeOK, CallTypeOK, permVars
  <2> QED BY <1>0, <2>3, <2>4 DEF TypeOK
<1>5. CASE Launch(r)
  <2>1. cur[r] \in Requests /\ calls[r] \in Nat /\ Live(r)
    BY <1>5 DEF Launch, TypeOK, ScopeOK, CallPcs, Live, Ended, CallTypeOK
  <2>2. PICK next \in {"execute", "result"} :
          Emit(r, Event(r, "tool_execution_started", calls[r], NoRequest, ""), next)
    BY <1>5 DEF Launch, CallEvent
  <2>3. LogTypeOK' /\ RequestsNamed' /\ ScopeOK'
    <3>1. /\ UNCHANGED <<sid, cur>> /\ \A o \in Runs \ {r} : dec'[o] = dec[o]
          /\ next \in Pcs /\ next # "decided"
          /\ "tool_execution_started" \in EventTypes /\ "" \in Infos
      BY <1>0, <1>5 DEF Launch, Pcs, CallPcs, EventTypes, Infos
    <3> QED BY <2>1, <2>2, <3>1, EmitStep
  <2>4. PermTypeOK' /\ CallTypeOK'
    BY <1>5 DEF Launch, TypeOK, PermTypeOK, CallTypeOK, permVars
  <2> QED BY <1>0, <2>3, <2>4 DEF TypeOK
<1>6. ASSUME pc[r] = "execute" PROVE Effect(r) \in [by : Runs, sid : Sessions, tc : Nat,
                                                   req : Requests, retry : BOOLEAN]
  BY <1>6 DEF Effect, TypeOK, ScopeOK, CallPcs, Live, Ended, CallTypeOK
<1>7. CASE Execute(r)
  <2>1. /\ LogTypeOK' /\ RequestsNamed' /\ pc'[r] = "result"
        /\ \A o \in Runs \ {r} : pc'[o] = pc[o]
    BY <1>7, GotoStep DEF Execute, Pcs, CallPcs
  <2>2. ScopeOK'
    BY <1>0, <1>7, <2>1 DEF Execute, TypeOK, ScopeOK, CallPcs, Live, Ended
  <2>3. effects' \in SUBSET [by : Runs, sid : Sessions, tc : Nat, req : Requests, retry : BOOLEAN]
    BY <1>6, <1>7 DEF Execute, TypeOK, CallTypeOK
  <2>4. PermTypeOK' /\ CallTypeOK'
    BY <1>7, <2>3 DEF Execute, TypeOK, PermTypeOK, CallTypeOK, permVars
  <2> QED BY <1>0, <2>1, <2>2, <2>4 DEF TypeOK
<1>8. CASE ToolRaises(r)
  <2>1. /\ LogTypeOK' /\ RequestsNamed' /\ pc'[r] = "exited"
        /\ \A o \in Runs \ {r} : pc'[o] = pc[o]
    BY <1>8, RaiseStep DEF ToolRaises, RaiseCauses
  <2>2. ScopeOK'
    BY <1>0, <1>8, <2>1 DEF ToolRaises, TypeOK, ScopeOK, CallPcs, Live, Ended
  <2>3. effects' \in SUBSET [by : Runs, sid : Sessions, tc : Nat, req : Requests, retry : BOOLEAN]
    BY <1>6, <1>8 DEF ToolRaises, TypeOK, CallTypeOK
  <2>4. PermTypeOK' /\ CallTypeOK'
    BY <1>8, <2>3 DEF ToolRaises, TypeOK, PermTypeOK, CallTypeOK, permVars
  <2> QED BY <1>0, <2>1, <2>2, <2>4 DEF TypeOK
<1>9. CASE EmitResult(r) \/ EmitFinished(r)
  <2>1. /\ cur[r] \in Requests /\ calls[r] \in Nat /\ Live(r) /\ status[r] \in Infos
        /\ UNCHANGED <<sid, cur, dec>>
    BY <1>0, <1>9 DEF EmitResult, EmitFinished, TypeOK, ScopeOK, CallPcs, Live, Ended,
                      CallTypeOK, Infos, callVars
  <2>2. LogTypeOK' /\ RequestsNamed' /\ ScopeOK'
    <3>1. CASE EmitResult(r)
      BY <2>1, <3>1, EmitStep DEF EmitResult, CallEvent, EventTypes, Pcs, CallPcs
    <3>2. CASE EmitFinished(r)
      BY <2>1, <3>2, EmitStep DEF EmitFinished, CallEvent, EventTypes, Pcs, CallPcs
    <3> QED BY <1>9, <3>1, <3>2
  <2>3. PermTypeOK' /\ CallTypeOK'
    BY <1>9 DEF EmitResult, EmitFinished, TypeOK, PermTypeOK, CallTypeOK, permVars, callVars
  <2> QED BY <1>0, <2>2, <2>3 DEF TypeOK
<1> QED BY <1>1, <1>2, <1>3, <1>4, <1>5, <1>7, <1>8, <1>9 DEF ToolStep, ExecutorStep
-----------------------------------------------------------------------------
(* Type correctness of the other steps of a run. *)

\* A step that only emits an event without a tool call.
LEMMA PlainStep ==
  ASSUME TypeInv, NEW r \in Runs, Live(r), NEW type \in EventTypes,
         type # "tool_call_requested", NEW next \in Pcs \ CallPcs,
         Emit(r, Plain(r, type), next), UNCHANGED <<confVars, idVars, permVars, callVars>>
  PROVE  /\ LogTypeOK' /\ RequestsNamed' /\ ScopeOK'
         /\ ConfTypeOK' /\ PermTypeOK' /\ CallTypeOK'
<1>1. LogTypeOK' /\ RequestsNamed' /\ ScopeOK'
  <2>1. /\ UNCHANGED <<sid, cur>> /\ \A o \in Runs \ {r} : dec'[o] = dec[o]
        /\ next # "decided"
    BY DEF idVars, callVars, CallPcs
  <2> QED BY <2>1, EmitStep DEF Plain, Infos
<1>2. ConfTypeOK' /\ PermTypeOK' /\ CallTypeOK'
  BY DEF TypeInv, TypeOK, ConfTypeOK, PermTypeOK, CallTypeOK, confVars, idVars, permVars, callVars
<1> QED BY <1>1, <1>2

\* A step of a live run that moves control outside a tool call, keeping its
\* session and leaving the calls of other runs alone.
LEMMA QuietStep ==
  ASSUME TypeInv, NEW r \in Runs, Live(r), NEW next \in Pcs \ CallPcs,
         Goto(r, next), UNCHANGED <<sid, callVars>>
  PROVE  LogTypeOK' /\ RequestsNamed' /\ CallTypeOK' /\ ScopeOK'
<1>1. /\ LogTypeOK' /\ RequestsNamed' /\ pc'[r] = next
      /\ \A o \in Runs \ {r} : pc'[o] = pc[o]
  BY GotoStep
<1>2. CallTypeOK'
  BY DEF TypeInv, TypeOK, CallTypeOK, callVars
<1>3. ScopeOK'
  BY <1>1 DEF TypeInv, TypeOK, ScopeOK, CallPcs, Live, Ended, callVars
<1> QED BY <1>1, <1>2, <1>3

LEMMA StartTypes ==
  ASSUME TypeInv, NEW r \in Runs, Start(r)
  PROVE  TypeInv'
<1>1. PICK c \in Configs[r] :
        /\ kind' = [kind EXCEPT ![r] = c.kind]
        /\ mode' = [mode EXCEPT ![r] = c.mode]
        /\ channel' = [channel EXCEPT ![r] = c.channel]
        /\ persist' = [persist EXCEPT ![r] = c.persist]
        /\ \/ /\ nextSid[HostOf[r]] \in Sessions
              /\ sid' = [sid EXCEPT ![r] = nextSid[HostOf[r]]]
              /\ nextSid' = [nextSid EXCEPT ![HostOf[r]] = @ + 1]
              /\ Goto(r, "run_id")
           \/ /\ sid' = [sid EXCEPT ![r] = c.sid]
              /\ Goto(r, "run_id") /\ UNCHANGED nextSid
           \/ /\ index # <<>>
              /\ sid' = [sid EXCEPT ![r] = index[Len(index)]]
              /\ Goto(r, "run_id") /\ UNCHANGED nextSid
           \/ /\ Raise(r, "no_session")
              /\ UNCHANGED <<sid, nextSid, logVars>>
  BY DEF Start, NewSessionId
<1>2. c \in CommandLines
  BY ConfigAssumption
<1>3. /\ LogTypeOK' /\ RequestsNamed' /\ pc'[r] \in {"run_id", "exited"}
      /\ \A o \in Runs \ {r} : pc'[o] = pc[o]
  BY <1>1, GotoStep, RaiseStep DEF Pcs, RaiseCauses
<1>4. /\ sid' \in [Runs -> Sessions \cup {0}]
      /\ pc'[r] = "run_id" => sid'[r] \in Sessions
      /\ \A o \in Runs \ {r} : sid'[o] = sid[o]
  <2>1. index # <<>> => index[Len(index)] \in Sessions
    BY DEF TypeInv, TypeOK, TurnTypeOK
  <2> QED BY <1>1, <1>2, <2>1 DEF CommandLines, TypeInv, TypeOK, ConfTypeOK, Raise, LogTypeOK
<1>5. ConfTypeOK'
  <2>1. /\ kind' \in [Runs -> Kinds] /\ mode' \in [Runs -> Modes]
        /\ channel' \in [Runs -> Channels] /\ persist' \in [Runs -> BOOLEAN]
    BY <1>1, <1>2 DEF CommandLines, TypeInv, TypeOK, ConfTypeOK
  <2>2. nextSid' \in [Hosts -> Nat]
    BY <1>1, HostAssumption DEF TypeInv, TypeOK, ConfTypeOK
  <2> QED BY <1>4, <2>1, <2>2 DEF Start, TypeInv, TypeOK, ConfTypeOK
<1>6. PermTypeOK' /\ CallTypeOK' /\ TurnTypeOK'
  BY DEF Start, TypeInv, TypeOK, PermTypeOK, CallTypeOK, TurnTypeOK, permVars, callVars,
         turnVars, endVars
<1>7. ScopeOK'
  BY <1>3, <1>4 DEF Start, TypeInv, TypeOK, ScopeOK, CallPcs, Live, Ended, callVars
<1> QED BY <1>3, <1>5, <1>6, <1>7 DEF TypeInv, TypeOK

\* The run id is a natural number, whichever way it is chosen.
LEMMA ChooseRunIdTypes ==
  ASSUME TypeInv, NEW r \in Runs, ChooseRunId(r)
  PROVE  TypeInv'
<1>1. Live(r) /\ sid[r] \in Sessions
  BY DEF ChooseRunId, TypeInv, TypeOK, ScopeOK, Live, Ended
<1>2. LogTypeOK' /\ RequestsNamed' /\ CallTypeOK' /\ ScopeOK'
  BY <1>1, QuietStep DEF ChooseRunId, Pcs, CallPcs
<1>3. NextRunIds(transcript[sid[r]]) \subseteq Nat
  <2>1. transcript[sid[r]] \in Seq(Records)
    BY <1>1 DEF TypeInv, TypeOK, LogTypeOK
  <2>2. \A i \in DOMAIN transcript[sid[r]] : transcript[sid[r]][i].run \in Nat
    BY <2>1, LineOfRecords
  <2> QED BY <2>2 DEF NextRunIds
<1>4. rid' \in [Runs -> Nat] /\ nextRid' \in [Hosts -> Nat]
  <2>1. HostOf[r] \in Hosts
    BY HostAssumption
  <2>2. CASE \E n \in NextRunIds(transcript[sid[r]]) :
               rid' = [rid EXCEPT ![r] = n] /\ UNCHANGED nextRid
    BY <1>3, <2>2 DEF TypeInv, TypeOK, ConfTypeOK
  <2>3. CASE /\ rid' = [rid EXCEPT ![r] = nextRid[HostOf[r]]]
             /\ nextRid' = [nextRid EXCEPT ![HostOf[r]] = @ + 1]
    BY <2>1, <2>3 DEF TypeInv, TypeOK, ConfTypeOK
  <2> QED BY <2>2, <2>3 DEF ChooseRunId, NewRunId
<1>5. ConfTypeOK' /\ PermTypeOK' /\ TurnTypeOK'
  BY <1>4 DEF ChooseRunId, TypeInv, TypeOK, ConfTypeOK, PermTypeOK, TurnTypeOK, confVars,
              permVars, turnVars, endVars
<1> QED BY <1>2, <1>5 DEF TypeInv, TypeOK

\* The two reads of the transcript yield natural numbers.
LEMMA LoadTypes ==
  ASSUME TypeInv, NEW r \in Runs, Load(r)
  PROVE  TypeInv'
<1>1. sid[r] \in Sessions
  BY DEF Load, LoadSeq, LoadParent, TypeInv, TypeOK, ScopeOK, Live, Ended
<1>2. NextSeq(sid[r]) - 1 \in Nat /\ LastEvent(sid[r]) \in Nat
  <2>1. transcript[sid[r]] \in Seq(Records)
    BY <1>1 DEF TypeInv, TypeOK, LogTypeOK
  <2> QED BY <2>1, LineOfRecords DEF NextSeq, LastEvent
<1>3. /\ pc' \in [Runs -> Pcs] /\ seq' \in [Runs -> Nat] /\ last' \in [Runs -> Nat]
      /\ pc'[r] \in {"load_parent", "bind"} /\ \A o \in Runs \ {r} : pc'[o] = pc[o]
  BY <1>2 DEF Load, LoadSeq, LoadParent, TypeInv, TypeOK, LogTypeOK, Pcs
<1>4. LogTypeOK' /\ RequestsNamed'
  BY <1>3 DEF Load, LoadSeq, LoadParent, TypeInv, TypeOK, LogTypeOK, RequestsNamed
<1>5. ConfTypeOK' /\ PermTypeOK' /\ CallTypeOK' /\ TurnTypeOK'
  BY DEF Load, TypeInv, TypeOK, ConfTypeOK, PermTypeOK, CallTypeOK, TurnTypeOK, confVars,
         idVars, permVars, callVars, turnVars, endVars
<1>6. ScopeOK'
  BY <1>1, <1>3 DEF Load, TypeInv, TypeOK, ScopeOK, CallPcs, Live, Ended, idVars, callVars
<1> QED BY <1>4, <1>5, <1>6 DEF TypeInv, TypeOK

\* Binding the session loads rule sets.
LEMMA BindTypes ==
  ASSUME TypeInv, NEW r \in Runs, Bind(r)
  PROVE  TypeInv'
<1>1. Live(r) /\ sid[r] \in Sessions
  BY DEF Bind, TypeInv, TypeOK, ScopeOK, Live, Ended
<1>2. LogTypeOK' /\ RequestsNamed' /\ CallTypeOK' /\ ScopeOK'
  BY <1>1, QuietStep DEF Bind, idVars, Pcs, CallPcs
<1>3. replay' \in [Hosts -> [Sessions -> RuleSets]] /\ cache' \in [Runs -> RuleSets]
  BY <1>1, HostAssumption DEF Bind, TypeInv, TypeOK, PermTypeOK, RuleSets, NoRules
<1>4. ConfTypeOK' /\ PermTypeOK' /\ TurnTypeOK'
  BY <1>3 DEF Bind, TypeInv, TypeOK, ConfTypeOK, PermTypeOK, TurnTypeOK, confVars, idVars,
              turnVars, endVars
<1> QED BY <1>2, <1>4 DEF TypeInv, TypeOK

\* A run that recovers or takes a tool chunk begins a call of a request.
LEMMA BeginTypes ==
  ASSUME TypeInv, NEW r \in Runs, Live(r), NEW q \in Requests, NEW retry \in BOOLEAN,
         Begin(r, q, retry), Goto(r, "request"), UNCHANGED sid
  PROVE  LogTypeOK' /\ RequestsNamed' /\ CallTypeOK' /\ ScopeOK'
<1>1. /\ LogTypeOK' /\ RequestsNamed' /\ pc'[r] = "request"
      /\ \A o \in Runs \ {r} : pc'[o] = pc[o]
  BY GotoStep DEF Pcs, CallPcs
<1>2. CallTypeOK'
  BY DEF Begin, TypeInv, TypeOK, CallTypeOK
<1>3. ScopeOK'
  BY <1>1 DEF Begin, TypeInv, TypeOK, CallTypeOK, ScopeOK, CallPcs, Live, Ended
<1> QED BY <1>1, <1>2, <1>3

LEMMA RetryTypes ==
  ASSUME TypeInv, NEW r \in Runs, Retry(r)
  PROVE  TypeInv'
<1>1. Live(r) /\ sid[r] \in Sessions
  BY DEF Retry, TypeInv, TypeOK, ScopeOK, Live, Ended
<1>2. PICK i \in DOMAIN transcript[sid[r]] :
        /\ transcript[sid[r]][i].type = "tool_call_requested"
        /\ Begin(r, transcript[sid[r]][i].req, TRUE)
  BY DEF Retry, IsRetryable, IsLatestRequest
<1>3. transcript[sid[r]][i].req \in Requests
  <2>1. DOMAIN transcript[sid[r]] = 1..Len(transcript[sid[r]])
    BY <1>1, LineOfRecords DEF TypeInv, TypeOK, LogTypeOK
  <2> QED BY <1>1, <1>2, <2>1 DEF TypeInv, RequestsNamed
<1>4. LogTypeOK' /\ RequestsNamed' /\ CallTypeOK' /\ ScopeOK'
  BY <1>1, <1>2, <1>3, BeginTypes DEF Retry, idVars
<1>5. ConfTypeOK' /\ PermTypeOK' /\ TurnTypeOK'
  BY DEF Retry, TypeInv, TypeOK, ConfTypeOK, PermTypeOK, TurnTypeOK, confVars, idVars,
         permVars, endVars
<1> QED BY <1>4, <1>5 DEF TypeInv, TypeOK

LEMMA ToolChunkTypes ==
  ASSUME TypeInv, NEW r \in Runs, ToolChunk(r)
  PROVE  TypeInv'
<1>1. Live(r)
  BY DEF ToolChunk, TakeChunk, Live, Ended
<1>2. PICK q \in Requests : Begin(r, q, FALSE)
  BY DEF ToolChunk
<1>3. LogTypeOK' /\ RequestsNamed' /\ CallTypeOK' /\ ScopeOK'
  BY <1>1, <1>2, BeginTypes DEF ToolChunk, idVars
<1>4. ConfTypeOK' /\ PermTypeOK' /\ TurnTypeOK'
  BY SMTT(30) DEF ToolChunk, TakeChunk, TypeInv, TypeOK, ConfTypeOK, PermTypeOK, TurnTypeOK, confVars,
         idVars, permVars, endVars
<1> QED BY <1>3, <1>4 DEF TypeInv, TypeOK

\* The opening events, and the decision that there is nothing to recover.
LEMMA OpeningTypes ==
  ASSUME TypeInv, NEW r \in Runs, EmitOpening(r) \/ EmitUser(r) \/ NothingToRetry(r)
  PROVE  TypeInv'
<1>1. Live(r) /\ TurnTypeOK' /\ UNCHANGED <<confVars, idVars, permVars, callVars>>
  BY DEF EmitOpening, EmitUser, NothingToRetry, TypeInv, TypeOK, TurnTypeOK, turnVars, endVars,
         Live, Ended
<1>2. CASE EmitOpening(r)
  <2>1. PICK type \in {"session_resumed", "session_start"} : Emit(r, Plain(r, type), "user")
    BY <1>2 DEF EmitOpening
  <2>2. type \in EventTypes /\ "user" \in Pcs \ CallPcs
    BY DEF EventTypes, Pcs, CallPcs, Ended
  <2> QED BY <1>1, <2>1, <2>2, PlainStep DEF TypeInv, TypeOK
<1>3. CASE EmitUser(r)
  <2>1. PICK next \in {"recover", "provider"} : Emit(r, Plain(r, "user_message"), next)
    BY <1>3 DEF EmitUser
  <2>2. "user_message" \in EventTypes /\ next \in Pcs \ CallPcs
    BY DEF EventTypes, Pcs, CallPcs, Ended
  <2> QED BY <1>1, <2>1, <2>2, PlainStep DEF TypeInv, TypeOK
<1>4. CASE NothingToRetry(r)
  <2>1. LogTypeOK' /\ RequestsNamed' /\ CallTypeOK' /\ ScopeOK'
    BY <1>1, <1>4, QuietStep DEF NothingToRetry, Pcs, CallPcs, idVars
  <2>2. ConfTypeOK' /\ PermTypeOK'
    BY <1>1 DEF TypeInv, TypeOK, ConfTypeOK, PermTypeOK, confVars, idVars, permVars
  <2> QED BY <1>1, <2>1, <2>2 DEF TypeInv, TypeOK
<1> QED BY <1>2, <1>3, <1>4

\* A step that leaves the run with an exception and touches nothing else but
\* the turn.
LEMMA RaiseTypes ==
  ASSUME TypeInv, NEW r \in Runs, NEW why \in RaiseCauses, Raise(r, why),
         UNCHANGED <<logVars, confVars, idVars, permVars, callVars>>, TurnTypeOK'
  PROVE  TypeInv'
<1>1. /\ LogTypeOK' /\ RequestsNamed' /\ pc'[r] = "exited"
      /\ \A o \in Runs \ {r} : pc'[o] = pc[o]
  BY RaiseStep
<1>2. ConfTypeOK' /\ PermTypeOK' /\ CallTypeOK'
  BY DEF TypeInv, TypeOK, ConfTypeOK, PermTypeOK, CallTypeOK, confVars, idVars, permVars, callVars
<1>3. ScopeOK'
  BY <1>1 DEF TypeInv, TypeOK, ScopeOK, CallPcs, Live, Ended, idVars, callVars
<1> QED BY <1>1, <1>2, <1>3 DEF TypeInv, TypeOK

\* The same for a step that only moves control.
LEMMA MoveTypes ==
  ASSUME TypeInv, NEW r \in Runs, Live(r), NEW next \in Pcs \ CallPcs, Goto(r, next),
         UNCHANGED <<confVars, idVars, permVars, callVars>>, TurnTypeOK'
  PROVE  TypeInv'
<1>1. LogTypeOK' /\ RequestsNamed' /\ CallTypeOK' /\ ScopeOK'
  BY QuietStep DEF idVars
<1>2. ConfTypeOK' /\ PermTypeOK'
  BY DEF TypeInv, TypeOK, ConfTypeOK, PermTypeOK, confVars, idVars, permVars
<1> QED BY <1>1, <1>2 DEF TypeInv, TypeOK

LEMMA TurnStepTypes ==
  ASSUME TypeInv, NEW r \in Runs, TurnStep(r)
  PROVE  TypeInv'
<1>1. CASE Provider(r)
  <2>1. TurnTypeOK' /\ Live(r)
    BY <1>1 DEF Provider, TypeInv, TypeOK, TurnTypeOK, endVars, Live, Ended
  <2>2. CASE Goto(r, "model")
    <3>1. "model" \in Pcs \ CallPcs
      BY DEF Pcs, CallPcs
    <3> QED BY <1>1, <2>1, <2>2, <3>1, MoveTypes DEF Provider
  <2>3. CASE Raise(r, "provider") /\ UNCHANGED logVars
    BY <1>1, <2>1, <2>3, RaiseTypes DEF Provider, RaiseCauses
  <2> QED BY <1>1, <2>2, <2>3 DEF Provider
<1>2. CASE DeltaChunk(r)
  <2>1. TurnTypeOK' /\ Live(r)
    BY <1>2 DEF DeltaChunk, TakeChunk, TypeInv, TypeOK, TurnTypeOK, endVars, Live, Ended
  <2>2. "assistant_delta" \in EventTypes /\ "model" \in Pcs \ CallPcs
    BY DEF EventTypes, Pcs, CallPcs
  <2> QED BY <1>2, <2>1, <2>2, PlainStep DEF DeltaChunk, TypeInv, TypeOK
<1>3. CASE MessageChunk(r)
  <2>1. TurnTypeOK' /\ Live(r)
    BY <1>3 DEF MessageChunk, TakeChunk, TypeInv, TypeOK, TurnTypeOK, endVars, Live, Ended
  <2>2. "assistant_delta" \in EventTypes /\ "message" \in Pcs \ CallPcs
    BY DEF EventTypes, Pcs, CallPcs
  <2>3. CASE sawDelta[r]
    BY <1>3, <2>1, <2>2, <2>3, MoveTypes DEF MessageChunk
  <2>4. CASE ~sawDelta[r]
    BY <1>3, <2>1, <2>2, <2>4, PlainStep DEF MessageChunk, TypeInv, TypeOK
  <2> QED BY <2>3, <2>4
<1>4. CASE EmitMessage(r)
  <2>1. TurnTypeOK' /\ Live(r)
    BY <1>4 DEF EmitMessage, TypeInv, TypeOK, TurnTypeOK, endVars, Live, Ended
  <2>2. "assistant_message" \in EventTypes /\ "model" \in Pcs \ CallPcs
    BY DEF EventTypes, Pcs, CallPcs
  <2> QED BY <1>4, <2>1, <2>2, PlainStep DEF EmitMessage, TypeInv, TypeOK
<1>5. CASE ToolChunk(r)
  BY <1>5, ToolChunkTypes
<1>6. CASE BadChunk(r)
  <2>1. TurnTypeOK'
    BY <1>6 DEF BadChunk, TakeChunk, TypeInv, TypeOK, TurnTypeOK, endVars
  <2> QED BY <1>6, <2>1, RaiseTypes DEF BadChunk, RaiseCauses
<1>7. CASE ToolSucceeded(r)
  <2>1. TurnTypeOK' /\ Live(r)
    BY <1>7 DEF ToolSucceeded, TypeInv, TypeOK, TurnTypeOK, turnVars, endVars, Live, Ended
  <2>2. PICK next \in {"model", "provider"} : Goto(r, next)
    BY <1>7 DEF ToolSucceeded
  <2>3. next \in Pcs \ CallPcs
    BY DEF Pcs, CallPcs
  <2> QED BY <1>7, <2>1, <2>2, <2>3, MoveTypes DEF ToolSucceeded
<1>8. ASSUME NEW type \in {"session_failed", "session_completed"}, NEW result \in 0..NoCode,
             Finish(r, type, result), Live(r)
      PROVE  TypeInv'
  <2>1. TurnTypeOK'
    BY <1>8 DEF Finish, TypeInv, TypeOK, TurnTypeOK, turnVars
  <2>2. type \in EventTypes /\ type # "tool_call_requested" /\ "index" \in Pcs \ CallPcs
    BY DEF EventTypes, TerminalTypes, Pcs, CallPcs
  <2> QED BY <1>8, <2>1, <2>2, PlainStep DEF Finish, TypeInv, TypeOK
<1>9. CASE ToolFailed(r) \/ NoMessage(r) \/ Complete(r)
  <2>1. Live(r) /\ FailureCode(r) \in 0..NoCode
    BY <1>9 DEF ToolFailed, NoMessage, Complete, Live, Ended, FailureCode, NoCode,
                PERMISSION_DENIED, PERMISSION_UNAVAILABLE, TOOL_RUNTIME_FAILURE
  <2>2. MODEL_FAILURE \in 0..NoCode /\ SUCCESS \in 0..NoCode
    BY DEF MODEL_FAILURE, SUCCESS, NoCode
  <2> QED BY <1>8, <1>9, <2>1, <2>2 DEF ToolFailed, NoMessage, Complete
<1>10. CASE UpdateIndex(r)
  <2>1. Live(r) /\ sid[r] \in Sessions
    BY <1>10 DEF UpdateIndex, TypeInv, TypeOK, ScopeOK, Live, Ended
  <2>2. TurnTypeOK'
    BY <1>10, <2>1 DEF UpdateIndex, TypeInv, TypeOK, TurnTypeOK, turnVars
  <2>3. "exited" \in Pcs \ CallPcs
    BY DEF Pcs, CallPcs, Ended
  <2> QED BY <1>10, <2>1, <2>2, <2>3, MoveTypes DEF UpdateIndex
<1> QED BY <1>1, <1>2, <1>3, <1>4, <1>5, <1>6, <1>7, <1>9, <1>10 DEF TurnStep

LEMMA IoFailsTypes ==
  ASSUME TypeInv, NEW r \in Runs, IoFails(r)
  PROVE  TypeInv'
<1>1. LogTypeOK' /\ RequestsNamed' /\ pc'[r] = "exited" /\ \A o \in Runs \ {r} : pc'[o] = pc[o]
  BY RaiseStep DEF IoFails, RaiseCauses
<1>2. ScopeOK'
  BY <1>1 DEF IoFails, TypeInv, TypeOK, ScopeOK, CallPcs, Live, Ended, callVars, idVars
<1>3. ConfTypeOK' /\ PermTypeOK' /\ CallTypeOK' /\ TurnTypeOK'
  BY DEF IoFails, TypeInv, TypeOK, ConfTypeOK, PermTypeOK, CallTypeOK, TurnTypeOK,
         confVars, idVars, permVars, callVars, turnVars, endVars
<1> QED BY <1>1, <1>2, <1>3 DEF TypeInv, TypeOK

LEMMA KillTypes ==
  ASSUME TypeInv, NEW r \in Runs, Kill(r)
  PROVE  TypeInv'
<1>1. HostOf[r] \in Hosts
  BY HostAssumption
<1>2. LogTypeOK' /\ RequestsNamed' /\ ScopeOK'
  BY DEF Kill, TypeInv, TypeOK, LogTypeOK, RequestsNamed, ScopeOK, Pcs, CallPcs, Live, Ended,
         logVars, callVars
<1>3. replay' \in [Hosts -> [Sessions -> RuleSets]]
  BY <1>1 DEF Kill, TypeInv, TypeOK, PermTypeOK, RuleSets, NoRules
<1>4. nextSid' \in [Hosts -> Nat] /\ nextRid' \in [Hosts -> Nat]
  BY <1>1 DEF Kill, TypeInv, TypeOK, ConfTypeOK
<1>5. ConfTypeOK' /\ PermTypeOK' /\ CallTypeOK' /\ TurnTypeOK'
  BY <1>3, <1>4 DEF Kill, TypeInv, TypeOK, ConfTypeOK, PermTypeOK, CallTypeOK, TurnTypeOK,
                    confVars, callVars, turnVars, endVars
<1> QED BY <1>2, <1>5 DEF TypeInv, TypeOK
-----------------------------------------------------------------------------
(* The invariant holds at the start, and every step keeps it. *)

LEMMA InitTypes == Init => TypeInv
<1> SUFFICES ASSUME Init PROVE TypeInv
  OBVIOUS
<1>1. LogTypeOK /\ RequestsNamed
  BY DEF Init, LogTypeOK, RequestsNamed, Pcs, RaiseCauses, TurnStates
<1>2. ConfTypeOK
  BY DEF Init, ConfTypeOK, Modes, Channels, Kinds
<1>3. PermTypeOK
  BY DEF Init, PermTypeOK, NoRules, RuleSets
<1>4. CallTypeOK
  BY DEF Init, CallTypeOK, NoDecision, Decision, Decisions, Effects, Reasons
<1>5. TurnTypeOK
  BY DEF Init, TurnTypeOK, NoCode
<1>6. ScopeOK
  BY DEF Init, ScopeOK, CallPcs, Live, Ended
<1> QED BY <1>1, <1>2, <1>3, <1>4, <1>5, <1>6 DEF TypeInv, TypeOK

LEMMA NextTypes == TypeInv /\ [Next]_vars => TypeInv'
<1> SUFFICES ASSUME TypeInv, [Next]_vars PROVE TypeInv'
  OBVIOUS
<1>1. CASE UNCHANGED vars
  BY <1>1 DEF vars, logVars, ctlVars, confVars, idVars, permVars, callVars, turnVars, endVars,
              TypeInv, TypeOK, LogTypeOK, ConfTypeOK, PermTypeOK, CallTypeOK, TurnTypeOK,
              ScopeOK, RequestsNamed, Live
<1>2. ASSUME NEW r \in Runs, Start(r) PROVE TypeInv'
  BY <1>2, StartTypes
<1>3. ASSUME NEW r \in Runs, RunStep(r) PROVE TypeInv'
  BY <1>3, ChooseRunIdTypes, LoadTypes, BindTypes, OpeningTypes, RetryTypes, ToolStepTypes,
     TurnStepTypes DEF RunStep
<1>4. ASSUME NEW r \in Runs, IoFails(r) \/ Kill(r) PROVE TypeInv'
  BY <1>4, IoFailsTypes, KillTypes
<1> QED BY <1>1, <1>2, <1>3, <1>4 DEF Next, AllDone

\* Every variable always has its type, a live run always has a session, a tool
\* call always has a request, and a decision is final before it is recorded:
\* SessionOrchestrator and ToolExecutor never act on a missing field.
THEOREM TypeCorrect == Spec => []TypeOK
<1>1. TypeInv => TypeOK
  BY DEF TypeInv
<1> QED BY <1>1, InitTypes, NextTypes, PTL DEF Spec
-----------------------------------------------------------------------------
(* What a step of a run is: it emits one event, moves on without a word, or *)
(* places itself at the end of the file.                                   *)

\* The events of a tool call.
CallTypes ==
  {"tool_call_requested", "tool_permission_required", "tool_permission_decided",
   "tool_execution_started", "tool_result", "tool_execution_finished"}

\* Where a run stands before it has opened, and before it has read the file.
Before == {"idle", "run_id", "load_seq", "load_parent", "bind", "open"}
Unplaced == {"run_id", "load_seq", "load_parent"}

\* Where a call has begun and its end is not told.
InCall == CallPcs \ {"outcome"}

\* Event e is the next of run r, about its current call or about none.
NextEvent(r, e) ==
  /\ e \in Records
  /\ e.by = r /\ e.run = rid[r] /\ e.seq = seq[r] + 1 /\ e.parent = last[r]
  /\ e.tc = IF e.type \in CallTypes THEN calls[r] ELSE 0

Tells(r, e, next) ==
  /\ Emit(r, e, next) /\ NextEvent(r, e)
  /\ next \in Pcs \ (Before \cup {"request", "exited"})
  /\ pc[r] \notin Unplaced \cup {"bind", "index"}
  /\ UNCHANGED <<rid, calls, cur, retrying, toolUsed>>
  /\ e.type \in CallTypes <=> pc[r] \in InCall
  /\ next \in CallPcs => pc[r] \in InCall
  /\ pc[r] \in InCall /\ next \notin InCall => e.type = "tool_execution_finished"
  /\ e.type \in TerminalTypes <=> next = "index"
  /\ next \in {"user", "recover"} => pc[r] \in {"open", "user"}
  /\ e.type = "assistant_message" => pc[r] = "message"
  /\ message'[r] <=> message[r] \/ e.type = "assistant_message"
  /\ sawDelta'[r] \/ next = "message" =>
       e.type = "assistant_delta" \/ (sawDelta[r] /\ e.type # "assistant_message")

\* Nothing is emitted; perhaps a call begins.
Moves(r) ==
  /\ pc[r] \notin Unplaced
  /\ UNCHANGED <<transcript, seq, last, deltas, rid, message, sawDelta>>
  /\ \/ /\ pc'[r] # "request" /\ UNCHANGED <<calls, cur, retrying, toolUsed>>
        /\ pc'[r] \in CallPcs => pc[r] \in InCall
        /\ pc[r] \in InCall => pc'[r] \in InCall \cup {"exited"}
     \/ /\ pc[r] \in {"recover", "model"} /\ pc'[r] = "request"
        /\ calls' = [calls EXCEPT ![r] = @ + 1] /\ toolUsed'[r]
  /\ pc'[r] \notin Unplaced /\ (pc'[r] \in Before => pc[r] \in Before)
  /\ pc'[r] \in {"user", "recover", "index"} => pc'[r] = pc[r]
  /\ pc'[r] = "message" => sawDelta[r]
  /\ pc'[r] = "exited" => raised'[r] # "no" \/ pc[r] = "index"

\* The run id is chosen, the file read.
Places(r) ==
  /\ pc[r] \in Unplaced /\ pc'[r] \in Before
  /\ \/ ChooseRunId(r)
     \/ (LoadSeq(r) \/ LoadParent(r)) /\ UNCHANGED rid
  /\ UNCHANGED <<transcript, deltas, calls, cur, retrying, toolUsed, message, sawDelta>>

LEMMA EventTold ==
  ASSUME TypeInv, NEW r \in Runs, NEW type \in EventTypes, NEW tc \in Nat,
         NEW q \in Requests \cup {NoRequest}, NEW info \in Infos,
         tc = IF type \in CallTypes THEN calls[r] ELSE 0
  PROVE  NextEvent(r, Event(r, type, tc, q, info)) /\ Event(r, type, tc, q, info).type = type
<1>1. Event(r, type, tc, q, info) \in Records
  BY EventIsRecord DEF TypeInv, TypeOK
<1> QED BY <1>1 DEF Event, NextEvent

LEMMA PlainTold ==
  ASSUME TypeInv, NEW r \in Runs, NEW type \in EventTypes \ CallTypes
  PROVE  NextEvent(r, Plain(r, type)) /\ Plain(r, type).type = type
<1>1. type \in EventTypes /\ 0 \in Nat /\ "" \in Infos /\ NoRequest \in Requests \cup {NoRequest}
  BY DEF Infos
<1> QED BY <1>1, EventTold, ZenonT(60) DEF Plain

LEMMA CallTold ==
  ASSUME TypeInv, NEW r \in Runs, NEW type \in CallTypes,
         NEW q \in Requests \cup {NoRequest}, NEW info \in Infos
  PROVE  NextEvent(r, CallEvent(r, type, q, info)) /\ CallEvent(r, type, q, info).type = type
<1>1. calls[r] \in Nat /\ type \in EventTypes
  BY DEF TypeInv, TypeOK, CallTypeOK, CallTypes, EventTypes
<1> QED BY <1>1, EventTold DEF CallEvent

LEMMA ToolStepKinds ==
  ASSUME TypeInv, NEW r \in Runs, ToolStep(r)
  PROVE  (\E e, next : Tells(r, e, next)) \/ Moves(r)
<1> USE DEF Before, Unplaced, InCall, CallPcs, Pcs, CallTypes, TerminalTypes, Ended
<1>1. /\ UNCHANGED <<rid, toolUsed, message, sawDelta>>
      /\ cur[r] \in Requests /\ status[r] \in Infos
  BY DEF ToolStep, ExecutorStep, Request, DecideCall, Answer, EmitDecided, Launch, Execute,
         ToolRaises, EmitResult, EmitFinished, idVars, turnVars, TypeInv, TypeOK, CallTypeOK,
         ScopeOK, Infos
<1>2. CASE Request(r)
  <2> DEFINE e == CallEvent(r, "tool_call_requested", cur[r], "")
  <2>1. NextEvent(r, e) /\ e.type = "tool_call_requested"
    BY <1>1, CallTold, ZenonT(60) DEF Infos
  <2>2. pc[r] = "request" /\ Emit(r, e, "decide") /\ UNCHANGED <<calls, cur, retrying>>
    BY <1>2 DEF Request, callVars
  <2> HIDE DEF e
  <2>3. Tells(r, e, "decide")
    BY <1>1, <2>1, <2>2 DEF Tells
  <2> QED BY <2>3
<1>3. CASE DecideCall(r)
  <2> DEFINE e == CallEvent(r, "tool_permission_required", cur[r], "")
  <2>1. NextEvent(r, e) /\ e.type = "tool_permission_required"
    BY <1>1, CallTold, ZenonT(60) DEF Infos
  <2>2. pc[r] = "decide" /\ UNCHANGED <<calls, cur, retrying>>
    BY <1>3 DEF DecideCall
  <2> HIDE DEF e
  <2>3. CASE Provisional(r).decision = "ask"
    <3>1. Emit(r, e, "answer")
      BY <1>3, <2>3 DEF DecideCall, e
    <3>2. Tells(r, e, "answer")
      BY <1>1, <2>1, <2>2, <3>1 DEF Tells
    <3> QED BY <3>2
  <2>4. CASE Provisional(r).decision # "ask"
    BY <1>1, <1>3, <2>2, <2>4 DEF DecideCall, Goto, logVars, Moves, TypeInv, TypeOK, LogTypeOK
  <2> QED BY <2>3, <2>4
<1>4. CASE EmitDecided(r)
  <2> DEFINE e == CallEvent(r, "tool_permission_decided", cur[r], dec[r].decision)
             next == IF dec[r].decision = "allow" THEN "launch" ELSE "result"
  <2>1. NextEvent(r, e) /\ e.type = "tool_permission_decided"
    <3>1. dec[r].decision \in Infos
      BY <1>4 DEF EmitDecided, TypeInv, TypeOK, ScopeOK, Effects, Infos
    <3> QED BY <1>1, <3>1, CallTold
  <2>2. /\ pc[r] = "decided" /\ Emit(r, e, next) /\ next \in {"launch", "result"}
        /\ UNCHANGED <<calls, cur, retrying>>
    BY <1>4 DEF EmitDecided
  <2> HIDE DEF e, next
  <2>3. Tells(r, e, next)
    BY <1>1, <2>1, <2>2 DEF Tells
  <2> QED BY <2>3
<1>5. CASE Launch(r)
  <2> DEFINE e == CallEvent(r, "tool_execution_started", NoRequest, "")
             next == IF ToolOf[cur[r]] \in RegisteredTools THEN "execute" ELSE "result"
  <2>1. NextEvent(r, e) /\ e.type = "tool_execution_started"
    BY CallTold DEF Infos
  <2>2. /\ pc[r] = "launch" /\ Emit(r, e, next) /\ next \in {"execute", "result"}
        /\ UNCHANGED <<calls, cur, retrying>>
    BY <1>5 DEF Launch
  <2> HIDE DEF e, next
  <2>3. Tells(r, e, next)
    BY <1>1, <2>1, <2>2 DEF Tells
  <2> QED BY <2>3
<1>6. CASE EmitResult(r)
  <2> DEFINE e == CallEvent(r, "tool_result", NoRequest, status[r])
  <2>1. NextEvent(r, e) /\ e.type = "tool_result"
    BY <1>1, CallTold
  <2>2. pc[r] = "result" /\ Emit(r, e, "finish_call") /\ UNCHANGED <<calls, cur, retrying>>
    BY <1>6 DEF EmitResult, callVars
  <2> HIDE DEF e
  <2>3. Tells(r, e, "finish_call")
    BY <1>1, <2>1, <2>2 DEF Tells
  <2> QED BY <2>3
<1>7. CASE EmitFinished(r)
  <2> DEFINE e == CallEvent(r, "tool_execution_finished", NoRequest, status[r])
  <2>1. NextEvent(r, e) /\ e.type = "tool_execution_finished"
    BY <1>1, CallTold
  <2>2. pc[r] = "finish_call" /\ Emit(r, e, "outcome") /\ UNCHANGED <<calls, cur, retrying>>
    BY <1>7 DEF EmitFinished, callVars
  <2> HIDE DEF e
  <2>3. Tells(r, e, "outcome")
    BY <1>1, <2>1, <2>2 DEF Tells
  <2> QED BY <2>3
<1>8. CASE Answer(r) \/ Execute(r) \/ ToolRaises(r)
  BY <1>1, <1>8 DEF Answer, Execute, ToolRaises, Goto, Raise, logVars, Moves, TypeInv, TypeOK,
                    LogTypeOK
<1> QED BY <1>2, <1>3, <1>4, <1>5, <1>6, <1>7, <1>8 DEF ToolStep, ExecutorStep

LEMMA PlainStepKinds ==
  ASSUME TypeInv, NEW r \in Runs,
         \/ DeltaChunk(r) \/ EmitMessage(r) \/ ToolFailed(r) \/ NoMessage(r) \/ Complete(r)
         \/ EmitOpening(r) \/ EmitUser(r) \/ (MessageChunk(r) /\ ~sawDelta[r])
  PROVE  \E e, next : Tells(r, e, next)
<1> USE DEF Before, Unplaced, InCall, CallPcs, Pcs, CallTypes, TerminalTypes, EventTypes
<1>0. /\ message \in [Runs -> BOOLEAN] /\ sawDelta \in [Runs -> BOOLEAN]
      /\ UNCHANGED <<rid, calls, cur, retrying, toolUsed>>
  BY DEF DeltaChunk, EmitMessage, ToolFailed, NoMessage, Complete, Finish, EmitOpening, EmitUser,
         MessageChunk, idVars, callVars, turnVars, TypeInv, TypeOK, TurnTypeOK
<1>1. CASE DeltaChunk(r)
  <2> DEFINE e == Plain(r, "assistant_delta")
  <2>1. NextEvent(r, e) /\ e.type = "assistant_delta"
    BY PlainTold
  <2>2. Emit(r, e, "model") /\ pc[r] = "model" /\ UNCHANGED message
    BY <1>1 DEF DeltaChunk, TakeChunk
  <2> HIDE DEF e
  <2>3. Tells(r, e, "model")
    BY <1>0, <2>1, <2>2 DEF Tells
  <2> QED BY <2>3
<1>2. CASE MessageChunk(r) /\ ~sawDelta[r]
  <2> DEFINE e == Plain(r, "assistant_delta")
  <2>1. NextEvent(r, e) /\ e.type = "assistant_delta"
    BY PlainTold
  <2>2. Emit(r, e, "message") /\ pc[r] = "model" /\ UNCHANGED message
    BY <1>2 DEF MessageChunk, TakeChunk
  <2> HIDE DEF e
  <2>3. Tells(r, e, "message")
    BY <1>0, <2>1, <2>2 DEF Tells
  <2> QED BY <2>3
<1>3. CASE EmitMessage(r)
  <2> DEFINE e == Plain(r, "assistant_message")
  <2>1. NextEvent(r, e) /\ e.type = "assistant_message"
    BY PlainTold
  <2>2. Emit(r, e, "model") /\ pc[r] = "message" /\ message'[r] /\ ~sawDelta'[r]
    BY <1>0, <1>3 DEF EmitMessage
  <2> HIDE DEF e
  <2>3. Tells(r, e, "model")
    BY <1>0, <2>1, <2>2 DEF Tells
  <2> QED BY <2>3
<1>4. CASE ToolFailed(r) \/ NoMessage(r) \/ Complete(r)
  <2>1. PICK type \in TerminalTypes : Emit(r, Plain(r, type), "index")
    BY <1>4 DEF ToolFailed, NoMessage, Complete, Finish
  <2> DEFINE e == Plain(r, type)
  <2>2. NextEvent(r, e) /\ e.type \in TerminalTypes
    BY PlainTold
  <2>3. pc[r] \in {"model", "outcome"} /\ UNCHANGED <<message, sawDelta>>
    BY <1>4 DEF ToolFailed, NoMessage, Complete, Finish, turnVars
  <2> HIDE DEF e
  <2>4. Tells(r, e, "index")
    BY <1>0, <2>1, <2>2, <2>3 DEF Tells, e
  <2> QED BY <2>4
<1>5. CASE EmitOpening(r)
  <2>1. PICK type \in {"session_start", "session_resumed"} : Emit(r, Plain(r, type), "user")
    BY <1>5 DEF EmitOpening
  <2> DEFINE e == Plain(r, type)
  <2>2. NextEvent(r, e) /\ e.type \in {"session_start", "session_resumed"}
    BY PlainTold
  <2>3. pc[r] = "open" /\ UNCHANGED <<message, sawDelta>>
    BY <1>5 DEF EmitOpening, turnVars
  <2> HIDE DEF e
  <2>4. Tells(r, e, "user")
    BY <1>0, <2>1, <2>2, <2>3 DEF Tells, e
  <2> QED BY <2>4
<1>6. CASE EmitUser(r)
  <2>1. PICK next \in {"recover", "provider"} : Emit(r, Plain(r, "user_message"), next)
    BY <1>6 DEF EmitUser
  <2> DEFINE e == Plain(r, "user_message")
  <2>2. NextEvent(r, e) /\ e.type = "user_message"
    BY PlainTold
  <2>3. pc[r] = "user" /\ UNCHANGED <<message, sawDelta>>
    BY <1>6 DEF EmitUser, turnVars
  <2> HIDE DEF e
  <2>4. Tells(r, e, next)
    BY <1>0, <2>1, <2>2, <2>3 DEF Tells, e
  <2> QED BY <2>4
<1> QED BY <1>1, <1>2, <1>3, <1>4, <1>5, <1>6

LEMMA QuietStepKinds ==
  ASSUME TypeInv, NEW r \in Runs,
         \/ Bind(r) \/ Retry(r) \/ NothingToRetry(r) \/ Provider(r) \/ ToolChunk(r) \/ BadChunk(r)
         \/ ToolSucceeded(r) \/ UpdateIndex(r) \/ (MessageChunk(r) /\ sawDelta[r])
  PROVE  Moves(r)
<1> USE DEF Before, Unplaced, InCall, CallPcs, Ended
<1>0. /\ pc \in [Runs -> Pcs] /\ raised \in [Runs -> RaiseCauses] /\ toolUsed \in [Runs -> BOOLEAN]
      /\ UNCHANGED <<rid, message, sawDelta>>
  BY DEF Bind, Retry, NothingToRetry, Provider, ToolChunk, BadChunk, ToolSucceeded, UpdateIndex,
         MessageChunk, idVars, turnVars, TypeInv, TypeOK, LogTypeOK, TurnTypeOK
<1>1. CASE Retry(r) \/ ToolChunk(r)
  BY <1>0, <1>1 DEF Retry, ToolChunk, TakeChunk, Begin, Goto, logVars, Moves
<1>2. CASE Provider(r) \/ BadChunk(r)
  BY <1>0, <1>2 DEF Provider, BadChunk, TakeChunk, Raise, Goto, logVars, callVars, Moves
<1>3. CASE \/ Bind(r) \/ NothingToRetry(r) \/ ToolSucceeded(r) \/ UpdateIndex(r)
           \/ (MessageChunk(r) /\ sawDelta[r])
  BY <1>0, <1>3 DEF Bind, NothingToRetry, ToolSucceeded, UpdateIndex, MessageChunk, TakeChunk,
                    Goto, logVars, callVars, turnVars, Moves
<1> QED BY <1>1, <1>2, <1>3

\* The kinds of steps.
LEMMA StepKinds ==
  ASSUME TypeInv, NEW r \in Runs, RunStep(r)
  PROVE  (\E e, next : Tells(r, e, next)) \/ Moves(r) \/ Places(r)
<1>1. CASE ToolStep(r)
  BY <1>1, ToolStepKinds
<1>2. CASE TurnStep(r)
  BY <1>2, PlainStepKinds, QuietStepKinds DEF TurnStep
<1>3. CASE EmitOpening(r) \/ EmitUser(r) \/ Bind(r) \/ Retry(r) \/ NothingToRetry(r)
  BY <1>3, PlainStepKinds, QuietStepKinds
<1>4. CASE ChooseRunId(r) \/ Load(r)
  BY <1>4 DEF ChooseRunId, Load, LoadSeq, LoadParent, Goto, logVars, idVars, callVars, turnVars,
              Before, Unplaced, Places, TypeInv, TypeOK, LogTypeOK
<1> QED BY <1>1, <1>2, <1>3, <1>4 DEF RunStep
-----------------------------------------------------------------------------
(* The turn state machine is never asked for a transition it refuses: it   *)
(* raises an exception instead of returning an error, so the argument is   *)
(* about where a run stands. Its program counter determines the states its *)
(* machine may be in.                                                      *)

\* The states of the machine at a point of the run.
Fits(p, state) ==
  /\ p \in {"idle", "run_id", "load_seq", "load_parent", "bind", "open"} => state = "init"
  /\ p = "user" => state = "started"
  /\ p = "recover" => state = "user"
  /\ p = "provider" => state \in {"user", "tool_result"}
  /\ p \in {"model", "message", "request"} => state \in OpenStates
  /\ p = "decide" => state = "tool_requested"
  /\ p = "answer" => state = "tool_required"
  /\ p = "decided" => state \in {"tool_requested", "tool_required"}
  /\ p = "launch" => state = "tool_decided"
  /\ p = "execute" => state = "tool_running"
  /\ p = "result" => state \in {"tool_decided", "tool_running"}
  /\ p \in {"finish_call", "outcome"} => state = "tool_result"

Closed == {"index"} \cup Ended

InStep(r) ==
  /\ Fits(pc[r], fsm[r])
  /\ term[r] => pc[r] \in Closed
  /\ raised[r] \notin {"terminal", "fsm"}

TurnInv == TypeInv /\ \A r \in Runs : InStep(r)

\* An emission the machine accepts, before any terminal event, is legal and
\* leaves the run in step.
LEMMA EmitInStep ==
  ASSUME TurnInv, NEW r \in Runs, NEW type, NEW tc, NEW q, NEW info, NEW next \in Pcs,
         Emit(r, Event(r, type, tc, q, info), next),
         pc[r] \notin Closed, Accepts(fsm[r], type), Fits(next, Target(type)),
         type \in TerminalTypes => next = "index"
  PROVE  \A o \in Runs : InStep(o)'
<1> DEFINE e == Event(r, type, tc, q, info)
<1>0. e.type = type /\ Emit(r, e, next)
  BY DEF Event
<1> HIDE DEF e
<1>1. ~term[r]
  BY DEF TurnInv, InStep
<1>2. Legal(r, e)
  BY <1>0, <1>1 DEF Legal, SecondTerminal
<1>3. /\ pc' = [pc EXCEPT ![r] = next]
      /\ fsm' = [fsm EXCEPT ![r] = Target(type)]
      /\ term' = [term EXCEPT ![r] = @ \/ type \in TerminalTypes]
      /\ raised' = [raised EXCEPT ![r] = @]
  BY <1>0, <1>2 DEF Emit
<1>4. InStep(r)'
  <2>1. Fits(pc'[r], fsm'[r])
    BY <1>3 DEF TurnInv, TypeInv, TypeOK, LogTypeOK
  <2>2. term'[r] => pc'[r] \in Closed
    BY <1>1, <1>3 DEF TurnInv, TypeInv, TypeOK, LogTypeOK, Closed
  <2>3. raised'[r] \notin {"terminal", "fsm"}
    BY <1>3 DEF TurnInv, TypeInv, TypeOK, LogTypeOK, InStep
  <2> QED BY <2>1, <2>2, <2>3 DEF InStep
<1>5. ASSUME NEW o \in Runs \ {r} PROVE InStep(o)'
  <2>1. pc'[o] = pc[o] /\ fsm'[o] = fsm[o] /\ term'[o] = term[o] /\ raised'[o] = raised[o]
    BY <1>3 DEF TurnInv, TypeInv, TypeOK, LogTypeOK
  <2>2. InStep(o)
    BY DEF TurnInv
  <2> QED BY <2>1, <2>2 DEF InStep
<1> QED BY <1>4, <1>5

\* A step that emits nothing leaves the run in step if its machine fits the
\* place control moves to.
LEMMA MoveInStep ==
  ASSUME TurnInv, NEW r \in Runs, NEW next \in Pcs,
         pc' = [pc EXCEPT ![r] = next], UNCHANGED <<fsm, term>>,
         \/ raised' = raised
         \/ \E why \in RaiseCauses \ {"terminal", "fsm"} : raised' = [raised EXCEPT ![r] = why],
         Fits(next, fsm[r]), pc[r] \in Closed => next \in Closed
  PROVE  \A o \in Runs : InStep(o)'
<1>1. InStep(r)'
  <2>1. Fits(pc'[r], fsm'[r])
    BY DEF TurnInv, TypeInv, TypeOK, LogTypeOK
  <2>2. term'[r] => pc'[r] \in Closed
    BY DEF TurnInv, TypeInv, TypeOK, LogTypeOK, InStep
  <2>3. raised'[r] \notin {"terminal", "fsm"}
    BY DEF TurnInv, TypeInv, TypeOK, LogTypeOK, InStep
  <2> QED BY <2>1, <2>2, <2>3 DEF InStep
<1>2. ASSUME NEW o \in Runs \ {r} PROVE InStep(o)'
  <2>1. pc'[o] = pc[o] /\ fsm'[o] = fsm[o] /\ term'[o] = term[o] /\ raised'[o] = raised[o]
    BY DEF TurnInv, TypeInv, TypeOK, LogTypeOK
  <2>2. InStep(o)
    BY DEF TurnInv
  <2> QED BY <2>1, <2>2 DEF InStep
<1> QED BY <1>1, <1>2
-----------------------------------------------------------------------------
(* One step of each kind. *)

LEMMA ToolStepInStep ==
  ASSUME TurnInv, NEW r \in Runs, ToolStep(r)
  PROVE  \A o \in Runs : InStep(o)'
<1> USE DEF Fits, Closed, Ended, Pcs, CallPcs, Target
<1>0. InStep(r)
  BY DEF TurnInv
<1>1. CASE Request(r)
  <2>1. /\ pc[r] \notin Closed /\ Accepts(fsm[r], "tool_call_requested")
        /\ "decide" \in Pcs /\ Fits("decide", Target("tool_call_requested")) /\ "tool_call_requested" \notin TerminalTypes
    BY <1>0, <1>1 DEF Request, InStep, Accepts, TerminalTypes
  <2> QED BY <1>1, <2>1, EmitInStep DEF Request, CallEvent
<1>2. CASE DecideCall(r)
  <2>1. CASE Provisional(r).decision = "ask"
    <3>1. /\ pc[r] \notin Closed /\ Accepts(fsm[r], "tool_permission_required")
          /\ "answer" \in Pcs /\ Fits("answer", Target("tool_permission_required"))
          /\ "tool_permission_required" \notin TerminalTypes
      BY <1>0, <1>2 DEF DecideCall, InStep, Accepts, TerminalTypes
    <3> QED BY <1>2, <2>1, <3>1, EmitInStep DEF DecideCall, CallEvent
  <2>2. CASE Provisional(r).decision # "ask"
    <3>1. pc' = [pc EXCEPT ![r] = "decided"] /\ UNCHANGED <<fsm, term, raised>>
      BY <1>2, <2>2 DEF DecideCall, Goto, logVars
    <3>2. Fits("decided", fsm[r]) /\ pc[r] \notin Closed /\ "decided" \in Pcs
      BY <1>0, <1>2 DEF DecideCall, InStep
    <3> QED BY <3>1, <3>2, MoveInStep
  <2> QED BY <2>1, <2>2
<1>3. CASE Answer(r)
  <2>1. pc' = [pc EXCEPT ![r] = "decided"] /\ UNCHANGED <<fsm, term, raised>>
    BY <1>3 DEF Answer, Goto, logVars
  <2>2. Fits("decided", fsm[r]) /\ pc[r] \notin Closed /\ "decided" \in Pcs
    BY <1>0, <1>3 DEF Answer, InStep
  <2> QED BY <2>1, <2>2, MoveInStep
<1>4. CASE EmitDecided(r)
  <2>1. PICK next \in {"launch", "result"} :
          Emit(r, Event(r, "tool_permission_decided", calls[r], cur[r], dec[r].decision), next)
    BY <1>4 DEF EmitDecided, CallEvent
  <2>2. /\ pc[r] \notin Closed /\ Accepts(fsm[r], "tool_permission_decided")
        /\ next \in Pcs /\ Fits(next, Target("tool_permission_decided")) /\ "tool_permission_decided" \notin TerminalTypes
    BY <1>0, <1>4 DEF EmitDecided, InStep, Accepts, TerminalTypes
  <2> QED BY <2>1, <2>2, EmitInStep
<1>5. CASE Launch(r)
  <2>1. PICK next \in {"execute", "result"} :
          Emit(r, Event(r, "tool_execution_started", calls[r], NoRequest, ""), next)
    BY <1>5 DEF Launch, CallEvent
  <2>2. /\ pc[r] \notin Closed /\ Accepts(fsm[r], "tool_execution_started")
        /\ next \in Pcs /\ Fits(next, Target("tool_execution_started")) /\ "tool_execution_started" \notin TerminalTypes
    BY <1>0, <1>5 DEF Launch, InStep, Accepts, TerminalTypes
  <2> QED BY <2>1, <2>2, EmitInStep
<1>6. CASE Execute(r)
  <2>1. pc' = [pc EXCEPT ![r] = "result"] /\ UNCHANGED <<fsm, term, raised>>
    BY <1>6 DEF Execute, Goto, logVars
  <2>2. Fits("result", fsm[r]) /\ pc[r] \notin Closed /\ "result" \in Pcs
    BY <1>0, <1>6 DEF Execute, InStep
  <2> QED BY <2>1, <2>2, MoveInStep
<1>7. CASE ToolRaises(r)
  <2>1. /\ pc' = [pc EXCEPT ![r] = "exited"] /\ raised' = [raised EXCEPT ![r] = "tool"]
        /\ UNCHANGED <<fsm, term>>
    BY <1>7 DEF ToolRaises, Raise, logVars
  <2>2. Fits("exited", fsm[r]) /\ "exited" \in Closed /\ "exited" \in Pcs
    OBVIOUS
  <2> QED BY <2>1, <2>2, MoveInStep DEF RaiseCauses
<1>8. CASE EmitResult(r)
  <2>1. /\ pc[r] \notin Closed /\ Accepts(fsm[r], "tool_result")
        /\ "finish_call" \in Pcs /\ Fits("finish_call", Target("tool_result")) /\ "tool_result" \notin TerminalTypes
    BY <1>0, <1>8 DEF EmitResult, InStep, Accepts, TerminalTypes
  <2> QED BY <1>8, <2>1, EmitInStep DEF EmitResult, CallEvent
<1>9. CASE EmitFinished(r)
  <2>1. /\ pc[r] \notin Closed /\ Accepts(fsm[r], "tool_execution_finished")
        /\ "outcome" \in Pcs /\ Fits("outcome", Target("tool_execution_finished")) /\ "tool_execution_finished" \notin TerminalTypes
    BY <1>0, <1>9 DEF EmitFinished, InStep, Accepts, TerminalTypes
  <2> QED BY <1>9, <2>1, EmitInStep DEF EmitFinished, CallEvent
<1> QED BY <1>1, <1>2, <1>3, <1>4, <1>5, <1>6, <1>7, <1>8, <1>9 DEF ToolStep, ExecutorStep

LEMMA StartInStep ==
  ASSUME TurnInv, NEW r \in Runs, Start(r)
  PROVE  \A o \in Runs : InStep(o)'
<1>1. pc[r] = "idle" /\ UNCHANGED <<fsm, term>>
  BY DEF Start, MayStart, Goto, logVars
<1>2. \/ pc' = [pc EXCEPT ![r] = "run_id"] /\ raised' = raised
      \/ pc' = [pc EXCEPT ![r] = "exited"] /\ raised' = [raised EXCEPT ![r] = "no_session"]
  BY DEF Start, Goto, Raise
<1>3. pc[r] \notin Closed /\ Fits("run_id", fsm[r]) /\ Fits("exited", fsm[r])
  BY <1>1 DEF TurnInv, InStep, Fits, Closed, Ended
<1> QED BY <1>1, <1>2, <1>3, MoveInStep DEF Pcs, Ended, RaiseCauses

\* From the choice of the run id to the bound session nothing is emitted.
LEMMA BindingInStep ==
  ASSUME TurnInv, NEW r \in Runs, ChooseRunId(r) \/ Load(r) \/ Bind(r)
  PROVE  \A o \in Runs : InStep(o)'
<1>1. /\ pc[r] \in {"run_id", "load_seq", "load_parent", "bind"}
      /\ UNCHANGED <<fsm, term, raised>>
  BY DEF ChooseRunId, Load, LoadSeq, LoadParent, Bind, Goto, logVars
<1>2. PICK next \in {"load_seq", "load_parent", "bind", "open"} : pc' = [pc EXCEPT ![r] = next]
  BY DEF ChooseRunId, Load, LoadSeq, LoadParent, Bind, Goto
<1>3. pc[r] \notin Closed /\ Fits(next, fsm[r]) /\ next \in Pcs
  BY <1>1 DEF TurnInv, InStep, Fits, Closed, Ended, Pcs
<1> QED BY <1>1, <1>2, <1>3, MoveInStep

LEMMA OpeningInStep ==
  ASSUME TurnInv, NEW r \in Runs,
         EmitOpening(r) \/ EmitUser(r) \/ Retry(r) \/ NothingToRetry(r)
  PROVE  \A o \in Runs : InStep(o)'
<1> USE DEF Fits, Closed, Ended, Pcs, CallPcs, Target
<1>0. InStep(r)
  BY DEF TurnInv
<1>1. CASE EmitOpening(r)
  <2>1. PICK type \in {"session_resumed", "session_start"} :
          Emit(r, Event(r, type, 0, NoRequest, ""), "user")
    BY <1>1 DEF EmitOpening, Plain
  <2>2. pc[r] \notin Closed /\ Accepts(fsm[r], type) /\ type \notin TerminalTypes
    BY <1>0, <1>1 DEF EmitOpening, InStep, Accepts, TerminalTypes
  <2>3. Fits("user", Target(type)) /\ "user" \in Pcs
    OBVIOUS
  <2> QED BY <2>1, <2>2, <2>3, EmitInStep
<1>2. CASE EmitUser(r)
  <2>1. PICK next \in {"recover", "provider"} :
          Emit(r, Event(r, "user_message", 0, NoRequest, ""), next)
    BY <1>2 DEF EmitUser, Plain
  <2>2. /\ pc[r] \notin Closed /\ Accepts(fsm[r], "user_message")
        /\ "user_message" \notin TerminalTypes /\ Fits(next, Target("user_message")) /\ next \in Pcs
    BY <1>0, <1>2 DEF EmitUser, InStep, Accepts, TerminalTypes
  <2> QED BY <2>1, <2>2, EmitInStep
<1>3. CASE Retry(r) \/ NothingToRetry(r)
  <2>1. PICK next \in {"request", "provider"} :
          pc' = [pc EXCEPT ![r] = next] /\ UNCHANGED <<fsm, term, raised>>
    BY <1>3 DEF Retry, NothingToRetry, Goto, logVars
  <2>2. pc[r] \notin Closed /\ Fits(next, fsm[r]) /\ next \in Pcs
    BY <1>0, <1>3 DEF Retry, NothingToRetry, InStep, OpenStates
  <2> QED BY <2>1, <2>2, MoveInStep
<1> QED BY <1>1, <1>2, <1>3

LEMMA TurnStepInStep ==
  ASSUME TurnInv, NEW r \in Runs, TurnStep(r)
  PROVE  \A o \in Runs : InStep(o)'
<1> USE DEF Fits, Closed, Ended, Pcs, CallPcs, Target
<1>0. InStep(r)
  BY DEF TurnInv
<1>1. CASE \/ Provider(r) \/ ToolChunk(r) \/ BadChunk(r) \/ ToolSucceeded(r) \/ UpdateIndex(r)
           \/ (MessageChunk(r) /\ sawDelta[r])
  <2>1. PICK next \in {"model", "exited", "request", "provider", "message"} :
          /\ pc' = [pc EXCEPT ![r] = next] /\ UNCHANGED <<fsm, term>>
          /\ next = "message" => pc[r] = "model"
          /\ next = "request" => pc[r] = "model"
          /\ next \in {"model", "provider"} => pc[r] \in {"provider", "outcome"}
          /\ next = "provider" => pc[r] = "outcome"
          /\ next # "exited" => pc[r] \in {"model", "provider", "outcome"}
    BY <1>1 DEF Provider, ToolChunk, TakeChunk, BadChunk, ToolSucceeded, UpdateIndex,
                MessageChunk, Goto, Raise, logVars
  <2>2. \/ raised' = raised
        \/ \E why \in {"provider", "chunk"} : raised' = [raised EXCEPT ![r] = why]
    BY <1>1 DEF Provider, ToolChunk, BadChunk, ToolSucceeded, UpdateIndex, MessageChunk, Goto, Raise
  <2>3. next \in Pcs /\ Fits(next, fsm[r]) /\ (pc[r] \in Closed => next \in Closed)
    BY <1>0, <2>1 DEF InStep, OpenStates
  <2> QED BY <2>1, <2>2, <2>3, MoveInStep DEF RaiseCauses
<1>2. CASE DeltaChunk(r) \/ (MessageChunk(r) /\ ~sawDelta[r])
  <2>1. PICK next \in {"model", "message"} :
          Emit(r, Event(r, "assistant_delta", 0, NoRequest, ""), next)
    BY <1>2 DEF DeltaChunk, MessageChunk, Plain
  <2>2. /\ pc[r] \notin Closed /\ Accepts(fsm[r], "assistant_delta")
        /\ "assistant_delta" \notin TerminalTypes
        /\ Fits(next, Target("assistant_delta")) /\ next \in Pcs
    BY <1>0, <1>2 DEF DeltaChunk, MessageChunk, TakeChunk, InStep, Accepts, TerminalTypes,
                      OpenStates
  <2> QED BY <2>1, <2>2, EmitInStep
<1>3. CASE EmitMessage(r)
  <2>1. Emit(r, Event(r, "assistant_message", 0, NoRequest, ""), "model")
    BY <1>3 DEF EmitMessage, Plain
  <2>2. /\ pc[r] \notin Closed /\ Accepts(fsm[r], "assistant_message")
        /\ "assistant_message" \notin TerminalTypes
        /\ Fits("model", Target("assistant_message")) /\ "model" \in Pcs
    BY <1>0, <1>3 DEF EmitMessage, InStep, Accepts, TerminalTypes, OpenStates
  <2> QED BY <2>1, <2>2, EmitInStep
<1>4. CASE ToolFailed(r) \/ NoMessage(r) \/ Complete(r)
  <2>1. PICK type \in TerminalTypes : Emit(r, Event(r, type, 0, NoRequest, ""), "index")
    BY <1>4 DEF ToolFailed, NoMessage, Complete, Finish, Plain, TerminalTypes
  <2>2. pc[r] \notin Closed /\ Accepts(fsm[r], type)
    BY <1>4 DEF ToolFailed, NoMessage, Complete, Accepts
  <2>3. Fits("index", Target(type)) /\ "index" \in Pcs
    OBVIOUS
  <2> QED BY <2>1, <2>2, <2>3, EmitInStep
<1> QED BY <1>1, <1>2, <1>3, <1>4 DEF TurnStep

LEMMA IoFailsInStep ==
  ASSUME TurnInv, NEW r \in Runs, IoFails(r)
  PROVE  \A o \in Runs : InStep(o)'
<1>1. /\ pc' = [pc EXCEPT ![r] = "exited"] /\ raised' = [raised EXCEPT ![r] = "io"]
      /\ UNCHANGED <<fsm, term>>
  BY DEF IoFails, Raise, logVars
<1>2. "exited" \in Pcs /\ "exited" \in Closed /\ Fits("exited", fsm[r])
  BY DEF Pcs, Closed, Ended, Fits
<1>3. "io" \in RaiseCauses \ {"terminal", "fsm"}
  BY DEF RaiseCauses
<1> QED BY <1>1, <1>2, <1>3, MoveInStep

LEMMA KillInStep ==
  ASSUME TurnInv, NEW r \in Runs, Kill(r)
  PROVE  \A o \in Runs : InStep(o)'
<1>1. pc' = [pc EXCEPT ![r] = "crashed"] /\ UNCHANGED <<fsm, term, raised>>
  BY DEF Kill, logVars
<1>2. "crashed" \in Pcs /\ "crashed" \in Closed /\ Fits("crashed", fsm[r])
  BY DEF Pcs, Closed, Ended, Fits
<1> QED BY <1>1, <1>2, MoveInStep

\* No run ever ends in the exception of an illegal transition or of a second
\* terminal event: the checks TurnStateMachine.transition and _emit make on
\* every event never fail, for any provider answer, any permission decision,
\* any interleaving of processes and any kill.
THEOREM TransitionsLegal == Spec => []NoIllegalTransition
<1>1. Init => TurnInv
  <2>1. Init => \A r \in Runs : InStep(r)
    BY DEF Init, InStep, Fits
  <2> QED BY <2>1, InitTypes DEF TurnInv
<1>2. TurnInv /\ [Next]_vars => TurnInv'
  <2> SUFFICES ASSUME TurnInv, [Next]_vars PROVE TurnInv'
    OBVIOUS
  <2>1. TypeInv'
    BY NextTypes DEF TurnInv
  <2>2. CASE UNCHANGED vars
    BY <2>1, <2>2 DEF TurnInv, InStep, vars, logVars, ctlVars
  <2>3. ASSUME NEW r \in Runs, Start(r) PROVE TurnInv'
    BY <2>1, <2>3, StartInStep DEF TurnInv
  <2>4. ASSUME NEW r \in Runs, RunStep(r) PROVE TurnInv'
    BY <2>1, <2>4, BindingInStep, OpeningInStep, ToolStepInStep, TurnStepInStep DEF TurnInv, RunStep
  <2>5. ASSUME NEW r \in Runs, IoFails(r) \/ Kill(r) PROVE TurnInv'
    BY <2>1, <2>5, IoFailsInStep, KillInStep DEF TurnInv
  <2> QED BY <2>2, <2>3, <2>4, <2>5 DEF Next, AllDone
<1>3. TurnInv => NoIllegalTransition
  BY DEF TurnInv, InStep, NoIllegalTransition
<1> QED BY <1>1, <1>2, <1>3, PTL DEF Spec
-----------------------------------------------------------------------------
(***************************************************************************)
(* The transcript as an audit trail: files only grow, and every execution  *)
(* of a tool is preceded on disk by its request, its allow and its start,  *)
(* for any number of processes writing to the same file and any kill.      *)
(* The invariant says, for each point of a tool call, how much of the      *)
(* trail is already written; appends by others never take it away.         *)
(***************************************************************************)

\* Record x of the call tc of run b says `type` of the request q.
Says(x, b, tc, type, q) == x.by = b /\ x.tc = tc /\ x.type = type /\ x.req = q
Starts(x, b, tc) == x.by = b /\ x.tc = tc /\ x.type = "tool_execution_started"
Allows(x, b, tc, q) == Says(x, b, tc, "tool_permission_decided", q) /\ x.info = "allow"

\* The first one, two and three records of the trail of a call in session s.
Announced(b, s, tc, q) ==
  \E i \in DOMAIN transcript[s] : Says(transcript[s][i], b, tc, "tool_call_requested", q)

Allowed(b, s, tc, q) ==
  \E i, j \in DOMAIN transcript[s] :
    /\ i < j
    /\ Says(transcript[s][i], b, tc, "tool_call_requested", q)
    /\ Allows(transcript[s][j], b, tc, q)

Audited(b, s, tc, q) ==
  \E i, j, k \in DOMAIN transcript[s] :
    /\ i < j /\ j < k
    /\ Says(transcript[s][i], b, tc, "tool_call_requested", q)
    /\ Allows(transcript[s][j], b, tc, q)
    /\ Starts(transcript[s][k], b, tc)

\* What is written when run r stands inside a call.
Trail(r) ==
  persist[r] =>
    /\ pc[r] \in {"decide", "answer", "decided"} => Announced(r, sid[r], calls[r], cur[r])
    /\ pc[r] = "launch" => Allowed(r, sid[r], calls[r], cur[r])
    /\ pc[r] = "execute" => Audited(r, sid[r], calls[r], cur[r])

EffectsAudited ==
  \A e \in effects : persist[e.by] => Audited(e.by, e.sid, e.tc, e.req)

IdleRunsActNot == \A e \in effects : pc[e.by] # "idle"

AuditInv == TypeInv /\ EffectsAudited /\ IdleRunsActNot /\ \A r \in Runs : Trail(r)
-----------------------------------------------------------------------------
(* Files only grow. *)

\* A file keeps its records in place when one is appended.
LEMMA AppendKeeps ==
  ASSUME NEW S, NEW log \in Seq(S), NEW x
  PROVE  /\ Len(Append(log, x)) = Len(log) + 1
         /\ DOMAIN Append(log, x) = 1..(Len(log) + 1)
         /\ \A i \in 1..Len(log) : Append(log, x)[i] = log[i]
         /\ Append(log, x)[Len(log) + 1] = x
OBVIOUS

Grew ==
  \A s \in Sessions :
    transcript'[s] = transcript[s] \/ \E x : transcript'[s] = Append(transcript[s], x)

LEMMA EmitGrows ==
  ASSUME TypeInv, NEW r \in Runs, NEW e, NEW next, Emit(r, e, next)
  PROVE  Grew
BY DEF Emit, AppendRecord, Grew, TypeInv, TypeOK, LogTypeOK

LEMMA StepGrows ==
  ASSUME TypeInv, [Next]_vars
  PROVE  Grew
<1>1. ASSUME UNCHANGED transcript PROVE Grew
  BY <1>1 DEF Grew
<1>2. ASSUME NEW r \in Runs, ToolStep(r) PROVE Grew
  BY <1>1, <1>2, EmitGrows
     DEF ToolStep, ExecutorStep, Request, DecideCall, Answer, EmitDecided, Launch, Execute,
         ToolRaises, EmitResult, EmitFinished, Goto, logVars
<1>3. ASSUME NEW r \in Runs, TurnStep(r) PROVE Grew
  BY <1>1, <1>3, EmitGrows
     DEF TurnStep, Provider, DeltaChunk, MessageChunk, EmitMessage, ToolChunk, BadChunk,
         ToolSucceeded, ToolFailed, NoMessage, Complete, Finish, UpdateIndex, Goto, logVars
<1>4. ASSUME NEW r \in Runs, RunStep(r) PROVE Grew
  BY <1>1, <1>2, <1>3, <1>4, EmitGrows
     DEF RunStep, ChooseRunId, Load, LoadSeq, LoadParent, Bind, EmitOpening, EmitUser, Retry,
         NothingToRetry, Goto, logVars
<1>5. ASSUME NEW r \in Runs, Start(r) \/ IoFails(r) \/ Kill(r) PROVE Grew
  BY <1>1, <1>5 DEF Start, IoFails, Kill, Goto, logVars
<1> QED BY <1>1, <1>4, <1>5 DEF Next, AllDone, vars, logVars

-----------------------------------------------------------------------------
(* What is on disk stays there. *)

LEMMA TrailsKept ==
  ASSUME TypeInv, Grew, NEW b, NEW s \in Sessions, NEW tc, NEW q
  PROVE  /\ Announced(b, s, tc, q) => Announced(b, s, tc, q)'
         /\ Allowed(b, s, tc, q) => Allowed(b, s, tc, q)'
         /\ Audited(b, s, tc, q) => Audited(b, s, tc, q)'
<1>1. transcript[s] \in Seq(Records)
  BY DEF TypeInv, TypeOK, LogTypeOK
<1>2. \A i \in DOMAIN transcript[s] :
        i \in DOMAIN transcript'[s] /\ transcript'[s][i] = transcript[s][i]
  <2>1. CASE transcript'[s] = transcript[s]
    BY <2>1
  <2>2. ASSUME NEW x, transcript'[s] = Append(transcript[s], x)
        PROVE  \A i \in DOMAIN transcript[s] :
                 i \in DOMAIN transcript'[s] /\ transcript'[s][i] = transcript[s][i]
    <3>1. DOMAIN transcript[s] = 1..Len(transcript[s]) /\ Len(transcript[s]) \in Nat
      BY <1>1
    <3> QED BY <1>1, <2>2, <3>1, AppendKeeps
  <2> QED BY <2>1, <2>2 DEF Grew
<1>3. Announced(b, s, tc, q) => Announced(b, s, tc, q)'
  BY <1>2 DEF Announced
<1>4. Allowed(b, s, tc, q) => Allowed(b, s, tc, q)'
  BY <1>2 DEF Allowed
<1>5. Audited(b, s, tc, q) => Audited(b, s, tc, q)'
  BY <1>2 DEF Audited
<1> QED BY <1>3, <1>4, <1>5

\* An emission after which the run goes on has written its record, at the end.
LEMMA EmitWrites ==
  ASSUME TypeInv, NEW r \in Runs, Live(r), persist[r], NEW e, NEW next, Emit(r, e, next),
         e.type \notin StreamOnlyTypes, pc'[r] # "exited"
  PROVE  transcript'[sid[r]] = Append(transcript[sid[r]], e)
<1>1. sid[r] \in Sessions
  BY DEF TypeInv, TypeOK, ScopeOK
<1>2. Legal(r, e)
  BY DEF Emit, TypeInv, TypeOK, LogTypeOK
<1>3. transcript' = [transcript EXCEPT ![sid[r]] = Append(@, e)]
  BY <1>2 DEF Emit, Written, AppendRecord
<1> QED BY <1>1, <1>3 DEF TypeInv, TypeOK, LogTypeOK

\* The next record of a trail extends it.
LEMMA TrailExtended ==
  ASSUME TypeInv, NEW s \in Sessions, NEW x, transcript'[s] = Append(transcript[s], x),
         NEW b, NEW tc, NEW q
  PROVE  /\ Says(x, b, tc, "tool_call_requested", q) => Announced(b, s, tc, q)'
         /\ Announced(b, s, tc, q) /\ Allows(x, b, tc, q) => Allowed(b, s, tc, q)'
         /\ Allowed(b, s, tc, q) /\ Starts(x, b, tc) => Audited(b, s, tc, q)'
<1> DEFINE n == Len(transcript[s])
<1>1. transcript[s] \in Seq(Records)
  BY DEF TypeInv, TypeOK, LogTypeOK
<1>2. /\ n \in Nat /\ DOMAIN transcript[s] = 1..n
      /\ DOMAIN transcript'[s] = 1..(n + 1)
      /\ transcript'[s][n + 1] = x
      /\ \A i \in 1..n : transcript'[s][i] = transcript[s][i]
  BY <1>1, AppendKeeps
<1> HIDE DEF n
<1>3. /\ n + 1 \in 1..(n + 1)
      /\ \A i \in 1..n : i \in 1..(n + 1) /\ i < n + 1
  BY <1>2
<1>4. Says(x, b, tc, "tool_call_requested", q) => Announced(b, s, tc, q)'
  BY <1>2, <1>3 DEF Announced
<1>5. Announced(b, s, tc, q) /\ Allows(x, b, tc, q) => Allowed(b, s, tc, q)'
  BY <1>2, <1>3 DEF Announced, Allowed
<1>6. Allowed(b, s, tc, q) /\ Starts(x, b, tc) => Audited(b, s, tc, q)'
  BY <1>2, <1>3 DEF Allowed, Audited
<1> QED BY <1>4, <1>5, <1>6

\* A step of a run leaves other runs where they are and its own configuration
\* alone.
LEMMA RunStepFrame ==
  ASSUME TypeInv, NEW r \in Runs, RunStep(r)
  PROVE  /\ pc[r] # "idle" /\ Live(r)
         /\ UNCHANGED <<sid, persist>>
         /\ pc'[r] # "idle"
         /\ \A o \in Runs \ {r} : pc'[o] = pc[o] /\ calls'[o] = calls[o] /\ cur'[o] = cur[o]
<1>1. pc[r] # "idle" /\ Live(r)
  BY DEF RunStep, ChooseRunId, Load, LoadSeq, LoadParent, Bind, EmitOpening, EmitUser, Retry,
         NothingToRetry, ToolStep, ExecutorStep, Request, DecideCall, Answer, EmitDecided, Launch,
         Execute, ToolRaises, EmitResult, EmitFinished, TurnStep, Provider, DeltaChunk,
         MessageChunk, EmitMessage, ToolChunk, BadChunk, TakeChunk, ToolSucceeded, ToolFailed,
         NoMessage, Complete, UpdateIndex, Live, Ended
<1>2. UNCHANGED <<sid, persist>>
  BY DEF RunStep, ChooseRunId, Load, Bind, EmitOpening, EmitUser, Retry, NothingToRetry,
         ToolStep, TurnStep, Provider, DeltaChunk, MessageChunk, EmitMessage, ToolChunk, BadChunk,
         ToolSucceeded, ToolFailed, NoMessage, Complete, Finish, UpdateIndex, confVars, idVars
<1>3. \A o \in Runs \ {r} : calls'[o] = calls[o] /\ cur'[o] = cur[o]
  BY DEF RunStep, ChooseRunId, Load, Bind, EmitOpening, EmitUser, Retry, NothingToRetry,
         ToolStep, ExecutorStep, Request, DecideCall, Answer, EmitDecided, Launch,
         Execute, ToolRaises, EmitResult, EmitFinished, TurnStep, Provider, DeltaChunk,
         MessageChunk, EmitMessage, ToolChunk, BadChunk, Begin,
         ToolSucceeded, ToolFailed, NoMessage, Complete, Finish, UpdateIndex, callVars,
         TypeInv, TypeOK, CallTypeOK
<1>4. \E next \in Pcs \ {"idle"} : pc' = [pc EXCEPT ![r] = next]
  <2>1. \A e : \A next \in Pcs \ {"idle"} :
          Emit(r, e, next) => \E n \in Pcs \ {"idle"} : pc' = [pc EXCEPT ![r] = n]
    BY DEF Emit, Pcs, Ended
  <2>2. \A next \in Pcs \ {"idle"} :
          Goto(r, next) => \E n \in Pcs \ {"idle"} : pc' = [pc EXCEPT ![r] = n]
    BY DEF Goto
  <2>3. \A why : Raise(r, why) => \E n \in Pcs \ {"idle"} : pc' = [pc EXCEPT ![r] = n]
    BY DEF Raise, Pcs, Ended
  <2>4. CASE ToolStep(r)
    BY <2>1, <2>2, <2>3, <2>4
       DEF ToolStep, ExecutorStep, Request, DecideCall, Answer, EmitDecided, Launch, Execute,
           ToolRaises, EmitResult, EmitFinished, Pcs, CallPcs
  <2>5. CASE TurnStep(r)
    BY <2>1, <2>2, <2>3, <2>5
       DEF TurnStep, Provider, DeltaChunk, MessageChunk, EmitMessage, ToolChunk, BadChunk,
           ToolSucceeded, ToolFailed, NoMessage, Complete, Finish, UpdateIndex, Pcs, CallPcs, Ended
  <2>6. CASE \/ ChooseRunId(r) \/ Load(r) \/ Bind(r) \/ EmitOpening(r) \/ EmitUser(r)
             \/ Retry(r) \/ NothingToRetry(r)
    BY <2>1, <2>2, <2>6
       DEF ChooseRunId, Load, LoadSeq, LoadParent, Bind, EmitOpening, EmitUser, Retry,
           NothingToRetry, Pcs, CallPcs
  <2> QED BY <2>4, <2>5, <2>6 DEF RunStep
<1>5. pc'[r] # "idle" /\ \A o \in Runs \ {r} : pc'[o] = pc[o]
  BY <1>4 DEF TypeInv, TypeOK, LogTypeOK
<1> QED BY <1>1, <1>2, <1>3, <1>5
-----------------------------------------------------------------------------
(* The trail of the call in progress, and of every execution. *)

TrailPcs == {"decide", "answer", "decided", "launch", "execute"}

LEMMA CallTrail ==
  ASSUME AuditInv, NEW r \in Runs, RunStep(r), Grew
  PROVE  Trail(r)'
<1> SUFFICES ASSUME persist[r], pc'[r] \in TrailPcs PROVE Trail(r)'
  <2>1. persist'[r] = persist[r]
    BY RunStepFrame DEF AuditInv
  <2> QED BY <2>1 DEF Trail, TrailPcs
<1> DEFINE s == sid[r]
<1>1. /\ TypeInv /\ Trail(r) /\ Live(r) /\ s \in Sessions /\ UNCHANGED <<sid, persist>>
  BY RunStepFrame DEF AuditInv, TypeInv, TypeOK, ScopeOK
<1>2. pc'[r] # "exited"
  BY DEF TrailPcs
<1>3. CASE Request(r)
  <2> DEFINE x == Event(r, "tool_call_requested", calls[r], cur[r], "")
  <2>1. /\ Emit(r, x, "decide") /\ pc'[r] = "decide" /\ UNCHANGED <<calls, cur>>
    BY <1>2, <1>3, <1>1 DEF Request, CallEvent, Emit, callVars, TypeInv, TypeOK, LogTypeOK
  <2>2. Says(x, r, calls[r], "tool_call_requested", cur[r]) /\ x.type \notin StreamOnlyTypes
    BY DEF Says, Event, StreamOnlyTypes
  <2> HIDE DEF x
  <2>3. Announced(r, s, calls[r], cur[r])'
    <3>1. transcript'[s] = Append(transcript[s], x)
      BY <1>1, <1>2, <2>1, <2>2, EmitWrites
    <3>2. \A tc, q : Says(x, r, tc, "tool_call_requested", q) =>
             \E i \in DOMAIN transcript'[s] : Says(transcript'[s][i], r, tc, "tool_call_requested", q)
      BY <1>1, <3>1, TrailExtended DEF Announced
    <3> QED BY <1>1, <2>1, <2>2, <3>2 DEF Announced
  <2> QED BY <1>1, <2>1, <2>3 DEF Trail
<1>4. CASE DecideCall(r) \/ Answer(r)
  <2>1. /\ pc[r] \in {"decide", "answer"} /\ pc'[r] \in {"answer", "decided"}
        /\ UNCHANGED <<calls, cur>>
    BY <1>1, <1>2, <1>4 DEF DecideCall, Answer, Emit, Goto, TypeInv, TypeOK, LogTypeOK
  <2>2. Announced(r, s, calls[r], cur[r])
    BY <1>1, <2>1 DEF Trail
  <2>3. Announced(r, s, calls[r], cur[r])'
    <3>1. \A tc, q : Announced(r, s, tc, q) =>
             \E i \in DOMAIN transcript'[s] : Says(transcript'[s][i], r, tc, "tool_call_requested", q)
      BY <1>1, TrailsKept DEF Announced
    <3> QED BY <1>1, <2>1, <2>2, <3>1 DEF Announced
  <2> QED BY <1>1, <2>1, <2>3 DEF Trail
<1>5. CASE EmitDecided(r)
  <2> DEFINE x == Event(r, "tool_permission_decided", calls[r], cur[r], dec[r].decision)
  <2>1. /\ pc[r] = "decided" /\ pc'[r] = "launch" /\ dec[r].decision = "allow"
        /\ Emit(r, x, "launch") /\ UNCHANGED <<calls, cur>>
    BY <1>1, <1>2, <1>5
       DEF EmitDecided, CallEvent, Emit, TypeInv, TypeOK, LogTypeOK, TrailPcs
  <2>2. Allows(x, r, calls[r], cur[r]) /\ x.type \notin StreamOnlyTypes
    BY <2>1 DEF Allows, Says, Event, StreamOnlyTypes
  <2> HIDE DEF x
  <2>3. Announced(r, s, calls[r], cur[r])
    BY <1>1, <2>1 DEF Trail
  <2>4. Allowed(r, s, calls[r], cur[r])'
    <3>1. transcript'[s] = Append(transcript[s], x)
      BY <1>1, <1>2, <2>1, <2>2, EmitWrites
    <3>2. \A tc, q : Announced(r, s, tc, q) /\ Allows(x, r, tc, q) =>
             \E i, j \in DOMAIN transcript'[s] :
               /\ i < j
               /\ Says(transcript'[s][i], r, tc, "tool_call_requested", q)
               /\ Allows(transcript'[s][j], r, tc, q)
      BY <1>1, <3>1, TrailExtended DEF Allowed
    <3> QED BY <1>1, <2>1, <2>2, <2>3, <3>2 DEF Allowed
  <2> QED BY <1>1, <2>1, <2>4 DEF Trail
<1>6. CASE Launch(r)
  <2> DEFINE x == Event(r, "tool_execution_started", calls[r], NoRequest, "")
  <2>1. /\ pc[r] = "launch" /\ pc'[r] = "execute"
        /\ Emit(r, x, "execute") /\ UNCHANGED <<calls, cur>>
    BY <1>1, <1>2, <1>6 DEF Launch, CallEvent, Emit, TypeInv, TypeOK, LogTypeOK, TrailPcs
  <2>2. Starts(x, r, calls[r]) /\ x.type \notin StreamOnlyTypes
    BY DEF Starts, Event, StreamOnlyTypes
  <2> HIDE DEF x
  <2>3. Allowed(r, s, calls[r], cur[r])
    BY <1>1, <2>1 DEF Trail
  <2>4. Audited(r, s, calls[r], cur[r])'
    <3>1. transcript'[s] = Append(transcript[s], x)
      BY <1>1, <1>2, <2>1, <2>2, EmitWrites
    <3>2. \A tc, q : Allowed(r, s, tc, q) /\ Starts(x, r, tc) =>
             \E i, j, k \in DOMAIN transcript'[s] :
               /\ i < j /\ j < k
               /\ Says(transcript'[s][i], r, tc, "tool_call_requested", q)
               /\ Allows(transcript'[s][j], r, tc, q)
               /\ Starts(transcript'[s][k], r, tc)
      BY <1>1, <3>1, TrailExtended, ZenonT(60) DEF Audited
    <3> QED BY <1>1, <2>1, <2>2, <2>3, <3>2 DEF Audited
  <2> QED BY <1>1, <2>1, <2>4 DEF Trail
<1>7. CASE Execute(r) \/ ToolRaises(r) \/ EmitResult(r) \/ EmitFinished(r)
  <2>1. pc'[r] \in {"result", "exited", "finish_call", "outcome"}
    BY <1>1, <1>7 DEF Execute, ToolRaises, EmitResult, EmitFinished, Emit, Goto, Raise,
                      TypeInv, TypeOK, LogTypeOK
  <2> QED BY <2>1 DEF TrailPcs
<1>8. CASE TurnStep(r)
  <2>1. pc'[r] \in {"model", "message", "request", "provider", "index", "exited"}
    BY <1>1, <1>8
       DEF TurnStep, Provider, DeltaChunk, MessageChunk, EmitMessage, ToolChunk, BadChunk,
           ToolSucceeded, ToolFailed, NoMessage, Complete, Finish, UpdateIndex, Emit, Goto, Raise,
           TypeInv, TypeOK, LogTypeOK
  <2> QED BY <2>1 DEF TrailPcs
<1>9. CASE \/ ChooseRunId(r) \/ Load(r) \/ Bind(r) \/ EmitOpening(r) \/ EmitUser(r)
           \/ Retry(r) \/ NothingToRetry(r)
  <2>1. pc'[r] \in {"load_seq", "load_parent", "bind", "open", "user", "recover", "provider",
                    "request", "exited"}
    BY <1>1, <1>9
       DEF ChooseRunId, Load, LoadSeq, LoadParent, Bind, EmitOpening, EmitUser, Retry,
           NothingToRetry, Emit, Goto, TypeInv, TypeOK, LogTypeOK
  <2> QED BY <2>1 DEF TrailPcs
<1> QED BY <1>3, <1>4, <1>5, <1>6, <1>7, <1>8, <1>9 DEF RunStep, ToolStep, ExecutorStep

\* Where a step leaves a run alone, its trail stands.
LEMMA OtherTrail ==
  ASSUME AuditInv, NEW o \in Runs, Grew,
         pc'[o] = pc[o], sid'[o] = sid[o], persist'[o] = persist[o],
         calls'[o] = calls[o], cur'[o] = cur[o]
  PROVE  Trail(o)'
<1> SUFFICES ASSUME persist[o], pc[o] \in TrailPcs PROVE Trail(o)'
  BY DEF Trail, TrailPcs
<1>1. /\ TypeInv /\ Trail(o) /\ sid[o] \in Sessions
  BY DEF AuditInv, TypeInv, TypeOK, ScopeOK, Live, Ended, TrailPcs
<1>2. \A tc, q :
        /\ Announced(o, sid[o], tc, q) =>
             \E i \in DOMAIN transcript'[sid[o]] :
               Says(transcript'[sid[o]][i], o, tc, "tool_call_requested", q)
        /\ Allowed(o, sid[o], tc, q) =>
             \E i, j \in DOMAIN transcript'[sid[o]] :
               /\ i < j
               /\ Says(transcript'[sid[o]][i], o, tc, "tool_call_requested", q)
               /\ Allows(transcript'[sid[o]][j], o, tc, q)
        /\ Audited(o, sid[o], tc, q) =>
             \E i, j, k \in DOMAIN transcript'[sid[o]] :
               /\ i < j /\ j < k
               /\ Says(transcript'[sid[o]][i], o, tc, "tool_call_requested", q)
               /\ Allows(transcript'[sid[o]][j], o, tc, q)
               /\ Starts(transcript'[sid[o]][k], o, tc)
  BY <1>1, TrailsKept DEF Announced, Allowed, Audited
<1>3. CASE pc[o] \in {"decide", "answer", "decided"}
  <2>1. Announced(o, sid[o], calls[o], cur[o])
    BY <1>1, <1>3 DEF Trail
  <2>2. Announced(o, sid[o], calls[o], cur[o])'
    BY <1>2, <2>1 DEF Announced
  <2> QED BY <1>3, <2>2 DEF Trail
<1>4. CASE pc[o] = "launch"
  <2>1. Allowed(o, sid[o], calls[o], cur[o])
    BY <1>1, <1>4 DEF Trail
  <2>2. Allowed(o, sid[o], calls[o], cur[o])'
    BY <1>2, <2>1 DEF Allowed
  <2> QED BY <1>4, <2>2 DEF Trail
<1>5. CASE pc[o] = "execute"
  <2>1. Audited(o, sid[o], calls[o], cur[o])
    BY <1>1, <1>5 DEF Trail
  <2>2. Audited(o, sid[o], calls[o], cur[o])'
    BY <1>2, <2>1 DEF Audited
  <2> QED BY <1>5, <2>2 DEF Trail
<1> QED BY <1>3, <1>4, <1>5 DEF TrailPcs

\* The executions of tools are those of the step of a run at that point.
LEMMA EffectsOfStep ==
  ASSUME NEW r \in Runs, RunStep(r)
  PROVE  \/ effects' = effects
         \/ pc[r] = "execute" /\ effects' = effects \cup {Effect(r)}
BY DEF RunStep, ChooseRunId, Load, Bind, EmitOpening, EmitUser, Retry, NothingToRetry, Begin,
       ToolStep, ExecutorStep, Request, DecideCall, Answer, EmitDecided, Launch, Execute,
       ToolRaises, EmitResult, EmitFinished, TurnStep, Provider, DeltaChunk, MessageChunk,
       EmitMessage, ToolChunk, BadChunk, ToolSucceeded, ToolFailed, NoMessage, Complete, Finish,
       UpdateIndex, callVars

\* An execution that was audited before a step is audited after it, if the
\* step leaves the configuration of its run alone.
LEMMA AuditKept ==
  ASSUME AuditInv, Grew, NEW e \in effects, persist'[e.by] = persist[e.by], persist'[e.by]
  PROVE  Audited(e.by, e.sid, e.tc, e.req)'
<1>1. e.sid \in Sessions /\ TypeInv
  BY DEF AuditInv, TypeInv, TypeOK, CallTypeOK
<1>2. Audited(e.by, e.sid, e.tc, e.req)
  BY DEF AuditInv, EffectsAudited
<1> QED BY <1>1, <1>2, TrailsKept

LEMMA RunStepAudit ==
  ASSUME AuditInv, NEW r \in Runs, RunStep(r), Grew, TypeInv'
  PROVE  AuditInv'
<1>1. /\ pc[r] # "idle" /\ pc'[r] # "idle" /\ Live(r) /\ UNCHANGED <<sid, persist>>
      /\ \A o \in Runs \ {r} : pc'[o] = pc[o] /\ calls'[o] = calls[o] /\ cur'[o] = cur[o]
  BY RunStepFrame DEF AuditInv
<1>2. \A o \in Runs : Trail(o)'
  <2>1. Trail(r)'
    BY CallTrail
  <2>2. ASSUME NEW o \in Runs \ {r} PROVE Trail(o)'
    BY <1>1, OtherTrail
  <2> QED BY <2>1, <2>2
<1>3. \A e \in effects : e.by \in Runs
  BY DEF AuditInv, TypeInv, TypeOK, CallTypeOK
<1>4. IdleRunsActNot'
  <2>1. CASE effects' = effects
    BY <1>1, <1>3, <2>1 DEF AuditInv, IdleRunsActNot
  <2>2. CASE effects' = effects \cup {Effect(r)}
    <3>1. Effect(r).by = r
      BY DEF Effect
    <3> QED BY <1>1, <1>3, <2>2, <3>1 DEF AuditInv, IdleRunsActNot
  <2> QED BY <2>1, <2>2, EffectsOfStep
<1>5. EffectsAudited'
  <2> SUFFICES ASSUME NEW e \in effects', persist'[e.by]
               PROVE  Audited(e.by, e.sid, e.tc, e.req)'
    BY DEF EffectsAudited
  <2>1. CASE e \in effects
    BY <1>1, <2>1, AuditKept
  <2>2. CASE pc[r] = "execute" /\ e = Effect(r)
    <3>1. e.by = r /\ e.sid = sid[r] /\ e.tc = calls[r] /\ e.req = cur[r]
      BY <2>2 DEF Effect
    <3>2. Audited(r, sid[r], calls[r], cur[r])
      BY <1>1, <2>2, <3>1 DEF AuditInv, Trail
    <3>3. Audited(e.by, e.sid, e.tc, e.req) /\ e.sid \in Sessions /\ TypeInv
      BY <1>1, <3>1, <3>2 DEF AuditInv, TypeInv, TypeOK, ScopeOK
    <3> QED BY <3>3, TrailsKept
  <2> QED BY <2>1, <2>2, EffectsOfStep
<1> QED BY <1>2, <1>4, <1>5 DEF AuditInv

LEMMA StartOrEndAudit ==
  ASSUME AuditInv, NEW r \in Runs, Start(r) \/ IoFails(r) \/ Kill(r), Grew, TypeInv'
  PROVE  AuditInv'
<1>1. /\ UNCHANGED <<effects, calls, cur>> /\ pc'[r] \notin TrailPcs \cup {"idle"}
      /\ \A o \in Runs \ {r} : pc'[o] = pc[o] /\ sid'[o] = sid[o] /\ persist'[o] = persist[o]
  <2>0. /\ pc \in [Runs -> Pcs] /\ sid \in [Runs -> Sessions \cup {0}]
        /\ persist \in [Runs -> BOOLEAN]
    BY DEF AuditInv, TypeInv, TypeOK, LogTypeOK, ConfTypeOK
  <2>1. UNCHANGED <<effects, calls, cur>>
    BY DEF Start, IoFails, Kill, callVars
  <2>2. \E end \in {"run_id"} \cup Ended : pc' = [pc EXCEPT ![r] = end]
    BY DEF Start, Goto, IoFails, Kill, Raise, Ended
  <2>3. sid' = sid \/ \E x : sid' = [sid EXCEPT ![r] = x]
    BY DEF Start, NewSessionId, IoFails, Kill, idVars
  <2>4. persist' = persist \/ \E x : persist' = [persist EXCEPT ![r] = x]
    BY DEF Start, IoFails, Kill, confVars
  <2> QED BY <2>0, <2>1, <2>2, <2>3, <2>4 DEF TrailPcs, Ended
<1>2. \A o \in Runs : Trail(o)'
  <2>1. Trail(r)'
    BY <1>1 DEF Trail, TrailPcs
  <2>2. ASSUME NEW o \in Runs \ {r} PROVE Trail(o)'
    BY <1>1, OtherTrail
  <2> QED BY <2>1, <2>2
<1>3. \A e \in effects : e.by \in Runs
  BY DEF AuditInv, TypeInv, TypeOK, CallTypeOK
<1>4. IdleRunsActNot'
  BY <1>1, <1>3 DEF AuditInv, IdleRunsActNot
<1>5. \A e \in effects : persist'[e.by] = persist[e.by]
  <2>1. CASE Start(r)
    BY <1>1, <1>3, <2>1 DEF Start, MayStart, AuditInv, IdleRunsActNot
  <2>2. CASE IoFails(r) \/ Kill(r)
    BY <2>2 DEF IoFails, Kill, confVars
  <2> QED BY <2>1, <2>2
<1>6. EffectsAudited'
  <2> SUFFICES ASSUME NEW e \in effects', persist'[e.by]
               PROVE  Audited(e.by, e.sid, e.tc, e.req)'
    BY DEF EffectsAudited
  <2>1. e \in effects /\ persist'[e.by] = persist[e.by]
    BY <1>1, <1>5
  <2> QED BY <2>1, AuditKept
<1> QED BY <1>2, <1>4, <1>6 DEF AuditInv

LEMMA AuditInit == Init => AuditInv
<1>1. Init => EffectsAudited /\ IdleRunsActNot /\ \A r \in Runs : Trail(r)
  BY DEF Init, EffectsAudited, IdleRunsActNot, Trail
<1> QED BY <1>1, InitTypes DEF AuditInv

LEMMA AuditNext == AuditInv /\ [Next]_vars => AuditInv'
<1> SUFFICES ASSUME AuditInv, [Next]_vars PROVE AuditInv'
  OBVIOUS
<1>1. TypeInv' /\ Grew
  BY NextTypes, StepGrows DEF AuditInv
<1>2. CASE UNCHANGED vars
  BY <1>1, <1>2 DEF AuditInv, EffectsAudited, IdleRunsActNot, Trail, Announced, Allowed,
                    Audited, vars, logVars, ctlVars, confVars, idVars, callVars
<1> QED BY <1>1, <1>2, RunStepAudit, StartOrEndAudit DEF Next, AllDone

\* Every tool execution of a persisted run was announced on disk before it
\* began: its request, its allow and its start stand in the file in this order
\* (ToolExecutor.execute emits all three before tool.execute), whatever other
\* processes wrote in between and whoever was killed since.
THEOREM ExecutionsAudited == Spec => []WriteAheadAudit
<1>1. AuditInv => WriteAheadAudit
  BY DEF AuditInv, EffectsAudited, Audited, Says, Allows, Starts, WriteAheadAudit
<1> QED BY <1>1, AuditInit, AuditNext, PTL DEF Spec
=============================================================================
