--------------------------- MODULE PermissionProofs ---------------------------
(***************************************************************************)
(* Nothing is executed on nobody's authority, for any number of processes, *)
(* sessions and answers. The invariant traces every allow that a run may   *)
(* rely on (the answers its process remembers, the durable rules, its copy *)
(* of them) back to the user who gave it, and a call from its decision to  *)
(* its execution to an allow. And what was durable when a run started      *)
(* binds it, whatever overlapping processes make durable meanwhile.        *)
(* The last section is about sessions whose processes do not overlap: one  *)
(* chain of records, and refusals that hold.                               *)
(***************************************************************************)
EXTENDS OrchestratorProofs, RuleWindow

\* Answer a covers execution e, p telling which runs are persisted, and e is
\* authorised by the modes m and the answers as: EffectAuthorised with its
\* variables named, so that two states can be compared.
CoversIn(a, e, p) ==
  /\ a.req = e.req
  /\ \/ a.answer \in AllowAnswers /\ a.by = e.by /\ a.tc = e.tc
     \/ a.answer = "allow_session" /\ a.sid = e.sid /\ HostOf[a.by] = HostOf[e.by]
     \/ a.answer = "allow_persistent" /\ p[a.by] /\ p[e.by]
     \/ a.answer = "allow_persistent" /\ a.by = e.by

Clear(e, m, as, p) ==
  /\ e.req \notin OutsideRoot
  /\ \/ m[e.by] \in {"auto", "bypass"} /\ ToolOf[e.req] \in SafeReadTools
     \/ \E a \in as : CoversIn(a, e, p)

\* Somebody gave the answer that is remembered, durable or cached.
GivenInSession(as, h, s, q) ==
  \E a \in as : a.req = q /\ a.answer = "allow_session" /\ a.sid = s /\ HostOf[a.by] = h
GivenForEver(as, p, q) == \E a \in as : a.req = q /\ a.answer = "allow_persistent" /\ p[a.by]
GivenTo(as, p, r, q) ==
  \E a \in as : a.req = q /\ a.answer = "allow_persistent" /\ (a.by = r \/ (p[a.by] /\ p[r]))

ReplayGiven ==
  \A h \in Hosts, s \in Sessions : \A q \in replay[h][s].allow : GivenInSession(answers, h, s, q)
RulesGiven == \A q \in Requests : <<q, "allow">> \in rules => GivenForEver(answers, persist, q)
CacheGiven == \A r \in Runs : \A q \in cache[r].allow : GivenTo(answers, persist, r, q)

IdleRunsKnowNot ==
  /\ \A a \in answers : pc[a.by] # "idle"
  /\ \A r \in Runs : pc[r] = "idle" => cache[r].allow = {}

\* The call of r as an execution.
CallOf(r) == [by |-> r, sid |-> sid[r], tc |-> calls[r], req |-> cur[r]]

\* A call somebody is asked about lies inside the working directory; one that
\* is allowed, and until it is executed, is authorised.
CallCleared(r) ==
  /\ pc[r] = "answer" => cur[r] \notin OutsideRoot
  /\ (pc[r] = "decided" /\ dec[r].decision = "allow") \/ pc[r] \in {"launch", "execute"} =>
       Clear(CallOf(r), mode, answers, persist)

EffectsCleared == \A e \in effects : Clear(e, mode, answers, persist)

AuthInv ==
  /\ AuditInv /\ EffectsCleared /\ ReplayGiven /\ RulesGiven /\ CacheGiven
  /\ IdleRunsKnowNot /\ \A r \in Runs : CallCleared(r)
-----------------------------------------------------------------------------
\* An authority stays one while answers are added and the run, and those who
\* answered, keep their configuration.
LEMMA ClearKept ==
  ASSUME NEW e, NEW m, NEW as, NEW p, NEW m2, NEW as2, NEW p2,
         Clear(e, m, as, p), as \subseteq as2, m2[e.by] = m[e.by], p2[e.by] = p[e.by],
         \A a \in as : p2[a.by] = p[a.by]
  PROVE  Clear(e, m2, as2, p2)
BY DEF Clear, CoversIn

LEMMA GivenKept ==
  ASSUME NEW as, NEW p, NEW as2, NEW p2, as \subseteq as2, \A a \in as : p2[a.by] = p[a.by]
  PROVE  /\ \A h, s, q : GivenInSession(as, h, s, q) => GivenInSession(as2, h, s, q)
         /\ \A q : GivenForEver(as, p, q) => GivenForEver(as2, p2, q)
         /\ \A r, q : GivenTo(as, p, r, q) /\ p2[r] = p[r] => GivenTo(as2, p2, r, q)
BY DEF GivenInSession, GivenForEver, GivenTo

\* An execution and the call it is of are authorised alike.
LEMMA EffectOfCall ==
  ASSUME NEW r, NEW m, NEW as, NEW p, Clear(CallOf(r), m, as, p)
  PROVE  Clear(Effect(r), m, as, p)
BY DEF Clear, CoversIn, CallOf, Effect

\* A request that the engine, with what is remembered, allows or asks about
\* lies inside the working directory; an allow is the mode's or was given.
LEMMA ProvisionalCleared ==
  ASSUME AuthInv, NEW r \in Runs, pc[r] = "decide", Provisional(r).decision # "deny"
  PROVE  /\ cur[r] \notin OutsideRoot
         /\ Provisional(r).decision = "allow" => Clear(CallOf(r), mode, answers, persist)
<1> DEFINE h == HostOf[r]
           s == sid[r]
           q == cur[r]
<1>1. h \in Hosts /\ s \in Sessions /\ q \in Requests
  BY HostAssumption DEF AuthInv, AuditInv, TypeInv, TypeOK, ScopeOK, Live, Ended, CallPcs
<1>2. q \notin OutsideRoot
  BY DEF Provisional, Decide, ApplyReplay, Decision
<1>3. ASSUME Provisional(r).decision = "allow"
      PROVE  \/ mode[r] \in {"auto", "bypass"} /\ ToolOf[q] \in SafeReadTools
             \/ q \in replay[h][s].allow
             \/ q \in cache[r].allow
  BY <1>3 DEF Provisional, Decide, ApplyReplay, Decision
<1>4. q \in replay[h][s].allow => GivenInSession(answers, h, s, q)
  BY <1>1 DEF AuthInv, ReplayGiven
<1>5. q \in cache[r].allow => GivenTo(answers, persist, r, q)
  BY DEF AuthInv, CacheGiven
<1>6. ASSUME GivenInSession(answers, h, s, q) \/ GivenTo(answers, persist, r, q)
      PROVE  \E a \in answers : CoversIn(a, CallOf(r), persist)
  BY <1>6 DEF GivenInSession, GivenTo, CoversIn, CallOf
<1> QED BY <1>2, <1>3, <1>4, <1>5, <1>6 DEF Clear, CallOf
-----------------------------------------------------------------------------
(* The steps of a run. *)

\* Who decides and what is remembered changes at three steps only.
LEMMA PermFrame ==
  ASSUME NEW r \in Runs, RunStep(r)
  PROVE  /\ mode' = mode
         /\ Bind(r) \/ Answer(r) \/ UNCHANGED permVars
         /\ AuditInv => \A o \in Runs \ {r} : dec'[o] = dec[o]
<1>1. mode' = mode
  BY DEF RunStep, ChooseRunId, Load, Bind, EmitOpening, EmitUser, Retry, NothingToRetry,
         ToolStep, TurnStep, Provider, DeltaChunk, MessageChunk, EmitMessage, ToolChunk, BadChunk,
         ToolSucceeded, ToolFailed, NoMessage, Complete, Finish, UpdateIndex, confVars
<1>2. Bind(r) \/ Answer(r) \/ UNCHANGED permVars
  BY DEF RunStep, ChooseRunId, Load, EmitOpening, EmitUser, Retry, NothingToRetry,
         ToolStep, ExecutorStep, Request, DecideCall, EmitDecided, Launch, Execute,
         ToolRaises, EmitResult, EmitFinished, TurnStep, Provider, DeltaChunk, MessageChunk,
         EmitMessage, ToolChunk, BadChunk, ToolSucceeded, ToolFailed, NoMessage, Complete, Finish,
         UpdateIndex, permVars
<1>3. AuditInv => \A o \in Runs \ {r} : dec'[o] = dec[o]
  BY DEF RunStep, ChooseRunId, Load, Bind, EmitOpening, EmitUser, Retry, NothingToRetry, Begin,
         ToolStep, ExecutorStep, Request, DecideCall, Answer, EmitDecided, Launch, Execute,
         ToolRaises, EmitResult, EmitFinished, TurnStep, Provider, DeltaChunk, MessageChunk,
         EmitMessage, ToolChunk, BadChunk, ToolSucceeded, ToolFailed, NoMessage, Complete, Finish,
         UpdateIndex, callVars, AuditInv, TypeInv, TypeOK, CallTypeOK
<1> QED BY <1>1, <1>2, <1>3

\* What a step leaves of the rules, if it neither asks a user nor binds.
LEMMA GivenUnchanged ==
  ASSUME AuthInv, UNCHANGED <<replay, rules, cache, answers, persist>>,
         \A o \in Runs : pc[o] # "idle" => pc'[o] # "idle",
         \A o \in Runs : pc'[o] = "idle" => pc[o] = "idle"
  PROVE  ReplayGiven' /\ RulesGiven' /\ CacheGiven' /\ IdleRunsKnowNot'
<1>1. \A a \in answers : a.by \in Runs
  BY DEF AuthInv, AuditInv, TypeInv, TypeOK, PermTypeOK
<1> QED BY <1>1 DEF AuthInv, ReplayGiven, RulesGiven, CacheGiven, IdleRunsKnowNot

LEMMA BindGiven ==
  ASSUME AuthInv, NEW r \in Runs, Bind(r)
  PROVE  ReplayGiven' /\ RulesGiven' /\ CacheGiven' /\ IdleRunsKnowNot'
<1>1. /\ pc' = [pc EXCEPT ![r] = "open"] /\ pc[r] = "bind"
      /\ UNCHANGED <<rules, answers, persist>>
  BY DEF Bind, Goto, confVars
<1>2. ReplayGiven'
  <2>1. replay' = replay \/ replay' = [replay EXCEPT ![HostOf[r]][sid[r]] = NoRules]
    BY DEF Bind
  <2>2. replay \in [Hosts -> [Sessions -> RuleSets]]
    BY DEF AuthInv, AuditInv, TypeInv, TypeOK, PermTypeOK
  <2>3. ASSUME NEW h \in Hosts, NEW s \in Sessions
        PROVE  replay'[h][s] = replay[h][s] \/ replay'[h][s] = NoRules
    BY <2>1, <2>2
  <2>4. NoRules.allow = {}
    BY DEF NoRules
  <2> QED BY <1>1, <2>3, <2>4 DEF AuthInv, ReplayGiven
<1>3. RulesGiven'
  BY <1>1 DEF AuthInv, RulesGiven
<1>4. CacheGiven'
  <2>1. \A q \in cache'[r].allow : persist[r] /\ q \in Requests /\ <<q, "allow">> \in rules
    BY DEF Bind, NoRules, AuthInv, AuditInv, TypeInv, TypeOK, PermTypeOK
  <2>2. \A q \in cache'[r].allow : GivenTo(answers, persist, r, q)
    BY <2>1 DEF AuthInv, RulesGiven, GivenForEver, GivenTo
  <2>3. \A o \in Runs \ {r} : cache'[o] = cache[o]
    BY DEF Bind, AuthInv, AuditInv, TypeInv, TypeOK, PermTypeOK
  <2> QED BY <1>1, <2>2, <2>3 DEF AuthInv, CacheGiven
<1>5. IdleRunsKnowNot'
  <2>1. \A o \in Runs \ {r} : cache'[o] = cache[o] /\ pc'[o] = pc[o]
    BY <1>1 DEF Bind, AuthInv, AuditInv, TypeInv, TypeOK, PermTypeOK, LogTypeOK
  <2>2. pc'[r] = "open" /\ \A a \in answers : a.by \in Runs
    BY <1>1 DEF AuthInv, AuditInv, TypeInv, TypeOK, PermTypeOK, LogTypeOK
  <2> QED BY <1>1, <2>1, <2>2 DEF AuthInv, IdleRunsKnowNot
<1> QED BY <1>2, <1>3, <1>4, <1>5

\* What a user answers is given from then on; nothing given before is lost.
LEMMA AnswerGiven ==
  ASSUME AuthInv, NEW r \in Runs, Answer(r), UNCHANGED <<sid, persist>>
  PROVE  ReplayGiven' /\ RulesGiven' /\ CacheGiven' /\ IdleRunsKnowNot'
<1> DEFINE h == HostOf[r]
           s == sid[r]
           q == cur[r]
<1>0. /\ h \in Hosts /\ s \in Sessions /\ q \in Requests /\ pc[r] = "answer"
      /\ replay \in [Hosts -> [Sessions -> RuleSets]] /\ cache \in [Runs -> RuleSets]
      /\ \A a \in answers : a.by \in Runs
  BY HostAssumption
     DEF Answer, AuthInv, AuditInv, TypeInv, TypeOK, ScopeOK, PermTypeOK, Live, Ended, CallPcs
<1>1. PICK a \in Answers :
        /\ replay' = [replay EXCEPT ![h][s] = Remember(@, q, a, "allow_session", "deny_session")]
        /\ cache' = [cache EXCEPT ![r] = Remember(@, q, a, "allow_persistent", "deny_persistent")]
        /\ rules' = IF persist[r] THEN rules \cup ({q} \X PersistentEffect(a)) ELSE rules
        /\ answers' = answers \cup
             {[by |-> r, sid |-> s, tc |-> calls[r], req |-> q, answer |-> a]}
  BY DEF Answer, PossibleAnswers, Answers
<1>2. pc' = [pc EXCEPT ![r] = "decided"] /\ pc \in [Runs -> Pcs]
  BY DEF Answer, Goto, AuthInv, AuditInv, TypeInv, TypeOK, LogTypeOK
<1> DEFINE x == [by |-> r, sid |-> s, tc |-> calls[r], req |-> q, answer |-> a]
<1>3. /\ x \in answers' /\ answers \subseteq answers'
      /\ x.by = r /\ x.sid = s /\ x.req = q /\ x.answer = a
  BY <1>1
<1> HIDE DEF h, s, q, x
<1>4. /\ \A g, t, y : GivenInSession(answers, g, t, y) => GivenInSession(answers', g, t, y)
      /\ \A y : GivenForEver(answers, persist, y) => GivenForEver(answers', persist, y)
      /\ \A o, y : GivenTo(answers, persist, o, y) => GivenTo(answers', persist, o, y)
  BY <1>3, GivenKept
<1>5. ReplayGiven'
  <2> SUFFICES ASSUME NEW g \in Hosts, NEW t \in Sessions, NEW y \in replay'[g][t].allow
               PROVE  GivenInSession(answers', g, t, y)
    BY DEF ReplayGiven
  <2>1. CASE y \in replay[g][t].allow
    BY <1>4, <2>1 DEF AuthInv, ReplayGiven
  <2>2. CASE y \notin replay[g][t].allow
    <3>1. g = h /\ t = s /\ y = q /\ a = "allow_session"
      BY <1>0, <1>1, <2>2 DEF Remember, RuleSets
    <3> QED BY <1>3, <3>1 DEF GivenInSession, h
  <2> QED BY <2>1, <2>2
<1>6. RulesGiven'
  <2> SUFFICES ASSUME NEW y \in Requests, <<y, "allow">> \in rules'
               PROVE  GivenForEver(answers', persist, y)
    BY DEF RulesGiven
  <2>1. CASE <<y, "allow">> \in rules
    BY <1>4, <2>1 DEF AuthInv, RulesGiven
  <2>2. CASE <<y, "allow">> \notin rules
    <3>1. persist[r] /\ y = q /\ a = "allow_persistent"
      BY <1>1, <2>2 DEF PersistentEffect
    <3> QED BY <1>3, <3>1 DEF GivenForEver
  <2> QED BY <2>1, <2>2
<1>7. CacheGiven'
  <2> SUFFICES ASSUME NEW o \in Runs, NEW y \in cache'[o].allow
               PROVE  GivenTo(answers', persist, o, y)
    BY DEF CacheGiven
  <2>1. CASE y \in cache[o].allow
    BY <1>4, <2>1 DEF AuthInv, CacheGiven
  <2>2. CASE y \notin cache[o].allow
    <3>1. o = r /\ y = q /\ a = "allow_persistent"
      BY <1>0, <1>1, <2>2 DEF Remember, RuleSets
    <3>2. GivenTo(answers', persist, r, q)
      BY <1>3, <3>1 DEF GivenTo
    <3> QED BY <3>1, <3>2
  <2> QED BY <2>1, <2>2
<1>8. IdleRunsKnowNot'
  <2>1. \A b \in answers' : b \in answers \/ b.by = r
    BY <1>1
  <2>2. \A o \in Runs \ {r} : cache'[o] = cache[o] /\ pc'[o] = pc[o]
    BY <1>0, <1>1, <1>2
  <2>3. pc'[r] = "decided"
    BY <1>2
  <2> QED BY <1>0, <2>1, <2>2, <2>3 DEF AuthInv, IdleRunsKnowNot
<1> QED BY <1>5, <1>6, <1>7, <1>8

\* The answers only become more, and those who gave them keep their
\* configuration.
LEMMA StepKeepsClear ==
  ASSUME AuthInv, NEW r \in Runs, RunStep(r)
  PROVE  /\ answers \subseteq answers'
         /\ \A e : Clear(e, mode, answers, persist) => Clear(e, mode', answers', persist')
<1>1. answers \subseteq answers'
  BY PermFrame DEF Bind, Answer, permVars
<1>2. UNCHANGED <<mode, persist>>
  BY PermFrame, RunStepFrame DEF AuthInv, AuditInv
<1> QED BY <1>1, <1>2, ClearKept

\* The call of the run that steps.
LEMMA CallStep ==
  ASSUME AuthInv, NEW r \in Runs, RunStep(r)
  PROVE  CallCleared(r)'
<1>0. /\ TypeInv /\ CallCleared(r) /\ UNCHANGED <<sid, persist, mode>>
      /\ \A e : Clear(e, mode, answers, persist) => Clear(e, mode', answers', persist')
  BY RunStepFrame, PermFrame, StepKeepsClear DEF AuthInv, AuditInv
<1>1. ASSUME UNCHANGED <<calls, cur>>, Clear(CallOf(r), mode, answers, persist)
      PROVE  Clear([by |-> r, sid |-> sid'[r], tc |-> calls'[r], req |-> cur'[r]],
                   mode', answers', persist')
  BY <1>0, <1>1 DEF CallOf
<1>2. CASE DecideCall(r)
  <2>1. /\ UNCHANGED <<calls, cur>> /\ pc[r] = "decide"
        /\ dec'[r] = Provisional(r)
        /\ pc'[r] = "answer" => Provisional(r).decision = "ask"
        /\ pc'[r] \in {"answer", "decided", "exited"}
    BY <1>0, <1>2
       DEF DecideCall, Goto, Emit, TypeInv, TypeOK, LogTypeOK, CallTypeOK
  <2>2. pc'[r] = "answer" => cur'[r] \notin OutsideRoot
    BY <2>1, ProvisionalCleared
  <2>3. ASSUME dec'[r].decision = "allow"
        PROVE  Clear([by |-> r, sid |-> sid'[r], tc |-> calls'[r], req |-> cur'[r]],
                     mode', answers', persist')
    BY <1>1, <2>1, <2>3, ProvisionalCleared
  <2> QED BY <2>1, <2>2, <2>3 DEF CallCleared, CallOf
<1>3. CASE Answer(r)
  <2>1. PICK a \in Answers :
          /\ dec' = [dec EXCEPT ![r] = Resolve(@, a, mode[r])]
          /\ answers' = answers \cup
               {[by |-> r, sid |-> sid[r], tc |-> calls[r], req |-> cur[r], answer |-> a]}
    BY <1>3 DEF Answer, PossibleAnswers, Answers
  <2>2. /\ UNCHANGED <<calls, cur>> /\ pc[r] = "answer" /\ pc'[r] = "decided"
        /\ dec'[r] = Resolve(dec[r], a, mode[r])
    BY <1>0, <1>3, <2>1 DEF Answer, Goto, TypeInv, TypeOK, LogTypeOK, CallTypeOK
  <2>3. cur[r] \notin OutsideRoot
    BY <1>0, <2>2 DEF CallCleared
  <2>4. ASSUME dec'[r].decision = "allow" PROVE a \in AllowAnswers
    BY <1>0, <2>2, <2>4 DEF Resolve, Decision, TypeInv, TypeOK, CallTypeOK, Decisions
  <2>5. ASSUME dec'[r].decision = "allow"
        PROVE  Clear([by |-> r, sid |-> sid'[r], tc |-> calls'[r], req |-> cur'[r]],
                     mode', answers', persist')
    <3> DEFINE x == [by |-> r, sid |-> sid[r], tc |-> calls[r], req |-> cur[r], answer |-> a]
               c == [by |-> r, sid |-> sid'[r], tc |-> calls'[r], req |-> cur'[r]]
    <3>1. /\ x \in answers' /\ x.answer \in AllowAnswers
          /\ c.req = x.req /\ c.by = x.by /\ c.tc = x.tc /\ c.req \notin OutsideRoot
      BY <2>1, <2>2, <2>3, <2>4, <2>5
    <3> HIDE DEF x, c
    <3>2. CoversIn(x, c, persist')
      BY <3>1 DEF CoversIn
    <3>3. Clear(c, mode', answers', persist')
      BY <3>1, <3>2 DEF Clear
    <3> QED BY <3>3 DEF c
  <2> QED BY <2>2, <2>5 DEF CallCleared, CallOf
<1>4. CASE EmitDecided(r) \/ Launch(r)
  <2>1. /\ UNCHANGED <<calls, cur, dec>>
        /\ pc'[r] \in {"launch", "execute", "result", "exited"}
        /\ pc'[r] \in {"launch", "execute"} =>
             (pc[r] = "decided" /\ dec[r].decision = "allow") \/ pc[r] = "launch"
    BY <1>0, <1>4 DEF EmitDecided, Launch, Emit, TypeInv, TypeOK, LogTypeOK
  <2>2. ASSUME pc'[r] \in {"launch", "execute"}
        PROVE  Clear([by |-> r, sid |-> sid'[r], tc |-> calls'[r], req |-> cur'[r]],
                     mode', answers', persist')
    BY <1>0, <1>1, <2>1, <2>2 DEF CallCleared
  <2> QED BY <2>1, <2>2 DEF CallCleared, CallOf
<1>5. CASE Request(r) \/ Execute(r) \/ ToolRaises(r) \/ EmitResult(r) \/ EmitFinished(r)
  <2>1. pc'[r] \in {"decide", "result", "exited", "finish_call", "outcome"}
    BY <1>0, <1>5 DEF Request, Execute, ToolRaises, EmitResult, EmitFinished, Emit, Goto, Raise,
                      TypeInv, TypeOK, LogTypeOK
  <2> QED BY <2>1 DEF CallCleared
<1>6. CASE TurnStep(r)
  <2>1. pc'[r] \in {"model", "message", "request", "provider", "index", "exited"}
    BY <1>0, <1>6
       DEF TurnStep, Provider, DeltaChunk, MessageChunk, EmitMessage, ToolChunk, BadChunk,
           ToolSucceeded, ToolFailed, NoMessage, Complete, Finish, UpdateIndex, Emit, Goto, Raise,
           TypeInv, TypeOK, LogTypeOK
  <2> QED BY <2>1 DEF CallCleared
<1>7. CASE \/ ChooseRunId(r) \/ Load(r) \/ Bind(r) \/ EmitOpening(r) \/ EmitUser(r)
           \/ Retry(r) \/ NothingToRetry(r)
  <2>1. pc'[r] \in {"load_seq", "load_parent", "bind", "open", "user", "recover", "provider",
                    "request", "exited"}
    BY <1>0, <1>7
       DEF ChooseRunId, Load, LoadSeq, LoadParent, Bind, EmitOpening, EmitUser, Retry,
           NothingToRetry, Emit, Goto, TypeInv, TypeOK, LogTypeOK
  <2> QED BY <2>1 DEF CallCleared
<1> QED BY <1>2, <1>3, <1>4, <1>5, <1>6, <1>7 DEF RunStep, ToolStep, ExecutorStep

\* A call of another run stands.
LEMMA OtherCall ==
  ASSUME AuthInv, NEW o \in Runs, pc'[o] = pc[o], sid'[o] = sid[o], calls'[o] = calls[o],
         cur'[o] = cur[o], dec'[o] = dec[o],
         \A e : e.by = o /\ Clear(e, mode, answers, persist) => Clear(e, mode', answers', persist')
  PROVE  CallCleared(o)'
<1>1. CallOf(o)' = CallOf(o) /\ CallOf(o).by = o
  BY DEF CallOf
<1>2. Clear(CallOf(o), mode, answers, persist) => Clear(CallOf(o)', mode', answers', persist')
  BY <1>1
<1> QED BY <1>2 DEF AuthInv, CallCleared

LEMMA RunStepAuthorised ==
  ASSUME AuthInv, NEW r \in Runs, RunStep(r), AuditInv'
  PROVE  AuthInv'
<1>1. /\ UNCHANGED <<sid, persist, mode>> /\ pc[r] # "idle" /\ pc'[r] # "idle"
      /\ \A o \in Runs \ {r} : /\ pc'[o] = pc[o] /\ calls'[o] = calls[o]
                              /\ cur'[o] = cur[o] /\ dec'[o] = dec[o]
  BY RunStepFrame, PermFrame DEF AuthInv, AuditInv
<1>2. \A e : Clear(e, mode, answers, persist) => Clear(e, mode', answers', persist')
  BY StepKeepsClear
<1>3. EffectsCleared'
  <2> SUFFICES ASSUME NEW e \in effects' PROVE Clear(e, mode', answers', persist')
    BY DEF EffectsCleared
  <2>1. CASE e \in effects
    BY <1>2, <2>1 DEF AuthInv, EffectsCleared
  <2>2. CASE pc[r] = "execute" /\ e = Effect(r)
    <3>1. Clear(CallOf(r), mode, answers, persist)
      BY <2>2 DEF AuthInv, CallCleared
    <3>2. Clear(Effect(r), mode, answers, persist)
      BY <3>1, EffectOfCall
    <3> QED BY <1>2, <2>2, <3>2
  <2> QED BY <2>1, <2>2, EffectsOfStep
<1>4. ReplayGiven' /\ RulesGiven' /\ CacheGiven' /\ IdleRunsKnowNot'
  <2>1. CASE UNCHANGED permVars
    BY <1>1, <2>1, GivenUnchanged DEF permVars
  <2> QED BY <1>1, <2>1, BindGiven, AnswerGiven, PermFrame
<1>5. \A o \in Runs : CallCleared(o)'
  <2>1. CallCleared(r)'
    BY CallStep
  <2>2. ASSUME NEW o \in Runs \ {r} PROVE CallCleared(o)'
    BY <1>1, <1>2, OtherCall
  <2> QED BY <2>1, <2>2
<1> QED BY <1>3, <1>4, <1>5 DEF AuthInv
-----------------------------------------------------------------------------
(* Starts, failures and kills. *)

\* A run that starts has asked nobody and executed nothing; a process that is
\* killed forgets what it remembered.
LEMMA StartOrEndAuthorised ==
  ASSUME AuthInv, NEW r \in Runs, Start(r) \/ IoFails(r) \/ Kill(r), AuditInv'
  PROVE  AuthInv'
<1>0. /\ pc \in [Runs -> Pcs] /\ sid \in [Runs -> Sessions \cup {0}]
      /\ persist \in [Runs -> BOOLEAN] /\ mode \in [Runs -> Modes]
      /\ replay \in [Hosts -> [Sessions -> RuleSets]]
      /\ \A a \in answers : a.by \in Runs
      /\ \A e \in effects : e.by \in Runs
  BY DEF AuthInv, AuditInv, TypeInv, TypeOK, LogTypeOK, ConfTypeOK, PermTypeOK, CallTypeOK
<1>1. /\ UNCHANGED <<effects, calls, cur, dec, rules, cache, answers>>
      /\ pc'[r] \in {"run_id", "exited", "crashed"}
      /\ \A o \in Runs \ {r} : pc'[o] = pc[o]
  <2>1. UNCHANGED <<effects, calls, cur, dec, rules, cache, answers>>
    BY DEF Start, IoFails, Kill, callVars, permVars
  <2>2. \E end \in {"run_id", "exited", "crashed"} : pc' = [pc EXCEPT ![r] = end]
    BY DEF Start, Goto, IoFails, Kill, Raise
  <2> QED BY <1>0, <2>1, <2>2
<1>2. /\ \A o \in Runs \ {r} : /\ sid'[o] = sid[o] /\ persist'[o] = persist[o]
                              /\ mode'[o] = mode[o]
      /\ pc[r] # "idle" => UNCHANGED <<sid, persist, mode>>
  <2>1. CASE Start(r)
    <3>1. /\ sid' = sid \/ \E x : sid' = [sid EXCEPT ![r] = x]
          /\ \E x : persist' = [persist EXCEPT ![r] = x]
          /\ \E x : mode' = [mode EXCEPT ![r] = x]
          /\ pc[r] = "idle"
      BY <2>1 DEF Start, MayStart, NewSessionId
    <3> QED BY <1>0, <3>1
  <2>2. CASE IoFails(r) \/ Kill(r)
    BY <2>2 DEF IoFails, Kill, confVars, idVars
  <2> QED BY <2>1, <2>2
<1>3. /\ \A a \in answers : persist'[a.by] = persist[a.by]
      /\ \A e \in effects : persist'[e.by] = persist[e.by] /\ mode'[e.by] = mode[e.by]
  BY <1>0, <1>2 DEF AuthInv, AuditInv, IdleRunsActNot, IdleRunsKnowNot
<1>4. EffectsCleared'
  BY <1>1, <1>3, ClearKept DEF AuthInv, EffectsCleared
<1>5. ReplayGiven'
  <2>1. \A h \in Hosts : replay'[h] = replay[h] \/ replay'[h] = [s \in Sessions |-> NoRules]
    BY <1>0 DEF Start, IoFails, Kill, permVars
  <2>2. \A h \in Hosts, s \in Sessions :
          replay'[h][s] = replay[h][s] \/ replay'[h][s].allow = {}
    BY <2>1 DEF NoRules
  <2> QED BY <1>1, <2>2 DEF AuthInv, ReplayGiven
<1>6. RulesGiven' /\ CacheGiven'
  <2>1. /\ \A q : GivenForEver(answers, persist, q) => GivenForEver(answers, persist', q)
        /\ \A o, q : GivenTo(answers, persist, o, q) /\ persist'[o] = persist[o] =>
                       GivenTo(answers, persist', o, q)
    BY <1>3, GivenKept
  <2>2. RulesGiven'
    BY <1>1, <2>1 DEF AuthInv, RulesGiven
  <2>3. \A o \in Runs : persist'[o] = persist[o] \/ cache[o].allow = {}
    BY <1>2 DEF AuthInv, IdleRunsKnowNot
  <2>4. CacheGiven'
    BY <1>1, <2>1, <2>3 DEF AuthInv, CacheGiven
  <2> QED BY <2>2, <2>4
<1>7. IdleRunsKnowNot'
  BY <1>0, <1>1 DEF AuthInv, IdleRunsKnowNot
<1>8. \A o \in Runs : CallCleared(o)'
  <2>1. CallCleared(r)'
    BY <1>1 DEF CallCleared
  <2>2. ASSUME NEW o \in Runs \ {r} PROVE CallCleared(o)'
    <3>1. \A e : e.by = o /\ Clear(e, mode, answers, persist) =>
                    Clear(e, mode', answers', persist')
      BY <1>1, <1>2, <1>3, ClearKept
    <3> QED BY <1>1, <1>2, <3>1, OtherCall
  <2> QED BY <2>1, <2>2
<1> QED BY <1>4, <1>5, <1>6, <1>7, <1>8 DEF AuthInv
-----------------------------------------------------------------------------
LEMMA AuthInit == Init => AuthInv
<1> SUFFICES ASSUME Init PROVE AuthInv
  OBVIOUS
<1>1. AuditInv
  BY AuditInit
<1>2. EffectsCleared /\ ReplayGiven /\ RulesGiven /\ CacheGiven /\ IdleRunsKnowNot
  BY DEF Init, EffectsCleared, ReplayGiven, RulesGiven, CacheGiven, IdleRunsKnowNot, NoRules
<1>3. \A r \in Runs : CallCleared(r)
  BY DEF Init, CallCleared
<1> QED BY <1>1, <1>2, <1>3 DEF AuthInv

LEMMA AuthNext == AuthInv /\ [Next]_vars => AuthInv'
<1> SUFFICES ASSUME AuthInv, [Next]_vars PROVE AuthInv'
  OBVIOUS
<1>1. AuditInv'
  BY AuditNext DEF AuthInv
<1>2. CASE UNCHANGED vars
  BY <1>1, <1>2 DEF AuthInv, EffectsCleared, ReplayGiven, RulesGiven, CacheGiven,
                    IdleRunsKnowNot, CallCleared, CallOf, vars, logVars, ctlVars, confVars,
                    idVars, permVars, callVars
<1> QED BY <1>1, <1>2, RunStepAuthorised, StartOrEndAuthorised DEF Next, AllDone

\* What is executed lies inside the working directory, and the mode allows it or
\* a user did: for this call, for this session in this process, or for ever
\* (PermissionEngine.decide, _apply_session_replay, resolve_permission), for any
\* processes and sessions, remembered, durable and overlapping answers, and any
\* kill or failure.
THEOREM ExecutionsAuthorised == Spec => []EffectAuthorised
<1>1. AuthInv => EffectAuthorised
  BY DEF AuthInv, EffectsCleared, Clear, CoversIn, EffectAuthorised, Covers
<1> QED BY <1>1, AuthInit, AuthNext, PTL DEF Spec
-----------------------------------------------------------------------------
(* Rules that were durable when a run started. *)

\* A call that a user is asked about, or that is allowed.
MayRun(r) ==
  pc[r] \in {"answer", "launch", "execute"} \/ (pc[r] = "decided" /\ dec[r].decision = "allow")

\* Where a run stands before it has the rules.
Early == {"idle", "run_id", "load_seq", "load_parent", "bind"}

AskedNobody(r) == pc[r] \in Early => \A a \in answers : a.by # r
StillDurable(r) == known[r] \subseteq rules
KnownLoaded(r) ==
  (persist[r] /\ pc[r] \notin Early \cup Ended) =>
    \A q \in Requests : /\ <<q, "deny">> \in known[r] => q \in cache[r].deny
                        /\ <<q, "allow">> \in known[r] => q \in cache[r].allow
OwnRefusals(r) ==
  \A a \in answers : a.by = r /\ a.answer = "deny_persistent" => a.req \in cache[r].deny
Unrefused(r) == MayRun(r) => cur[r] \notin cache[r].deny

WindowOf(r) ==
  AskedNobody(r) /\ StillDurable(r) /\ KnownLoaded(r) /\ OwnRefusals(r) /\ Unrefused(r)

WindowInv == TypeInv /\ \A r \in Runs : WindowOf(r)

\* A call that may run after a step was found unrefused by it, or might run
\* before and has not been refused by it.
LEMMA MayRunStep ==
  ASSUME TypeInv, NEW r \in Runs, RunStep(r), MayRun(r)'
  PROVE  /\ UNCHANGED <<cur, sid>>
         /\ \/ /\ MayRun(r)
               /\ cache'[r].deny = cache[r].deny
               /\ replay'[HostOf[r]][sid[r]].deny = replay[HostOf[r]][sid[r]].deny
            \/ /\ UNCHANGED permVars
               /\ cur[r] \notin cache[r].deny
               /\ cur[r] \notin replay[HostOf[r]][sid[r]].deny
<1>0. /\ UNCHANGED sid
      /\ pc \in [Runs -> Pcs] /\ cache \in [Runs -> RuleSets] /\ dec \in [Runs -> Decisions]
      /\ replay \in [Hosts -> [Sessions -> RuleSets]]
      /\ HostOf[r] \in Hosts /\ sid[r] \in Sessions
  BY HostAssumption, RunStepFrame
     DEF TypeInv, TypeOK, LogTypeOK, PermTypeOK, CallTypeOK, ScopeOK
<1>1. CASE DecideCall(r)
  <2>1. /\ UNCHANGED <<cur, permVars>> /\ dec'[r] = Provisional(r)
        /\ pc'[r] = "answer" => Provisional(r).decision = "ask"
        /\ pc'[r] \in {"answer", "decided", "exited"}
    BY <1>0, <1>1 DEF DecideCall, Goto, Emit
  <2>2. Provisional(r).decision # "deny" =>
          /\ cur[r] \notin replay[HostOf[r]][sid[r]].deny
          /\ cur[r] \notin cache[r].deny
    BY DEF Provisional, Decide, ApplyReplay, Decision
  <2> QED BY <1>0, <2>1, <2>2 DEF MayRun
<1>2. CASE Answer(r)
  <2>1. PICK a \in Answers :
          /\ dec' = [dec EXCEPT ![r] = Resolve(@, a, mode[r])]
          /\ replay' = [replay EXCEPT ![HostOf[r]][sid[r]] =
                          Remember(@, cur[r], a, "allow_session", "deny_session")]
          /\ cache' = [cache EXCEPT ![r] = Remember(@, cur[r], a, "allow_persistent", "deny_persistent")]
    BY <1>2 DEF Answer, PossibleAnswers, Answers
  <2>2. pc[r] = "answer" /\ pc'[r] = "decided" /\ UNCHANGED cur
    BY <1>0, <1>2 DEF Answer, Goto
  <2>3. a \in AllowAnswers
    BY <1>0, <2>1, <2>2 DEF MayRun, Resolve, Decision, Decisions
  <2>4. /\ replay'[HostOf[r]][sid[r]].deny = replay[HostOf[r]][sid[r]].deny
        /\ cache'[r].deny = cache[r].deny
    BY <1>0, <2>1, <2>3 DEF Remember, AllowAnswers
  <2> QED BY <1>0, <2>2, <2>4 DEF MayRun
<1>3. CASE EmitDecided(r) \/ Launch(r)
  <2>1. UNCHANGED <<cur, permVars>> /\ MayRun(r)
    BY <1>0, <1>3 DEF EmitDecided, Launch, Emit, MayRun
  <2> QED BY <1>0, <2>1 DEF permVars
<1>4. CASE Request(r) \/ Execute(r) \/ ToolRaises(r) \/ EmitResult(r) \/ EmitFinished(r)
  <2>1. pc'[r] \in {"decide", "result", "exited", "finish_call", "outcome"}
    BY <1>0, <1>4 DEF Request, Execute, ToolRaises, EmitResult, EmitFinished, Emit, Goto, Raise
  <2> QED BY <2>1 DEF MayRun
<1>5. CASE TurnStep(r)
  <2>1. pc'[r] \in {"model", "message", "request", "provider", "index", "exited"}
    BY <1>0, <1>5
       DEF TurnStep, Provider, DeltaChunk, MessageChunk, EmitMessage, ToolChunk, BadChunk,
           ToolSucceeded, ToolFailed, NoMessage, Complete, Finish, UpdateIndex, Emit, Goto, Raise
  <2> QED BY <2>1 DEF MayRun
<1>6. CASE \/ ChooseRunId(r) \/ Load(r) \/ Bind(r) \/ EmitOpening(r) \/ EmitUser(r)
           \/ Retry(r) \/ NothingToRetry(r)
  <2>1. pc'[r] \in {"load_seq", "load_parent", "bind", "open", "user", "recover", "provider",
                    "request", "exited"}
    BY <1>0, <1>6
       DEF ChooseRunId, Load, LoadSeq, LoadParent, Bind, EmitOpening, EmitUser, Retry,
           NothingToRetry, Emit, Goto
  <2> QED BY <2>1 DEF MayRun
<1> QED BY <1>1, <1>2, <1>3, <1>4, <1>5, <1>6 DEF RunStep, ToolStep, ExecutorStep

\* The rules are read between the early steps and the others.
LEMMA EarlySteps ==
  ASSUME TypeInv, NEW r \in Runs, RunStep(r)
  PROVE  /\ pc[r] \in Early /\ ~Bind(r) => pc'[r] \in Early
         /\ pc'[r] \in Early => pc[r] \in Early
         /\ Bind(r) => pc[r] \in Early
         /\ Answer(r) => pc[r] \notin Early
<1>0. pc \in [Runs -> Pcs]
  BY DEF TypeInv, TypeOK, LogTypeOK
<1>1. CASE ChooseRunId(r) \/ Load(r) \/ Bind(r)
  <2>1. /\ pc[r] \in Early
        /\ Bind(r) => pc'[r] = "open"
        /\ ~Bind(r) => pc'[r] \in Early
    BY <1>0, <1>1 DEF ChooseRunId, Load, LoadSeq, LoadParent, Bind, Goto, Early
  <2> QED BY <1>0, <2>1 DEF Answer, Early
<1>2. CASE \/ EmitOpening(r) \/ EmitUser(r) \/ Retry(r) \/ NothingToRetry(r)
  <2>1. /\ pc[r] \in {"open", "user", "recover"}
        /\ pc'[r] \in {"user", "recover", "provider", "request", "exited"}
    BY <1>0, <1>2 DEF EmitOpening, EmitUser, Retry, NothingToRetry, Emit, Goto
  <2> QED BY <2>1 DEF Early, Bind
<1>3. CASE ToolStep(r)
  <2>1. /\ pc[r] \in {"request", "decide", "answer", "decided", "launch", "execute", "result",
                      "finish_call"}
        /\ pc'[r] \in {"decide", "answer", "decided", "launch", "execute", "result",
                       "finish_call", "outcome", "exited"}
    BY <1>0, <1>3
       DEF ToolStep, ExecutorStep, Request, DecideCall, Answer, EmitDecided, Launch, Execute,
           ToolRaises, EmitResult, EmitFinished, Emit, Goto, Raise
  <2> QED BY <2>1 DEF Early, Bind
<1>4. CASE TurnStep(r)
  <2>1. /\ pc[r] \in {"provider", "model", "message", "outcome", "index"}
        /\ pc'[r] \in {"model", "message", "request", "provider", "index", "exited"}
    BY <1>0, <1>4
       DEF TurnStep, Provider, DeltaChunk, MessageChunk, EmitMessage, ToolChunk, BadChunk, TakeChunk,
           ToolSucceeded, ToolFailed, NoMessage, Complete, Finish, UpdateIndex, Emit, Goto, Raise
  <2> QED BY <2>1 DEF Early, Bind
<1> QED BY <1>1, <1>2, <1>3, <1>4 DEF RunStep

\* The run that steps.
LEMMA OwnWindow ==
  ASSUME WindowInv, NEW r \in Runs, RunStep(r), known'[r] = known[r]
  PROVE  WindowOf(r)'
<1>0. /\ TypeInv /\ WindowOf(r) /\ UNCHANGED persist /\ Live(r)
      /\ cache \in [Runs -> RuleSets]
      /\ \A a \in answers : a.by \in Runs
  BY RunStepFrame DEF WindowInv, TypeInv, TypeOK, PermTypeOK
<1>1. Unrefused(r)'
  BY <1>0, MayRunStep DEF WindowOf, Unrefused, permVars
<1>2. CASE Bind(r)
  <2>1. /\ UNCHANGED <<rules, answers>> /\ pc[r] \in Early /\ pc'[r] \notin Early
        /\ persist[r] => /\ cache'[r].allow = {q \in Requests : <<q, "allow">> \in rules}
                         /\ cache'[r].deny = {q \in Requests : <<q, "deny">> \in rules}
    BY <1>0, <1>2 DEF Bind, Goto, Early, TypeInv, TypeOK, LogTypeOK
  <2>2. StillDurable(r)' /\ AskedNobody(r)' /\ OwnRefusals(r)'
    BY <1>0, <2>1 DEF WindowOf, StillDurable, AskedNobody, OwnRefusals
  <2>3. KnownLoaded(r)'
    <3> SUFFICES ASSUME persist[r], NEW q \in Requests
                 PROVE  /\ <<q, "deny">> \in known[r] => q \in cache'[r].deny
                        /\ <<q, "allow">> \in known[r] => q \in cache'[r].allow
      BY <1>0 DEF KnownLoaded
    <3> QED BY <1>0, <2>1 DEF WindowOf, StillDurable
  <2> QED BY <1>1, <2>2, <2>3 DEF WindowOf
<1>3. CASE Answer(r)
  <2>1. PICK a \in Answers :
          /\ cache' = [cache EXCEPT ![r] = Remember(@, cur[r], a, "allow_persistent", "deny_persistent")]
          /\ rules' = IF persist[r] THEN rules \cup ({cur[r]} \X PersistentEffect(a)) ELSE rules
          /\ answers' = answers \cup
               {[by |-> r, sid |-> sid[r], tc |-> calls[r], req |-> cur[r], answer |-> a]}
    BY <1>3 DEF Answer, PossibleAnswers, Answers
  <2>2. /\ cache'[r].allow = cache[r].allow \cup {x \in {cur[r]} : a = "allow_persistent"}
        /\ cache'[r].deny = cache[r].deny \cup {x \in {cur[r]} : a = "deny_persistent"}
    BY <1>0, <2>1 DEF Remember
  <2>3. \A b \in answers' : b \in answers \/ (b.req = cur[r] /\ b.answer = a)
    BY <2>1
  <2>4. pc[r] \notin Early /\ pc'[r] \notin Early /\ rules \subseteq rules'
    BY <1>0, <1>3, <2>1, EarlySteps
  <2>5. OwnRefusals(r)'
    BY <1>0, <2>2, <2>3 DEF WindowOf, OwnRefusals
  <2>6. KnownLoaded(r)' /\ StillDurable(r)' /\ AskedNobody(r)'
    BY <1>0, <2>2, <2>4 DEF WindowOf, KnownLoaded, StillDurable, AskedNobody, Live
  <2> QED BY <1>1, <2>5, <2>6 DEF WindowOf
<1>4. CASE UNCHANGED permVars /\ ~Bind(r)
  <2>1. UNCHANGED <<rules, cache, answers>> /\ (pc'[r] \in Early <=> pc[r] \in Early)
    BY <1>0, <1>4, EarlySteps DEF permVars
  <2>2. AskedNobody(r)' /\ StillDurable(r)' /\ OwnRefusals(r)'
    BY <1>0, <2>1 DEF WindowOf, AskedNobody, StillDurable, OwnRefusals
  <2>3. KnownLoaded(r)'
    BY <1>0, <2>1 DEF WindowOf, KnownLoaded, Live
  <2> QED BY <1>1, <2>2, <2>3 DEF WindowOf
<1> QED BY <1>2, <1>3, <1>4, PermFrame

\* A run that stands still while others change what they know and durable rules
\* become more.
LEMMA OtherWindow ==
  ASSUME WindowInv, NEW o \in Runs, rules \subseteq rules', known'[o] = known[o],
         cache'[o] = cache[o], pc'[o] = pc[o], persist'[o] = persist[o], dec'[o] = dec[o],
         cur'[o] = cur[o], \A a \in answers' : a.by = o => a \in answers
  PROVE  WindowOf(o)'
BY DEF WindowInv, WindowOf, AskedNobody, StillDurable, KnownLoaded, OwnRefusals, Unrefused, MayRun

LEMMA OthersUntouched ==
  ASSUME TypeInv, NEW r \in Runs, RunStep(r)
  PROVE  /\ rules \subseteq rules'
         /\ \A a \in answers' : a \in answers \/ a.by = r
         /\ \A o \in Runs \ {r} : cache'[o] = cache[o] /\ dec'[o] = dec[o]
<1>1. \A o \in Runs \ {r} : dec'[o] = dec[o]
  BY DEF RunStep, ChooseRunId, Load, Bind, EmitOpening, EmitUser, Retry, NothingToRetry, Begin,
         ToolStep, ExecutorStep, Request, DecideCall, Answer, EmitDecided, Launch, Execute,
         ToolRaises, EmitResult, EmitFinished, TurnStep, Provider, DeltaChunk, MessageChunk,
         EmitMessage, ToolChunk, BadChunk, ToolSucceeded, ToolFailed, NoMessage, Complete, Finish,
         UpdateIndex, callVars, TypeInv, TypeOK, CallTypeOK
<1>2. cache \in [Runs -> RuleSets]
  BY DEF TypeInv, TypeOK, PermTypeOK
<1>3. CASE Bind(r)
  BY <1>1, <1>2, <1>3 DEF Bind
<1>4. CASE Answer(r)
  BY <1>1, <1>2, <1>4 DEF Answer
<1>5. CASE UNCHANGED permVars
  BY <1>1, <1>5 DEF permVars
<1> QED BY <1>3, <1>4, <1>5, PermFrame

LEMMA WindowStep == WindowInv /\ [WindowNext]_windowVars => WindowInv'
<1> SUFFICES ASSUME WindowInv, [WindowNext]_windowVars PROVE WindowInv'
  OBVIOUS
<1>1. TypeInv'
  BY NextTypes DEF WindowInv, WindowNext, windowVars
<1>2. CASE UNCHANGED windowVars
  BY <1>1, <1>2, OtherWindow
     DEF WindowInv, windowVars, vars, logVars, ctlVars, confVars, permVars, callVars
<1>3. ASSUME WindowNext, UNCHANGED vars PROVE WindowInv'
  <2>1. \A o \in Runs : known'[o] = known[o]
    BY <1>3 DEF WindowNext, vars, ctlVars, logVars
  <2> QED BY <1>1, <1>3, <2>1, OtherWindow
          DEF WindowInv, vars, logVars, ctlVars, confVars, permVars, callVars
<1>4. ASSUME WindowNext, NEW r \in Runs, RunStep(r) PROVE WindowInv'
  <2>1. /\ TypeInv /\ pc[r] # "idle" /\ UNCHANGED persist
        /\ \A o \in Runs \ {r} : pc'[o] = pc[o] /\ cur'[o] = cur[o]
    BY <1>4, RunStepFrame DEF WindowInv
  <2>2. \A o \in Runs : known'[o] = known[o]
    BY <1>4, <2>1 DEF WindowNext
  <2>3. WindowOf(r)'
    BY <1>4, <2>2, OwnWindow
  <2>4. ASSUME NEW o \in Runs \ {r} PROVE WindowOf(o)'
    BY <1>4, <2>1, <2>2, OthersUntouched, OtherWindow
  <2> QED BY <1>1, <2>3, <2>4 DEF WindowInv
<1>5. ASSUME WindowNext, NEW r \in Runs, Start(r) \/ IoFails(r) \/ Kill(r) PROVE WindowInv'
  <2>1. /\ UNCHANGED <<rules, cache, answers, dec, cur>>
        /\ pc'[r] \in {"run_id", "exited", "crashed"}
        /\ \A o \in Runs \ {r} : pc'[o] = pc[o] /\ persist'[o] = persist[o]
        /\ pc'[r] = "run_id" => pc[r] = "idle"
    <3>1. UNCHANGED <<rules, cache, answers, dec, cur>>
      BY <1>5 DEF Start, IoFails, Kill, permVars, callVars
    <3>2. \E end \in {"run_id", "exited", "crashed"} : pc' = [pc EXCEPT ![r] = end]
      BY <1>5 DEF Start, Goto, IoFails, Kill, Raise
    <3>3. persist' = persist \/ \E x : persist' = [persist EXCEPT ![r] = x]
      BY <1>5 DEF Start, IoFails, Kill, confVars
    <3>4. pc \in [Runs -> Pcs] /\ persist \in [Runs -> BOOLEAN]
      BY DEF WindowInv, TypeInv, TypeOK, LogTypeOK, ConfTypeOK
    <3>5. pc'[r] = "run_id" => pc[r] = "idle"
      BY <1>5, <3>4 DEF Start, MayStart, IoFails, Kill, Raise
    <3> QED BY <3>1, <3>2, <3>3, <3>4, <3>5
  <2>2. \A o \in Runs \ {r} : known'[o] = known[o]
    BY <1>5, <2>1 DEF WindowNext
  <2>3. known'[r] = known[r] \/ known'[r] = rules
    BY <1>5 DEF WindowNext
  <2>4. WindowOf(r)'
    BY <2>1, <2>3
       DEF WindowInv, WindowOf, AskedNobody, StillDurable, KnownLoaded, OwnRefusals, Unrefused,
           MayRun, Early, Ended
  <2>5. ASSUME NEW o \in Runs \ {r} PROVE WindowOf(o)'
    BY <2>1, <2>2, OtherWindow
  <2> QED BY <1>1, <2>4, <2>5 DEF WindowInv
<1> QED BY <1>2, <1>3, <1>4, <1>5 DEF WindowNext, Next, AllDone

LEMMA WindowStart == WindowInit => WindowInv
<1> SUFFICES ASSUME WindowInit PROVE WindowInv
  OBVIOUS
<1>1. TypeInv
  BY InitTypes DEF WindowInit
<1>2. \A r \in Runs : WindowOf(r)
  BY DEF WindowInit, Init, WindowOf, AskedNobody, StillDurable, KnownLoaded, OwnRefusals,
         Unrefused, MayRun, Early
<1> QED BY <1>1, <1>2 DEF WindowInv

\* A refusal for ever that was durable when a persisted run started, or that its
\* own user gave, is obeyed by that run, whatever its user answers later and
\* overlapping processes make durable (SessionOrchestrator.run reads the rules
\* once, _apply_session_replay looks for a deny first).
THEOREM DenialsOutlive == WindowSpec => DenyOutlivesStart
<1>1. WindowInv /\ [WindowNext]_windowVars =>
        [ \A e \in effects' \ effects : persist[e.by] =>
            /\ <<e.req, "deny">> \notin known[e.by]
            /\ \A a \in answers : a.by = e.by /\ a.req = e.req => a.answer # "deny_persistent" ]_windowVars
  <2> SUFFICES ASSUME WindowInv, WindowNext, NEW e \in effects' \ effects, persist[e.by]
               PROVE  /\ <<e.req, "deny">> \notin known[e.by]
                      /\ \A a \in answers : a.by = e.by /\ a.req = e.req => a.answer # "deny_persistent"
    OBVIOUS
  <2>1. PICK r \in Runs : RunStep(r)
    BY DEF WindowNext, Next, AllDone, Start, IoFails, Kill, vars, callVars
  <2>2. pc[r] = "execute" /\ e.by = r /\ e.req = cur[r]
    BY <2>1, EffectsOfStep DEF Effect
  <2>3. cur[r] \in Requests
    BY <2>2 DEF WindowInv, TypeInv, TypeOK, ScopeOK, CallPcs, Live, Ended
  <2>4. cur[r] \notin cache[r].deny
    BY <2>2 DEF WindowInv, WindowOf, Unrefused, MayRun
  <2>5. <<cur[r], "deny">> \notin known[r]
    BY <2>2, <2>3, <2>4 DEF WindowInv, WindowOf, KnownLoaded, Early, Ended
  <2>6. \A a \in answers : a.by = r /\ a.req = cur[r] => a.answer # "deny_persistent"
    BY <2>4 DEF WindowInv, WindowOf, OwnRefusals
  <2> QED BY <2>2, <2>5, <2>6
<1> QED BY <1>1, WindowStart, WindowStep, PTL DEF WindowSpec, DenyOutlivesStart

\* An allow for ever that was durable when a persisted run started spares its
\* user the question.
THEOREM AllowancesOutlive == WindowSpec => AllowOutlivesStart
<1>1. WindowInv /\ [WindowNext]_windowVars =>
        [ \A r \in Runs : (pc[r] = "decide" /\ persist[r] /\ pc'[r] = "answer") =>
            <<cur[r], "allow">> \notin known[r] ]_windowVars
  <2> SUFFICES ASSUME WindowInv, WindowNext, NEW r \in Runs,
                      pc[r] = "decide", persist[r], pc'[r] = "answer"
               PROVE  <<cur[r], "allow">> \notin known[r]
    OBVIOUS
  <2>0. TypeInv /\ pc \in [Runs -> Pcs] /\ cur[r] \in Requests
    BY DEF WindowInv, TypeInv, TypeOK, LogTypeOK, ScopeOK, CallPcs, Live, Ended
  <2>1. RunStep(r)
    <3>1. ~(UNCHANGED vars)
      BY DEF vars, logVars, ctlVars
    <3>2. PICK o \in Runs : Start(o) \/ RunStep(o) \/ IoFails(o) \/ Kill(o)
      BY <3>1 DEF WindowNext, Next, AllDone
    <3>3. CASE RunStep(o)
      BY <2>0, <3>3, RunStepFrame
    <3>4. CASE Start(o) \/ IoFails(o) \/ Kill(o)
      <4>1. \E end \in {"run_id", "exited", "crashed"} : pc' = [pc EXCEPT ![o] = end]
        BY <3>4 DEF Start, Goto, IoFails, Kill, Raise
      <4> QED BY <2>0, <4>1
    <3> QED BY <3>2, <3>3, <3>4
  <2>2. DecideCall(r)
    BY <2>0, <2>1
       DEF RunStep, ChooseRunId, Load, LoadSeq, LoadParent, Bind, EmitOpening, EmitUser, Retry,
           NothingToRetry, ToolStep, ExecutorStep, Request, Answer, EmitDecided, Launch,
           Execute, ToolRaises, EmitResult, EmitFinished, TurnStep, Provider, DeltaChunk,
           MessageChunk, EmitMessage, ToolChunk, BadChunk, TakeChunk, ToolSucceeded, ToolFailed,
           NoMessage, Complete, UpdateIndex
  <2>3. Provisional(r).decision = "ask"
    BY <2>0, <2>2 DEF DecideCall, Goto
  <2>4. cur[r] \notin cache[r].allow
    BY <2>3 DEF Provisional, Decide, ApplyReplay, Decision
  <2> QED BY <2>0, <2>4 DEF WindowInv, WindowOf, KnownLoaded, Early, Ended
<1> QED BY <1>1, WindowStart, WindowStep, PTL DEF WindowSpec, AllowOutlivesStart
-----------------------------------------------------------------------------
(***************************************************************************)
(* Sessions whose processes do not overlap: one chain of records over      *)
(* resumes, failed runs and kills, run ids that are new to the file, and   *)
(* refusals that hold. Any number of runs may follow one another. The      *)
(* invariant says what the one live run knows of the file (its counter is  *)
(* not behind the last line, its parent is the last line) and of the       *)
(* durable refusals.                                                       *)
(***************************************************************************)

\* At most one run is live.
Alone == \A o, b \in Runs : Live(o) /\ Live(b) => o = b

RecordsStarted == \A s \in Sessions : \A i \in 1..Len(transcript[s]) : pc[transcript[s][i].by] # "idle"

\* Where a run stands before it has read where the file ends.
Unread == {"run_id", "load_seq"}

Positioned(r) ==
  (persist[r] /\ Live(r)) =>
    /\ pc[r] \notin Unread => LastEvent(sid[r]) <= seq[r]
    /\ pc[r] \notin Unplaced => last[r] = LastEvent(sid[r])

\* No record of another run carries the id of a resumed run.
FreshId(r) ==
  (Live(r) /\ Resumed(r) /\ pc[r] # "run_id") =>
    \A i \in 1..Len(transcript[sid[r]]) :
      transcript[sid[r]][i].by # r => transcript[sid[r]][i].run # rid[r]

ChainInv ==
  /\ ~Overlap /\ AuditInv /\ Alone /\ RecordsStarted
  /\ SeqStrictlyIncreasing /\ ParentIsPrevious /\ ResumedRunIdsFresh
  /\ \A r \in Runs : Positioned(r) /\ FreshId(r)
-----------------------------------------------------------------------------
(* The chain. *)

\* The record of an emission, where one is written, extends the chain of its
\* session; the run stays positioned at the end of the file.
LEMMA SpeaksChain ==
  ASSUME ChainInv, NEW r \in Runs, Live(r), \E e, next : Tells(r, e, next),
         UNCHANGED <<sid, persist, kind>>
  PROVE  /\ SeqStrictlyIncreasing' /\ ParentIsPrevious' /\ ResumedRunIdsFresh'
         /\ Positioned(r)' /\ FreshId(r)'
         /\ \A s \in Sessions : \A i \in 1..Len(transcript'[s]) :
              \/ i \in 1..Len(transcript[s]) /\ transcript'[s][i] = transcript[s][i]
              \/ transcript'[s][i].by = r
<1> DEFINE s == sid[r]
           n == Len(transcript[s])
<1>0. /\ TypeInv /\ s \in Sessions /\ transcript[s] \in Seq(Records) /\ n \in Nat
      /\ DOMAIN transcript[s] = 1..n
      /\ seq[r] \in Nat /\ pc[r] \notin Unplaced /\ UNCHANGED rid
      /\ pc[r] \notin Unread
  BY DEF ChainInv, AuditInv, TypeInv, TypeOK, ScopeOK, LogTypeOK, Tells, Unplaced, Unread
<1>1. PICK e \in Records, next \in Pcs :
        /\ Emit(r, e, next)
        /\ e.seq = seq[r] + 1 /\ e.parent = last[r] /\ e.by = r /\ e.run = rid[r]
  BY DEF Tells, NextEvent
<1>2. persist[r] => LastEvent(s) <= seq[r] /\ last[r] = LastEvent(s)
  BY <1>0 DEF ChainInv, Positioned
<1>3. Resumed(r) => \A i \in 1..n : transcript[s][i].by # r => transcript[s][i].run # rid[r]
  BY <1>0 DEF ChainInv, FreshId, Unplaced, Unread
<1>4. CASE Written(r, e)
  <2>1. /\ persist[r] /\ Legal(r, e) /\ e.type \notin StreamOnlyTypes
        /\ transcript' = [transcript EXCEPT ![s] = Append(transcript[s], e)]
        /\ seq'[r] = seq[r] + 1 /\ last'[r] = e.seq
    BY <1>0, <1>1, <1>4 DEF Written, Legal, Emit, AppendRecord, TypeInv, TypeOK, LogTypeOK
  <2>2. /\ transcript'[s] = Append(transcript[s], e)
        /\ \A t \in Sessions \ {s} : transcript'[t] = transcript[t]
    BY <1>0, <2>1 DEF TypeInv, TypeOK, LogTypeOK
  <2>3. /\ Len(transcript'[s]) = n + 1 /\ DOMAIN transcript'[s] = 1..(n + 1)
        /\ \A i \in 1..n : transcript'[s][i] = transcript[s][i]
        /\ transcript'[s][n + 1] = e
    BY <1>0, <2>2, AppendKeeps
  <2>4. /\ n = 0 => LastEvent(s) = 0
        /\ n # 0 => LastEvent(s) = transcript[s][n].seq
    BY <1>0 DEF LastEvent
  <2>5. LastEvent(s) \in Nat
    BY <1>0, <2>4, LineOfRecords
  <2> HIDE DEF n
  <2>6. SeqStrictlyIncreasing'
    <3> SUFFICES ASSUME NEW t \in Sessions, NEW i \in 1..(Len(transcript'[t]) - 1)
                 PROVE  transcript'[t][i].seq < transcript'[t][i + 1].seq
      BY DEF SeqStrictlyIncreasing
    <3>1. CASE t # s
      BY <2>2, <3>1 DEF ChainInv, SeqStrictlyIncreasing
    <3>2. CASE t = s /\ i # n
      <4>1. i \in 1..(n - 1) /\ i \in 1..n /\ i + 1 \in 1..n
        BY <1>0, <2>3, <3>2
      <4>2. transcript[s][i].seq < transcript[s][i + 1].seq
        BY <1>0, <4>1 DEF ChainInv, SeqStrictlyIncreasing, n
      <4> QED BY <2>3, <3>2, <4>1, <4>2
    <3>3. CASE t = s /\ i = n
      <4>1. n \in 1..n /\ n # 0
        BY <1>0, <3>3
      <4>2. transcript'[t][i].seq = LastEvent(s) /\ transcript'[t][i + 1].seq = seq[r] + 1
        BY <1>1, <2>3, <2>4, <3>3, <4>1
      <4> QED BY <1>0, <1>2, <2>1, <2>5, <4>2
    <3> QED BY <3>1, <3>2, <3>3
  <2>7. ParentIsPrevious'
    <3> SUFFICES ASSUME NEW t \in Sessions, NEW i \in DOMAIN transcript'[t]
                 PROVE  transcript'[t][i].parent = IF i = 1 THEN 0 ELSE transcript'[t][i - 1].seq
      BY DEF ParentIsPrevious
    <3>1. CASE t # s
      BY <2>2, <3>1 DEF ChainInv, ParentIsPrevious
    <3>2. CASE t = s /\ i # n + 1
      <4>1. i \in 1..n /\ (i # 1 => i - 1 \in 1..n)
        BY <1>0, <2>3, <3>2
      <4>2. transcript[s][i].parent = IF i = 1 THEN 0 ELSE transcript[s][i - 1].seq
        BY <1>0, <4>1 DEF ChainInv, ParentIsPrevious
      <4> QED BY <2>3, <3>2, <4>1, <4>2
    <3>3. CASE t = s /\ i = n + 1
      <4>1. transcript'[t][i].parent = LastEvent(s)
        BY <1>1, <1>2, <2>1, <2>3, <3>3
      <4>2. n # 0 => n \in 1..n /\ i - 1 = n
        BY <1>0, <3>3
      <4> QED BY <1>0, <2>3, <2>4, <3>3, <4>1, <4>2
    <3> QED BY <3>1, <3>2, <3>3
  <2>8. ResumedRunIdsFresh'
    <3> SUFFICES ASSUME NEW t \in Sessions, NEW i \in DOMAIN transcript'[t],
                        NEW j \in DOMAIN transcript'[t], i < j,
                        transcript'[t][i].by # transcript'[t][j].by,
                        kind[transcript'[t][j].by] \in {"resume", "continue"}
                 PROVE  transcript'[t][i].run # transcript'[t][j].run
      BY DEF ResumedRunIdsFresh, Resumed
    <3>0. \A b : kind[b] \in {"resume", "continue"} => Resumed(b)
      BY DEF Resumed
    <3>1. CASE t # s
      BY <2>2, <3>0, <3>1 DEF ChainInv, ResumedRunIdsFresh
    <3>2. CASE t = s /\ j # n + 1
      <4>1. i \in 1..n /\ j \in 1..n
        BY <1>0, <2>3, <3>2
      <4>2. /\ transcript[s][i].by # transcript[s][j].by
            /\ Resumed(transcript[s][j].by)
        BY <2>3, <3>0, <3>2, <4>1
      <4>3. transcript[s][i].run # transcript[s][j].run
        BY <1>0, <4>1, <4>2 DEF ChainInv, ResumedRunIdsFresh
      <4> QED BY <2>3, <3>2, <4>1, <4>3
    <3>3. CASE t = s /\ j = n + 1
      <4>1. i \in 1..n
        BY <1>0, <2>3, <3>3
      <4>2. transcript'[t][j] = e /\ transcript'[t][i] = transcript[s][i] /\ e.by = r
        BY <1>1, <2>3, <3>3, <4>1
      <4>3. Resumed(r) /\ transcript[s][i].by # r
        BY <3>0, <4>2
      <4> QED BY <1>1, <1>3, <4>1, <4>2, <4>3
    <3> QED BY <3>1, <3>2, <3>3
  <2>9. Positioned(r)'
    <3>1. sid'[r] = s /\ LastEvent(sid[r])' = e.seq
      BY <1>0, <2>3 DEF LastEvent
    <3> QED BY <1>0, <1>1, <2>1, <3>1 DEF Positioned
  <2>10. FreshId(r)'
    <3>1. sid'[r] = s /\ rid' = rid /\ (Resumed(r)' => Resumed(r))
      BY <1>0 DEF Resumed
    <3>2. \A i \in 1..(n + 1) : i \in 1..n \/ i = n + 1
      BY <1>0
    <3> QED BY <1>1, <1>3, <2>3, <3>1, <3>2 DEF FreshId
  <2>11. \A t \in Sessions : \A i \in 1..Len(transcript'[t]) :
           \/ i \in 1..Len(transcript[t]) /\ transcript'[t][i] = transcript[t][i]
           \/ transcript'[t][i].by = r
    <3>1. \A i \in 1..(n + 1) : i \in 1..n \/ i = n + 1
      BY <1>0
    <3> QED BY <1>1, <2>2, <2>3, <3>1 DEF n
  <2> QED BY <2>6, <2>7, <2>8, <2>9, <2>10, <2>11
<1>5. CASE ~Written(r, e)
  <2>1. /\ UNCHANGED transcript
        /\ Legal(r, e) => seq'[r] = seq[r] + 1
        /\ Legal(r, e) /\ persist[r] => last'[r] = last[r]
        /\ ~Legal(r, e) => pc'[r] = "exited"
    BY <1>0, <1>1, <1>5 DEF Written, Legal, Emit, TypeInv, TypeOK, LogTypeOK
  <2>2. Positioned(r)'
    <3>1. LastEvent(sid[r])' = LastEvent(s)
      BY <2>1 DEF LastEvent
    <3>2. persist[r] => LastEvent(s) <= seq[r] + 1
      <4>1. LastEvent(s) \in Nat
        BY <1>0, LineOfRecords DEF LastEvent
      <4> QED BY <1>0, <1>2, <4>1
    <3> QED BY <1>2, <2>1, <3>1, <3>2 DEF Positioned, Live, Ended
  <2>3. FreshId(r)'
    BY <1>0, <1>3, <2>1 DEF FreshId, Resumed
  <2>4. SeqStrictlyIncreasing' /\ ParentIsPrevious' /\ ResumedRunIdsFresh'
    BY <2>1 DEF ChainInv, SeqStrictlyIncreasing, ParentIsPrevious, ResumedRunIdsFresh, Resumed
  <2> QED BY <2>1, <2>2, <2>3, <2>4
<1> QED BY <1>4, <1>5

\* A step that leaves the files, and the configuration of who wrote them, alone.
LEMMA FilesLeft ==
  ASSUME ChainInv, UNCHANGED transcript, \A b \in Runs : pc[b] # "idle" => kind'[b] = kind[b]
  PROVE  SeqStrictlyIncreasing' /\ ParentIsPrevious' /\ ResumedRunIdsFresh'
<1>1. SeqStrictlyIncreasing' /\ ParentIsPrevious'
  BY DEF ChainInv, SeqStrictlyIncreasing, ParentIsPrevious
<1>2. ResumedRunIdsFresh'
  <2> SUFFICES ASSUME NEW t \in Sessions, NEW i \in DOMAIN transcript[t],
                      NEW j \in DOMAIN transcript[t], i < j,
                      transcript[t][i].by # transcript[t][j].by,
                      kind'[transcript[t][j].by] \in {"resume", "continue"}
               PROVE  transcript[t][i].run # transcript[t][j].run
    BY DEF ResumedRunIdsFresh, Resumed
  <2>1. transcript[t][j].by \in Runs /\ pc[transcript[t][j].by] # "idle"
    <3>1. transcript[t] \in Seq(Records)
      BY DEF ChainInv, AuditInv, TypeInv, TypeOK, LogTypeOK
    <3>2. transcript[t][j] \in Records /\ j \in 1..Len(transcript[t])
      BY <3>1
    <3> QED BY <3>2 DEF ChainInv, RecordsStarted, Records
  <2> QED BY <2>1 DEF ChainInv, ResumedRunIdsFresh, Resumed
<1> QED BY <1>1, <1>2

LEMMA KindFrame ==
  ASSUME NEW r \in Runs, RunStep(r)
  PROVE  kind' = kind
BY DEF RunStep, ChooseRunId, Load, Bind, EmitOpening, EmitUser, Retry, NothingToRetry,
       ToolStep, TurnStep, Provider, DeltaChunk, MessageChunk, EmitMessage, ToolChunk, BadChunk,
       ToolSucceeded, ToolFailed, NoMessage, Complete, Finish, UpdateIndex, confVars

\* A run that has read less than the whole file, or says nothing.
LEMMA QuietChain ==
  ASSUME ChainInv, NEW r \in Runs, Live(r), UNCHANGED <<sid, persist, kind>>,
         Moves(r) \/ Places(r)
  PROVE  Positioned(r)' /\ FreshId(r)' /\ UNCHANGED transcript
<1> DEFINE s == sid[r]
<1>0. /\ TypeInv /\ s \in Sessions /\ transcript[s] \in Seq(Records)
      /\ seq \in [Runs -> Nat] /\ last \in [Runs -> Nat] /\ rid \in [Runs -> Nat]
      /\ pc \in [Runs -> Pcs] /\ Positioned(r) /\ FreshId(r)
  BY DEF ChainInv, AuditInv, TypeInv, TypeOK, ScopeOK, LogTypeOK, ConfTypeOK
<1>1. CASE Moves(r)
  <2>1. UNCHANGED <<transcript, seq, last, rid>> /\ pc[r] \notin Unplaced
    BY <1>1 DEF Moves
  <2>2. LastEvent(sid[r])' = LastEvent(sid[r])
    BY <2>1 DEF LastEvent
  <2> QED BY <1>0, <2>1, <2>2 DEF Positioned, FreshId, Resumed, Unplaced, Unread
<1>2. CASE ChooseRunId(r)
  <2>1. pc'[r] = "load_seq" /\ UNCHANGED transcript
    BY <1>0, <1>2 DEF ChooseRunId, Goto, logVars
  <2>2. ASSUME Resumed(r), NEW i \in 1..Len(transcript[s])
        PROVE  transcript[s][i].run # rid'[r]
    <3>1. transcript[s] # <<>> /\ i \in DOMAIN transcript[s]
      BY <1>0
    <3>2. PICK m \in NextRunIds(transcript[s]) : rid' = [rid EXCEPT ![r] = m]
      BY <1>2, <2>2, <3>1 DEF ChooseRunId
    <3>3. PICK k \in DOMAIN transcript[s] :
            /\ m = transcript[s][k].run + 1
            /\ \A j \in DOMAIN transcript[s] : transcript[s][j].run <= transcript[s][k].run
      BY <3>2 DEF NextRunIds
    <3>4. transcript[s][i].run \in Nat /\ transcript[s][k].run \in Nat
      BY <1>0, <3>1, LineOfRecords
    <3>5. rid'[r] = m
      BY <1>0, <3>2
    <3>6. transcript[s][i].run <= transcript[s][k].run
      BY <3>1, <3>3
    <3> QED BY <3>3, <3>4, <3>5, <3>6
  <2>3. Positioned(r)'
    BY <2>1 DEF Positioned, Unread, Unplaced
  <2>4. FreshId(r)'
    BY <2>1, <2>2 DEF FreshId, Resumed
  <2> QED BY <2>1, <2>3, <2>4
<1>3. CASE LoadSeq(r) /\ UNCHANGED rid
  <2>1. /\ pc[r] = "load_seq" /\ pc'[r] = "load_parent" /\ UNCHANGED <<transcript, rid>>
        /\ seq'[r] = NextSeq(s) - 1
    BY <1>0, <1>3 DEF LoadSeq
  <2>2. NextSeq(s) - 1 = LastEvent(s) /\ LastEvent(s) \in Nat
    <3>1. transcript[s] # <<>> => transcript[s][Len(transcript[s])].seq \in Nat
      BY <1>0, LineOfRecords
    <3> QED BY <3>1 DEF NextSeq, LastEvent
  <2>3. LastEvent(sid[r])' = LastEvent(s)
    BY <2>1 DEF LastEvent
  <2>4. Positioned(r)'
    BY <2>1, <2>2, <2>3 DEF Positioned, Unread, Unplaced
  <2> QED BY <1>0, <2>1, <2>4 DEF FreshId, Resumed, Live, Ended
<1>4. CASE LoadParent(r) /\ UNCHANGED rid
  <2>1. /\ pc[r] = "load_parent" /\ pc'[r] = "bind" /\ UNCHANGED <<transcript, rid, seq>>
        /\ last'[r] = LastEvent(s)
    BY <1>0, <1>4 DEF LoadParent
  <2>2. LastEvent(sid[r])' = LastEvent(s)
    BY <2>1 DEF LastEvent
  <2>3. Positioned(r)'
    BY <1>0, <2>1, <2>2 DEF Positioned, Unread, Unplaced
  <2> QED BY <1>0, <2>1, <2>3 DEF FreshId, Resumed, Live, Ended
<1> QED BY <1>1, <1>2, <1>3, <1>4 DEF Places

LEMMA RunStepChain ==
  ASSUME ChainInv, NEW r \in Runs, RunStep(r), AuditInv'
  PROVE  ChainInv'
<1>1. /\ TypeInv /\ UNCHANGED <<sid, persist, kind>> /\ Live(r)
      /\ pc[r] # "idle" /\ pc'[r] # "idle"
      /\ \A o \in Runs \ {r} : pc'[o] = pc[o]
  BY RunStepFrame, KindFrame DEF ChainInv, AuditInv
<1>2. \A o \in Runs \ {r} : ~Live(o) /\ ~Live(o)'
  BY <1>1 DEF ChainInv, Alone, Live
<1>3. Alone'
  BY <1>2 DEF Alone
<1>4. /\ SeqStrictlyIncreasing' /\ ParentIsPrevious' /\ ResumedRunIdsFresh'
      /\ Positioned(r)' /\ FreshId(r)' /\ RecordsStarted'
  <2>0. ASSUME NEW s \in Sessions
        PROVE  /\ transcript[s] \in Seq(Records)
               /\ \A i \in 1..Len(transcript[s]) : transcript[s][i].by \in Runs
    <3>1. transcript[s] \in Seq(Records)
      BY <1>1 DEF TypeInv, TypeOK, LogTypeOK
    <3>2. \A i \in 1..Len(transcript[s]) : transcript[s][i] \in Records
      BY <3>1
    <3> QED BY <3>1, <3>2 DEF Records
  <2>1. CASE \E e, next : Tells(r, e, next)
    <3>1. RecordsStarted'
      BY <1>1, <2>0, <2>1, SpeaksChain DEF ChainInv, RecordsStarted
    <3> QED BY <1>1, <2>1, <3>1, SpeaksChain
  <2>2. CASE Moves(r) \/ Places(r)
    <3>1. Positioned(r)' /\ FreshId(r)' /\ UNCHANGED transcript
      BY <1>1, <2>2, QuietChain
    <3>2. RecordsStarted'
      BY <1>1, <2>0, <3>1 DEF ChainInv, RecordsStarted
    <3> QED BY <1>1, <3>1, <3>2, FilesLeft
  <2> QED BY <1>1, <2>1, <2>2, StepKinds
<1>5. \A o \in Runs : Positioned(o)' /\ FreshId(o)'
  BY <1>2, <1>4 DEF Positioned, FreshId
<1> QED BY <1>3, <1>4, <1>5 DEF ChainInv

\* A run that starts finds nobody at work; one that fails or is killed leaves
\* what it wrote.
LEMMA StartOrEndChain ==
  ASSUME ChainInv, NEW r \in Runs, Start(r) \/ IoFails(r) \/ Kill(r), AuditInv'
  PROVE  ChainInv'
<1>0. /\ pc \in [Runs -> Pcs] /\ kind \in [Runs -> Kinds] /\ TypeInv
  BY DEF ChainInv, AuditInv, TypeInv, TypeOK, LogTypeOK, ConfTypeOK
<1>1. /\ UNCHANGED transcript /\ pc'[r] \in {"run_id", "exited", "crashed"}
      /\ \A o \in Runs \ {r} : pc'[o] = pc[o]
  <2>1. UNCHANGED transcript
    BY DEF Start, Goto, IoFails, Kill, logVars
  <2>2. \E end \in {"run_id", "exited", "crashed"} : pc' = [pc EXCEPT ![r] = end]
    BY DEF Start, Goto, IoFails, Kill, Raise
  <2> QED BY <1>0, <2>1, <2>2
<1>2. \A o \in Runs \ {r} : ~Live(o) /\ ~Live(o)'
  <2>1. CASE Start(r)
    BY <1>1, <2>1 DEF Start, MayStart, ChainInv, Live
  <2>2. CASE IoFails(r) \/ Kill(r)
    BY <1>1, <2>2 DEF IoFails, Kill, ChainInv, Alone, Live
  <2> QED BY <2>1, <2>2
<1>3. Alone'
  BY <1>2 DEF Alone
<1>4. SeqStrictlyIncreasing' /\ ParentIsPrevious' /\ ResumedRunIdsFresh'
  <2>1. \A b \in Runs : pc[b] # "idle" => kind'[b] = kind[b]
    <3>1. CASE Start(r)
      <4>1. pc[r] = "idle" /\ \E x : kind' = [kind EXCEPT ![r] = x]
        BY <3>1 DEF Start, MayStart
      <4> QED BY <1>0, <4>1
    <3>2. CASE IoFails(r) \/ Kill(r)
      BY <3>2 DEF IoFails, Kill, confVars
    <3> QED BY <3>1, <3>2
  <2> QED BY <1>1, <2>1, FilesLeft
<1>5. \A o \in Runs : Positioned(o)' /\ FreshId(o)'
  BY <1>1, <1>2 DEF Positioned, FreshId, Live, Ended, Unread, Unplaced
<1>6. RecordsStarted'
  <2>1. ASSUME NEW s \in Sessions, NEW i \in 1..Len(transcript[s])
        PROVE  transcript[s][i].by \in Runs /\ pc[transcript[s][i].by] # "idle"
    <3>1. transcript[s] \in Seq(Records)
      BY <1>0 DEF TypeInv, TypeOK, LogTypeOK
    <3>2. transcript[s][i] \in Records
      BY <3>1
    <3> QED BY <3>2 DEF Records, ChainInv, RecordsStarted
  <2> QED BY <1>1, <2>1 DEF RecordsStarted
<1> QED BY <1>3, <1>4, <1>5, <1>6 DEF ChainInv

LEMMA ChainInit == Init /\ ~Overlap => ChainInv
<1> SUFFICES ASSUME Init, ~Overlap PROVE ChainInv
  OBVIOUS
<1>1. AuditInv
  BY AuditInit
<1>2. \A s \in Sessions : transcript[s] = <<>>
  BY DEF Init
<1>3. SeqStrictlyIncreasing /\ ParentIsPrevious /\ ResumedRunIdsFresh /\ RecordsStarted
  BY <1>2 DEF SeqStrictlyIncreasing, ParentIsPrevious, ResumedRunIdsFresh, RecordsStarted
<1>4. Alone /\ \A r \in Runs : Positioned(r) /\ FreshId(r)
  BY DEF Init, Alone, Positioned, FreshId, Live
<1> QED BY <1>1, <1>3, <1>4 DEF ChainInv

LEMMA ChainNext == ChainInv /\ [Next]_vars => ChainInv'
<1> SUFFICES ASSUME ChainInv, [Next]_vars PROVE ChainInv'
  OBVIOUS
<1>1. AuditInv'
  BY AuditNext DEF ChainInv
<1>2. CASE UNCHANGED vars
  <2>1. UNCHANGED <<transcript, pc, persist, kind, sid, rid, seq, last>>
    BY <1>2 DEF vars, logVars, ctlVars, confVars, idVars
  <2>2. SeqStrictlyIncreasing' /\ ParentIsPrevious' /\ ResumedRunIdsFresh'
    BY <2>1, FilesLeft
  <2>3. Alone' /\ RecordsStarted'
    BY <2>1 DEF ChainInv, Alone, RecordsStarted, Live
  <2>4. \A r \in Runs : Positioned(r)' /\ FreshId(r)'
    BY <2>1 DEF ChainInv, Positioned, FreshId, LastEvent, Resumed, Live
  <2> QED BY <1>1, <2>2, <2>3, <2>4 DEF ChainInv
<1> QED BY <1>1, <1>2, RunStepChain, StartOrEndChain DEF Next, AllDone
-----------------------------------------------------------------------------
\* As long as no two processes run at once, the numbers of a session increase
\* from line to line, over any number of runs, resumes, streamed events, failures
\* and kills (get_next_seq, _emit).
THEOREM NumbersIncrease == Spec /\ ~Overlap => []SeqStrictlyIncreasing
<1>1. ChainInv => SeqStrictlyIncreasing
  BY DEF ChainInv
<1> QED BY <1>1, ChainInit, ChainNext, PTL DEF Spec

\* Likewise every record's parent is the record before it: one chain from the
\* first record of the session to its last (get_last_persisted_event_id, _emit).
THEOREM ChainUnbroken == Spec /\ ~Overlap => []ParentIsPrevious
<1>1. ChainInv => ParentIsPrevious
  BY DEF ChainInv
<1> QED BY <1>1, ChainInit, ChainNext, PTL DEF Spec

\* Likewise a resumed run's id is on no earlier record of its session
\* (_resolve_session_and_run).
THEOREM RunIdsFresh == Spec /\ ~Overlap => []ResumedRunIdsFresh
<1>1. ChainInv => ResumedRunIdsFresh
  BY DEF ChainInv
<1> QED BY <1>1, ChainInit, ChainNext, PTL DEF Spec
-----------------------------------------------------------------------------
(* Refusals. *)

\* Every durable refusal is in the copy that the live run reads.
RefusalsKnown(r) ==
  (persist[r] /\ Live(r) /\ pc[r] \notin Unplaced \cup {"bind"}) =>
    \A q \in Requests : <<q, "deny">> \in rules => q \in cache[r].deny

\* A call that a user is asked about, or that is allowed, is refused nowhere.
NotRefused(r) ==
  MayRun(r) => /\ cur[r] \notin replay[HostOf[r]][sid[r]].deny
               /\ cur[r] \notin cache[r].deny

RefusalInv == ChainInv /\ \A r \in Runs : RefusalsKnown(r) /\ NotRefused(r)

LEMMA KnownStep ==
  ASSUME RefusalInv, NEW r \in Runs, RunStep(r)
  PROVE  RefusalsKnown(r)'
<1>0. /\ TypeInv /\ UNCHANGED persist /\ RefusalsKnown(r) /\ Live(r)
      /\ pc \in [Runs -> Pcs] /\ cache \in [Runs -> RuleSets]
  BY RunStepFrame DEF RefusalInv, ChainInv, AuditInv, TypeInv, TypeOK, LogTypeOK, PermTypeOK
<1>1. CASE Bind(r)
  <2>1. UNCHANGED rules /\ (persist[r] => cache'[r].deny = {q \in Requests : <<q, "deny">> \in rules})
    BY <1>0, <1>1 DEF Bind
  <2> QED BY <1>0, <2>1 DEF RefusalsKnown
<1>2. CASE Answer(r)
  <2>1. PICK a \in Answers :
          /\ cache' = [cache EXCEPT ![r] = Remember(@, cur[r], a, "allow_persistent", "deny_persistent")]
          /\ rules' = IF persist[r] THEN rules \cup ({cur[r]} \X PersistentEffect(a)) ELSE rules
    BY <1>2 DEF Answer, PossibleAnswers, Answers
  <2>2. \A q \in Requests : <<q, "deny">> \in rules' =>
          <<q, "deny">> \in rules \/ (q = cur[r] /\ a = "deny_persistent")
    BY <2>1 DEF PersistentEffect
  <2>3. cache'[r].deny = cache[r].deny \cup {x \in {cur[r]} : a = "deny_persistent"}
    BY <1>0, <2>1 DEF Remember
  <2>4. pc[r] = "answer"
    BY <1>2 DEF Answer
  <2> QED BY <1>0, <2>2, <2>3, <2>4 DEF RefusalsKnown, Unplaced, Unread
<1>3. CASE UNCHANGED permVars
  <2>1. ASSUME pc[r] \in Unplaced, ~Bind(r), Live(r)'
        PROVE  pc'[r] \in Unplaced \cup {"bind"}
    <3>1. Places(r)
      BY <2>1, StepKinds, <1>0 DEF Tells, Moves
    <3> QED BY <1>0, <3>1 DEF Places, ChooseRunId, LoadSeq, LoadParent, Goto, Unplaced
  <2>2. pc[r] = "bind" => Bind(r)
    BY DEF RunStep, ChooseRunId, Load, LoadSeq, LoadParent, EmitOpening, EmitUser, Retry,
           NothingToRetry, ToolStep, ExecutorStep, Request, DecideCall, Answer, EmitDecided,
           Launch, Execute, ToolRaises, EmitResult, EmitFinished, TurnStep, Provider, DeltaChunk,
           MessageChunk, EmitMessage, ToolChunk, BadChunk, TakeChunk, ToolSucceeded, ToolFailed,
           NoMessage, Complete, UpdateIndex
  <2> QED BY <1>0, <1>1, <1>3, <2>1, <2>2 DEF RefusalsKnown, permVars, Unplaced, Unread
<1> QED BY <1>1, <1>2, <1>3, PermFrame

LEMMA NotRefusedStep ==
  ASSUME RefusalInv, NEW r \in Runs, RunStep(r)
  PROVE  NotRefused(r)'
BY MayRunStep DEF RefusalInv, ChainInv, AuditInv, NotRefused, permVars

LEMMA RefusalNext == RefusalInv /\ [Next]_vars => RefusalInv'
<1> SUFFICES ASSUME RefusalInv, [Next]_vars PROVE RefusalInv'
  OBVIOUS
<1>1. ChainInv' /\ TypeInv
  BY ChainNext DEF RefusalInv, ChainInv, AuditInv
<1>2. ASSUME NEW o \in Runs, ~Live(o)' PROVE RefusalsKnown(o)' /\ NotRefused(o)'
  BY <1>2 DEF RefusalsKnown, NotRefused, MayRun, Live, Ended
<1>3. CASE UNCHANGED vars
  BY <1>1, <1>3 DEF RefusalInv, RefusalsKnown, NotRefused, MayRun, Live, vars, logVars, ctlVars,
                    confVars, idVars, permVars, callVars
<1>4. ASSUME NEW r \in Runs, RunStep(r) PROVE RefusalInv'
  <2>1. RefusalsKnown(r)' /\ NotRefused(r)'
    BY <1>4, KnownStep, NotRefusedStep
  <2>2. \A o \in Runs \ {r} : ~Live(o)'
    BY <1>1, <1>4, RunStepFrame DEF RefusalInv, ChainInv, Alone, Live
  <2> QED BY <1>1, <1>2, <2>1, <2>2 DEF RefusalInv
<1>5. ASSUME NEW r \in Runs, Start(r) \/ IoFails(r) \/ Kill(r) PROVE RefusalInv'
  <2>1. /\ pc'[r] \in {"run_id", "exited", "crashed"}
        /\ \A o \in Runs \ {r} : pc'[o] = pc[o]
    <3>1. \E end \in {"run_id", "exited", "crashed"} : pc' = [pc EXCEPT ![r] = end]
      BY <1>5 DEF Start, Goto, IoFails, Kill, Raise
    <3> QED BY <1>1, <3>1 DEF TypeInv, TypeOK, LogTypeOK
  <2>2. \A o \in Runs \ {r} : ~Live(o)'
    <3>1. CASE Start(r)
      BY <2>1, <3>1 DEF Start, MayStart, RefusalInv, ChainInv, Live
    <3>2. CASE IoFails(r) \/ Kill(r)
      BY <2>1, <3>2 DEF IoFails, Kill, RefusalInv, ChainInv, Alone, Live
    <3> QED BY <1>5, <3>1, <3>2
  <2>3. RefusalsKnown(r)' /\ NotRefused(r)'
    BY <2>1 DEF RefusalsKnown, NotRefused, MayRun, Live, Ended, Unplaced, Unread
  <2> QED BY <1>1, <1>2, <2>2, <2>3 DEF RefusalInv
<1> QED BY <1>3, <1>4, <1>5 DEF Next, AllDone

\* As long as no two processes run at once, a request that a user refused for
\* ever, in whatever session and process, is not executed by a persisted run,
\* nor one that its process remembers as refused for the session, whatever was
\* allowed before or after (_apply_session_replay, PermissionRuleStore).
THEOREM RefusalsHold == Spec /\ ~Overlap => NoDeniedEffect
<1>1. Init /\ ~Overlap => RefusalInv
  BY ChainInit DEF Init, RefusalInv, RefusalsKnown, NotRefused, MayRun, Live
<1>2. RefusalInv /\ [Next]_vars =>
        [ \A e \in effects' \ effects :
            /\ persist[e.by] => <<e.req, "deny">> \notin rules
            /\ e.req \notin replay[HostOf[e.by]][e.sid].deny ]_vars
  <2> SUFFICES ASSUME RefusalInv, Next, NEW e \in effects' \ effects
               PROVE  /\ persist[e.by] => <<e.req, "deny">> \notin rules
                      /\ e.req \notin replay[HostOf[e.by]][e.sid].deny
    OBVIOUS
  <2>1. PICK r \in Runs : RunStep(r)
    BY DEF Next, AllDone, Start, IoFails, Kill, vars, callVars
  <2>2. pc[r] = "execute" /\ e = Effect(r)
    BY <2>1, EffectsOfStep
  <2>3. e.by = r /\ e.req = cur[r] /\ e.sid = sid[r]
    BY <2>2 DEF Effect
  <2>4. cur[r] \in Requests /\ Live(r)
    BY <2>2 DEF RefusalInv, ChainInv, AuditInv, TypeInv, TypeOK, ScopeOK, CallPcs, Live, Ended
  <2>5. /\ cur[r] \notin replay[HostOf[r]][sid[r]].deny /\ cur[r] \notin cache[r].deny
    BY <2>2 DEF RefusalInv, NotRefused, MayRun
  <2>6. persist[r] => <<cur[r], "deny">> \notin rules
    BY <2>2, <2>4, <2>5 DEF RefusalInv, RefusalsKnown, Unplaced, Unread
  <2> QED BY <2>3, <2>5, <2>6
<1> QED BY <1>1, <1>2, RefusalNext, PTL DEF Spec, NoDeniedEffect
=============================================================================
