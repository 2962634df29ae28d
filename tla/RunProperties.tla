---------------------------- MODULE RunProperties ----------------------------
(***************************************************************************)
(* What the orchestrator promises about its transcripts, its permissions   *)
(* and its exit codes.                                                     *)
(***************************************************************************)
EXTENDS Orchestrator

CallPcs ==
  {"request", "decide", "answer", "decided", "launch", "execute", "result",
   "finish_call", "outcome"}

Pcs ==
  {"idle", "run_id", "load_seq", "load_parent", "bind", "open", "user",
   "recover", "provider", "model", "message", "index"} \cup CallPcs \cup Ended

RaiseCauses == {"no", "no_session", "provider", "chunk", "tool", "io", "terminal", "fsm"}

Records ==
  [seq : Nat, parent : Nat, run : Nat, by : Runs, type : EventTypes, tc : Nat,
   req : Requests \cup {NoRequest}, info : Infos]

LogTypeOK ==
  /\ transcript \in [Sessions -> Seq(Records)]
  /\ pc \in [Runs -> Pcs]
  /\ raised \in [Runs -> RaiseCauses]
  /\ seq \in [Runs -> Nat]
  /\ last \in [Runs -> Nat]
  /\ fsm \in [Runs -> TurnStates]
  /\ term \in [Runs -> BOOLEAN]
  /\ deltas \in SUBSET [sid : Sessions, seq : Nat, by : Runs]

ConfTypeOK ==
  /\ persist \in [Runs -> BOOLEAN]
  /\ mode \in [Runs -> Modes]
  /\ channel \in [Runs -> Channels]
  /\ kind \in [Runs -> Kinds]
  /\ sid \in [Runs -> Sessions \cup {0}]
  /\ rid \in [Runs -> Nat]
  /\ nextSid \in [Hosts -> Nat]
  /\ nextRid \in [Hosts -> Nat]

PermTypeOK ==
  /\ replay \in [Hosts -> [Sessions -> RuleSets]]
  /\ rules \in SUBSET (Requests \X Effects)
  /\ cache \in [Runs -> RuleSets]
  /\ answers \in SUBSET [by : Runs, sid : Sessions, tc : Nat, req : Requests, answer : Answers]

CallTypeOK ==
  /\ calls \in [Runs -> Nat]
  /\ cur \in [Runs -> Requests \cup {NoRequest}]
  /\ dec \in [Runs -> Decisions]
  /\ status \in [Runs -> {"denied", "success", "error"}]
  /\ retrying \in [Runs -> BOOLEAN]
  /\ effects \in SUBSET [by : Runs, sid : Sessions, tc : Nat, req : Requests, retry : BOOLEAN]

TurnTypeOK ==
  /\ streaming \in [Runs -> BOOLEAN]
  /\ chunks \in [Runs -> Nat]
  /\ sawDelta \in [Runs -> BOOLEAN]
  /\ message \in [Runs -> BOOLEAN]
  /\ toolUsed \in [Runs -> BOOLEAN]
  /\ index \in Seq(Sessions)
  /\ code \in [Runs -> 0..NoCode]

\* A live run has a session, a run inside a tool call a request, and a run
\* about to record a decision a final one.
ScopeOK ==
  \A r \in Runs : /\ Live(r) => sid[r] \in Sessions
                  /\ pc[r] \in CallPcs => cur[r] \in Requests
                  /\ pc[r] = "decided" => dec[r].decision \in Effects

\* Every variable has its type and no run acts without a session or a request.
TypeOK == LogTypeOK /\ ConfTypeOK /\ PermTypeOK /\ CallTypeOK /\ TurnTypeOK /\ ScopeOK
-----------------------------------------------------------------------------
(* The transcript. *)

\* Position j holds the record its run wrote next after the one at i; records of
\* other runs may lie between them.
FollowedBy(log, i, j) ==
  /\ i < j /\ log[i].by = log[j].by
  /\ \A k \in (i + 1)..(j - 1) : log[k].by # log[i].by

\* As long as no two processes run at once, the sequence numbers of a session
\* increase from line to line, over resumes, failed runs and kills: a new run
\* continues where the file ends (get_next_seq), whoever wrote it.
SeqStrictlyIncreasing ==
  \A s \in Sessions : \A i \in 1..(Len(transcript[s]) - 1) :
    transcript[s][i].seq < transcript[s][i + 1].seq

\* Likewise each record's parent is the record before it, across runs, and the
\* first record has none: no fork and no gap, although stream-only events
\* consume sequence numbers in between (_emit, get_last_persisted_event_id).
ParentIsPrevious ==
  \A s \in Sessions : \A i \in DOMAIN transcript[s] :
    transcript[s][i].parent = IF i = 1 THEN 0 ELSE transcript[s][i - 1].seq

\* As long as no two processes run at once, a resumed run takes a run id no
\* record of the session carries, even when the processes that numbered the
\* earlier runs are gone (_resolve_session_and_run).
ResumedRunIdsFresh ==
  \A s \in Sessions : \A i, j \in DOMAIN transcript[s] :
    (i < j /\ transcript[s][i].by # transcript[s][j].by /\ Resumed(transcript[s][j].by))
      => transcript[s][i].run # transcript[s][j].run

\* Records of other processes may come between a run's own, but the run's own
\* sequence numbers increase and each of its records but the first has the one
\* before it as parent (_emit keeps both in memory).
OwnRecordsChained ==
  \A s \in Sessions : \A j \in DOMAIN transcript[s] : \A i \in 1..(j - 1) :
    FollowedBy(transcript[s], i, j) =>
      /\ transcript[s][i].seq < transcript[s][j].seq
      /\ transcript[s][j].parent = transcript[s][i].seq

\* The number of line i, 0 before the first.
NumberAt(log, i) == IF i = 0 THEN 0 ELSE log[i].seq

\* The record at k takes up the numbers at line i and has line j as its parent,
\* both above it in the file and i not after j.
Attached(log, k) ==
  \E i \in 0..(k - 1) : \E j \in i..(k - 1) :
    log[k].seq = NumberAt(log, i) + 1 /\ log[k].parent = NumberAt(log, j)

\* The first record of a run, whose number and parent come from two loads of the
\* file with other processes appending in between and after: it is numbered after a
\* line above it and its parent is a line above it, that one or a later one, but
\* never an earlier one and never one that is not in the file (run).
FirstRecordAttached ==
  \A s \in Sessions : \A k \in DOMAIN transcript[s] :
    (\A i \in 1..(k - 1) : transcript[s][i].by # transcript[s][k].by)
      => Attached(transcript[s], k)

\* The lives a tool call may have: b may come after a in the records of a call.
CallFollows(a, b) ==
  /\ a.tc = b.tc
  /\ \/ /\ a.type = "tool_call_requested"
        /\ b.type \in {"tool_permission_required", "tool_permission_decided"}
     \/ a.type = "tool_permission_required" /\ b.type = "tool_permission_decided"
     \/ /\ a.type = "tool_permission_decided" /\ a.info = "allow"
        /\ b.type = "tool_execution_started"
     \/ /\ a.type = "tool_permission_decided" /\ a.info = "deny"
        /\ b.type = "tool_result" /\ b.info = "denied"
     \/ /\ a.type = "tool_execution_started"
        /\ b.type = "tool_result" /\ b.info \in {"success", "error"}
     \/ a.type = "tool_result" /\ b.type = "tool_execution_finished" /\ b.info = a.info

\* Run r has come to an end of its own, and kept a transcript.
Reported(r) == pc[r] = "exited" /\ raised[r] = "no" /\ persist[r]

\* Whoever else writes to the session, the records of a tool call follow one
\* another among those of their run without anything between them, from a
\* request with a call id the run has not used, along one legal life; and in a
\* run that ended by itself every call was told to its end (the order in which
\* execute emits, whatever the decision was and the tool returned).
ToolLifecycle ==
  \A s \in Sessions :
    LET log == transcript[s]
    IN  /\ \A j \in DOMAIN log : log[j].tc # 0 =>
             IF log[j].type = "tool_call_requested"
               THEN \A i \in 1..(j - 1) : log[i].by = log[j].by => log[i].tc < log[j].tc
               ELSE \E i \in 1..(j - 1) : FollowedBy(log, i, j) /\ CallFollows(log[i], log[j])
        /\ \A j \in DOMAIN log : \A i \in 1..(j - 1) :
             (log[i].tc # 0 /\ log[i].type # "tool_execution_finished" /\ FollowedBy(log, i, j))
               => CallFollows(log[i], log[j])
        /\ \A r \in Runs : (Reported(r) /\ sid[r] = s) =>
             \A c \in 1..calls[r] : \E i \in DOMAIN log :
               log[i].by = r /\ log[i].tc = c /\ log[i].type = "tool_execution_finished"

\* The records of run r end as exit code c says: with the only terminal record,
\* after a failed or a denied call, after a turn in which something was said or
\* called, or after silence.
EndsAs(log, r, c) ==
  LET own == {i \in DOMAIN log : log[i].by = r}
      silent == \A i \in own : log[i].type # "assistant_message" /\ log[i].tc = 0
      after(n, info) == \E i \in own : /\ FollowedBy(log, i, n) /\ log[i].info = info
                                      /\ log[i].type = "tool_execution_finished"
  IN  \E n \in own :
        /\ \A i \in own : i <= n /\ (log[i].type \in TerminalTypes <=> i = n)
        /\ log[n].type = "session_completed" <=> c = SUCCESS
        /\ c = SUCCESS => ~silent /\ ~after(n, "error") /\ ~after(n, "denied")
        /\ c = TOOL_RUNTIME_FAILURE => after(n, "error")
        /\ c \in {PERMISSION_DENIED, PERMISSION_UNAVAILABLE} => after(n, "denied")
        /\ c = MODEL_FAILURE => silent

\* A run that reports an exit code of its own wrote exactly one terminal
\* record, as its last, and the code says what the transcript says: 0 for
\* completed, 4 after a failed tool, 5 or 6 after a denied one, 3 for silence.
ExitMatchesTranscript == \A r \in Runs : Reported(r) => EndsAs(transcript[sid[r]], r, code[r])

\* A subscriber of the stream misses no message: between one message of a run
\* and the next at least one delta is emitted, by the provider or in its place
\* (ModelStreamAdapter.adapt).
MessagesStreamed ==
  \A s \in Sessions : \A j \in DOMAIN transcript[s] :
    LET said(i) == /\ transcript[s][i].type = "assistant_message"
                   /\ transcript[s][i].by = transcript[s][j].by
    IN  said(j) => \E d \in deltas :
          /\ d.by = transcript[s][j].by /\ d.sid = s /\ d.seq < transcript[s][j].seq
          /\ \A i \in 1..(j - 1) : said(i) => transcript[s][i].seq < d.seq

\* _emit is never asked for an event the turn state machine refuses, nor for a
\* second terminal event: no run ends in one of those two exceptions.
NoIllegalTransition == \A r \in Runs : raised[r] \notin {"terminal", "fsm"}
-----------------------------------------------------------------------------
(* Permissions. *)

\* Every tool execution of a persisted run was announced: its request, its
\* allow and its start were on disk, in this order, before it began, so an
\* audit of the file misses no effect, wherever the process was killed and
\* whatever other processes wrote in between.
WriteAheadAudit ==
  \A e \in effects : persist[e.by] =>
    LET log == transcript[e.sid]
        step(i, type) == log[i].by = e.by /\ log[i].tc = e.tc /\ log[i].type = type
    IN  \E i \in DOMAIN log :
          /\ step(i, "tool_call_requested") /\ log[i].req = e.req
          /\ \E j \in DOMAIN log :
               /\ i < j /\ step(j, "tool_permission_decided")
               /\ log[j].req = e.req /\ log[j].info = "allow"
               /\ \E k \in DOMAIN log : j < k /\ step(k, "tool_execution_started")

\* The answer a covers execution e: given for that very call, given for the
\* session to the process e runs in, or given for ever.
Covers(a, e) ==
  /\ a.req = e.req
  /\ \/ a.answer \in AllowAnswers /\ a.by = e.by /\ a.tc = e.tc
     \/ a.answer = "allow_session" /\ a.sid = e.sid /\ HostOf[a.by] = HostOf[e.by]
     \/ a.answer = "allow_persistent" /\ persist[a.by] /\ persist[e.by]
     \/ a.answer = "allow_persistent" /\ a.by = e.by

\* Nothing runs on nobody's authority: an executed request lies inside the
\* working directory, and either the mode allows safe reads or some user
\* answer covers it. An answer for one session never serves another.
EffectAuthorised ==
  \A e \in effects :
    /\ e.req \notin OutsideRoot
    /\ \/ mode[e.by] \in {"auto", "bypass"} /\ ToolOf[e.req] \in SafeReadTools
       \/ \E a \in answers : Covers(a, e)

\* As long as no two processes run at once, a request somebody refused for
\* ever is never executed by a later persisted run, nor one that its process
\* remembers as refused for the session, whatever was allowed earlier (deny before
\* allow). What is remembered ends with the process, and for a session that has no
\* transcript with its next run (run clears it).
NoDeniedEffect ==
  [][ \A e \in effects' \ effects :
        /\ persist[e.by] => <<e.req, "deny">> \notin rules
        /\ e.req \notin replay[HostOf[e.by]][e.sid].deny ]_vars

\* What a resumed run executes on its own account is at most one request, of a
\* safe read tool, that an earlier run of the session had announced.
RetryOnlySafeReads ==
  /\ \A e \in effects : e.retry =>
       /\ ToolOf[e.req] \in SafeReadTools
       /\ \E i \in DOMAIN transcript[e.sid] :
            LET x == transcript[e.sid][i]
            IN  x.by # e.by /\ x.type = "tool_call_requested" /\ x.req = e.req
  /\ \A e, f \in effects : e.by = f.by /\ e.retry /\ f.retry => e = f
-----------------------------------------------------------------------------
(* Refinement. *)

\* What the ledger keeps of the tool executions of persisted runs.
Performed ==
  {[by |-> e.by, sid |-> e.sid, tc |-> e.tc, req |-> e.req] : e \in {x \in effects : persist[x.by]}}

Ledger == INSTANCE RunLedger WITH ledger <- transcript, performed <- Performed

\* The orchestrator implements the ledger: whichever processes run at once and
\* are killed, every persisted run tells one legal story, in its own order,
\* and executes a tool only where the story says so (run, execute, _emit).
TellsOneStory == Ledger!Spec
-----------------------------------------------------------------------------
(* Liveness. *)

\* A started run comes to its end: it reports an exit code or it is killed.
\* Whatever the model asks for and the user does not answer, nothing waits.
EveryRunEnds == \A r \in Runs : Live(r) ~> pc[r] \in Ended
=============================================================================
