---------------------------- MODULE TranscriptLog ----------------------------
(***************************************************************************)
(* The transcripts on disk and how a run writes to them: transcript ids    *)
(* and sequence numbers (storage/transcript_store.py, util/ids.py) and     *)
(* SessionOrchestrator._emit, the only writer.                             *)
(*                                                                         *)
(* A run is one invocation of the command line. A host is one Python       *)
(* process: the identifier counters live in its memory. Runs of one host   *)
(* are sequential; runs of different hosts share the disk.                 *)
(* Session S<n>, run R<n>, event E<n> and tool call TC<n> are the number   *)
(* n; 0 is None.                                                           *)
(***************************************************************************)
EXTENDS Naturals, Sequences, TurnFsm

CONSTANTS
  Runs, Hosts,
  HostOf,       \* the process a run executes in
  Sessions,     \* the session numbers in use, a bound on new_session_id
  NoRequest     \* the payload of an event that names no request

ASSUME HostAssumption == HostOf \in [Runs -> Hosts]
ASSUME SessionAssumption == Sessions \subseteq Nat \ {0}

VARIABLES
  transcript,   \* session -> the records of its transcript file, in file order
  pc,           \* run -> where it stands
  raised,       \* run -> the exception that ended it, or "no"
  persist,      \* run -> FALSE under --no-session-persistence
  sid, rid,     \* run -> _session_id, _run_id
  seq,          \* run -> _seq
  last,         \* run -> _last_persisted_event_id
  fsm,          \* run -> the state of its turn state machine
  term,         \* run -> _run_terminal_emitted
  deltas        \* history: the stream-only events, which no file holds

logVars == <<transcript, seq, last, fsm, term, deltas>>
ctlVars == <<pc, raised>>

Ended == {"exited", "crashed"}
Live(r) == pc[r] \notin Ended \cup {"idle"}

\* Mutant: the parent is whatever was numbered last, streamed or not.
EventAfterNumber(r, type, tc, q, info) ==
  [seq |-> seq[r] + 1, parent |-> seq[r], run |-> rid[r], by |-> r,
   type |-> type, tc |-> tc, req |-> q, info |-> info]

\* A record carries the fields of the envelope that code reads back or a
\* property relates. `by` is history: the run that wrote it, since two runs can
\* carry the same run id.
Event(r, type, tc, q, info) ==
  [seq |-> seq[r] + 1, parent |-> last[r], run |-> rid[r], by |-> r,
   type |-> type, tc |-> tc, req |-> q, info |-> info]

Plain(r, type) == Event(r, type, 0, NoRequest, "")

\* The run leaves run() with an exception; run_cli turns it into exit code 9.
Raise(r, why) ==
  /\ pc' = [pc EXCEPT ![r] = "exited"]
  /\ raised' = [raised EXCEPT ![r] = why]

SecondTerminal(r, e) == e.type \in TerminalTypes /\ term[r]
Legal(r, e) == ~SecondTerminal(r, e) /\ Accepts(fsm[r], e.type)

\* Mutant: the start of an execution is not worth a record.
WrittenButStart(r, e) ==
  Legal(r, e) /\ persist[r] /\ e.type \notin StreamOnlyTypes \cup {"tool_execution_started"}

Written(r, e) == Legal(r, e) /\ persist[r] /\ e.type \notin StreamOnlyTypes

\* append_jsonl under the session lock: one line at the end of the file.
AppendRecord(log, e) == Append(log, e)

\* SessionOrchestrator._emit(e), after which the run stands at `next`. The
\* sequence number is consumed even when the state machine refuses the event;
\* the parent link moves even when persistence is off. append_event takes the
\* session lock, appends one line, syncs and unlocks: one atomic append.
Emit(r, e, next) ==
  /\ term' = [term EXCEPT ![r] = @ \/ e.type \in TerminalTypes]
  /\ seq' = IF SecondTerminal(r, e) THEN seq ELSE [seq EXCEPT ![r] = @ + 1]
  /\ fsm' = IF Legal(r, e) THEN [fsm EXCEPT ![r] = Target(e.type)] ELSE fsm
  /\ transcript' = IF Written(r, e)
                     THEN [transcript EXCEPT ![sid[r]] = AppendRecord(@, e)]
                     ELSE transcript
  /\ last' = IF Legal(r, e) /\ e.type \notin StreamOnlyTypes
               THEN [last EXCEPT ![r] = e.seq]
               ELSE last
  /\ deltas' = IF Legal(r, e) /\ e.type \in StreamOnlyTypes
                 THEN deltas \cup {[sid |-> sid[r], seq |-> e.seq, by |-> r]}
                 ELSE deltas
  /\ pc' = [pc EXCEPT ![r] = IF Legal(r, e) THEN next ELSE "exited"]
  /\ raised' = [raised EXCEPT ![r] =
                  IF Legal(r, e) THEN @
                  ELSE IF SecondTerminal(r, e) THEN "terminal" ELSE "fsm"]

\* Control moves on and nothing is emitted.
Goto(r, next) ==
  /\ pc' = [pc EXCEPT ![r] = next]
  /\ UNCHANGED <<raised, logVars>>

\* Mutants: an empty file starts at 0; the lines are counted.
NextSeqFromZero(s) ==
  IF transcript[s] = <<>> THEN 0 ELSE transcript[s][Len(transcript[s])].seq + 1
NextLine(s) == Len(transcript[s]) + 1
LastLine(s) == Len(transcript[s])

\* get_next_seq: one more than the last line's seq, 1 for an empty file.
NextSeq(s) ==
  IF transcript[s] = <<>> THEN 1 ELSE transcript[s][Len(transcript[s])].seq + 1

\* get_last_persisted_event_id
LastEvent(s) ==
  IF transcript[s] = <<>> THEN 0 ELSE transcript[s][Len(transcript[s])].seq

\* run() positions the new emitter: two separate reads of the file.
LoadSeq(r) ==
  /\ pc[r] = "load_seq"
  /\ seq' = [seq EXCEPT ![r] = NextSeq(sid[r]) - 1]
  /\ pc' = [pc EXCEPT ![r] = "load_parent"]
  /\ UNCHANGED <<raised, transcript, last, fsm, term, deltas>>

LoadParent(r) ==
  /\ pc[r] = "load_parent"
  /\ last' = [last EXCEPT ![r] = LastEvent(sid[r])]
  /\ pc' = [pc EXCEPT ![r] = "bind"]
  /\ UNCHANGED <<raised, transcript, seq, fsm, term, deltas>>
=============================================================================
