---------------------------- MODULE SessionIndex ----------------------------
(***************************************************************************)
(* The session index (storage/session_index.py) in a transcript directory  *)
(* that several working directories share: what --continue finds there     *)
(* while other invocations run, end and die. Orchestrator models a run in  *)
(* full over one working directory; here a run is what the index can tell  *)
(* of it. A row is appended whole (JsonLines).                             *)
(***************************************************************************)
EXTENDS Naturals, Sequences

CONSTANTS
  Runs,
  Sessions,    \* session numbers
  Cwds,        \* working directories, as --cwd spells them
  Lines,       \* run -> the command lines it may have
  Overlap,     \* may invocations run at the same time?
  Mortal,      \* the runs whose process may be killed
  MaxTime      \* bound: the readings of the clock

\* --continue, or a session that is named or new.
CommandLines == [latest : BOOLEAN, sid : Sessions, cwd : Cwds, persist : BOOLEAN]

ASSUME SessionNumbers == Sessions \subseteq Nat \ {0}
ASSUME LinesAssumption == Lines \in [Runs -> SUBSET CommandLines]
ASSUME TimeAssumption == MaxTime \in Nat

VARIABLES
  at,          \* run -> where it stands
  line,        \* run -> its command line
  session,     \* run -> its session, 0 for none
  rows,        \* session_index.jsonl
  told,        \* session -> the runs with a record in its transcript
  clock,       \* the wall clock; it does not step back
  stamp,       \* run -> the time of its row
  before       \* history: run -> the runs that were over when it began

indexVars == <<at, line, session, rows, told, clock, stamp, before>>

NoRow == [sid |-> 0, cwd |-> "", ts |-> 0]
NoLine == [latest |-> FALSE, sid |-> 0, cwd |-> "", persist |-> FALSE]

Init ==
  /\ at = [r \in Runs |-> "idle"]
  /\ line = [r \in Runs |-> NoLine]
  /\ session = [r \in Runs |-> 0]
  /\ rows = <<>>
  /\ told = [s \in Sessions |-> {}]
  /\ clock = 0
  /\ stamp = [r \in Runs |-> 0]
  /\ before = [r \in Runs |-> {}]

Ended == {"over", "refused", "raised", "dead"}
Live(r) == at[r] \notin Ended \cup {"idle"}
Step(r, from, to) == at[r] = from /\ at' = [at EXCEPT ![r] = to]

\* Mutant: of equal times the first row stays.
LaterOrFirst(cwd, best, row) ==
  IF row.cwd = cwd /\ (best.sid = 0 \/ row.ts > best.ts) THEN row ELSE best

\* One turn of the loop of get_latest_for_cwd: of equal times the last row stays.
Later(cwd, best, row) ==
  IF row.cwd = cwd /\ (best.sid = 0 \/ row.ts >= best.ts) THEN row ELSE best

\* The best row of the directory after n turns.
Best(cwd) ==
  LET best[n \in 0..Len(rows)] ==
        IF n = 0 THEN NoRow ELSE Later(cwd, best[n - 1], rows[n])
  IN  best

LatestFor(cwd) == Best(cwd)[Len(rows)].sid

\* Mutant: nobody asks whether there is a session.
BeginAnyway(r) ==
  /\ at[r] = "idle"
  /\ \A o \in Runs : Live(o) => Overlap
  /\ \E c \in Lines[r] :
       /\ line' = [line EXCEPT ![r] = c]
       /\ session' = [session EXCEPT ![r] = IF c.latest THEN LatestFor(c.cwd) ELSE c.sid]
       /\ Step(r, "idle", "begun")
  /\ before' = [before EXCEPT ![r] = {o \in Runs : at[o] = "over"}]
  /\ UNCHANGED <<rows, told, clock, stamp>>

Begin(r) ==
  /\ \A o \in Runs : Live(o) => Overlap
  /\ \E c \in Lines[r] :
       LET s == IF c.latest THEN LatestFor(c.cwd) ELSE c.sid
       IN  /\ line' = [line EXCEPT ![r] = c]
           /\ session' = [session EXCEPT ![r] = s]
           /\ Step(r, "idle", IF s = 0 THEN "refused" ELSE "begun")
  /\ before' = [before EXCEPT ![r] = {o \in Runs : at[o] = "over"}]
  /\ UNCHANGED <<rows, told, clock, stamp>>

\* The first record of the run.
Open(r) ==
  /\ Step(r, "begun", "open")
  /\ told' = IF line[r].persist THEN [told EXCEPT ![session[r]] = @ \cup {r}] ELSE told
  /\ UNCHANGED <<line, session, rows, clock, stamp, before>>

\* Its terminal record; an exception, which leaves neither it nor a row.
End(r) ==
  /\ \/ Step(r, "open", "ended")
     \/ Step(r, "open", "raised")
  /\ UNCHANGED <<line, session, rows, told, clock, stamp, before>>

\* now_rfc3339() is evaluated before update is called.
Stamp(r) ==
  /\ Step(r, "ended", "stamped")
  /\ stamp' = [stamp EXCEPT ![r] = clock]
  /\ UNCHANGED <<line, session, rows, told, clock, before>>

\* update, with persistence or without.
Update(r) ==
  /\ Step(r, "stamped", "over")
  /\ rows' = Append(rows, [sid |-> session[r], cwd |-> line[r].cwd, ts |-> stamp[r]])
  /\ UNCHANGED <<line, session, told, clock, stamp, before>>

Die(r) ==
  /\ r \in Mortal /\ Live(r)
  /\ at' = [at EXCEPT ![r] = "dead"]
  /\ UNCHANGED <<line, session, rows, told, clock, stamp, before>>

Tick ==
  /\ clock < MaxTime
  /\ clock' = clock + 1
  /\ UNCHANGED <<at, line, session, rows, told, stamp, before>>

AllEnded == (\A r \in Runs : at[r] \in Ended) /\ UNCHANGED indexVars

Next ==
  \/ \E r \in Runs : Begin(r) \/ Open(r) \/ End(r) \/ Stamp(r) \/ Update(r) \/ Die(r)
  \/ Tick
  \/ AllEnded

Spec == Init /\ [][Next]_indexVars
-----------------------------------------------------------------------------
(* What --continue promises. *)

\* Every variable has its type and nothing runs without a session.
TypeOK ==
  /\ at \in [Runs -> {"idle", "begun", "open", "ended", "stamped"} \cup Ended]
  /\ line \in [Runs -> CommandLines \cup {NoLine}]
  /\ session \in [Runs -> Sessions \cup {0}]
  /\ rows \in Seq([sid : Sessions, cwd : Cwds, ts : 0..MaxTime])
  /\ told \in [Sessions -> SUBSET Runs]
  /\ clock \in 0..MaxTime
  /\ stamp \in [Runs -> 0..MaxTime]
  /\ before \in [Runs -> SUBSET Runs]
  /\ \A r \in Runs : Live(r) => session[r] # 0

OverIn(cwd) == {o \in Runs : at[o] = "over" /\ line[o].cwd = cwd}

\* --continue resumes the session of a run of this directory that is over, and
\* never of one that was over before another run of the directory, over as well,
\* began: rows may be appended out of the order of their times, and two may have
\* one time. It is refused only where no run of the directory is over.
ContinueNotStale ==
  [][ \A r \in Runs : (at[r] = "idle" /\ at'[r] # "idle" /\ line'[r].latest) =>
        LET done == OverIn(line'[r].cwd)
        IN  IF at'[r] = "refused" THEN done = {}
            ELSE \E a \in done : /\ session[a] = session'[r]
                                 /\ \A b \in done : a \notin before[b] ]_indexVars

\* A run that --continue of the directory could have in mind: it left a record.
Told(o) == session[o] # 0 /\ o \in told[session[o]]

\* "-c, --continue: resume latest session in current cwd" (docs/spec.md:199):
\* the session of the run of this directory that nobody began after.
ContinueResumesLatest ==
  [][ \A r \in Runs : (at[r] = "idle" /\ at'[r] = "begun" /\ line'[r].latest) =>
        \E a \in Runs :
          /\ Told(a) /\ line[a].cwd = line'[r].cwd /\ session[a] = session'[r]
          /\ \A b \in Runs : (b # a /\ Told(b) /\ line[b].cwd = line'[r].cwd) =>
               b \in before[a] ]_indexVars

\* "--continue: load latest session for current cwd from session index, append
\* new run" (docs/spec.md:290): there is something to append to.
ContinueHasTranscript ==
  [][ \A r \in Runs : (at[r] = "idle" /\ at'[r] = "begun" /\ line'[r].latest) =>
        told[session'[r]] # {} ]_indexVars
=============================================================================
