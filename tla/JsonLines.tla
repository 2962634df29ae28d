------------------------------ MODULE JsonLines ------------------------------
(***************************************************************************)
(* One JSON lines file and the processes that share it: append_jsonl and   *)
(* read_jsonl (util/jsonl.py) under session_lock (storage/lockfile.py), as *)
(* the transcript and rule stores use them, or without it, as the session  *)
(* index does. A row reaches the file in pieces; its process may be        *)
(* killed, its write may fail, the machine may stop. Nobody reads under    *)
(* the lock.                                                               *)
(***************************************************************************)
EXTENDS Naturals, Sequences

CONSTANTS
  Procs, NoProc,
  MaxRows,      \* bound: process -> the rows it appends
  Loaders,      \* the processes that load the file before they append
  Splitting,    \* the rows whose text holds a boundary of str.splitlines
  Mortal,       \* the processes that may be killed
  MaxPowerCuts  \* bound: how often the machine stops

ASSUME ProcAssumption == NoProc \notin Procs
ASSUME RowBoundAssumption == MaxRows \in [Procs -> Nat]
ASSUME PowerCutAssumption == MaxPowerCuts \in Nat

VARIABLES
  file,       \* the pieces in the file: <<row, part>>, in file order
  synced,     \* how many of them survive a stop of the machine
  lock,       \* who holds the lock file, or NoProc
  at,         \* process -> where it stands
  done,       \* process -> the rows it has appended
  todo,       \* process -> the parts of its row not yet in the file
  acked,      \* history: the rows whose append returned, in that order
  powerCuts,
  locked      \* TRUE for a transcript or the rules, FALSE for the index

lineVars == <<file, synced, lock, at, done, todo, acked, powerCuts, locked>>

Row == UNION {{p} \X (1..MaxRows[p]) : p \in Procs}
RowOf(p) == <<p, done[p] + 1>>

\* json.dumps escapes every ASCII control character and, with ensure_ascii off,
\* nothing else: U+0085, U+2028 or U+2029 goes out as it came ("break").
\* Neither half of a row is a JSON value by itself.
Body(row) == IF row \in Splitting THEN <<"head", "break", "tail">> ELSE <<"head", "tail">>

\* Mutant: json.dumps without the newline.
TextBare(row) == Body(row)

Text(row) == Body(row) \o <<"newline">>

Init ==
  /\ file = <<>>
  /\ synced = 0
  /\ lock = NoProc
  /\ at = [p \in Procs |-> "idle"]
  /\ done = [p \in Procs |-> 0]
  /\ todo = [p \in Procs |-> <<>>]
  /\ acked = <<>>
  /\ powerCuts = 0
  /\ locked \in BOOLEAN
-----------------------------------------------------------------------------
(* Reading. *)

\* The places where splitlines ends a line.
Ends(f) == {i \in DOMAIN f : f[i][2] \in {"break", "newline"}}

\* The lines, as the places before and after their text; the last one may lack
\* its newline.
Lines(f) ==
  {l \in ({0} \cup Ends(f)) \X (Ends(f) \cup {Len(f) + 1}) :
     l[1] < l[2] /\ \A i \in Ends(f) : ~(l[1] < i /\ i < l[2])}

Empty(l) == l[2] = l[1] + 1

\* The line is the text of this one row, and json.loads accepts it.
Parses(f, l, row) ==
  /\ l[2] = l[1] + 3
  /\ f[l[1] + 1] = <<row, "head">>
  /\ f[l[1] + 2] = <<row, "tail">>

\* Mutant: a line that does not parse is skipped.
LoadableLeniently(f) == TRUE

\* read_jsonl raises at the first line that is neither empty nor JSON.
Loadable(f) ==
  \A l \in Lines(f) : Empty(l) \/ \E row \in Row : f[l[1] + 1][1] = row /\ Parses(f, l, row)

\* The rows it returns.
Loaded(f) == {row \in {f[i][1] : i \in DOMAIN f} : \E l \in Lines(f) : Parses(f, l, row)}
-----------------------------------------------------------------------------
(* Appending. *)

Ended == {"done", "failed", "dead"}
Active(p) == at[p] \notin Ended \cup {"idle"}

Step(p, from, to) ==
  /\ at[p] = from
  /\ at' = [at EXCEPT ![p] = to]

Start(p) ==
  /\ Step(p, "idle", IF p \in Loaders THEN "load" ELSE "next")
  /\ UNCHANGED <<file, synced, lock, done, todo, acked, powerCuts, locked>>

\* A run loads before it appends; one that cannot ends in an exception.
Load(p) ==
  /\ Step(p, "load", IF Loadable(file) THEN "next" ELSE "failed")
  /\ UNCHANGED <<file, synced, lock, done, todo, acked, powerCuts, locked>>

\* Mutant: nobody waits.
TakeUnasked(p) ==
  /\ done[p] < MaxRows[p]
  /\ Step(p, "next", "write")
  /\ lock' = IF locked THEN p ELSE lock
  /\ todo' = [todo EXCEPT ![p] = Text(RowOf(p))]
  /\ UNCHANGED <<file, synced, done, acked, powerCuts, locked>>

\* flock(LOCK_EX) waits for the holder.
Take(p) ==
  /\ done[p] < MaxRows[p]
  /\ locked => lock = NoProc
  /\ Step(p, "next", "write")
  /\ lock' = IF locked THEN p ELSE lock
  /\ todo' = [todo EXCEPT ![p] = Text(RowOf(p))]
  /\ UNCHANGED <<file, synced, done, acked, powerCuts, locked>>

\* The next n parts of p's text go to the end of the file, which is opened for
\* append.
Put(p, n) ==
  /\ file' = file \o [i \in 1..n |-> <<RowOf(p), todo[p][i]>>]
  /\ todo' = [todo EXCEPT ![p] = SubSeq(@, n + 1, Len(@))]

\* f.write and f.flush: a record longer than the buffer goes out in several
\* writes, an index row in one.
Write(p) ==
  /\ Step(p, "write", "write")
  /\ \E n \in 1..Len(todo[p]) : (locked \/ n = Len(todo[p])) /\ Put(p, n)
  /\ UNCHANGED <<synced, lock, done, acked, powerCuts, locked>>

\* Mutant: fsync=False.
SyncNothing(p) ==
  /\ todo[p] = <<>>
  /\ Step(p, "write", "unlock")
  /\ UNCHANGED <<file, synced, lock, done, todo, acked, powerCuts, locked>>

\* os.fsync. It is taken to make the directory entry of a file durable that this
\* append created, as journalling file systems do; the directory is never synced.
Sync(p) ==
  /\ todo[p] = <<>>
  /\ Step(p, "write", "unlock")
  /\ synced' = Len(file)
  /\ UNCHANGED <<file, lock, done, todo, acked, powerCuts, locked>>

Release(p) == lock' = IF lock = p THEN NoProc ELSE lock

\* The lock is given back and the append returns.
Unlock(p) ==
  /\ Step(p, "unlock", "next")
  /\ Release(p)
  /\ done' = [done EXCEPT ![p] = @ + 1]
  /\ acked' = Append(acked, RowOf(p))
  /\ UNCHANGED <<file, synced, todo, powerCuts, locked>>

\* Mutant: no finally around the yield.
FailHolding(p) ==
  /\ Step(p, "write", "failed")
  /\ UNCHANGED <<file, synced, lock, done, todo, acked, powerCuts, locked>>

\* A write or the sync raises (the disk is full): what is in the file stays, the
\* lock is given back by the finally of session_lock, the run ends.
Fail(p) ==
  /\ Step(p, "write", "failed")
  /\ Release(p)
  /\ UNCHANGED <<file, synced, done, todo, acked, powerCuts, locked>>

\* The disk is full in the middle of a write, of an index row too: the part that
\* fitted stays, and it ends as above.
WriteShort(p) ==
  /\ Step(p, "write", "failed")
  /\ \E n \in 1..(Len(todo[p]) - 1) : Put(p, n)
  /\ Release(p)
  /\ UNCHANGED <<synced, done, acked, powerCuts, locked>>

Finish(p) ==
  /\ done[p] = MaxRows[p]
  /\ Step(p, "next", "done")
  /\ UNCHANGED <<file, synced, lock, done, todo, acked, powerCuts, locked>>

\* Mutant: the lock is the existence of the lock file.
DieHolding(p) ==
  /\ p \in Mortal /\ Active(p)
  /\ at' = [at EXCEPT ![p] = "dead"]
  /\ UNCHANGED <<file, synced, lock, done, todo, acked, powerCuts, locked>>

\* The process is killed; the kernel drops its lock and keeps what it wrote.
Die(p) ==
  /\ p \in Mortal /\ Active(p)
  /\ at' = [at EXCEPT ![p] = "dead"]
  /\ Release(p)
  /\ UNCHANGED <<file, synced, done, todo, acked, powerCuts, locked>>

\* The machine stops: of what was not synced any beginning may be on disk.
PowerCut ==
  /\ powerCuts < MaxPowerCuts
  /\ powerCuts' = powerCuts + 1
  /\ \E n \in synced..Len(file) : file' = SubSeq(file, 1, n) /\ synced' = n
  /\ lock' = NoProc
  /\ at' = [p \in Procs |-> IF Active(p) THEN "dead" ELSE at[p]]
  /\ UNCHANGED <<done, todo, acked, locked>>

\* What a started process does by itself.
Advance(p) ==
  \/ Load(p) \/ Take(p) \/ Write(p) \/ Sync(p) \/ Unlock(p) \/ Finish(p)

AllEnded ==
  /\ \A p \in Procs : at[p] \in Ended
  /\ UNCHANGED lineVars

Next ==
  \/ \E p \in Procs : Start(p) \/ Advance(p) \/ Fail(p) \/ WriteShort(p) \/ Die(p)
  \/ PowerCut \/ AllEnded

Spec == Init /\ [][Next]_lineVars

\* A process that has started goes on; nothing says that one is started, that a
\* write fails or that anything dies.
FairSpec == Spec /\ \A p \in Procs : WF_lineVars(Advance(p))
=============================================================================
