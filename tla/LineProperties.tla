--------------------------- MODULE LineProperties ---------------------------
(***************************************************************************)
(* What a JSON lines file promises, and statements of docs/spec.md about   *)
(* it that the code does not keep.                                         *)
(***************************************************************************)
EXTENDS JsonLines, FiniteSets

Parts == {"head", "break", "tail", "newline"}

\* Every variable has its type, and the holder of the lock is a process between
\* taking and giving it back (session_lock, whatever happens inside it).
TypeOK ==
  /\ file \in Seq(Row \X Parts)
  /\ synced \in 0..Len(file)
  /\ lock \in Procs \cup {NoProc}
  /\ at \in [Procs -> {"idle", "load", "next", "write", "unlock"} \cup Ended]
  /\ done \in [Procs -> Nat]
  /\ todo \in [Procs -> Seq(Parts)]
  /\ acked \in Seq(Row)
  /\ powerCuts \in Nat
  /\ locked \in BOOLEAN
  /\ lock # NoProc => at[lock] \in {"write", "unlock"}

Holds(f, row, part) == \E i \in DOMAIN f : f[i] = <<row, part>>
Started(row) == Holds(file, row, "head")
Complete(row) == \A k \in DOMAIN Text(row) : Holds(file, row, Text(row)[k])

\* The pieces of a row follow one another in the file with nothing of another
\* row between them, even when rows are written in pieces by several processes
\* and holders of the lock die (append_jsonl under session_lock).
RowsUnbroken ==
  \A i \in 1..(Len(file) - 1) :
    file[i + 1][1] # file[i][1] => file[i + 1][2] = "head"

\* A row whose append returned is below the synced mark, whole: neither a kill
\* nor a stop of the machine takes it away (fsync before the lock is released),
\* on a file system where the sync of a new file also keeps its name.
AckedDurable ==
  \A k \in DOMAIN acked : \A j \in DOMAIN Text(acked[k]) :
    \E i \in 1..synced : file[i] = <<acked[k], Text(acked[k])[j]>>

\* A load that succeeds returns every row whose append had returned, in that
\* order where appends are locked: damage is reported by an exception, never by a row left out
\* (read_jsonl raises on a line it cannot parse).
LoadMissesNothing ==
  Loadable(file) =>
    /\ \A k \in DOMAIN acked : acked[k] \in Loaded(file)
    /\ \A j, k \in DOMAIN acked : locked /\ j < k =>
         \A m, n \in DOMAIN file :
           file[m] = <<acked[j], "head">> /\ file[n] = <<acked[k], "head">> => m < n

\* A file is unreadable for a reason: a row in it was cut short by a death or a
\* failed write, is being written at this moment, or holds a line boundary.
UnreadableHasCause ==
  ~Loadable(file) => \E i \in DOMAIN file :
                       file[i][1] \in Splitting \/ ~Complete(file[i][1])

\* The places of the newlines in file f, and the k-th of a set of places.
Newlines(f) == {i \in DOMAIN f : f[i][2] = "newline"}
Rank(places, i) == Cardinality({j \in places : j <= i})
Nth(places, k) == CHOOSE i \in places : Rank(places, i) = k

\* The rows whose newline is in file f, in file order.
WholeRows(f) ==
  LET ends == Newlines(f)
  IN  [k \in 1..Cardinality(ends) |-> f[Nth(ends, k)][1]]

Atomic == INSTANCE AtomicFile WITH rows <- WholeRows(file)

\* The file implements the atomic append the models of the stores assume.
AtomicAppends == Atomic!Spec

\* Every process that has started ends: whoever dies holding the lock, nobody
\* waits for it for ever (the lock is the kernel's, not the file's).
NobodyWaitsForever == \A p \in Procs : Active(p) ~> at[p] \in Ended
-----------------------------------------------------------------------------
(* Documented and not kept. *)

\* "if crash occurs during append and final line is malformed JSON, loader
\* truncates only the malformed tail" (docs/spec.md:481): when nobody is writing,
\* a file whose other lines are JSON can be loaded.
TornTailLoads ==
  LET final(l) == l[2] = Len(file) + 1
  IN  (lock = NoProc /\ \A l \in Lines(file) : final(l) \/ Empty(l) \/ \E row \in Row : Parses(file, l, row))
        => Loadable(file)

\* "load failures: engine boots with empty persistent rules" (docs/spec.md:547):
\* a run whose rule file cannot be read starts all the same.
UnreadableRulesBoot ==
  [][ \A p \in Procs : at[p] = "load" => at'[p] # "failed" ]_lineVars

\* "each line ends with exactly one newline" (docs/spec.md:479): a row begins
\* the file or follows a newline.
RowsStartLines ==
  \A i \in DOMAIN file : file[i][2] = "head" => i = 1 \/ file[i - 1][2] = "newline"

\* "Record schema (one JSON object per line)" (docs/spec.md:404): when every
\* row in the file is complete, the file can be loaded.
OneObjectPerLine ==
  (\A i \in DOMAIN file : Complete(file[i][1])) => Loadable(file)
=============================================================================
