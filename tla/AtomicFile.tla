----------------------------- MODULE AtomicFile -----------------------------
(***************************************************************************)
(* What an append-only file of JSON rows promises, and what the            *)
(* orchestrator's model relies on: a row is there whole or not at all, in  *)
(* the order of the appends; a row whose append returned stays, whatever   *)
(* dies afterwards. The promise JsonLines implements.                      *)
(***************************************************************************)
EXTENDS Naturals, Sequences

CONSTANT Row

VARIABLES
  rows,    \* the rows in the file, in file order
  acked    \* the rows whose append returned, in that order

fileVars == <<rows, acked>>

Holds(f, row) == \E i \in DOMAIN f : f[i] = row

Init == rows = <<>> /\ acked = <<>>

AppendRow ==
  /\ \E row \in Row : ~Holds(rows, row) /\ rows' = Append(rows, row)
  /\ UNCHANGED acked

Acknowledge ==
  /\ \E row \in Row :
       Holds(rows, row) /\ ~Holds(acked, row) /\ acked' = Append(acked, row)
  /\ UNCHANGED rows

\* The machine stops: the newest rows may be gone, those acknowledged may not.
Lose ==
  /\ \E n \in 0..Len(rows) : rows' = SubSeq(rows, 1, n)
  /\ \A i \in DOMAIN acked : Holds(rows', acked[i])
  /\ UNCHANGED acked

Next == AppendRow \/ Acknowledge \/ Lose

Spec == Init /\ [][Next]_fileVars
=============================================================================
