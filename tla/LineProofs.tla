----------------------------- MODULE LineProofs -----------------------------
(***************************************************************************)
(* A JSON lines file keeps what was acknowledged and keeps rows whole, for *)
(* any number of processes, rows, deaths and machine stops. The invariant  *)
(* follows a row on its way: every part of it is in the file or still to   *)
(* be written, and while some but not all of it is in the file, it is at   *)
(* the end of the file and its process holds the lock. A second invariant  *)
(* says where the pieces are: each once, behind the piece before it, and   *)
(* the acknowledged rows in the order of their acknowledgements. From that *)
(* follows what a reader of the file finds, and that the file is one to    *)
(* which whole rows are appended (AtomicFile).                             *)
(***************************************************************************)
EXTENDS LineProperties, SequenceTheorems, FiniteSetTheorems, TLAPS

Pieces == Row \X Parts
Steps == {"idle", "load", "next", "write", "unlock"} \cup Ended

\* The type invariant in parts.
FileOK == file \in Seq(Pieces) /\ synced \in 0..Len(file)
TodoOK == todo \in [Procs -> Seq(Parts)]
PlaceOK == at \in [Procs -> Steps] /\ lock \in Procs \cup {NoProc} /\ locked \in BOOLEAN
CountOK == done \in [Procs -> Nat] /\ powerCuts \in Nat
HolderOK == lock # NoProc => at[lock] \in {"write", "unlock"}

Appending(p) == at[p] \in {"write", "unlock"}

\* Who appends has a row to append and, where there is a lock, holds it.
Appenders == \A p \in Procs : Appending(p) => done[p] < MaxRows[p] /\ (locked => lock = p)

\* A row of which the beginning is written ends the file.
AtTheEnd(p) == locked /\ Len(file) > 0 /\ file[Len(file)][1] = RowOf(p)
Underway ==
  \A p \in Procs : at[p] = "write" =>
    todo[p] = Text(RowOf(p)) \/ todo[p] = <<>> \/ AtTheEnd(p)

\* No part of a row is forgotten.
Known(p, part) ==
  \/ \E i \in 1..Len(file) : file[i] = <<RowOf(p), part>>
  \/ \E j \in 1..Len(todo[p]) : todo[p][j] = part
Accounted ==
  \A p \in Procs : at[p] = "write" =>
    \A k \in DOMAIN Text(RowOf(p)) : Known(p, Text(RowOf(p))[k])

\* The first n pieces of f hold the row.
OnDisk(row, f, n) == \A j \in DOMAIN Text(row) : \E i \in 1..n : f[i] = <<row, Text(row)[j]>>
Synced == \A p \in Procs : at[p] = "unlock" => OnDisk(RowOf(p), file, synced)

LineInv ==
  /\ FileOK /\ TodoOK /\ PlaceOK /\ CountOK /\ HolderOK /\ acked \in Seq(Row)
  /\ Appenders /\ Underway /\ Accounted /\ Synced
  /\ RowsUnbroken /\ AckedDurable

LEMMA TextFacts ==
  ASSUME NEW row
  PROVE  /\ Text(row) \in Seq(Parts)
         /\ Len(Text(row)) > 0
         /\ Text(row)[1] = "head"
<1>1. Body(row) \in Seq(Parts) /\ Len(Body(row)) \in Nat \ {0} /\ Body(row)[1] = "head"
  <2>1. CASE row \in Splitting
    BY <2>1 DEF Body, Parts
  <2>2. CASE row \notin Splitting
    BY <2>2 DEF Body, Parts
  <2> QED BY <2>1, <2>2
<1>2. <<"newline">> \in Seq(Parts) /\ Len(<<"newline">>) = 1
  BY DEF Parts
<1>3. 1 \in 1..(Len(Body(row)) + 1) /\ 1 <= Len(Body(row))
  BY <1>1
<1> QED BY <1>1, <1>2, <1>3, ConcatProperties DEF Text

LEMMA RowOfType ==
  ASSUME CountOK, NEW p \in Procs, done[p] < MaxRows[p]
  PROVE  RowOf(p) \in Row
<1>1. done[p] + 1 \in 1..MaxRows[p]
  BY RowBoundAssumption DEF CountOK
<1> QED BY <1>1 DEF RowOf, Row

\* A write, whole or cut short by a full disk.
Placing(p) ==
  /\ at[p] = "write" /\ at'[p] \in {"write", "failed"}
  /\ \A q \in Procs : q # p => at'[q] = at[q]
  /\ \E n \in 1..Len(todo[p]) : (locked \/ n = Len(todo[p]) \/ at'[p] = "failed") /\ Put(p, n)
  /\ IF at'[p] = "write" THEN UNCHANGED lock ELSE Release(p)
  /\ UNCHANGED <<synced, done, acked, powerCuts, locked>>

LEMMA WritesPlace ==
  ASSUME LineInv, NEW p \in Procs, Write(p) \/ WriteShort(p)
  PROVE  Placing(p) /\ at' \in [Procs -> Steps]
<1>1. at \in [Procs -> Steps] /\ "write" \in Steps /\ "failed" \in Steps
  BY DEF LineInv, PlaceOK, Steps, Ended
<1>2. CASE Write(p)
  <2>1. at[p] = "write" /\ at' = [at EXCEPT ![p] = "write"]
    BY <1>2 DEF Write, Step
  <2>2. at'[p] = "write" /\ (\A q \in Procs : q # p => at'[q] = at[q]) /\ at' \in [Procs -> Steps]
    BY <1>1, <2>1
  <2> QED BY <1>2, <2>1, <2>2 DEF Write, Placing
<1>3. CASE WriteShort(p)
  <2>1. at[p] = "write" /\ at' = [at EXCEPT ![p] = "failed"]
    BY <1>3 DEF WriteShort, Step
  <2>2. at'[p] = "failed" /\ (\A q \in Procs : q # p => at'[q] = at[q]) /\ at' \in [Procs -> Steps]
    BY <1>1, <2>1
  <2>3. PICK n \in 1..(Len(todo[p]) - 1) : Put(p, n)
    BY <1>3 DEF WriteShort
  <2>4. n \in 1..Len(todo[p])
    BY <2>3, LenProperties DEF LineInv, TodoOK
  <2> QED BY <1>3, <2>1, <2>2, <2>3, <2>4 DEF WriteShort, Placing
<1> QED BY <1>2, <1>3

\* What a write adds to the file.
LEMMA WriteGrows ==
  ASSUME LineInv, NEW p \in Procs, Placing(p)
  PROVE  \E n \in 1..Len(todo[p]) :
           /\ locked \/ n = Len(todo[p]) \/ at'[p] = "failed"
           /\ file' \in Seq(Pieces)
           /\ Len(file') = Len(file) + n
           /\ \A i \in 1..Len(file) : file'[i] = file[i]
           /\ \A i \in (Len(file) + 1)..(Len(file) + n) :
                file'[i] = <<RowOf(p), todo[p][i - Len(file)]>>
           /\ todo' = [todo EXCEPT ![p] = SubSeq(todo[p], n + 1, Len(todo[p]))]
<1>1. PICK n \in 1..Len(todo[p]) :
        /\ locked \/ n = Len(todo[p]) \/ at'[p] = "failed"
        /\ file' = file \o [i \in 1..n |-> <<RowOf(p), todo[p][i]>>]
        /\ todo' = [todo EXCEPT ![p] = SubSeq(todo[p], n + 1, Len(todo[p]))]
  BY DEF Placing, Put
<1> DEFINE new == [i \in 1..n |-> <<RowOf(p), todo[p][i]>>]
<1>2. todo[p] \in Seq(Parts) /\ file \in Seq(Pieces) /\ n \in Nat
  BY <1>1 DEF LineInv, TodoOK, FileOK
<1>3. RowOf(p) \in Row
  BY RowOfType DEF LineInv, Appenders, Appending, Placing
<1>4. \A i \in 1..n : todo[p][i] \in Parts
  BY <1>1, <1>2, ElementOfSeq
<1>5. new \in Seq(Pieces) /\ Len(new) = n /\ \A i \in 1..n : new[i] = <<RowOf(p), todo[p][i]>>
  <2>1. \A i \in 1..n : <<RowOf(p), todo[p][i]>> \in Pieces
    BY <1>3, <1>4 DEF Pieces
  <2>2. new \in [1..n -> Pieces]
    BY <2>1
  <2>3. \A i \in 1..n : new[i] = <<RowOf(p), todo[p][i]>>
    OBVIOUS
  <2> HIDE DEF new
  <2>4. new \in Seq(Pieces)
    BY <1>2, <2>2, SeqDef
  <2>5. Len(new) \in Nat /\ DOMAIN new = 1..Len(new) /\ DOMAIN new = 1..n
    BY <2>2, <2>4, LenProperties
  <2>6. Len(new) = n
    <3>1. n \in 1..n /\ (Len(new) >= 1 => Len(new) \in 1..Len(new))
      BY <1>1, <1>2, <2>5
    <3>2. n \in 1..Len(new) /\ (Len(new) >= 1 => Len(new) \in 1..n)
      BY <2>5, <3>1
    <3>3. Len(new) \in Nat
      BY <2>5
    <3> QED BY <1>2, <3>2, <3>3
  <2> QED BY <2>3, <2>4, <2>6
<1> HIDE DEF new
<1>6. file' = file \o new
  BY <1>1 DEF new
<1>7. /\ file' \in Seq(Pieces) /\ Len(file') = Len(file) + n
      /\ \A i \in 1..(Len(file) + n) : file'[i] = IF i <= Len(file) THEN file[i] ELSE new[i - Len(file)]
  BY <1>2, <1>5, <1>6, ConcatProperties
<1>8. Len(file) \in Nat
  BY <1>2, LenProperties
<1>9. \A i \in (Len(file) + 1)..(Len(file) + n) : file'[i] = <<RowOf(p), todo[p][i - Len(file)]>>
  <2> SUFFICES ASSUME NEW i \in (Len(file) + 1)..(Len(file) + n)
               PROVE  file'[i] = <<RowOf(p), todo[p][i - Len(file)]>>
    OBVIOUS
  <2>1. i \in 1..(Len(file) + n) /\ ~(i <= Len(file)) /\ i - Len(file) \in 1..n
    BY <1>2, <1>8
  <2> QED BY <1>5, <1>7, <2>1
<1>10. \A i \in 1..Len(file) : file'[i] = file[i]
  BY <1>2, <1>7, <1>8
<1> QED BY <1>1, <1>7, <1>9, <1>10

LEMMA RowsKeptByWrite == ASSUME LineInv, NEW p \in Procs, Placing(p) PROVE RowsUnbroken'
<1>1. PICK n \in 1..Len(todo[p]) :
        /\ Len(file') = Len(file) + n
        /\ \A i \in 1..Len(file) : file'[i] = file[i]
        /\ \A i \in (Len(file) + 1)..(Len(file) + n) :
             file'[i] = <<RowOf(p), todo[p][i - Len(file)]>>
  BY WriteGrows
<1>2. Len(file) \in Nat /\ n \in Nat
  BY LenProperties DEF LineInv, FileOK
<1> SUFFICES ASSUME NEW i \in 1..(Len(file') - 1), file'[i + 1][1] # file'[i][1]
             PROVE  file'[i + 1][2] = "head"
  BY DEF RowsUnbroken
<1>3. CASE i + 1 <= Len(file)
  <2>1. i \in 1..(Len(file) - 1) /\ i \in 1..Len(file) /\ i + 1 \in 1..Len(file)
    BY <1>2, <1>3
  <2> QED BY <1>1, <2>1 DEF LineInv, RowsUnbroken
<1>4. CASE i = Len(file)
  <2>1. i \in 1..Len(file) /\ i + 1 \in (Len(file) + 1)..(Len(file) + n) /\ (i + 1) - Len(file) = 1
    BY <1>1, <1>2, <1>4
  <2>2. file'[i + 1] = <<RowOf(p), todo[p][1]>> /\ file'[i] = file[Len(file)]
    BY <1>1, <1>4, <2>1
  <2>3. ~AtTheEnd(p) /\ todo[p] # <<>>
    BY <1>1, <1>2, <2>2 DEF AtTheEnd
  <2>4. todo[p] = Text(RowOf(p))
    BY <2>3 DEF LineInv, Underway, Placing
  <2> QED BY <2>2, <2>4, TextFacts
<1>5. CASE i > Len(file)
  <2>1. i \in (Len(file) + 1)..(Len(file) + n) /\ i + 1 \in (Len(file) + 1)..(Len(file) + n)
    BY <1>1, <1>2, <1>5
  <2> QED BY <1>1, <2>1
<1>6. i + 1 <= Len(file) \/ i = Len(file) \/ i > Len(file)
  BY <1>1, <1>2
<1> QED BY <1>3, <1>4, <1>5, <1>6

LEMMA AckedOnDisk ==
  /\ AckedDurable <=> \A k \in DOMAIN acked : OnDisk(acked[k], file, synced)
  /\ AckedDurable' <=> \A k \in DOMAIN acked' : OnDisk(acked'[k], file', synced')
BY DEF AckedDurable, OnDisk

\* A row on disk stays there while the file grows, or is cut above it.
LEMMA OnDiskKept ==
  ASSUME NEW row, NEW f, NEW g, NEW m \in Nat, NEW n \in Nat, m <= n,
         OnDisk(row, f, m), \A i \in 1..m : g[i] = f[i]
  PROVE  OnDisk(row, g, n)
BY DEF OnDisk

LEMMA WriteKeeps == ASSUME LineInv, NEW p \in Procs, Write(p) \/ WriteShort(p) PROVE LineInv'
<1>0. Placing(p) /\ at' \in [Procs -> Steps]
  BY WritesPlace
<1>1. PICK n \in 1..Len(todo[p]) :
        /\ locked \/ n = Len(todo[p]) \/ at'[p] = "failed"
        /\ file' \in Seq(Pieces)
        /\ Len(file') = Len(file) + n
        /\ \A i \in 1..Len(file) : file'[i] = file[i]
        /\ \A i \in (Len(file) + 1)..(Len(file) + n) :
             file'[i] = <<RowOf(p), todo[p][i - Len(file)]>>
        /\ todo' = [todo EXCEPT ![p] = SubSeq(todo[p], n + 1, Len(todo[p]))]
  BY <1>0, WriteGrows
<1>2. /\ at[p] = "write"
      /\ \A q \in Procs : at'[q] = at[q] \/ (q = p /\ at'[q] = "failed")
      /\ lock' = lock \/ (at'[p] = "failed" /\ lock = p /\ lock' = NoProc)
      /\ lock = p => at'[p] = "write" \/ lock' = NoProc
      /\ UNCHANGED <<synced, done, acked, powerCuts, locked>>
  BY <1>0 DEF Placing, Release
<1>3. /\ Len(file) \in Nat /\ n \in Nat /\ Len(todo[p]) \in Nat
      /\ synced \in 0..Len(file) /\ todo[p] \in Seq(Parts)
  BY LenProperties DEF LineInv, FileOK, TodoOK
<1>4. \A i \in 1..synced : file'[i] = file[i]
  BY <1>1, <1>3
<1>5. FileOK' /\ PlaceOK' /\ CountOK' /\ HolderOK' /\ acked' \in Seq(Row) /\ Appenders'
  <2>1. FileOK'
    BY <1>1, <1>2, <1>3 DEF FileOK
  <2>2. PlaceOK' /\ CountOK' /\ HolderOK' /\ acked' \in Seq(Row) /\ Appenders'
    <3>1. PlaceOK' /\ CountOK' /\ acked' \in Seq(Row)
      BY <1>0, <1>2 DEF LineInv, PlaceOK, CountOK
    <3>2. HolderOK'
      BY <1>2, ProcAssumption DEF LineInv, PlaceOK, HolderOK
    <3>3. Appenders'
      BY <1>2 DEF LineInv, Appenders, Appending
    <3> QED BY <3>1, <3>2, <3>3
  <2> QED BY <2>1, <2>2
<1>6. /\ todo'[p] = SubSeq(todo[p], n + 1, Len(todo[p]))
      /\ todo'[p] \in Seq(Parts)
      /\ Len(todo'[p]) = Len(todo[p]) - n
      /\ \A j \in 1..(Len(todo[p]) - n) : todo'[p][j] = todo[p][n + j]
      /\ \A q \in Procs : q # p => todo'[q] = todo[q]
  BY <1>1, <1>3, SubSeqProperties, ElementOfSeq DEF LineInv, TodoOK
<1>7. TodoOK'
  BY <1>1, <1>6 DEF LineInv, TodoOK
<1>8. \A q \in Procs : RowOf(q)' = RowOf(q) /\ Text(RowOf(q))' = Text(RowOf(q))
  BY <1>2 DEF RowOf, Text, Body
<1>9. Underway'
  <2> SUFFICES ASSUME NEW q \in Procs, at'[q] = "write"
               PROVE  (todo[q] = Text(RowOf(q)) \/ todo[q] = <<>> \/ AtTheEnd(q))'
    BY DEF Underway
  <2>0. at[q] = "write"
    BY <1>2
  <2>1. CASE q # p
    <3>1. ~locked
      BY <1>2, <2>0, <2>1 DEF LineInv, Appenders, Appending
    <3>2. todo[q] = Text(RowOf(q)) \/ todo[q] = <<>>
      BY <2>0, <3>1 DEF LineInv, Underway, AtTheEnd
    <3> QED BY <1>6, <1>8, <2>1, <3>2
  <2>2. CASE q = p /\ n = Len(todo[p])
    <3>1. Len(todo'[p]) = 0
      BY <1>3, <1>6, <2>2
    <3> QED BY <1>6, <2>2, <3>1, EmptySeq
  <2>3. CASE q = p /\ n # Len(todo[p])
    <3>1. locked /\ Len(file') \in (Len(file) + 1)..(Len(file) + n)
      BY <1>1, <1>3, <2>3
    <3>2. file'[Len(file')][1] = RowOf(p)
      BY <1>1, <3>1
    <3> QED BY <1>2, <1>3, <1>8, <2>3, <3>1, <3>2 DEF AtTheEnd
  <2> QED BY <2>1, <2>2, <2>3
<1>10. Accounted'
  <2> SUFFICES ASSUME NEW q \in Procs, NEW part, Known(q, part)
               PROVE  Known(q, part)'
    <3>1. \A q \in Procs : at'[q] = "write" => at[q] = "write"
      BY <1>2
    <3> QED BY <1>8, <3>1 DEF Accounted, LineInv
  <2>1. CASE \E i \in 1..Len(file) : file[i] = <<RowOf(q), part>>
    <3>1. PICK i \in 1..Len(file) : file[i] = <<RowOf(q), part>>
      BY <2>1
    <3>2. i \in 1..Len(file') /\ file'[i] = <<RowOf(q), part>>
      BY <1>1, <1>3, <3>1
    <3> QED BY <1>8, <3>2 DEF Known
  <2>2. CASE q # p /\ \E j \in 1..Len(todo[q]) : todo[q][j] = part
    BY <1>6, <2>2 DEF Known
  <2>3. CASE q = p /\ \E j \in 1..Len(todo[p]) : todo[p][j] = part
    <3>1. PICK j \in 1..Len(todo[p]) : todo[p][j] = part
      BY <2>3
    <3>2. CASE j <= n
      <4>1. /\ Len(file) + j \in (Len(file) + 1)..(Len(file) + n)
            /\ Len(file) + j \in 1..Len(file')
            /\ (Len(file) + j) - Len(file) = j
        BY <1>1, <1>3, <3>2
      <4>2. file'[Len(file) + j] = <<RowOf(p), part>>
        BY <1>1, <3>1, <4>1
      <4> QED BY <1>8, <2>3, <4>1, <4>2 DEF Known
    <3>3. CASE j > n
      <4>1. j - n \in 1..(Len(todo[p]) - n) /\ n + (j - n) = j
        BY <1>3, <3>3
      <4> QED BY <1>6, <2>3, <3>1, <4>1 DEF Known
    <3> QED BY <1>3, <3>2, <3>3
  <2> QED BY <2>1, <2>2, <2>3 DEF Known
<1>11. Synced' /\ AckedDurable'
  <2>1. \A row : OnDisk(row, file, synced) => OnDisk(row, file', synced')
    <3>1. synced \in Nat /\ synced' = synced
      BY <1>2, <1>3
    <3> QED BY <1>4, <3>1, OnDiskKept
  <2>2. Synced'
    <3>1. \A q \in Procs : at'[q] = "unlock" => at[q] = "unlock"
      BY <1>2
    <3> QED BY <1>8, <2>1, <3>1 DEF LineInv, Synced
  <2>3. AckedDurable'
    BY <1>2, <2>1, AckedOnDisk DEF LineInv
  <2> QED BY <2>2, <2>3
<1> QED BY <1>5, <1>7, <1>9, <1>10, <1>11, <1>0, RowsKeptByWrite DEF LineInv
\* A step that leaves the file and what is to be written alone, and moves one
\* process somewhere else than into an append.
Aside(p) ==
  /\ UNCHANGED <<file, todo, powerCuts, locked>>
  /\ at[p] \in Steps \ Ended /\ at' = [at EXCEPT ![p] = at'[p]]
  /\ at'[p] \in {"load", "next"} \cup Ended
  /\ \/ UNCHANGED lock /\ ~Appending(p)
     \/ Release(p)

LEMMA AsidePlaces ==
  ASSUME LineInv, NEW p \in Procs, Aside(p), UNCHANGED done \/ at'[p] = "next"
  PROVE  PlaceOK' /\ HolderOK' /\ \A q \in Procs : Appending(q)' => q # p /\ Appending(q) /\ at'[q] = at[q]
<1>1. PlaceOK' /\ \A q \in Procs : q # p => at'[q] = at[q]
  BY DEF LineInv, PlaceOK, Aside, Steps, Ended, Release
<1>2. HolderOK'
  BY <1>1, ProcAssumption DEF LineInv, PlaceOK, HolderOK, Aside, Release, Appending
<1>3. ~Appending(p)'
  BY DEF Aside, Appending, Ended
<1> QED BY <1>1, <1>2, <1>3 DEF Appending

LEMMA AsideKeeps ==
  ASSUME LineInv, NEW p \in Procs, Aside(p), UNCHANGED synced,
         UNCHANGED done \/ at'[p] = "next", done' \in [Procs -> Nat],
         \A q \in Procs : q # p => done'[q] = done[q],
         acked' \in Seq(Row), AckedDurable'
  PROVE  LineInv'
<1>1. PlaceOK' /\ HolderOK' /\ \A q \in Procs : Appending(q)' => q # p /\ Appending(q) /\ at'[q] = at[q]
  BY AsidePlaces
<1>2. UNCHANGED <<file, synced, todo, powerCuts, locked>>
  BY DEF Aside
<1>3. FileOK' /\ TodoOK' /\ CountOK' /\ RowsUnbroken'
  BY <1>2 DEF LineInv, FileOK, TodoOK, CountOK, RowsUnbroken
<1>4. \A q \in Procs : q # p =>
        done'[q] = done[q] /\ RowOf(q)' = RowOf(q) /\ Text(RowOf(q))' = Text(RowOf(q))
  BY DEF RowOf, Text, Body
<1>5. \A q \in Procs : q # p /\ lock = q => lock' = q
  BY DEF Aside, Release
<1>6. Appenders'
  BY <1>1, <1>2, <1>4, <1>5 DEF LineInv, Appenders
<1>7. Underway'
  <2> SUFFICES ASSUME NEW q \in Procs, at'[q] = "write"
               PROVE  (todo[q] = Text(RowOf(q)) \/ todo[q] = <<>> \/ AtTheEnd(q))'
    BY DEF Underway
  <2>1. q # p /\ at[q] = "write"
    BY <1>1 DEF Appending
  <2>2. todo[q] = Text(RowOf(q)) \/ todo[q] = <<>> \/ AtTheEnd(q)
    BY <2>1 DEF LineInv, Underway
  <2> QED BY <1>2, <1>4, <2>1, <2>2 DEF AtTheEnd
<1>8. Accounted'
  <2> SUFFICES ASSUME NEW q \in Procs, at'[q] = "write", NEW k \in DOMAIN Text(RowOf(q))'
               PROVE  Known(q, Text(RowOf(q))[k])'
    BY DEF Accounted
  <2>1. q # p /\ at[q] = "write"
    BY <1>1 DEF Appending
  <2>2. k \in DOMAIN Text(RowOf(q)) /\ Known(q, Text(RowOf(q))[k])
    BY <1>4, <2>1 DEF LineInv, Accounted
  <2> QED BY <1>2, <1>4, <2>1, <2>2 DEF Known
<1>9. Synced'
  <2> SUFFICES ASSUME NEW q \in Procs, at'[q] = "unlock" PROVE OnDisk(RowOf(q), file, synced)'
    BY DEF Synced
  <2>1. q # p /\ at[q] = "unlock"
    BY <1>1 DEF Appending
  <2> QED BY <1>2, <1>4, <2>1 DEF LineInv, Synced
<1> QED BY <1>1, <1>3, <1>6, <1>7, <1>8, <1>9 DEF LineInv

\* The steps that are one of those.
LEMMA QuietKeeps ==
  ASSUME LineInv, NEW p \in Procs, Start(p) \/ Load(p) \/ Finish(p) \/ Fail(p) \/ Die(p)
  PROVE  LineInv'
<1>1. UNCHANGED <<file, todo, powerCuts, locked, synced, done, acked>>
  BY DEF Start, Load, Finish, Fail, Die
<1>2. at[p] \in Steps \ Ended /\ at' = [at EXCEPT ![p] = at'[p]] /\ at'[p] \in {"load", "next"} \cup Ended
  BY DEF Start, Load, Finish, Fail, Die, Step, LineInv, PlaceOK, Active, Steps, Ended
<1>3. (UNCHANGED lock /\ ~Appending(p)) \/ Release(p)
  BY DEF Start, Load, Finish, Fail, Die, Step, Appending
<1>4. Aside(p)
  BY <1>1, <1>2, <1>3 DEF Aside
<1>5. acked' \in Seq(Row) /\ AckedDurable' /\ done' \in [Procs -> Nat]
  BY <1>1, AckedOnDisk DEF LineInv, CountOK
<1> QED BY <1>1, <1>4, <1>5, AsideKeeps

LEMMA UnlockKeeps == ASSUME LineInv, NEW p \in Procs, Unlock(p) PROVE LineInv'
<1>1. at[p] = "unlock" /\ at' = [at EXCEPT ![p] = "next"] /\ at'[p] = "next"
  BY DEF Unlock, Step, LineInv, PlaceOK
<1>2. Aside(p) /\ UNCHANGED <<file, synced>>
  BY <1>1 DEF Unlock, Aside, Steps, Ended
<1>3. done' \in [Procs -> Nat] /\ \A q \in Procs : q # p => done'[q] = done[q]
  BY DEF Unlock, LineInv, CountOK
<1>4. RowOf(p) \in Row /\ OnDisk(RowOf(p), file, synced)
  BY <1>1, RowOfType DEF LineInv, Appenders, Appending, Synced
<1>5. acked' \in Seq(Row) /\ AckedDurable'
  <2>1. acked' = Append(acked, RowOf(p)) /\ acked \in Seq(Row)
    BY DEF Unlock, LineInv
  <2>2. \A k \in DOMAIN acked' : acked'[k] = RowOf(p) \/ (k \in DOMAIN acked /\ acked'[k] = acked[k])
    <3>1. Len(acked) \in Nat /\ DOMAIN acked = 1..Len(acked)
      BY <2>1, LenProperties
    <3>2. /\ DOMAIN acked' = 1..(Len(acked) + 1)
          /\ acked'[Len(acked) + 1] = RowOf(p)
          /\ \A k \in 1..Len(acked) : acked'[k] = acked[k]
      BY <1>4, <2>1, <3>1
    <3> SUFFICES ASSUME NEW k \in DOMAIN acked'
                 PROVE  acked'[k] = RowOf(p) \/ (k \in DOMAIN acked /\ acked'[k] = acked[k])
      OBVIOUS
    <3>3. k = Len(acked) + 1 \/ k \in 1..Len(acked)
      BY <3>1, <3>2
    <3>4. CASE k = Len(acked) + 1
      BY <3>2, <3>4
    <3>5. CASE k \in 1..Len(acked)
      BY <3>1, <3>2, <3>5
    <3> QED BY <3>3, <3>4, <3>5
  <2>3. AckedDurable'
    BY <1>2, <1>4, <2>2, AckedOnDisk DEF LineInv
  <2> QED BY <1>4, <2>1, <2>3
<1> QED BY <1>1, <1>2, <1>3, <1>5, AsideKeeps

LEMMA TakeKeeps == ASSUME LineInv, NEW p \in Procs, Take(p) PROVE LineInv'
<1>1. /\ at[p] = "next" /\ at' = [at EXCEPT ![p] = "write"]
      /\ done[p] < MaxRows[p]
      /\ (locked => lock = NoProc) /\ lock' = (IF locked THEN p ELSE lock)
      /\ todo' = [todo EXCEPT ![p] = Text(RowOf(p))]
      /\ UNCHANGED <<file, synced, done, acked, powerCuts, locked>>
  BY DEF Take, Step
<1>2. FileOK' /\ CountOK' /\ acked' \in Seq(Row) /\ RowsUnbroken' /\ AckedDurable'
  BY <1>1, AckedOnDisk DEF LineInv, FileOK, CountOK, RowsUnbroken
<1>3. TodoOK'
  BY <1>1, TextFacts DEF LineInv, TodoOK
<1>4. \A q \in Procs : RowOf(q)' = RowOf(q) /\ Text(RowOf(q))' = Text(RowOf(q))
  BY <1>1 DEF RowOf, Text, Body
<1>5. \A q \in Procs : q # p => at'[q] = at[q] /\ todo'[q] = todo[q]
  BY <1>1 DEF LineInv, PlaceOK, TodoOK
<1>6. at'[p] = "write" /\ todo'[p] = Text(RowOf(p))
  BY <1>1 DEF LineInv, PlaceOK, TodoOK
<1>7. PlaceOK'
  BY <1>1 DEF LineInv, PlaceOK, Steps
<1>8. \A q \in Procs : q # p /\ Appending(q) => ~locked
  BY <1>1, ProcAssumption DEF LineInv, Appenders
<1>9. HolderOK'
  BY <1>1, <1>5, <1>6 DEF LineInv, HolderOK, PlaceOK
<1>10. Appenders'
  BY <1>1, <1>5, <1>8 DEF LineInv, Appenders, Appending
<1>11. Underway'
  <2> SUFFICES ASSUME NEW q \in Procs, at'[q] = "write"
               PROVE  (todo[q] = Text(RowOf(q)) \/ todo[q] = <<>> \/ AtTheEnd(q))'
    BY DEF Underway
  <2>1. CASE q = p
    BY <1>4, <1>6, <2>1
  <2>2. CASE q # p
    <3>1. todo[q] = Text(RowOf(q)) \/ todo[q] = <<>> \/ AtTheEnd(q)
      BY <1>5, <2>2 DEF LineInv, Underway
    <3> QED BY <1>1, <1>4, <1>5, <2>2, <3>1 DEF AtTheEnd
  <2> QED BY <2>1, <2>2
<1>12. Accounted'
  <2> SUFFICES ASSUME NEW q \in Procs, at'[q] = "write", NEW k \in DOMAIN Text(RowOf(q))'
               PROVE  Known(q, Text(RowOf(q))[k])'
    BY DEF Accounted
  <2>1. CASE q = p
    <3>1. k \in 1..Len(Text(RowOf(p)))
      BY <1>4, <2>1, TextFacts, LenProperties
    <3> QED BY <1>4, <1>6, <2>1, <3>1 DEF Known
  <2>2. CASE q # p
    <3>1. k \in DOMAIN Text(RowOf(q)) /\ Known(q, Text(RowOf(q))[k])
      BY <1>4, <1>5, <2>2 DEF LineInv, Accounted
    <3> QED BY <1>1, <1>4, <1>5, <2>2, <3>1 DEF Known
  <2> QED BY <2>1, <2>2
<1>13. Synced'
  BY <1>1, <1>4, <1>5, <1>6 DEF LineInv, Synced
<1> QED BY <1>2, <1>3, <1>7, <1>9, <1>10, <1>11, <1>12, <1>13 DEF LineInv

LEMMA SyncKeeps == ASSUME LineInv, NEW p \in Procs, Sync(p) PROVE LineInv'
<1>1. /\ at[p] = "write" /\ at' = [at EXCEPT ![p] = "unlock"]
      /\ todo[p] = <<>> /\ synced' = Len(file)
      /\ UNCHANGED <<file, lock, done, todo, acked, powerCuts, locked>>
  BY DEF Sync, Step
<1>2. Len(file) \in Nat /\ synced \in Nat /\ synced <= Len(file)
  BY LenProperties DEF LineInv, FileOK
<1>3. FileOK' /\ TodoOK' /\ CountOK' /\ acked' \in Seq(Row) /\ RowsUnbroken'
  BY <1>1, <1>2 DEF LineInv, FileOK, TodoOK, CountOK, RowsUnbroken
<1>4. \A q \in Procs : RowOf(q)' = RowOf(q) /\ Text(RowOf(q))' = Text(RowOf(q))
  BY <1>1 DEF RowOf, Text, Body
<1>5. at'[p] = "unlock" /\ \A q \in Procs : q # p => at'[q] = at[q]
  BY <1>1 DEF LineInv, PlaceOK
<1>6. PlaceOK' /\ HolderOK' /\ Appenders'
  BY <1>1, <1>5 DEF LineInv, PlaceOK, HolderOK, Appenders, Appending, Steps
<1>7. Underway'
  <2> SUFFICES ASSUME NEW q \in Procs, at'[q] = "write"
               PROVE  (todo[q] = Text(RowOf(q)) \/ todo[q] = <<>> \/ AtTheEnd(q))'
    BY DEF Underway
  <2>1. todo[q] = Text(RowOf(q)) \/ todo[q] = <<>> \/ AtTheEnd(q)
    BY <1>5 DEF LineInv, Underway
  <2> QED BY <1>1, <1>4, <2>1 DEF AtTheEnd
<1>8. Accounted'
  <2> SUFFICES ASSUME NEW q \in Procs, at'[q] = "write", NEW k \in DOMAIN Text(RowOf(q))'
               PROVE  Known(q, Text(RowOf(q))[k])'
    BY DEF Accounted
  <2>1. k \in DOMAIN Text(RowOf(q)) /\ Known(q, Text(RowOf(q))[k])
    BY <1>4, <1>5 DEF LineInv, Accounted
  <2> QED BY <1>1, <1>4, <2>1 DEF Known
<1>9. \A row : OnDisk(row, file, synced) => OnDisk(row, file', synced')
  BY <1>1, <1>2, OnDiskKept
<1>10. OnDisk(RowOf(p), file, Len(file))
  <2>1. 1..Len(todo[p]) = {}
    BY <1>1, EmptySeq
  <2>2. \A k \in DOMAIN Text(RowOf(p)) : Known(p, Text(RowOf(p))[k])
    BY <1>1 DEF LineInv, Accounted
  <2> QED BY <2>1, <2>2 DEF Known, OnDisk
<1>11. Synced'
  BY <1>1, <1>4, <1>5, <1>9, <1>10 DEF LineInv, Synced
<1>12. AckedDurable'
  BY <1>1, <1>9, AckedOnDisk DEF LineInv
<1> QED BY <1>3, <1>6, <1>7, <1>8, <1>11, <1>12 DEF LineInv

LEMMA PowerCutKeeps == ASSUME LineInv, PowerCut PROVE LineInv'
<1>1. PICK n \in synced..Len(file) : file' = SubSeq(file, 1, n) /\ synced' = n
  BY DEF PowerCut
<1>2. Len(file) \in Nat /\ n \in Nat /\ synced \in Nat /\ synced <= n /\ file \in Seq(Pieces)
  BY <1>1, LenProperties DEF LineInv, FileOK
<1>3. /\ file' \in Seq(Pieces) /\ Len(file') = n
      /\ \A i \in 1..n : file'[i] = file[i]
  <2>1. \A i \in 1..n : file[i] \in Pieces
    BY <1>1, <1>2, ElementOfSeq
  <2> QED BY <1>1, <1>2, <2>1, SubSeqProperties
<1>4. FileOK' /\ TodoOK' /\ CountOK' /\ acked' \in Seq(Row)
  BY <1>1, <1>2, <1>3 DEF PowerCut, LineInv, FileOK, TodoOK, CountOK
<1>5. PlaceOK' /\ HolderOK'
  BY DEF PowerCut, LineInv, PlaceOK, HolderOK, Steps, Ended
<1>6. \A p \in Procs : at'[p] \notin {"write", "unlock"}
  BY DEF PowerCut, LineInv, PlaceOK, Active, Steps, Ended
<1>7. Appenders' /\ Underway' /\ Accounted' /\ Synced'
  BY <1>6 DEF Appenders, Appending, Underway, Accounted, Synced
<1>8. RowsUnbroken'
  <2> SUFFICES ASSUME NEW i \in 1..(Len(file') - 1), file'[i + 1][1] # file'[i][1]
               PROVE  file'[i + 1][2] = "head"
    BY DEF RowsUnbroken
  <2>1. i \in 1..(Len(file) - 1) /\ i \in 1..n /\ i + 1 \in 1..n
    BY <1>1, <1>2, <1>3
  <2> QED BY <1>3, <2>1 DEF LineInv, RowsUnbroken
<1>9. AckedDurable'
  <2>1. \A row : OnDisk(row, file, synced) => OnDisk(row, file', synced')
    <3>1. \A i \in 1..synced : file'[i] = file[i]
      BY <1>2, <1>3
    <3> QED BY <1>1, <1>2, <3>1, OnDiskKept
  <2> QED BY <2>1, AckedOnDisk DEF PowerCut, LineInv
<1> QED BY <1>4, <1>5, <1>7, <1>8, <1>9 DEF LineInv

LEMMA InitLine == Init => LineInv
<1> SUFFICES ASSUME Init PROVE LineInv
  OBVIOUS
<1>1. FileOK /\ acked \in Seq(Row) /\ RowsUnbroken /\ AckedDurable
  BY EmptySeq DEF Init, FileOK, RowsUnbroken, AckedDurable
<1>2. TodoOK /\ PlaceOK /\ CountOK /\ HolderOK
  BY EmptySeq DEF Init, TodoOK, PlaceOK, CountOK, HolderOK, Steps
<1>3. Appenders /\ Underway /\ Accounted /\ Synced
  BY DEF Init, Appenders, Appending, Underway, Accounted, Synced
<1> QED BY <1>1, <1>2, <1>3 DEF LineInv

LEMMA NextLine == LineInv /\ [Next]_lineVars => LineInv'
<1> SUFFICES ASSUME LineInv, [Next]_lineVars PROVE LineInv'
  OBVIOUS
<1>1. ASSUME NEW p \in Procs, Start(p) \/ Advance(p) \/ Fail(p) \/ WriteShort(p) \/ Die(p) PROVE LineInv'
  BY <1>1, QuietKeeps, TakeKeeps, WriteKeeps, SyncKeeps, UnlockKeeps DEF Advance
<1>2. CASE UNCHANGED lineVars
  <2>1. FileOK' /\ TodoOK' /\ PlaceOK' /\ CountOK' /\ HolderOK' /\ acked' \in Seq(Row)
    BY <1>2 DEF lineVars, LineInv, FileOK, TodoOK, PlaceOK, CountOK, HolderOK
  <2>2. \A p \in Procs : RowOf(p)' = RowOf(p) /\ Text(RowOf(p))' = Text(RowOf(p))
    BY <1>2 DEF lineVars, RowOf, Text, Body
  <2>3. Appenders' /\ Synced' /\ Underway'
    BY <1>2, <2>2 DEF lineVars, LineInv, Appenders, Appending, Synced, Underway, AtTheEnd
  <2>4. Accounted'
    <3> SUFFICES ASSUME NEW p \in Procs, at'[p] = "write", NEW k \in DOMAIN Text(RowOf(p))'
                 PROVE  Known(p, Text(RowOf(p))[k])'
      BY DEF Accounted
    <3>1. k \in DOMAIN Text(RowOf(p)) /\ Known(p, Text(RowOf(p))[k])
      BY <1>2, <2>2 DEF lineVars, LineInv, Accounted
    <3> QED BY <1>2, <2>2, <3>1 DEF lineVars, Known
  <2>5. RowsUnbroken' /\ AckedDurable'
    BY <1>2, AckedOnDisk DEF lineVars, LineInv, RowsUnbroken
  <2> QED BY <2>1, <2>3, <2>4, <2>5 DEF LineInv
<1> QED BY <1>1, <1>2, PowerCutKeeps DEF Next, AllEnded

LEMMA LineInvariant == Spec => []LineInv
BY InitLine, NextLine, PTL DEF Spec

\* Every variable has its type, and the lock is held only by a process that is
\* appending (session_lock gives it back whatever happens inside).
THEOREM LineTypes == Spec => []TypeOK
<1>1. LineInv => TypeOK
  BY DEF LineInv, FileOK, TodoOK, PlaceOK, CountOK, HolderOK, TypeOK, Pieces, Steps
<1> QED BY <1>1, LineInvariant, PTL

\* Rows of different appends never mix in a file, with the lock or with rows that
\* go out in one write, whoever dies, however little of a row a full disk takes and
\* whenever the machine stops.
THEOREM RowsNeverMix == Spec => []RowsUnbroken
<1>1. LineInv => RowsUnbroken
  BY DEF LineInv
<1> QED BY <1>1, LineInvariant, PTL

\* A row whose append_jsonl returned is on disk for good (Sync says what is taken
\* of the file system).
THEOREM AcknowledgedIsDurable == Spec => []AckedDurable
<1>1. LineInv => AckedDurable
  BY DEF LineInv
<1> QED BY <1>1, LineInvariant, PTL
-----------------------------------------------------------------------------
(* Where the pieces of a row are. *)

\* The first m parts of p's row are in the file, the last of them at its end;
\* the others are to be written.
Begun(p, m) ==
  LET text == Text(RowOf(p))
  IN  /\ Len(todo[p]) = Len(text) - m
      /\ \A j \in 1..Len(todo[p]) : todo[p][j] = text[m + j]
      /\ \A i \in 1..Len(file) : file[i][1] = RowOf(p) => \E k \in 1..m : file[i][2] = text[k]
      /\ m \in 1..(Len(text) - 1) =>
           locked /\ Len(file) > 0 /\ file[Len(file)] = <<RowOf(p), text[m]>>
Writing ==
  \A p \in Procs : at[p] = "write" => \E m \in 0..Len(Text(RowOf(p))) : Begun(p, m)

\* Nothing is in the file of a row that nobody has begun to append.
Unmade ==
  \A p \in Procs : \A i \in 1..Len(file) : file[i][1][1] = p =>
    /\ file[i][1][2] <= done[p] + 1
    /\ at[p] \in {"idle", "load", "next"} => file[i][1][2] <= done[p]

\* Every piece has its predecessor before it.
Follows(f, i) ==
  \E k \in DOMAIN Text(f[i][1]) :
    /\ f[i][2] = Text(f[i][1])[k]
    /\ k > 1 => i > 1 /\ f[i - 1] = <<f[i][1], Text(f[i][1])[k - 1]>>
InPlace == \A i \in 1..Len(file) : Follows(file, i)

Once == \A i, j \in 1..Len(file) : file[i] = file[j] => i = j

\* The acknowledged rows are rows of the past, in file order, and before the row
\* that is being appended.
InOrder(f, a, b) ==
  \A m, n \in 1..Len(f) : f[m] = <<a, "head">> /\ f[n] = <<b, "head">> => m < n
AcksPast == \A k \in DOMAIN acked : acked[k][2] <= done[acked[k][1]]
AcksOrdered == locked => \A j, k \in DOMAIN acked : j < k => InOrder(file, acked[j], acked[k])
AcksEarlier ==
  locked => \A p \in Procs : Appending(p) =>
              \A k \in DOMAIN acked : InOrder(file, acked[k], RowOf(p))

PlaceInv ==
  /\ Writing /\ Unmade /\ InPlace /\ Once
  /\ AcksPast /\ AcksOrdered /\ AcksEarlier

LEMMA EndedBy ==
  ASSUME NEW s \in Seq(Parts), NEW e \in Parts
  PROVE  /\ Len(s \o <<e>>) = Len(s) + 1
         /\ \A i \in 1..Len(s) : (s \o <<e>>)[i] = s[i]
         /\ (s \o <<e>>)[Len(s) + 1] = e
<1>1. s \o <<e>> = Append(s, e)
  BY AppendIsConcat
<1>2. /\ Len(Append(s, e)) = Len(s) + 1
      /\ \A i \in 1..Len(s) : Append(s, e)[i] = s[i]
      /\ Append(s, e)[Len(s) + 1] = e
  BY AppendProperties
<1> QED BY <1>1, <1>2

LEMMA TextIs ==
  ASSUME NEW row
  PROVE  LET text == Text(row)
         IN  /\ row \notin Splitting =>
                  Len(text) = 3 /\ text[1] = "head" /\ text[2] = "tail" /\ text[3] = "newline"
             /\ row \in Splitting =>
                  /\ Len(text) = 4
                  /\ text[1] = "head" /\ text[2] = "break" /\ text[3] = "tail" /\ text[4] = "newline"
<1>1. "newline" \in Parts
  BY DEF Parts
<1>2. CASE row \notin Splitting
  <2>1. Body(row) \in Seq(Parts) /\ Len(Body(row)) = 2 /\ Body(row)[1] = "head" /\ Body(row)[2] = "tail"
    BY <1>2 DEF Body, Parts
  <2>2. /\ Len(Text(row)) = 3 /\ Text(row)[3] = "newline"
        /\ Text(row)[1] = Body(row)[1] /\ Text(row)[2] = Body(row)[2]
    <3>1. /\ Len(Text(row)) = Len(Body(row)) + 1
          /\ \A i \in 1..Len(Body(row)) : Text(row)[i] = Body(row)[i]
          /\ Text(row)[Len(Body(row)) + 1] = "newline"
      BY <1>1, <2>1, EndedBy DEF Text
    <3>2. Len(Body(row)) + 1 = 3 /\ 1..Len(Body(row)) = 1..2
      BY <2>1
    <3> QED BY <3>1, <3>2
  <2> QED BY <1>2, <2>1, <2>2
<1>3. CASE row \in Splitting
  <2>1. /\ Body(row) \in Seq(Parts) /\ Len(Body(row)) = 3
        /\ Body(row)[1] = "head" /\ Body(row)[2] = "break" /\ Body(row)[3] = "tail"
    BY <1>3 DEF Body, Parts
  <2>2. /\ Len(Text(row)) = 4 /\ Text(row)[4] = "newline"
        /\ Text(row)[1] = Body(row)[1] /\ Text(row)[2] = Body(row)[2] /\ Text(row)[3] = Body(row)[3]
    <3>1. /\ Len(Text(row)) = Len(Body(row)) + 1
          /\ \A i \in 1..Len(Body(row)) : Text(row)[i] = Body(row)[i]
          /\ Text(row)[Len(Body(row)) + 1] = "newline"
      BY <1>1, <2>1, EndedBy DEF Text
    <3>2. Len(Body(row)) + 1 = 4 /\ 1..Len(Body(row)) = 1..3
      BY <2>1
    <3> QED BY <3>1, <3>2
  <2> QED BY <1>3, <2>1, <2>2
<1> QED BY <1>2, <1>3

LEMMA TextOnce ==
  ASSUME NEW row
  PROVE  /\ Len(Text(row)) \in 3..4 /\ DOMAIN Text(row) = 1..Len(Text(row))
         /\ \A j, k \in DOMAIN Text(row) : Text(row)[j] = Text(row)[k] => j = k
<1>1. DOMAIN Text(row) = 1..Len(Text(row))
  BY TextFacts, LenProperties
<1>2. CASE row \notin Splitting
  <2>1. \A k \in 1..3 : k = 1 \/ k = 2 \/ k = 3
    OBVIOUS
  <2>2. Len(Text(row)) = 3 /\ Text(row)[1] = "head" /\ Text(row)[2] = "tail" /\ Text(row)[3] = "newline"
    BY <1>2, TextIs
  <2> QED BY <1>1, <2>1, <2>2
<1>3. CASE row \in Splitting
  <2>1. \A k \in 1..4 : k = 1 \/ k = 2 \/ k = 3 \/ k = 4
    OBVIOUS
  <2>2. /\ Len(Text(row)) = 4
        /\ Text(row)[1] = "head" /\ Text(row)[2] = "break" /\ Text(row)[3] = "tail" /\ Text(row)[4] = "newline"
    BY <1>3, TextIs
  <2> QED BY <1>1, <2>1, <2>2
<1> QED BY <1>1, <1>2, <1>3

LEMMA FollowsKept ==
  ASSUME NEW f, NEW g, NEW n \in Nat, NEW i \in 1..n, Follows(f, i), \A j \in 1..n : g[j] = f[j]
  PROVE  Follows(g, i)
<1>1. i > 1 => i - 1 \in 1..n
  OBVIOUS
<1> QED BY <1>1 DEF Follows

LEMMA InOrderKept ==
  ASSUME NEW f \in Seq(Pieces), NEW g \in Seq(Pieces), Len(g) <= Len(f),
         \A i \in 1..Len(g) : g[i] = f[i], NEW a, NEW b, InOrder(f, a, b)
  PROVE  InOrder(g, a, b)
<1>1. \A i \in 1..Len(g) : i \in 1..Len(f)
  BY LenProperties
<1> QED BY <1>1 DEF InOrder

LEMMA InitPlace == Init => PlaceInv
<1> SUFFICES ASSUME Init PROVE PlaceInv
  OBVIOUS
<1>1. 1..Len(file) = {} /\ DOMAIN acked = {}
  BY EmptySeq DEF Init
<1>2. \A p \in Procs : at[p] = "idle"
  BY DEF Init
<1> QED BY <1>1, <1>2 DEF PlaceInv, Writing, Unmade, InPlace, Once, AcksPast, AcksOrdered,
            AcksEarlier, InOrder

\* What p has begun stays begun while it and the file stand still.
LEMMA BegunKept ==
  ASSUME NEW p, NEW m, Begun(p, m), todo'[p] = todo[p], UNCHANGED <<file, locked>>,
         RowOf(p)' = RowOf(p), Text(RowOf(p))' = Text(RowOf(p))
  PROVE  Begun(p, m)'
<1>1. Len(todo'[p]) = Len(Text(RowOf(p))) - m
  BY DEF Begun
<1>2. \A j \in 1..Len(todo'[p]) : todo'[p][j] = Text(RowOf(p))[m + j]
  BY DEF Begun
<1>3. \A i \in 1..Len(file) : file[i][1] = RowOf(p) => \E k \in 1..m : file[i][2] = Text(RowOf(p))[k]
  BY DEF Begun
<1>4. m \in 1..(Len(Text(RowOf(p))) - 1) =>
        locked /\ Len(file) > 0 /\ file[Len(file)] = <<RowOf(p), Text(RowOf(p))[m]>>
  BY DEF Begun
<1> QED BY <1>1, <1>2, <1>3, <1>4 DEF Begun

\* A step that leaves the file and the acknowledged rows alone, and in which nobody
\* but the taker of the lock comes to an append.
LEMMA PlacesKept ==
  ASSUME LineInv, PlaceInv, UNCHANGED <<file, done, acked, locked>>,
         \A p \in Procs : at[p] \notin {"idle", "load", "next"} => at'[p] \notin {"idle", "load", "next"},
         \A p \in Procs : Appending(p)' => Appending(p),
         \A p \in Procs : at'[p] = "write" => at[p] = "write" /\ todo'[p] = todo[p]
  PROVE  PlaceInv'
<1>1. \A p \in Procs : RowOf(p)' = RowOf(p) /\ Text(RowOf(p))' = Text(RowOf(p))
  BY DEF RowOf, Text, Body
<1>2. Writing'
  <2> SUFFICES ASSUME NEW p \in Procs, at'[p] = "write"
               PROVE  (\E m \in 0..Len(Text(RowOf(p))) : Begun(p, m))'
    BY DEF Writing
  <2>1. PICK m \in 0..Len(Text(RowOf(p))) : Begun(p, m)
    BY DEF PlaceInv, Writing
  <2>2. Begun(p, m)'
    BY <1>1, <2>1, BegunKept
  <2> QED BY <1>1, <2>2
<1>3. Unmade'
  BY DEF PlaceInv, Unmade
<1>4. InPlace'
  BY DEF PlaceInv, InPlace, Follows, Text, Body
<1>5. Once' /\ AcksPast' /\ AcksOrdered'
  BY DEF PlaceInv, Once, AcksPast, AcksOrdered, InOrder
<1>6. AcksEarlier'
  BY <1>1 DEF PlaceInv, AcksEarlier, InOrder
<1> QED BY <1>2, <1>3, <1>4, <1>5, <1>6 DEF PlaceInv

LEMMA QuietPlaces ==
  ASSUME LineInv, PlaceInv, NEW p \in Procs,
         Start(p) \/ Load(p) \/ Sync(p) \/ Finish(p) \/ Fail(p) \/ Die(p)
  PROVE  PlaceInv'
<1>1. UNCHANGED <<file, done, acked, locked, todo>>
  BY DEF Start, Load, Sync, Finish, Fail, Die
<1>2. \A q \in Procs : q # p => at'[q] = at[q]
  BY DEF Start, Load, Sync, Finish, Fail, Die, Step, LineInv, PlaceOK
<1>3. /\ at[p] \notin {"idle", "load", "next"} => at'[p] \notin {"idle", "load", "next"}
      /\ at'[p] # "write"
      /\ Appending(p)' => Appending(p)
  BY DEF Start, Load, Sync, Finish, Fail, Die, Step, Active, LineInv, PlaceOK, Ended, Appending
<1>4. \A q \in Procs : Appending(q)' => Appending(q)
  BY <1>2, <1>3 DEF Appending
<1> QED BY <1>1, <1>2, <1>3, <1>4, PlacesKept

\* The rows of the file and of the acknowledgements are rows.
LEMMA RowsTyped ==
  ASSUME LineInv
  PROVE  /\ \A i \in 1..Len(file) : file[i][1] \in Row /\ file[i][1][2] \in Nat
         /\ \A k \in DOMAIN acked : acked[k] \in Row /\ acked[k][1] \in Procs /\ acked[k][2] \in Nat
<1>1. \A row \in Row : row[1] \in Procs /\ row[2] \in Nat
  BY RowBoundAssumption DEF Row
<1>2. \A i \in 1..Len(file) : file[i] \in Pieces
  BY ElementOfSeq DEF LineInv, FileOK
<1>3. \A k \in DOMAIN acked : acked[k] \in Row
  BY ElementOfSeq, LenProperties DEF LineInv
<1> QED BY <1>1, <1>2, <1>3 DEF Pieces

LEMMA UnlockPlaces == ASSUME LineInv, PlaceInv, NEW p \in Procs, Unlock(p) PROVE PlaceInv'
<1>1. /\ at[p] = "unlock" /\ at'[p] = "next" /\ done'[p] = done[p] + 1 /\ done[p] \in Nat
      /\ \A q \in Procs : q # p => at'[q] = at[q] /\ done'[q] = done[q]
      /\ acked' = Append(acked, RowOf(p))
      /\ UNCHANGED <<file, todo, locked>>
  BY DEF Unlock, Step, LineInv, PlaceOK, CountOK
<1>2. \A q \in Procs : q # p => RowOf(q)' = RowOf(q) /\ Text(RowOf(q))' = Text(RowOf(q))
  BY <1>1 DEF RowOf, Text, Body
<1>3. Writing'
  <2> SUFFICES ASSUME NEW q \in Procs, at'[q] = "write"
               PROVE  (\E m \in 0..Len(Text(RowOf(q))) : Begun(q, m))'
    BY DEF Writing
  <2>1. q # p /\ at[q] = "write"
    BY <1>1
  <2>2. PICK m \in 0..Len(Text(RowOf(q))) : Begun(q, m)
    BY <2>1 DEF PlaceInv, Writing
  <2>3. Begun(q, m)'
    BY <1>1, <1>2, <2>1, <2>2, BegunKept
  <2> QED BY <1>2, <2>1, <2>3
<1>4. Unmade'
  <2> SUFFICES ASSUME NEW q \in Procs, NEW i \in 1..Len(file'), file'[i][1][1] = q
               PROVE  /\ file'[i][1][2] <= done'[q] + 1
                      /\ at'[q] \in {"idle", "load", "next"} => file'[i][1][2] <= done'[q]
    BY DEF Unmade
  <2>1. /\ file[i][1][2] <= done[q] + 1
        /\ at[q] \in {"idle", "load", "next"} => file[i][1][2] <= done[q]
    BY <1>1 DEF PlaceInv, Unmade
  <2>2. file[i][1][2] \in Nat
    BY <1>1, RowsTyped
  <2>3. done[q] \in Nat
    BY DEF LineInv, CountOK
  <2>4. CASE q = p
    BY <1>1, <2>1, <2>2, <2>3, <2>4
  <2>5. CASE q # p
    BY <1>1, <2>1, <2>5
  <2> QED BY <2>4, <2>5
<1>5. InPlace' /\ Once'
  <2>1. file' = file
    BY <1>1
  <2>2. InPlace'
    BY <2>1, Zenon DEF PlaceInv, InPlace, Follows, Text, Body
  <2>3. Once'
    BY <2>1, Zenon DEF PlaceInv, Once
  <2> QED BY <2>2, <2>3
<1>6. /\ DOMAIN acked = 1..Len(acked) /\ Len(acked) \in Nat
      /\ DOMAIN acked' = 1..(Len(acked) + 1)
      /\ acked'[Len(acked) + 1] = RowOf(p)
      /\ \A k \in 1..Len(acked) : acked'[k] = acked[k]
  <2>1. RowOf(p) \in Row
    BY <1>1, RowOfType DEF LineInv, Appenders, Appending
  <2> QED BY <1>1, <2>1, AppendProperties, LenProperties DEF LineInv
<1>7. AcksPast'
  <2> SUFFICES ASSUME NEW k \in DOMAIN acked' PROVE acked'[k][2] <= done'[acked'[k][1]]
    BY DEF AcksPast
  <2>1. CASE k = Len(acked) + 1
    BY <1>1, <1>6, <2>1 DEF RowOf
  <2>2. CASE k \in 1..Len(acked)
    <3>1. acked'[k] = acked[k] /\ acked[k][1] \in Procs /\ acked[k][2] \in Nat
      BY <1>6, <2>2, RowsTyped
    <3>2. acked[k][2] <= done[acked[k][1]]
      BY <1>6, <2>2 DEF PlaceInv, AcksPast
    <3>3. \A q \in Procs : done[q] \in Nat
      BY DEF LineInv, CountOK
    <3>4. \A q \in Procs : done'[q] = done[q] \/ done'[q] = done[q] + 1
      BY <1>1
    <3> QED BY <3>1, <3>2, <3>3, <3>4
  <2> QED BY <1>6, <2>1, <2>2
<1>8. AcksOrdered'
  <2> SUFFICES ASSUME locked, NEW j \in DOMAIN acked', NEW k \in DOMAIN acked', j < k
               PROVE  InOrder(file, acked'[j], acked'[k])
    BY <1>1 DEF AcksOrdered
  <2>1. j \in 1..Len(acked) /\ acked'[j] = acked[j]
    BY <1>6
  <2>2. CASE k = Len(acked) + 1
    BY <1>1, <1>6, <2>1, <2>2 DEF PlaceInv, AcksEarlier, Appending
  <2>3. CASE k \in 1..Len(acked)
    BY <1>6, <2>1, <2>3 DEF PlaceInv, AcksOrdered
  <2> QED BY <1>6, <2>2, <2>3
<1>9. AcksEarlier'
  <2>1. \A q \in Procs : locked => ~Appending(q)'
    BY <1>1 DEF LineInv, Appenders, Appending
  <2> QED BY <1>1, <2>1 DEF AcksEarlier
<1> QED BY <1>3, <1>4, <1>5, <1>7, <1>8, <1>9 DEF PlaceInv

LEMMA TakePlaces == ASSUME LineInv, PlaceInv, NEW p \in Procs, Take(p) PROVE PlaceInv'
<1>1. /\ at[p] = "next" /\ at'[p] = "write" /\ todo'[p] = Text(RowOf(p))
      /\ \A q \in Procs : q # p => at'[q] = at[q] /\ todo'[q] = todo[q]
      /\ locked => lock = NoProc
      /\ UNCHANGED <<file, done, acked, locked>>
  BY DEF Take, Step, LineInv, PlaceOK, TodoOK
<1>2. \A q \in Procs : RowOf(q)' = RowOf(q) /\ Text(RowOf(q))' = Text(RowOf(q))
  BY <1>1 DEF RowOf, Text, Body
<1>3. \A i \in 1..Len(file) : file[i][1] # RowOf(p)
  <2> SUFFICES ASSUME NEW i \in 1..Len(file), file[i][1] = RowOf(p) PROVE FALSE
    OBVIOUS
  <2>1. file[i][1][1] = p /\ file[i][1][2] = done[p] + 1 /\ done[p] \in Nat
    BY DEF RowOf, LineInv, CountOK
  <2>2. file[i][1][2] <= done[p]
    BY <1>1, <2>1 DEF PlaceInv, Unmade
  <2> QED BY <2>1, <2>2
<1>4. Writing'
  <2> SUFFICES ASSUME NEW q \in Procs, at'[q] = "write"
               PROVE  (\E m \in 0..Len(Text(RowOf(q))) : Begun(q, m))'
    BY DEF Writing
  <2>1. CASE q = p
    <3>1. Len(Text(RowOf(p))) \in Nat /\ 0 \in 0..Len(Text(RowOf(p)))
      BY TextOnce
    <3>2. Begun(p, 0)'
      BY <1>1, <1>2, <1>3, <3>1 DEF Begun
    <3> QED BY <1>2, <2>1, <3>1, <3>2
  <2>2. CASE q # p
    <3>1. PICK m \in 0..Len(Text(RowOf(q))) : Begun(q, m)
      BY <1>1, <2>2 DEF PlaceInv, Writing
    <3>2. Begun(q, m)'
      BY <1>1, <1>2, <2>2, <3>1, BegunKept
    <3> QED BY <1>2, <3>2
  <2> QED BY <2>1, <2>2
<1>5. Unmade'
  BY <1>1 DEF PlaceInv, Unmade
<1>6. InPlace' /\ Once' /\ AcksPast' /\ AcksOrdered'
  <2>1. InPlace'
    BY <1>1 DEF PlaceInv, InPlace, Follows, Text, Body
  <2>2. Once' /\ AcksPast' /\ AcksOrdered'
    BY <1>1 DEF PlaceInv, Once, AcksPast, AcksOrdered, InOrder
  <2> QED BY <2>1, <2>2
<1>7. AcksEarlier'
  <2> SUFFICES ASSUME locked, NEW q \in Procs, Appending(q)', NEW k \in DOMAIN acked
               PROVE  InOrder(file, acked[k], RowOf(q))
    BY <1>1, <1>2 DEF AcksEarlier
  <2>1. q = p
    BY <1>1, ProcAssumption DEF LineInv, Appenders, Appending
  <2> QED BY <1>3, <2>1 DEF InOrder
<1> QED BY <1>4, <1>5, <1>6, <1>7 DEF PlaceInv

LEMMA DropFirst ==
  ASSUME NEW s \in Seq(Parts), NEW n \in 1..Len(s), NEW t, t = SubSeq(s, n + 1, Len(s))
  PROVE  /\ Len(t) = Len(s) - n
         /\ \A j \in 1..(Len(s) - n) : t[j] = s[n + j]
<1>1. Len(s) \in Nat
  BY LenProperties
<1>2. n + 1 \in 1..(Len(s) + 1) /\ n \in Nat
  BY <1>1
<1> QED BY <1>1, <1>2, SubSeqProperties, ElementOfSeq

\* A write adds the parts m + 1 to m + n of a row of which m are in the file.
LEMMA WriteParts ==
  ASSUME LineInv, PlaceInv, NEW p \in Procs, Placing(p)
  PROVE  LET L == Len(file)
             text == Text(RowOf(p))
         IN  \E n \in 1..Len(todo[p]), m \in 0..Len(text) :
               /\ locked \/ n = Len(todo[p]) \/ at'[p] = "failed"
               /\ \A i \in 1..L : file'[i] = file[i]
               /\ todo' = [todo EXCEPT ![p] = SubSeq(todo[p], n + 1, Len(todo[p]))]
               /\ Begun(p, m)
               /\ L \in Nat /\ n \in Nat /\ n >= 1 /\ m \in Nat /\ Len(text) \in Nat
               /\ m + n <= Len(text) /\ Len(todo[p]) = Len(text) - m
               /\ \A j \in 1..Len(todo[p]) : todo[p][j] = text[m + j]
               /\ Len(file') = L + n /\ file' \in Seq(Pieces)
               /\ \A j \in 1..n : file'[L + j] = <<RowOf(p), text[m + j]>>
<1> DEFINE L == Len(file)
           text == Text(RowOf(p))
<1>1. PICK n \in 1..Len(todo[p]) :
        /\ locked \/ n = Len(todo[p]) \/ at'[p] = "failed"
        /\ file' \in Seq(Pieces) /\ Len(file') = Len(file) + n
        /\ \A i \in 1..Len(file) : file'[i] = file[i]
        /\ \A i \in (Len(file) + 1)..(Len(file) + n) :
             file'[i] = <<RowOf(p), todo[p][i - Len(file)]>>
        /\ todo' = [todo EXCEPT ![p] = SubSeq(todo[p], n + 1, Len(todo[p]))]
  BY WriteGrows
<1>2. at[p] = "write"
  BY DEF Placing
<1>3. L \in Nat /\ n \in Nat /\ Len(text) \in Nat
  BY LenProperties, TextOnce DEF LineInv, FileOK, TodoOK
<1>4. PICK m \in 0..Len(text) : Begun(p, m)
  BY <1>2 DEF PlaceInv, Writing
<1>5. /\ n >= 1 /\ m \in Nat
      /\ m + n <= Len(text) /\ Len(todo[p]) = Len(text) - m
      /\ \A j \in 1..Len(todo[p]) : todo[p][j] = text[m + j]
  <2>1. Len(todo[p]) = Len(text) - m /\ \A j \in 1..Len(todo[p]) : todo[p][j] = text[m + j]
    BY <1>4 DEF Begun
  <2>2. m \in Nat /\ n \in Nat /\ n >= 1 /\ n <= Len(todo[p]) /\ Len(text) \in Nat
    BY <1>1, <1>3
  <2>3. m + n <= Len(text)
    BY <2>1, <2>2
  <2> QED BY <2>1, <2>2, <2>3
<1>6. \A j \in 1..n : file'[L + j] = <<RowOf(p), text[m + j]>>
  <2> SUFFICES ASSUME NEW j \in 1..n PROVE file'[L + j] = <<RowOf(p), text[m + j]>>
    OBVIOUS
  <2>1. L + j \in (L + 1)..(L + n) /\ (L + j) - L = j /\ j \in 1..Len(todo[p])
    BY <1>1, <1>3
  <2> QED BY <1>1, <1>5, <2>1
<1> QED BY <1>1, <1>3, <1>4, <1>5, <1>6

LEMMA WritePlaces ==
  ASSUME LineInv, PlaceInv, NEW p \in Procs, Write(p) \/ WriteShort(p)
  PROVE  PlaceInv'
<1> DEFINE L == Len(file)
           text == Text(RowOf(p))
<1>0. Placing(p)
  BY WritesPlace
<1>1. PICK n \in 1..Len(todo[p]), m \in 0..Len(text) :
        /\ locked \/ n = Len(todo[p]) \/ at'[p] = "failed"
        /\ \A i \in 1..L : file'[i] = file[i]
        /\ todo' = [todo EXCEPT ![p] = SubSeq(todo[p], n + 1, Len(todo[p]))]
        /\ Begun(p, m)
        /\ L \in Nat /\ n \in Nat /\ n >= 1 /\ m \in Nat /\ Len(text) \in Nat
        /\ m + n <= Len(text) /\ Len(todo[p]) = Len(text) - m
        /\ \A j \in 1..Len(todo[p]) : todo[p][j] = text[m + j]
        /\ Len(file') = L + n /\ file' \in Seq(Pieces)
        /\ \A j \in 1..n : file'[L + j] = <<RowOf(p), text[m + j]>>
  BY <1>0, WriteParts, Zenon
<1>2. /\ at[p] = "write" /\ UNCHANGED <<done, acked, locked>> /\ done[p] \in Nat
      /\ \A q \in Procs : at'[q] = at[q] \/ (q = p /\ at'[q] = "failed")
  BY <1>0 DEF Placing, LineInv, CountOK
<1>3. /\ todo[p] \in Seq(Parts) /\ L \in Nat /\ n \in Nat
      /\ Len(text) \in Nat /\ DOMAIN text = 1..Len(text)
      /\ \A j, k \in 1..Len(text) : text[j] = text[k] => j = k
  BY LenProperties, TextOnce DEF LineInv, FileOK, TodoOK
<1>4. m \in 0..Len(text) /\ Begun(p, m)
  BY <1>1
<1>5. /\ L \in Nat /\ n \in Nat /\ n >= 1 /\ m \in Nat /\ Len(text) \in Nat
      /\ m + n <= Len(text) /\ Len(todo[p]) = Len(text) - m /\ Len(file') = L + n
      /\ \A j \in 1..Len(todo[p]) : todo[p][j] = text[m + j]
  BY <1>1
<1>6. \A j \in 1..n : file'[L + j] = <<RowOf(p), text[m + j]>>
  BY <1>1
<1>7. \A i \in 1..Len(file') : i \in 1..L \/ \E j \in 1..n : i = L + j
  <2> SUFFICES ASSUME NEW i \in 1..Len(file'), i \notin 1..L PROVE \E j \in 1..n : i = L + j
    OBVIOUS
  <2>1. i - L \in 1..n /\ i = L + (i - L)
    <3>1. i \in 1..(L + n) /\ L \in Nat /\ n \in Nat
      BY <1>5
    <3> QED BY <3>1
  <2> QED BY <2>1
<1>8. \A q \in Procs : RowOf(q)' = RowOf(q) /\ Text(RowOf(q))' = Text(RowOf(q))
  BY <1>2 DEF RowOf, Text, Body
<1>9. \A q \in Procs : q # p => RowOf(q) # RowOf(p)
  BY DEF RowOf
<1>10. \A q \in Procs : locked /\ Appending(q) => q = p
  BY <1>2 DEF LineInv, Appenders, Appending
<1> HIDE DEF L, text
<1>11. \A row : row # RowOf(p) =>
         \A i \in 1..Len(file') : file'[i][1] = row => i \in 1..L /\ file'[i] = file[i]
  <2>1. \A i \in 1..L : file'[i] = file[i]
    BY <1>1 DEF L
  <2>2. \A j \in 1..n : file'[L + j][1] = RowOf(p)
    BY <1>6
  <2> QED BY <1>7, <2>1, <2>2
<1>12. Writing'
  <2> SUFFICES ASSUME NEW q \in Procs, at'[q] = "write"
               PROVE  (\E k \in 0..Len(Text(RowOf(q))) : Begun(q, k))'
    BY DEF Writing
  <2>0. at[q] = "write"
    BY <1>2
  <2>1. CASE q = p
    <3>1. /\ Len(todo'[p]) = Len(text) - (m + n)
          /\ \A j \in 1..Len(todo'[p]) : todo'[p][j] = text[(m + n) + j]
      <4>1. /\ todo'[p] = SubSeq(todo[p], n + 1, Len(todo[p]))
            /\ Len(todo'[p]) = Len(todo[p]) - n
            /\ \A j \in 1..(Len(todo[p]) - n) : todo'[p][j] = todo[p][n + j]
        <5>1. todo'[p] = SubSeq(todo[p], n + 1, Len(todo[p]))
          <6>1. todo' = [todo EXCEPT ![p] = SubSeq(todo[p], n + 1, Len(todo[p]))]
            BY <1>1
          <6>2. p \in DOMAIN todo
            BY DEF LineInv, TodoOK
          <6> QED BY <6>1, <6>2
        <5>2. n + 1 \in 1..(Len(todo[p]) + 1) /\ Len(todo[p]) \in Nat /\ n \in 1..Len(todo[p])
          BY <1>5
        <5>3. todo[p] \in Seq(Parts)
          BY <1>3
        <5> QED BY <5>1, <5>2, <5>3, DropFirst
      <4>2. \A j \in 1..Len(todo'[p]) : n + j \in 1..Len(todo[p]) /\ m + (n + j) = (m + n) + j
        BY <1>5, <4>1
      <4>3. \A j \in 1..Len(todo'[p]) : todo'[p][j] = text[(m + n) + j]
        BY <1>5, <4>1, <4>2
      <4>4. Len(todo'[p]) = Len(text) - (m + n)
        <5>1. Len(todo'[p]) = (Len(text) - m) - n /\ Len(text) \in Nat /\ m \in Nat /\ n \in Nat
          BY <1>5, <4>1
        <5> QED BY <5>1
      <4> QED BY <4>3, <4>4
    <3>2. \A i \in 1..Len(file') : file'[i][1] = RowOf(p) => \E k \in 1..(m + n) : file'[i][2] = text[k]
      <4> SUFFICES ASSUME NEW i \in 1..Len(file'), file'[i][1] = RowOf(p)
                   PROVE  \E k \in 1..(m + n) : file'[i][2] = text[k]
        OBVIOUS
      <4>1. CASE i \in 1..L
        <5>1. PICK k \in 1..m : file[i][2] = text[k]
          BY <1>1, <1>4, <4>1 DEF Begun, L, text
        <5>2. k \in 1..(m + n)
          BY <1>3, <1>4
        <5> QED BY <1>1, <4>1, <5>1, <5>2 DEF L
      <4>2. CASE \E j \in 1..n : i = L + j
        <5>1. PICK j \in 1..n : i = L + j
          BY <4>2
        <5>2. m + j \in 1..(m + n)
          <6>1. j \in 1..n /\ m \in Nat /\ n \in Nat
            BY <1>5, <5>1
          <6> QED BY <6>1
        <5>3. file'[i][2] = text[m + j]
          <6>1. file'[L + j] = <<RowOf(p), text[m + j]>>
            BY <1>6
          <6> QED BY <5>1, <6>1
        <5> QED BY <5>2, <5>3, Zenon
      <4> QED BY <1>7, <4>1, <4>2
    <3>3. m + n \in 1..(Len(text) - 1) =>
            locked /\ Len(file') > 0 /\ file'[Len(file')] = <<RowOf(p), text[m + n]>>
      <4>1. n \in 1..n /\ Len(file') = L + n /\ L + n > 0
        BY <1>5
      <4>2. m + n \in 1..(Len(text) - 1) => n # Len(todo[p])
        BY <1>5
      <4> QED BY <1>1, <1>6, <2>1, <4>1, <4>2
    <3>4. m + n \in 0..Len(text)
      BY <1>5
    <3>5. Begun(p, m + n)'
      BY <1>2, <1>8, <3>1, <3>2, <3>3 DEF Begun, text
    <3> QED BY <1>8, <2>1, <3>4, <3>5 DEF text
  <2>2. CASE q # p
    <3>1. PICK k \in 0..Len(Text(RowOf(q))) : Begun(q, k)
      BY <2>0 DEF PlaceInv, Writing
    <3>2. todo'[q] = todo[q] /\ ~locked
      <4>1. todo'[q] = todo[q]
        BY <1>1, <2>2 DEF LineInv, TodoOK
      <4>2. ~locked
        BY <1>10, <2>0, <2>2 DEF Appending
      <4> QED BY <4>1, <4>2
    <3>3. \A i \in 1..Len(file') : file'[i][1] = RowOf(q) => i \in 1..L /\ file'[i] = file[i]
      BY <1>9, <1>11, <2>2
    <3>4. k \notin 1..(Len(Text(RowOf(q))) - 1)
      BY <3>1, <3>2 DEF Begun
    <3>5. \A i \in 1..Len(file') : file'[i][1] = RowOf(q) =>
            \E x \in 1..k : file'[i][2] = Text(RowOf(q))[x]
      BY <3>1, <3>3 DEF Begun, L
    <3>6. /\ Len(todo'[q]) = Len(Text(RowOf(q))) - k
          /\ \A j \in 1..Len(todo'[q]) : todo'[q][j] = Text(RowOf(q))[k + j]
      BY <3>1, <3>2 DEF Begun
    <3>7. Begun(q, k)'
      BY <1>8, <3>4, <3>5, <3>6 DEF Begun
    <3> QED BY <1>8, <3>1, <3>7
  <2> QED BY <2>1, <2>2
<1>13. Unmade'
  <2> SUFFICES ASSUME NEW q \in Procs, NEW i \in 1..Len(file'), file'[i][1][1] = q
               PROVE  /\ file'[i][1][2] <= done[q] + 1
                      /\ at[q] \in {"idle", "load", "next"} => file'[i][1][2] <= done[q]
    <3>1. \A q \in Procs : at'[q] \in {"idle", "load", "next"} => at[q] \in {"idle", "load", "next"}
      BY <1>2
    <3> QED BY <1>2, <3>1 DEF Unmade
  <2>1. CASE i \in 1..L
    BY <1>1, <2>1 DEF PlaceInv, Unmade, L
  <2>2. CASE \E j \in 1..n : i = L + j
    <3>1. file'[i][1] = <<p, done[p] + 1>>
      BY <1>6, <2>2 DEF RowOf
    <3> QED BY <1>2, <3>1
  <2> QED BY <1>7, <2>1, <2>2
<1>14. InPlace'
  <2> SUFFICES ASSUME NEW i \in 1..Len(file') PROVE Follows(file', i)
    BY DEF InPlace, Follows, Text, Body
  <2>1. CASE i \in 1..L
    <3>1. Follows(file, i)
      BY <2>1 DEF PlaceInv, InPlace, L
    <3> QED BY <1>1, <1>3, <2>1, <3>1, FollowsKept DEF L
  <2>2. CASE \E j \in 1..n : i = L + j
    <3>1. PICK j \in 1..n : i = L + j
      BY <2>2
    <3>2. file'[i] = <<RowOf(p), text[m + j]>> /\ m + j \in DOMAIN text
      <4>1. m + j \in 1..Len(text)
        BY <1>5
      <4> QED BY <1>3, <1>6, <3>1, <4>1
    <3>3. m + j > 1 => i > 1 /\ file'[i - 1] = <<RowOf(p), text[(m + j) - 1]>>
      <4>1. CASE j > 1
        <5>1. j - 1 \in 1..n /\ i - 1 = L + (j - 1) /\ m + (j - 1) = (m + j) - 1 /\ i > 1
          BY <1>5, <3>1, <4>1
        <5> QED BY <1>6, <5>1
      <4>2. CASE j = 1 /\ m > 0
        <5>1. m \in 1..(Len(text) - 1)
          BY <1>5, <4>2
        <5>2. L > 0 /\ file[L] = <<RowOf(p), text[m]>>
          BY <1>4, <5>1 DEF Begun, L, text
        <5>3. i > 1 /\ i - 1 = L /\ L \in 1..L /\ (m + j) - 1 = m
          BY <1>5, <3>1, <4>2, <5>2
        <5>4. file'[L] = file[L]
          BY <1>1, <5>3 DEF L
        <5> QED BY <5>2, <5>3, <5>4
      <4>3. m + j > 1 => j > 1 \/ (j = 1 /\ m > 0)
        BY <1>5
      <4> QED BY <4>1, <4>2, <4>3
    <3>4. file'[i][1] = RowOf(p) /\ file'[i][2] = text[m + j]
      BY <3>2
    <3>5. m + j \in DOMAIN Text(file'[i][1]) /\ file'[i][2] = Text(file'[i][1])[m + j]
      BY <3>2, <3>4 DEF text
    <3>6. m + j > 1 => i > 1 /\ file'[i - 1] = <<file'[i][1], Text(file'[i][1])[(m + j) - 1]>>
      BY <3>3, <3>4 DEF text
    <3> QED BY <3>5, <3>6 DEF Follows
  <2> QED BY <1>7, <2>1, <2>2
<1>15. Once'
  <2> SUFFICES ASSUME NEW i \in 1..Len(file'), NEW k \in 1..Len(file'), file'[i] = file'[k]
               PROVE  i = k
    BY DEF Once
  <2>1. CASE i \in 1..L /\ k \in 1..L
    <3>1. file'[i] = file[i] /\ file'[k] = file[k]
      BY <1>1, <2>1 DEF L
    <3> QED BY <2>1, <3>1 DEF PlaceInv, Once, L
  <2>2. ASSUME NEW x \in 1..L, NEW j \in 1..n, file'[x] = file'[L + j] PROVE FALSE
    <3>1. file[x] = <<RowOf(p), text[m + j]>>
      BY <1>1, <1>6, <2>2 DEF L
    <3>2. PICK y \in 1..m : file[x][2] = text[y]
      <4>1. x \in 1..Len(file) /\ file[x][1] = RowOf(p)
        BY <3>1 DEF L
      <4> QED BY <1>4, <4>1 DEF Begun, text
    <3>3. y \in 1..Len(text) /\ m + j \in 1..Len(text) /\ y # m + j
      <4>1. /\ m \in Nat /\ n \in Nat /\ Len(text) \in Nat /\ m + n <= Len(text)
            /\ y \in 1..m /\ j \in 1..n
        BY <1>5, <3>2
      <4> QED BY <4>1
    <3>4. text[y] = text[m + j]
      BY <3>1, <3>2
    <3> QED BY <1>3, <3>3, <3>4
  <2>3. ASSUME NEW a \in 1..n, NEW b \in 1..n, file'[L + a] = file'[L + b] PROVE a = b
    <3>1. text[m + a] = text[m + b]
      BY <1>6, <2>3
    <3>2. m + a \in 1..Len(text) /\ m + b \in 1..Len(text)
      BY <1>5
    <3>3. m + a = m + b
      BY <1>3, <3>1, <3>2
    <3> QED BY <1>5, <3>3
  <2> QED BY <1>7, <2>1, <2>2, <2>3
<1>16. \A k \in DOMAIN acked : \A i \in 1..Len(file') : file'[i][1] = acked[k] => i \in 1..L /\ file'[i] = file[i]
  <2>1. \A k \in DOMAIN acked : acked[k] # RowOf(p)
    <3> SUFFICES ASSUME NEW k \in DOMAIN acked, acked[k] = RowOf(p) PROVE FALSE
      OBVIOUS
    <3>1. acked[k][2] = done[p] + 1 /\ acked[k][1] = p
      BY DEF RowOf
    <3>2. acked[k][2] <= done[p]
      BY <3>1 DEF PlaceInv, AcksPast
    <3> QED BY <1>2, <3>1, <3>2
  <2> QED BY <1>11, <2>1
<1>17. AcksPast'
  BY <1>2 DEF PlaceInv, AcksPast
<1>18. AcksOrdered'
  <2> SUFFICES ASSUME locked, NEW j \in DOMAIN acked, NEW k \in DOMAIN acked, j < k
               PROVE  InOrder(file', acked[j], acked[k])
    BY <1>2 DEF AcksOrdered, InOrder
  <2>1. InOrder(file, acked[j], acked[k])
    BY DEF PlaceInv, AcksOrdered
  <2>2. \A a \in 1..Len(file') : file'[a] = <<acked[j], "head">> => a \in 1..L /\ file[a] = <<acked[j], "head">>
    BY <1>16
  <2>3. \A a \in 1..Len(file') : file'[a] = <<acked[k], "head">> => a \in 1..L /\ file[a] = <<acked[k], "head">>
    BY <1>16
  <2> QED BY <2>1, <2>2, <2>3 DEF InOrder, L
<1>19. AcksEarlier'
  <2> SUFFICES ASSUME locked, NEW k \in DOMAIN acked PROVE InOrder(file', acked[k], RowOf(p))
    <3>1. \A q \in Procs : Appending(q)' => Appending(q)
      BY <1>2 DEF Appending
    <3> QED BY <1>2, <1>8, <1>10, <3>1 DEF AcksEarlier, InOrder
  <2> SUFFICES ASSUME NEW a \in 1..Len(file'), NEW b \in 1..Len(file'),
                      file'[a] = <<acked[k], "head">>, file'[b] = <<RowOf(p), "head">>
               PROVE  a < b
    BY DEF InOrder
  <2>1. a \in 1..L /\ file[a] = <<acked[k], "head">>
    BY <1>16
  <2>2. CASE b \in 1..L
    <3>1. InOrder(file, acked[k], RowOf(p))
      BY <1>2 DEF PlaceInv, AcksEarlier, Appending
    <3> QED BY <1>1, <2>1, <2>2, <3>1 DEF InOrder, L
  <2>3. CASE b \notin 1..L
    BY <1>5, <2>1, <2>3
  <2> QED BY <2>2, <2>3
<1> QED BY <1>12, <1>13, <1>14, <1>15, <1>17, <1>18, <1>19 DEF PlaceInv

\* A machine stop cuts the file between two pieces.
LEMMA PowerCutPlaces == ASSUME LineInv, PlaceInv, PowerCut PROVE PlaceInv'
<1>1. PICK n \in synced..Len(file) : file' = SubSeq(file, 1, n)
  BY DEF PowerCut
<1>2. Len(file) \in Nat /\ n \in Nat /\ n <= Len(file) /\ file \in Seq(Pieces)
  BY <1>1, LenProperties DEF LineInv, FileOK
<1>3. /\ file' \in Seq(Pieces) /\ Len(file') = n
      /\ \A i \in 1..n : file'[i] = file[i] /\ i \in 1..Len(file)
  <2>1. \A i \in 1..n : i \in 1..Len(file) /\ file[i] \in Pieces
    BY <1>2, ElementOfSeq
  <2> QED BY <1>1, <1>2, <2>1, SubSeqProperties
<1>4. \A p \in Procs : ~Appending(p)' /\ (at'[p] \in {"idle", "load", "next"} => at[p] = at'[p])
  BY DEF PowerCut, LineInv, PlaceOK, Active, Appending, Steps, Ended
<1>5. UNCHANGED <<done, todo, acked, locked>>
  BY DEF PowerCut
<1>6. Writing' /\ AcksEarlier'
  BY <1>4 DEF Writing, AcksEarlier, Appending
<1>7. Unmade'
  BY <1>3, <1>4, <1>5 DEF PlaceInv, Unmade
<1>8. InPlace'
  <2> SUFFICES ASSUME NEW i \in 1..Len(file') PROVE Follows(file', i)
    BY DEF InPlace, Follows, Text, Body
  <2>1. Follows(file, i) /\ i \in 1..n
    BY <1>3 DEF PlaceInv, InPlace
  <2> QED BY <1>2, <1>3, <2>1, FollowsKept
<1>9. Once'
  BY <1>3 DEF PlaceInv, Once
<1>10. AcksPast' /\ AcksOrdered'
  <2>1. AcksPast'
    BY <1>5 DEF PlaceInv, AcksPast
  <2>2. \A a, b : InOrder(file, a, b) => InOrder(file', a, b)
    <3>1. Len(file') <= Len(file) /\ \A i \in 1..Len(file') : file'[i] = file[i]
      BY <1>2, <1>3
    <3> QED BY <1>2, <1>3, <3>1, InOrderKept
  <2>3. AcksOrdered'
    <3> SUFFICES ASSUME locked, NEW j \in DOMAIN acked, NEW k \in DOMAIN acked, j < k
                 PROVE  InOrder(file', acked[j], acked[k])
      BY <1>5 DEF AcksOrdered, InOrder
    <3> QED BY <2>2 DEF PlaceInv, AcksOrdered
  <2> QED BY <2>1, <2>3
<1> QED BY <1>6, <1>7, <1>8, <1>9, <1>10 DEF PlaceInv

LEMMA NextPlace == LineInv /\ PlaceInv /\ [Next]_lineVars => PlaceInv'
<1> SUFFICES ASSUME LineInv, PlaceInv, [Next]_lineVars PROVE PlaceInv'
  OBVIOUS
<1>1. ASSUME NEW p \in Procs, Start(p) \/ Advance(p) \/ Fail(p) \/ WriteShort(p) \/ Die(p) PROVE PlaceInv'
  BY <1>1, QuietPlaces, TakePlaces, WritePlaces, UnlockPlaces DEF Advance
<1>2. CASE UNCHANGED lineVars
  BY <1>2, PlacesKept DEF lineVars, Appending
<1> QED BY <1>1, <1>2, PowerCutPlaces DEF Next, AllEnded

LEMMA PlaceInvariant == Spec => []PlaceInv
BY InitPlace, NextPlace, LineInvariant, PTL DEF Spec
-----------------------------------------------------------------------------
(* What a reader finds. *)

\* A piece that is not the first of its row stands behind the one before it.
LEMMA Behind ==
  ASSUME PlaceInv, NEW i \in 1..Len(file), NEW row, NEW k \in 2..Len(Text(row)),
         file[i] = <<row, Text(row)[k]>>
  PROVE  i > 1 /\ file[i - 1] = <<row, Text(row)[k - 1]>>
<1>1. PICK j \in DOMAIN Text(row) :
        /\ Text(row)[k] = Text(row)[j]
        /\ j > 1 => i > 1 /\ file[i - 1] = <<row, Text(row)[j - 1]>>
  BY DEF PlaceInv, InPlace, Follows
<1>2. k \in DOMAIN Text(row) /\ k > 1
  BY TextOnce
<1>3. j = k
  BY <1>1, <1>2, TextOnce
<1> QED BY <1>1, <1>2, <1>3

\* If every row in the file is complete and free of line boundaries, each line
\* is the text of one row.
LEMMA LinesAreRows ==
  ASSUME LineInv, PlaceInv,
         \A i \in DOMAIN file : file[i][1] \notin Splitting /\ Complete(file[i][1])
  PROVE  Loadable(file)
<1>1. Len(file) \in Nat /\ DOMAIN file = 1..Len(file)
  BY LenProperties DEF LineInv, FileOK
<1> SUFFICES ASSUME NEW l \in Lines(file), ~Empty(l)
             PROVE  \E row \in Row : file[l[1] + 1][1] = row /\ Parses(file, l, row)
  BY DEF Loadable
<1> DEFINE a == l[1]
           b == l[2]
           row == file[a + 1][1]
<1>2. /\ a \in {0} \cup Ends(file) /\ b \in Ends(file) \cup {Len(file) + 1} /\ a < b
      /\ \A i \in Ends(file) : ~(a < i /\ i < b)
  BY DEF Lines
<1>3. a \in Nat /\ b \in Nat /\ a + 1 < b /\ a + 1 \in 1..Len(file) /\ b <= Len(file) + 1
  <2>1. a \in Nat /\ b \in Nat /\ b <= Len(file) + 1
    BY <1>1, <1>2 DEF Ends
  <2>2. b # a + 1
    BY DEF Empty
  <2> QED BY <1>1, <1>2, <2>1, <2>2
<1>4. row \in Row /\ row \notin Splitting /\ Complete(row)
  BY <1>1, <1>3, RowsTyped
<1>5. /\ Len(Text(row)) = 3 /\ DOMAIN Text(row) = 1..3
      /\ Text(row)[1] = "head" /\ Text(row)[2] = "tail" /\ Text(row)[3] = "newline"
  BY <1>4, TextIs, TextOnce
<1> HIDE DEF row
<1>6. file[a + 1] = <<row, "head">>
  <2>1. PICK k \in 1..3 : file[a + 1][2] = Text(row)[k] /\ (k > 1 => file[a] = <<row, Text(row)[k - 1]>> /\ a > 0)
    <3>1. (a + 1) - 1 = a
      BY <1>3
    <3>2. Follows(file, a + 1)
      BY <1>3 DEF PlaceInv, InPlace
    <3> QED BY <1>3, <1>5, <3>1, <3>2 DEF Follows, row
  <2>2. a + 1 \notin Ends(file)
    BY <1>2, <1>3
  <2>3. k # 3
    BY <1>1, <1>3, <1>5, <2>1, <2>2 DEF Ends
  <2>4. k # 2
    <3> SUFFICES ASSUME k = 2 PROVE FALSE
      OBVIOUS
    <3>1. file[a][2] = "head" /\ a \in Ends(file)
      BY <1>2, <1>5, <2>1
    <3> QED BY <3>1 DEF Ends
  <2>5. file[a + 1][2] = "head"
    BY <1>5, <2>1, <2>3, <2>4
  <2>6. file[a + 1] \in Pieces
    BY <1>3, ElementOfSeq DEF LineInv, FileOK
  <2> QED BY <2>5, <2>6 DEF Pieces, row
<1>7. a + 2 \in 1..Len(file) /\ file[a + 2] = <<row, "tail">>
  <2>1. PICK t \in 1..Len(file) : file[t] = <<row, "tail">>
    BY <1>1, <1>4, <1>5 DEF Complete, Holds
  <2>2. t > 1 /\ file[t - 1] = <<row, Text(row)[1]>>
    BY <1>5, <2>1, Behind
  <2>3. t - 1 \in 1..Len(file)
    BY <1>1, <2>2
  <2>4. t - 1 = a + 1
    BY <1>3, <1>5, <1>6, <2>2, <2>3 DEF PlaceInv, Once
  <2>5. t = a + 2
    BY <1>3, <2>4
  <2> QED BY <2>1, <2>5
<1>8. a + 3 \in 1..Len(file) /\ file[a + 3] = <<row, "newline">>
  <2>1. PICK t \in 1..Len(file) : file[t] = <<row, "newline">>
    BY <1>1, <1>4, <1>5 DEF Complete, Holds
  <2>2. t > 1 /\ file[t - 1] = <<row, Text(row)[2]>>
    BY <1>5, <2>1, Behind
  <2>3. t - 1 \in 1..Len(file)
    BY <1>1, <2>2
  <2>4. t - 1 = a + 2
    BY <1>5, <1>7, <2>2, <2>3 DEF PlaceInv, Once
  <2>5. t = a + 3
    BY <1>3, <2>4
  <2> QED BY <2>1, <2>5
<1>9. b = a + 3
  <2>1. a + 3 \in Ends(file) /\ a + 2 \notin Ends(file)
    BY <1>1, <1>7, <1>8 DEF Ends
  <2>2. ~(a + 3 < b)
    BY <1>2, <1>3, <2>1
  <2>3. b # a + 2
    BY <1>2, <1>3, <1>8, <2>1
  <2> QED BY <1>3, <2>2, <2>3
<1> QED BY <1>4, <1>6, <1>7, <1>9 DEF Parses, row

\* The order of the natural numbers, as the library has it, gives every nonempty
\* set a least element, and a bounded one a greatest.
Below == {ss \in Nat \X Nat : ss[1] < ss[2]}

LEMMA LeastNatural ==
  ASSUME NEW S \in SUBSET Nat, S # {}
  PROVE  \E m \in S : \A k \in S : m <= k
<1>1. IsWellFoundedOn(Below, Nat)
  BY NatLessThanWellFounded, Zenon DEF OpToRel, Below
<1>2. PICK m \in S : \A y \in S : <<y, m>> \notin Below
  BY <1>1, WFMin
<1>3. \A y \in S : ~(y < m)
  BY <1>2 DEF Below
<1>4. \A y \in S : y \in Nat /\ m \in Nat
  OBVIOUS
<1> QED BY <1>3, <1>4

LEMMA GreatestNatural ==
  ASSUME NEW S \in SUBSET Nat, S # {}, NEW n \in Nat, \A k \in S : k <= n
  PROVE  \E m \in S : \A k \in S : k <= m
<1> DEFINE D == {n - k : k \in S}
<1>1. D \in SUBSET Nat /\ D # {}
  <2>1. ASSUME NEW k \in S PROVE n - k \in Nat
    <3>1. k \in Nat /\ k <= n
      OBVIOUS
    <3> QED BY <3>1
  <2> QED BY <2>1
<1>2. PICK d \in D : \A e \in D : d <= e
  BY <1>1, LeastNatural
<1>3. PICK m \in S : d = n - m
  BY <1>2
<1>4. \A k \in S : n - m <= n - k
  BY <1>2, <1>3
<1>5. \A k \in S : k \in Nat /\ m \in Nat
  OBVIOUS
<1> QED BY <1>3, <1>4, <1>5

\* Every place that ends no line lies inside one.
LEMMA InsideLine ==
  ASSUME LineInv, NEW h \in 1..Len(file), h \notin Ends(file)
  PROVE  \E l \in Lines(file) : l[1] < h /\ h < l[2]
<1>1. Len(file) \in Nat /\ DOMAIN file = 1..Len(file)
  BY LenProperties DEF LineInv, FileOK
<1> DEFINE before == {i \in {0} \cup Ends(file) : i < h}
           after == {i \in Ends(file) \cup {Len(file) + 1} : h < i}
<1>2. before \in SUBSET Nat /\ before # {} /\ h \in Nat /\ \A i \in before : i <= h
  BY <1>1 DEF Ends
<1>3. after \in SUBSET Nat /\ after # {}
  <2>1. Len(file) + 1 \in after
    BY <1>1
  <2> QED BY <1>1, <2>1 DEF Ends
<1>4. PICK a \in before : \A i \in before : i <= a
  <2> HIDE DEF before
  <2> QED BY <1>2, GreatestNatural
<1>5. PICK b \in after : \A i \in after : b <= i
  BY <1>3, LeastNatural
<1>6. \A i \in Ends(file) : ~(a < i /\ i < b)
  <2> SUFFICES ASSUME NEW i \in Ends(file), a < i, i < b PROVE FALSE
    OBVIOUS
  <2>1. i \in Nat /\ a \in Nat /\ b \in Nat /\ i # h
    BY <1>1, <1>4, <1>5 DEF Ends
  <2>2. i \in before \/ i \in after
    BY <2>1
  <2> QED BY <1>4, <1>5, <2>1, <2>2
<1>7. a < h /\ h < b /\ a \in {0} \cup Ends(file) /\ b \in Ends(file) \cup {Len(file) + 1} /\ a < b
  BY <1>1, <1>2, <1>3, <1>4, <1>5
<1>8. <<a, b>> \in Lines(file)
  BY <1>6, <1>7 DEF Lines
<1> QED BY <1>7, <1>8

\* In a file that can be loaded, the head of a row begins a line that is the row.
LEMMA HeadLoaded ==
  ASSUME LineInv, Loadable(file), NEW row, NEW h \in 1..Len(file), file[h] = <<row, "head">>
  PROVE  row \in Loaded(file)
<1>1. Len(file) \in Nat /\ DOMAIN file = 1..Len(file)
  BY LenProperties DEF LineInv, FileOK
<1>2. h \notin Ends(file)
  BY DEF Ends
<1>3. PICK l \in Lines(file) : l[1] < h /\ h < l[2]
  BY <1>2, InsideLine
<1>4. l[1] \in Nat /\ l[2] \in Nat /\ h \in Nat
  BY <1>1 DEF Lines, Ends
<1>5. ~Empty(l)
  BY <1>3, <1>4 DEF Empty
<1>6. PICK x \in Row : Parses(file, l, x)
  BY <1>5 DEF Loadable
<1>7. h = l[1] + 1
  <2>1. h = l[1] + 1 \/ h = l[1] + 2
    BY <1>3, <1>4, <1>6 DEF Parses
  <2> QED BY <1>6, <2>1 DEF Parses
<1>8. x = row
  BY <1>6, <1>7 DEF Parses
<1> QED BY <1>1, <1>6, <1>8 DEF Loaded

\* A file that cannot be loaded holds a row that is cut short, in the making, or
\* has a line boundary: damage never comes from complete rows of several writers.
THEOREM DamageHasCause == Spec => []UnreadableHasCause
<1>1. LineInv /\ PlaceInv => UnreadableHasCause
  BY LinesAreRows DEF UnreadableHasCause
<1> QED BY <1>1, LineInvariant, PlaceInvariant, PTL

\* A load that succeeds returns all that was acknowledged, and in that order where
\* the appends are locked.
THEOREM LoadsComplete == Spec => []LoadMissesNothing
<1>1. ASSUME LineInv, PlaceInv, Loadable(file) PROVE LoadMissesNothing
  <2>1. ASSUME NEW k \in DOMAIN acked PROVE acked[k] \in Loaded(file)
    <3>1. 1 \in DOMAIN Text(acked[k]) /\ Text(acked[k])[1] = "head"
      <4>1. Len(Text(acked[k])) \in 3..4 /\ DOMAIN Text(acked[k]) = 1..Len(Text(acked[k]))
        BY TextOnce
      <4> QED BY <4>1, TextFacts
    <3>2. PICK h \in 1..synced : file[h] = <<acked[k], "head">>
      BY <1>1, <3>1 DEF LineInv, AckedDurable
    <3>3. h \in 1..Len(file)
      BY <1>1, LenProperties DEF LineInv, FileOK
    <3> QED BY <1>1, <3>2, <3>3, HeadLoaded
  <2>2. ASSUME NEW j \in DOMAIN acked, NEW k \in DOMAIN acked, locked, j < k
        PROVE  InOrder(file, acked[j], acked[k])
    BY <1>1, <2>2 DEF PlaceInv, AcksOrdered
  <2>3. DOMAIN file = 1..Len(file)
    BY <1>1, LenProperties DEF LineInv, FileOK
  <2> QED BY <2>1, <2>2, <2>3 DEF LoadMissesNothing, InOrder
<1>2. LineInv /\ PlaceInv => LoadMissesNothing
  BY <1>1 DEF LoadMissesNothing
<1> QED BY <1>2, LineInvariant, PlaceInvariant, PTL
-----------------------------------------------------------------------------
(* The atomic file. *)

\* Of a finite set of places the ranks are the numbers up to its size.
LEMMA RankFacts ==
  ASSUME NEW n \in Nat, NEW S \in SUBSET (1..n)
  PROVE  /\ IsFiniteSet(S) /\ Cardinality(S) \in Nat /\ S \in SUBSET Nat
         /\ \A i \in S : Rank(S, i) \in 1..Cardinality(S)
         /\ \A i, j \in S : i < j => Rank(S, i) < Rank(S, j)
<1>1. IsFiniteSet(1..n)
  BY FS_Interval
<1>2. IsFiniteSet(S) /\ S \in SUBSET Nat
  <2>1. \A i \in 1..n : i \in Nat
    OBVIOUS
  <2> QED BY <1>1, <2>1, FS_Subset, Zenon
<1>3. \A i : LET R == {j \in S : j <= i}
             IN  IsFiniteSet(R) /\ Cardinality(R) \in Nat /\ Cardinality(R) <= Cardinality(S)
  <2> SUFFICES ASSUME NEW i
               PROVE  LET R == {j \in S : j <= i}
                      IN  IsFiniteSet(R) /\ Cardinality(R) \in Nat /\ Cardinality(R) <= Cardinality(S)
    OBVIOUS
  <2> DEFINE R == {j \in S : j <= i}
  <2>1. R \in SUBSET S
    OBVIOUS
  <2> HIDE DEF R
  <2>2. IsFiniteSet(R) /\ Cardinality(R) <= Cardinality(S)
    BY <1>2, <2>1, FS_Subset
  <2>3. Cardinality(R) \in Nat
    BY <2>2, FS_CardinalityType
  <2> QED BY <2>2, <2>3 DEF R
<1>4. Cardinality(S) \in Nat
  BY <1>2, FS_CardinalityType
<1>5. ASSUME NEW i \in S PROVE Rank(S, i) \in 1..Cardinality(S)
  <2> DEFINE R == {j \in S : j <= i}
  <2>1. i \in R
    BY <1>2
  <2>2. IsFiniteSet(R) /\ Cardinality(R) \in Nat /\ Cardinality(R) <= Cardinality(S)
    BY <1>3
  <2> HIDE DEF R
  <2>3. Cardinality(R) # 0
    BY <2>1, <2>2, FS_EmptySet
  <2> QED BY <1>4, <2>2, <2>3 DEF R, Rank
<1>6. ASSUME NEW i \in S, NEW j \in S, i < j PROVE Rank(S, i) < Rank(S, j)
  <2> DEFINE Q == {k \in S : k <= i}
             R == {k \in S : k <= j}
  <2>1. \A k \in S : k \in Nat
    BY <1>2
  <2>2. \A k \in S : k <= i => k <= j
    BY <1>6, <2>1
  <2>3. j <= j /\ ~(j <= i)
    BY <1>6, <2>1
  <2>4. Q \in SUBSET R /\ j \in R /\ j \notin Q
    BY <2>2, <2>3
  <2>5. IsFiniteSet(R) /\ Cardinality(R) \in Nat /\ Cardinality(Q) \in Nat
    BY <1>3
  <2> HIDE DEF Q, R
  <2>6. Cardinality(Q) <= Cardinality(R) /\ Cardinality(Q) # Cardinality(R)
    BY <2>4, <2>5, FS_Subset
  <2> QED BY <2>5, <2>6 DEF Q, R, Rank
<1> QED BY <1>2, <1>4, <1>5, <1>6

\* A place with rank k is the k-th.
LEMMA NthUnique ==
  ASSUME NEW n \in Nat, NEW S \in SUBSET (1..n), NEW i \in S
  PROVE  Nth(S, Rank(S, i)) = i
<1>1. ASSUME NEW j \in S, Rank(S, j) = Rank(S, i) PROVE j = i
  <2>1. i \in Nat /\ j \in Nat /\ Rank(S, i) \in Nat /\ Rank(S, j) \in Nat
    <3>1. /\ Cardinality(S) \in Nat
          /\ Rank(S, i) \in 1..Cardinality(S) /\ Rank(S, j) \in 1..Cardinality(S)
      BY RankFacts
    <3> QED BY <3>1
  <2>2. (i < j => Rank(S, i) < Rank(S, j)) /\ (j < i => Rank(S, j) < Rank(S, i))
    BY RankFacts
  <2> QED BY <1>1, <2>1, <2>2
<1> QED BY <1>1 DEF Nth

\* There is a k-th place: the least one whose rank is k or more.
LEMMA NthIs ==
  ASSUME NEW n \in Nat, NEW S \in SUBSET (1..n), NEW k \in 1..Cardinality(S)
  PROVE  Nth(S, k) \in S /\ Rank(S, Nth(S, k)) = k
<1> DEFINE U == {i \in S : Rank(S, i) >= k}
<1>1. /\ IsFiniteSet(S) /\ Cardinality(S) \in Nat /\ S \in SUBSET Nat /\ k \in Nat /\ k >= 1
      /\ \A i \in S : Rank(S, i) \in Nat
  BY RankFacts
<1>2. U # {}
  <2>1. S # {}
    BY <1>1, FS_EmptySet
  <2>2. PICK g \in S : \A i \in S : i <= g
    <3>1. \A i \in S : i <= n
      OBVIOUS
    <3> QED BY <1>1, <2>1, <3>1, GreatestNatural
  <2>3. {j \in S : j <= g} = S
    BY <2>2
  <2>4. Rank(S, g) >= k
    BY <1>1, <2>3 DEF Rank
  <2> QED BY <2>4
<1>3. PICK m \in U : \A i \in U : m <= i
  BY <1>1, <1>2, LeastNatural
<1>4. m \in S /\ m \in Nat /\ Rank(S, m) \in Nat /\ Rank(S, m) >= k
  BY <1>1, <1>3
<1>5. ASSUME Rank(S, m) # k PROVE FALSE
  <2> DEFINE R == {j \in S : j <= m}
             Q == R \ {m}
  <2>1. m \in R /\ R \in SUBSET S /\ Q \in SUBSET S /\ Rank(S, m) = Cardinality(R)
    BY <1>4 DEF Rank
  <2>2. \A j : j \in Q <=> j \in S /\ j < m
    <3>1. \A j \in S : j < m <=> j <= m /\ j # m
      BY <1>1, <1>4
    <3> QED BY <3>1, Zenon
  <2> HIDE DEF R
  <2>3. IsFiniteSet(R)
    BY <1>1, <2>1, FS_Subset
  <2>4. IsFiniteSet(Q) /\ Cardinality(Q) = Rank(S, m) - 1
    BY <2>1, <2>3, FS_RemoveElement
  <2> HIDE DEF Q
  <2>5. Cardinality(Q) >= k
    BY <1>1, <1>4, <1>5, <2>4
  <2>6. Q # {}
    BY <1>1, <2>4, <2>5, FS_EmptySet
  <2>7. Q \in SUBSET Nat /\ \A j \in Q : j <= m
    BY <1>1, <1>4, <2>1, <2>2
  <2>8. PICK g \in Q : \A j \in Q : j <= g
    BY <1>4, <2>6, <2>7, GreatestNatural
  <2>9. g \in S /\ g \in Nat /\ g < m
    BY <2>2, <2>7, <2>8
  <2>10. {j \in S : j <= g} = Q
    <3>1. ASSUME NEW j \in S, j <= g PROVE j \in Q
      <4>1. j \in Nat
        BY <1>1
      <4> QED BY <1>4, <2>2, <2>9, <3>1, <4>1
    <3> QED BY <2>1, <2>8, <3>1
  <2>11. g \in U
    BY <2>5, <2>9, <2>10 DEF Rank
  <2> QED BY <1>3, <1>4, <2>9, <2>11
<1>6. Rank(S, m) = k
  BY <1>5
<1> QED BY <1>4, <1>6, NthUnique

\* What is added above leaves the first places where they are.
LEMMA NthKept ==
  ASSUME NEW n \in Nat, NEW T \in SUBSET (1..n), NEW b \in Nat, NEW S \in SUBSET T,
         \A i \in T : i \in S <=> i <= b
  PROVE  /\ Cardinality(S) \in Nat /\ Cardinality(S) <= Cardinality(T)
         /\ \A k \in 1..Cardinality(S) : Nth(T, k) = Nth(S, k)
<1>1. S \in SUBSET (1..n)
  OBVIOUS
<1>2. IsFiniteSet(T) /\ Cardinality(S) \in Nat
  BY <1>1, RankFacts
<1>3. Cardinality(S) <= Cardinality(T)
  BY <1>2, FS_Subset
<1>4. ASSUME NEW k \in 1..Cardinality(S) PROVE Nth(T, k) = Nth(S, k)
  <2> DEFINE i == Nth(S, k)
  <2>1. i \in S /\ Rank(S, i) = k
    BY <1>1, NthIs
  <2> HIDE DEF i
  <2>2. {j \in S : j <= i} = {j \in T : j <= i}
    <3>1. \A j \in T : j \in Nat
      OBVIOUS
    <3>2. i \in T /\ i <= b
      BY <2>1
    <3>3. ASSUME NEW j \in T, j <= i PROVE j \in S
      BY <3>1, <3>2, <3>3
    <3> QED BY <3>3
  <2>3. Rank(T, i) = k
    BY <2>1, <2>2 DEF Rank
  <2>4. i \in T
    BY <2>1
  <2> QED BY <2>3, <2>4, NthUnique DEF i
<1> QED BY <1>2, <1>3, <1>4
\* The places of the newlines lie in the file, and the whole rows are its rows.
LEMMA WholeFacts ==
  ASSUME NEW f \in Seq(Pieces)
  PROVE  /\ Len(f) \in Nat /\ Newlines(f) \in SUBSET (1..Len(f))
         /\ WholeRows(f) \in Seq(Row)
         /\ Len(WholeRows(f)) = Cardinality(Newlines(f))
         /\ \A k \in 1..Len(WholeRows(f)) : WholeRows(f)[k] = f[Nth(Newlines(f), k)][1]
<1> DEFINE ends == Newlines(f)
           size == Cardinality(ends)
<1>1. Len(f) \in Nat /\ DOMAIN f = 1..Len(f) /\ \A i \in 1..Len(f) : f[i] \in Pieces
  BY LenProperties, ElementOfSeq
<1>2. ends \in SUBSET (1..Len(f))
  BY <1>1 DEF Newlines
<1>3. size \in Nat
  BY <1>1, <1>2, RankFacts
<1>4. \A k \in 1..size : f[Nth(ends, k)][1] \in Row
  <2> SUFFICES ASSUME NEW k \in 1..size PROVE f[Nth(ends, k)][1] \in Row
    OBVIOUS
  <2>1. Nth(ends, k) \in 1..Len(f)
    BY <1>1, <1>2, NthIs
  <2> QED BY <1>1, <2>1 DEF Pieces
<1>5. WholeRows(f) = [k \in 1..size |-> f[Nth(ends, k)][1]]
  BY DEF WholeRows
<1> HIDE DEF ends, size
<1>6. /\ WholeRows(f) \in [1..size -> Row] /\ DOMAIN WholeRows(f) = 1..size
      /\ \A k \in 1..size : WholeRows(f)[k] = f[Nth(ends, k)][1]
  BY <1>4, <1>5
<1>7. WholeRows(f) \in Seq(Row) /\ Len(WholeRows(f)) = size
  BY <1>3, <1>6, SeqDef, LenProperties
<1> QED BY <1>1, <1>2, <1>6, <1>7 DEF ends, size

\* A row is whole where its newline is in the file.
LEMMA WholeHeld ==
  ASSUME NEW f \in Seq(Pieces), NEW row
  PROVE  Atomic!Holds(WholeRows(f), row) <=> \E i \in 1..Len(f) : f[i] = <<row, "newline">>
<1> DEFINE ends == Newlines(f)
           whole == WholeRows(f)
<1>1. /\ Len(f) \in Nat /\ ends \in SUBSET (1..Len(f)) /\ Len(whole) = Cardinality(ends)
      /\ whole \in Seq(Row)
      /\ \A k \in 1..Len(whole) : whole[k] = f[Nth(ends, k)][1]
      /\ DOMAIN f = 1..Len(f) /\ \A i \in 1..Len(f) : f[i] \in Row \X Parts
  BY WholeFacts, LenProperties, ElementOfSeq DEF Pieces
<1>2. DOMAIN whole = 1..Len(whole)
  BY <1>1, LenProperties
<1>3. \A i : i \in ends <=> i \in 1..Len(f) /\ f[i][2] = "newline"
  BY <1>1 DEF Newlines
<1> HIDE DEF ends, whole
<1>4. ASSUME NEW k \in DOMAIN whole, whole[k] = row
      PROVE  \E i \in 1..Len(f) : f[i] = <<row, "newline">>
  <2>1. k \in 1..Cardinality(ends)
    BY <1>1, <1>2
  <2>2. Nth(ends, k) \in ends
    BY <1>1, <2>1, NthIs
  <2>3. f[Nth(ends, k)][1] = row
    BY <1>1, <1>2, <1>4
  <2> QED BY <1>1, <1>3, <2>2, <2>3
<1>5. ASSUME NEW i \in 1..Len(f), f[i] = <<row, "newline">>
      PROVE  \E k \in DOMAIN whole : whole[k] = row
  <2>1. i \in ends
    BY <1>3, <1>5
  <2>2. Rank(ends, i) \in 1..Cardinality(ends) /\ Nth(ends, Rank(ends, i)) = i
    BY <1>1, <2>1, RankFacts, NthUnique
  <2>3. whole[Rank(ends, i)] = row
    BY <1>1, <1>5, <2>2
  <2> QED BY <1>1, <1>2, <2>2, <2>3
<1> QED BY <1>4, <1>5 DEF Atomic!Holds, whole

\* The whole rows of the beginning of a file begin the whole rows of the file.
LEMMA WholeBegin ==
  ASSUME NEW f \in Seq(Pieces), NEW g \in Seq(Pieces), Len(f) <= Len(g),
         \A i \in 1..Len(f) : g[i] = f[i]
  PROVE  /\ Len(WholeRows(f)) <= Len(WholeRows(g))
         /\ \A k \in 1..Len(WholeRows(f)) : WholeRows(g)[k] = WholeRows(f)[k]
<1> DEFINE S == Newlines(f)
           T == Newlines(g)
<1>1. /\ Len(f) \in Nat /\ S \in SUBSET (1..Len(f))
      /\ Len(g) \in Nat /\ T \in SUBSET (1..Len(g))
      /\ Len(WholeRows(f)) = Cardinality(S) /\ Len(WholeRows(g)) = Cardinality(T)
      /\ DOMAIN f = 1..Len(f) /\ DOMAIN g = 1..Len(g)
  BY WholeFacts, LenProperties
<1>2. \A i \in 1..Len(f) : i \in 1..Len(g) /\ g[i] = f[i]
  BY <1>1
<1>3. S \in SUBSET T /\ \A i \in T : i \in S <=> i <= Len(f)
  <2>1. \A i \in 1..Len(g) : i \in 1..Len(f) <=> i <= Len(f)
    BY <1>1
  <2> QED BY <1>1, <1>2, <2>1 DEF Newlines
<1> HIDE DEF S, T
<1>4. /\ Cardinality(S) \in Nat /\ Cardinality(S) <= Cardinality(T)
      /\ \A k \in 1..Cardinality(S) : Nth(T, k) = Nth(S, k)
  BY <1>1, <1>3, NthKept
<1>5. Cardinality(T) \in Nat
  BY <1>1, RankFacts
<1>6. ASSUME NEW k \in 1..Cardinality(S) PROVE WholeRows(g)[k] = WholeRows(f)[k]
  <2>1. k \in 1..Cardinality(T) /\ Nth(T, k) = Nth(S, k) /\ Nth(S, k) \in 1..Len(f)
    <3>1. Nth(S, k) \in S
      BY <1>1, NthIs
    <3> QED BY <1>1, <1>4, <1>5, <3>1
  <2>2. WholeRows(f)[k] = f[Nth(S, k)][1] /\ WholeRows(g)[k] = g[Nth(T, k)][1]
    BY <1>1, <2>1, WholeFacts DEF S, T
  <2> QED BY <1>2, <2>1, <2>2
<1> QED BY <1>1, <1>4, <1>6

\* A row ends with its newline, and nowhere else.
LEMMA NewlineLast ==
  ASSUME NEW row
  PROVE  LET text == Text(row)
         IN  /\ Len(text) \in Nat /\ Len(text) >= 1 /\ text[Len(text)] = "newline"
             /\ \A k \in 1..Len(text) : text[k] = "newline" => k = Len(text)
<1>1. Len(Text(row)) \in 3..4 /\ DOMAIN Text(row) = 1..Len(Text(row))
  BY TextOnce
<1>2. Text(row)[Len(Text(row))] = "newline"
  <2>1. CASE row \in Splitting
    BY <2>1, TextIs
  <2>2. CASE row \notin Splitting
    BY <2>2, TextIs
  <2> QED BY <2>1, <2>2
<1>3. Len(Text(row)) \in 1..Len(Text(row)) /\ Len(Text(row)) \in Nat /\ Len(Text(row)) >= 1
  BY <1>1
<1>4. \A k \in 1..Len(Text(row)) : Text(row)[k] = Text(row)[Len(Text(row))] => k = Len(Text(row))
  BY <1>1, <1>3, TextOnce, Zenon
<1> QED BY <1>2, <1>3, <1>4
\* A write that completes a row appends it; any other leaves the whole rows alone.
LEMMA WriteAppends ==
  ASSUME LineInv, PlaceInv, NEW p \in Procs, Write(p) \/ WriteShort(p)
  PROVE  Atomic!AppendRow \/ UNCHANGED Atomic!fileVars
<1> DEFINE L == Len(file)
           text == Text(RowOf(p))
           S == Newlines(file)
           T == Newlines(file')
<1>0. Placing(p)
  BY WritesPlace
<1>1. PICK n \in 1..Len(todo[p]), m \in 0..Len(text) :
        /\ \A i \in 1..L : file'[i] = file[i]
        /\ Begun(p, m)
        /\ L \in Nat /\ n \in Nat /\ n >= 1 /\ m \in Nat /\ Len(text) \in Nat
        /\ m + n <= Len(text)
        /\ Len(file') = L + n /\ file' \in Seq(Pieces)
        /\ \A j \in 1..n : file'[L + j] = <<RowOf(p), text[m + j]>>
  BY <1>0, WriteParts
<1>2. file \in Seq(Pieces) /\ UNCHANGED acked /\ RowOf(p) \in Row
  BY <1>0, RowOfType DEF Placing, LineInv, FileOK, Appenders, Appending
<1>3. /\ Len(text) \in Nat /\ Len(text) >= 1 /\ text[Len(text)] = "newline"
      /\ \A k \in 1..Len(text) : text[k] = "newline" => k = Len(text)
  BY NewlineLast
<1>4. /\ S \in SUBSET (1..L) /\ T \in SUBSET (1..(L + n))
      /\ WholeRows(file) \in Seq(Row) /\ Len(WholeRows(file)) = Cardinality(S)
      /\ WholeRows(file') \in Seq(Row) /\ Len(WholeRows(file')) = Cardinality(T)
      /\ Cardinality(S) \in Nat
  BY <1>1, <1>2, WholeFacts, RankFacts
<1>5. \A k \in 1..Cardinality(S) : WholeRows(file')[k] = WholeRows(file)[k]
  <2>1. Len(file) <= Len(file')
    BY <1>1
  <2> QED BY <1>1, <1>2, <1>4, <2>1, WholeBegin
<1>6. \A i \in 1..L : i \in T <=> i \in S
  <2>1. DOMAIN file = 1..L /\ DOMAIN file' = 1..(L + n) /\ \A i \in 1..L : i \in 1..(L + n)
    BY <1>1, <1>2, LenProperties
  <2> QED BY <1>1, <2>1 DEF Newlines
<1>7. \A j \in 1..n : L + j \in T <=> m + j = Len(text)
  <2> SUFFICES ASSUME NEW j \in 1..n PROVE L + j \in T <=> m + j = Len(text)
    OBVIOUS
  <2>1. DOMAIN file' = 1..(L + n) /\ L + j \in 1..(L + n) /\ m + j \in 1..Len(text)
    BY <1>1, <1>2, LenProperties
  <2>2. file'[L + j][2] = text[m + j]
    BY <1>1
  <2> QED BY <1>3, <2>1, <2>2 DEF Newlines
<1>8. \A i \in 1..(L + n) : i \in 1..L \/ \E j \in 1..n : i = L + j
  <2> SUFFICES ASSUME NEW i \in 1..(L + n), i \notin 1..L PROVE \E j \in 1..n : i = L + j
    OBVIOUS
  <2>1. i - L \in 1..n /\ i = L + (i - L)
    BY <1>1
  <2> QED BY <2>1
<1> HIDE DEF L, text, S, T
<1>9. CASE m + n # Len(text)
  <2>1. \A j \in 1..n : m + j # Len(text)
    BY <1>1, <1>9
  <2>2. T = S
    BY <1>4, <1>6, <1>7, <1>8, <2>1
  <2>3. WholeRows(file') = WholeRows(file)
    <3>1. Len(WholeRows(file')) = Len(WholeRows(file))
      BY <1>4, <2>2
    <3> QED BY <1>4, <1>5, <3>1, SeqEqual
  <2> QED BY <1>2, <2>3 DEF Atomic!fileVars
<1>10. CASE m + n = Len(text)
  <2>1. n \in 1..n /\ L + n \in 1..(L + n) /\ L + n \notin 1..L
    BY <1>1
  <2>2. \A j \in 1..n : m + j = Len(text) => j = n
    BY <1>1, <1>10
  <2>3. T = S \cup {L + n} /\ L + n \notin S
    <3>1. L + n \in T
      BY <1>7, <1>10, <2>1
    <3>2. ASSUME NEW i \in T PROVE i \in S \/ i = L + n
      <4>1. i \in 1..L \/ \E j \in 1..n : i = L + j
        BY <1>4, <1>8
      <4> QED BY <1>6, <1>7, <2>2, <4>1
    <3>3. \A i \in S : i \in T
      BY <1>4, <1>6
    <3> QED BY <1>4, <2>1, <3>1, <3>2, <3>3
  <2>4. IsFiniteSet(S)
    BY <1>1, <1>4, RankFacts
  <2>5. Cardinality(T) = Cardinality(S) + 1
    BY <2>3, <2>4, FS_AddElement
  <2>6. Nth(T, Cardinality(T)) = L + n
    <3>1. L + n \in T /\ \A i \in T : i <= L + n
      BY <1>1, <1>4, <2>3
    <3>2. {i \in T : i <= L + n} = T
      BY <3>1
    <3>3. Rank(T, L + n) = Cardinality(T)
      BY <3>2 DEF Rank
    <3>4. L + n \in Nat
      BY <1>1
    <3> QED BY <1>4, <3>1, <3>3, <3>4, NthUnique
  <2>7. WholeRows(file')[Cardinality(S) + 1] = RowOf(p)
    <3>1. Cardinality(T) \in 1..Cardinality(T)
      BY <1>4, <2>5
    <3>2. WholeRows(file')[Cardinality(T)] = file'[Nth(T, Cardinality(T))][1]
      BY <1>1, <1>4, <3>1, WholeFacts DEF T
    <3>3. file'[L + n][1] = RowOf(p)
      BY <1>1, <2>1 DEF L
    <3> QED BY <2>5, <2>6, <3>2, <3>3
  <2>8. WholeRows(file') = Append(WholeRows(file), RowOf(p))
    <3> DEFINE w == WholeRows(file)
    <3>1. /\ Append(w, RowOf(p)) \in Seq(Row)
          /\ Len(Append(w, RowOf(p))) = Cardinality(S) + 1
          /\ \A k \in 1..Cardinality(S) : Append(w, RowOf(p))[k] = w[k]
          /\ Append(w, RowOf(p))[Cardinality(S) + 1] = RowOf(p)
      BY <1>2, <1>4, AppendProperties
    <3>2. \A k \in 1..(Cardinality(S) + 1) : k \in 1..Cardinality(S) \/ k = Cardinality(S) + 1
      BY <1>4
    <3>3. \A k \in 1..(Cardinality(S) + 1) : WholeRows(file')[k] = Append(w, RowOf(p))[k]
      BY <1>5, <2>7, <3>1, <3>2
    <3> HIDE DEF w
    <3>4. Len(WholeRows(file')) = Len(Append(w, RowOf(p)))
      BY <1>4, <2>5, <3>1
    <3> QED BY <1>4, <2>5, <3>1, <3>3, <3>4, SeqEqual DEF w
  <2>9. ~Atomic!Holds(WholeRows(file), RowOf(p))
    <3>1. ASSUME NEW i \in 1..Len(file), file[i] = <<RowOf(p), "newline">> PROVE FALSE
      <4>1. PICK k \in 1..m : file[i][2] = text[k]
        <5>1. \A x \in 1..Len(file) : file[x][1] = RowOf(p) => \E k \in 1..m : file[x][2] = text[k]
          BY <1>1 DEF Begun, text
        <5> QED BY <3>1, <5>1
      <4>2. k \in 1..Len(text) /\ k # Len(text)
        BY <1>1, <1>10
      <4> QED BY <1>3, <3>1, <4>1, <4>2
    <3> QED BY <1>2, <3>1, WholeHeld
  <2> QED BY <1>2, <2>8, <2>9 DEF Atomic!AppendRow
<1> QED BY <1>9, <1>10

\* The append returns, with its row whole in the file and not acknowledged before.
LEMMA UnlockAcknowledges ==
  ASSUME LineInv, PlaceInv, NEW p \in Procs, Unlock(p)
  PROVE  Atomic!Acknowledge
<1>1. /\ at[p] = "unlock" /\ acked' = Append(acked, RowOf(p)) /\ UNCHANGED file
      /\ RowOf(p) \in Row /\ done[p] \in Nat /\ file \in Seq(Pieces)
  BY RowOfType DEF Unlock, Step, LineInv, CountOK, FileOK, Appenders, Appending
<1>2. Atomic!Holds(WholeRows(file), RowOf(p))
  <2> DEFINE text == Text(RowOf(p))
  <2>1. Len(text) \in DOMAIN text /\ text[Len(text)] = "newline"
    <3>1. Len(text) \in Nat /\ Len(text) >= 1 /\ DOMAIN text = 1..Len(text)
      BY NewlineLast, TextOnce
    <3> QED BY <3>1, NewlineLast
  <2>2. PICK i \in 1..synced : file[i] = <<RowOf(p), "newline">>
    BY <1>1, <2>1 DEF LineInv, Synced, OnDisk
  <2>3. i \in 1..Len(file)
    BY <2>2, LenProperties DEF LineInv, FileOK
  <2> QED BY <1>1, <2>2, <2>3, WholeHeld
<1>3. ~Atomic!Holds(acked, RowOf(p))
  <2>1. ASSUME NEW k \in DOMAIN acked, acked[k] = RowOf(p) PROVE FALSE
    <3>1. acked[k][2] <= done[acked[k][1]]
      BY DEF PlaceInv, AcksPast
    <3>2. acked[k][1] = p /\ acked[k][2] = done[p] + 1
      BY <2>1 DEF RowOf
    <3> QED BY <1>1, <3>1, <3>2
  <2> QED BY <2>1 DEF Atomic!Holds
<1> QED BY <1>1, <1>2, <1>3 DEF Atomic!Acknowledge

\* The machine stops: of the whole rows the first remain, the acknowledged among them.
LEMMA PowerCutLoses == ASSUME LineInv, LineInv', PowerCut PROVE Atomic!Lose
<1> DEFINE w == WholeRows(file)
           v == WholeRows(file')
<1>1. PICK n \in synced..Len(file) : file' = SubSeq(file, 1, n)
  BY DEF PowerCut
<1>2. Len(file) \in Nat /\ n \in Nat /\ n <= Len(file) /\ file \in Seq(Pieces)
  BY <1>1, LenProperties DEF LineInv, FileOK
<1>3. file' \in Seq(Pieces) /\ Len(file') <= Len(file) /\ \A i \in 1..Len(file') : file'[i] = file[i]
  <2>1. \A i \in 1..n : i \in 1..Len(file) /\ file[i] \in Pieces
    BY <1>2, ElementOfSeq
  <2>2. file' \in Seq(Pieces) /\ Len(file') = n /\ \A i \in 1..n : file'[i] = file[i]
    BY <1>1, <1>2, <2>1, SubSeqProperties
  <2> QED BY <1>2, <2>2
<1>4. w \in Seq(Row) /\ v \in Seq(Row) /\ Len(w) \in Nat /\ Len(v) \in Nat
  BY <1>2, <1>3, WholeFacts, LenProperties
<1>5. Len(v) <= Len(w) /\ \A k \in 1..Len(v) : w[k] = v[k]
  <2>1. \A i \in 1..Len(file') : file[i] = file'[i]
    BY <1>3
  <2> QED BY <1>2, <1>3, <2>1, WholeBegin
<1>6. \A k \in DOMAIN acked : Atomic!Holds(v, acked[k])
  <2> SUFFICES ASSUME NEW k \in DOMAIN acked PROVE Atomic!Holds(v, acked[k])
    OBVIOUS
  <2> DEFINE text == Text(acked[k])
  <2>1. Len(text) \in DOMAIN text /\ text[Len(text)] = "newline"
    <3>1. Len(text) \in Nat /\ Len(text) >= 1 /\ DOMAIN text = 1..Len(text)
      BY NewlineLast, TextOnce
    <3> QED BY <3>1, NewlineLast
  <2>2. OnDisk(acked[k], file', synced')
    BY AckedOnDisk DEF LineInv, PowerCut
  <2>3. PICK i \in 1..synced' : file'[i] = <<acked[k], "newline">>
    BY <2>1, <2>2 DEF OnDisk
  <2>4. i \in 1..Len(file')
    BY <2>3, LenProperties DEF LineInv, FileOK
  <2> QED BY <1>3, <2>3, <2>4, WholeHeld
<1> HIDE DEF w, v
<1>7. v = SubSeq(w, 1, Len(v)) /\ Len(v) \in 0..Len(w)
  <2>1. \A i \in 1..Len(v) : i \in 1..Len(w) /\ w[i] \in Row
    BY <1>4, <1>5, ElementOfSeq
  <2>2. /\ SubSeq(w, 1, Len(v)) \in Seq(Row) /\ Len(SubSeq(w, 1, Len(v))) = Len(v)
        /\ \A i \in 1..Len(v) : SubSeq(w, 1, Len(v))[i] = w[i]
    BY <1>4, <1>5, <2>1, SubSeqProperties
  <2>3. \A i \in 1..Len(v) : v[i] = SubSeq(w, 1, Len(v))[i]
    BY <1>5, <2>2
  <2> QED BY <1>4, <1>5, <2>2, <2>3, SeqEqual
<1>8. UNCHANGED acked
  BY DEF PowerCut
<1> QED BY <1>6, <1>7, <1>8 DEF Atomic!Lose, w, v

LEMMA InitAtomic == Init => Atomic!Init
<1> SUFFICES ASSUME Init PROVE WholeRows(file) = <<>> /\ acked = <<>>
  BY DEF Atomic!Init
<1>1. file = <<>> /\ acked = <<>> /\ file \in Seq(Pieces) /\ Len(file) = 0
  BY DEF Init
<1>2. Newlines(file) = {}
  <2>1. Newlines(file) \in SUBSET (1..Len(file))
    BY <1>1, WholeFacts
  <2>2. 1..Len(file) = {}
    BY <1>1
  <2> QED BY <2>1, <2>2
<1>3. WholeRows(file) \in Seq(Row) /\ Len(WholeRows(file)) = 0
  BY <1>1, <1>2, WholeFacts, FS_EmptySet
<1> QED BY <1>1, <1>3, EmptySeq

LEMMA NextAtomic ==
  ASSUME LineInv, LineInv', PlaceInv, [Next]_lineVars
  PROVE  [Atomic!Next]_(Atomic!fileVars)
<1>1. ASSUME NEW p \in Procs, Start(p) \/ Load(p) \/ Take(p) \/ Sync(p) \/ Finish(p) \/ Fail(p) \/ Die(p)
      PROVE  UNCHANGED <<file, acked>>
  BY <1>1 DEF Start, Load, Take, Sync, Finish, Fail, Die
<1>2. UNCHANGED <<file, acked>> => UNCHANGED Atomic!fileVars
  BY DEF Atomic!fileVars
<1>3. CASE UNCHANGED lineVars
  BY <1>2, <1>3 DEF lineVars
<1> QED BY <1>1, <1>2, <1>3, WriteAppends, UnlockAcknowledges, PowerCutLoses
    DEF Next, Advance, AllEnded, lineVars, Atomic!Next

\* Whatever is killed, fails or stops, the file is one to which whole rows are
\* appended and from which no acknowledged row is lost (append_jsonl): what the
\* models of the stores assume of it.
THEOREM FileIsAtomic == Spec => AtomicAppends
<1>1. Init => Atomic!Init
  BY InitAtomic
<1>2. LineInv /\ LineInv' /\ PlaceInv /\ [Next]_lineVars => [Atomic!Next]_(Atomic!fileVars)
  BY NextAtomic
<1> QED BY <1>1, <1>2, LineInvariant, PlaceInvariant, PTL DEF Spec, AtomicAppends, Atomic!Spec
=============================================================================
