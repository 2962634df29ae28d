----------------------------- MODULE IndexProofs -----------------------------
(***************************************************************************)
(* Theorems about the session index, for any number of invocations in any  *)
(* directories, overlapping, killed and with clocks that stand still. The  *)
(* invariant takes the rows of the index and the runs that are over for    *)
(* one another, and says that a run which began after another was over has *)
(* its row behind that one's, with no earlier time.                        *)
(***************************************************************************)
EXTENDS SessionIndex, SequenceTheorems, WellFoundedInduction, TLAPS

Over == {o \in Runs : at[o] = "over"}

RowOf(o) == [sid |-> session[o], cwd |-> line[o].cwd, ts |-> stamp[o]]

Lined == \A r \in Runs : at[r] # "idle" => line[r] \in CommandLines

\* Times pass in the order in which runs are over and begin.
StampInv ==
  /\ \A r \in Runs : stamp[r] <= clock
  /\ \A b \in Runs : \A a \in before[b] :
       at[a] = "over" /\ (at[b] \in {"stamped", "over"} => stamp[a] <= stamp[b])

\* Every run that is over has its row, every row its run.
RowsTell ==
  \E f \in [Over -> DOMAIN rows] :
    /\ \A o \in Over : rows[f[o]] = RowOf(o)
    /\ \A i \in DOMAIN rows : \E o \in Over : f[o] = i
    /\ \A a, b \in Over : a \in before[b] => f[a] < f[b]

IndexInv == TypeOK /\ Lined /\ StampInv /\ RowsTell

Rows == [sid : Sessions, cwd : Cwds, ts : 0..MaxTime]
-----------------------------------------------------------------------------
(* The latest row. *)

LEMMA RowFacts ==
  ASSUME TypeOK
  PROVE  /\ rows \in Seq(Rows) /\ Len(rows) \in Nat /\ DOMAIN rows = 1..Len(rows)
         /\ \A i \in DOMAIN rows : rows[i].sid \in Sessions /\ rows[i].ts \in Nat
<1>1. rows \in Seq(Rows)
  BY DEF TypeOK, Rows
<1>2. Len(rows) \in Nat /\ DOMAIN rows = 1..Len(rows)
  BY <1>1, LenProperties
<1>3. \A i \in DOMAIN rows : rows[i] \in Rows
  BY <1>1, <1>2, ElementOfSeq
<1>4. \A x \in Rows : x.sid \in Sessions /\ x.ts \in Nat
  BY TimeAssumption DEF Rows
<1> QED BY <1>1, <1>2, <1>3, <1>4

\* A set of natural numbers that is not empty has a least element: they are
\* well ordered. What holds of 0 and of each turn of a loop after the one before
\* then holds of all, because there is no least turn of which it does not.
Below == {ss \in Nat \X Nat : ss[1] < ss[2]}

LEMMA LeastNatural ==
  ASSUME NEW S, S \subseteq Nat, S # {}
  PROVE  \E m \in S : \A y \in S : m <= y
<1>1. IsWellFoundedOn(Below, Nat)
  BY NatLessThanWellFounded, Zenon DEF OpToRel, Below
<1>2. PICK m \in S : \A y \in S : <<y, m>> \notin Below
  BY <1>1, WFMin
<1>3. \A y \in S : ~(y < m)
  BY <1>2 DEF Below
<1> QED BY <1>3

\* The loop over the first n rows.
Looped(cwd, n, g) ==
  g = [k \in 0..n |-> IF k = 0 THEN NoRow ELSE Later(cwd, g[k - 1], rows[k])]

LEMMA LoopExists ==
  ASSUME NEW cwd, NEW n \in Nat
  PROVE  \E g : Looped(cwd, n, g)
<1> DEFINE Bad == {m \in Nat : ~\E g : Looped(cwd, m, g)}
<1>1. CASE Bad = {}
  BY <1>1
<1>2. CASE Bad # {}
  <2>1. PICK m \in Bad : \A y \in Bad : m <= y
    BY <1>2, LeastNatural
  <2>2. m # 0
    <3>1. Looped(cwd, 0, [k \in 0..0 |-> NoRow])
      BY DEF Looped
    <3> QED BY <2>1, <3>1
  <2>3. m - 1 \in Nat /\ m \in Nat /\ m - 1 \notin Bad
    BY <2>1, <2>2
  <2>4. PICK g : Looped(cwd, m - 1, g)
    BY <2>3
  <2> DEFINE h == [k \in 0..m |-> IF k = m THEN Later(cwd, g[m - 1], rows[m]) ELSE g[k]]
  <2>5. \A k \in 0..m : h[k] = IF k = 0 THEN NoRow ELSE Later(cwd, h[k - 1], rows[k])
    <3> SUFFICES ASSUME NEW k \in 0..m
                 PROVE  h[k] = IF k = 0 THEN NoRow ELSE Later(cwd, h[k - 1], rows[k])
      OBVIOUS
    <3>1. CASE k = 0
      <4>1. k \in 0..(m - 1) /\ k # m
        BY <2>2, <2>3, <3>1
      <4>2. g[k] = NoRow
        BY <2>4, <3>1, <4>1 DEF Looped
      <4> QED BY <3>1, <4>1, <4>2
    <3>2. CASE k # 0 /\ k # m
      <4>1. k \in 0..(m - 1) /\ k - 1 \in 0..m /\ k - 1 # m
        BY <2>3, <3>2
      <4>2. g[k] = Later(cwd, g[k - 1], rows[k])
        BY <2>4, <3>2, <4>1 DEF Looped
      <4>3. h[k] = g[k] /\ h[k - 1] = g[k - 1]
        BY <3>2, <4>1
      <4> QED BY <3>2, <4>2, <4>3
    <3>3. CASE k = m
      <4>1. m - 1 \in 0..m /\ m - 1 # m
        BY <2>3
      <4>2. h[k] = Later(cwd, g[m - 1], rows[m]) /\ h[m - 1] = g[m - 1]
        BY <3>3, <4>1
      <4> QED BY <2>2, <3>3, <4>2
    <3> QED BY <3>1, <3>2, <3>3
  <2>6. h = [k \in 0..m |-> IF k = 0 THEN NoRow ELSE Later(cwd, h[k - 1], rows[k])]
    <3>1. h = [k \in 0..m |-> h[k]]
      OBVIOUS
    <3> HIDE DEF h
    <3> QED BY <2>5, <3>1
  <2> HIDE DEF h
  <2>7. Looped(cwd, m, h)
    BY <2>6 DEF Looped
  <2> QED BY <2>1, <2>7
<1> QED BY <1>1, <1>2

\* Every turn of the loop is what the definition of Best says.
LEMMA BestTurns ==
  ASSUME TypeOK, NEW cwd
  PROVE  /\ Best(cwd)[0] = NoRow
         /\ \A k \in 1..Len(rows) : Best(cwd)[k] = Later(cwd, Best(cwd)[k - 1], rows[k])
<1>1. Best(cwd) = CHOOSE g : Looped(cwd, Len(rows), g)
  BY DEF Best, Looped
<1>2. Looped(cwd, Len(rows), Best(cwd))
  BY <1>1, RowFacts, LoopExists
<1>3. Len(rows) \in Nat
  BY RowFacts
<1> QED BY <1>2, <1>3 DEF Looped

\* Of the first n rows, row i is the last of the directory that has the greatest
\* time.
LastOf(cwd, n, i) ==
  /\ i \in 1..n /\ rows[i].cwd = cwd
  /\ \A j \in 1..n : rows[j].cwd = cwd =>
       rows[j].ts <= rows[i].ts /\ (i < j => rows[j].ts < rows[i].ts)

NoneOf(cwd, n) == \A j \in 1..n : rows[j].cwd # cwd

LEMMA LoopFinds ==
  ASSUME TypeOK, NEW cwd, NEW n \in 0..Len(rows)
  PROVE  \/ NoneOf(cwd, n) /\ Best(cwd)[n] = NoRow
         \/ \E i \in 1..n : LastOf(cwd, n, i) /\ Best(cwd)[n] = rows[i]
<1> DEFINE Good(m) == \/ NoneOf(cwd, m) /\ Best(cwd)[m] = NoRow
                      \/ \E i \in 1..m : LastOf(cwd, m, i) /\ Best(cwd)[m] = rows[i]
           Bad == {m \in 0..Len(rows) : ~Good(m)}
<1>0. Len(rows) \in Nat
  BY RowFacts
<1>1. CASE Bad = {}
  BY <1>1
<1>2. CASE Bad # {}
  <2>0. Bad \subseteq Nat
    BY <1>0
  <2>1. PICK m \in Bad : \A y \in Bad : m <= y
    BY <1>2, <2>0, LeastNatural
  <2>2. m # 0
    BY <2>1, BestTurns DEF NoneOf
  <2>3. /\ m \in 1..Len(rows) /\ m - 1 \in 0..Len(rows) /\ m \in Nat
        /\ \A j \in 1..m : j \in 1..(m - 1) \/ j = m
        /\ \A j \in 1..(m - 1) : j \in 1..m /\ j < m /\ ~(m < j) /\ rows[j].ts \in Nat
        /\ m \in 1..m /\ ~(m < m) /\ rows[m].ts \in Nat /\ rows[m].sid # 0
    <3>1. m \in Nat /\ m \in 0..Len(rows)
      BY <1>0, <2>0, <2>1
    <3>2. m \in 1..Len(rows) /\ m - 1 \in 0..Len(rows) /\ m \in 1..m /\ ~(m < m)
      BY <1>0, <2>2, <3>1
    <3>3. \A j \in 1..Len(rows) : rows[j].ts \in Nat /\ rows[j].sid # 0
      BY RowFacts, SessionNumbers
    <3>4. \A j \in 1..m : j \in 1..Len(rows) /\ (j \in 1..(m - 1) \/ j = m)
      BY <1>0, <3>1, <3>2
    <3>5. \A j \in 1..(m - 1) : j \in 1..m /\ j < m /\ ~(m < j)
      BY <3>1
    <3> QED BY <3>1, <3>2, <3>3, <3>4, <3>5
  <2>4. Good(m - 1)
    BY <2>1, <2>3
  <2>5. Best(cwd)[m] = Later(cwd, Best(cwd)[m - 1], rows[m])
    BY <2>3, BestTurns
  <2>6. CASE rows[m].cwd # cwd
    <3>1. Best(cwd)[m] = Best(cwd)[m - 1]
      BY <2>5, <2>6 DEF Later
    <3>2. CASE NoneOf(cwd, m - 1) /\ Best(cwd)[m - 1] = NoRow
      BY <2>1, <2>3, <2>6, <3>1, <3>2 DEF NoneOf
    <3>3. ASSUME NEW i \in 1..(m - 1), LastOf(cwd, m - 1, i), Best(cwd)[m - 1] = rows[i]
          PROVE  Good(m)
      <4>1. LastOf(cwd, m, i)
        BY <2>3, <2>6, <3>3 DEF LastOf
      <4> QED BY <2>3, <3>1, <3>3, <4>1
    <3> QED BY <2>1, <2>4, <3>2, <3>3
  <2>7. CASE rows[m].cwd = cwd
    <3>1. CASE NoneOf(cwd, m - 1) /\ Best(cwd)[m - 1] = NoRow
      <4>1. Best(cwd)[m] = rows[m]
        <5>1. NoRow.sid = 0
          BY DEF NoRow
        <5> QED BY <2>5, <2>7, <3>1, <5>1 DEF Later
      <4>2. LastOf(cwd, m, m)
        BY <2>3, <2>7, <3>1 DEF LastOf, NoneOf
      <4> QED BY <2>1, <2>3, <4>1, <4>2
    <3>2. ASSUME NEW i \in 1..(m - 1), LastOf(cwd, m - 1, i), Best(cwd)[m - 1] = rows[i]
          PROVE  Good(m)
      <4>0. rows[i].sid # 0 /\ rows[i].ts \in Nat
        BY <1>0, <2>3, RowFacts, SessionNumbers
      <4>1. CASE rows[m].ts >= rows[i].ts
        <5>1. Best(cwd)[m] = rows[m]
          BY <2>5, <2>7, <3>2, <4>1 DEF Later
        <5>2. LastOf(cwd, m, m)
          BY <2>3, <2>7, <3>2, <4>0, <4>1 DEF LastOf
        <5> QED BY <2>3, <5>1, <5>2
      <4>2. CASE ~(rows[m].ts >= rows[i].ts)
        <5>1. Best(cwd)[m] = rows[i]
          BY <2>5, <3>2, <4>0, <4>2 DEF Later
        <5>2. LastOf(cwd, m, i)
          BY <2>3, <3>2, <4>0, <4>2 DEF LastOf
        <5> QED BY <2>3, <5>1, <5>2
      <4> QED BY <4>1, <4>2
    <3> QED BY <2>1, <2>4, <3>1, <3>2
  <2> QED BY <2>6, <2>7
<1> QED BY <1>1, <1>2

\* What the index finds for a directory is the session of its latest row, and 0
\* where it has none.
LEMMA LatestRow ==
  ASSUME TypeOK, NEW cwd
  PROVE  \/ NoneOf(cwd, Len(rows)) /\ LatestFor(cwd) = 0
         \/ \E i \in DOMAIN rows :
              /\ LastOf(cwd, Len(rows), i)
              /\ LatestFor(cwd) = rows[i].sid /\ rows[i].sid \in Sessions
<1>1. /\ Len(rows) \in 0..Len(rows) /\ NoRow.sid = 0 /\ DOMAIN rows = 1..Len(rows)
      /\ \A i \in DOMAIN rows : rows[i].sid \in Sessions
  BY RowFacts DEF NoRow
<1>2. \/ NoneOf(cwd, Len(rows)) /\ Best(cwd)[Len(rows)] = NoRow
      \/ \E i \in 1..Len(rows) : LastOf(cwd, Len(rows), i) /\ Best(cwd)[Len(rows)] = rows[i]
  BY <1>1, LoopFinds
<1>3. LatestFor(cwd) = Best(cwd)[Len(rows)].sid
  BY DEF LatestFor
<1> QED BY <1>1, <1>2, <1>3
-----------------------------------------------------------------------------
(* Types. *)

Ats == {"idle", "begun", "open", "ended", "stamped"} \cup Ended

\* Where a run goes; nobody else moves, and no row is lost.
LEMMA StepTo ==
  ASSUME TypeOK, NEW r \in Runs, NEW from, NEW to \in Ats, Step(r, from, to)
  PROVE  /\ at[r] = from /\ at' \in [Runs -> Ats]
         /\ at'[r] = to /\ \A o \in Runs \ {r} : at'[o] = at[o]
BY DEF TypeOK, Step, Ats

LEMMA BeginTypes ==
  ASSUME IndexInv, NEW r \in Runs, Begin(r)
  PROVE  TypeOK' /\ Lined'
<1>1. PICK c \in Lines[r] :
        LET s == IF c.latest THEN LatestFor(c.cwd) ELSE c.sid
        IN  /\ line' = [line EXCEPT ![r] = c]
            /\ session' = [session EXCEPT ![r] = s]
            /\ Step(r, "idle", IF s = 0 THEN "refused" ELSE "begun")
  BY DEF Begin
<1> DEFINE s == IF c.latest THEN LatestFor(c.cwd) ELSE c.sid
<1>2. c \in CommandLines
  BY LinesAssumption
<1>3. s \in Sessions \cup {0}
  BY <1>2, LatestRow DEF IndexInv, CommandLines
<1> HIDE DEF s
<1>4. /\ line' = [line EXCEPT ![r] = c] /\ session' = [session EXCEPT ![r] = s]
      /\ Step(r, "idle", IF s = 0 THEN "refused" ELSE "begun")
  BY <1>1 DEF s
<1>5. /\ at' \in [Runs -> Ats] /\ at'[r] = IF s = 0 THEN "refused" ELSE "begun"
      /\ \A o \in Runs \ {r} : at'[o] = at[o]
  BY <1>4, StepTo DEF IndexInv, Ats, Ended
<1>6. /\ line' \in [Runs -> CommandLines \cup {NoLine}]
      /\ session' \in [Runs -> Sessions \cup {0}]
      /\ session'[r] = s /\ \A o \in Runs \ {r} : session'[o] = session[o]
  BY <1>2, <1>3, <1>4 DEF IndexInv, TypeOK
<1>7. line'[r] = c /\ \A o \in Runs \ {r} : line'[o] = line[o]
  BY <1>4 DEF IndexInv, TypeOK
<1>8. before' \in [Runs -> SUBSET Runs]
  BY DEF Begin, IndexInv, TypeOK
<1>9. \A o \in Runs : Live(o)' => session'[o] # 0
  BY <1>5, <1>6 DEF IndexInv, TypeOK, Live, Ended
<1>10. Lined'
  BY <1>2, <1>5, <1>7 DEF IndexInv, Lined
<1> QED BY <1>5, <1>6, <1>8, <1>9, <1>10 DEF Begin, IndexInv, TypeOK, Ats

\* What the other steps of a run leave alone.
LEMMA RunKept ==
  ASSUME TypeOK, NEW r \in Runs,
         Open(r) \/ End(r) \/ Stamp(r) \/ Update(r) \/ Die(r)
  PROVE  /\ UNCHANGED <<line, session, clock, before>>
         /\ at' \in [Runs -> Ats] /\ \A o \in Runs \ {r} : at'[o] = at[o]
         /\ Live(r) /\ session[r] \in Sessions
<1>1. \E to \in Ats : at' = [at EXCEPT ![r] = to]
  BY DEF Open, End, Stamp, Update, Die, Step, Ats, Ended
<1>2. at' \in [Runs -> Ats] /\ \A o \in Runs \ {r} : at'[o] = at[o]
  BY <1>1 DEF TypeOK, Ats
<1>3. Live(r)
  BY DEF Open, End, Stamp, Update, Die, Step, Live, Ended
<1>4. session[r] \in Sessions
  BY <1>3 DEF TypeOK
<1> QED BY <1>2, <1>3, <1>4 DEF Open, End, Stamp, Update, Die

LEMMA TypeNext ==
  ASSUME IndexInv, [Next]_indexVars
  PROVE  TypeOK' /\ Lined'
<1>0. TypeOK /\ Lined
  BY DEF IndexInv
<1>1. ASSUME NEW r \in Runs, Begin(r) PROVE TypeOK' /\ Lined'
  BY <1>1, BeginTypes
<1>2. ASSUME NEW r \in Runs, Open(r) \/ End(r) \/ Stamp(r) \/ Update(r) \/ Die(r)
      PROVE  TypeOK' /\ Lined'
  <2>1. /\ UNCHANGED <<line, session, clock, before>>
        /\ at' \in [Runs -> Ats] /\ \A o \in Runs \ {r} : at'[o] = at[o]
        /\ Live(r) /\ session[r] \in Sessions
    BY <1>0, <1>2, RunKept
  <2>2. told' \in [Sessions -> SUBSET Runs]
    <3>1. CASE Open(r) /\ line[r].persist
      BY <1>0, <2>1, <3>1 DEF Open, TypeOK
    <3>2. CASE UNCHANGED told
      BY <1>0, <3>2 DEF TypeOK
    <3> QED BY <1>2, <3>1, <3>2 DEF Open, End, Stamp, Update, Die
  <2>3. stamp' \in [Runs -> 0..MaxTime]
    BY <1>0, <1>2 DEF Open, End, Stamp, Update, Die, TypeOK
  <2>4. rows' \in Seq(Rows)
    <3>1. CASE Update(r)
      <4>1. RowOf(r) \in Rows
        BY <1>0, <2>1 DEF TypeOK, Lined, Live, CommandLines, RowOf, Rows
      <4> QED BY <1>0, <3>1, <4>1, RowFacts, AppendProperties DEF Update, RowOf
    <3>2. CASE UNCHANGED rows
      BY <1>0, <3>2, RowFacts
    <3> QED BY <1>2, <3>1, <3>2 DEF Open, End, Stamp, Die
  <2>5. \A o \in Runs : Live(o)' => session'[o] # 0
    BY <1>0, <2>1, SessionNumbers DEF TypeOK, Live
  <2>6. Lined'
    BY <1>0, <2>1 DEF Lined, Live
  <2> QED BY <1>0, <2>1, <2>2, <2>3, <2>4, <2>5, <2>6 DEF TypeOK, Ats, Rows
<1>3. CASE Tick
  BY <1>0, <1>3, TimeAssumption DEF Tick, TypeOK, Live, Lined
<1>4. CASE UNCHANGED indexVars
  BY <1>0, <1>4 DEF indexVars, TypeOK, Live, Lined
<1> QED BY <1>1, <1>2, <1>3, <1>4 DEF Next, AllEnded
-----------------------------------------------------------------------------
(* Rows and runs. *)

\* Only runs that are over have rows, and only an update makes one.
LEMMA OverSteps ==
  ASSUME IndexInv, NEW r \in Runs,
         Begin(r) \/ Open(r) \/ End(r) \/ Stamp(r) \/ Update(r) \/ Die(r)
  PROVE  /\ at[r] # "over" /\ \A o \in Runs \ {r} : at'[o] = at[o]
         /\ Update(r) \/ (at'[r] # "over" /\ UNCHANGED rows)
<1>1. CASE Begin(r)
  <2>1. \E to \in {"refused", "begun"} : Step(r, "idle", to)
    BY <1>1 DEF Begin
  <2> QED BY <1>1, <2>1, StepTo DEF IndexInv, Begin, Ats, Ended
<1>2. CASE Open(r) \/ End(r) \/ Stamp(r) \/ Die(r)
  <2>1. \E to \in Ats \ {"over"} : at' = [at EXCEPT ![r] = to]
    BY <1>2 DEF Open, End, Stamp, Die, Step, Ats, Ended
  <2>2. at[r] # "over" /\ UNCHANGED rows
    BY <1>2 DEF Open, End, Stamp, Die, Step, Live, Ended
  <2> QED BY <2>1, <2>2 DEF IndexInv, TypeOK
<1>3. CASE Update(r)
  <2>1. Step(r, "stamped", "over")
    BY <1>3 DEF Update
  <2> QED BY <1>3, <2>1, StepTo DEF IndexInv, Ats, Ended
<1> QED BY <1>1, <1>2, <1>3

LEMMA StampNext ==
  ASSUME IndexInv, [Next]_indexVars
  PROVE  StampInv'
<1>0. TypeOK /\ StampInv /\ clock \in Nat /\ \A r \in Runs : stamp[r] \in Nat
  BY TimeAssumption DEF IndexInv, TypeOK
<1>1. ASSUME NEW r \in Runs, Begin(r) PROVE StampInv'
  <2>1. /\ UNCHANGED <<clock, stamp>>
        /\ at'[r] \in {"refused", "begun"} /\ \A o \in Runs \ {r} : at'[o] = at[o]
        /\ at[r] = "idle"
    <3>1. \E to \in {"refused", "begun"} : Step(r, "idle", to)
      BY <1>1 DEF Begin
    <3> QED BY <1>0, <1>1, <3>1, StepTo DEF Begin, Ats, Ended
  <2>2. before'[r] = Over /\ \A o \in Runs \ {r} : before'[o] = before[o]
    BY <1>0, <1>1 DEF Begin, TypeOK, Over
  <2> QED BY <1>0, <2>1, <2>2 DEF StampInv, Over, TypeOK
<1>2. ASSUME NEW r \in Runs, Stamp(r) PROVE StampInv'
  <2>1. /\ UNCHANGED <<clock, before>> /\ at[r] = "ended" /\ at'[r] = "stamped"
        /\ \A o \in Runs \ {r} : at'[o] = at[o]
        /\ stamp'[r] = clock /\ \A o \in Runs \ {r} : stamp'[o] = stamp[o]
    BY <1>0, <1>2 DEF Stamp, Step, TypeOK
  <2>2. \A b \in Runs : \A a \in before[b] : a \in Runs /\ a # r /\ at[a] = "over"
    BY <1>0, <2>1 DEF StampInv, TypeOK
  <2>3. \A o \in Runs : stamp'[o] <= clock
    BY <1>0, <2>1 DEF StampInv
  <2>4. \A b \in Runs : \A a \in before[b] :
          at'[b] \in {"stamped", "over"} => stamp'[a] <= stamp'[b]
    <3> TAKE b \in Runs
    <3> TAKE a \in before[b]
    <3>1. CASE b = r
      BY <2>1, <2>2, <2>3, <3>1
    <3>2. CASE b # r
      BY <1>0, <2>1, <2>2, <3>2 DEF StampInv
    <3> QED BY <3>1, <3>2
  <2> QED BY <2>1, <2>2, <2>3, <2>4 DEF StampInv
<1>3. ASSUME NEW r \in Runs, Open(r) \/ End(r) \/ Update(r) \/ Die(r) PROVE StampInv'
  <2>1. /\ UNCHANGED <<clock, before, stamp>> /\ at[r] # "over"
        /\ \A o \in Runs \ {r} : at'[o] = at[o]
    BY <1>0, <1>3, RunKept, OverSteps DEF Open, End, Update, Die
  <2>2. at'[r] \in {"stamped", "over"} => at[r] = "stamped"
    BY <1>0, <1>3 DEF Open, End, Update, Die, Step, TypeOK
  <2> QED BY <1>0, <2>1, <2>2 DEF StampInv, TypeOK
<1>4. CASE Tick
  <2>1. UNCHANGED <<at, stamp, before>> /\ clock' = clock + 1
    BY <1>4 DEF Tick
  <2>2. \A r \in Runs : stamp[r] <= clock + 1
    BY <1>0 DEF StampInv
  <2> QED BY <1>0, <2>1, <2>2 DEF StampInv
<1>5. CASE UNCHANGED indexVars
  BY <1>0, <1>5 DEF indexVars, StampInv
<1> QED BY <1>1, <1>2, <1>3, <1>4, <1>5 DEF Next, AllEnded

\* While no row is added and nobody is over, rows and runs stand as they stood.
LEMMA RowsKept ==
  ASSUME IndexInv, UNCHANGED rows, Over' = Over,
         \A o \in Over : RowOf(o)' = RowOf(o) /\ before'[o] = before[o]
  PROVE  RowsTell'
<1>1. PICK f \in [Over -> DOMAIN rows] :
        /\ \A o \in Over : rows[f[o]] = RowOf(o)
        /\ \A i \in DOMAIN rows : \E o \in Over : f[o] = i
        /\ \A a, b \in Over : a \in before[b] => f[a] < f[b]
  BY DEF IndexInv, RowsTell
<1> QED BY <1>1 DEF RowsTell

\* The row of an update stands behind those of all the runs that were over when
\* its run began, and before those of none.
LEMMA RowAdded ==
  ASSUME IndexInv, NEW r \in Runs, Update(r)
  PROVE  RowsTell'
<1>0. /\ TypeOK /\ UNCHANGED <<line, session, before, stamp>>
      /\ at[r] = "stamped" /\ at'[r] = "over" /\ \A o \in Runs \ {r} : at'[o] = at[o]
      /\ rows' = Append(rows, RowOf(r))
  BY DEF IndexInv, TypeOK, Update, Step, RowOf
<1>1. RowOf(r) \in Rows
  BY <1>0 DEF IndexInv, TypeOK, Lined, Live, Ended, CommandLines, RowOf, Rows
<1>3. PICK f \in [Over -> DOMAIN rows] :
        /\ \A o \in Over : rows[f[o]] = RowOf(o)
        /\ \A i \in DOMAIN rows : \E o \in Over : f[o] = i
        /\ \A a, b \in Over : a \in before[b] => f[a] < f[b]
  BY DEF IndexInv, RowsTell
<1>4. PICK n \in Nat : n = Len(rows) + 1
  BY <1>0, RowFacts
<1>5. /\ DOMAIN rows = 1..Len(rows) /\ Len(rows) \in Nat
      /\ DOMAIN rows' = 1..n /\ rows'[n] = RowOf(r)
      /\ \A i \in DOMAIN rows : rows'[i] = rows[i]
  <2>1. /\ rows' \in Seq(Rows) /\ Len(rows') = n /\ rows'[n] = RowOf(r)
        /\ \A i \in 1..Len(rows) : rows'[i] = rows[i]
    BY <1>0, <1>1, <1>4, RowFacts, AppendProperties
  <2> QED BY <1>0, <2>1, RowFacts, LenProperties
<1>6. /\ \A i \in DOMAIN rows' : i \in DOMAIN rows \/ i = n
      /\ \A i \in DOMAIN rows : i \in DOMAIN rows' /\ i < n
      /\ n \in DOMAIN rows'
  BY <1>4, <1>5
<1>7. /\ Over' = Over \cup {r} /\ r \notin Over
      /\ \A o \in Over' : RowOf(o)' = RowOf(o)
      /\ \A b \in Runs : r \notin before[b]
  BY <1>0 DEF Over, RowOf, IndexInv, StampInv
<1> DEFINE g == [o \in Over \cup {r} |-> IF o = r THEN n ELSE f[o]]
<1>8. /\ g[r] = n /\ \A o \in Over : g[o] = f[o]
      /\ g \in [Over \cup {r} -> DOMAIN rows']
  BY <1>6, <1>7
<1> HIDE DEF g
<1>9. \A o \in Over \cup {r} : rows'[g[o]] = RowOf(o)
  BY <1>3, <1>5, <1>8
<1>10. \A i \in DOMAIN rows' : \E o \in Over \cup {r} : g[o] = i
  BY <1>3, <1>6, <1>8
<1>11. \A a, b \in Over \cup {r} : a \in before[b] => g[a] < g[b]
  <2> SUFFICES ASSUME NEW a \in Over \cup {r}, NEW b \in Over \cup {r}, a \in before[b]
               PROVE  g[a] < g[b]
    OBVIOUS
  <2>1. a \in Over
    BY <1>7 DEF Over
  <2>2. CASE b = r
    BY <1>6, <1>8, <2>1, <2>2
  <2>3. CASE b \in Over
    BY <1>3, <1>8, <2>1, <2>3
  <2> QED BY <2>2, <2>3
<1>12. RowsTell'
  <2>1. \E h \in [Over' -> DOMAIN rows'] :
          /\ \A o \in Over' : rows'[h[o]] = RowOf(o)'
          /\ \A i \in DOMAIN rows' : \E o \in Over' : h[o] = i
          /\ \A a, b \in Over' : a \in before'[b] => h[a] < h[b]
    BY <1>0, <1>7, <1>8, <1>9, <1>10, <1>11
  <2> QED BY <2>1 DEF RowsTell
<1> QED BY <1>12

LEMMA RowsNext ==
  ASSUME IndexInv, [Next]_indexVars
  PROVE  RowsTell'
<1>0. TypeOK
  BY DEF IndexInv
<1>1. ASSUME NEW r \in Runs, Update(r) PROVE RowsTell'
  BY <1>1, RowAdded
<1>2. ASSUME NEW r \in Runs, ~Update(r),
             Begin(r) \/ Open(r) \/ End(r) \/ Stamp(r) \/ Die(r)
      PROVE  RowsTell'
  <2>1. /\ at[r] # "over" /\ at'[r] # "over" /\ UNCHANGED rows
        /\ \A o \in Runs \ {r} : at'[o] = at[o]
    BY <1>2, OverSteps
  <2>2. Over' = Over /\ r \notin Over
    BY <2>1 DEF Over
  <2>3. \A o \in Runs \ {r} : /\ line'[o] = line[o] /\ session'[o] = session[o]
                             /\ stamp'[o] = stamp[o] /\ before'[o] = before[o]
    BY <1>0, <1>2 DEF Begin, Open, End, Stamp, Die, TypeOK
  <2> QED BY <2>1, <2>2, <2>3, RowsKept DEF RowOf, Over
<1>3. CASE Tick \/ UNCHANGED indexVars
  <2>1. UNCHANGED <<at, line, session, rows, stamp, before>>
    BY <1>3 DEF Tick, indexVars
  <2> QED BY <2>1, RowsKept DEF Over, RowOf
<1> QED BY <1>1, <1>2, <1>3 DEF Next, AllEnded
-----------------------------------------------------------------------------
(* What --continue finds. *)

LEMMA IndexInit == Init => IndexInv
<1> SUFFICES ASSUME Init PROVE IndexInv
  OBVIOUS
<1>1. TypeOK
  <2>1. rows \in Seq(Rows)
    BY EmptySeq DEF Init
  <2>2. 0 \in 0..MaxTime
    BY TimeAssumption
  <2> QED BY <2>1, <2>2 DEF Init, TypeOK, Rows, Live
<1>2. Over = {} /\ DOMAIN rows = {}
  BY DEF Init, Over
<1>3. RowsTell
  <2>1. [o \in Over |-> 0] \in [Over -> DOMAIN rows]
    BY <1>2
  <2> QED BY <1>2, <2>1 DEF RowsTell
<1> QED BY <1>1, <1>3 DEF Init, IndexInv, Lined, StampInv

LEMMA IndexNext == IndexInv /\ [Next]_indexVars => IndexInv'
BY TypeNext, StampNext, RowsNext DEF IndexInv

\* The session of the latest row is that of a run of the directory that is over,
\* and that was not over when another such run began.
LEMMA LatestNotStale ==
  ASSUME IndexInv, NEW cwd
  PROVE  /\ LatestFor(cwd) = 0 => OverIn(cwd) = {}
         /\ LatestFor(cwd) # 0 =>
              \E a \in OverIn(cwd) : /\ session[a] = LatestFor(cwd)
                                     /\ \A b \in OverIn(cwd) : a \notin before[b]
<1>0. TypeOK /\ StampInv /\ Len(rows) \in Nat /\ DOMAIN rows = 1..Len(rows)
  BY RowFacts DEF IndexInv
<1>1. PICK f \in [Over -> DOMAIN rows] :
        /\ \A o \in Over : rows[f[o]] = RowOf(o)
        /\ \A i \in DOMAIN rows : \E o \in Over : f[o] = i
        /\ \A a, b \in Over : a \in before[b] => f[a] < f[b]
  BY DEF IndexInv, RowsTell
<1>2. \A o \in Over : /\ rows[f[o]].sid = session[o] /\ rows[f[o]].cwd = line[o].cwd
                       /\ rows[f[o]].ts = stamp[o]
  <2> SUFFICES ASSUME NEW o \in Over
               PROVE  /\ rows[f[o]].sid = session[o] /\ rows[f[o]].cwd = line[o].cwd
                      /\ rows[f[o]].ts = stamp[o]
    OBVIOUS
  <2>1. rows[f[o]] = [sid |-> session[o], cwd |-> line[o].cwd, ts |-> stamp[o]]
    BY <1>1 DEF RowOf
  <2> QED BY <2>1
<1>3. OverIn(cwd) = {o \in Over : rows[f[o]].cwd = cwd}
  BY <1>2 DEF OverIn, Over
<1>4. CASE NoneOf(cwd, Len(rows)) /\ LatestFor(cwd) = 0
  <2>1. OverIn(cwd) = {}
    BY <1>0, <1>1, <1>3, <1>4 DEF NoneOf
  <2> QED BY <1>4, <2>1
<1>5. ASSUME NEW i \in DOMAIN rows, LastOf(cwd, Len(rows), i),
             LatestFor(cwd) = rows[i].sid, rows[i].sid \in Sessions
      PROVE  /\ LatestFor(cwd) # 0
             /\ \E a \in OverIn(cwd) : /\ session[a] = LatestFor(cwd)
                                      /\ \A b \in OverIn(cwd) : a \notin before[b]
  <2>2. PICK a \in Over : f[a] = i
    BY <1>1
  <2>3. a \in OverIn(cwd) /\ session[a] = LatestFor(cwd)
    BY <1>1, <1>2, <1>3, <1>5, <2>2 DEF LastOf
  <2>4. ASSUME NEW b \in OverIn(cwd), a \in before[b] PROVE FALSE
    <3>1. b \in Over /\ f[b] \in DOMAIN rows /\ rows[f[b]].cwd = cwd /\ i < f[b]
      BY <1>1, <1>3, <2>2, <2>4
    <3>2. stamp[b] < stamp[a]
      BY <1>0, <1>2, <1>5, <2>2, <3>1 DEF LastOf
    <3>3. stamp[a] <= stamp[b]
      BY <1>0, <2>4, <3>1 DEF StampInv, Over
    <3>4. stamp[a] \in Nat /\ stamp[b] \in Nat
      BY <1>0, <2>2, <3>1, TimeAssumption DEF TypeOK, Over
    <3> QED BY <3>2, <3>3, <3>4
  <2>5. LatestFor(cwd) # 0
    BY <1>5, SessionNumbers
  <2> QED BY <2>3, <2>4, <2>5
<1> QED BY <1>0, <1>4, <1>5, LatestRow

\* Every variable has its type and nothing runs without a session: where the index
\* finds none, the run is refused (_resolve_session_and_run).
THEOREM IndexTypes == Spec => []TypeOK
<1>1. IndexInv => TypeOK
  BY DEF IndexInv
<1> QED BY <1>1, IndexInit, IndexNext, PTL DEF Spec

\* --continue resumes a run of the directory that is over, and never one that was
\* over before another one began; it is refused only where none is over, whatever
\* overlaps, is killed, or has one time with another (SessionIndex, update after
\* the terminal record).
THEOREM ContinueLatest == Spec => ContinueNotStale
<1> DEFINE Fresh ==
      \A r \in Runs : (at[r] = "idle" /\ at'[r] # "idle" /\ line'[r].latest) =>
        LET done == OverIn(line'[r].cwd)
        IN  IF at'[r] = "refused" THEN done = {}
            ELSE \E a \in done : /\ session[a] = session'[r]
                                 /\ \A b \in done : a \notin before[b]
<1>1. IndexInv /\ [Next]_indexVars => [Fresh]_indexVars
  <2> SUFFICES ASSUME IndexInv, Next,
                      NEW r \in Runs, at[r] = "idle", at'[r] # "idle", line'[r].latest
               PROVE  LET done == OverIn(line'[r].cwd)
                      IN  IF at'[r] = "refused" THEN done = {}
                          ELSE \E a \in done : /\ session[a] = session'[r]
                                               /\ \A b \in done : a \notin before[b]
    OBVIOUS
  <2>0. TypeOK
    BY DEF IndexInv
  <2>1. PICK o \in Runs : Begin(o) \/ Open(o) \/ End(o) \/ Stamp(o) \/ Update(o) \/ Die(o)
    BY DEF Next, Tick, AllEnded, indexVars
  <2>2. o = r
    BY <2>1, OverSteps
  <2>3. Begin(r)
    BY <2>0, <2>1, <2>2, RunKept DEF Live
  <2>4. PICK c \in Lines[r] :
          LET s == IF c.latest THEN LatestFor(c.cwd) ELSE c.sid
          IN  /\ line' = [line EXCEPT ![r] = c]
              /\ session' = [session EXCEPT ![r] = s]
              /\ Step(r, "idle", IF s = 0 THEN "refused" ELSE "begun")
    BY <2>3 DEF Begin
  <2>5. line'[r] = c
    BY <2>0, <2>4 DEF TypeOK
  <2>6. /\ session'[r] = LatestFor(c.cwd)
        /\ at'[r] = IF LatestFor(c.cwd) = 0 THEN "refused" ELSE "begun"
    BY <2>0, <2>4, <2>5 DEF TypeOK, Step
  <2> QED BY <2>5, <2>6, LatestNotStale
<1> QED BY <1>1, IndexInit, IndexNext, PTL DEF Spec, ContinueNotStale
=============================================================================
