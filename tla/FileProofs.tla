----------------------------- MODULE FileProofs -----------------------------
(***************************************************************************)
(* Theorems about the tools that change files, for any calls on any text.  *)
(* A call that nobody runs beside has written the beginning of the text it *)
(* means to leave, and holds the rest of it; this is kept by every step, a *)
(* kill and a failing write included.                                      *)
(***************************************************************************)
EXTENDS FileTools, SequenceTheorems, WellFoundedInduction, TLAPS

\* What is at the path, and what is still to be written.
DataInv ==
  /\ disk \in Files
  /\ seen \in [Calls -> Files]
  /\ todo \in [Calls -> Seq(Marks)]
  /\ pos \in [Calls -> Nat]
  /\ at \in [Calls -> {"idle", "open", "write"} \cup Ended]
  /\ \A c \in Calls : at[c] = "write" => disk \in Seq(Marks)
  /\ \A c \in Calls : todo[c] # <<>> => at[c] # "success"

\* The text a call means to leave, and why it may.
Meant(c) ==
  IF c \in Edits THEN Replaced(ReadText(seen[c]), Tool[c].find, Tool[c].replace)
                 ELSE Tool[c].content

Begun(c) == Meant(c) \in Seq(Marks) /\ Leaves(c, Meant(c))

\* Where a call stands in its text.
Placed(c) ==
  /\ at[c] = "idle" => pos[c] = 0
  /\ at[c] = "open" => Begun(c) /\ todo[c] = Meant(c) /\ pos[c] = 0 /\ disk = seen[c]
  /\ at[c] = "write" => Begun(c) /\ pos[c] = Len(disk) /\ disk \o todo[c] = Meant(c)

Alone == \A a, b \in Calls : Running(a) /\ Running(b) => a = b

FileInv == DataInv /\ (~Overlap => Alone /\ \A c \in Calls : Placed(c))
-----------------------------------------------------------------------------
(* Texts. *)

\* A set of natural numbers that is not empty has a least element: they are
\* well ordered.
Below == {ss \in Nat \X Nat : ss[1] < ss[2]}

LEMMA LeastNatural ==
  ASSUME NEW S, S \subseteq Nat, S # {}
  PROVE  \E m \in S : \A y \in S : m <= y
<1>1. IsWellFoundedOn(Below, Nat)
  BY NatLessThanWellFounded, Zenon DEF OpToRel, Below
<1>2. PICK m \in S : \A y \in S : <<y, m>> \notin Below
  BY <1>1, WFMin
<1>3. \A y \in S : ~(y < m)
  BY <1>2 DEF Below
<1> QED BY <1>3

\* What the tools are given is text that a file may be made of.
LEMMA MoreMarks == Seq(Symbols) \subseteq Seq(Marks)
<1> SUFFICES ASSUME NEW f \in Seq(Symbols) PROVE f \in Seq(Marks)
  OBVIOUS
<1>1. Len(f) \in Nat /\ f \in [1..Len(f) -> Symbols]
  BY LenProperties, ElementOfSeq
<1>2. f \in [1..Len(f) -> Marks]
  BY <1>1 DEF Marks
<1> QED BY <1>1, <1>2, SeqDef

\* A text as it is read has as many symbols, of the same set.
LEMMA TextRead ==
  ASSUME NEW f \in Seq(Marks)
  PROVE  ReadText(f) \in Seq(Marks) /\ DOMAIN ReadText(f) = DOMAIN f
<1>1. Len(f) \in Nat /\ DOMAIN f = 1..Len(f) /\ \A i \in 1..Len(f) : f[i] \in Marks
  BY LenProperties, ElementOfSeq
<1>2. \A x \in Marks : Decoded(x) \in Marks
  BY SymbolAssumption DEF Marks, Decoded
<1>3. ReadText(f) \in [1..Len(f) -> Marks]
  BY <1>1, <1>2 DEF ReadText
<1> QED BY <1>1, <1>3, SeqDef DEF ReadText

\* The text with y for the n symbols from i on.
Splice(text, i, n, y) == SubSeq(text, 1, i - 1) \o y \o SubSeq(text, i + n, Len(text))

\* The symbols before stay where they are, those after move by the difference.
LEMMA Spliced ==
  ASSUME NEW text \in Seq(Marks), NEW y \in Seq(Marks), NEW i \in 1..Len(text),
         NEW n \in Nat, i + n <= Len(text) + 1
  PROVE  /\ Splice(text, i, n, y) \in Seq(Marks)
         /\ Len(Splice(text, i, n, y)) = Len(text) + Len(y) - n
         /\ \A k \in 1..(i - 1) : Splice(text, i, n, y)[k] = text[k]
         /\ \A k \in 1..Len(y) : Splice(text, i, n, y)[i - 1 + k] = y[k]
         /\ \A k \in (i + n)..Len(text) : Splice(text, i, n, y)[k + Len(y) - n] = text[k]
<1> DEFINE new == Splice(text, i, n, y)
           pre == SubSeq(text, 1, i - 1)
           post == SubSeq(text, i + n, Len(text))
<1>1. /\ Len(text) \in Nat /\ Len(y) \in Nat /\ i \in Nat /\ i >= 1
      /\ \A k \in 1..Len(text) : text[k] \in Marks
  BY LenProperties, ElementOfSeq
<1>2. /\ pre \in Seq(Marks) /\ Len(pre) = i - 1
      /\ \A k \in 1..(i - 1) : pre[k] = text[k]
  <2>1. 1 \in Int /\ i - 1 \in Int /\ \A k \in 1..(i - 1) : text[k] \in Marks
    BY <1>1
  <2>2. /\ pre \in Seq(Marks)
        /\ Len(pre) = IF 1 <= i - 1 THEN (i - 1) - 1 + 1 ELSE 0
        /\ \A k \in 1..((i - 1) - 1 + 1) : pre[k] = text[1 + k - 1]
    BY <2>1, SubSeqProperties
  <2> HIDE DEF pre
  <2> QED BY <1>1, <2>2
<1>3. /\ post \in Seq(Marks) /\ Len(post) = Len(text) + 1 - (i + n)
      /\ \A k \in 1..(Len(text) + 1 - (i + n)) : post[k] = text[i + n + k - 1]
  <2>1. i + n \in Int /\ Len(text) \in Int /\ \A k \in (i + n)..Len(text) : text[k] \in Marks
    BY <1>1
  <2>2. /\ post \in Seq(Marks)
        /\ Len(post) = IF i + n <= Len(text) THEN Len(text) - (i + n) + 1 ELSE 0
        /\ \A k \in 1..(Len(text) - (i + n) + 1) : post[k] = text[i + n + k - 1]
    BY <2>1, SubSeqProperties
  <2>3. /\ Len(text) - (i + n) + 1 = Len(text) + 1 - (i + n)
        /\ ~(i + n <= Len(text)) => Len(text) + 1 - (i + n) = 0
    BY <1>1
  <2> HIDE DEF post
  <2> QED BY ONLY <2>2, <2>3
<1>4. new = pre \o y \o post
  BY DEF Splice
<1> HIDE DEF new, pre, post
<1> DEFINE head == pre \o y
<1>5. /\ head \in Seq(Marks) /\ Len(head) = Len(pre) + Len(y)
      /\ \A k \in 1..(Len(pre) + Len(y)) :
           head[k] = IF k <= Len(pre) THEN pre[k] ELSE y[k - Len(pre)]
  <2>1. pre \in Seq(Marks) /\ y \in Seq(Marks)
    BY <1>2
  <2> QED BY ONLY <2>1, ConcatProperties
<1>6. new = head \o post
  BY <1>4
<1> HIDE DEF head
<1>7. /\ head \o post \in Seq(Marks) /\ Len(head \o post) = Len(head) + Len(post)
      /\ \A k \in 1..(Len(head) + Len(post)) :
           (head \o post)[k] = IF k <= Len(head) THEN head[k] ELSE post[k - Len(head)]
  <2>1. head \in Seq(Marks) /\ post \in Seq(Marks)
    BY <1>3, <1>5
  <2> QED BY ONLY <2>1, ConcatProperties
<1>8. /\ new \in Seq(Marks) /\ Len(head) = i - 1 + Len(y) /\ Len(post) = Len(text) + 1 - (i + n)
      /\ Len(new) = Len(text) + Len(y) - n
      /\ \A k \in 1..(Len(head) + Len(post)) :
           new[k] = IF k <= Len(head) THEN head[k] ELSE post[k - Len(head)]
  <2>1. Len(head) = i - 1 + Len(y) /\ Len(post) = Len(text) + 1 - (i + n)
    BY <1>2, <1>3, <1>5
  <2>2. Len(head) + Len(post) = Len(text) + Len(y) - n
    BY <1>1, <2>1
  <2> QED BY ONLY <1>6, <1>7, <2>1, <2>2
<1>9. ASSUME NEW k \in 1..(i - 1) PROVE new[k] = text[k]
  <2>1. k <= Len(head) /\ k <= Len(pre) /\ k \in 1..(Len(head) + Len(post)) /\ k \in 1..(Len(pre) + Len(y))
    BY <1>1, <1>2, <1>8
  <2> QED BY <1>2, <1>5, <1>8, <2>1
<1>10. ASSUME NEW k \in 1..Len(y) PROVE new[i - 1 + k] = y[k]
  <2> DEFINE m == i - 1 + k
  <2>1. /\ m <= Len(head) /\ ~(m <= Len(pre)) /\ m - Len(pre) = k
        /\ m \in 1..(Len(head) + Len(post)) /\ m \in 1..(Len(pre) + Len(y))
    BY <1>1, <1>2, <1>8
  <2> HIDE DEF m
  <2>2. new[m] = head[m]
    BY ONLY <1>8, <2>1
  <2>3. head[m] = y[m - Len(pre)]
    BY ONLY <1>5, <2>1
  <2>4. new[m] = y[k]
    BY ONLY <2>1, <2>2, <2>3
  <2> QED BY <2>4 DEF m
<1>11. ASSUME NEW k \in (i + n)..Len(text) PROVE new[k + Len(y) - n] = text[k]
  <2>1. /\ ~(k + Len(y) - n <= Len(head)) /\ k + Len(y) - n \in 1..(Len(head) + Len(post))
        /\ k + Len(y) - n - Len(head) = k + 1 - (i + n)
        /\ k + 1 - (i + n) \in 1..(Len(text) + 1 - (i + n)) /\ i + n + (k + 1 - (i + n)) - 1 = k
    BY <1>1, <1>8
  <2>2. new[k + Len(y) - n] = post[k + 1 - (i + n)]
    <3>1. new[k + Len(y) - n] = post[k + Len(y) - n - Len(head)]
      BY ONLY <1>8, <2>1
    <3> QED BY ONLY <2>1, <3>1
  <2>3. post[k + 1 - (i + n)] = text[i + n + (k + 1 - (i + n)) - 1]
    BY ONLY <1>3, <2>1
  <2> QED BY ONLY <2>1, <2>2, <2>3
<1> QED BY <1>8, <1>9, <1>10, <1>11 DEF new

\* The first match, and nothing else, is replaced, whatever takes its place.
LEMMA ReplacesFirst ==
  ASSUME NEW text \in Seq(Marks), NEW x \in Seq(Symbols), NEW y \in Seq(Marks),
         Finds(text, x) # {}
  PROVE  /\ Replaced(text, x, y) \in Seq(Marks)
         /\ FirstReplaced(text, Replaced(text, x, y), x, y)
<1>1. /\ Len(text) \in Nat /\ DOMAIN text = 1..Len(text)
      /\ Len(x) \in Nat /\ Len(y) \in Nat
  BY LenProperties
<1>2. Finds(text, x) \subseteq Nat
  BY <1>1 DEF Finds
<1>3. \E i \in Finds(text, x) : \A j \in Finds(text, x) : i <= j
  BY <1>2, LeastNatural
<1> DEFINE i == CHOOSE i \in Finds(text, x) : \A j \in Finds(text, x) : i <= j
           new == Replaced(text, x, y)
<1>4. i \in Finds(text, x) /\ \A j \in Finds(text, x) : i <= j
  BY <1>3
<1>5. new = SubSeq(text, 1, i - 1) \o y \o SubSeq(text, i + Len(x), Len(text))
  BY DEF Replaced
<1> HIDE DEF i, new
<1>6. i \in 1..Len(text) /\ Occurs(text, x, i) /\ i + Len(x) <= Len(text) + 1
  BY <1>1, <1>4 DEF Finds, Occurs
<1>7. \A j \in 1..(i - 1) : ~Occurs(text, x, j)
  <2> SUFFICES ASSUME NEW j \in 1..(i - 1), Occurs(text, x, j) PROVE FALSE
    OBVIOUS
  <2>1. j \in 1..Len(text) /\ ~(i <= j)
    BY <1>1, <1>6
  <2> QED BY <1>1, <1>4, <2>1 DEF Finds
<1>8. /\ new \in Seq(Marks)
      /\ Len(new) = Len(text) + Len(y) - Len(x)
      /\ \A k \in 1..(i - 1) : new[k] = text[k]
      /\ \A k \in 1..Len(y) : new[i - 1 + k] = y[k]
      /\ \A k \in (i + Len(x))..Len(text) : new[k + Len(y) - Len(x)] = text[k]
  <2>1. Len(x) \in Nat /\ i \in 1..Len(text) /\ i + Len(x) <= Len(text) + 1
    BY <1>1, <1>6
  <2>2. new = Splice(text, i, Len(x), y)
    BY <1>5 DEF Splice
  <2> HIDE DEF Marks
  <2>3. /\ Splice(text, i, Len(x), y) \in Seq(Marks)
        /\ Len(Splice(text, i, Len(x), y)) = Len(text) + Len(y) - Len(x)
        /\ \A k \in 1..(i - 1) : Splice(text, i, Len(x), y)[k] = text[k]
        /\ \A k \in 1..Len(y) : Splice(text, i, Len(x), y)[i - 1 + k] = y[k]
        /\ \A k \in (i + Len(x))..Len(text) :
             Splice(text, i, Len(x), y)[k + Len(y) - Len(x)] = text[k]
    BY <2>1, Spliced
  <2> QED BY <2>2, <2>3
<1>9. Len(new) + Len(x) = Len(text) + Len(y) /\ i + Len(y) <= Len(new) + 1
  BY <1>1, <1>6, <1>8
<1>10. Occurs(new, y, i)
  BY <1>8, <1>9 DEF Occurs
<1>11. FirstReplaced(text, new, x, y)
  BY <1>1, <1>6, <1>7, <1>8, <1>9, <1>10 DEF FirstReplaced
<1> QED BY <1>8, <1>11 DEF new

\* Writing n symbols of a text into a file leaves a file, and at its end, no hole.
LEMMA OverlaidText ==
  ASSUME NEW f \in Seq(Marks), NEW offset \in Nat, NEW text \in Seq(Marks),
         NEW n \in 1..Len(text), ~Overlap => offset = Len(f)
  PROVE  /\ Overlaid(f, offset, text, n) \in Seq(Marks)
         /\ offset = Len(f) =>
              Overlaid(f, offset, text, n) \o SubSeq(text, n + 1, Len(text)) = f \o text
         /\ offset = Len(f) => Len(Overlaid(f, offset, text, n)) = offset + n
         /\ SubSeq(text, n + 1, Len(text)) \in Seq(Marks)
<1> DEFINE size == IF Len(f) > offset + n THEN Len(f) ELSE offset + n
           g == Overlaid(f, offset, text, n)
           rest == SubSeq(text, n + 1, Len(text))
<1>1. /\ Len(f) \in Nat /\ \A i \in 1..Len(f) : f[i] \in Marks
      /\ Len(text) \in Nat /\ \A i \in 1..Len(text) : text[i] \in Marks
  BY LenProperties, ElementOfSeq
<1>2. size \in Nat /\ size >= offset + n /\ size >= Len(f)
  BY <1>1
<1>3. g = [i \in 1..size |->
             IF i \in (offset + 1)..(offset + n) THEN text[i - offset]
             ELSE IF i <= Len(f) THEN f[i] ELSE "nul"]
  BY DEF Overlaid
<1>4. Overlap => "nul" \in Marks
  BY DEF Marks
<1>5. ASSUME NEW i \in 1..size PROVE g[i] \in Marks
  <2>1. CASE i \in (offset + 1)..(offset + n)
    <3>1. i - offset \in 1..Len(text)
      BY <1>1, <2>1
    <3> QED BY <1>1, <1>3, <1>5, <2>1, <3>1
  <2>2. CASE i \notin (offset + 1)..(offset + n) /\ i <= Len(f)
    <3>1. i \in 1..Len(f)
      BY <1>1, <1>2, <1>5, <2>2
    <3> QED BY <1>1, <1>3, <1>5, <2>2, <3>1
  <2>3. CASE i \notin (offset + 1)..(offset + n) /\ ~(i <= Len(f))
    <3>1. Overlap
      BY <1>1, <1>2, <1>5, <2>3
    <3> QED BY <1>3, <1>4, <1>5, <2>3, <3>1
  <2> QED BY <2>1, <2>2, <2>3
<1>6. g \in Seq(Marks) /\ Len(g) = size
  <2>1. g \in [1..size -> Marks]
    BY <1>3, <1>5
  <2>2. size \in Nat
    BY <1>2
  <2> HIDE DEF g, size
  <2>3. g \in Seq(Marks) /\ DOMAIN g = 1..size
    BY <2>1, <2>2, SeqDef
  <2> QED BY <2>2, <2>3, LenProperties
<1>7. rest \in Seq(Marks) /\ Len(rest) = Len(text) - n
      /\ \A i \in 1..(Len(text) - n) : rest[i] = text[n + i]
  BY <1>1, SubSeqProperties
<1>8. ASSUME offset = Len(f) PROVE g \o rest = f \o text /\ Len(g) = offset + n
  <2>1. size = offset + n
    BY <1>1, <1>8
  <2>2. /\ \A i \in 1..Len(f) : g[i] = f[i]
        /\ \A i \in 1..n : g[Len(f) + i] = text[i]
    BY <1>1, <1>3, <1>8, <2>1
  <2> HIDE DEF g, rest, size
  <2>3. /\ Len(g) = Len(f) + n /\ Len(rest) = Len(text) - n /\ n \in Nat /\ n <= Len(text)
    BY <1>1, <1>6, <1>7, <1>8, <2>1
  <2>4. /\ g \o rest \in Seq(Marks) /\ Len(g \o rest) = Len(g) + Len(rest)
        /\ \A i \in 1..(Len(g) + Len(rest)) :
             (g \o rest)[i] = IF i <= Len(g) THEN g[i] ELSE rest[i - Len(g)]
    <3>1. g \in Seq(Marks) /\ rest \in Seq(Marks)
      BY <1>6, <1>7
    <3> QED BY ONLY <3>1, ConcatProperties
  <2>5. /\ f \o text \in Seq(Marks) /\ Len(f \o text) = Len(f) + Len(text)
        /\ \A i \in 1..(Len(f) + Len(text)) :
             (f \o text)[i] = IF i <= Len(f) THEN f[i] ELSE text[i - Len(f)]
    BY ConcatProperties
  <2>6. ASSUME NEW i \in 1..(Len(f) + Len(text)) PROVE (g \o rest)[i] = (f \o text)[i]
    <3>1. i \in 1..(Len(g) + Len(rest)) /\ i \in Nat
      BY <1>1, <2>3, <2>6
    <3>2. CASE i <= Len(f)
      <4>1. i \in 1..Len(f) /\ i <= Len(g)
        BY <1>1, <2>3, <3>1, <3>2
      <4> QED BY <2>2, <2>4, <2>5, <2>6, <3>1, <3>2, <4>1
    <3>3. CASE ~(i <= Len(f)) /\ i <= Len(g)
      <4>1. i - Len(f) \in 1..n /\ Len(f) + (i - Len(f)) = i
        BY <1>1, <2>3, <3>1, <3>3
      <4>2. g[i] = text[i - Len(f)]
        BY <2>2, <4>1
      <4> QED BY <2>4, <2>5, <2>6, <3>1, <3>3, <4>2
    <3>4. CASE ~(i <= Len(f)) /\ ~(i <= Len(g))
      <4>1. i - Len(g) \in 1..(Len(text) - n) /\ n + (i - Len(g)) = i - Len(f)
        BY <1>1, <2>3, <2>6, <3>1, <3>4
      <4>2. rest[i - Len(g)] = text[i - Len(f)]
        BY <1>7, <4>1
      <4> QED BY <2>4, <2>5, <2>6, <3>1, <3>4, <4>2
    <3> QED BY <3>2, <3>3, <3>4
  <2>7. Len(g \o rest) = Len(f) + Len(text)
    BY <1>1, <2>3, <2>4
  <2>8. g \o rest = f \o text
    BY <2>4, <2>5, <2>6, <2>7, SeqEqual
  <2> QED BY <1>6, <2>1, <2>8
<1> QED BY <1>6, <1>7, <1>8
-----------------------------------------------------------------------------
(* Every step of a call. *)

Ats == {"idle", "open", "write"} \cup Ended

\* Where a call goes; the others stay.
LEMMA StepTo ==
  ASSUME DataInv, NEW c \in Calls, NEW from, NEW to \in Ats, Step(c, from, to)
  PROVE  /\ at[c] = from /\ at' \in [Calls -> Ats]
         /\ at'[c] = to /\ \A o \in Calls \ {c} : at'[o] = at[o]
BY DEF DataInv, Step, Ats

\* A step that begins a call: what it means to leave is text, and for an edit the
\* text it read with the first match replaced.
LEMMA EditBegins ==
  ASSUME DataInv, NEW c \in Edits, Accepted(c), See(c)
  PROVE  /\ Begun(c)'
         /\ Meant(c)' = Replaced(ReadText(disk), Tool[c].find, Tool[c].replace)
<1>1. /\ c \in Calls /\ disk \in Seq(Marks)
      /\ Tool[c].find \in Seq(Symbols) /\ Tool[c].replace \in Seq(Marks)
  BY ToolAssumption, MoreMarks DEF Edits, Accepted, IsText, DataInv, Files
<1>2. seen'[c] = disk
  BY <1>1 DEF See, DataInv
<1>3. Meant(c)' = Replaced(ReadText(disk), Tool[c].find, Tool[c].replace)
  BY <1>2 DEF Meant
<1>4. /\ ReadText(disk) \in Seq(Marks)
      /\ Finds(ReadText(disk), Tool[c].find) # {}
  BY <1>1, TextRead DEF Accepted
<1>5. /\ Replaced(ReadText(disk), Tool[c].find, Tool[c].replace) \in Seq(Marks)
      /\ FirstReplaced(ReadText(disk), Replaced(ReadText(disk), Tool[c].find, Tool[c].replace),
                       Tool[c].find, Tool[c].replace)
  BY <1>1, <1>4, ReplacesFirst
<1>6. Begun(c)'
  BY <1>2, <1>3, <1>5 DEF Begun, Leaves
<1> QED BY <1>3, <1>6

LEMMA WriteBegins ==
  ASSUME NEW c \in Calls \ Edits
  PROVE  /\ Begun(c)' /\ Meant(c)' = Tool[c].content
         /\ Tool[c].content \in Seq(Marks)
<1>1. c \notin Edits /\ Tool[c].content \in Seq(Symbols)
  BY ToolAssumption
<1>2. Tool[c].content \in Seq(Marks)
  BY <1>1, MoreMarks
<1> QED BY <1>1, <1>2 DEF Begun, Meant, Leaves

\* A call that begins: the step changes nothing else.
LEMMA CallBegins ==
  ASSUME DataInv, NEW c \in Calls, Edit(c) \/ Write(c)
  PROVE  /\ at[c] = "idle" /\ MayBegin /\ UNCHANGED <<disk, pos>>
         /\ at' \in [Calls -> Ats] /\ \A o \in Calls \ {c} : at'[o] = at[o]
         /\ todo' \in [Calls -> Seq(Marks)] /\ \A o \in Calls \ {c} : todo'[o] = todo[o]
         /\ See(c)
         /\ \/ at'[c] = "error" /\ UNCHANGED todo /\ c \in Edits /\ ~Accepted(c)
            \/ at'[c] = "open" /\ Begun(c)' /\ todo'[c] = Meant(c)'
<1>1. CASE Write(c)
  <2>1. c \in Calls \ Edits /\ todo' = [todo EXCEPT ![c] = Tool[c].content]
        /\ Step(c, "idle", "open")
    BY <1>1 DEF Write
  <2> QED BY <1>1, <2>1, WriteBegins, StepTo DEF Write, DataInv, Ats
<1>2. CASE Edit(c) /\ Accepted(c)
  <2>1. /\ c \in Edits /\ Step(c, "idle", "open") /\ See(c)
        /\ todo' = [todo EXCEPT ![c] = Replaced(ReadText(disk), Tool[c].find, Tool[c].replace)]
    BY <1>2 DEF Edit
  <2>2. /\ Begun(c)' /\ todo'[c] = Meant(c)' /\ Meant(c)' \in Seq(Marks)
    BY <1>2, <2>1, EditBegins DEF DataInv, Begun
  <2>3. todo' \in [Calls -> Seq(Marks)] /\ \A o \in Calls \ {c} : todo'[o] = todo[o]
    BY <1>2, <2>1, <2>2, EditBegins DEF DataInv
  <2> QED BY <1>2, <2>1, <2>2, <2>3, StepTo DEF Edit, Ats
<1>3. CASE Edit(c) /\ ~Accepted(c)
  <2>1. c \in Edits /\ Step(c, "idle", "error") /\ UNCHANGED todo
    BY <1>3 DEF Edit
  <2> QED BY <1>3, <2>1, StepTo DEF Edit, DataInv, Ats, Ended
<1> QED BY <1>1, <1>2, <1>3

\* A call that writes n symbols.
LEMMA PutWrites ==
  ASSUME DataInv, NEW c \in Calls, ~Overlap => pos[c] = Len(disk), Put(c)
  PROVE  /\ at[c] = "write" /\ UNCHANGED <<at, seen>>
         /\ disk' \in Seq(Marks)
         /\ pos' \in [Calls -> Nat] /\ todo' \in [Calls -> Seq(Marks)]
         /\ \A o \in Calls \ {c} : todo'[o] = todo[o] /\ pos'[o] = pos[o]
         /\ pos[c] = Len(disk) => pos'[c] = Len(disk') /\ disk' \o todo'[c] = disk \o todo[c]
<1>1. at[c] = "write" /\ at' = at /\ UNCHANGED seen /\ disk \in Seq(Marks)
  BY DEF Put, Step, DataInv
<1>2. PICK n \in 1..Len(todo[c]) :
        /\ disk' = Overlaid(disk, pos[c], todo[c], n)
        /\ pos' = [pos EXCEPT ![c] = @ + n]
        /\ todo' = [todo EXCEPT ![c] = SubSeq(@, n + 1, Len(@))]
  BY DEF Put
<1>3. pos[c] \in Nat /\ todo[c] \in Seq(Marks) /\ Len(todo[c]) \in Nat /\ n \in Nat
  BY LenProperties DEF DataInv
<1>4. /\ disk' \in Seq(Marks)
      /\ SubSeq(todo[c], n + 1, Len(todo[c])) \in Seq(Marks)
      /\ pos[c] = Len(disk) => /\ Len(disk') = pos[c] + n
                              /\ disk' \o SubSeq(todo[c], n + 1, Len(todo[c])) = disk \o todo[c]
  <2>1. n \in 1..Len(todo[c]) /\ (~Overlap => pos[c] = Len(disk))
    BY <1>2
  <2>2. /\ Overlaid(disk, pos[c], todo[c], n) \in Seq(Marks)
        /\ pos[c] = Len(disk) =>
             /\ Overlaid(disk, pos[c], todo[c], n) \o SubSeq(todo[c], n + 1, Len(todo[c]))
                  = disk \o todo[c]
             /\ Len(Overlaid(disk, pos[c], todo[c], n)) = pos[c] + n
        /\ SubSeq(todo[c], n + 1, Len(todo[c])) \in Seq(Marks)
    <3> HIDE DEF Marks
    <3>1. disk \in Seq(Marks) /\ pos[c] \in Nat /\ todo[c] \in Seq(Marks)
      BY <1>1, <1>3
    <3> QED BY ONLY <2>1, <3>1, OverlaidText
  <2> QED BY <1>2, <2>2
<1>5. /\ todo'[c] = SubSeq(todo[c], n + 1, Len(todo[c])) /\ pos'[c] = pos[c] + n
      /\ \A o \in Calls \ {c} : todo'[o] = todo[o] /\ pos'[o] = pos[o]
  BY <1>2 DEF DataInv
<1>6. pos' \in [Calls -> Nat] /\ todo' \in [Calls -> Seq(Marks)]
  BY <1>2, <1>3, <1>4 DEF DataInv
<1> QED BY <1>1, <1>4, <1>5, <1>6

\* The steps that move a call on and take nothing from its text.
LEMMA CallMoves ==
  ASSUME DataInv, NEW c \in Calls, Open(c) \/ Close(c) \/ Break(c)
  PROVE  /\ UNCHANGED <<todo, pos, seen>> /\ Running(c)
         /\ at' \in [Calls -> Ats] /\ \A o \in Calls \ {c} : at'[o] = at[o]
         /\ \/ at[c] = "open" /\ at'[c] = "write" /\ disk' = <<>>
            \/ at[c] = "write" /\ at'[c] = "success" /\ todo[c] = <<>> /\ UNCHANGED disk
            \/ at'[c] \in {"raised", "dead"} /\ UNCHANGED disk
<1>1. CASE Open(c)
  <2>1. \/ Step(c, "open", "write") /\ disk' = <<>>
        \/ Step(c, "open", "raised") /\ UNCHANGED disk
    BY <1>1 DEF Open
  <2> QED BY <1>1, <2>1, StepTo DEF Open, Running, Ats, Ended
<1>2. CASE Close(c)
  <2>1. Step(c, "write", "success") /\ todo[c] = <<>> /\ UNCHANGED disk
    BY <1>2 DEF Close
  <2> QED BY <1>2, <2>1, StepTo DEF Close, Running, Ats, Ended
<1>3. CASE Break(c)
  <2>1. \E to \in {"raised", "dead"} : at' = [at EXCEPT ![c] = to]
    BY <1>3 DEF Break, Step
  <2>2. Running(c)
    BY <1>3 DEF Break, Step, Running, Ended
  <2> QED BY <1>3, <2>1, <2>2 DEF Break, DataInv, Ats, Ended
<1> QED BY <1>1, <1>2, <1>3

LEMMA DataNext ==
  ASSUME FileInv, [Next]_fileVars
  PROVE  DataInv'
<1>0. DataInv /\ \A c \in Calls : (at[c] = "write" /\ ~Overlap) => pos[c] = Len(disk)
  BY DEF FileInv, Placed
<1>1. ASSUME NEW c \in Calls, Edit(c) \/ Write(c) PROVE DataInv'
  <2>1. seen' \in [Calls -> Files]
    BY <1>0, <1>1, CallBegins DEF See, DataInv
  <2>2. /\ UNCHANGED <<disk, pos>> /\ at'[c] \in {"error", "open"}
        /\ at' \in [Calls -> Ats] /\ \A o \in Calls \ {c} : at'[o] = at[o]
        /\ todo' \in [Calls -> Seq(Marks)] /\ \A o \in Calls \ {c} : todo'[o] = todo[o]
    BY <1>0, <1>1, CallBegins
  <2> QED BY <1>0, <2>1, <2>2 DEF DataInv, Ats
<1>2. ASSUME NEW c \in Calls, Put(c) PROVE DataInv'
  <2>1. ~Overlap => pos[c] = Len(disk)
    BY <1>0, <1>2 DEF Put, Step
  <2>2. /\ at[c] = "write" /\ UNCHANGED <<at, seen>> /\ disk' \in Seq(Marks)
        /\ pos' \in [Calls -> Nat] /\ todo' \in [Calls -> Seq(Marks)]
        /\ \A o \in Calls \ {c} : todo'[o] = todo[o]
    BY <1>0, <1>2, <2>1, PutWrites
  <2> QED BY <1>0, <2>2 DEF DataInv, Files
<1>3. ASSUME NEW c \in Calls, Open(c) \/ Close(c) \/ Break(c) PROVE DataInv'
  <2>1. disk' \in {disk, <<>>} /\ <<>> \in Seq(Marks) /\ <<>> \in Files
    BY <1>0, <1>3, CallMoves, EmptySeq DEF Files
  <2>2. /\ UNCHANGED <<todo, pos, seen>>
        /\ at' \in [Calls -> Ats] /\ \A o \in Calls \ {c} : at'[o] = at[o]
        /\ at'[c] = "success" => todo[c] = <<>>
        /\ at'[c] = "write" => disk' = <<>>
    BY <1>0, <1>3, CallMoves
  <2> QED BY <1>0, <2>1, <2>2 DEF DataInv, Ats
<1>4. CASE UNCHANGED fileVars
  BY <1>0, <1>4 DEF fileVars, DataInv
<1> QED BY <1>1, <1>2, <1>3, <1>4 DEF Next, AllEnded

\* A call that has not begun or is over stands nowhere in its text.
LEMMA PlacedNowhere ==
  ASSUME NEW c \in Calls, at'[c] = "idle" => pos'[c] = 0, at'[c] \notin {"open", "write"}
  PROVE  Placed(c)'
BY DEF Placed

LEMMA PlacedNext ==
  ASSUME FileInv, ~Overlap, [Next]_fileVars
  PROVE  Alone' /\ \A c \in Calls : Placed(c)'
<1>0. DataInv /\ Alone /\ \A c \in Calls : Placed(c)
  BY DEF FileInv
<1>1. ASSUME NEW c \in Calls, Edit(c) \/ Write(c)
      PROVE  Alone' /\ \A o \in Calls : Placed(o)'
  <2>1. /\ at[c] = "idle" /\ UNCHANGED <<disk, pos>>
        /\ \A o \in Calls \ {c} : at'[o] = at[o]
        /\ \A o \in Calls : ~Running(o)
    BY <1>0, <1>1, CallBegins DEF MayBegin
  <2>2. \A o \in Calls \ {c} : at'[o] \notin {"open", "write"} /\ ~Running(o)'
    BY <2>1 DEF Running, Ended
  <2>3. ASSUME NEW o \in Calls \ {c} PROVE Placed(o)'
    BY <1>0, <2>1, <2>2, PlacedNowhere DEF Placed
  <2>4. pos'[c] = 0
    BY <1>0, <2>1 DEF Placed
  <2>5. at'[c] = "error" \/ (at'[c] = "open" /\ Begun(c)' /\ todo'[c] = Meant(c)')
    BY <1>0, <1>1, CallBegins
  <2>6. Placed(c)'
    <3>1. seen'[c] = disk'
      BY <1>0, <1>1, <2>1, CallBegins DEF See, DataInv
    <3> QED BY <2>4, <2>5, <3>1 DEF Placed
  <2>7. Alone'
    BY <2>2 DEF Alone
  <2> QED BY <2>3, <2>6, <2>7
<1>2. ASSUME NEW c \in Calls, at[c] \in {"open", "write"},
             NEW o \in Calls \ {c}, at'[o] = at[o], pos'[o] = pos[o]
      PROVE  Placed(o)' /\ ~Running(o)'
  <2>1. Running(c) /\ ~Running(o)
    BY <1>0, <1>2 DEF Alone, Running, Ended
  <2>2. at'[o] \notin {"open", "write"} /\ ~Running(o)'
    BY <1>2, <2>1 DEF Running, Ended
  <2> QED BY <1>0, <1>2, <2>2, PlacedNowhere DEF Placed
<1>3. ASSUME NEW c \in Calls, Put(c)
      PROVE  Alone' /\ \A o \in Calls : Placed(o)'
  <2>0. at[c] = "write" /\ Begun(c) /\ pos[c] = Len(disk) /\ disk \o todo[c] = Meant(c)
    BY <1>0, <1>3 DEF Put, Step, Placed
  <2>1. /\ UNCHANGED <<at, seen>>
        /\ \A o \in Calls \ {c} : pos'[o] = pos[o]
        /\ pos'[c] = Len(disk') /\ disk' \o todo'[c] = disk \o todo[c]
    BY <1>0, <1>3, <2>0, PutWrites
  <2>2. Begun(c)' /\ Meant(c)' = Meant(c)
    BY <2>0, <2>1 DEF Begun, Meant, Leaves
  <2>3. Placed(c)'
    BY <2>0, <2>1, <2>2 DEF Placed
  <2>4. \A o \in Calls \ {c} : Placed(o)'
    BY <1>2, <2>0, <2>1
  <2>5. Alone'
    BY <1>0, <2>1 DEF Alone, Running
  <2> QED BY <2>3, <2>4, <2>5
<1>4. ASSUME NEW c \in Calls, Open(c) \/ Close(c) \/ Break(c)
      PROVE  Alone' /\ \A o \in Calls : Placed(o)'
  <2>1. /\ UNCHANGED <<todo, pos, seen>> /\ Running(c)
        /\ \A o \in Calls \ {c} : at'[o] = at[o]
        /\ \/ at[c] = "open" /\ at'[c] = "write" /\ disk' = <<>>
           \/ at'[c] \in {"success", "raised", "dead"}
    BY <1>0, <1>4, CallMoves
  <2>2. at[c] \in {"open", "write"}
    BY <1>0, <2>1 DEF DataInv, Running, Ended
  <2>3. \A o \in Calls \ {c} : Placed(o)' /\ ~Running(o)'
    BY <1>2, <2>1, <2>2
  <2>4. Begun(c)' = Begun(c) /\ Meant(c)' = Meant(c)
    BY <2>1 DEF Begun, Meant, Leaves
  <2>5. Placed(c)'
    <3>1. CASE at[c] = "open" /\ at'[c] = "write" /\ disk' = <<>>
      <4>1. /\ Begun(c) /\ todo[c] = Meant(c) /\ pos[c] = 0 /\ todo[c] \in Seq(Marks)
        BY <1>0, <3>1 DEF Placed, DataInv
      <4>2. disk' \o todo[c] = todo[c] /\ Len(disk') = 0
        BY <3>1, <4>1, ConcatEmptySeq, EmptySeq
      <4> QED BY <2>1, <2>4, <3>1, <4>1, <4>2 DEF Placed
    <3>2. CASE at'[c] \in {"success", "raised", "dead"}
      BY <3>2, PlacedNowhere
    <3> QED BY <2>1, <3>1, <3>2
  <2>6. Alone'
    BY <2>3 DEF Alone
  <2> QED BY <2>3, <2>5, <2>6
<1>5. CASE UNCHANGED fileVars
  BY <1>0, <1>5 DEF fileVars, Alone, Running, Placed, Begun, Meant, Leaves
<1> QED BY <1>1, <1>3, <1>4, <1>5 DEF Next, AllEnded

LEMMA FileInit == Init => FileInv
<1> SUFFICES ASSUME Init PROVE FileInv
  OBVIOUS
<1>1. disk \in Files /\ Missing \in Files
  BY StartAssumption, MoreMarks DEF Init, Files
<1>2. todo \in [Calls -> Seq(Marks)]
  BY EmptySeq DEF Init
<1> QED BY <1>1, <1>2 DEF Init, FileInv, DataInv, Alone, Running, Placed

LEMMA FileNext == FileInv /\ [Next]_fileVars => FileInv'
BY DataNext, PlacedNext DEF FileInv
-----------------------------------------------------------------------------
(* What the tools leave. *)

\* Every variable has its type: a file is missing, a directory or a text without
\* holes, unless calls overlap; and a call that succeeded has written all its text,
\* whichever calls are killed or fail in between (write_text).
THEOREM FileTypes == Spec => []TypeOK
<1>1. FileInv => TypeOK
  BY DEF FileInv, DataInv, TypeOK
<1> QED BY <1>1, FileInit, FileNext, PTL DEF Spec

\* As long as no two calls run at once, and for any text to be found and any to take
\* its place: an edit that succeeds leaves the text it read with the first match
\* replaced and nothing else, a write its content, a refused edit the file as it was,
\* and a call that raises or is killed the file as it was or the beginning of the
\* text it should leave, also on what calls that were killed or failed have left
\* (EditTool.execute, WriteTool.execute).
THEOREM CallsAreExact == Spec /\ ~Overlap => CallsExact
<1> DEFINE Exact(c) ==
      at'[c] # at[c] =>
        /\ at'[c] = "success" => Leaves(c, disk')
        /\ at'[c] \in {"raised", "dead"} => disk' = seen[c] \/ Leaves(c, disk' \o todo[c])
        /\ at'[c] = "error" =>
             /\ disk' = seen'[c]
             /\ (IsText(disk) /\ Tool[c].find # <<>>) =>
                  Finds(ReadText(disk), Tool[c].find) = {}
<1>1. ASSUME FileInv, ~Overlap, Next, NEW c \in Calls PROVE Exact(c)
  <2> SUFFICES ASSUME at'[c] # at[c] PROVE Exact(c)
    OBVIOUS
  <2>0. DataInv /\ Placed(c)
    BY <1>1 DEF FileInv
  <2>1. PICK o \in Calls : Edit(o) \/ Write(o) \/ Open(o) \/ Put(o) \/ Close(o) \/ Break(o)
    BY <1>1 DEF Next, AllEnded, fileVars
  <2>2. CASE Edit(o) \/ Write(o)
    <3>1. o = c
      BY <2>0, <2>2, CallBegins
    <3>2. at'[c] \in {"error", "open"} /\ See(c) /\ disk' = disk
      BY <2>0, <2>2, <3>1, CallBegins
    <3>3. disk' = seen'[c]
      BY <2>0, <3>2 DEF See, DataInv
    <3>4. at'[c] = "error" => ~Accepted(c)
      BY <2>0, <2>2, <3>1, CallBegins
    <3> QED BY <3>2, <3>3, <3>4 DEF Accepted
  <2>3. CASE Put(o)
    BY <2>0, <2>3 DEF Put, Step, DataInv
  <2>4. CASE Open(o) \/ Close(o) \/ Break(o)
    <3>1. o = c
      BY <2>0, <2>4, CallMoves
    <3>2. /\ at[c] \in {"open", "write"}
          /\ \/ at'[c] = "write"
             \/ at[c] = "write" /\ at'[c] = "success" /\ todo[c] = <<>> /\ disk' = disk
             \/ at'[c] \in {"raised", "dead"} /\ disk' = disk
      BY <2>0, <2>4, <3>1, CallMoves DEF DataInv, Running, Ended
    <3>3. ASSUME at[c] = "write" PROVE Leaves(c, disk \o todo[c]) /\ disk \in Seq(Marks)
      BY <2>0, <3>3 DEF Placed, DataInv, Begun
    <3>4. ASSUME at'[c] = "success" PROVE Leaves(c, disk')
      <4>1. at[c] = "write" /\ todo[c] = <<>> /\ disk' = disk
        BY <3>2, <3>4
      <4>2. disk \o <<>> = disk
        BY <3>3, <4>1, ConcatEmptySeq
      <4> QED BY <3>3, <4>1, <4>2
    <3>5. ASSUME at'[c] \in {"raised", "dead"}
          PROVE  disk' = seen[c] \/ Leaves(c, disk' \o todo[c])
      <4>1. disk' = disk
        BY <3>2, <3>5
      <4>2. at[c] = "open" => disk = seen[c]
        BY <2>0 DEF Placed
      <4> QED BY <3>2, <3>3, <4>1, <4>2
    <3>6. at'[c] # "error"
      BY <3>2
    <3> QED BY <3>4, <3>5, <3>6
  <2> QED BY <2>1, <2>2, <2>3, <2>4
<1> DEFINE Inv == FileInv /\ ~Overlap
<1>2. Inv /\ [Next]_fileVars => [\A c \in Calls : Exact(c)]_fileVars
  BY <1>1
<1>3. Init /\ ~Overlap => Inv
  BY FileInit
<1>4. Inv /\ [Next]_fileVars => Inv'
  BY FileNext
<1> QED BY <1>2, <1>3, <1>4, PTL DEF Spec, CallsExact
=============================================================================
