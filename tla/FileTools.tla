----------------------------- MODULE FileTools -----------------------------
(***************************************************************************)
(* The tools that change files, Edit and Write (tools/builtins), on one    *)
(* path: calls of one session after the other, of several processes at     *)
(* once. Both write with Path.write_text: the file is truncated, then the  *)
(* text goes out from its own offset, in pieces, with nothing held.        *)
(***************************************************************************)
EXTENDS Naturals, Sequences, FiniteSets

CONSTANTS
  Calls,
  Symbols,    \* what texts are made of: characters, a CRLF being one
  Tool,       \* call -> [find, replace] for Edit, [content] for Write
  Starts,     \* what the path may be at first: a text, Missing or Directory
  Missing, Directory,
  Overlap,    \* may calls run at the same time?
  Mortal      \* the calls whose process may be killed

VARIABLES
  disk,       \* what is at the path
  at,         \* call -> where it stands
  todo,       \* call -> the text still to be written
  pos,        \* call -> its offset in the file
  seen        \* history: call -> what was at the path when it began

fileVars == <<disk, at, todo, pos, seen>>

Edits == {c \in Calls : "find" \in DOMAIN Tool[c]}
IsText(f) == f \notin {Missing, Directory}

\* read_text with errors="replace" and universal newlines.
Decoded(x) == CASE x = "crlf" -> "lf" [] x = "bad" -> "replacement" [] OTHER -> x
ReadText(f) == [i \in DOMAIN f |-> Decoded(f[i])]

\* "nul" is what nobody wrote.
ASSUME SymbolAssumption ==
  "nul" \notin Symbols /\ \A x \in Symbols : Decoded(x) \in Symbols
ASSUME StartAssumption == Starts \subseteq {Missing, Directory} \cup Seq(Symbols)
ASSUME ToolAssumption ==
  \A c \in Calls :
    IF c \in Edits THEN {Tool[c].find, Tool[c].replace} \subseteq Seq(Symbols)
                   ELSE Tool[c].content \in Seq(Symbols)

\* What a file may be made of: holes only where calls overlap.
Marks == IF Overlap THEN Symbols \cup {"nul"} ELSE Symbols
Files == {Missing, Directory} \cup Seq(Marks)

\* Where a text holds another.
Occurs(text, x, i) ==
  /\ i + Len(x) <= Len(text) + 1
  /\ \A k \in 1..Len(x) : text[i - 1 + k] = x[k]
Finds(text, x) == {i \in DOMAIN text : Occurs(text, x, i)}

\* Mutant: replace without a count.
ReplacedAll(text, x, y) ==
  LET from[i \in 1..(Len(text) + 1)] ==
        IF i > Len(text) THEN <<>>
        ELSE IF i \in Finds(text, x) THEN y \o from[i + Len(x)]
        ELSE <<text[i]>> \o from[i + 1]
  IN  from[1]

\* original.replace(find, replace, 1)
Replaced(text, x, y) ==
  LET i == CHOOSE i \in Finds(text, x) : \A j \in Finds(text, x) : i <= j
  IN  SubSeq(text, 1, i - 1) \o y \o SubSeq(text, i + Len(x), Len(text))

Init ==
  /\ disk \in Starts
  /\ at = [c \in Calls |-> "idle"]
  /\ todo = [c \in Calls |-> <<>>]
  /\ pos = [c \in Calls |-> 0]
  /\ seen = [c \in Calls |-> Missing]

Ended == {"success", "error", "raised", "dead"}
Running(c) == at[c] \notin Ended \cup {"idle"}
MayBegin == (\E o \in Calls : Running(o)) => Overlap

Step(c, from, to) == at[c] = from /\ at' = [at EXCEPT ![c] = to]
See(c) == seen' = [seen EXCEPT ![c] = disk]

Accepted(c) ==
  /\ IsText(disk)                                     \* else FILE_NOT_FOUND, NOT_A_FILE
  /\ Tool[c].find # <<>>                              \* else EMPTY_FIND
  /\ Finds(ReadText(disk), Tool[c].find) # {}         \* else FIND_TARGET_NOT_FOUND

Edit(c) ==
  /\ c \in Edits /\ MayBegin /\ See(c)
  /\ \/ /\ ~Accepted(c)
        /\ Step(c, "idle", "error")
        /\ UNCHANGED todo
     \/ /\ Accepted(c)
        /\ Step(c, "idle", "open")
        /\ todo' = [todo EXCEPT ![c] =
                      Replaced(ReadText(disk), Tool[c].find, Tool[c].replace)]
  /\ UNCHANGED <<disk, pos>>

Write(c) ==
  /\ c \in Calls \ Edits /\ MayBegin /\ See(c)
  /\ Step(c, "idle", "open")
  /\ todo' = [todo EXCEPT ![c] = Tool[c].content]
  /\ UNCHANGED <<disk, pos>>

\* open(path, "w") creates or truncates; it raises for a directory.
Open(c) ==
  /\ \/ disk # Directory /\ Step(c, "open", "write") /\ disk' = <<>>
     \/ disk = Directory /\ Step(c, "open", "raised") /\ UNCHANGED disk
  /\ UNCHANGED <<todo, pos, seen>>

\* The file with n more symbols of a text from an offset on.
Overlaid(f, offset, text, n) ==
  [i \in 1..(IF Len(f) > offset + n THEN Len(f) ELSE offset + n) |->
     IF i \in (offset + 1)..(offset + n) THEN text[i - offset]
     ELSE IF i <= Len(f) THEN f[i] ELSE "nul"]

Put(c) ==
  /\ Step(c, "write", "write")
  /\ \E n \in 1..Len(todo[c]) :
       /\ disk' = Overlaid(disk, pos[c], todo[c], n)
       /\ pos' = [pos EXCEPT ![c] = @ + n]
       /\ todo' = [todo EXCEPT ![c] = SubSeq(@, n + 1, Len(@))]
  /\ UNCHANGED seen

\* Mutant: what is still buffered is not written.
CloseUnflushed(c) ==
  /\ Step(c, "write", "success")
  /\ UNCHANGED <<disk, todo, pos, seen>>

Close(c) ==
  /\ todo[c] = <<>>
  /\ Step(c, "write", "success")
  /\ UNCHANGED <<disk, todo, pos, seen>>

\* A write raises, or the process is killed; what is in the file stays.
Break(c) ==
  /\ \/ Step(c, "write", "raised")
     \/ c \in Mortal /\ Running(c) /\ at' = [at EXCEPT ![c] = "dead"]
  /\ UNCHANGED <<disk, todo, pos, seen>>

AllEnded == (\A c \in Calls : at[c] \in Ended) /\ UNCHANGED fileVars

Next ==
  \/ \E c \in Calls : Edit(c) \/ Write(c) \/ Open(c) \/ Put(c) \/ Close(c) \/ Break(c)
  \/ AllEnded

Spec == Init /\ [][Next]_fileVars
-----------------------------------------------------------------------------
(* What the tools promise, and what is documented and not kept. *)

\* Every variable has its type: a file is missing, a directory or a text without
\* holes, unless calls overlap; and a call that succeeded has written all its text
\* (write_text).
TypeOK ==
  /\ disk \in Files
  /\ at \in [Calls -> {"idle", "open", "write"} \cup Ended]
  /\ todo \in [Calls -> Seq(Marks)]
  /\ pos \in [Calls -> Nat]
  /\ seen \in [Calls -> Files]
  /\ \A c \in Calls : todo[c] # <<>> => at[c] # "success"

\* The text with the first x, at i, turned into y, and all around it as it was.
FirstReplaced(old, new, x, y) ==
  \E i \in DOMAIN old :
    /\ Occurs(old, x, i) /\ \A j \in 1..(i - 1) : ~Occurs(old, x, j)
    /\ Len(new) + Len(x) = Len(old) + Len(y)
    /\ \A k \in 1..(i - 1) : new[k] = old[k]
    /\ Occurs(new, y, i)
    /\ \A k \in (i + Len(x))..Len(old) : new[k + Len(y) - Len(x)] = old[k]

\* Is this the text the call should leave?
Leaves(c, text) ==
  IF c \in Edits THEN FirstReplaced(ReadText(seen[c]), text, Tool[c].find, Tool[c].replace)
                 ELSE text = Tool[c].content

\* A call nobody runs beside leaves what it says, also after calls that broke:
\* a successful Edit the text it read with the first match replaced and nothing
\* else, whatever the replacement is; a Write its content; a refused Edit the file
\* as it was, which has no such text as it is read (a CRLF is read as a line feed).
\* One that raises or is killed leaves the file as it was, or cut off: the beginning
\* of the text it should leave, the rest of which it still held. Nothing else, and
\* never the old text beside the new.
CallsExact ==
  [][ \A c \in Calls : at'[c] # at[c] =>
        /\ at'[c] = "success" => Leaves(c, disk')
        /\ at'[c] \in {"raised", "dead"} => disk' = seen[c] \/ Leaves(c, disk' \o todo[c])
        /\ at'[c] = "error" =>
             /\ disk' = seen'[c]
             /\ (IsText(disk) /\ Tool[c].find # <<>>) =>
                  Finds(ReadText(disk), Tool[c].find) = {} ]_fileVars

\* "Edit preserves existing newline style" (docs/spec.md:863).
EditKeepsNewlines ==
  \A c \in Edits : (at[c] = "success" /\ IsText(seen[c])) =>
    Cardinality(Finds(disk, <<"crlf">>)) = Cardinality(Finds(seen[c], <<"crlf">>))

\* "Write ... atomic write temp+rename" (docs/spec.md:854): whoever looks at the
\* path finds the old text or the new one.
WriteAtomic ==
  \A c \in Calls \ Edits : at[c] # "idle" => disk \in {seen[c], Tool[c].content}

\* "fs-write tools are serialized per canonical path lock" (docs/spec.md:821):
\* when edits of different places have succeeded, each shows.
NoEditLost ==
  \A c \in Edits : (\A o \in Calls : at[o] = "success") => Finds(disk, Tool[c].replace) # {}
=============================================================================
