------------------------------ MODULE MCFiles ------------------------------
(* Instances of the file tools for TLC. *)
EXTENDS FileTools, TLC

CONSTANTS c1, c2, c3, c4

\* Two edits, one whose replacement holds what it looks for and makes the other's
\* text, the other of a text it takes out, an overwrite, and an edit with nothing
\* to find.
EditsAndWrite ==
  c1 :> [find |-> <<"a", "b">>, replace |-> <<"b", "a", "b">>]
  @@ c2 :> [find |-> <<"b">>, replace |-> <<>>]
  @@ c3 :> [content |-> <<"b", "a">>]
  @@ c4 :> [find |-> <<>>, replace |-> <<"z">>]

\* Edits of different places.
TwoEdits ==
  c1 :> [find |-> <<"a">>, replace |-> <<"c">>] @@ c2 :> [find |-> <<"b">>, replace |-> <<"z">>]

\* Texts without a match, with one and with several, none and a directory.
AnyStart ==
  {Missing, Directory, <<>>, <<"bad", "a", "b">>, <<"c", "lf">>, <<"a", "b", "crlf">>,
   <<"b", "a", "b", "a", "b">>, <<"a", "a", "b", "lf", "b">>}
=============================================================================
