----------------------------- MODULE MCCommand -----------------------------
(* Instances of the command line for TLC. *)
EXTENDS CommandLine

Plain == [syntax |-> "ok", input |-> "text", output |-> "text",
          prompt |-> "no", latest |-> FALSE, resume |-> "no"]

\* Every combination that parses, and one each that does not.
EveryArgs == {a \in Args : a.syntax = "ok" \/ a = [Plain EXCEPT !.syntax = a.syntax]}
=============================================================================
