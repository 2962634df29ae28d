------------------------------ MODULE MCIndex ------------------------------
(* Instances of the session index for TLC. *)
EXTENDS SessionIndex, TLC

CONSTANTS r1, r2, r3, r4

Named(s, d, p) == [latest |-> FALSE, sid |-> s, cwd |-> d, persist |-> p]
Continue(d) == [latest |-> TRUE, sid |-> 1, cwd |-> d, persist |-> TRUE]

\* Three invocations in two directories, one of which may be a --continue, and
\* a last one that is.
SharedIndex ==
  r1 :> {Named(1, "a", TRUE)}
  @@ r2 :> {Named(2, "a", FALSE), Named(2, "b", TRUE)}
  @@ r3 :> {Named(3, "a", TRUE), Continue("a")}
  @@ r4 :> {Continue("a")}
=============================================================================
