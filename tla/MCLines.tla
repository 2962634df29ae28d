------------------------------- MODULE MCLines -------------------------------
(* Instances of the JSON lines file for TLC. *)
EXTENDS LineProperties, TLC

CONSTANTS p1, p2, p3

\* A long-lived process, and two that append a row each.
SomeRows == [p \in Procs |-> IF p = p1 THEN 2 ELSE 1]
OneRow == [p \in Procs |-> 1]

\* A row that holds U+2028: the first of the first process, or its second.
SplitFirst == {<<p1, 1>>}
SplitSecond == {<<p1, 2>>}
=============================================================================
