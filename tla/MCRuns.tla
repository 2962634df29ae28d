------------------------------- MODULE MCRuns -------------------------------
(* Instances of the orchestrator for TLC. *)
EXTENDS DocumentedClaims, TLC

CONSTANTS r1, r2, r3, h1, h2, h3, read, shell, out, fetch, none

MCToolOf == [q \in Requests |-> CASE q = read -> "Read" [] q = shell -> "Bash"
                                  [] q = out -> "Read" [] q = fetch -> "Fetch"]

\* Every invocation in a process of its own, as from a shell, or two of them in
\* one, as when a program calls run_cli.
OwnProcess == [r \in Runs |-> CASE r = r1 -> h1 [] r = r2 -> h2 [] r = r3 -> h3]
TwoProcesses == [r \in Runs |-> IF r = r3 THEN h2 ELSE h1]

Line(k, s, m, ch, p) == [kind |-> k, sid |-> s, mode |-> m, channel |-> ch, persist |-> p]

\* A first run and two that resume it, by name or as the latest.
ResumeLines ==
  r1 :> {Line("new", 1, "auto", "stream", TRUE)}
  @@ r2 :> {Line("resume", 1, "auto", "terminal", TRUE)}
  @@ r3 :> {Line("continue", 1, "bypass", "print", TRUE)}

\* Two runs of one process and a third of another, in one session or two, some
\* of them without persistence.
PermissionLines ==
  r1 :> {Line("forced", 1, "ask", "stream", TRUE)}
  @@ r2 :> {Line("resume", 1, "auto", "terminal", TRUE), Line("forced", 2, "auto", "stream", FALSE)}
  @@ r3 :> {Line("continue", 1, "ask", "print", TRUE), Line("forced", 2, "ask", "stream", TRUE)}

\* Two processes in one session at the same time: one that may be killed, and one
\* that may retry what it left.
ConcurrentLines ==
  r1 :> {Line("forced", 1, "auto", "print", TRUE)}
  @@ r2 :> {Line("resume", 1, "ask", "terminal", TRUE)}

\* Two processes that ask in sessions of their own.
WindowLines ==
  r1 :> {Line("forced", 1, "ask", "stream", TRUE)}
  @@ r2 :> {Line("forced", 2, "auto", "stream", TRUE)}

LiveLines ==
  r1 :> {Line("forced", 1, "auto", ch, TRUE) : ch \in {"stream", "terminal"}}
  @@ r2 :> {Line(k, 1, "auto", "print", TRUE) : k \in {"resume", "continue"}}

\* Two shells, one after the other, each starting a session.
FreshLines ==
  [r \in Runs |-> {Line("new", 1, "auto", "print", TRUE)}]

OneChunk == [r \in Runs |-> 1]
TwoOne == r1 :> 2 @@ r2 :> 1
ThreeOne == r1 :> 3 @@ r2 :> 1
OneNone == r1 :> 1 @@ r2 :> 0
TwoOneNone == r1 :> 2 @@ r2 :> 1 @@ r3 :> 0

=============================================================================
