----------------------------- MODULE RuleWindow -----------------------------
(***************************************************************************)
(* The durable rules between processes that run at once. A run reads       *)
(* permission_rules.jsonl once (SessionOrchestrator.run), so what it knows *)
(* of the rules of others is as old as its own start; `known` remembers    *)
(* what was durable then.                                                  *)
(***************************************************************************)
EXTENDS RunProperties

VARIABLE known   \* history: run -> the durable rules when it started

windowVars == <<vars, known>>

WindowInit == Init /\ known = [r \in Runs |-> {}]

WindowNext ==
  /\ Next
  /\ known' = [r \in Runs |-> IF pc[r] = "idle" /\ pc'[r] # "idle" THEN rules ELSE known[r]]

WindowSpec == WindowInit /\ [][WindowNext]_windowVars

\* A request somebody refused for ever before a persistent run started is never
\* executed by that run, whatever its user answers and other processes write
\* meanwhile, nor one the run itself was told to refuse for ever.
DenyOutlivesStart ==
  [][ \A e \in effects' \ effects : persist[e.by] =>
        /\ <<e.req, "deny">> \notin known[e.by]
        /\ \A a \in answers : a.by = e.by /\ a.req = e.req => a.answer # "deny_persistent" ]_windowVars

\* A request somebody allowed for ever before a persistent run started is not
\* asked about again in that run.
AllowOutlivesStart ==
  [][ \A r \in Runs : (pc[r] = "decide" /\ persist[r] /\ pc'[r] = "answer") =>
        <<cur[r], "allow">> \notin known[r] ]_windowVars
=============================================================================
