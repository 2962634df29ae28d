----------------------------- MODULE RunLedger -----------------------------
(***************************************************************************)
(* What the transcripts promise their reader. Whatever runs share a        *)
(* session and whoever is killed, each run tells one story: an opening, a  *)
(* user message, then messages and tool calls told to their end, then one  *)
(* ending; and a tool is executed only where the story has come to its     *)
(* start, once per call. Orchestrator implements this.                     *)
(***************************************************************************)
EXTENDS Naturals, Sequences

CONSTANTS Runs, Sessions, Requests, NoRequest

VARIABLES
  ledger,     \* session -> its entries, in file order; what matters of an
              \* entry is its fields by, type, tc, req and info
  performed   \* the tool executions that began

ledgerVars == <<ledger, performed>>

Openings == {"session_start", "session_resumed"}

\* A run between two things: the model may speak, or ask for a tool.
Open(a) ==
  \/ a.type \in {"user_message", "assistant_message"}
  \/ a.type = "tool_execution_finished" /\ a.info = "success"

SameCall(a, b) == a.tc = b.tc

\* b may be the entry after a in the story of their run.
MayFollow(a, b) ==
  \/ a.type \in Openings /\ b.type = "user_message"
  \/ Open(a) /\ b.type \in {"assistant_message", "tool_call_requested"}
  \/ a.type = "user_message" /\ b.type = "session_failed"
  \/ Open(a) /\ a.type # "user_message" /\ b.type = "session_completed"
  \/ /\ a.type = "tool_call_requested" /\ b.type = "tool_permission_required"
     /\ SameCall(a, b) /\ a.req = b.req
  \/ /\ a.type \in {"tool_call_requested", "tool_permission_required"}
     /\ b.type = "tool_permission_decided" /\ b.info \in {"allow", "deny"}
     /\ SameCall(a, b) /\ a.req = b.req
  \/ /\ a.type = "tool_permission_decided" /\ SameCall(a, b)
     /\ \/ a.info = "allow" /\ b.type = "tool_execution_started"
        \/ a.info = "deny" /\ b.type = "tool_result" /\ b.info = "denied"
  \/ /\ a.type = "tool_execution_started" /\ SameCall(a, b)
     /\ b.type = "tool_result" /\ b.info \in {"success", "error"}
  \/ /\ a.type = "tool_result" /\ b.type = "tool_execution_finished"
     /\ SameCall(a, b) /\ a.info = b.info
  \/ a.type = "tool_execution_finished" /\ a.info # "success" /\ b.type = "session_failed"

Unheard(f, r) == \A i \in DOMAIN f : f[i].by # r

\* Position i holds the latest entry of its run.
IsLatest(f, i) == \A j \in DOMAIN f : f[j].by = f[i].by => j <= i

\* A call is new to the run that requests it.
NewCall(f, b) == \A i \in DOMAIN f : f[i].by = b.by => f[i].tc < b.tc

Init ==
  /\ ledger = [s \in Sessions |-> <<>>]
  /\ performed = {}

\* One entry, b, is added.
Tell(s, b) ==
  /\ ledger' = [ledger EXCEPT ![s] = Append(@, b)]
  /\ \/ Unheard(ledger[s], b.by) /\ b.type \in Openings
     \/ \E i \in DOMAIN ledger[s] :
          /\ ledger[s][i].by = b.by /\ IsLatest(ledger[s], i)
          /\ MayFollow(ledger[s][i], b)
  /\ b.type = "tool_call_requested" => NewCall(ledger[s], b)
  /\ UNCHANGED performed

\* An execution begins, on the request its call began with.
Perform(r, s, q) ==
  /\ UNCHANGED ledger /\ performed' # performed
  /\ \E i, j \in DOMAIN ledger[s] :
       /\ ledger[s][i].by = r /\ ledger[s][j].by = r
       /\ SameCall(ledger[s][i], ledger[s][j])
       /\ ledger[s][i].type = "tool_call_requested" /\ ledger[s][i].req = q
       /\ ledger[s][j].type = "tool_execution_started" /\ IsLatest(ledger[s], j)
       /\ \A e \in performed : e.by = r => e.tc # ledger[s][j].tc
       /\ performed' = performed \cup {[by |-> r, sid |-> s, tc |-> ledger[s][j].tc, req |-> q]}

\* The entry told is the one its session then ends with.
Next ==
  \/ \E s \in Sessions : ledger'[s] # <<>> /\ Tell(s, ledger'[s][Len(ledger'[s])])
  \/ \E r \in Runs, s \in Sessions, q \in Requests : Perform(r, s, q)

Spec == Init /\ [][Next]_ledgerVars
=============================================================================
