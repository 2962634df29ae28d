------------------------------ MODULE Recovery ------------------------------
(***************************************************************************)
(* What a resumed run concludes from the transcript about the latest tool  *)
(* request: runtime/recovery.py, runtime/recovery_policy.py and the lookup *)
(* of orchestrator._recover_interrupted_safe_read_once. A transcript is a  *)
(* sequence of records with fields type, tc (0: no tool call) and info.    *)
(***************************************************************************)
EXTENDS Naturals, Sequences

RetryEligibleTools == {"Read", "LS", "Glob", "Grep"}
ManualReviewTools == {"Write", "Edit", "Bash"}

\* Every record of the session that carries this tool call id, whichever run
\* wrote it.
Matched(log, tc) == {log[i] : i \in {j \in DOMAIN log : log[j].tc = tc}}

Has(records, type) == \E x \in records : x.type = type
HasInfo(records, type, info) == \E x \in records : x.type = type /\ x.info = info

\* "unclassifiable" stands for the ValueError of a pre-start partial call.
Classify(log, tc) ==
  LET m == Matched(log, tc)
      started == Has(m, "tool_execution_started")
      finished == Has(m, "tool_execution_finished")
      denied == HasInfo(m, "tool_permission_decided", "deny")
      resultDenied == HasInfo(m, "tool_result", "denied")
  IN  IF m = {} THEN "not_found"
      ELSE IF denied /\ ~started /\ (finished \/ resultDenied) THEN "denied"
      ELSE IF finished THEN "completed"
      ELSE IF started THEN "interrupted"
      ELSE "unclassifiable"

\* Mutant: an interrupted mutation is retried like a read.
RetryAnyTool(state, tool) ==
  IF state \in {"completed", "denied"} THEN "noop"
  ELSE IF state = "interrupted" THEN "eligible_for_retry"
  ELSE "error"

RecoveryAction(state, tool) ==
  IF state \in {"completed", "denied"} THEN "noop"
  ELSE IF state # "interrupted" THEN "error"
  ELSE IF tool \in RetryEligibleTools THEN "eligible_for_retry"
  ELSE IF tool \in ManualReviewTools THEN "manual_review_required"
  ELSE "error"

\* Position i holds the last tool_call_requested record.
IsLatestRequest(log, i) ==
  /\ i \in DOMAIN log
  /\ log[i].type = "tool_call_requested"
  /\ \A j \in DOMAIN log : j > i => log[j].type # "tool_call_requested"

\* Position i holds the request a resumed run executes again.
IsRetryable(log, i, tool) ==
  /\ IsLatestRequest(log, i)
  /\ Classify(log, log[i].tc) # "unclassifiable"
  /\ RecoveryAction(Classify(log, log[i].tc), tool) = "eligible_for_retry"
=============================================================================
