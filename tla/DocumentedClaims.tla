-------------------------- MODULE DocumentedClaims --------------------------
(***************************************************************************)
(* Statements of docs/spec.md and docs/current-implementation.md that the  *)
(* code does not keep. README.md names the instance that breaks each.      *)
(***************************************************************************)
EXTENDS RunProperties
LOCAL INSTANCE SequencesExt

\* "each (session_id, run_id) must end with exactly one terminal event"
\* (docs/spec.md:336): no two terminal records of a session carry one run id.
OneTerminalPerRunId ==
  \A s \in Sessions : \A i, j \in DOMAIN transcript[s] :
    ( /\ i # j
      /\ transcript[s][i].type \in TerminalTypes
      /\ transcript[s][j].type \in TerminalTypes )
    => transcript[s][i].run # transcript[s][j].run

\* "if provider/tool fails after at least one persisted user turn: emit
\* system_notice and run terminal session_failed" (docs/spec.md:933).
FailureIsTerminal ==
  \A r \in Runs :
    (pc[r] = "exited" /\ raised[r] \in {"provider", "tool"} /\ persist[r]) =>
      \E x \in ToSet(transcript[sid[r]]) : x.by = r /\ x.type = "session_failed"

\* "seq strictly increasing within session_id" for "all runtime events"
\* (docs/spec.md:308,329): no persisted event repeats the number of a
\* streamed one.
EventSeqUnique ==
  \A d \in deltas : \A x \in ToSet(transcript[d.sid]) : x.seq # d.seq

\* "parent chain must reference an earlier event in same session_id, no
\* cycles" (docs/spec.md:330): a record's parent is an earlier number.
ParentIsEarlier ==
  \A s \in Sessions : \A x \in ToSet(transcript[s]) : x.parent < x.seq

\* The run that wrote the latest request started that call and never finished
\* it, and the tool is a safe read.
InterruptedSafeRead(log) ==
  \E i \in DOMAIN log :
    LET call == {x \in ToSet(log) : x.by = log[i].by /\ x.tc = log[i].tc}
    IN  /\ IsLatestRequest(log, i)
        /\ ToolOf[log[i].req] \in SafeReadTools
        /\ Has(call, "tool_execution_started")
        /\ ~Has(call, "tool_execution_finished")

\* "`interrupted` means execution started and did not finish" and the resumed
\* run "performs one explicit re-invocation" of the latest request
\* (docs/current-implementation.md:141,149): it does so for exactly these.
RetriesInterruptedReads ==
  [][ \A r \in Runs : (pc[r] = "recover" /\ pc'[r] \in {"request", "provider"}) =>
        (pc'[r] = "request" <=> InterruptedSafeRead(transcript[sid[r]])) ]_vars

\* "10. emit tool_permission_decided ... 12. persist rules mutation when
\* lifetime is persistent" (docs/spec.md:685,687): a durable rule has a
\* decision record.
RuleHasDecision ==
  \A rule \in rules : \E s \in Sessions : \E x \in ToSet(transcript[s]) :
    x.type = "tool_permission_decided" /\ x.req = rule[1] /\ x.info = rule[2]

\* "4. load immutable active rules snapshot", a step of evaluating each request
\* (docs/spec.md:679): a request is decided on the rules that are durable then.
DecidesOnCurrentRules ==
  [][ \A r \in Runs :
        (pc[r] = "decide" /\ pc'[r] # "decide" /\ persist[r] /\ <<cur[r], "deny">> \in rules) =>
          dec'[r].decision = "deny" ]_vars

\* An answer for the session is "persisted in transcript via rule_mutation and
\* reconstructed on resume" (docs/spec.md:656): once its decision is on disk, a
\* run that resumes the session does not ask again.
SessionAnswersReplayed ==
  [][ \A r \in Runs : (pc[r] = "decide" /\ Resumed(r) /\ pc'[r] = "answer") =>
        ~\E a \in answers : /\ a.sid = sid[r] /\ a.req = cur[r]
                            /\ a.answer \in {"allow_session", "deny_session"}
                            /\ \E x \in ToSet(transcript[a.sid]) :
                                 x.by = a.by /\ x.tc = a.tc /\ x.type = "tool_permission_decided" ]_vars

\* "bypass: mode default allow, but hard boundaries still deny"
\* (docs/spec.md:573): under bypass only a boundary or a deny rule refuses.
BypassAllows ==
  \A r \in Runs :
    (pc[r] = "decided" /\ mode[r] = "bypass" /\ dec[r].decision = "deny") =>
      dec[r].rank \in {1, 2}
=============================================================================
