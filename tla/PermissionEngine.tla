-------------------------- MODULE PermissionEngine --------------------------
(***************************************************************************)
(* The permission decision of one tool request: PermissionEngine.decide    *)
(* (policy/engine.py), the replay of earlier answers over it and the       *)
(* mapping of a user answer (tools/executor.py).                           *)
(* A request stands for its request hash: tool name and input.             *)
(***************************************************************************)
EXTENDS Naturals

CONSTANTS
  Requests,     \* the tool requests a model may issue
  ToolOf,       \* the tool a request names
  OutsideRoot   \* the requests whose path resolves outside the working directory

SafeReadTools == {"Read", "LS", "Glob", "Grep"}
RegisteredTools == SafeReadTools \cup {"Write", "Edit", "Bash"}

ASSUME ToolOfAssumption == ToolOf \in [Requests -> STRING]

Modes == {"ask", "auto", "bypass"}
Effects == {"allow", "deny"}

AllowAnswers == {"allow_once", "allow_session", "allow_persistent"}
DenyAnswers == {"deny_once", "deny_session", "deny_persistent"}
NoAnswer == "none"   \* no queued decision for the call, or an unknown word
Answers == AllowAnswers \cup DenyAnswers \cup {NoAnswer}

Reasons ==
  {"hard_boundary_path_outside_root", "auto_safe", "mode_ask",
   "auto_requires_user", "ask_unavailable", "session_rule_deny",
   "persistent_rule_deny", "session_rule_allow", "persistent_rule_allow"}

Decisions ==
  [decision : Effects \cup {"ask"}, reason : Reasons, rank : 1..9]

Decision(d, reason, rank) == [decision |-> d, reason |-> reason, rank |-> rank]

\* First match wins, from top to bottom.
Decide(q, mode, interactive) ==
  IF q \in OutsideRoot
    THEN Decision("deny", "hard_boundary_path_outside_root", 1)
  ELSE IF mode \in {"auto", "bypass"} /\ ToolOf[q] \in SafeReadTools
    THEN Decision("allow", "auto_safe", 7)
  ELSE IF mode = "ask" /\ interactive
    THEN Decision("ask", "mode_ask", 5)
  ELSE IF mode = "auto" /\ interactive
    THEN Decision("ask", "auto_requires_user", 8)
  ELSE Decision("deny", "ask_unavailable", IF mode = "ask" THEN 6 ELSE 9)

\* Mutant: an allow wins over a deny.
AllowFirst(d, q, session, persistent) ==
  IF d.reason = "hard_boundary_path_outside_root" THEN d
  ELSE IF q \in session.allow \cup persistent.allow
    THEN Decision("allow", "session_rule_allow", 3)
  ELSE IF q \in session.deny \cup persistent.deny
    THEN Decision("deny", "session_rule_deny", 2)
  ELSE d

\* Remembered answers override every decision but a hard boundary; a deny of
\* either kind is looked up before an allow of either kind.
ApplyReplay(d, q, session, persistent) ==
  IF d.reason = "hard_boundary_path_outside_root" THEN d
  ELSE IF q \in session.deny     THEN Decision("deny", "session_rule_deny", 2)
  ELSE IF q \in persistent.deny  THEN Decision("deny", "persistent_rule_deny", 2)
  ELSE IF q \in session.allow    THEN Decision("allow", "session_rule_allow", 3)
  ELSE IF q \in persistent.allow THEN Decision("allow", "persistent_rule_allow", 3)
  ELSE d

\* The final decision after the user was asked; an answer keeps the reason.
Resolve(d, answer, mode) ==
  IF answer \in AllowAnswers THEN [d EXCEPT !.decision = "allow"]
  ELSE IF answer \in DenyAnswers THEN [d EXCEPT !.decision = "deny"]
  ELSE Decision("deny", "ask_unavailable", IF mode = "ask" THEN 6 ELSE 9)

NoRules == [allow |-> {}, deny |-> {}]
RuleSets == [allow : SUBSET Requests, deny : SUBSET Requests]

\* Mutant: an answer for once is remembered too.
RememberOnce(rules, q, answer, allowWord, denyWord) ==
  [allow |-> rules.allow \cup {x \in {q} : answer \in {allowWord, "allow_once"}},
   deny  |-> rules.deny  \cup {x \in {q} : answer \in {denyWord, "deny_once"}}]

\* The rule set after an answer, where only the two given words are remembered.
Remember(rules, q, answer, allowWord, denyWord) ==
  [allow |-> rules.allow \cup {x \in {q} : answer = allowWord},
   deny  |-> rules.deny  \cup {x \in {q} : answer = denyWord}]
=============================================================================
