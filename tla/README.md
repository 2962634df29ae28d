# Verification of ccr-python

`ccr` is a command line agent runtime: it takes a prompt, asks a model provider
for a stream of chunks, runs the tools the model asks for under a permission
policy, and writes everything it does to an append-only transcript that later
invocations resume. This directory holds TLA+ models of that runtime, the TLC
instances that check them, and theorems about them checked by TLAPS.

Every definition is translated from the Python under `src/src/ccr`; paths below
are relative to it. `docs/` means `src/docs/`.

## 1. Inventory

| Part | Code | State it keeps | Operations |
|---|---|---|---|
| Command line | `cli/main.py`, `cli/parser.py`, `cli/exit_codes.py` | none | parse, build one orchestrator, run it, map result or exception to an exit code |
| Orchestrator | `runtime/orchestrator.py` | session id, run id, `_seq`, `_last_persisted_event_id`, `_tool_call_counter`, `_run_terminal_emitted`, the state machine; the module global `_SESSION_REPLAY_STATE` | `run`, `_resolve_session_and_run`, `_emit`, `_recover_interrupted_safe_read_once`, `_failure_result_for_tool_outcome` |
| Turn state machine | `runtime/turn_fsm.py`, `runtime/events.py` | one state per run | `transition` |
| Event bus | `runtime/event_bus.py` | subscribers | `subscribe`, `emit` |
| Stream adapter | `model/stream_adapter.py`, `model/provider_base.py`, `model/retry_fallback.py` | `saw_delta` | `adapt` (synthesises a delta for a message nobody streamed) |
| Tool executor | `tools/executor.py` | none of its own; edits the replay state and the rules | `execute`, `_apply_session_replay` |
| Permission engine | `policy/engine.py` | none | `decide` |
| Recovery | `runtime/recovery.py`, `runtime/recovery_policy.py` | none | `classify_tool_call_recovery`, `decide_recovery_action` |
| Transcript store | `storage/transcript_store.py`, `storage/lockfile.py` | `<session>.jsonl`, `<session>.lock` | `append_event`, `load_records`, `get_next_seq`, `get_last_persisted_event_id` |
| Persistent rules | `storage/permission_rule_store.py` | `permission_rules.jsonl` | `load_hash_sets`, `append_rule` |
| Session index | `storage/session_index.py` | `session_index.jsonl` | `update`, `get_latest_for_cwd` |
| JSON lines | `util/jsonl.py` | the files above | `append_jsonl`, `read_jsonl` |
| Identifiers | `util/ids.py`, `util/time.py` | process-wide counters | `new_session_id`, `new_run_id`, `new_event_id` |
| Tools | `tools/registry.py`, `tools/builtins/*` | the user's files, processes | Read, LS, Glob, Grep, Write, Edit, Bash |
| Contracts | `contracts/*.json` | none | JSON schemas nothing loads at run time |

**How the parts interact.** Within one process everything is a synchronous call:
`run` drives the adapter, the adapter's chunks drive `_emit` or
`ToolExecutor.execute`, and the executor calls back into `_emit` for each of its
events. Parts of different processes interact only through files. An append
to a transcript or to the rules takes a lock for one line, an append to the
session index takes none; no reader takes one, and nothing is locked between a
read and the append it leads to. Parts of one process at different times interact through
module globals: the identifier counters and the remembered session answers.

**Behaviours that are hard.**

- *Numbering over lifetimes.* A run takes its first sequence number and its
  first parent from the last line of the file, by two separate reads, and counts
  in memory from there. The file may have been left by a killed run in the
  middle of a tool call; stream-only events consume numbers that no line carries;
  the run id comes from the transcript or from a process counter depending on
  how the session was chosen.
- *Paths through a tool call.* Allow, deny, ask and answered, ask and not
  answered, remembered answers, an unregistered tool, a failing and a raising
  tool all emit different events through a state machine that raises on a wrong
  order.
- *Kills and failures.* At any point, in particular between the start record and
  the tool, between the tool and its result, between a durable rule and the
  record of the decision that made it, and inside the write of a line. A full
  disk or a closed stdout ends the run while the process, and what it remembers,
  live on.
- *Recovery.* A resumed run may execute a tool on its own account, on the
  evidence of records matched by an id that every run uses again.
- *Two processes* in one session, one rule file, one session index or one user
  file: rules read once at the start, rows appended out of the order of their
  time stamps, files rewritten with nothing held.
- *Bytes on disk.* A row reaches its file in pieces; the reader splits lines at
  more places than the writer escapes; one torn line makes a file unreadable.
- *Commands.* A shell command may outlive its time, leave processes behind that
  hold its output open, and write bytes that are no text.
- *The driver.* stdin is read to its end before the run starts, whatever the
  other side is waiting for.

**What makes each part correct** is stated beside its model: the orchestrator,
executor, permissions, recovery and transcript in `RunProperties`, what a
transcript tells its reader in `RunLedger`, the rules of overlapping processes
in `RuleWindow`, the files in `LineProperties` and `AtomicFile`, the tools in
`BashTool` and `FileTools`, `--continue` in `SessionIndex`, exit codes and
streams in `CommandLine`. `DocumentedClaims`, and a section at the end of the
other modules, state what the documentation promises and the code does not do.
Section 4 lists all of them.

## 2. Modules

```
TurnFsm ─ TranscriptLog ─┐
PermissionEngine ────────┴ ToolExecutor ─┐
Recovery ────────────────────────────────┴ Orchestrator ─ RunProperties ─┬─ DocumentedClaims ─ MCRuns ─┐
RunLedger  (implemented by Orchestrator) ────────────────┘               ├─ RuleWindow ────────────────┴─ MCRules  (and PermissionProofs)
                                                                         └─ OrchestratorProofs ─┬─ StoryProofs
                                                                                                └─ PermissionProofs
AtomicFile (implemented by JsonLines) ┐
JsonLines ────────────────────────────┴─ LineProperties ─┬─ MCLines
                                                         └─ LineProofs
BashTool ─ BashProofs        FileTools ─┬─ MCFiles        SessionIndex ─┬─ MCIndex        CommandLine ─┬─ MCCommand
                                        └─ FileProofs                   └─ IndexProofs                 └─ CommandProofs
```

| Module | Models | Correspondence |
|---|---|---|
| `TurnFsm` | `runtime/turn_fsm.py` | The target of a transition depends on the event only, so the machine is a guard `Accepts(state, type)` and a `Target(type)`. |
| `PermissionEngine` | `policy/engine.py` and the pure parts of `tools/executor.py` | `Decide` keeps the precedence, reasons and ranks; `ApplyReplay`, `Resolve`, `Remember` are the replay of earlier answers and the effect of a new one. |
| `Recovery` | `runtime/recovery.py`, `runtime/recovery_policy.py` | Operators over a transcript. |
| `TranscriptLog` | `storage/transcript_store.py`, `_emit`, the two loads of `run` | `Emit` is `_emit` with every early exit: a second terminal event raises before a number is taken, an illegal transition after it. `LoadSeq` and `LoadParent` are separate steps, as the reads are. |
| `ToolExecutor` | `tools/executor.py`, `storage/permission_rule_store.py` | One action per emitted event, plus `Execute` and `ToolRaises` for the tool itself. |
| `Orchestrator` | `runtime/orchestrator.py`, the adapter, the index, exit codes | One action per step of `run`; `Kill` is the death of the process, `IoFails` a disk, a stdout or a subscriber that raises. |
| `RunLedger` | the promise of the transcripts | Abstract: each run tells one story, whose grammar is `MayFollow`; a tool is performed where a story has come to its start, once per call. |
| `RuleWindow` | `Orchestrator` with overlapping processes and one rule file | Adds `known`, the rules that were durable when a run started. |
| `AtomicFile` | the promise of a JSON lines file | Abstract: rows appear whole, in order; an acknowledged row stays. |
| `JsonLines` | `util/jsonl.py`, `storage/lockfile.py` | `append_jsonl` in its steps (lock, write in pieces, sync, unlock), `read_jsonl` with `splitlines`; kills, writes that fail at once or in the middle, a stop of the machine. `locked`, chosen at the start, is TRUE for a transcript or the rules and FALSE for the index, whose row is one write unless a full disk cuts it short. |
| `BashTool` | `tools/builtins/bash_tool.py` | `execute` over `subprocess.run`; the command and what it leaves behind are the environment. |
| `FileTools` | `tools/builtins/edit_tool.py`, `write_tool.py` | Text as a sequence over any set of symbols, among them a CRLF and an undecodable byte; the text to find and the one to put in its place are any sequences of them (`str.find` is `Finds`); `write_text` in its steps (truncate, write in pieces, close). |
| `SessionIndex` | `storage/session_index.py`, the resolution of `--continue` | Several working directories; time stamps that are read before the row is appended. The loop of `get_latest_for_cwd` is a recursive function, a turn of it `Later`. |
| `CommandLine` | `cli/main.py`, `cli/parser.py`, `cli/exit_codes.py` | One invocation and the process that drives it; stdin is read at once and taken line by line, as `_load_stream_json_messages` does; the run inside emits and returns or raises. |
| `RunProperties`, `LineProperties`, `DocumentedClaims` | | Properties. |
| `MCRuns`, `MCRules`, `MCLines`, `MCFiles`, `MCIndex`, `MCCommand` | | Command lines, processes, rows, texts and bounds for TLC. |
| `OrchestratorProofs`, `StoryProofs`, `PermissionProofs`, `LineProofs`, `BashProofs`, `FileProofs`, `IndexProofs`, `CommandProofs` | | Theorems, section 5. |

**The state of a run.** A *run* is one invocation of the command line, a *host*
one Python process; `HostOf` says which process runs which invocation. Module
globals (`nextSid`, `nextRid`, `replay`) are functions of the host, fields of the
orchestrator functions of the run, files (`transcript`, `rules`, `index`) neither.
Runs of one host are sequential; runs of different hosts overlap when `Overlap`
is TRUE. `pc[r]` is where the run stands; every point between two steps is a
point at which another process may act or this one may be killed. A killed
host's globals return to their initial values, as in a restarted process.

**History variables** hold what no file shows and no guard reads: `deltas` (the
stream-only events), `effects` (the tool executions that began), `answers` (what
users answered), the field `by` of a record (the run that wrote it, because two
runs can carry the same run id), `acked`, `known`, `seen`, `before` and the
`events` of an invocation.

**How the models fit together.** Each is as detailed as its question needs, and
two refinements carry results from one to another.

- *Appends.* In `Orchestrator` an append is one step: a line is on disk whole or
  not at all. `JsonLines` is what really happens, and `AtomicAppends` says that
  the rows whose newline is in the file, and the acknowledgements, behave as
  `AtomicFile` does, with the lock or without, under kills, failed writes and a
  stop of the machine. What the abstraction leaves out is a torn line: the next
  load raises, which `Orchestrator` has as `IoFails`.
- *Stories.* `TellsOneStory` maps `transcript` and the executions to
  `RunLedger`: a reader of the abstract module knows what any transcript looks
  like, whoever was killed and whatever overlapped. Runs without persistence
  leave no story, so only executions of persisted runs are mapped.
- *Tools.* `Execute` and `ToolRaises` are the one step of a tool: it began, and
  returned or raised. `BashTool` and `FileTools` are the inside of that step.
- *The invocation.* `CommandLine`'s `Return` and `RunRaises` are the end of an
  `Orchestrator` run; that one comes is `EveryRunEnds`.
- *The index.* `Orchestrator` has one working directory, so its last row is the
  latest; `SessionIndex` has several, and the loop over them.

**Abstractions.**

- Session `S<n>`, run `R<n>`, event `E<n>` and tool call `TC<n>` are the number
  n; 0 is `None`. An event id is its sequence number, as in `f"E{seq}"` of `_emit`.
- A request is its request hash: the same tool with the same input is the same
  request. Path resolution is the constant `OutsideRoot`.
- A record holds the envelope fields that code reads back (seq, parent, run,
  type, tool call, request) and what a property relates. `info` is the decision
  of a `tool_permission_decided` record, or the status of a result.
- A row of a JSON lines file is a head and a tail, neither of them JSON by
  itself, a newline, and in some rows a character between them at which
  `str.splitlines` breaks and which `json.dumps(ensure_ascii=False)` leaves as it
  is (U+0085, U+2028, U+2029).
- The provider's answer is any finite sequence of deltas, messages, tool
  requests and chunks of an unknown kind, or an exception. `run` collects the
  whole answer before it uses the first chunk, so an exception of the provider
  comes before any of its events.
- Where text input without `--print` makes a run interactive, nobody is asked:
  decisions come queued in stream-json input or not at all. The channel
  `"terminal"` is that combination.
- The clock of `SessionIndex` may stand still between two readings, it does not
  step back.

## 3. Bounds and fairness

Each bound is a constant of a specification, given its value in the `.cfg`.

*Runs* (`crash_resume`, `concurrent`, `permissions`, `rule_window`, `liveness`,
`claim_run_ids`)

- `MaxChunks[r]`: the chunks the provider of run r may send. The chunk loop
  carries three bits from chunk to chunk (saw a delta, had a message, had a
  tool); two chunks reach every ordered pair of chunk kinds. Three, in `liveness`,
  reach a delta and two messages, where what was streamed for the first must not
  count for the second. One is enough for a resumed run, whose recovery call comes
  on top, and none (recovery or silence) for the last run of a chain.
- `Sessions`: one where the question is about one file, two where answers of one
  session must not serve another, or where two processes share only the rules.
- `Configs[r]`: the command lines a run may be started with, chosen so that the
  question of the instance arises: a session resumed by name and by
  `--continue`, a forced session, a run without persistence.
- `Requests`: a safe read, a shell command, a read outside the working
  directory, a tool nobody registered; one to three per instance.
- `Killable`, `Failing`, `Overlap`: whose process may die, whose disk may fail,
  and whether processes overlap. `MayStart` lets runs start in any order and any
  number of them, so an instance with three runs includes those with fewer.

*JSON lines* (`jsonl`). Three processes, one of which appends two rows, so that
a row follows a torn row of another and one of its own; two of them may be
killed, every write may fail, at once or in the middle, and the machine stops
once. One row holds a line boundary. `locked` takes both values.

*Bash* (`bash`). Two calls, so that something left behind by the first is there
in the second; a limit of two ticks, so that the command may end before time
passes, in between, and at the limit, where exit and timeout race.

*Files* (`files`). Two edits, a write and an edit with an empty target, one
after another in every order: one edit whose replacement contains what it finds
and one that takes out what it finds; texts without a match, with one and
with several, overlapping ones too, a CRLF, an undecodable byte, no file and a
directory.

*Index* (`continue_index`). Four invocations in two directories, at most two of
them `--continue`, and two readings of the clock: rows with equal times, and
rows in the wrong order, both need two overlapping runs and a third that looks.

*Command line* (`command`). Every combination of options that parses and one of
each that does not; up to two lines of stdin of seven kinds, so that each kind
comes before and after each other; up to two events.

A run, process or call that is over stays over. When all are, a stuttering
action keeps TLC's deadlock check on: one that could not take its next step
would be reported. Only `command` turns it off, because there an invocation ends
and nothing follows.

**Fairness.**

- `Orchestrator` (`liveness`): weak fairness of `RunStep(r)` for each run. A run
  that has started is sequential code that never waits for another (the lock is
  held for one line), Bash has a timeout of 5 s, the other tools are bounded by
  the files they touch, and the provider is assumed to return. Nothing obliges
  anyone to start a run or to kill one; nothing obliges a user to answer.
- `JsonLines` (`jsonl`): weak fairness of `Advance(p)`. Weak is enough for the
  lock because a process appends a bounded number of rows. Nothing says that a
  write fails or that anything dies.
- `BashTool` (`bash`): the tool goes on and time passes. Nothing is assumed of
  the command: it may never exit nor close its output.
- `CommandLine`: `FairSpec` says that the program goes on, that the run inside it
  ends, and that the driver writes what it means to and closes its end. Only
  `DriverServed` below uses it; that an invocation ends once its input is complete
  needs no check, because nothing but the end of stdin makes it wait.

## 4. Runs

### Checked and holding

| Run | Question |
|---|---|
| `crash_resume` | One session, three processes one after the other: a first run, a resume by name, a `--continue`; the first two may be killed anywhere. `SeqStrictlyIncreasing` and `ParentIsPrevious`: the file is one chain without fork or gap in parents. `ResumedRunIdsFresh`: a resumed run's id is new to the file. `ToolLifecycle`: the records of a call follow one another among those of their run, along one legal life, which is whole when the run ended by itself. `ExitMatchesTranscript`: exit codes 0, 3, 4, 5, 6 say what the file says, with exactly one terminal record, last. `RetryOnlySafeReads`: recovery executes at most one call, of a safe read another run of the session announced. `NoIllegalTransition`: the state machine never raises. `TypeOK`. |
| `concurrent` | Two processes in one session at once, one of which may be killed. `TellsOneStory`: `Orchestrator` implements `RunLedger`. `OwnRecordsChained`: what each run wrote is still a chain. `WriteAheadAudit`: request, allow and start are on disk before the tool begins. `FirstRecordAttached`: the first record of a run, whose number and parent come from two reads of a file the other process is appending to, is numbered after a line above it and has a line above it as its parent, that one or a later one. |
| `permissions` | Three runs in two processes and two sessions, persistence on and off, every answer, a kill or a failing disk in the first. `EffectAuthorised`: what ran was a safe read under a mode that allows it or is covered by an answer for this call, this session in this process, or for ever; nothing outside the working directory runs. `NoDeniedEffect`: nothing runs that was refused for ever or for the session. |
| `rule_window` | Two processes at once, in sessions of their own, over one rule file. `DenyOutlivesStart`, `AllowOutlivesStart`: a refusal that was durable when a run started, or that its own user gave, binds it; an allow that was durable then spares its user the question. `EffectAuthorised` again, now with overlap. |
| `liveness` | `EveryRunEnds`: a started run ends, also when it asks for permission where nobody answers or for a tool nobody registered. `MessagesStreamed`: between one message of a run and the next, and before the first, at least one delta is emitted. `ToolLifecycle` again, here for a safe read and a tool nobody registered, in runs that may be killed and resumed. |
| `jsonl` | Appends in pieces, readers without the lock, kills, failing writes, a stop of the machine. `RowsUnbroken`: rows are never interleaved. `AckedDurable`: what an append acknowledged survives everything (for a file that is new, see section 6). `LoadMissesNothing`: a load that succeeds has every acknowledged row, in order. `UnreadableHasCause`: a file that cannot be loaded holds a row that is cut short, in the making, or has a line boundary. `AtomicAppends`: `JsonLines` implements `AtomicFile`. `NobodyWaitsForever`: whoever dies holding the lock. `TypeOK`. |
| `bash` | `ResultTruthful`: a result is true of the command of its call, however its exit races the timeout and whatever earlier calls left behind. `CommandReaped`: no process is left to the kernel. `CommandReturns`: every call ends, whatever the command does and keeps open. `TypeOK`. |
| `files` | `CallsExact`: calls that do not overlap do exactly what they say, also on what an interrupted one left; a call that fails or is killed leaves the file as it was or the beginning of what it should have left. `TypeOK`. |
| `continue_index` | `ContinueNotStale`: with rows out of order, equal times and other directories in the file, `--continue` resumes a run of its directory that is over and that no later such run began after. (A rule "the last row wins" would keep it too: the property bounds the answer from one side, `ContinueResumesLatest` below from the other.) `TypeOK`. |
| `command` | `RunsOnWholeInput`: a run starts only on input that was understood to its end, with no message dropped. `OutputMatchesExit`: what stdout holds is what the format and the exit code say, and nothing where an exception escapes instead of a code. `TypeOK`. |

`SeqStrictlyIncreasing`, `ParentIsPrevious`, `ResumedRunIdsFresh` and
`NoDeniedEffect` are properties of processes that do not overlap, so their runs
have `Overlap = FALSE`; `RuleWindow` states what is left of the last one when
they do.

### Documented and not kept

Two runs check a statement of the documentation, and TLC finds it violated.

| Run | Statement | What the code does |
|---|---|---|
| `claim_run_ids` | `OneTerminalPerRunId`: "each (session_id, run_id) must end with exactly one terminal event" (docs/spec.md:336) | Identifier counters start at 1 in every process (`util/ids.py:47`), so a second plain invocation appends another `R1` to `S1.jsonl`. |
| `claim_line_break` | `OneObjectPerLine`: "Record schema (one JSON object per line)" (docs/spec.md:404) | `json.dumps` leaves U+0085, U+2028 and U+2029 in the line and `str.splitlines` breaks at them (`util/jsonl.py:17`): a prompt with U+2028 makes the session unreadable. |

The other statements are definitions that hold no run of their own. To see the
code break one, put it (alone, as an `INVARIANT`, or as a `PROPERTY` where
marked P) into the configuration named.

| Statement | In | Documentation | What the code does |
|---|---|---|---|
| `SeqStrictlyIncreasing` | `concurrent` | "seq strictly increasing within session_id", "seq allocation occurs only inside the append critical section" (docs/spec.md:329, 477) | `run` takes the next number once, at its start, outside any lock (`orchestrator.py:262`); two processes resuming a session write the same number. |
| `ParentIsEarlier` | `concurrent` | "parent chain must reference an earlier event in same session_id", "no cycles" (docs/spec.md:330) | Number and parent come from two reads of the file (`orchestrator.py:264`). A record appended in between has the number the new run is about to use and becomes its parent: a record whose parent carries its own id. |
| `FailureIsTerminal` | `claim_run_ids` | after a failed provider or tool, "run terminal session_failed" (docs/spec.md:933) | A raising tool (`executor.py:291`) or provider leaves `run` as exit code 9 with no terminal record. |
| `EventSeqUnique` | `crash_resume` | "seq strictly increasing" for all runtime events (docs/spec.md:308, 329) | The number of a streamed delta is given again if the run dies before its next record (`transcript_store.py:34`). |
| `RetriesInterruptedReads` (P) | `crash_resume` | an interrupted call is one that started and did not finish, and the resumed run invokes it again (docs/current-implementation.md:142-149) | Call ids restart at `TC1` in every run, so the classification (`recovery.py:17`) also reads the `TC1` of older runs: it retries calls that never started and skips some that did. |
| `BypassAllows` | `crash_resume`, with `MaxChunks <- OneChunk` | "bypass: mode default allow" (docs/spec.md:573) | Bypass allows safe reads only and refuses everything else as `ask_unavailable` (`engine.py:126`). |
| `RuleHasDecision` | `permissions` | the decision is emitted before the rules are persisted (docs/spec.md:685-687) | The rule is synced first (`executor.py:175`); a kill in between leaves a rule that no transcript mentions. |
| `SessionAnswersReplayed` (P) | `permissions` | answers for the session are "persisted in transcript via rule_mutation and reconstructed on resume" (docs/spec.md:656) | They are kept in a dictionary of the process and in no record; a resume from another process asks again (`executor.py:152`). |
| `DecidesOnCurrentRules` (P) | `rule_window` | "load immutable active rules snapshot" is a step of evaluating each request (docs/spec.md:679) | The rules are loaded once per run (`orchestrator.py:275`); a deny made durable afterwards does not count. |
| `TornTailLoads` | `jsonl` | a malformed final line is truncated by the loader (docs/spec.md:481) | `read_jsonl` raises at any malformed line (`jsonl.py:23`), and every later run of the session ends with exit code 9. |
| `RowsStartLines` | `jsonl` | "each line ends with exactly one newline" (docs/spec.md:479) | `append_jsonl` does not look at the end of the file (`jsonl.py:30`): the record after a torn one goes on its line. |
| `UnreadableRulesBoot` (P) | `jsonl` | "load failures: engine boots with empty persistent rules" (docs/spec.md:547) | `load_hash_sets` lets the error pass (`permission_rule_store.py:22`): no persistent run of the directory starts. |
| `ReturnsResult` | `bash` | "returns structured timeout / execution / exit-code results" (docs/current-implementation.md:117) | Output that is no text raises `UnicodeDecodeError`, which nothing catches (`bash_tool.py:91`). |
| `OneCommandAtATime` | `bash` | "shell runs one foreground command per session" (docs/spec.md:822) | A timeout kills the started process only, and a command may leave others; they run beside the next command. |
| `EditKeepsNewlines` | `files` | "Edit preserves existing newline style" (docs/spec.md:863) | `read_text` turns every CRLF into LF and `write_text` writes what was read (`edit_tool.py:36`). |
| `WriteAtomic` | `files` | "atomic write temp+rename" (docs/spec.md:854) | `write_text` truncates the path and writes in pieces (`write_tool.py:19`): a reader sees, and a kill leaves, half a text. |
| `NoEditLost` | `files`, with `Overlap = TRUE`, `Calls = {c1, c2}`, `Tool <- TwoEdits`, `Mortal = {}` | "fs-write tools are serialized per canonical path lock" (docs/spec.md:821) | Edit reads, replaces and writes with nothing held (`edit_tool.py:36`): of two edits one is lost. |
| `ContinueResumesLatest` (P) | `continue_index` | "resume latest session in current cwd" (docs/spec.md:199) | A run that raised or was killed leaves no row (`orchestrator.py:379`), and an older session is resumed. |
| `ContinueHasTranscript` (P) | `continue_index` | "load latest session ... append new run" (docs/spec.md:290) | A run under `--no-session-persistence` leaves a row and no transcript. |
| `NothingEscapes` | `command` | `run_cli` is the "single top-level exception boundary" (docs/spec.md:144) | A stdin line such as `[]` has no `get` (`main.py:32`), and the last write to stdout is outside the `try`: both end in a traceback. |
| `PromptRequired` | `command` | with neither argument nor stdin, "usage error" (docs/spec.md:238) | The prompt is the empty string and the run starts (`main.py:73`). |
| `CorruptionHasItsCode` | `command` | "8 transcript persistence/resume corruption" (docs/spec.md:285) | Errors of the stores end with exit code 9 (`main.py:120`); 8 is never used. |
| `DriverServed` (P) | `command`, with `FairSpec` and `Patient = TRUE` | an interactive decision channel, with messages "mid-run" (docs/spec.md:259, 270) | stdin is read to its end before the run (`main.py:63`): a driver that waits to be asked is never asked, and both wait. |

The scenarios of `OneTerminalPerRunId`, `FailureIsTerminal`, `BypassAllows` and
`OneObjectPerLine` were also reproduced with the program itself.

## 5. Proofs

The theorems hold for every value of the constants: any set of runs, processes,
sessions and requests, any assignment of runs to processes, any bound and set of
command lines, with overlapping processes, kills and failures except where a
theorem says otherwise.

| Theorem | Statement |
|---|---|
| `TypeCorrect` (`OrchestratorProofs`) | `Spec => []TypeOK` |
| `TransitionsLegal` (`OrchestratorProofs`) | `Spec => []NoIllegalTransition` |
| `ExecutionsAudited` (`OrchestratorProofs`) | `Spec => []WriteAheadAudit` |
| `StoriesLegal` (`StoryProofs`) | `Spec => TellsOneStory`: the orchestrator implements the ledger |
| `FirstRecordsAttached` (`StoryProofs`) | `Spec => []FirstRecordAttached` |
| `OwnChainsUnbroken` (`StoryProofs`) | `Spec => []OwnRecordsChained` |
| `MessagesHeard` (`StoryProofs`) | `Spec => []MessagesStreamed` |
| `CallsToldWhole` (`StoryProofs`) | `Spec => []ToolLifecycle` |
| `ExitsTruthful` (`StoryProofs`) | `Spec => []ExitMatchesTranscript` |
| `RetriesSafe` (`StoryProofs`) | `Spec => []RetryOnlySafeReads` |
| `ExecutionsAuthorised` (`PermissionProofs`) | `Spec => []EffectAuthorised` |
| `DenialsOutlive` (`PermissionProofs`) | `WindowSpec => DenyOutlivesStart` |
| `AllowancesOutlive` (`PermissionProofs`) | `WindowSpec => AllowOutlivesStart` |
| `NumbersIncrease` (`PermissionProofs`) | `Spec /\ ~Overlap => []SeqStrictlyIncreasing` |
| `ChainUnbroken` (`PermissionProofs`) | `Spec /\ ~Overlap => []ParentIsPrevious` |
| `RunIdsFresh` (`PermissionProofs`) | `Spec /\ ~Overlap => []ResumedRunIdsFresh` |
| `RefusalsHold` (`PermissionProofs`) | `Spec /\ ~Overlap => NoDeniedEffect` |
| `LineTypes` (`LineProofs`) | `Spec => []TypeOK` of a JSON lines file |
| `RowsNeverMix` (`LineProofs`) | `Spec => []RowsUnbroken` |
| `AcknowledgedIsDurable` (`LineProofs`) | `Spec => []AckedDurable` |
| `DamageHasCause` (`LineProofs`) | `Spec => []UnreadableHasCause` |
| `LoadsComplete` (`LineProofs`) | `Spec => []LoadMissesNothing` |
| `FileIsAtomic` (`LineProofs`) | `Spec => AtomicAppends`: the file implements `AtomicFile` |
| `BashTypes` (`BashProofs`) | `Spec => []TypeOK` of the Bash tool |
| `ResultsTruthful` (`BashProofs`) | `Spec => []ResultTruthful` |
| `CommandsReaped` (`BashProofs`) | `Spec => []CommandReaped` |
| `FileTypes` (`FileProofs`) | `Spec => []TypeOK` of the tools that change files |
| `CallsAreExact` (`FileProofs`) | `Spec /\ ~Overlap => CallsExact` |
| `IndexTypes` (`IndexProofs`) | `Spec => []TypeOK` of the session index |
| `ContinueLatest` (`IndexProofs`) | `Spec => ContinueNotStale` |
| `CommandTypes` (`CommandProofs`) | `Spec => []TypeOK` of the command line |
| `RunsOnAllInput` (`CommandProofs`) | `Spec => []RunsOnWholeInput` |
| `OutputTruthful` (`CommandProofs`) | `Spec => []OutputMatchesExit` |

*Assumptions.* `HostAssumption` (each run has a process), `SessionAssumption`
(session numbers are positive), `ToolOfAssumption`, `NoRequestAssumption`,
`ConfigAssumption` (runs are started with command lines), `OverlapAssumption`,
`BoundAssumption`; for the files `ProcAssumption`, `RowBoundAssumption`,
`PowerCutAssumption`; for Bash `LimitAssumption`, `CallBoundAssumption`,
`MortalAssumption`; for the other tools `SymbolAssumption`, `StartAssumption`
(what is at the path is text, nothing or a directory), `ToolAssumption`; for the
index `SessionNumbers`, `LinesAssumption`, `TimeAssumption`; for the command line
`ArgsAssumption`, `BoundAssumption`, `SwitchAssumption`. TLC evaluates each in the
runs of its module.

*`TypeCorrect`.* `TypeOK` says more than the types: a live run has a session, a
run inside a tool call has a request, and a run about to record a decision has a
final one. It is not inductive as it stands, because a resumed run takes the
request of its recovery call from a record of the file. `TypeInv` adds
`RequestsNamed`: request records name a request. One lemma (`EmitStep`) covers
every emission, `GotoStep` and `RaiseStep` every other move of control, and one
lemma per action the rest.

*`TransitionsLegal`.* The state machine's state is determined by where a run
stands, up to a few alternatives. `Fits(pc, state)` is that table, and `TurnInv`
adds that a terminal event is followed by nothing but the index row. Each
emission must be accepted at its point and lead to a state that fits the next.
This needs that the executor's denied path goes from the decision to the result,
and that the model may speak again after a finished call.

*`ExecutionsAudited`.* Files only grow, so a trail once written stays
(`TrailsKept`) whatever other processes append. `Trail(r)` says how much of the
trail of the call in progress is on disk at each point: the request until the
decision is recorded, the allow too until the start, all three while the tool
runs. An emission after which the run goes on has written its record
(`EmitWrites`). `IdleRunsActNot` is needed because starting a run chooses its
persistence: only a run that has executed nothing may do so.

*`StoriesLegal`.* `StoryInv` says what the latest record of a run is at each
place its program may stand, so that the record it writes next may follow it;
that none of its records carries a call number beyond its counter
(`RecordsBehind`), and no execution either (`EffectsBehind`), so that a call is
new when it is requested and performed once. A run that raised or was
killed tells nothing more. The theorem combines it with the trail of
`ExecutionsAudited`, which finds the request and the start that `Perform` asks
for.

*What one run's records say* (`StoryProofs`). Six properties relate the records
of a run to each other, to its end and to the file it joined, whatever other
processes write there in between. Their invariants speak of the latest record of
the run and of what it has in memory, and all six are preserved along the same cases
(`RunStepKinds`, `BoundsKinds`): a step of a run tells an event, which the turn
state machine accepts or refuses, or it moves without telling, or it places the
run in the file; a start, a kill or a failing disk tells nothing. A record of one
run stands between no two records of another as far as `FollowedBy` is concerned
(`FollowedAppend`).

- *`FirstRecordsAttached`.* `Joining(r)`: between its two reads of the file and
  its first record, what r took for its number is that of a line, what it took for
  its parent is that of the same line or of a later one, and the file still holds
  both, since it only grows (`NumbersStay`, `JoiningPlaced`).
- *`OwnChainsUnbroken`.* `Linked(r)`: while r lives, its counter is not behind
  its latest record and that record is the parent of the next.
- *`MessagesHeard`.* `Streamed(r)`: where a message is about to be recorded, a
  piece was streamed that is numbered beyond every earlier message of r.
  `DeltasBehind` keeps r's counter ahead of what it streamed, so a piece that
  counts for one message counts for no later one.
- *`CallsToldWhole`.* The order of a call's records is what the ledger allows
  (`Told`, from `StoriesLegal`). `Whole(r)` adds that every call of r but the one
  in progress is told to its finish, and none is in progress where r ends by
  itself.
- *`ExitsTruthful`.* `Silence(r)`: what r's memory calls silence is silence in
  the file, from the chunk loop to the terminal event. `Over(r)`: once the
  terminal event is out the records end as the exit code says, and nothing of r
  follows.
- *`RetriesSafe`.* A resumed run that comes to its recovery has made no call, so
  the request it retries was announced by another run (`RetryBegins`); a retry
  in progress is call 1 of its run (`Retrying`), and executions of a run differ
  in their call numbers, so there is one retry at most (`RetriedOnce`).

*`ExecutionsAuthorised`.* `AuthInv` traces every allow a run may rely on back to
a user: what its process remembers for a session to an answer given in that
session by a run of that process, a durable rule to an answer for ever of some
persisted run, the copy a run loaded or changed to one of these. A call is then
followed from its decision to its execution: allowed by the mode, by a traced
rule, or by the answer just given, and never one outside the working directory,
which is decided first and which no rule overrides. Answers only accumulate and
whoever gave one keeps its configuration, so an authority once traced stays.

*`DenialsOutlive`, `AllowancesOutlive`.* `WindowInv` says of each run that what
was durable at its start still is, and is in its copy once that was read; that
every refusal for ever of its own user is in the copy too; and that a call which
a user is being asked about or which is allowed is not refused there
(`MayRunStep`: only the decision and the answer can make it so). Nobody else
touches the copy of a run, so overlapping processes only add rules. Before the
copy is read the run has asked nobody (`AskedNobody`); without that, reading it
could forget a refusal.

*`NumbersIncrease`, `ChainUnbroken`, `RunIdsFresh`.* Without overlap at most one
run is live (`Alone`). `Positioned(r)` says what it knows of the file: from the
first load on its counter is not behind the last number there, from the second
on its parent is the last record. An emission then extends the chain, or, when
the event is only streamed, moves the counter and leaves the file and the parent.
`FreshId(r)`: no record of another run carries the id it chose, which is one
more than the highest of the file it found. A run that is killed or fails leaves
a file in which all this still holds, because it says nothing of runs that are
over.

*`RefusalsHold`.* `RefusalsKnown(r)`: the live run's copy holds every durable
refusal, from the moment it was loaded, since nobody else is there to add one and
its own go to both. `NotRefused(r)`: between the decision and the execution, also
while a user is being asked, the request is in neither set of refusals. This is
where `~Overlap` is needed: `RuleWindow` shows what another process may change
meanwhile.

*The files.* `LineInv` follows a row on its way: every part of it is in the file
or still to be written (`Accounted`), and while some but not all of it is in the
file, it is at the end of the file and its process holds the lock (`Underway`,
`Appenders`); without the lock rows are written whole. So no piece of another
row comes between two of one (`RowsNeverMix`), and at the moment of the sync the
whole row lies below the mark (`Synced`) that later kills, failures and stops of
the machine respect (`AcknowledgedIsDurable`).

What a reader finds needs to know where the pieces are (`PlaceInv`): of a row
that is being written the first m parts are in the file, the last of them at its
end, and the others are still to come (`Begun`); every other piece stands behind
the part before it (`InPlace`), each once (`Once`), and the acknowledged rows
stand in the order of their acknowledgements, before the row being written
(`AcksOrdered`, `AcksEarlier`). Around any place of a file there is a line: the
next end of a line above it and the last one below, which exist because the
numbers are well ordered (`InsideLine`). In a file whose rows are all complete and
free of boundaries a line that is not empty begins with a head and is that row's
text (`LinesAreRows`, hence `DamageHasCause`); in a file that loads, a head begins
a line that is its row (`HeadLoaded`, hence `LoadsComplete`).

*`FileIsAtomic`.* The abstract file is made of the rows whose newline is in the
file (`WholeRows`, which takes the newlines by rank). A write that completes a
row adds a newline above all others, so the rank of the others stays (`NthKept`)
and the row is appended; its newline was not there before, by `Begun`. A write
that completes none, and every step that leaves the file alone, is a stutter. An
append returns when its row is below the synced mark, hence whole. A stop of the
machine keeps the beginning of the file, hence the beginning of the whole rows
(`WholeBegin`), and all that lies below the mark.

*Bash.* `Placed` relates the place of the tool to the process of the command:
how it ended is known exactly when it is no longer running, and it runs only
while the tool waits for it. A result is then true when it is made, and nothing
that happens later concerns its call.

*`CallsAreExact`.* `Placed(c)`: while a call that nobody runs beside is writing,
what is in the file followed by what is still to come is the text it means to
leave, and it writes at the end of the file. Opening makes the file empty, which
establishes this whatever was there, and until then the file is what the call
found; each piece moves symbols from the second part to the first
(`OverlaidText`, on what a write at an offset leaves); at the close the second
part is empty, which a failed or killed call never says of itself. Such a call
has opened the file or not, so it leaves the beginning of its text or what it
found. The text to find and its replacement are any sequences of symbols, of any
length, the one inside the other or not: `Spliced` says what cutting a piece out
of a text and putting another in its place leaves in every place, and
`ReplacesFirst` that the piece an Edit cuts out is the first match, which rests on
there being a first one. Where calls overlap
only `DataInv`, the types, is kept; `NoEditLost` shows why.

*`ContinueLatest`.* `LoopFinds` says what the loop has after n rows: nothing, when
no row among them is of the directory, and otherwise the last of those with the
latest time. It speaks of a recursive function and is proved for any number of
rows without an induction theorem: were it false of some n there would be a least
one (`LeastNatural`), which is not 0 and whose predecessor it holds for. That the
function exists at all is shown in the same way (`LoopExists`). `IndexInv` then
takes rows and the runs that are over for one another (`RowsTell`) and says that
a run which began after another was over stamps no earlier time (`StampInv`, the
clock does not step back) and has its row behind the other's. So a run whose row
the loop chooses was not over before another such run began: that one's row would
be later, or as late and further down.

*`RunsOnAllInput`, `OutputTruthful`.* `InputInv` follows the loop over stdin: the
messages gathered are the lines taken so far, in order and without the blank ones
(`Gathered`, extended by a line in `GatherLine`), and the loop begins only after
the end of stdin. The last line taken makes it the whole input. `OutputInv` says
what stdout holds until the end: in stream-json the events, which is all that was
emitted unless a write failed, and in the other formats nothing; that there is a
result only once the run returned; and that there is no exit code before the end.

**Only model-checked.** Liveness: `EveryRunEnds`, `NobodyWaitsForever` and
`CommandReturns` rest on fairness, which the prover cannot reason about. Every invariant, action property and refinement that a run checks
has a theorem.

## 6. Not modelled

- *Formatting:* the texts of the output formats, messages of errors, JSON
  escaping other than line boundaries.
- *Contracts:* schemas nothing loads at run time.
- *The insides of Read, LS, Glob and Grep:* they change nothing; a call of theirs
  is the one step of `ToolExecutor`.
- *Inner workings of the engine's path resolution:* the constant `OutsideRoot`.
  A path that changes between the check and its use is not modelled.
- *Deterministic test hooks* of `util/ids.py` and `util/time.py`.
- *`schema_version` checks:* every record this code writes carries the version it
  accepts.
- *A wall clock that steps back* between two invocations.
- *The directory of a new file.* `append_jsonl` syncs the file and never its
  directory (`util/jsonl.py:28-34`). `Sync` takes the name of a new file to be as
  durable as its text, as journalling file systems make it; `AckedDurable`,
  `AtomicAppends` and their theorems rest on that for the first row of a file.
- *A second attempt after a failed write.* Closing a file whose flush failed tries
  once more to write what is left; `WriteShort` leaves the part that fitted.

## 7. What could follow

- A torn line in `Orchestrator`: its appends are whole and the next load raises as
  `IoFails`; with `JsonLines` composed in, the text of a damaged transcript would
  be followed from the write to the exit code.
- Several tools on one set of files: `BashTool` and `FileTools` each model one tool
  by itself. What a command that outlived its call does to a file that Edit or
  Write is changing is in neither.

## 8. Running

In this directory:

```
tlc -workers 2 -config crash_resume.cfg MCRuns.tla
tlapm PermissionProofs.tla
tlapm StoryProofs.tla
```

| Module | Configurations | Distinct states, time |
|---|---|---|
| `MCRuns` | `crash_resume` | 362,000, about a minute |
| | `concurrent` | 789,000, 1 to 2 minutes |
| | `permissions` | 1,780,000, about a minute |
| | `liveness` | 227,000, about a minute |
| | `claim_run_ids` | ends at the violation |
| `MCRules` | `rule_window` | 81,000, seconds |
| `MCLines` | `jsonl` | 251,000, about 2 minutes |
| | `claim_line_break` | ends at the violation |
| `BashTool` | `bash` | seconds |
| `MCFiles` | `files` | 32,000, seconds |
| `MCIndex` | `continue_index` | 106,000, seconds |
| `MCCommand` | `command` | 399,000, half a minute |
