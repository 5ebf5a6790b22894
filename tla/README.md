# Verification of cc-code

cc-code is a coding agent: a terminal client, an ACP server behind it, an agent
that talks to language models and runs tools, and a store for the
conversations. The modules in this directory model the parts of it in which
several tasks of the runtime share state, or in which a step may be cut short,
and state what must be true of them whatever the order of the steps. TLC
checks small instances; TLAPS proves the most important results for every
value of the constants.

Paths below are relative to the repository's root; names without a directory
are those of the component under discussion.

Contents

1. Inventory of the system
2. The modules, and what each one models
3. Runs: questions, bounds, fairness
4. Proofs
5. Disagreements between the code and what it says of itself
6. What is not modelled, what is only model-checked
7. Plan

## 1. Inventory of the system

### How the parts work together

```
 terminal client (cc-tui)          editor (acp_stdio)
   input queue, drawer, copy of          |
   the conversation                      |
        |  ACP over channels             |  ACP over stdio
        v                                v
 session server (cc-acp): one loop, one task per prompt or appended history,
   one prompt lock per session, a map of sessions behind a mutex
        |  execute_prompt                     |  append / delete / load
        v                                     v
 executor (cc-acp/session/executor.rs)   thread store (SQLite)
   immediate commands, event pumps, injected results
        |  builds
        v
 ReActAgent (cc-agent): execute_inner --> middleware chain (cc-middlewares)
   |        |            \                 compaction, approval, hooks, ...
   |        |             --> LLM adapters with retry
   |        v
   |   dispatch_tools: one batch of tool calls, run concurrently
   |        |
   |        v
   |   tools (cc-tools), MCP, LSP, sub-agents in the foreground or background
   v
 events --> pump --> client
```

A prompt travels from the client to the server, waits for the prompt lock of
its session, reads the session's history, is executed, and writes the history
back to memory and store. While it is executed, the user may add texts
(steering), cancel, stop background tasks, close the session; background tasks
end and report; events flow to the client, which keeps a copy of the
conversation of its own.

### Components

| component | state it keeps | operations | what is hard | what makes it correct |
|---|---|---|---|---|
| Tool dispatch and middleware chain (`cc-agent/src/agent/executor/tool_dispatch.rs`, `middleware/chain.rs`) | verdicts, results, deferred error | announce, judge, triage, run concurrently, join, after-tool hooks, write | a cancel at each of these points; a fatal refusal after approvals | every tool call in the history has its result; nothing runs unapproved; what ran is recorded; the screen is closed |
| Loop breakers (same file) | counters, window of recent calls, thresholds | one update per result | thresholds that move, a window that forgets | a repetition is answered by a hint, and only a repetition |
| ReAct loop (`executor/mod.rs`, `final_answer.rs`, `llm_step.rs`) | messages, snapshot anchor, iteration, thoughts seen | iterate, call the model, dispatch, answer, give up | compaction between any two uses of the messages; cancel; the last iteration | it ends; the client's copy follows the conversation |
| Steering queue (`agent/steering/mod.rs`) | pending texts, closed flag | enqueue, drain, drain_or_close, close | texts added while the execution is ending | a sender is told the truth; nothing accepted is lost |
| Compaction (`compact_middleware.rs`, `agent/compact`) | messages | full, micro | replaces what others point at | a text is summarised only after it was read |
| Client's copy (`cc-tui/src/app/agent_ops/mod.rs`, `agent_compact.rs`) | `origin_messages` | snapshot, compaction completed | the events carry suffixes | it is a prefix of the conversation, and in the end equal |
| Session server (`cc-acp/src/session/acp_server`) | sessions map, prompt locks, tokens | prompt, appended history, load, resume, fork, close, cancel | tasks that meet at the lock; a close that removes it; a load that waits between reading and writing | requests to a session do not overlap; memory and store agree |
| Immediate commands (`session/command`) | none | /compact, /rewind | they use the store without the sessions mutex, and may be dropped at a wait | no message is kept by one side only |
| Thread store (`cc-agent/src/thread/sqlite_store.rs`) | rows, cached context with a cursor | append, delete, load | a key that is global; a cache invalidated in a second statement; crashes | a restart restores the conversation, each message once |
| Background tasks (`cc-middlewares/src/subagent`) | slots, statuses, tokens | launch, open the gate, finish, complete, stop | a cancel during the launch; the end of a task against its stop; the end of the execution that launched it | a slot is given back; a result reaches the model once; a stopped task is silent |
| Prompt executor and pumps (`cc-acp/src/session/executor.rs`) | event channels | execute, inject results, pump, time out | two pumps whose order is not fixed | as above |
| Client's continuation (`cc-tui/src/app/agent_events_bg.rs`, `agent_ops/lifecycle.rs`) | running rows, buffered results, pending continuation, queued texts | events, submit, poll | events before and after Done, a text in between | as above |
| Transports, interaction broker (`cc-acp/src/transport`, `broker`) | pending requests | send, answer, pump | a peer that leaves; an answer nobody waits for | every request ends with an answer or an error |
| Client's input (`cc-tui/src/app/queued_messages.rs`, `agent_submit.rs`, `bg_shell_notifications.rs`, `agent_ops`) | queue, texts being added, notices pending and in flight, lock of the input line | queue, add, delete, submit, interrupt, poll receipts and events, give up | requests that overtake each other; receipts and events by different ways; a late end of an execution given up | nothing is sent twice, nothing stays behind |
| Approval and permission modes (`cc-middlewares/src/hitl`) | mode, remembered approvals | judge, ask, remember, switch mode | a mode that changes while a question is open | what runs was allowed by the mode or the user |
| Shell hand-off (`cc-agent/src/shell/handoff.rs`, `cc-tools/src/bash`, `cc-tui/src/app/shell_command.rs`) | owner of a process, the client's slots and notices | launch, wait, hand over, time out, kill, sweep | end, cancel and hand-over race | one owner, its end told once, no wake-up lost |
| LSP client (`cc-lsp/src`, `cc-middlewares/src/lsp`) | state, dispatcher, pending requests, open files, restart count | start, restart, request, report a file | a server that dies or is replaced while calls wait; the handshake | who waits hears; one server is kept |
| MCP pool | clients, connections | connect, reconnect | two callers at once | one live client per server |
| LLM adapters and retry | none between calls | call, stream, retry | a stream that breaks off | no answer is given twice |
| Agent builder and pool, providers, prompts, plugins, skills, memory, hooks, cron, tools, kernel, rendering, telemetry, packaging | configuration, caches, text | | mostly none | out of scope, see section 6 |

The hazards in `PROJECT.json` give, for each place where this can go wrong,
the line and the properties that would notice.

## 2. The modules, and what each one models

Order of reading: AtomicBatch, ToolBatch, ReactLoop, LoopBreakers,
ThreadStore, SessionHistory, BackgroundTasks, ClientInput, ShellHandoff,
LspClient; then the proofs.

```
 AtomicBatch  <== refined by ==  ToolBatch  <-- ToolBatchProofs
      |  used as the dispatch step
      v
 ReactLoop  <-- ReactLoopProofs
      |  its outcomes are the executions of
      v
 SessionHistory --EXTENDS--> ThreadStore      (ReactLoop, ThreadStore
                                               --EXTENDS--> Selection)
      ^
 SessionHistoryProofs

 LoopBreakers <-- LoopBreakersProofs        (the log of one execution's batches)
 BackgroundTasks <-- BackgroundTasksProofs  (across executions)
 ClientInput <-- ClientInputProofs          (client and server, around executions)
 ShellHandoff <-- ShellHandoffProofs    LspClient <-- LspClientProofs
 (both: inside one tool of ToolBatch)
```

The modules are composed by contract. ReactLoop takes a batch of tool calls as
one step of AtomicBatch, and ToolBatch is shown to implement AtomicBatch. It
ends (`Terminates`) as long as models, tools and hooks return, so SessionHistory
may assume under the same condition that an execution returns;
its outcomes are those of ReactLoop: an answer with a longer conversation, one
that was compacted, an error with what had been done so far. ClientInput
takes of an execution only what its sender sees: added texts are confirmed or
rejected as `ReceiptsTruthful` says, and it ends. ShellHandoff and LspClient
look into tools that ToolBatch takes as one step with an end of its own time;
the cancel of ToolBatch, which drops a tool's future, is an action of both.

### ToolBatch and AtomicBatch

One call of `dispatch_tools`. `pc` follows the function: *queued* (nothing
announced), *approving* (in `run_before_tools_batch`), *triage* (the serial
loop over the verdicts), *running* (`join_all`), *after* (results in hand, the
after-tool hooks run), *done*. `settled` and `ready` are the vectors of the
code; `exec` is the state of each tool's future; `shown` and `ends` count the
display events. A middleware judges every call of the batch in one step,
because the code awaits its answer as a whole; a rejected call stays rejected,
a fatal refusal is kept in the verdicts and ends the batch in the triage, after
the calls before it were announced. `Launch` begins all approved calls at once,
`CompleteTool` and `InterruptTool` are the two branches of the `select!` that
each future is, and `Join` reads `was_cancelled` after the last of them. `Write`
is the whole second phase: the AI message and all results in one step, because
there is no await between them, and only then the error, if any.

`AtomicBatch` is what the loop relies on: one step that writes all or nothing.

### ReactLoop

`execute` and `execute_inner`, one action per stretch of code between two
awaits. The messages are `prefix \o msgs`: system messages put in front for one
execution, then the conversation. A message is a kind, an id and the set of
added texts it carries; `summary` carries what the messages it replaces
carried, so a text can be followed through a compaction. `anchor` is
`snapshot_anchor`. `queue`, `pending` and `receipt` are the steering queue, the
texts drained at a final answer and the senders' one-shot channels. `client` is
the client's `origin_messages`, updated in the step that emits the event: the
event channel keeps order and only the copy's content is looked at. Crossing a
threshold of the context is a choice (`CompactFully`, `CompactMicro`); which
messages micro compaction clears is not visible in the model, which has no
contents.

### LoopBreakers

The three trackers of `tool_dispatch.rs`, updated result by result in the order
of `dispatch_tools`, with the constants of the code as constants of the
module. Messages that were written are kept in `log`; the properties are stated
over this log alone (which hint should have been given, and when), not over the
counters. `FailuresWarned` says when a tool's failures are remarked on: at failure
number T of a kind since the tool last succeeded, and then each time the number
has doubled since the remark before; `LoopsWarned` says it of repeated steps. `SchemaHintsOwed` says of the two
breakers which failures, still in the window, a hint of theirs is owed to, and
that a threshold once reached counts as reached even where the other breaker's
hint was the one written.

### ThreadStore and SessionHistory

ThreadStore has the table of messages and the cached context of each thread; its
operators are the store's transactions. Every query of the code names its thread,
so the rows are kept thread by thread in rowid order; the key of the table is still
global (`Taken` is what INSERT OR IGNORE takes). `Picked` of the module Selection,
the elements at a set of positions, stands for a query or a filter that leaves
something out here and in ReactLoop; it is written without recursion so that it
can be reasoned about.
The deletion of rows and the invalidation of the cache are different
transactions, so they are different actions of SessionHistory.

SessionHistory has the server. A request arrives (`Arrive`: the loop takes or
creates the lock and spawns a task), waits for the lock (`Acquire`), and runs:
a prompt registers its token, copies the history, is executed, persists and
publishes; an append writes memory and store under the mutex. `mutex` says who
holds the sessions mutex over an await. `session/load` reads from the store in
steps of its own and then replaces the memory. Immediate commands change the
store inside `execute_prompt`, without the mutex, and can be dropped at an
await (`DropCommand`). A crash leaves only the store; what a restart would
restore is `LoadContext`.

### BackgroundTasks

A task's future (`stage`): *held* at its gate until the hooks of its launch are
done, *working*, *ended* (its result is known), *completed* (in the registry),
*reporting* (between its two events), *gone*. The registry has slots, statuses
and tokens. `inbox` is the notification channel of the running execution,
`lanes` the event channel of each prompt, `client` the client's. `server` holds
prompts that wait for the lock, with the results they bring along. The client
is a function of the events it polls: rows it believes running, results it
buffers, a continuation it will start, texts queued while an execution runs. The
history is two facts per task: it is there as a notice, or so many times as an
injected result.

### ClientInput

The client is the record `ui`; its handlers are functions of it (`Submit`,
`Flush`, `Dispatch`, `PollNotices`, `PollTexts`), put together in the actions as
the code calls them, so that every handler is one step with all it triggers.
What leaves the client leaves in tasks: prompts under way (`ui.prompts`),
additions under way (`ui.adds`), a cancel (`cancels`), each delivered at its own
time. On the server `run` is the execution that holds the prompt lock, with the
texts added to it and not yet consumed (`steered`) and consumed (`added`);
`TakeAdd` refuses when nothing runs. `Without` is the queue after some of its
members went (`retain`, `remove`), written without recursion so that it can be
reasoned about. `receipts` and `events` are the two ways
back. `GiveUp` is the unlocking five seconds after a cancel (`polling.rs:71`): the
execution goes on, its end comes later and is handled as the end of whatever
the client runs then. `kept` counts how often an item is in the history.

### ShellHandoff

One command of the shell tool. `tool` is where `BashTool::invoke` stands,
`phase` the process, `owner` the `ShellHandoff` shared by tool and client
(*none* before the launch, then *foreground*, *background* or *settled*, the
last for Completed and Cancelled alike), `waiter` the `Notify` of tokio, with its registration (`enable`) apart from the look at the owner, `ui`
the client's poll, which runs through its registrations, its grace period and
its sweep as the code does. `slots` are the commands the client keeps, `ended`
those it knows the end of, `told` counts the notices.

### LspClient

The calls of one batch are one task, so a call runs without another coming
between until it waits for an answer: `turn` is the call being polled, and each
action of a call passes it on. The reader and the dispatch loop of every server
process are tasks of their own (`Exit`, `LoopEnds`, `OnError`) and may step at
any time. Processes are numbered generations; `current` is the one whose
dispatcher the client holds, `input`, `read`, `looping`, `failing` say which
have their input open, are read, have a loop that runs, or one that is about to
call `on_error`, which writes the state of the client whichever generation it
belongs to. `Launch` is `do_start` to the point where it asks for initialize.
Files are reported between batches, as after-tool hooks run one after the other.
That one task polls all calls holds because sub-agents are not given the LSP tool:
it is not among the `parent_tools` of `cc-acp/src/agent/builder.rs:356`.

## 3. Runs: questions, bounds, fairness

`tlc -workers 2 -config X.cfg M` in this directory.

| run | module, cfg | distinct states | shows |
|---|---|---|---|
| tool_batch | MCToolBatch | 4 600 | all properties of a batch, and that it implements AtomicBatch |
| react_loop | MCReactLoop | 388 000 | receipts, order, the client's copy and termination under both compactions |
| loop_breakers | MCLoopBreakers | 700 000 | the hints are those the log calls for |
| session_history | MCSessionHistory | 820 000 | memory, store, snapshots |
| session_everything | MCSessionHistory, `...All.cfg` | 250 000 | exclusion and progress under everything that may disturb |
| background_tasks | MCBackgroundTasks | 2 500 000 | at most once; stopped is silent |
| background_results | MCBackgroundTasks, `...Reach.cfg` | 200 000 | slots come back; results arrive |
| client_input | MCClientInput | 145 000 | nothing twice, nothing stranded, every turn ends |
| shell_handoff | MCShellHandoff | 59 000 | one owner, told once, no lost wake-up, every end is told |
| lsp_client | MCLspClient | 397 000 | nobody waits in vain; one server is kept |
| background_ghost, lsp_handshake | | | the violations of section 5 |

**Bounds.**

- ToolBatch: three calls, two middlewares. Two calls suffice for every pair of
  verdicts and endings, the third shows a cursor between two others; the second
  middleware sees what the first left. The proofs remove the bounds.
- ReactLoop: three iterations (an ordinary one, one after a compaction, and the
  last) with two texts, a notice, one thought that may repeat (a window of two)
  and both compactions. A third text adds only more of the same order
  question; all exits of the loop are within three iterations.
- LoopBreakers: five results, batches of up to two, three tools. The constants
  are reduced (thresholds 2, 2, 2, 3, window 4) so that five results reach a
  trip, a doubled threshold and a full window. The two kinds of failure stand
  for the one that the schema tracker counts and all others.
- SessionHistory: three requests of any kind in the first run, one close, one
  crash, two messages to begin with. Three requests are one that holds the lock,
  one that waits, and one that comes after a close. `Rewinds = "undisturbed"`,
  `Shrinking = TRUE`, `AutoCompact = FALSE`, `Resumes = FALSE` and `Forks = FALSE`
  exclude disagreements listed in section 5, so that the rest can be shown; with
  any one of them changed, TLC finds `MemoryMatchesStore` violated. With
  `MaxCompacts = 2` all properties still hold (845 000 states). The second run has everything
  switched on except cancels (which it has through the close) and crashes
  (after which there is nothing to answer).
- BackgroundTasks: two tasks (one that ends early and one that is still
  running is what the client's buffer is about), two texts, slots for both.
  Tasks are symmetric where only invariants are checked. In
  background_results the user is quiet and nothing is stopped, the conditions
  under which every result must arrive; section 5 has what happens otherwise.
- ClientInput: two texts (one runs while the other waits, is added or deleted),
  one notice, one interruption. The invariants were also checked with two
  interruptions (985 000 states). Local commands are left out, see section 5.
- ShellHandoff: two commands of which the client keeps one, so that the sweep has
  something to forget. The proofs remove the bound on commands.
- LspClient: three calls (one that starts the server, one that waits for it, one
  that comes later), four processes, one restart, so that the limit on restarts
  is reached and the second way of starting is taken. The proofs remove all of
  these bounds.

**Fairness.**

- ToolBatch: the executor's own steps, and the branch of a cancelled token in a
  tool's future, which tokio polls once the token wakes it. None for
  middlewares and tools: a question to the user, a tool and an after-tool hook
  may hang for ever. A cancel ends the wait for the first two, but
  `run_after_tool` is awaited beside no token (`tool_dispatch.rs:1214`), and the
  hook for language servers waits for the dispatcher's lock and writes to a pipe
  without a time limit (`lsp/middleware.rs:86`). `CancelEndsBatch` therefore
  claims that, after a cancel, the batch ends or comes to such a hook, and does
  so again whenever the hook has returned. Error hooks (`run_on_error`) are part
  of the steps that call them: the only middleware with one is that of the user's
  hooks, which have time limits.
- ReactLoop: the loop is one task. Model calls return (adapters have time-outs);
  that tools and hooks return is an assumption, which a hanging tool breaks
  until it is cancelled and a hanging after-tool hook for good. None for the user
  or for background tasks.
- LoopBreakers: none, safety only.
- SessionHistory: strong fairness for each request's steps, as tokio's mutexes
  serve their waiters in order: a task whose lock is free again and again gets
  it. Executions return (`Terminates`).
- BackgroundTasks: futures are polled, tasks end (they have a time limit), hooks
  and the model answer, the client polls. None for launching, stopping,
  submitting, cancelling or failing; none for draining after a tool step.
- ClientInput: the client polls every frame (`HandleEvent`, `Deliver`), spawned
  requests reach the server, and the server takes prompts and ends executions
  (`Terminates`). None for the user.
- ShellHandoff: the tool's future is polled (it has a time limit), the process is
  reaped once it is killed or has ended, and the client polls. None for the
  user, nor for a cancel.
- LspClient: none, safety only.

**Deadlock** is checked for ToolBatch, which stutters explicitly when done. The
others set `CHECK_DEADLOCK FALSE`: one execution ends, and the number of
requests, texts, tasks and results is bounded, so their behaviours may stop.
What must not stop early is stated as liveness (`Terminates`,
`EveryRequestEnds`, `EverySlotIsFreed`, `ResultsReachModel`,
`EverySendingSettles`, `EveryEndIsTold`).

Each property of a passing run has a mutant in `PROJECT.json`: a plausible bug
in one operation, defined next to it (`Mut...`), under which TLC finds the
property violated.

## 4. Proofs

`tlapm M.tla`.

**ToolBatchProofs** (every N >= 1 calls and every M >= 0 middlewares):

- `BatchTypes`: the type invariant.
- `ToolUsePairing`, `DisplayClosure`, `ApprovalGate`, `InterruptionTold`,
  `EffectsRecorded`: the invariants of the run.
- `BatchRefinement`: `Spec => Atomic!Spec`.

None of the properties is inductive: whether a call may run depends on which
vector the triage put it in. `IInv` adds, for each value of `pc`, what has
happened to each call: nothing is filed before the triage; during it exactly
the calls before the cursor are filed, each in the vector its verdict says;
from the launch on the approved ones run and the rejected ones are closed; when
the batch has returned, the history is empty or is `Transcript`. `Transcript`
has an answer for each call because `settled \o ready` contains each call
(`TranscriptAnswersAll`), which follows from `Filed(N + 1)`. `StepInv` is split
by part of the invariant (`StepType`, `StepControl`, `StepShown`), with one case
per action. The refinement maps `Write` to `Commit`, the steps that abandon the
batch to `Abort`, and all others to stuttering. Assumption: `BatchAssumption`.

**ReactLoopProofs** (every number of iterations, added texts and notices):
`TypeCorrect`, `ReceiptsTold` (`ReceiptsTruthful`), `TextsReadInOrder`
(`ReadInOrder`), `CopyIsFaithful` (`ClientFaithful`). A receipt alone does not
know where its text is. `Texts` says it: a sender waits exactly when his text is in
the queue or held back since an answer, and is confirmed exactly when the
conversation carries it; what is carried has smaller numbers than what is held,
which has them in order; and outside a call of the model everything carried has
been read, so that a compaction, which stands there, summarises nothing unread.
`Control` ties the closing of the queue, what is held back and the counter to
`pc`. For the client's copy, `CaughtUp(a)` says that the copy covers the first a
messages (`Covers`: in order, once, perhaps without notices) and that the anchor
is at message a, save where the code is about to move it (after a snapshot, until
the notices are drained) or to hang it anew (after a compaction); everything
behind passes the snapshot's filter, so the next snapshot is exactly what is
missing. Ids rise along the conversation (`Numbered`), so the anchor has one
place. Assumptions: `LoopAssumption`, `ThoughtAssumption`.

**LoopBreakersProofs** (every set of tools, every threshold and size of the
window): `TypeCorrect`, `HintsTold` (`HintsMatchHistory`), `NothingSlipsThrough`
(`BreakersTrip`). The properties speak of the log, the code of its counters; the
invariant ties them. `Counted` says that a record's count is the number of such
failures since the tool last succeeded, and its next threshold T or the double of
the count at a remark; `Repeating` that `repeats` is the number of equal steps
asked for last; `Windowed` pictures the window by a function from its places to
the messages its outcomes come from, such that what is not pictured has more than
the window's size of outcomes behind it; `Raised` that a threshold was raised only
by a breaker that tripped, and `Levels` that it is at least twice the first one
from then on. The numbers are cardinalities of sets of indices of the
log, and lemmas on these sets carry them from one message to the next.
Assumption: `BreakerAssumption`.

**BackgroundTasksProofs** (every set of tasks, every number of texts):
`TypeCorrect`, `ResultsReadOnce` (`DeliveredOnce`), `StoppedUnheard`
(`StoppedIsSilent`). The invariant follows a result from place to place
(`OnePlace`): it is on the lane of its prompt, in the client's channel, with the
client, with a prompt or in the history, and there once; none of these before
the task is gone. `Noticed` keeps the other way apart, that of the notices of the
running execution. `Warned` says of a stopped task that where its result is on
its way, the event that tells of the stop is before it, or the client has it;
that is what the client's filter for stopped tasks rests on. Assumption:
`TaskAssumption`.

**ClientInputProofs** (every set of texts and notices, every number of
interruptions): `TypeCorrect`, `NothingTwice` (`OneCopy`), `NobodyWaits`
(`NothingStranded`). The handlers of the client are functions of its state applied
to each other's results, so the invariant `Good` is a predicate of any such state,
and each function has a lemma that it keeps it (`SubmitKeeps`, `UnqueueKeeps`,
`FlushKeeps`, `DispatchKeeps`, `PollTextsKeeps`, `PollNoticesKeeps`); the actions
put these together. `Adding` says that what the client marks as being added is,
each once, on its way, in the queue of the execution or answered: without it a
receipt could speak of something the client has sent again. `Placed` keeps the
places of the client apart, and `Single` says of one item that what the client
still has was not sent, unless it is confirmed. For `NobodyWaits`, `Moving` adds
that whoever waits (the locked input line, the queue, the notices) waits for a
prompt, an execution or an end of a turn that is not yet shown. Assumption:
`InputAssumption`.

**SessionHistoryProofs** (every set of requests and threads, every number of
closes, crashes and the rest). Assumption on the constants: `SessionAssumption`.

- `Serialised`: `OneAtATime`. A second lock would allow two holders, so the
  invariant `LockInv` adds `CurrentLock`: whoever waits or holds does so at the
  lock of the table. It is preserved because `release_closed_session_lock` forgets
  a lock only if no request refers to it (the count of references of the `Arc`).
- `TypeCorrect`: `TypeOK`, by `Typed`, which types the rows as sequences of
  messages; what an insertion, a deletion and a load make of the rows of a thread
  are lemmas of their own (`AppendNew`, `DeleteType`, `ContextOfPrefix`, ...).
- `RestartAgrees` (`MemoryMatchesStore`), `RestoredOnce` (`NothingRestoredTwice`)
  and `NothingOverwritten` (`SnapshotIsCurrent`), when the session is `Sheltered`:
  no rewind is dropped or closed over, a command that compacts makes the
  conversation shorter, an execution does not compact and then fail, nobody
  resumes under a running prompt, and no fork shares a message's identifier. These are the code's open ends,
  each listed in section 5; without any one of them TLC finds memory and store in
  disagreement, so the hypothesis is as weak as its parts allow for
  `RestartAgrees`. For the other two it is stronger than the small instance asks
  for: TLC finds `NothingRestoredTwice` violated without any part but the one on
  forks, and `SnapshotIsCurrent` only without the parts on lengths, compaction and
  resumption.
- `ConfirmedStays`: `ConfirmedIsKept` whenever no execution compacts and then fails
  (`~AutoCompact`), whatever else disturbs the session. `LastWord` says of a
  result on its way that the confirmed text is its last message, and that another
  new one stands before it, so that the roll-back by length takes the result.

The invariant behind the third item is `Sound`. `StoreSound`: the cached context is the
beginning of the rows, or is older than all of them (`Aligned`), except while a
rewind is between its two transactions, and no message is there twice.
`MemorySound`: the memory of an open session is what a restart would read
(`Saved`), unless a request is between the store and the memory. `Stage` says for
each point of a request how far apart the two may be: it runs on a copy of what is
saved; its result then extends that copy by messages that are not in the store yet
(`Grew`) or is shorter than it (`Cut`); while rows are replaced nothing else is
there; and when it publishes, the store has what the memory takes over (`Kept`).
`Current` ties the copy to the opening of the session it was made in, and
`LoadSound` says that a load fills only an empty history, with what the store
still has. As only one request is inside at a time, one case per action of the one
holder suffices, and the steps of the others (arrivals, loads, closes, crashes)
have one lemma each.

**ShellHandoffProofs** (every set of commands): `TypeCorrect`, `EndsToldOnce`,
`OnlyOwnerKills`, `WakeUpNotLost`. The invariant adds what is known of a command
from where its tool stands (`Call`), that only a client that keeps commands takes
one over (`Host`), and that a slot is marked as ended only when its process has
ended and nobody can hand it over any more, with one notice for each that is
remembered (`Slot`). Assumption: `ShellAssumption`.

**LspClientProofs** (every set of calls and files, every limit): `TypeCorrect`,
`NobodyWaitsInVain`, `OneServerKept`. `NoSilentWait` is not inductive by itself: a
call that sends must know that the server's loop still runs. `Served` provides
it: a server whose input is open is read, and one that runs and is read has its
loop. `Fresh` (a process still to be started knows no file) carries the second
half of `OneServer` over a restart. Most actions of a call change no process; one
lemma, `QuietStep`, treats them all. Assumption: `LspAssumption`.

The proofs use the safety part of the specifications; fairness is not needed.

## 5. Disagreements between the code and what it says of itself

Two have a run that shows them (`findings` in `PROJECT.json`):

- A cancel while the start hooks of a background task run drops the gate, and
  the task keeps its slot for good (`execute_bg.rs:335`).
- The state of a language server is Running before the handshake
  (`cc-lsp/src/client.rs:144`), so the other calls of a batch send their requests
  to a server that has not answered initialize.

Others were met while modelling. Where a constant is named, they can be seen by
changing it; they are otherwise excluded by the bounds named in section 3:

- A compaction is told by `result.messages.len() < history_len`; /compact of a
  conversation that does not become shorter changes memory only
  (`acp_server/prompt.rs:174`). With `Shrinking = FALSE`, `MemoryMatchesStore` fails.
- A fork copies messages with their identifiers, which are the key of the
  whole table, so the fork's rows are ignored (`dispatch/session_fork.rs`,
  `sqlite_store.rs:489`). With `Forks = TRUE`, `MemoryMatchesStore` fails.
- A text submitted while a result waits for another task clears it
  (`agent_events_bg.rs:206`, `agent_submit.rs:335`). With `Submits = "any"`,
  `ResultsReachModel` fails.
- Notices leave the client with a prompt (`agent_submit.rs:182`). When it fails or
  is cancelled before it made progress, the server rolls it back
  (`prompt.rs:231`) and the client gives back the text only, so they are nowhere;
  `spec/features/background-task-insertion-prd.md:269` wants them delivered.
- An interruption handled before the receipt of an addition withdraws the last
  text although the server keeps it, which the comment in
  `bg_shell_notifications.rs:74` means to prevent; and after the client gave up
  on a cancel, the late end of that execution withdraws the next text, which
  will be executed. `OneCopy` therefore speaks of texts that were not withdrawn.
- A queued local command starts no turn, so the texts behind it wait in the
  queue until something else ends a turn (`agent_submit.rs:418`).
- The limit on restarts of a language server is passed over: a call that finds
  it reached starts the server by the pool (`lsp/tool.rs:144`, `pool.rs:161`), as
  long as the pool has not noted it as started; this way the files opened on the
  old server count as open on the new one, which is then sent changes of files
  it was never sent.
- Two ends of starts write the server's state over each other
  (`client.rs:420-425`): a failure that comes late marks a server as failed that
  another call has started meanwhile, and the next call closes it; and a server
  that dies between `initialized` and line 420 stays Running, with every later
  request refused by the pipe.
- The time limit of a request (`client.rs:238`) does not cover its sending, which
  holds the dispatcher (218): a server that stops reading blocks the other calls
  and the restart, until the user interrupts, and the after-tool hook that reports
  files to it, which an interruption does not reach.
- `middleware/chain.rs:79`: the comment says an error other than a rejection
  stops the chain; the code (86-93) goes on with the other middlewares.
- Breaker thresholds double (`tool_dispatch.rs:423`) past the window of six, so
  a breaker that tripped twice is mute. `BreakersTrip` therefore speaks of the
  first trip since the tool succeeded, and for alternations of any earlier trip.
- `delete_messages` invalidates the cached context after its transaction
  (`sqlite_store.rs:870`): with `Rewinds = "any"` a crash in between restores
  messages that were deleted, and later ones twice.
- With `Rewinds = "any"` and `Cancels = TRUE`, a /rewind dropped after its
  deletion leaves memory longer than the store (`executor.rs:345` against
  `command/rewind.rs:3`); likewise a close in the middle of a rewind followed
  by a load.
- With `AutoCompact = TRUE`, an execution that fails after it compacted is
  rolled back by length (`prompt.rs:201`), and drops texts whose senders were
  told they were taken. The comparison is made before leaked prepends are
  stripped (227).
- With `Resumes = TRUE`, session/resume replaces the memory under a running
  prompt (`requests.rs:618`; known to
  `spec/issues/2026-09-29-acp-protocol-conformance-audit.md`).
- A micro compaction sends the client all of `state.messages`
  (`compact_middleware.rs:299`), and the next snapshot repeats those that no
  snapshot had carried yet, which the comment at `executor/mod.rs:356` rules out
  for full compaction. After one, `ClientFaithful` claims nothing.
- Notices drained after a tool step never reach the client's copy
  (`final_answer.rs:56` moves the anchor past them).
- The comment on the window of thoughts (`executor/mod.rs:33`) describes
  consecutive repetition; `check_stuck` counts within the window.
- With `Overtaking = TRUE` or `Stops = TRUE`, `ResultsReachModel` fails without
  any text of the user: Done may come between the two events of a task, and a
  stopped task that was the last one running does not release what was buffered
  (`agent_events_bg.rs:239`).
- With "mentions" in `Endings`, a task whose result contains the word
  "cancelled" is treated as stopped (`agent_ops/subagent.rs:465`).
- A crash between the deletion and the insertion of a compacted conversation
  loses it (`prompt.rs:184`); the store offers no transaction over both.
- The permission mode is said to be snapshot for a batch (`hitl/mod.rs:322`),
  but the line clones the shared handle.

## 6. What is not modelled, what is only model-checked

Only model-checked: all liveness, which the provers do not reach. Every invariant
of a passing run is proved; those about memory and store for a `Sheltered` session
(section 4), as they hold in the runs. The number of equal thoughts in the window
of `Stuck` stays a `SelectSeq`: no proof depends on what it computes.

Abstracted in the modelled parts: contents and token counts, so that thresholds
are choices; streaming of partial answers; the texts of hints and notices; the
ten seconds after which a prompt stops waiting for its pump; a store that refuses a write
(which the code logs and ignores); more than one root thread with ancestors;
the limit of a hundred thousand messages; cron triggers and channel messages,
which submit prompts as the user does; the compaction of a notice by whose text a
result would have been recognised as delivered (`executor.rs:895`); the stdio client's own
continuation.

Not modelled: see the components with status `not_modelled` in `PROJECT.json`,
each with its reason. In short, configuration, prompt texts, parsing,
rendering, platform I/O, network formats and telemetry have no protocol that an
interleaving could break. The store in files (`thread/filesystem.rs`) is not
used by the server.

## 7. Plan

Done: ToolBatch, ReactLoop, LoopBreakers, ThreadStore and SessionHistory,
BackgroundTasks, ShellHandoff, ClientInput, LspClient, and the proofs of
section 4.

Next, proofs:

SessionHistory: `NothingRestoredTwice` without the condition on forks, and
`SnapshotIsCurrent` without those on rewinds and forks.

Next, models:

1. RequestTable: requests and answers of the transports, the broker's
   questions, a peer that leaves (`transport/mpsc.rs`, `stdio.rs`,
   `transport_broker.rs`). Abstract specification: every request is answered
   once. Bounds: two peers, three requests.
2. Approval: modes, questions and remembered approvals (`hitl/mod.rs`), behind
   the verdicts of ToolBatch.
3. McpPool: reconnections that overlap. Retry: attempts, partial streams.
4. What survives a crash during the persistence of a compaction, as a property
   of SessionHistory; the stdio client's continuation as a variant of
   BackgroundTasks.
