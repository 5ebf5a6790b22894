------------------------------ MODULE ReactLoop ------------------------------
(***************************************************************************)
(* The ReAct loop: ReActAgent::execute and execute_inner                   *)
(* (cc-agent/src/agent/executor/mod.rs) with final_answer.rs, llm_step.rs, *)
(* the steering queue (cc-agent/src/agent/steering/mod.rs), automatic      *)
(* compaction (cc-middlewares/src/compact_middleware.rs) and the copy of   *)
(* the conversation that the terminal client keeps from the events it is   *)
(* sent (cc-tui/src/app/agent_ops/mod.rs, agent_compact.rs).               *)
(*                                                                         *)
(* One execution answers one prompt.  Each iteration may compact the       *)
(* conversation, writes what the user added meanwhile, asks the model and  *)
(* either runs the tools it asked for or answers.  Concurrently the user   *)
(* adds texts and may cancel, and background tasks post notices.           *)
(*                                                                         *)
(* state.messages is prefix \o msgs: the system messages put in front for  *)
(* this execution, then the conversation.  A message records in "of" the   *)
(* added texts it carries, so that a summary can carry what it replaced.   *)
(***************************************************************************)
EXTENDS Naturals, Sequences, SequencesExt, Selection

CONSTANTS
    MaxSteps,        \* max_iterations
    Items,           \* texts the user adds during the execution
    MaxNotices,      \* background tasks that end during the execution
    FullCompaction,  \* the context may cross the compaction threshold
    MicroCompaction, \* the context may cross the warning threshold
    Thoughts,        \* fingerprints of the model's thinking
    StuckWindow,     \* STUCK_WINDOW_SIZE
    StuckThreshold   \* STUCK_REPEAT_THRESHOLD

ASSUME LoopAssumption ==
    /\ MaxSteps \in Nat \ {0} /\ Items \in Nat /\ MaxNotices \in Nat
    /\ FullCompaction \in BOOLEAN /\ MicroCompaction \in BOOLEAN
    /\ StuckWindow \in Nat \ {0} /\ StuckThreshold \in Nat \ {0}

NoThought == "none"
ASSUME ThoughtAssumption == NoThought \notin Thoughts

VARIABLES
    pc,        \* where execute_inner stands
    step,      \* iterations begun
    cancelled, \* the CancellationToken
    prefix,    \* temporary system messages at the head of state.messages
    collected, \* prepended_ids has been filled
    msgs,      \* the rest of state.messages
    made,      \* number of messages created, the source of message ids
    anchor,    \* snapshot_anchor
    reply,     \* the model's last answer
    recent,    \* recent_fingerprints
    microDone, \* micro_compact_done
    closed,    \* QueueState.closed
    queue,     \* QueueState.pending
    pending,   \* pending_steering
    receipt,   \* what the sender of each added text knows of it
    channel,   \* notices waiting in notification_rx
    noticed,   \* notices posted so far
    client,    \* origin_messages of the terminal client
    read,      \* added texts the model was given word for word
    outcome    \* what execute returned

loop     == <<pc, step, collected, anchor, reply, recent, microDone>>
steering == <<closed, queue, pending, receipt>>
notices  == <<channel, noticed>>
talk     == <<prefix, msgs, made>>
vars == <<loop, steering, notices, talk, cancelled, client, read, outcome>>

\* The promise of one batch of tool calls, shown of ToolBatch.
Batch == INSTANCE AtomicBatch
         WITH N <- 1, asked <- FALSE, answered <- {}, outcome <- "running"

Receipts == {"idle", "refused", "waiting", "confirmed", "rejected"}
Outcomes == {"running", "ok", "interrupted", "failed", "maxIterations"}
Places   == {"start", "beforeAgent", "beforeModel", "steer", "model",
             "afterModel", "dispatch", "snapshot", "drain", "boundary",
             "finalDrain", "afterAgent", "done"}
Kinds    == {"old", "human", "preload", "steer", "hint", "tools", "results",
             "answer", "notice", "summary", "restored"}

\* A system message put in front of the conversation.
SystemMessage == [kind |-> "system", id |-> 0, of |-> {}]

Message(kind, n, of) == [kind |-> kind, id |-> made + n, of |-> of]

Carried(ms) == UNION {ms[i].of : i \in 1..Len(ms)}

\* The added texts that stand in a message of their own.
Verbatim(ms) == UNION {ms[i].of : i \in {j \in 1..Len(ms) : ms[j].kind = "steer"}}

LastId(ms) == ms[Len(ms)].id

\* index_after_id: the messages after the anchor, all of them if it is gone.
After(ms, id) ==
    IF \E i \in 1..Len(ms) : ms[i].id = id
    THEN SubSeq(ms, 1 + CHOOSE i \in 1..Len(ms) : ms[i].id = id, Len(ms))
    ELSE ms

Visible(m) == m.kind # "restored"

\* What a StateSnapshot carries of new messages: all but the system messages.
Shown(ms) == Picked(ms, {i \in 1..Len(ms) : Visible(ms[i])})

\* The messages of one StateSnapshot: those since the anchor.  The client
\* appends them to its copy.
Snapshot(ms) == Shown(After(ms, anchor))

Init ==
    /\ pc = "start" /\ step = 0 /\ cancelled = FALSE
    /\ prefix = <<>> /\ collected = FALSE
    /\ made = 1 /\ msgs = <<[kind |-> "old", id |-> 1, of |-> {}]>>
    /\ anchor = 1
    /\ reply = [tools |-> FALSE, thought |-> NoThought]
    /\ recent = <<>> /\ microDone = FALSE
    /\ closed = FALSE /\ queue = <<>> /\ pending = <<>>
    /\ receipt = [k \in 1..Items |-> "idle"]
    /\ channel = 0 /\ noticed = 0
    /\ client = msgs
    /\ read = {}
    /\ outcome = "running"
-----------------------------------------------------------------------------
\* execute_inner returns: the guard closes the queue, the receipts still in
\* pending_steering or in the queue are dropped, which rejects them, and
\* execute removes the prefix it knows of.
Return(o) ==
    /\ pc' = "done"
    /\ outcome' = o
    /\ closed' = TRUE
    /\ queue' = <<>>
    /\ pending' = <<>>
    /\ receipt' = [k \in 1..Items |->
         IF receipt[k] = "waiting" THEN "rejected" ELSE receipt[k]]
    /\ prefix' = IF collected THEN <<>> ELSE prefix

\* An early return by "?": the conversation stays as it is.
Fail(o) ==
    /\ Return(o)
    /\ UNCHANGED <<step, collected, anchor, reply, recent, microDone, msgs,
                   made, client, read, cancelled, notices>>

Append1(kind) ==
    /\ msgs' = Append(msgs, Message(kind, 1, {}))
    /\ made' = made + 1

\* The prompt is written and anchors the snapshots; the client already
\* shows it.
Begin ==
    /\ pc = "start"
    /\ Append1("human")
    /\ anchor' = made + 1
    /\ client' = Append(client, Message("human", 1, {}))
    /\ pc' = "beforeAgent"
    /\ UNCHANGED <<step, collected, reply, recent, microDone, prefix,
                   steering, notices, cancelled, read, outcome>>

\* A middleware of run_before_agent puts its guidance in front or appends
\* messages (a preloaded skill).
GuideAgent ==
    /\ pc = "beforeAgent"
    /\ prefix = <<>> /\ made = 2
    /\ \/ prefix' = <<SystemMessage>> /\ UNCHANGED <<msgs, made>>
       \/ Append1("preload") /\ UNCHANGED prefix
    /\ UNCHANGED <<loop, steering, notices, cancelled, client, read, outcome>>

\* All middlewares have run: the system prompt, and prepended_ids.
BeforeAgent ==
    /\ pc = "beforeAgent"
    /\ prefix' = <<SystemMessage>> \o prefix
    /\ collected' = TRUE
    /\ pc' = "beforeModel"
    /\ UNCHANGED <<step, anchor, reply, recent, microDone, msgs, made,
                   steering, notices, cancelled, client, read, outcome>>

\* A middleware fails in run_before_agent, possibly after others have put
\* their guidance in front; prepended_ids is still empty.
BeforeAgentFails ==
    /\ pc = "beforeAgent"
    /\ Fail("failed")
-----------------------------------------------------------------------------
\* Mutant: one iteration too many.
MutNoCompaction ==
    /\ pc = "beforeModel" /\ step <= MaxSteps
    /\ pc' = "steer"
    /\ UNCHANGED <<step, collected, anchor, reply, recent, microDone,
                   steering, notices, talk, cancelled, client, read, outcome>>

\* run_before_model without compaction: nothing to do, switched off, or the
\* compaction failed or was cancelled and put the messages back.
NoCompaction ==
    /\ pc = "beforeModel" /\ step < MaxSteps
    /\ pc' = "steer"
    /\ UNCHANGED <<step, collected, anchor, reply, recent, microDone,
                   steering, notices, talk, cancelled, client, read, outcome>>

BeforeModelFails ==
    /\ pc = "beforeModel" /\ step < MaxSteps
    /\ Fail("failed")

\* The token tracker starts empty with every execution and is fed by the
\* model's answers: the first iteration never compacts.
Measured == 0 < step /\ step < MaxSteps

\* build_compacted_messages: the summary, then the restored files.
Summary == <<Message("summary", 1, Carried(msgs)), Message("restored", 2, {})>>

\* do_full_compact: the conversation becomes its summary, the prefix stays,
\* and CompactCompleted gives the client the new conversation.
CompactFully ==
    /\ FullCompaction
    /\ pc = "beforeModel" /\ Measured
    /\ ~cancelled
    /\ msgs' = Summary
    /\ made' = made + 2
    /\ client' = Summary
    /\ pc' = "steer"
    /\ UNCHANGED <<step, collected, anchor, reply, recent, microDone, prefix,
                   steering, notices, cancelled, read, outcome>>

\* do_micro_compact shortens old tool results in place, once per prompt, and
\* gives the client the whole of state.messages.
CompactMicro ==
    /\ MicroCompaction
    /\ pc = "beforeModel" /\ Measured
    /\ ~microDone
    /\ microDone' = TRUE
    /\ client' = prefix \o msgs
    /\ pc' = "steer"
    /\ UNCHANGED <<step, collected, anchor, reply, recent, steering, notices,
                   talk, cancelled, read, outcome>>

\* Mutant: the anchor is not renewed after a compaction.
MutRehung == anchor

\* A compaction that dropped the anchor moves it to the last message.
Rehung ==
    IF \E i \in 1..Len(msgs) : msgs[i].id = anchor THEN anchor
    ELSE LastId(msgs)

\* Mutant: texts drained now go before the ones held since the last answer.
MutDrained == queue \o pending

\* pending_steering.extend(queue.drain())
Drained == pending \o queue

\* The drained texts are written, sent to the client with everything not yet
\* sent, and only then confirmed to their senders.
ConsumeSteering ==
    /\ pc = "steer"
    /\ queue' = <<>>
    /\ pending' = <<>>
    /\ pc' = "model"
    /\ IF Drained = <<>>
       THEN /\ anchor' = Rehung
            /\ UNCHANGED <<msgs, made, client, receipt>>
       ELSE LET written == msgs \o [i \in 1..Len(Drained) |->
                                      Message("steer", i, {Drained[i]})]
            IN  /\ msgs' = written
                /\ made' = made + Len(Drained)
                /\ client' = client \o Shown(After(written, Rehung))
                /\ anchor' = LastId(written)
                /\ receipt' = [k \in 1..Items |->
                     IF \E i \in 1..Len(Drained) : Drained[i] = k
                     THEN "confirmed" ELSE receipt[k]]
    /\ UNCHANGED <<step, collected, reply, recent, microDone, prefix, closed,
                   notices, cancelled, read, outcome>>
-----------------------------------------------------------------------------
\* call_llm: the model answers before anyone cancels.
CallModel ==
    /\ pc = "model"
    /\ ~cancelled
    /\ \E tools \in BOOLEAN, thought \in Thoughts \cup {NoThought} :
         reply' = [tools |-> tools, thought |-> thought]
    /\ read' = read \cup Verbatim(msgs)
    /\ pc' = "afterModel"
    /\ UNCHANGED <<step, collected, anchor, recent, microDone, steering,
                   notices, talk, cancelled, client, outcome>>

CallInterrupted ==
    /\ pc = "model"
    /\ cancelled
    /\ Fail("interrupted")

CallFails ==
    /\ pc \in {"model", "afterModel"}
    /\ pc = "model" => ~cancelled
    /\ Fail("failed")

\* The window of recent fingerprints with this one added.
Window == LET w == Append(recent, reply.thought)
          IN  IF Len(w) > StuckWindow THEN Tail(w) ELSE w

\* check_stuck: this fingerprint and its earlier occurrences in the window.
Stuck ==
    /\ reply.thought # NoThought
    /\ 1 + Len(SelectSeq(recent, LAMBDA f : f = reply.thought))
         >= StuckThreshold

\* The branch after the model's answer: tools or an answer.
Branch == IF reply.tools THEN "dispatch" ELSE "boundary"

Proceed ==
    /\ pc = "afterModel"
    /\ ~Stuck
    /\ recent' = IF reply.thought = NoThought THEN recent ELSE Window
    /\ pc' = Branch
    /\ UNCHANGED <<step, collected, anchor, reply, microDone, steering,
                   notices, talk, cancelled, client, read, outcome>>

\* The hint is written even before a final answer; tool calls are skipped.
BreakLoop ==
    /\ pc = "afterModel"
    /\ Stuck
    /\ recent' = <<>>
    /\ Append1("hint")
    /\ IF reply.tools THEN pc' = "beforeModel" /\ step' = step + 1
       ELSE pc' = "boundary" /\ step' = step
    /\ UNCHANGED <<collected, anchor, reply, microDone, prefix, steering,
                   notices, cancelled, client, read, outcome>>
-----------------------------------------------------------------------------
Transcript == <<Message("tools", 1, {}), Message("results", 2, {})>>

\* dispatch_tools wrote its transcript; it may still return an error.
DispatchWritten ==
    /\ pc = "dispatch"
    /\ msgs' = msgs \o Transcript
    /\ made' = made + 2
    /\ \E o \in Batch!Committed :
         /\ o = "interrupted" => cancelled
         /\ IF o = "ok"
            THEN pc' = "snapshot" /\ UNCHANGED <<prefix, steering, outcome>>
            ELSE Return(IF o = "deferred" THEN "failed" ELSE o)
    /\ UNCHANGED <<step, collected, anchor, reply, recent, microDone, notices,
                   cancelled, client, read>>

DispatchAborted ==
    /\ pc = "dispatch"
    /\ \E o \in Batch!Aborted :
         /\ o = "interrupted" => cancelled
         /\ Fail(IF o = "fatal" THEN "failed" ELSE o)

EmitSnapshot ==
    /\ pc = "snapshot"
    /\ client' = client \o Snapshot(msgs)
    /\ pc' = "drain"
    /\ UNCHANGED <<step, collected, anchor, reply, recent, microDone,
                   steering, notices, talk, cancelled, read, outcome>>

\* drain_notifications
NoticeMessages == [i \in 1..channel |-> Message("notice", i, {})]

DrainNotices ==
    /\ msgs' = msgs \o NoticeMessages
    /\ made' = made + channel
    /\ channel' = 0
    /\ noticed' = noticed

\* The notices are written after the snapshot and the anchor moves past them.
DrainAfterTools ==
    /\ pc = "drain"
    /\ DrainNotices
    /\ anchor' = LastId(msgs')
    /\ pc' = "beforeModel"
    /\ step' = step + 1
    /\ UNCHANGED <<collected, reply, recent, microDone, prefix, steering,
                   cancelled, client, read, outcome>>
-----------------------------------------------------------------------------
LastStep == step + 1 >= MaxSteps

\* The user added something while the model answered: the answer is kept and
\* the loop goes on.  The answer is sent with the next snapshot.
KeepAnswer ==
    /\ pc = "boundary"
    /\ ~LastStep
    /\ queue # <<>>
    /\ pending' = queue
    /\ queue' = <<>>
    /\ Append1("answer")
    /\ step' = step + 1
    /\ pc' = "beforeModel"
    /\ UNCHANGED <<collected, anchor, reply, recent, microDone, prefix, closed,
                   receipt, notices, cancelled, client, read, outcome>>

\* Mutant: the queue is found empty but left open.
MutSeal ==
    /\ closed' = LastStep
    /\ queue' = <<>>
    /\ receipt' = [k \in 1..Items |->
         IF \E i \in 1..Len(queue) : queue[i] = k THEN "rejected"
         ELSE receipt[k]]

\* drain_or_close on an empty queue, or close at the last iteration: from
\* here on additions are refused, and the ones still queued are rejected.
Seal ==
    /\ closed' = TRUE
    /\ queue' = <<>>
    /\ receipt' = [k \in 1..Items |->
         IF \E i \in 1..Len(queue) : queue[i] = k THEN "rejected"
         ELSE receipt[k]]

\* record_answer and the snapshot of handle_final_answer.
FinalAnswer ==
    /\ pc = "boundary"
    /\ LastStep \/ queue = <<>>
    /\ Seal
    /\ Append1("answer")
    /\ client' = client \o Snapshot(msgs')
    /\ anchor' = LastId(msgs')
    /\ pc' = "finalDrain"
    /\ UNCHANGED <<step, collected, reply, recent, microDone, prefix, pending,
                   notices, cancelled, read, outcome>>

\* The notices of the final answer are sent to the client.
FinalDrain ==
    /\ pc = "finalDrain"
    /\ DrainNotices
    /\ client' = client \o Snapshot(msgs')
    /\ anchor' = LastId(msgs')
    /\ pc' = "afterAgent"
    /\ UNCHANGED <<step, collected, reply, recent, microDone, prefix, steering,
                   cancelled, read, outcome>>

\* run_after_agent; no middleware writes messages in it.
AfterAgent ==
    /\ pc = "afterAgent"
    /\ \E o \in {"ok", "failed"} : Fail(o)

\* Mutant: the last iteration is never reached.
MutMaxIterations ==
    /\ pc = "beforeModel"
    /\ step > MaxSteps
    /\ client' = client \o Snapshot(msgs)
    /\ Return("maxIterations")
    /\ UNCHANGED <<step, collected, anchor, reply, recent, microDone, msgs,
                   made, notices, cancelled, read>>

\* The iterations are used up: what was not sent yet is sent.
MaxIterations ==
    /\ pc = "beforeModel"
    /\ step = MaxSteps
    /\ client' = client \o Snapshot(msgs)
    /\ Return("maxIterations")
    /\ UNCHANGED <<step, collected, anchor, reply, recent, microDone, msgs,
                   made, notices, cancelled, read>>
-----------------------------------------------------------------------------
\* SteeringQueue::enqueue, called by the server for the client: a closed
\* queue refuses at once.
Enqueue(k) ==
    /\ receipt[k] = "idle"
    /\ \A j \in 1..(k - 1) : receipt[j] # "idle"
    /\ IF closed
       THEN /\ receipt' = [receipt EXCEPT ![k] = "refused"]
            /\ UNCHANGED queue
       ELSE /\ receipt' = [receipt EXCEPT ![k] = "waiting"]
            /\ queue' = Append(queue, k)
    /\ UNCHANGED <<loop, closed, pending, notices, talk, cancelled, client,
                   read, outcome>>

Cancel ==
    /\ pc # "done"
    /\ ~cancelled
    /\ cancelled' = TRUE
    /\ UNCHANGED <<loop, steering, notices, talk, client, read, outcome>>

\* A background task ends and posts its notice.
Post ==
    /\ pc # "done"
    /\ noticed < MaxNotices
    /\ noticed' = noticed + 1
    /\ channel' = channel + 1
    /\ UNCHANGED <<loop, steering, talk, cancelled, client, read, outcome>>

Loop ==
    \/ Begin \/ GuideAgent \/ BeforeAgent \/ BeforeAgentFails
    \/ NoCompaction \/ BeforeModelFails \/ CompactFully \/ CompactMicro
    \/ ConsumeSteering
    \/ CallModel \/ CallInterrupted \/ CallFails \/ Proceed \/ BreakLoop
    \/ DispatchWritten \/ DispatchAborted \/ EmitSnapshot \/ DrainAfterTools
    \/ KeepAnswer \/ FinalAnswer \/ FinalDrain \/ AfterAgent
    \/ MaxIterations

Next == Loop \/ (\E k \in 1..Items : Enqueue(k)) \/ Cancel \/ Post

\* The execution is one task of the runtime, and model calls, hooks and
\* tools return; nobody has to add a text, to cancel or to post a notice.
Spec == Init /\ [][Next]_vars /\ WF_vars(Loop)
-----------------------------------------------------------------------------
\* The state of the loop, of the queue and of the client is well formed.
TypeOK ==
    /\ pc \in Places /\ outcome \in Outcomes /\ step \in 0..MaxSteps
    /\ cancelled \in BOOLEAN /\ collected \in BOOLEAN
    /\ microDone \in BOOLEAN /\ closed \in BOOLEAN
    /\ made \in Nat \ {0} /\ anchor \in Nat
    /\ prefix \in Seq({SystemMessage})
    /\ msgs \in Seq([kind : Kinds, id : Nat, of : SUBSET (1..Items)])
    /\ reply \in [tools : BOOLEAN, thought : Thoughts \cup {NoThought}]
    /\ recent \in Seq(Thoughts)
    /\ queue \in Seq(1..Items) /\ pending \in Seq(1..Items)
    /\ receipt \in [1..Items -> Receipts]
    /\ channel \in Nat /\ noticed \in 0..MaxNotices
    /\ read \in SUBSET (1..Items)

\* The sender of an added text is told that it was taken over exactly when the
\* conversation carries it, word for word or in a summary; and whatever way the
\* execution ends, no sender is left without an answer and the queue takes
\* nothing more (steering/mod.rs:1, consume_steering, SteeringGuard).  An
\* answer is final only if nothing was accepted and not written, save at the
\* last iteration (drain_or_close, steering/mod.rs:40).
ReceiptsTruthful ==
    /\ \A k \in 1..Items :
         receipt[k] = "confirmed" <=> k \in Carried(msgs)
    /\ pc = "done" =>
         /\ closed
         /\ \A k \in 1..Items : receipt[k] # "waiting"
    /\ (pc \in {"finalDrain", "afterAgent"} \/ outcome = "ok") /\ ~LastStep =>
         \A k \in 1..Items : receipt[k] \notin {"waiting", "rejected"}

\* Added texts enter the conversation in the order they were accepted, also
\* when some waited at a final answer and others in the queue, and a compaction
\* summarises one only after the model was given it word for word (mod.rs:366,
\* "compact may replace all messages; insert only after it").
ReadInOrder ==
    /\ \A i \in 1..Len(msgs) :
         msgs[i].kind # "steer" => msgs[i].of \subseteq read
    /\ \A i, j \in 1..Len(msgs) : i < j =>
         \A k \in msgs[i].of, l \in msgs[j].of : k < l

Rising(ms) == \A i, j \in 1..Len(ms) : i < j => ms[i].id < ms[j].id

\* The client's copy never gets ahead of the conversation, repeats or skips a
\* message or has two in another order, and is complete when the execution ends
\* by itself.  Background notices are only sent at most once: the anchor passes
\* those drained after a tool step.  A micro compaction hands the client more
\* than the conversation, and then nothing is claimed.
ClientFaithful ==
    ~microDone =>
      /\ Rising(msgs) /\ Rising(client)
      /\ ToSet(client) \subseteq ToSet(msgs)
      /\ \A m \in ToSet(msgs) \ ToSet(client) :
           \/ m.kind = "notice"
           \/ /\ outcome \notin {"ok", "maxIterations"}
              /\ \A i \in 1..Len(client) : client[i].id < m.id

\* The execution ends, however often the model repeats itself, the
\* conversation is compacted and the user adds to it.
Terminates == <>(pc = "done")
=============================================================================
