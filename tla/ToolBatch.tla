------------------------------ MODULE ToolBatch ------------------------------
(***************************************************************************)
(* One batch of tool calls of the ReAct loop: dispatch_tools and           *)
(* collect_tool_results (cc-agent/src/agent/executor/tool_dispatch.rs) with *)
(* the approval chain they call (cc-agent/src/middleware/chain.rs).        *)
(*                                                                         *)
(* The model asked for the tool calls 1..N in one AI message.  The batch   *)
(* is shown as pending, goes through the M middlewares of the approval     *)
(* chain, is triaged call by call, runs the approved calls concurrently    *)
(* and, when the last one has ended, writes the AI message and one result  *)
(* per call to the conversation in a single step.  The user may cancel at  *)
(* any moment.                                                             *)
(***************************************************************************)
EXTENDS Naturals, Sequences, FiniteSets

CONSTANTS
    N,  \* number of tool calls in the AI message
    M   \* number of middlewares of the approval chain

ASSUME BatchAssumption == N \in Nat \ {0} /\ M \in Nat

VARIABLES
    pc,           \* where dispatch_tools stands
    cancelled,    \* the session's CancellationToken
    mw,           \* middlewares that have judged the batch
    verdict,      \* before_results: what the chain says of each call
    cursor,       \* index of the serial loops (triage, then after_tool)
    settled,      \* settled_results: rejected calls, in call order
    ready,        \* ready_calls: approved calls, in call order
    exec,         \* state of each tool future
    shown,        \* last non-terminal display event of each call
    ends,         \* number of ToolEnd events emitted for each call
    wasCancelled, \* was_cancelled, read once all futures have ended
    deferred,     \* deferred_error: an after_tool hook failed
    history,      \* messages the batch appended to the conversation
    outcome       \* what dispatch_tools returned

vars == <<pc, cancelled, mw, verdict, cursor, settled, ready, exec, shown,
          ends, wasCancelled, deferred, history, outcome>>

display == <<shown, ends>>
queues  == <<settled, ready>>
result  == <<wasCancelled, deferred, history, outcome>>

Calls    == 1..N
Verdicts == {"ok", "rejected", "fatal"}

\* How a tool future may end by itself: its value, an unknown or unexposed
\* tool, arguments that do not fit the schema, a failing tool.
Endings  == {"ok", "notFound", "schema", "execFailed"}
ExecStates == Endings \cup {"idle", "running", "interrupted"}

AiMessage == [kind |-> "ai", call |-> 0, error |-> FALSE]

ToolMessage(c) ==
    [kind |-> "tool", call |-> c, error |-> exec[c] # "ok"]

\* settled_results.extend(exec_results): rejected calls first.
Results == settled \o ready

\* Mutant: the results of rejected calls are lost.
MutTranscript ==
    <<AiMessage>> \o [i \in 1..Len(ready) |-> ToolMessage(ready[i])]

\* The messages of phase B: the AI message, then one result per call.
Transcript ==
    <<AiMessage>> \o [i \in 1..Len(Results) |-> ToolMessage(Results[i])]

Settled(c) == \E i \in 1..Len(settled) : settled[i] = c

\* Mutant: rejected calls are closed a second time.
MutClosePending == ends' = [c \in Calls |-> ends[c] + 1]

\* close_pending: every call without its own ToolEnd gets one.
ClosePending ==
    ends' = [c \in Calls |-> IF Settled(c) THEN ends[c] ELSE ends[c] + 1]

Init ==
    /\ pc = "queued"
    /\ cancelled = FALSE
    /\ mw = 0
    /\ verdict = [c \in Calls |-> "ok"]
    /\ cursor = 1
    /\ settled = <<>>
    /\ ready = <<>>
    /\ exec = [c \in Calls |-> "idle"]
    /\ shown = [c \in Calls |-> "none"]
    /\ ends = [c \in Calls |-> 0]
    /\ wasCancelled = FALSE
    /\ deferred = FALSE
    /\ history = <<>>
    /\ outcome = "running"
-----------------------------------------------------------------------------
\* All calls are announced before anything is asked of the chain.
Announce ==
    /\ pc = "queued"
    /\ shown' = [c \in Calls |-> "pending"]
    /\ pc' = "approving"
    /\ UNCHANGED <<cancelled, mw, verdict, cursor, queues, exec, ends, result>>

\* Mutant: one middleware too many.
MutRunMiddleware ==
    /\ pc = "approving"
    /\ mw <= M
    /\ \E c \in Calls : verdict[c] = "ok"
    /\ \E answer \in [Calls -> Verdicts] :
         verdict' = [c \in Calls |-> IF verdict[c] = "ok" THEN answer[c]
                                     ELSE verdict[c]]
    /\ mw' = mw + 1
    /\ UNCHANGED <<pc, cancelled, cursor, queues, exec, display, result>>

\* run_before_tools_batch: the next middleware judges the calls that every
\* earlier one let through; its answers are written back by position.
RunMiddleware ==
    /\ pc = "approving"
    /\ mw < M
    /\ \E c \in Calls : verdict[c] = "ok"
    /\ \E answer \in [Calls -> Verdicts] :
         verdict' = [c \in Calls |-> IF verdict[c] = "ok" THEN answer[c]
                                     ELSE verdict[c]]
    /\ mw' = mw + 1
    /\ UNCHANGED <<pc, cancelled, cursor, queues, exec, display, result>>

FinishChain ==
    /\ pc = "approving"
    /\ mw = M \/ \A c \in Calls : verdict[c] # "ok"
    /\ pc' = "triage"
    /\ UNCHANGED <<cancelled, mw, verdict, cursor, queues, exec, display, result>>

\* Mutant: what was rejected so far is written when the batch is abandoned.
MutAbandon(why) ==
    /\ ClosePending
    /\ outcome' = why
    /\ pc' = "done"
    /\ history' = Transcript
    /\ UNCHANGED <<cancelled, mw, verdict, cursor, queues, exec, shown,
                   wasCancelled, deferred>>

\* Leaving with an error before anything ran: every open call is closed on
\* screen and the conversation is left alone.
Abandon(why) ==
    /\ ClosePending
    /\ outcome' = why
    /\ pc' = "done"
    /\ UNCHANGED <<cancelled, mw, verdict, cursor, queues, exec, shown,
                   wasCancelled, deferred, history>>

\* Mutant: cancellation is looked at only between two middlewares.
MutCancelApproval ==
    /\ pc = "approving"
    /\ cancelled
    /\ mw = M
    /\ Abandon("interrupted")

\* The biased select drops the approval future once the token is cancelled.
CancelApproval ==
    /\ pc = "approving"
    /\ cancelled
    /\ Abandon("interrupted")

TriageCancelled ==
    /\ pc = "triage"
    /\ cursor <= N
    /\ cancelled
    /\ Abandon("interrupted")

TriageApproved ==
    /\ pc = "triage"
    /\ cursor <= N
    /\ ~cancelled
    /\ verdict[cursor] = "ok"
    /\ shown' = [shown EXCEPT ![cursor] = "started"]
    /\ ready' = Append(ready, cursor)
    /\ cursor' = cursor + 1
    /\ UNCHANGED <<pc, cancelled, mw, verdict, settled, exec, ends, result>>

TriageRejected ==
    /\ pc = "triage"
    /\ cursor <= N
    /\ ~cancelled
    /\ verdict[cursor] = "rejected"
    /\ ends' = [ends EXCEPT ![cursor] = @ + 1]
    /\ settled' = Append(settled, cursor)
    /\ cursor' = cursor + 1
    /\ UNCHANGED <<pc, cancelled, mw, verdict, ready, exec, shown, result>>

\* Mutant: any error of the chain is turned into an error result.
MutTriageFatal ==
    /\ pc = "triage"
    /\ cursor <= N
    /\ ~cancelled
    /\ verdict[cursor] = "fatal"
    /\ ends' = [ends EXCEPT ![cursor] = @ + 1]
    /\ settled' = Append(settled, cursor)
    /\ cursor' = cursor + 1
    /\ UNCHANGED <<pc, cancelled, mw, verdict, ready, exec, shown, result>>

TriageFatal ==
    /\ pc = "triage"
    /\ cursor <= N
    /\ ~cancelled
    /\ verdict[cursor] = "fatal"
    /\ Abandon("fatal")

\* The futures of the ready calls are built and joined.
Launch ==
    /\ pc = "triage"
    /\ cursor > N
    /\ exec' = [c \in Calls |-> IF verdict[c] = "ok" THEN "running" ELSE exec[c]]
    /\ pc' = "running"
    /\ UNCHANGED <<cancelled, mw, verdict, cursor, queues, display, result>>

\* A future ends by itself.  The select is biased: the token is polled first,
\* so a tool whose token is already cancelled can only be interrupted.
CompleteTool(c) ==
    /\ pc = "running"
    /\ exec[c] = "running"
    /\ ~cancelled
    /\ \E r \in Endings : exec' = [exec EXCEPT ![c] = r]
    /\ ends' = [ends EXCEPT ![c] = @ + 1]
    /\ UNCHANGED <<pc, cancelled, mw, verdict, cursor, queues, shown, result>>

InterruptTool(c) ==
    /\ pc = "running"
    /\ exec[c] = "running"
    /\ cancelled
    /\ exec' = [exec EXCEPT ![c] = "interrupted"]
    /\ ends' = [ends EXCEPT ![c] = @ + 1]
    /\ UNCHANGED <<pc, cancelled, mw, verdict, cursor, queues, shown, result>>

\* join_all returns and the token is read once for the whole batch.
Join ==
    /\ pc = "running"
    /\ \A c \in Calls : exec[c] # "running"
    /\ wasCancelled' = cancelled
    /\ cursor' = 1
    /\ pc' = "after"
    /\ UNCHANGED <<cancelled, mw, verdict, queues, exec, display, deferred,
                   history, outcome>>

\* after_tool hooks, one call at a time; a failure is kept for the end.
AfterTool ==
    /\ pc = "after"
    /\ cursor <= Len(ready)
    /\ \E failed \in BOOLEAN : deferred' = (deferred \/ failed)
    /\ cursor' = cursor + 1
    /\ UNCHANGED <<pc, cancelled, mw, verdict, queues, exec, display,
                   wasCancelled, history, outcome>>

\* Mutant: the error is returned before the transcript is written.
MutWriteEarlyReturn ==
    /\ pc = "after"
    /\ cursor > Len(ready)
    /\ history' = IF wasCancelled THEN history ELSE Transcript
    /\ outcome' = IF wasCancelled THEN "interrupted"
                  ELSE IF deferred THEN "deferred" ELSE "ok"
    /\ pc' = "done"
    /\ UNCHANGED <<cancelled, mw, verdict, cursor, queues, exec, display,
                   wasCancelled, deferred>>

\* Mutant: a failed hook hides the cancellation.
MutWriteSwapped ==
    /\ pc = "after"
    /\ cursor > Len(ready)
    /\ history' = Transcript
    /\ outcome' = IF deferred THEN "deferred"
                  ELSE IF wasCancelled THEN "interrupted" ELSE "ok"
    /\ pc' = "done"
    /\ UNCHANGED <<cancelled, mw, verdict, cursor, queues, exec, display,
                   wasCancelled, deferred>>

\* Phase B has no await: the AI message and all results appear together, and
\* only then does the batch report a cancellation or a deferred error.
Write ==
    /\ pc = "after"
    /\ cursor > Len(ready)
    /\ history' = Transcript
    /\ outcome' = IF wasCancelled THEN "interrupted"
                  ELSE IF deferred THEN "deferred" ELSE "ok"
    /\ pc' = "done"
    /\ UNCHANGED <<cancelled, mw, verdict, cursor, queues, exec, display,
                   wasCancelled, deferred>>

\* The user, a parent agent or a shutdown cancels the session's token.
Cancel ==
    /\ pc # "done"
    /\ ~cancelled
    /\ cancelled' = TRUE
    /\ UNCHANGED <<pc, mw, verdict, cursor, queues, exec, display, result>>

Finished == pc = "done" /\ UNCHANGED vars

Triage == TriageCancelled \/ TriageApproved \/ TriageRejected \/ TriageFatal

Next ==
    \/ Announce \/ RunMiddleware \/ FinishChain \/ CancelApproval
    \/ Triage \/ Launch
    \/ \E c \in Calls : CompleteTool(c) \/ InterruptTool(c)
    \/ Join \/ AfterTool \/ Write
    \/ Cancel \/ Finished

\* The executor's own steps are polled to completion.  Middlewares and tools
\* are given no fairness.  A question to the user and a tool may hang, and so
\* may an after-tool hook: it is awaited beside no token, and the one for
\* language servers writes to a pipe without a time limit.
Fairness ==
    /\ WF_vars(Announce) /\ WF_vars(FinishChain) /\ WF_vars(CancelApproval)
    /\ WF_vars(Triage) /\ WF_vars(Launch)
    /\ \A c \in Calls : WF_vars(InterruptTool(c))
    /\ WF_vars(Join) /\ WF_vars(Write)

Spec == Init /\ [][Next]_vars /\ Fairness
-----------------------------------------------------------------------------
Messages == [kind : {"ai", "tool"}, call : 0..N, error : BOOLEAN]

\* Every variable keeps the shape the Rust types give it.
TypeOK ==
    /\ pc \in {"queued", "approving", "triage", "running", "after", "done"}
    /\ cancelled \in BOOLEAN
    /\ mw \in 0..M
    /\ verdict \in [Calls -> Verdicts]
    /\ cursor \in 1..(N + 1)
    /\ settled \in Seq(Calls)
    /\ ready \in Seq(Calls)
    /\ exec \in [Calls -> ExecStates]
    /\ shown \in [Calls -> {"none", "pending", "started"}]
    /\ ends \in [Calls -> Nat]
    /\ wasCancelled \in BOOLEAN
    /\ deferred \in BOOLEAN
    /\ history \in Seq(Messages)
    /\ outcome \in {"running", "ok", "interrupted", "deferred", "fatal"}

\* Once an AI message with tool calls is in the conversation, every one of its
\* calls has exactly one result after it (the provider answers 400 otherwise,
\* issue 2026-05-14-orphaned-tool-use-without-tool-result).
ToolUseClosed ==
    history # <<>> =>
        /\ history[1] = AiMessage
        /\ Len(history) = N + 1
        /\ \A c \in Calls :
             \E i \in 2..Len(history) :
               /\ history[i].kind = "tool"
               /\ history[i].call = c

\* A call is closed on screen at most once and only after it was announced, a
\* tool runs only when shown as started, and when the batch has returned,
\* whichever way it returned, no call is left waiting or running.
DisplayClosed ==
    /\ \A c \in Calls : /\ ends[c] <= 1
                        /\ ends[c] > 0 => shown[c] # "none"
                        /\ exec[c] # "idle" => shown[c] = "started"
    /\ outcome # "running" => \A c \in Calls : ends[c] = 1

\* No tool runs before the whole chain has approved it, and none runs at all
\* in a batch in which one call was fatally refused.
RunsOnlyApproved ==
    \A c \in Calls : exec[c] # "idle" =>
        /\ verdict[c] = "ok"
        /\ \A d \in Calls : verdict[d] # "fatal"

\* What ran is never forgotten: a batch that returns after launching a tool
\* has written its transcript, one that returns before has written nothing.
EffectsAreRecorded ==
    outcome # "running" =>
        ((\E c \in Calls : exec[c] # "idle") => history # <<>>)

\* A batch in which a tool was cut short never reports success, so the loop
\* does not hand a half-executed batch back to the model.
InterruptionReported ==
    (\E c \in Calls : exec[c] = "interrupted") =>
        outcome \in {"running", "interrupted"}

\* The batch waits for the after-tool hook of a call that ran.
InHook == pc = "after" /\ cursor <= Len(ready)

\* Cancelling ends the batch, even while an approval dialog is open or a tool
\* never returns by itself: at any time after it the batch ends or comes to an
\* after-tool hook, the one wait it leaves to others (tool_dispatch.rs:1003,
\* 1155 and 1214).
CancelEndsBatch == cancelled ~> (outcome # "running" \/ InHook)
-----------------------------------------------------------------------------
\* What the loop relies on: a batch either leaves the conversation alone or
\* adds the AI message with all its answers.
Atomic == INSTANCE AtomicBatch WITH
    asked    <- history # <<>>,
    answered <- {history[i].call : i \in 2..Len(history)}

ImplementsAtomicBatch == Atomic!Spec
=============================================================================
