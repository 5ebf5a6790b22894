---------------------------- MODULE ClientInput ----------------------------
(***************************************************************************)
(* What the user types and what background commands report, on its way     *)
(* from the terminal client to the model: the queue of texts               *)
(* (cc-tui/src/app/queued_messages.rs), the submission of a turn           *)
(* (agent_submit.rs), the notices of ended commands                        *)
(* (bg_shell_notifications.rs), the end of a turn (agent_ops/lifecycle.rs, *)
(* polling.rs), and the prompts and added texts as the server takes them   *)
(* (cc-acp/src/session/acp_server, session/steering.rs).                   *)
(*                                                                         *)
(* The client is one thread: a handler is one step.  Prompts, added texts  *)
(* and cancels leave in tasks of their own and may overtake each other;    *)
(* receipts and events come back by different ways.  The server runs one   *)
(* prompt of the session at a time.                                        *)
(*                                                                         *)
(* The provider is configured and the session open.  Left out: images,     *)
(* other sessions, slash commands, sub-agents in front and the             *)
(* continuation after background tasks (BackgroundTasks).                  *)
(***************************************************************************)
EXTENDS Naturals, FiniteSets, SequencesExt

CONSTANTS
    Texts,    \* what the user types for the model
    Notices,  \* completion notices of background commands
    Nothing,  \* no text
    MaxInterrupts \* bound: how often the user interrupts

ASSUME InputAssumption ==
    /\ Texts \cap Notices = {}
    /\ Nothing \notin Texts \cup Notices
    /\ MaxInterrupts \in Nat

VARIABLES
    fresh,    \* what has not been typed or reported yet
    ui,       \* the client, with the tasks it has spawned
    cancels,  \* session/cancel: how many were sent, and one on its way
    run,      \* the execution that holds the prompt lock
    receipts, \* answers to added texts on their way
    events,   \* events of executions on their way
    kept      \* how often an item is in the server's history, 2 for more

vars == <<fresh, ui, cancels, run, receipts, events, kept>>

Items == Texts \cup Notices
Prompt == [text : Texts \cup {Nothing}, notices : SUBSET Notices]
Receipt == [item : Items, ok : BOOLEAN]
NoPrompt == [text |-> Nothing, notices |-> {}]

Idle == [on |-> FALSE, prompt |-> NoPrompt, steered |-> {}, added |-> {},
         cancelled |-> FALSE, tools |-> FALSE]

Init ==
    /\ fresh = Texts \cup Notices
    /\ ui = [draft |-> Nothing,      \* the textarea
             queue |-> <<>>,         \* pending_messages
             sending |-> {},         \* those with sending
             pending |-> {},         \* pending_bg_shell_notifications
             inFlight |-> {},        \* bg_shell_steering.in_flight
             current |-> {},         \* those of them of this attempt
             tried |-> FALSE,        \* last_attempt is this attempt
             loading |-> FALSE,      \* ui.loading
             cancelSent |-> FALSE,   \* cancel_sent_at
             reconciled |-> FALSE,   \* reconcile_already_done
             last |-> Nothing,       \* last_submitted_text
             tools |-> FALSE,        \* tool calls in view after the last text
             withdrawn |-> {},       \* texts an interruption took back
             prompts |-> <<>>,       \* session/prompt requests under way
             adds |-> {}]            \* peri/session/steer requests under way
    /\ cancels = [sent |-> 0, coming |-> FALSE]
    /\ run = Idle
    /\ receipts = {} /\ events = <<>>
    /\ kept = [x \in Items |-> 0]
-----------------------------------------------------------------------------
\* The parts of the client's handlers, as functions of its state s.

\* submit_message: the pending notices go with the text.
Submit(s, t) ==
    [s EXCEPT !.prompts = Append(@, [text |-> t, notices |-> s.pending]),
              !.pending = {}, !.last = t,
              !.tools = IF t = Nothing THEN @ ELSE FALSE,
              !.loading = TRUE, !.cancelSent = FALSE, !.reconciled = FALSE,
              !.current = {}, !.tried = FALSE]

\* retain: what is left of seq, in its order, when the members of set go.
Without(seq, set) ==
    LET left == {i \in DOMAIN seq : seq[i] \notin set}
        Place(i) == Cardinality({j \in left : j <= i})
    IN  [k \in 1..Cardinality(left) |-> seq[CHOOSE i \in left : Place(i) = k]]

Unqueue(s, m) == [s EXCEPT !.queue = Without(@, {m})]

\* flush_pending_messages: one message, none while one is being added.
Flush(s) ==
    IF s.queue = <<>> \/ s.sending # {} THEN s
    ELSE Submit(Unqueue(s, Head(s.queue)), Head(s.queue))

\* dispatch_pending_bg_shell_notifications: into the running turn, once per
\* turn unless they are new; or as a turn of their own, all in one.
Dispatch(s, new) ==
    IF s.pending = {} THEN s
    ELSE IF s.loading
         THEN IF ~new /\ s.tried THEN s
              ELSE [s EXCEPT !.tried = TRUE, !.pending = {},
                             !.inFlight = @ \cup s.pending,
                             !.current = @ \cup s.pending,
                             !.adds = @ \cup s.pending]
         ELSE IF s.reconciled THEN s ELSE Submit(s, Nothing)

Accepted(set) == {r.item : r \in {q \in receipts : q.ok}} \cap set
Rejected(set) == {r.item : r \in {q \in receipts : ~q.ok}} \cap set

\* poll_bg_shell_notifications
PollNotices(s) ==
    LET yes == Accepted(s.inFlight)
        no  == Rejected(s.inFlight) IN
    Dispatch([s EXCEPT !.inFlight = @ \ (yes \cup no),
                       !.current = @ \ (yes \cup no),
                       !.pending = @ \cup no,
                       !.last = IF yes \cap s.current # {} THEN Nothing ELSE @],
             FALSE)

\* Mutant: a refused text does not let the queue go on.
MutPollTexts(s) ==
    LET yes == Accepted(s.sending)
        no  == Rejected(s.sending) IN
    [s EXCEPT !.sending = @ \ (yes \cup no),
              !.queue = Without(@, yes),
              !.last = IF yes = {} THEN @ ELSE Nothing]

\* poll_steering_results
PollTexts(s) ==
    LET yes == Accepted(s.sending)
        no  == Rejected(s.sending)
        s1  == [s EXCEPT !.sending = @ \ (yes \cup no),
                         !.queue = Without(@, yes),
                         !.last = IF yes = {} THEN @ ELSE Nothing] IN
    IF yes \cup no # {} /\ ~s.loading THEN Flush(s1) ELSE s1
-----------------------------------------------------------------------------
\* The user types, with an empty input line, something new.
Type(m) ==
    /\ m \in fresh \ Notices
    /\ ui.draft = Nothing
    /\ ui' = [ui EXCEPT !.draft = m]
    /\ fresh' = fresh \ {m}
    /\ UNCHANGED <<cancels, run, receipts, events, kept>>

\* Enter: a turn, or the queue while one runs (handle_busy_input).
Enter ==
    /\ ui.draft # Nothing
    /\ LET s == [ui EXCEPT !.draft = Nothing] IN
       ui' = IF ui.loading THEN [s EXCEPT !.queue = Append(@, ui.draft)]
             ELSE Submit(s, ui.draft)
    /\ UNCHANGED <<fresh, cancels, run, receipts, events, kept>>

\* Mutant: the message is not marked as being sent.
MutSteer(m) ==
    /\ m \in ToSet(ui.queue) \ ui.sending
    /\ IF ui.loading
       THEN ui' = [ui EXCEPT !.adds = @ \cup {m}]
       ELSE /\ ui.sending = {}
            /\ ui' = Submit(Unqueue(ui, m), m)
    /\ UNCHANGED <<fresh, cancels, run, receipts, events, kept>>

\* "Send now": into the running turn, or as a turn of its own.
Steer(m) ==
    /\ m \in ToSet(ui.queue) \ ui.sending
    /\ IF ui.loading
       THEN ui' = [ui EXCEPT !.sending = @ \cup {m}, !.adds = @ \cup {m}]
       ELSE /\ ui.sending = {}
            /\ ui' = Submit(Unqueue(ui, m), m)
    /\ UNCHANGED <<fresh, cancels, run, receipts, events, kept>>

\* Mutant: a message that is being added may be deleted.
MutDelete(m) ==
    /\ m \in ToSet(ui.queue)
    /\ ui' = Unqueue(ui, m)
    /\ UNCHANGED <<fresh, cancels, run, receipts, events, kept>>

Delete(m) ==
    /\ m \in ToSet(ui.queue) \ ui.sending
    /\ ui' = Unqueue(ui, m)
    /\ UNCHANGED <<fresh, cancels, run, receipts, events, kept>>

\* App::interrupt
Interrupt ==
    /\ ui.loading
    /\ cancels.sent < MaxInterrupts
    /\ cancels' = [sent |-> cancels.sent + 1, coming |-> TRUE]
    /\ ui' = [ui EXCEPT !.cancelSent = TRUE]
    /\ UNCHANGED <<fresh, run, receipts, events, kept>>

\* inject_bg_shell_notifications
Report(n) ==
    /\ n \in fresh \cap Notices
    /\ fresh' = fresh \ {n}
    /\ ui' = Dispatch([ui EXCEPT !.pending = @ \cup {n}], TRUE)
    /\ UNCHANGED <<cancels, run, receipts, events, kept>>

\* Each frame: the receipts of texts, then those of notices.
Poll ==
    /\ ui' = PollNotices(PollTexts(ui))
    /\ receipts' = {}
    /\ ui' # ui \/ receipts # {}
    /\ UNCHANGED <<fresh, cancels, run, events, kept>>

\* Five seconds after a cancel the client unlocks itself.
GiveUp ==
    /\ ui.cancelSent /\ ui.loading
    /\ ui' = [ui EXCEPT !.cancelSent = FALSE, !.loading = FALSE]
    /\ UNCHANGED <<fresh, cancels, run, receipts, events, kept>>

Receive(kind) == events # <<>> /\ Head(events) = kind /\ events' = Tail(events)

\* A tool is shown; a text that was added is shown behind it.
ShowTools ==
    /\ Receive("tools")
    /\ ui' = [ui EXCEPT !.tools = TRUE]
    /\ UNCHANGED <<fresh, cancels, run, receipts, kept>>

ShowText ==
    /\ Receive("text")
    /\ ui' = [ui EXCEPT !.tools = FALSE]
    /\ UNCHANGED <<fresh, cancels, run, receipts, kept>>

\* handle_done
HandleDone ==
    /\ Receive("done")
    /\ ui' = PollNotices(Flush([ui EXCEPT !.cancelSent = FALSE,
                                          !.loading = FALSE]))
    /\ receipts' = {r \in receipts : r.item \notin ui.inFlight}
    /\ UNCHANGED <<fresh, cancels, run, kept>>

\* handle_interrupted: without a tool call the text goes back to the input
\* line, unless something else stands there.
HandleInterrupted ==
    /\ Receive("interrupted")
    /\ LET s == [ui EXCEPT !.cancelSent = FALSE, !.reconciled = TRUE] IN
       ui' = IF ui.tools \/ ui.last = Nothing THEN s
             ELSE [s EXCEPT !.draft = IF @ = Nothing THEN ui.last ELSE @,
                            !.last = Nothing,
                            !.withdrawn = @ \cup {ui.last}]
    /\ UNCHANGED <<fresh, cancels, run, receipts, kept>>

\* handle_error; Done follows.
HandleError ==
    /\ Receive("error")
    /\ ui' = Flush([ui EXCEPT !.cancelSent = FALSE, !.reconciled = TRUE,
                              !.tools = TRUE, !.loading = FALSE])
    /\ UNCHANGED <<fresh, cancels, run, receipts, kept>>
-----------------------------------------------------------------------------
\* A prompt that waits takes the lock and installs its token and its queue.
Begin(i) ==
    /\ ~run.on
    /\ run' = [Idle EXCEPT !.on = TRUE, !.prompt = ui.prompts[i]]
    /\ ui' = [ui EXCEPT !.prompts = RemoveAt(@, i)]
    /\ UNCHANGED <<fresh, cancels, receipts, events, kept>>

\* session/cancel reaches the token of whatever runs.
TakeCancel ==
    /\ cancels.coming
    /\ cancels' = [cancels EXCEPT !.coming = FALSE]
    /\ run' = IF run.on THEN [run EXCEPT !.cancelled = TRUE] ELSE run
    /\ UNCHANGED <<fresh, ui, receipts, events, kept>>

\* peri/session/steer: into the queue of the execution, or -32001.
TakeAdd(x) ==
    /\ x \in ui.adds
    /\ ui' = [ui EXCEPT !.adds = @ \ {x}]
    /\ IF run.on
       THEN run' = [run EXCEPT !.steered = @ \cup {x}] /\ UNCHANGED receipts
       ELSE receipts' = receipts \cup {[item |-> x, ok |-> FALSE]}
            /\ UNCHANGED run
    /\ UNCHANGED <<fresh, cancels, events, kept>>

\* Before a model call what was added becomes part of the messages.
Consume ==
    /\ run.steered # {}
    /\ run' = [run EXCEPT !.steered = {}, !.added = @ \cup run.steered]
    /\ receipts' = receipts \cup [item : run.steered, ok : {TRUE}]
    /\ events' = IF run.steered \subseteq Notices THEN events
                 ELSE Append(events, "text")
    /\ UNCHANGED <<fresh, ui, cancels, kept>>

\* The first tool step of the execution; later ones show nothing new.
UseTools ==
    /\ run.on /\ ~run.tools
    /\ run' = [run EXCEPT !.tools = TRUE]
    /\ events' = Append(events, "tools")
    /\ UNCHANGED <<fresh, ui, cancels, receipts, kept>>

OnServer(x) ==
    run.on /\ (x = run.prompt.text \/ x \in run.prompt.notices \cup run.added)

\* Mutant: the queue of texts is dropped without an answer.
MutEnd(how) ==
    /\ run.on
    /\ how = "ok" => run.steered = {}
    /\ how = "interrupted" => run.cancelled
    /\ events' = events \o IF how = "ok" THEN <<"done">> ELSE <<how, "done">>
    /\ kept' = [x \in Items |->
         IF OnServer(x) /\ (how = "ok" \/ run.tools \/ run.added # {})
            /\ kept[x] < 2
         THEN kept[x] + 1 ELSE kept[x]]
    /\ run' = Idle
    /\ UNCHANGED <<fresh, ui, cancels, receipts>>

\* The execution ends.  What nobody has read is refused (-32002), and the
\* messages are kept unless it failed or was cancelled with nothing behind its
\* prompt.
End(how) ==
    /\ run.on
    /\ how = "ok" => run.steered = {}
    /\ how = "interrupted" => run.cancelled
    /\ receipts' = receipts \cup [item : run.steered, ok : {FALSE}]
    /\ events' = events \o IF how = "ok" THEN <<"done">> ELSE <<how, "done">>
    /\ kept' = [x \in Items |->
         IF OnServer(x) /\ (how = "ok" \/ run.tools \/ run.added # {})
            /\ kept[x] < 2
         THEN kept[x] + 1 ELSE kept[x]]
    /\ run' = Idle
    /\ UNCHANGED <<fresh, ui, cancels>>
-----------------------------------------------------------------------------
User ==
    \/ \E m \in Texts : Type(m) \/ Steer(m) \/ Delete(m)
    \/ Enter \/ Interrupt

HandleEvent == \/ ShowTools \/ ShowText
               \/ HandleDone \/ HandleInterrupted \/ HandleError

TakePrompt == \E i \in DOMAIN ui.prompts : Begin(i)

Execution == Consume \/ \E how \in {"ok", "error", "interrupted"} : End(how)

Next ==
    \/ User \/ \E n \in Notices : Report(n)
    \/ Poll \/ GiveUp \/ HandleEvent
    \/ TakePrompt \/ TakeCancel \/ (\E x \in Items : TakeAdd(x))
    \/ UseTools \/ Execution

Deliver == Poll \/ \E x \in Items : TakeAdd(x)

\* The client polls every frame, tasks run, and an execution ends at the limit
\* of its iterations at the latest.
Spec ==
    /\ Init /\ [][Next]_vars
    /\ WF_vars(HandleEvent) /\ WF_vars(Deliver)
    /\ WF_vars(TakePrompt \/ Execution)
-----------------------------------------------------------------------------
Carries(p, x) == x = p.text \/ x \in p.notices

Sent(x) == Cardinality({i \in DOMAIN ui.prompts : Carries(ui.prompts[i], x)})

\* The client has it and the server has not taken it.
Waits(x) ==
    /\ x \in {ui.draft} \cup ToSet(ui.queue) \cup ui.pending \cup ui.inFlight
    /\ ~OnServer(x)
    /\ [item |-> x, ok |-> TRUE] \notin receipts

\* How often an item exists.
Copies(x) == (IF Waits(x) THEN 1 ELSE 0) + Sent(x)
             + (IF OnServer(x) THEN 1 ELSE 0) + kept[x]

Client == [draft : Texts \cup {Nothing}, queue : Seq(Texts),
           sending : SUBSET Texts, pending : SUBSET Notices,
           inFlight : SUBSET Notices, current : SUBSET Notices,
           tried : BOOLEAN, loading : BOOLEAN, cancelSent : BOOLEAN,
           reconciled : BOOLEAN, last : Texts \cup {Nothing}, tools : BOOLEAN,
           withdrawn : SUBSET Texts, prompts : Seq(Prompt),
           adds : SUBSET Items]
Run == [on : BOOLEAN, prompt : Prompt, steered : SUBSET Items,
        added : SUBSET Items, cancelled : BOOLEAN, tools : BOOLEAN]

TypeOK ==
    /\ fresh \subseteq Items
    /\ ui \in Client
    /\ IsInjective(ui.queue)
    /\ ui.sending \subseteq ToSet(ui.queue)
    /\ ui.adds \subseteq ui.sending \cup ui.inFlight
    /\ ui.current \subseteq ui.inFlight
    /\ cancels \in [sent : 0..MaxInterrupts, coming : BOOLEAN]
    /\ run \in Run
    /\ receipts \subseteq Receipt
    /\ events \in Seq({"tools", "text", "done", "interrupted", "error"})
    /\ kept \in [Items -> 0..2]

\* Neither a retry after a refusal, nor the queue that goes on by itself, nor
\* a notice taken along with a text makes a second copy of anything.  A text
\* that an interruption took back is the user's own again
\* (bg_shell_notifications.rs:74; background-task-insertion-prd.md:124).
OneCopy == \A x \in Items \ ui.withdrawn : Copies(x) <= 1

Quiet == /\ ~run.on /\ ui.prompts = <<>> /\ ui.adds = {}
         /\ receipts = {} /\ events = <<>>

\* When nothing is under way any more, the client is unlocked and has nothing
\* left to send, save the notices that an interruption or a failure made wait
\* for the user (queued-message-steering.md:11).
NothingStranded ==
    Quiet => /\ ~ui.loading /\ ui.queue = <<>> /\ ui.inFlight = {}
             /\ ui.pending # {} => ui.reconciled

Settled == Quiet /\ ui.sending = {} /\ ui.inFlight = {}

\* However the user types, adds, deletes and interrupts, every turn comes to an
\* end; with NothingStranded, every queued text leaves the queue and every
\* notice given to a turn is read or comes back.
EverySendingSettles == ~Settled ~> Settled
=============================================================================
