---------------------------- MODULE BackgroundTasks ----------------------------
(***************************************************************************)
(* Background tasks of a session and the way their results reach the       *)
(* model: the tool that launches them                                      *)
(* (cc-middlewares/src/subagent/tool/execute_bg.rs), their registry        *)
(* (subagent/background.rs), the executor that drains and injects results  *)
(* (cc-acp/src/session/executor.rs) and the terminal client that waits for *)
(* them and continues the conversation by itself                           *)
(* (cc-tui/src/app/agent_events_bg.rs, agent_ops/lifecycle.rs).            *)
(*                                                                         *)
(* A result has two ways to the model.  While an execution runs, complete  *)
(* posts it to the execution, which writes it as a Human notice.  And it   *)
(* goes as an event to the client, which sends it back with a prompt of    *)
(* its own as soon as nothing runs; what was written as a notice is then   *)
(* left out.  Each prompt has its own channel for the events of the tasks  *)
(* it launched; Done comes through another pump.                           *)
(*                                                                         *)
(* Not modelled: compaction of the notices, the client's viewports and the *)
(* forced cleanup five seconds after a cancel.                             *)
(***************************************************************************)
EXTENDS Naturals, Sequences, FiniteSets

CONSTANTS
    Tasks,          \* background tasks that may be launched
    MaxConcurrent,  \* BackgroundTaskRegistry.max_concurrent, 3
    MaxTexts,       \* bound: texts the user submits
    Submits,        \* the user submits at "any" time, or when all is "settled"
    Stops,          \* tasks may be stopped
    Outcomes,       \* an execution may "fail", or be cancelled ("interrupt")
    Hooks,          \* SubagentStart hooks are registered
    Overtaking,     \* Done may overtake the events of tasks
    Endings         \* how a task left alone may end

ASSUME TaskAssumption ==
    /\ MaxConcurrent \in Nat \ {0} /\ MaxTexts \in Nat
    /\ Submits \in {"settled", "any"}
    /\ {Stops, Hooks, Overtaking} \subseteq BOOLEAN
    /\ Outcomes \subseteq {"fail", "interrupt"}
    /\ Endings \subseteq {"done", "failed", "timeout", "mentions"}

VARIABLES
    stage,        \* where the future of a task stands
    ending,       \* how it ended
    slots,        \* BackgroundTaskRegistry.tasks
    status,       \* BackgroundTaskRegistry.runtimes: snapshot.status
    token,        \* tasks whose cancellation token is cancelled
    lane,         \* the prompt that launched a task
    lanes,        \* bg_event_rx of each prompt
    client,       \* the client's notification channel
    exec,         \* the execution of a prompt
    inbox,        \* results in its notification_rx
    notices,      \* results in the history as Human notices
    injected,     \* how often a result is in the history as an AgentResult
    server,       \* prompts waiting for the prompt lock: their bg_results
    active,       \* drawer rows whose task the client believes running
    stoppedRows,  \* tasks the client believes stopped
    loading,      \* ui.loading
    donePending,  \* agent_done_pending_bg
    buffered,     \* pre_done_bg_results
    continuation, \* pending_bg_continuation, {} for None
    queued,       \* pending_messages
    texts         \* texts submitted or queued so far

task     == <<stage, ending, lane>>
registry == <<slots, status, token>>
channels == <<lanes, client>>
history  == <<notices, injected>>
waiting  == <<donePending, buffered, continuation>>
tui      == <<active, stoppedRows, loading, waiting, queued, texts>>
vars == <<task, registry, channels, exec, inbox, history, server, tui>>

Stages == {"idle", "held", "working", "ended", "completed", "reporting", "gone"}
Event(kind, t) == [kind |-> kind, task |-> t]
TaskEvents == [kind : {"started", "stopped", "completed"}, task : Tasks]
Done == [kind |-> "done"]
Error == [kind |-> "error"]
Lanes == 1..Len(lanes)

Init ==
    /\ stage = [t \in Tasks |-> "idle"]
    /\ ending = [t \in Tasks |-> "none"]
    /\ slots = {} /\ token = {}
    /\ status = [t \in Tasks |-> "none"]
    /\ lane = [t \in Tasks |-> 0]
    /\ lanes = <<>> /\ client = <<>> /\ server = <<>>
    /\ exec = "idle" /\ inbox = {}
    /\ notices = {} /\ injected = [t \in Tasks |-> 0]
    /\ active = {} /\ stoppedRows = {}
    /\ loading = FALSE /\ donePending = FALSE
    /\ buffered = {} /\ continuation = {}
    /\ queued = 0 /\ texts = 0
-----------------------------------------------------------------------------
\* The Agent tool registers the task, attaches its runtime, announces it and
\* opens the gate once the SubagentStart hooks are done.
Launch(t) ==
    /\ exec = "running"
    /\ stage[t] = "idle"
    /\ Cardinality(slots) < MaxConcurrent
    /\ slots' = slots \cup {t}
    /\ status' = [status EXCEPT ![t] = "running"]
    /\ lane' = [lane EXCEPT ![t] = Len(lanes)]
    /\ lanes' = [lanes EXCEPT ![Len(lanes)] = Append(@, Event("started", t))]
    /\ stage' = [stage EXCEPT ![t] = IF Hooks THEN "held" ELSE "working"]
    /\ UNCHANGED <<ending, token, client, exec, inbox, history, server, tui>>

OpenGate(t) ==
    /\ stage[t] = "held"
    /\ stage' = [stage EXCEPT ![t] = "working"]
    /\ UNCHANGED <<ending, lane, registry, channels, exec, inbox, history,
                   server, tui>>

\* execute_with_timeout prefers the token; the deadline cancels it.
Finish(t) ==
    /\ stage[t] = "working"
    /\ stage' = [stage EXCEPT ![t] = "ended"]
    /\ \E e \in IF t \in token THEN {"interrupted"} ELSE Endings :
         /\ ending' = [ending EXCEPT ![t] = e]
         /\ token' = IF e = "timeout" THEN token \cup {t} ELSE token
    /\ UNCHANGED <<lane, slots, status, channels, exec, inbox, history, server,
                   tui>>

Success(t) == ending[t] \in {"done", "mentions"}
IsStopped(t) == t \in token /\ ending[t] # "timeout"

\* Who is sent the result of a task that completes.
\* Mutant: also of one that was stopped.
MutNotified(t) == IF exec \in {"running", "answered"} THEN {t} ELSE {}
Notified(t) ==
    IF exec \in {"running", "answered"} /\ ~IsStopped(t) THEN {t} ELSE {}

\* Mutant: the status is how the task ended.
MutComplete(t) ==
    /\ stage[t] = "ended"
    /\ stage' = [stage EXCEPT ![t] = "completed"]
    /\ status' = [status EXCEPT ![t] = IF IsStopped(t) THEN "stopped" ELSE ending[t]]
    /\ slots' = slots \ {t}
    /\ inbox' = inbox \cup Notified(t)
    /\ UNCHANGED <<ending, lane, token, channels, exec, history, server, tui>>

\* Mutant: the slot is given back only by a task that succeeded.
MutKeepSlot(t) ==
    /\ stage[t] = "ended"
    /\ stage' = [stage EXCEPT ![t] = "completed"]
    /\ status' = [status EXCEPT ![t] = IF IsStopped(t) THEN "stopped"
                                       ELSE IF Success(t) THEN "completed"
                                       ELSE "failed"]
    /\ slots' = IF Success(t) THEN slots \ {t} ELSE slots
    /\ inbox' = inbox \cup Notified(t)
    /\ UNCHANGED <<ending, lane, token, channels, exec, history, server, tui>>

\* BackgroundTaskRegistry::complete
Complete(t) ==
    /\ stage[t] = "ended"
    /\ stage' = [stage EXCEPT ![t] = "completed"]
    /\ status' = [status EXCEPT ![t] = IF IsStopped(t) THEN "stopped"
                                       ELSE IF Success(t) THEN "completed"
                                       ELSE "failed"]
    /\ slots' = slots \ {t}
    /\ inbox' = inbox \cup Notified(t)
    /\ UNCHANGED <<ending, lane, token, channels, exec, history, server, tui>>

\* Its two events, SubagentStopped and BackgroundTaskCompleted.
Send(t, from, to, kind) ==
    /\ stage[t] = from
    /\ stage' = [stage EXCEPT ![t] = to]
    /\ lanes' = [lanes EXCEPT ![lane[t]] = Append(@, Event(kind, t))]
    /\ UNCHANGED <<ending, lane, registry, client, exec, inbox, history,
                   server, tui>>
ReportStopped(t) == Send(t, "completed", "reporting", "stopped")
ReportCompleted(t) == Send(t, "reporting", "gone", "completed")

\* BackgroundTaskRegistry::cancel, from the drawer or the main agent.
Stop(t) ==
    /\ Stops
    /\ status[t] = "running"
    /\ token' = token \cup {t}
    /\ UNCHANGED <<task, slots, status, channels, exec, inbox, history, server,
                   tui>>

\* The bg event pump of a prompt.
Forward(l) ==
    /\ lanes[l] # <<>>
    /\ client' = Append(client, Head(lanes[l]))
    /\ lanes' = [lanes EXCEPT ![l] = Tail(@)]
    /\ UNCHANGED <<task, registry, exec, inbox, history, server, tui>>
-----------------------------------------------------------------------------
\* is_bg_result_delivered
\* Mutant: never.
MutDelivered(t) == FALSE
Delivered(t) == t \in notices

\* A prompt has its turn: its results are injected, a new agent is built.
BeginPrompt ==
    /\ exec = "idle" /\ server # <<>>
    /\ exec' = "running"
    /\ injected' = [t \in Tasks |->
          IF t \in Head(server) /\ ~Delivered(t) THEN injected[t] + 1
          ELSE injected[t]]
    /\ server' = Tail(server)
    /\ lanes' = Append(lanes, <<>>)
    /\ UNCHANGED <<task, registry, client, inbox, notices, tui>>

\* drain_notifications, after a tool step and with the final answer.
Drain(next) ==
    /\ exec = "running"
    /\ \A t \in Tasks : stage[t] # "held"
    /\ exec' = next
    /\ notices' = notices \cup inbox
    /\ inbox' = {}
    /\ UNCHANGED <<task, registry, channels, injected, server, tui>>
DrainAfterTools == inbox # {} /\ Drain("running")
FinalDrain == Drain("answered")

\* The execution returns and drops its receiver.
Return(to, events) ==
    /\ exec' = to
    /\ inbox' = {}
    /\ client' = client \o events
    /\ UNCHANGED <<ending, lane, registry, lanes, history, server, tui>>
Answer == exec = "answered" /\ Return("closing", <<>>) /\ UNCHANGED stage
Fail ==
    /\ "fail" \in Outcomes
    /\ exec \in {"running", "answered"}
    /\ \A t \in Tasks : stage[t] # "held"
    /\ Return("closing", <<Error>>)
    /\ UNCHANGED stage

\* A cancel drops the tool's future, and with it the gate of its task.
Interrupt ==
    /\ "interrupt" \in Outcomes
    /\ exec \in {"running", "answered"}
    /\ Return("closing", <<>>)
    /\ stage' = [t \in Tasks |-> IF stage[t] = "held" THEN "gone" ELSE stage[t]]

\* The main pump has sent everything: Done, and the next prompt's turn.
PushDone ==
    /\ exec = "closing"
    /\ ~Overtaking => /\ \A l \in Lanes : lanes[l] = <<>>
                      /\ \A t \in Tasks : stage[t] # "reporting"
    /\ Return("idle", <<Done>>)
    /\ UNCHANGED stage
-----------------------------------------------------------------------------
\* Submitting a text overrides the automatic continuation.
SubmitText ==
    /\ server' = Append(server, {})
    /\ loading' = TRUE
    /\ donePending' = FALSE
    /\ buffered' = {} /\ continuation' = {}

Settled ==
    /\ \A t \in Tasks : stage[t] \in {"idle", "gone"}
    /\ \A l \in Lanes : lanes[l] = <<>>
    /\ client = <<>> /\ server = <<>> /\ exec = "idle"
    /\ buffered = {} /\ continuation = {}

Submit ==
    /\ texts < MaxTexts
    /\ texts' = texts + 1
    /\ Submits = "settled" => Settled
    /\ IF loading
       THEN /\ queued' = queued + 1
            /\ UNCHANGED <<server, loading, waiting>>
       ELSE SubmitText /\ UNCHANGED queued
    /\ UNCHANGED <<task, registry, channels, exec, inbox, history, active,
                   stoppedRows>>

\* poll_agent: first a continuation that may start, then the channel.
TakeContinuation ==
    /\ ~loading /\ continuation # {}
    /\ server' = Append(server, continuation)
    /\ continuation' = {}
    /\ loading' = TRUE
    /\ UNCHANGED <<task, registry, channels, exec, inbox, history, active,
                   stoppedRows, donePending, buffered, queued, texts>>

Receive(kind) ==
    /\ loading \/ continuation = {}
    /\ client # <<>> /\ Head(client).kind = kind
    /\ client' = Tail(client)
    /\ UNCHANGED <<task, registry, lanes, exec, inbox, history, texts>>

OnStarted ==
    /\ Receive("started")
    /\ active' = active \cup {Head(client).task}
    /\ UNCHANGED <<stoppedRows, loading, waiting, queued, server>>

\* handle_subagent_lifecycle: the status, or the word "cancelled" in the result.
OnStopped ==
    /\ Receive("stopped")
    /\ LET t == Head(client).task IN
         /\ active' = active \ {t}
         /\ stoppedRows' = IF status[t] = "stopped" \/ ending[t] = "mentions"
                           THEN stoppedRows \cup {t} ELSE stoppedRows
    /\ UNCHANGED <<loading, waiting, queued, server>>

\* handle_background_task_completed
OnCompleted ==
    /\ Receive("completed")
    /\ LET t == Head(client).task
           all == buffered \cup {t}
       IN  IF t \in stoppedRows
           THEN /\ donePending' = (donePending /\ active # {})
                /\ UNCHANGED <<buffered, continuation>>
           ELSE IF donePending /\ active = {}
           THEN /\ continuation' = all /\ buffered' = {}
                /\ donePending' = FALSE
           ELSE buffered' = all /\ UNCHANGED <<donePending, continuation>>
    /\ UNCHANGED <<active, stoppedRows, loading, queued, server>>

\* A task is still running, or the results that came before are continued.
\* Mutant: results that came before Done are left where they are.
MutConclude ==
    /\ loading' = FALSE
    /\ donePending' = (donePending \/ active # {})
    /\ UNCHANGED <<buffered, continuation, server, queued>>
Conclude ==
    /\ loading' = FALSE
    /\ donePending' = (donePending \/ active # {})
    /\ IF active = {} /\ buffered # {}
       THEN continuation' = buffered /\ buffered' = {}
       ELSE UNCHANGED <<buffered, continuation>>
    /\ UNCHANGED <<server, queued>>

\* handle_done and handle_error; the next queued text goes out at once.
OnEnd(kind) ==
    /\ Receive(kind)
    /\ IF queued = 0 THEN Conclude
       ELSE SubmitText /\ queued' = queued - 1
    /\ UNCHANGED <<active, stoppedRows>>
OnDone == OnEnd("done")
OnError == OnEnd("error")
-----------------------------------------------------------------------------
Task(t) == OpenGate(t) \/ Finish(t) \/ Complete(t) \/ ReportStopped(t)
           \/ ReportCompleted(t)
Server == BeginPrompt \/ FinalDrain \/ Answer \/ PushDone
Client == TakeContinuation \/ OnStarted \/ OnStopped \/ OnCompleted \/ OnDone
          \/ OnError

Next ==
    \/ \E t \in Tasks : Task(t) \/ Launch(t) \/ Stop(t)
    \/ \E l \in Lanes : Forward(l)
    \/ Server \/ DrainAfterTools \/ Fail \/ Interrupt
    \/ Client \/ Submit

\* Futures are polled, tasks end, hooks and the model answer.
Spec ==
    /\ Init /\ [][Next]_vars
    /\ \A t \in Tasks : WF_vars(Task(t))
    /\ WF_vars(\E l \in Lanes : Forward(l))
    /\ WF_vars(Server) /\ WF_vars(Client)
-----------------------------------------------------------------------------
\* Tasks, channels, history and client are well formed.
TypeOK ==
    /\ stage \in [Tasks -> Stages]
    /\ ending \in [Tasks -> Endings \cup {"none", "interrupted"}]
    /\ {slots, token, inbox, notices, active, stoppedRows, buffered,
        continuation} \subseteq SUBSET Tasks
    /\ status \in [Tasks -> {"none", "running", "completed", "failed", "stopped"}]
    /\ lane \in [Tasks -> 0..Len(lanes)]
    /\ lanes \in Seq(Seq(TaskEvents))
    /\ client \in Seq(TaskEvents \cup {Done, Error})
    /\ server \in Seq(SUBSET Tasks)
    /\ exec \in {"idle", "running", "answered", "closing"}
    /\ injected \in [Tasks -> Nat]
    /\ {loading, donePending} \subseteq BOOLEAN
    /\ queued \in 0..MaxTexts /\ texts \in 0..MaxTexts

\* The model reads a result at most once, although it travels two ways
\* (is_bg_result_delivered).
DeliveredOnce ==
    \A t \in Tasks : injected[t] <= (IF t \in notices THEN 0 ELSE 1)

\* A stopped task is never heard of again: neither in the history nor in a
\* prompt on its way there (complete).
StoppedIsSilent ==
    \A t \in Tasks : status[t] = "stopped" =>
        /\ t \notin inbox \cup notices \cup buffered \cup continuation
        /\ injected[t] = 0
        /\ \A i \in 1..Len(server) : t \notin server[i]

\* A task that holds one of the session's slots has a future that can give it
\* back: fast ends and races for a slot make no ghost tasks.
NoGhosts == \A t \in slots : stage[t] # "gone"

\* A task gives its slot back.
EverySlotIsFreed == \A t \in Tasks : t \in slots ~> t \notin slots

\* What a task has found out by itself, be it a failure, reaches the model.
Heard(t) == t \in notices \/ injected[t] > 0
ResultsReachModel ==
    \A t \in Tasks : status[t] \in {"completed", "failed"} ~> Heard(t)
=============================================================================
