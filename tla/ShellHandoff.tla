---------------------------- MODULE ShellHandoff ----------------------------
(***************************************************************************)
(* Shell commands of the agent and who owns them: BashTool::invoke         *)
(* (cc-tools/src/bash/mod.rs), the executors that start the process        *)
(* (cc-tui/src/app/agent_shell_executor.rs and the inline one of           *)
(* cc-tools), ShellHandoff and ExitSignal (cc-agent/src/shell) and the     *)
(* slots the terminal client keeps of them (cc-tui/src/app/                *)
(* shell_command.rs).                                                      *)
(*                                                                         *)
(* A command starts in the foreground: the tool waits for its result.  The *)
(* user, a grace period or the tool's own timeout may hand it over to the  *)
(* background, and then the tool answers at once that it was started and   *)
(* the end comes as a notice.  The tool, its cancellation, the process and *)
(* the client run concurrently and race for the ownership.                 *)
(*                                                                         *)
(* Left out: the command's text, the dialect of its shell, its output and  *)
(* the watchdog that reports a command waiting for input.                  *)
(***************************************************************************)
EXTENDS Naturals, FiniteSets

CONSTANTS
    Commands,   \* the calls of the Bash tool
    MaxSlots,   \* MAX_AGENT_SHELLS
    NoCommand   \* no call

ASSUME ShellAssumption ==
    /\ IsFiniteSet(Commands)
    /\ MaxSlots \in Nat
    /\ NoCommand \notin Commands

VARIABLES
    supported, \* background_supported: a client that keeps commands, or none
    hostOpen,  \* the client still receives registrations
    tool,      \* where BashTool::invoke stands
    answer,    \* what the agent was answered
    waiter,    \* the Notified of wait_for_background
    owner,     \* Ownership
    phase,     \* the process, and what was published of its end
    aborter,   \* who called the kill handle first
    arriving,  \* registrations in the channel
    slots,     \* agent_shells
    ended,     \* slots marked as ended
    noticed,   \* slots with completion_notified
    told,      \* completion notices given to the agent
    ui         \* the client's hand-over under way

calls  == <<tool, answer, waiter>>
client == <<arriving, slots, ended, noticed, told>>
vars == <<supported, hostOpen, calls, owner, phase, aborter, client, ui>>

Idle == [step |-> "idle", cmd |-> NoCommand]

Published(c) == phase[c] \in {"published", "sent"}

Init ==
    /\ supported \in BOOLEAN
    /\ hostOpen = supported
    /\ tool = [c \in Commands |-> "idle"]
    /\ answer = [c \in Commands |-> "none"]
    /\ waiter = [c \in Commands |-> "unregistered"]
    /\ owner = [c \in Commands |-> "none"]
    /\ phase = [c \in Commands |-> "none"]
    /\ aborter = [c \in Commands |-> "nobody"]
    /\ arriving = {} /\ slots = {} /\ ended = {} /\ noticed = {}
    /\ told = [c \in Commands |-> 0]
    /\ ui = Idle
-----------------------------------------------------------------------------
\* The tool returns.
Answer(c, a) ==
    /\ tool' = [tool EXCEPT ![c] = "answered"]
    /\ answer' = [answer EXCEPT ![c] = a]
    /\ waiter' = [waiter EXCEPT ![c] = "unregistered"]

Go(c, step) ==
    /\ tool' = [tool EXCEPT ![c] = step]
    /\ UNCHANGED <<answer, waiter>>

\* Nothing was started: the client is gone, there is none to keep a command
\* that is to run in the background, or the process cannot be spawned.
Refuse(c) ==
    /\ tool[c] = "idle"
    /\ Answer(c, "refused")
    /\ UNCHANGED <<supported, hostOpen, owner, phase, aborter, client, ui>>

\* execute: the process is spawned, in the background from the start if the
\* model asked for it.
Launch(c, direct) ==
    /\ tool[c] = "idle"
    /\ supported => hostOpen
    /\ direct => supported
    /\ phase' = [phase EXCEPT ![c] = "running"]
    /\ owner' = [owner EXCEPT ![c] =
         IF direct THEN "background" ELSE "foreground"]
    /\ Go(c, IF supported THEN "registering" ELSE "arming")
    /\ UNCHANGED <<supported, hostOpen, aborter, client, ui>>

\* The registration is sent to the client; if it has gone meanwhile, the
\* process is stopped and the tool waits for its end.
Register(c) ==
    /\ tool[c] = "registering"
    /\ IF hostOpen
       THEN /\ arriving' = arriving \cup {c}
            /\ IF owner[c] = "background" THEN Answer(c, "started")
               ELSE Go(c, "arming")
            /\ UNCHANGED aborter
       ELSE /\ aborter' = [aborter EXCEPT ![c] = "host"]
            /\ Go(c, "stopping")
            /\ UNCHANGED arriving
    /\ UNCHANGED <<supported, hostOpen, owner, phase, slots, ended, noticed,
                   told, ui>>

Stopped(c) ==
    /\ tool[c] = "stopping"
    /\ Published(c)
    /\ Answer(c, "refused")
    /\ UNCHANGED <<supported, hostOpen, owner, phase, aborter, client, ui>>
-----------------------------------------------------------------------------
\* Mutant: the state is looked at before the waiter is registered.
MutArm(c) ==
    /\ tool[c] = "arming"
    /\ IF owner[c] = "background" THEN Answer(c, "started")
       ELSE Go(c, "checking")
    /\ UNCHANGED <<supported, hostOpen, owner, phase, aborter, client, ui>>

\* wait_for_background registers its waiter first ...
Arm(c) ==
    /\ tool[c] = "arming"
    /\ tool' = [tool EXCEPT ![c] = "checking"]
    /\ waiter' = [waiter EXCEPT ![c] = "registered"]
    /\ UNCHANGED <<supported, hostOpen, answer, owner, phase, aborter,
                   client, ui>>

\* ... then looks whether the command was handed over, and sleeps if not.
Check(c) ==
    /\ tool[c] = "checking"
    /\ IF owner[c] = "background" THEN Answer(c, "started")
       ELSE Go(c, "waiting")
    /\ UNCHANGED <<supported, hostOpen, owner, phase, aborter, client, ui>>

Wake(c) ==
    /\ tool[c] = "waiting"
    /\ waiter[c] = "notified"
    /\ tool' = [tool EXCEPT ![c] = "arming"]
    /\ waiter' = [waiter EXCEPT ![c] = "unregistered"]
    /\ UNCHANGED <<supported, hostOpen, answer, owner, phase, aborter,
                   client, ui>>

\* Mutant: a result that arrives is always answered.
MutTakeResult(c) ==
    /\ tool[c] \in {"arming", "waiting"}
    /\ phase[c] = "sent"
    /\ Answer(c, "result")
    /\ UNCHANGED <<supported, hostOpen, owner, phase, aborter, client, ui>>

\* The result, or the closed channel, of the process: it is the answer unless
\* the command was handed over before the tool claims it.
TakeResult(c) ==
    /\ tool[c] \in {"arming", "waiting"}
    /\ phase[c] = "sent"
    /\ IF owner[c] = "background"
       THEN Answer(c, "started") /\ UNCHANGED owner
       ELSE /\ Answer(c, "result")
            /\ owner' = [owner EXCEPT ![c] = "settled"]
    /\ UNCHANGED <<supported, hostOpen, phase, aborter, client, ui>>

\* Mutant: the guard kills without asking who owns the command.
MutLeave(c) ==
    /\ aborter' = [aborter EXCEPT ![c] = IF @ = "nobody" THEN "tool" ELSE @]
    /\ UNCHANGED owner

\* ForegroundCommandGuard: whoever leaves a command that is still in the
\* foreground kills it.
Leave(c) ==
    IF owner[c] = "foreground"
    THEN /\ owner' = [owner EXCEPT ![c] = "settled"]
         /\ aborter' = [aborter EXCEPT ![c] =
              IF @ = "nobody" THEN "tool" ELSE @]
    ELSE UNCHANGED <<owner, aborter>>

\* The tool's timeout hands the command over if the host can keep it, and
\* kills it otherwise.
TimeOut(c) ==
    /\ tool[c] = "waiting"
    /\ IF supported
       THEN /\ Answer(c, "started")
            /\ owner' = [owner EXCEPT ![c] = "background"]
            /\ UNCHANGED aborter
       ELSE Answer(c, "timedOut") /\ Leave(c)
    /\ UNCHANGED <<supported, hostOpen, phase, client, ui>>

\* The agent is cancelled and drops the tool's future.
Cancel(c) ==
    /\ tool[c] \in {"waiting", "stopping"}
    /\ Answer(c, "dropped")
    /\ IF tool[c] = "waiting" THEN Leave(c) ELSE UNCHANGED <<owner, aborter>>
    /\ UNCHANGED <<supported, hostOpen, phase, client, ui>>
-----------------------------------------------------------------------------
\* The process ends by itself, at its hard deadline or because it was killed;
\* its output is written to disk and then ExitSignal::finish tells the end.
Publish(c) ==
    /\ phase[c] = "running"
    /\ phase' = [phase EXCEPT ![c] = "published"]
    /\ UNCHANGED <<supported, hostOpen, calls, owner, aborter, client, ui>>

\* Only then the result is sent to the tool.
Send(c) ==
    /\ phase[c] = "published"
    /\ phase' = [phase EXCEPT ![c] = "sent"]
    /\ UNCHANGED <<supported, hostOpen, calls, owner, aborter, client, ui>>
-----------------------------------------------------------------------------
\* The client is one thread: it does one thing after the other.
AtRest == hostOpen /\ ui = Idle

\* poll_agent_shell_registrations
TakeRegistrations ==
    /\ AtRest
    /\ arriving # {}
    /\ slots' = slots \cup arriving
    /\ arriving' = {}
    /\ UNCHANGED <<supported, hostOpen, calls, owner, phase, aborter, ended,
                   noticed, told, ui>>

\* Ctrl+B, the panel, or the grace period after a text was added: a command
\* that is seen running in the foreground is chosen ...
Pick(c) ==
    /\ AtRest
    /\ c \in slots \ ended
    /\ owner[c] = "foreground"
    /\ ~Published(c)
    /\ ui' = [step |-> "picked", cmd |-> c]
    /\ UNCHANGED <<supported, hostOpen, calls, owner, phase, aborter, client>>

\* ... and ShellHandoff::background hands it over if it still is.
HandOver(c) ==
    /\ ui = [step |-> "picked", cmd |-> c]
    /\ IF owner[c] = "foreground"
       THEN /\ owner' = [owner EXCEPT ![c] = "background"]
            /\ ui' = [step |-> "handed", cmd |-> c]
       ELSE /\ ui' = Idle
            /\ UNCHANGED owner
    /\ UNCHANGED <<supported, hostOpen, calls, phase, aborter, client>>

\* Mutant: notify_one, which leaves a permit for a waiter to come.
MutNotify(c) ==
    /\ ui = [step |-> "handed", cmd |-> c]
    /\ waiter' = [waiter EXCEPT ![c] =
         IF @ = "registered" THEN "notified" ELSE "permit"]
    /\ ui' = Idle
    /\ UNCHANGED <<supported, hostOpen, tool, answer, owner, phase, aborter,
                   client>>

\* notify_waiters wakes a waiter that is registered, and leaves no trace for
\* one that is not.
Notify(c) ==
    /\ ui = [step |-> "handed", cmd |-> c]
    /\ waiter' = [waiter EXCEPT ![c] =
         IF @ = "registered" THEN "notified" ELSE @]
    /\ ui' = Idle
    /\ UNCHANGED <<supported, hostOpen, tool, answer, owner, phase, aborter,
                   client>>

\* The key x of the panel kills what is selected, in the background or not.
Kill(c) ==
    /\ AtRest
    /\ c \in slots
    /\ aborter[c] = "nobody"
    /\ aborter' = [aborter EXCEPT ![c] = "user"]
    /\ UNCHANGED <<supported, hostOpen, calls, owner, phase, client, ui>>

\* A slot whose end is known and that nobody waits for in the foreground.
Finished == {c \in slots \ ended : Published(c) /\ owner[c] # "foreground"}

\* Mutant: the end of a slot is not told in the sweep that finds it.
MutDue == {c \in slots \cap ended : owner[c] = "background" /\ c \notin noticed}

\* The notices due: the backgrounded slots that have ended, once each.
Due == {c \in slots \cap (ended \cup Finished) :
          owner[c] = "background" /\ c \notin noticed}

\* cleanup_finished_agent_shells: as many slots that have ended as there are
\* too many.  Which of them are the oldest makes no difference here.
Excess == {gone \in SUBSET (slots \cap (ended \cup Finished)) :
             \/ gone = {} /\ Cardinality(slots) <= MaxSlots
             \/ /\ Cardinality(slots) > MaxSlots
                /\ \/ Cardinality(gone) = Cardinality(slots) - MaxSlots
                   \/ /\ gone = slots \cap (ended \cup Finished)
                      /\ Cardinality(gone) < Cardinality(slots) - MaxSlots}

\* poll_agent_shells, with what it cleans up.
Sweep ==
    /\ AtRest
    /\ Finished \cup Due # {}
    /\ ended' = ended \cup Finished
    /\ noticed' = noticed \cup Due
    /\ told' = [c \in Commands |-> IF c \in Due THEN told[c] + 1 ELSE told[c]]
    /\ \E gone \in Excess : slots' = slots \ gone
    /\ UNCHANGED <<supported, hostOpen, calls, owner, phase, aborter,
                   arriving, ui>>

\* The client quits; its server may still run for a while.
Close ==
    /\ AtRest
    /\ hostOpen' = FALSE
    /\ UNCHANGED <<supported, calls, owner, phase, aborter, client, ui>>
-----------------------------------------------------------------------------
Tool(c) == \/ Register(c) \/ Stopped(c) \/ Arm(c) \/ Check(c) \/ Wake(c)
           \/ TakeResult(c) \/ TimeOut(c)

Process(c) == Publish(c) \/ Send(c)

Client == \/ TakeRegistrations \/ Sweep
          \/ \E c \in Commands : HandOver(c) \/ Notify(c)

Next ==
    \/ \E c \in Commands :
         \/ Refuse(c) \/ (\E direct \in BOOLEAN : Launch(c, direct))
         \/ Tool(c) \/ Cancel(c)
         \/ Process(c) \/ Pick(c) \/ Kill(c)
    \/ Client \/ Close

\* The tool's future is polled and its timer fires, a process ends at its hard
\* deadline at the latest, and the client's loop polls every frame.
Spec ==
    /\ Init /\ [][Next]_vars
    /\ \A c \in Commands : WF_vars(Tool(c)) /\ WF_vars(Process(c))
    /\ WF_vars(Client)
-----------------------------------------------------------------------------
TypeOK ==
    /\ supported \in BOOLEAN /\ hostOpen \in BOOLEAN
    /\ tool \in [Commands -> {"idle", "registering", "stopping", "arming",
                              "checking", "waiting", "answered"}]
    /\ answer \in [Commands -> {"none", "refused", "started", "result",
                                "timedOut", "dropped"}]
    /\ waiter \in [Commands -> {"unregistered", "registered", "notified"}]
    /\ owner \in [Commands -> {"none", "foreground", "background", "settled"}]
    /\ phase \in [Commands -> {"none", "running", "published", "sent"}]
    /\ aborter \in [Commands -> {"nobody", "tool", "user", "host"}]
    /\ arriving \subseteq Commands /\ slots \subseteq Commands
    /\ ended \subseteq Commands /\ noticed \subseteq Commands
    /\ told \in [Commands -> Nat]
    /\ ui \in [step : {"idle", "picked", "handed"},
               cmd : Commands \cup {NoCommand}]

\* The agent learns of the end of a command in one way only: by the answer of
\* the call or, if that said "started", by one notice, which comes only when
\* the process has ended and its output is on disk; and no slot is closed or
\* cleaned away without it (handoff.rs:12, "the only authority").
ToldOnce ==
    \A c \in Commands :
        /\ told[c] <= 1
        /\ told[c] = 1 => owner[c] = "background" /\ Published(c)
        /\ answer[c] = "started" => owner[c] = "background"
        /\ answer[c] \in {"result", "timedOut"} => owner[c] = "settled"
        /\ c \in ended /\ owner[c] = "background" => told[c] = 1

\* Leaving a call kills its command if and only if it was never handed over:
\* a cancelled or timed out call leaves no orphan in the foreground, and a
\* command in the background survives the call (handoff.rs:38, bash/mod.rs:155).
KilledByOwner ==
    \A c \in Commands :
        /\ aborter[c] = "tool" => owner[c] = "settled"
        /\ answer[c] \in {"refused", "timedOut", "dropped"} /\ phase[c] = "running"
             => owner[c] = "background" \/ aborter[c] # "nobody"

\* A tool that sleeps while its command is already in the background is about
\* to be woken: the hand-over cannot fall between its look at the owner and
\* its sleep (handoff.rs:64).
NoLostWakeUp ==
    \A c \in Commands :
        tool[c] = "waiting" /\ owner[c] = "background" =>
            waiter[c] = "notified" \/ ui = [step |-> "handed", cmd |-> c]

\* Every call is answered, and every command in the background is reported
\* unless the client quits.
EveryEndIsTold ==
    \A c \in Commands :
        /\ tool[c] # "idle" ~> tool[c] = "answered"
        /\ owner[c] = "background" ~> told[c] = 1 \/ ~hostOpen
=============================================================================
