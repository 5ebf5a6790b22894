----------------------------- MODULE LspClient -----------------------------
(***************************************************************************)
(* A language server as the agent uses it: LspClient (cc-lsp/src/          *)
(* client.rs) with its dispatcher (jsonrpc/transport.rs), the pool's start *)
(* on demand (pool.rs), the LSP tool that restarts a server it finds down  *)
(* and asks it (cc-middlewares/src/lsp/tool.rs) and the middleware that    *)
(* reports written files (lsp/middleware.rs).                              *)
(*                                                                         *)
(* The LSP calls of one batch are polled by one task (join_all in          *)
(* tool_dispatch.rs): a call runs until it waits for an answer, and only   *)
(* then another goes on.  The reader and the dispatch loop of each server  *)
(* are tasks of their own and may do their part between any two steps.     *)
(* Files are reported between batches, one after the other.                *)
(*                                                                         *)
(* The pool has one server.  Each process started for it is a generation,  *)
(* counted from 1.  A write to a server's input does not block; the shut-  *)
(* down of the pool and servers added later have no caller in the program. *)
(***************************************************************************)
EXTENDS Naturals

CONSTANTS
    Calls,       \* calls of the LSP tool
    Files,       \* files the agent writes
    Nobody,      \* no call
    MaxRestarts, \* max_restarts
    MaxSpawns    \* bound: processes started; after that, spawning fails

ASSUME LspAssumption ==
    /\ Nobody \notin Calls
    /\ MaxRestarts \in Nat /\ MaxSpawns \in Nat

VARIABLES
    state,    \* ServerState
    restarts, \* restart_count
    current,  \* generation of LspClient.dispatcher, 0 for None
    opened,   \* open_files
    started,  \* the pool's initialized set has the server
    spawned,  \* processes started so far
    alive,    \* those that run
    input,    \* those whose stdin is open
    read,     \* those whose stdout is being read
    looping,  \* those whose dispatch loop has not rejected its requests
    failing,  \* those whose dispatch loop is about to call on_error
    greeted,  \* those that were sent "initialized"
    told,     \* files each was sent didOpen for
    pc,       \* where each call stands
    way,      \* which of try_restart and start it is in
    on,       \* the generation whose answer it waits for
    turn      \* the call being polled

process == <<spawned, alive, input, read, looping, failing, greeted, told>>
call    == <<pc, way, on, turn>>
vars    == <<state, restarts, current, opened, started, process, call>>

Generations == 1..MaxSpawns

Init ==
    /\ state = "Stopped" /\ restarts = 0 /\ current = 0
    /\ opened = {} /\ started = FALSE
    /\ spawned = 0
    /\ alive = {} /\ input = {} /\ read = {}
    /\ looping = {} /\ failing = {} /\ greeted = {}
    /\ told = [g \in Generations |-> {}]
    /\ pc = [c \in Calls |-> "idle"]
    /\ way = [c \in Calls |-> "restart"]
    /\ on = [c \in Calls |-> 0]
    /\ turn = Nobody
-----------------------------------------------------------------------------
Active == {c \in Calls : pc[c] \notin {"idle", "done"}}

\* Call c, at place p, is polled; it goes on at q, or waits or ends there.
At(c, p) == turn \in {Nobody, c} /\ pc[c] = p
GoOn(c, q) == pc' = [pc EXCEPT ![c] = q] /\ turn' = c
Leave(c, q) == pc' = [pc EXCEPT ![c] = q] /\ turn' = Nobody

\* A message reaches the server that is the current one.
CanSend == current \in input \cap alive

\* A batch with LSP calls begins.
Begin(S) ==
    /\ Active = {}
    /\ S # {} /\ \A c \in S : pc[c] = "idle"
    /\ pc' = [c \in Calls |-> IF c \in S THEN "look" ELSE pc[c]]
    /\ UNCHANGED <<state, restarts, current, opened, started, process, way, on,
                   turn>>

\* Mutant: the restart is counted without a look at the limit.
MutLook(c) ==
    /\ At(c, "look")
    /\ IF state = "Running"
       THEN /\ GoOn(c, "ask")
            /\ UNCHANGED <<restarts, current, opened, input, read, way>>
       ELSE /\ restarts' = restarts + 1
            /\ input' = input \ {current}
            /\ read' = read \ {current}
            /\ current' = 0 /\ opened' = {}
            /\ way' = [way EXCEPT ![c] = "restart"]
            /\ GoOn(c, "launch")
    /\ UNCHANGED <<state, started, spawned, alive, looping, failing, greeted,
                   told, on>>

\* Mutant: the files are forgotten before the limit is checked.
MutForget(c) ==
    /\ At(c, "look")
    /\ IF state = "Running"
       THEN /\ GoOn(c, "ask")
            /\ UNCHANGED <<restarts, current, opened, input, read, way>>
       ELSE IF restarts >= MaxRestarts
       THEN /\ GoOn(c, "ensure")
            /\ opened' = {}
            /\ UNCHANGED <<restarts, current, input, read, way>>
       ELSE /\ restarts' = restarts + 1
            /\ input' = input \ {current}
            /\ read' = read \ {current}
            /\ current' = 0 /\ opened' = {}
            /\ way' = [way EXCEPT ![c] = "restart"]
            /\ GoOn(c, "launch")
    /\ UNCHANGED <<state, started, spawned, alive, looping, failing, greeted,
                   told, on>>

\* get_initialized_server: a server that is up is used; one that is down is
\* restarted, within the limit: the old one is closed and its files forgotten.
Look(c) ==
    /\ At(c, "look")
    /\ IF state = "Running"
       THEN /\ GoOn(c, "ask")
            /\ UNCHANGED <<restarts, current, opened, input, read, way>>
       ELSE IF restarts >= MaxRestarts
       THEN /\ GoOn(c, "ensure")
            /\ UNCHANGED <<restarts, current, opened, input, read, way>>
       ELSE /\ restarts' = restarts + 1
            /\ input' = input \ {current}
            /\ read' = read \ {current}
            /\ current' = 0 /\ opened' = {}
            /\ way' = [way EXCEPT ![c] = "restart"]
            /\ GoOn(c, "launch")
    /\ UNCHANGED <<state, started, spawned, alive, looping, failing, greeted,
                   told, on>>

\* ensure_server_for_file and start, when the restart failed: nothing if the
\* pool has the name or the server is up.
Ensure(c) ==
    /\ At(c, "ensure")
    /\ IF started \/ state = "Running"
       THEN GoOn(c, "check") /\ started' = TRUE /\ UNCHANGED way
       ELSE /\ GoOn(c, "launch")
            /\ way' = [way EXCEPT ![c] = "start"]
            /\ UNCHANGED started
    /\ UNCHANGED <<state, restarts, current, opened, process, on>>

\* do_start: the process is up, its dispatcher replaces what is there, whose
\* input is thereby closed, and the state is Running at once.
Launch(c) ==
    /\ At(c, "launch")
    /\ spawned < MaxSpawns
    /\ LET g == spawned + 1 IN
         /\ spawned' = g /\ current' = g
         /\ alive' = alive \cup {g}
         /\ input' = (input \ {current}) \cup {g}
         /\ read' = read \cup {g}
         /\ looping' = looping \cup {g}
    /\ state' = "Running"
    /\ GoOn(c, "greet")
    /\ UNCHANGED <<restarts, opened, started, failing, greeted, told, way, on>>

LaunchFails(c) ==
    /\ At(c, "launch")
    /\ GoOn(c, "fail")
    /\ UNCHANGED <<state, restarts, current, opened, started, process, way, on>>

\* request("initialize")
Greet(c) ==
    /\ At(c, "greet")
    /\ IF state = "Running" /\ CanSend
       THEN Leave(c, "greeting") /\ on' = [on EXCEPT ![c] = current]
       ELSE GoOn(c, "fail") /\ UNCHANGED on
    /\ UNCHANGED <<state, restarts, current, opened, started, process, way>>

\* notify("initialized"), to whichever server is current by now.
Greeted(c) ==
    /\ At(c, "greeted")
    /\ IF CanSend
       THEN GoOn(c, "confirm") /\ greeted' = greeted \cup {current}
       ELSE GoOn(c, "fail") /\ UNCHANGED greeted
    /\ UNCHANGED <<state, restarts, current, opened, started, spawned, alive,
                   input, read, looping, failing, told, way, on>>

\* do_start succeeded: try_restart, or start and the pool.
Confirm(c) ==
    /\ At(c, "confirm")
    /\ state' = "Running"
    /\ IF way[c] = "restart"
       THEN restarts' = 0 /\ GoOn(c, "ask") /\ UNCHANGED started
       ELSE started' = TRUE /\ GoOn(c, "check") /\ UNCHANGED restarts
    /\ UNCHANGED <<current, opened, process, way, on>>

\* do_start failed.
Fail(c) ==
    /\ At(c, "fail")
    /\ state' = "Error"
    /\ IF way[c] = "restart" THEN GoOn(c, "ensure") ELSE Leave(c, "done")
    /\ UNCHANGED <<restarts, current, opened, started, process, way, on>>

\* After ensure_server_for_file the server must be up.
Check(c) ==
    /\ At(c, "check")
    /\ IF state = "Running" THEN GoOn(c, "ask") ELSE Leave(c, "done")
    /\ UNCHANGED <<state, restarts, current, opened, started, process, way, on>>

\* The request of the tool.
Ask(c) ==
    /\ At(c, "ask")
    /\ IF state = "Running" /\ CanSend
       THEN Leave(c, "asking") /\ on' = [on EXCEPT ![c] = current]
       ELSE Leave(c, "done") /\ UNCHANGED on
    /\ UNCHANGED <<state, restarts, current, opened, started, process, way>>

\* The time of a request is over; its entry stays with the dispatcher.
TimeOut(c) ==
    /\ turn = Nobody
    /\ \/ pc[c] = "greeting" /\ GoOn(c, "fail")
       \/ pc[c] = "asking" /\ Leave(c, "done")
    /\ UNCHANGED <<state, restarts, current, opened, started, process, way, on>>

\* The user interrupts: the calls are dropped where they wait.
Cancel ==
    /\ Active # {} /\ turn = Nobody
    /\ pc' = [c \in Calls |-> IF c \in Active THEN "done" ELSE pc[c]]
    /\ UNCHANGED <<state, restarts, current, opened, started, process, way, on,
                   turn>>
-----------------------------------------------------------------------------
\* A server that runs answers, and its answer is read and dispatched; some
\* operations ask a second time (incomingCalls, outgoingCalls).
Answer(c) ==
    /\ pc[c] \in {"greeting", "asking"}
    /\ on[c] \in alive \cap read
    /\ \E q \in IF pc[c] = "asking" THEN {"done", "ask"} ELSE {"greeted", "fail"} :
         pc' = [pc EXCEPT ![c] = q]
    /\ UNCHANGED <<state, restarts, current, opened, started, process, way, on,
                   turn>>

\* A server dies, ends because its input is closed, or sends what cannot be
\* decoded and is killed.
Exit(g) ==
    /\ g \in alive
    /\ alive' = alive \ {g}
    /\ UNCHANGED <<state, restarts, current, opened, started, spawned, input,
                   read, looping, failing, greeted, told, call>>

Refused(g) ==
    [c \in Calls |-> IF on[c] = g /\ pc[c] = "greeting" THEN "fail"
                     ELSE IF on[c] = g /\ pc[c] = "asking" THEN "done"
                     ELSE pc[c]]

\* Mutant: requests under way are left to their timeouts.
MutLoopEnds(g) ==
    /\ g \in looping \ (alive \cap read)
    /\ looping' = looping \ {g}
    /\ failing' = failing \cup {g}
    /\ UNCHANGED <<state, restarts, current, opened, started, spawned, alive,
                   input, read, greeted, told, call>>

\* run_dispatch_loop after the last message: requests under way are rejected.
LoopEnds(g) ==
    /\ g \in looping \ (alive \cap read)
    /\ looping' = looping \ {g}
    /\ failing' = failing \cup {g}
    /\ pc' = Refused(g)
    /\ UNCHANGED <<state, restarts, current, opened, started, spawned, alive,
                   input, read, greeted, told, way, on, turn>>

\* on_error of a dispatcher, be it the current one or not.
OnError(g) ==
    /\ g \in failing
    /\ failing' = failing \ {g}
    /\ state' = "Error"
    /\ UNCHANGED <<restarts, current, opened, started, spawned, alive, input,
                   read, looping, greeted, told, call>>

\* LspMiddleware::after_tool: a written file is opened or changed on a server
\* that is up; it counts as open even if the message is not sent.
Sync(f) ==
    /\ Active = {} /\ state = "Running"
    /\ opened' = opened \cup {f}
    /\ told' = IF f \notin opened /\ CanSend
               THEN [told EXCEPT ![current] = @ \cup {f}] ELSE told
    /\ UNCHANGED <<state, restarts, current, started, spawned, alive, input,
                   read, looping, failing, greeted, call>>

Poll(c) ==
    \/ Look(c) \/ Ensure(c) \/ Launch(c) \/ LaunchFails(c) \/ Greet(c)
    \/ Greeted(c) \/ Confirm(c) \/ Fail(c) \/ Check(c) \/ Ask(c) \/ TimeOut(c)

Next ==
    \/ \E S \in SUBSET Calls : Begin(S)
    \/ \E c \in Calls : Poll(c) \/ Answer(c)
    \/ Cancel
    \/ \E g \in Generations : Exit(g) \/ LoopEnds(g) \/ OnError(g)
    \/ \E f \in Files : Sync(f)

Spec == Init /\ [][Next]_vars
-----------------------------------------------------------------------------
Places == {"idle", "look", "ensure", "launch", "greet", "greeting", "greeted",
           "confirm", "fail", "check", "ask", "asking", "done"}

\* The client's and the calls' variables are well formed.
TypeOK ==
    /\ state \in {"Stopped", "Running", "Error"}
    /\ restarts \in 0..MaxRestarts
    /\ spawned \in 0..MaxSpawns /\ current \in 0..spawned
    /\ opened \subseteq Files /\ started \in BOOLEAN
    /\ alive \cup input \cup read \cup looping \cup failing \cup greeted
         \subseteq 1..spawned
    /\ told \in [Generations -> SUBSET Files]
    /\ pc \in [Calls -> Places]
    /\ way \in [Calls -> {"restart", "start"}]
    /\ on \in [Calls -> 0..spawned]
    /\ turn \in Calls \cup {Nobody}

\* A call never waits for an answer that nobody can bring: the loop of the
\* server it asked still runs, and will dispatch the answer or reject it when
\* the server is gone, replaced or restarted meanwhile included (the archived
\* issue 2026-05-12-lsp-transport-no-fast-fail-on-process-exit).
NoSilentWait ==
    \A c \in Calls : pc[c] \in {"greeting", "asking"} => on[c] \in looping

\* Every server but the current one has lost its input and so knows to end,
\* whoever replaced it and wherever a call was dropped; and the current one is
\* not sent didOpen for a file that it has already (LspClient::try_restart).
OneServer ==
    /\ input \subseteq {current}
    /\ current # 0 => told[current] \subseteq opened

\* What start says: Ok means that the handshake is complete (client.rs:79).  The
\* state is Running before it, and the other calls of the batch ask at once.
HandshakeFirst == \A c \in Calls : pc[c] = "asking" => on[c] \in greeted
=============================================================================
