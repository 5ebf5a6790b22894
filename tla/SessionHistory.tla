---------------------------- MODULE SessionHistory ----------------------------
(***************************************************************************)
(* The conversation of a session in memory and in the store: the server    *)
(* loop (cc-acp/src/session/acp_server/mod.rs), the handlers for prompts,  *)
(* appended history, load, resume, fork and close (prompt.rs, requests.rs, *)
(* prompt_locks.rs, notify.rs), the immediate commands of executor.rs and  *)
(* the crash of the process.                                               *)
(*                                                                         *)
(* Requests to the thread Main run in tasks of their own and are           *)
(* serialised by the prompt lock of the session.  The sessions mutex       *)
(* protects the memory and is held over the store operations of the        *)
(* handlers, but an immediate command of a prompt reaches the store        *)
(* without it.  A message is its id; 0 stands for a temporary system       *)
(* message.  What an execution of the agent may return is taken from       *)
(* ReactLoop; that it returns at all is its property Terminates.           *)
(***************************************************************************)
EXTENDS ThreadStore

CONSTANTS
    Main, Other,  \* the thread of the requests, and the one a fork creates
    Requests,     \* ids of the requests sent, 1..n
    Rewinds,      \* /rewind is sent "never", "undisturbed" (no cancel, close
                  \* or crash from when it may begin until it ends) or "any" time
    MaxCompacts,  \* how many /compact are sent
    Shrinking,    \* each /compact leaves fewer messages than there were
    Restored,     \* how many files a compaction restores at most
    AutoCompact,  \* executions may compact the conversation
    Cancels,      \* the user may cancel
    Resumes,      \* session/resume may be sent
    Forks,        \* session/fork may be sent
    MaxCloses,    \* how often the session is closed
    MaxCrashes    \* how often the process dies

ASSUME SessionAssumption ==
    /\ {Main, Other} \subseteq Threads /\ Main # Other
    /\ Requests \subseteq Nat \ {0}
    /\ Rewinds \in {"never", "undisturbed", "any"}
    /\ MaxCompacts \in Nat /\ Restored \in Nat
    /\ MaxCloses \in Nat /\ MaxCrashes \in Nat

VARIABLES
    open,       \* threads with an entry in the sessions map
    history,    \* SessionState.history
    token,      \* the request whose CancellationToken is registered, or 0
    lockOf,     \* the lock in prompt_locks for Main, or 0
    locks,      \* number of prompt locks created
    mutex,      \* who holds the sessions mutex over an await: "prompt" or "load"
    loop,       \* the server loop: the handler it is in, what a load has read
    known,      \* threads that exist in the store
    req,        \* the requests
    made,       \* number of messages created
    compacts, closes, crashes

store   == <<rows, cache, known>>
memory  == <<open, history, token>>
server  == <<lockOf, locks, mutex, loop>>
bounds  == <<made, compacts, closes, crashes>>
vars == <<store, memory, server, req, bounds>>

Ready == [pc |-> "ready", thread |-> Main, cached |-> NoCache, context |-> <<>>]

Idle == [pc |-> "idle", kind |-> "none", lock |-> 0, base |-> <<>>,
         epoch |-> 0, result |-> <<>>, ok |-> FALSE, confirmed |-> {},
         cancelled |-> FALSE]

\* The control points of a request that holds its prompt lock.
Holding == {"register", "read", "running", "rewinding", "rewound", "persist",
            "deleted", "invalidated", "publish", "append", "respond"}

\* What the user and the machine do not do when rewinds are undisturbed.
Undisturbed ==
    Rewinds = "undisturbed" =>
        \A k \in Requests : req[k].pc \notin {"rewinding", "rewound"}

Fresh(n) == [i \in 1..n |-> made + i]
At(k, place) == req[k].pc = place
Step(k, from, to) == At(k, from) /\ req' = [req EXCEPT ![k].pc = to]

Init ==
    /\ rows = [t \in Threads |-> IF t = Main THEN <<1, 2>> ELSE <<>>]
    /\ cache = [t \in Threads |-> NoCache]
    /\ known = {Main}
    /\ open = {}
    /\ history = [t \in Threads |-> <<>>]
    /\ token = 0
    /\ lockOf = 0 /\ locks = 0 /\ mutex = "free" /\ loop = Ready
    /\ req = [k \in Requests |-> Idle]
    /\ made = 2 /\ compacts = 0 /\ closes = 0 /\ crashes = 0
-----------------------------------------------------------------------------
\* The server loop takes the lock of the session from the table, creating it
\* if need be, and spawns the task.
Arrive(k) ==
    /\ loop = Ready
    /\ At(k, "idle")
    /\ \A j \in Requests : j < k => ~At(j, "idle")
    /\ IF lockOf = 0 THEN lockOf' = locks + 1 /\ locks' = locks + 1
       ELSE UNCHANGED <<lockOf, locks>>
    /\ \E kind \in {"prompt", "append_history"} :
         /\ kind = "prompt" => mutex = "free"
         /\ req' = [req EXCEPT ![k] = [@ EXCEPT !.pc = "waiting",
                                      !.kind = kind, !.lock = lockOf']]
    /\ UNCHANGED <<store, memory, mutex, loop, bounds>>

\* Mutant: the requests do not wait for each other.
MutAcquire(k) ==
    /\ Step(k, "waiting",
            IF req[k].kind = "prompt" THEN "register" ELSE "append")
    /\ UNCHANGED <<store, memory, server, bounds>>

Acquire(k) ==
    /\ \A j \in Requests : req[j].lock = req[k].lock => req[j].pc \notin Holding
    /\ Step(k, "waiting",
            IF req[k].kind = "prompt" THEN "register" ELSE "append")
    /\ UNCHANGED <<store, memory, server, bounds>>

\* Mutant: a prompt waits until its session is open.
MutRegister(k) ==
    /\ mutex = "free"
    /\ Main \in open
    /\ Step(k, "register", "read")
    /\ token' = k
    /\ UNCHANGED <<store, open, history, server, bounds>>

\* execute_prompt registers its token; without a session it is an error.
Register(k) ==
    /\ mutex = "free"
    /\ IF Main \in open
       THEN Step(k, "register", "read") /\ token' = k
       ELSE Step(k, "register", "respond") /\ UNCHANGED token
    /\ UNCHANGED <<store, open, history, server, bounds>>

ReadHistory(k) ==
    /\ mutex = "free"
    /\ At(k, "read")
    /\ IF Main \in open
       THEN req' = [req EXCEPT ![k] = [@ EXCEPT !.pc = "running",
                      !.epoch = closes, !.base = history[Main]]]
       ELSE req' = [req EXCEPT ![k].pc = "respond"]
    /\ UNCHANGED <<store, memory, server, bounds>>

Return(k, result, ok, confirmed) ==
    req' = [req EXCEPT ![k] = [@ EXCEPT !.pc = "persist", !.result = result,
                                        !.ok = ok, !.confirmed = confirmed]]

\* The agent answers: the user's message and what it wrote.  The last one may
\* be a text added during the execution and confirmed to its sender.
AnswerPrompt(k) ==
    /\ At(k, "running")
    /\ made' = made + 2
    /\ \E steered \in BOOLEAN :
         Return(k, req[k].base \o Fresh(2), TRUE,
                IF steered THEN {made + 2} ELSE {})
    /\ UNCHANGED <<store, memory, server, compacts, closes, crashes>>

\* The agent fails or is cancelled: after the user's message only, possibly
\* with a system message left in front, or with messages written after it.
FailPrompt(k) ==
    /\ At(k, "running")
    /\ made' = made + 2
    /\ \/ Return(k, req[k].base \o Fresh(1), FALSE, {})
       \/ Return(k, <<0>> \o req[k].base \o Fresh(1), FALSE, {})
       \/ \E steered \in BOOLEAN :
            Return(k, req[k].base \o Fresh(2), FALSE,
                   IF steered THEN {made + 2} ELSE {})
    /\ UNCHANGED <<store, memory, server, compacts, closes, crashes>>

\* The agent compacts during the execution, and a text is added after that.
CompactedPrompt(k) ==
    /\ AutoCompact
    /\ At(k, "running")
    /\ made' = made + 2
    /\ \E ok \in BOOLEAN : Return(k, Fresh(2), ok, {made + 2})
    /\ UNCHANGED <<store, memory, server, compacts, closes, crashes>>

\* /compact: the summary and the restored files replace the conversation.
CompactCommand(k) ==
    /\ At(k, "running")
    /\ compacts < MaxCompacts
    /\ compacts' = compacts + 1
    /\ \E n \in 0..Restored :
         /\ Shrinking => 1 + n < Len(req[k].base)
         /\ made' = made + 1 + n
         /\ Return(k, IF req[k].base = <<>> THEN <<>> ELSE Fresh(1 + n),
                   TRUE, {})
    /\ UNCHANGED <<store, memory, server, closes, crashes>>

\* /rewind deletes what follows its target from the store ...
RewindCommand(k) ==
    /\ Rewinds # "never"
    /\ At(k, "running")
    /\ Rewinds = "undisturbed" =>
         Main \in open /\ req[k].epoch = closes /\ ~req[k].cancelled
    /\ \E i \in 1..Len(req[k].base) :
         /\ req' = [req EXCEPT ![k] = [@ EXCEPT !.pc = "rewinding",
                      !.result = SubSeq(req[k].base, 1, i - 1)]]
         /\ rows' = DeleteMessages(rows, Main,
                      Ids(SubSeq(req[k].base, i, Len(req[k].base))))
    /\ UNCHANGED <<cache, known, memory, server, bounds>>

\* ... then clears the cache ...
RewindClearsCache(k) ==
    /\ Step(k, "rewinding", "rewound")
    /\ cache' = [cache EXCEPT ![Main] = NoCache]
    /\ UNCHANGED <<rows, known, memory, server, bounds>>

\* ... and returns what is left.
RewindReturns(k) ==
    /\ At(k, "rewound")
    /\ Return(k, req[k].result, TRUE, {})
    /\ UNCHANGED <<store, memory, server, bounds>>

\* The select between an immediate command and the token: a cancelled command
\* is dropped where it stands and the history returned as it was.
DropCommand(k) ==
    /\ req[k].cancelled
    /\ req[k].pc \in {"running", "rewinding", "rewound"}
    /\ Return(k, req[k].base, TRUE, {})
    /\ UNCHANGED <<store, memory, server, bounds>>
-----------------------------------------------------------------------------
\* strip_leaked_prepends
Stripped(k) ==
    LET r == req[k].result
        b == req[k].base
    IN  CASE b # <<>> /\ b[1] \in Ids(r) ->
               SubSeq(r, CHOOSE i \in 1..Len(r) : r[i] = b[1], Len(r))
          [] b = <<>> /\ r # <<>> /\ r[1] = 0 -> Tail(r)
          [] OTHER -> r

Grown(k)  == req[k].ok /\ Len(req[k].base) < Len(req[k].result)
Shrunk(k) == req[k].ok /\ Len(req[k].result) < Len(req[k].base)

\* Mutant: a failed round counts only with two messages of the agent.
MutProgressed(k) ==
    ~req[k].ok /\ Len(req[k].result) > Len(req[k].base) + 2

\* A failed execution that got beyond the user's message.
Progressed(k) == ~req[k].ok /\ Len(req[k].result) > Len(req[k].base) + 1

Suffix(s, n) == SubSeq(s, n + 1, Len(s))
Truncate(s, n) == SubSeq(s, 1, Min({n, Len(s)}))

\* The store operation a finished execution begins with: the new messages are
\* appended, or, when there are fewer than before, the old ones deleted.
Persist(k) ==
    /\ At(k, "persist") /\ mutex = "free"
    /\ IF Main \notin open
       THEN /\ req' = [req EXCEPT ![k].pc = "respond"]
            /\ UNCHANGED <<rows, mutex>>
       ELSE /\ mutex' = "prompt"
            /\ req' = [req EXCEPT ![k].pc =
                         IF Shrunk(k) THEN "deleted" ELSE "publish"]
            /\ rows' = CASE Grown(k) ->
                              AppendMessages(rows, Main,
                                Suffix(req[k].result, Len(req[k].base)))
                         [] Shrunk(k) ->
                              DeleteMessages(rows, Main, Ids(req[k].base))
                         [] Progressed(k) ->
                              AppendMessages(rows, Main,
                                Suffix(Stripped(k), Len(req[k].base)))
                         [] OTHER -> rows
    /\ UNCHANGED <<cache, known, memory, lockOf, locks, loop, bounds>>

\* The second half of delete_messages.
PersistClearsCache(k) ==
    /\ Step(k, "deleted", "invalidated")
    /\ cache' = [cache EXCEPT ![Main] = NoCache]
    /\ UNCHANGED <<rows, known, memory, server, bounds>>

\* Mutant: the compacted conversation is not written.
MutPersistCompacted(k) ==
    /\ Step(k, "invalidated", "publish")
    /\ UNCHANGED <<store, memory, server, bounds>>

PersistCompacted(k) ==
    /\ Step(k, "invalidated", "publish")
    /\ rows' = AppendMessages(rows, Main, req[k].result)
    /\ UNCHANGED <<cache, known, memory, server, bounds>>

\* The memory takes the result over; a round without progress is rolled back.
Publish(k) ==
    /\ Step(k, "publish", "respond")
    /\ history' = [history EXCEPT ![Main] =
         CASE req[k].ok -> req[k].result
           [] Progressed(k) -> Stripped(k)
           [] OTHER -> Truncate(@, Len(req[k].base))]
    /\ token' = 0
    /\ mutex' = "free"
    /\ UNCHANGED <<store, open, lockOf, locks, loop, bounds>>

\* append_history_to_session: memory and store under the sessions mutex.
AppendHistory(k) ==
    /\ mutex = "free"
    /\ Step(k, "append", "respond")
    /\ IF Main \in open
       THEN /\ history' = [history EXCEPT ![Main] = @ \o Fresh(2)]
            /\ rows' = AppendMessages(rows, Main, Fresh(2))
            /\ made' = made + 2
       ELSE UNCHANGED <<history, rows, made>>
    /\ UNCHANGED <<cache, known, open, token, server, compacts, closes,
                   crashes>>

\* The task responds, then drops its guard and its reference to the lock.
Respond(k) ==
    /\ At(k, "respond")
    /\ req' = [req EXCEPT ![k] = [Idle EXCEPT !.pc = "releasing"]]
    /\ UNCHANGED <<store, memory, server, bounds>>

\* Mutant: the lock of a closed session goes although others wait for it.
MutLockUnused == TRUE

\* Arc::strong_count == 1: only the table refers to the lock.
LockUnused == \A k \in Requests : req[k].lock # lockOf

\* release_closed_session_lock
ReleaseLock == lockOf' = IF Main \notin open /\ LockUnused THEN 0 ELSE lockOf

Release(k) ==
    /\ mutex = "free"
    /\ Step(k, "releasing", "done")
    /\ ReleaseLock
    /\ UNCHANGED <<store, memory, locks, mutex, loop, bounds>>
-----------------------------------------------------------------------------
\* Mutant: session/load does not look whether there is such a thread.
MutLoad(t) ==
    /\ loop = Ready /\ mutex = "free"
    /\ t \notin open \/ history[t] = <<>>
    /\ mutex' = "load"
    /\ loop' = [Ready EXCEPT !.pc = "rows", !.thread = t, !.cached = cache[t]]
    /\ UNCHANGED <<store, memory, lockOf, locks, req, bounds>>

\* session/load keeps a history in memory, else reads the context: the cache,
\* then the rows, then the cache is written, all under the sessions mutex.
Load(t) ==
    /\ loop = Ready /\ mutex = "free"
    /\ t \in known
    /\ t \notin open \/ history[t] = <<>>
    /\ mutex' = "load"
    /\ loop' = [Ready EXCEPT !.pc = "rows", !.thread = t, !.cached = cache[t]]
    /\ UNCHANGED <<store, memory, lockOf, locks, req, bounds>>

LoadReadsRows ==
    /\ loop.pc = "rows"
    /\ loop' = [loop EXCEPT !.pc = "save",
         !.context = LoadContext(rows, loop.cached, loop.thread)]
    /\ UNCHANGED <<store, memory, lockOf, locks, mutex, req, bounds>>

LoadFinishes ==
    /\ loop.pc = "save"
    /\ cache' = [cache EXCEPT ![loop.thread] =
         IF loop.cached = NoCache THEN loop.context ELSE @]
    /\ open' = open \cup {loop.thread}
    /\ history' = [history EXCEPT ![loop.thread] = loop.context]
    /\ loop' = Ready
    /\ mutex' = "free"
    /\ UNCHANGED <<rows, known, token, lockOf, locks, req, bounds>>

\* session/resume opens a session without reading the store.
Resume ==
    /\ Resumes
    /\ loop = Ready /\ mutex = "free"
    /\ Main \notin open
    /\ open' = open \cup {Main}
    /\ UNCHANGED <<store, history, token, server, req, bounds>>

\* session/fork: a new thread, the source's messages, a session with them.
Fork ==
    /\ Forks
    /\ loop = Ready /\ mutex = "free"
    /\ Main \in open /\ Other \notin known
    /\ known' = known \cup {Other}
    /\ rows' = AppendMessages(rows, Other, history[Main])
    /\ open' = open \cup {Other}
    /\ history' = [history EXCEPT ![Other] = history[Main]]
    /\ UNCHANGED <<cache, token, server, req, bounds>>

CancelToken ==
    IF token = 0 THEN UNCHANGED req
    ELSE req' = [req EXCEPT ![token].cancelled = TRUE]

\* session/cancel reaches the request whose token is registered, not the ones
\* that wait for the prompt lock.
Cancel ==
    /\ Cancels /\ Undisturbed
    /\ loop = Ready /\ mutex = "free"
    /\ token # 0
    /\ CancelToken
    /\ UNCHANGED <<store, memory, server, bounds>>

\* session/close removes the session and cancels the prompt in progress; the
\* loop releases the lock once it has left the sessions mutex.
Close ==
    /\ closes < MaxCloses /\ Undisturbed
    /\ closes' = closes + 1
    /\ loop = Ready /\ mutex = "free"
    /\ Main \in open
    /\ open' = open \ {Main}
    /\ history' = [history EXCEPT ![Main] = <<>>]
    /\ token' = 0
    /\ CancelToken
    /\ loop' = [Ready EXCEPT !.pc = "closed"]
    /\ UNCHANGED <<store, lockOf, locks, mutex, made, compacts, crashes>>

CloseReleases ==
    /\ loop.pc = "closed" /\ mutex = "free"
    /\ ReleaseLock
    /\ loop' = Ready
    /\ UNCHANGED <<store, memory, locks, mutex, req, bounds>>

\* The process dies: only the store survives.
Crash ==
    /\ crashes < MaxCrashes /\ Undisturbed
    /\ crashes' = crashes + 1
    /\ open' = {}
    /\ history' = [t \in Threads |-> <<>>]
    /\ token' = 0
    /\ lockOf' = 0 /\ mutex' = "free" /\ loop' = Ready
    /\ req' = [k \in Requests |->
         IF At(k, "idle") THEN Idle ELSE [Idle EXCEPT !.pc = "done"]]
    /\ UNCHANGED <<store, locks, made, compacts, closes>>

Work(k) ==
    \/ Acquire(k) \/ Register(k) \/ ReadHistory(k)
    \/ AnswerPrompt(k) \/ FailPrompt(k) \/ CompactedPrompt(k)
    \/ CompactCommand(k) \/ RewindCommand(k) \/ RewindClearsCache(k)
    \/ RewindReturns(k) \/ DropCommand(k)
    \/ Persist(k) \/ PersistClearsCache(k) \/ PersistCompacted(k)
    \/ Publish(k) \/ AppendHistory(k) \/ Respond(k) \/ Release(k)

Next ==
    \/ \E k \in Requests : Arrive(k) \/ Work(k)
    \/ \E t \in Threads : Load(t)
    \/ LoadReadsRows \/ LoadFinishes
    \/ Resume \/ Fork \/ Cancel \/ Close \/ CloseReleases \/ Crash

\* The tasks of the requests and the handler of session/load are scheduled
\* fairly and the mutexes serve their waiters in order (tokio), so a task that
\* can proceed again and again does; an execution returns (Terminates of
\* ReactLoop).
Fairness ==
    /\ \A k \in Requests : SF_vars(Work(k))
    /\ WF_vars(LoadReadsRows) /\ WF_vars(LoadFinishes)
    /\ WF_vars(CloseReleases)

Spec == Init /\ [][Next]_vars /\ Fairness
-----------------------------------------------------------------------------
TypeOK ==
    /\ StoreTypeOK
    /\ open \subseteq known /\ known \subseteq Threads
    /\ history \in [Threads -> Seq(Nat)]
    /\ token \in Requests \cup {0}
    /\ mutex \in {"free", "prompt", "load"}
    /\ (mutex = "load") = (loop.pc \in {"rows", "save"})
    /\ lockOf \in 0..locks
    /\ \A k \in Requests :
         /\ req[k].pc \in Holding \cup
              {"idle", "waiting", "releasing", "done"}
         /\ req[k].lock \in 0..locks
         /\ req[k].confirmed \subseteq 1..made

\* Points of a request at which the store is ahead of the memory or behind.
Unsettled == {"rewinding", "rewound", "persist", "deleted", "invalidated",
              "publish"}

\* Whenever no request is between its change of the store and its change of
\* the memory, a restart would restore what every open session holds
\* (prompt.rs:162, session_load.rs:8).
MemoryMatchesStore ==
    (\A k \in Requests : req[k].pc \notin Unsettled) =>
        \A t \in open : LoadContext(rows, cache[t], t) = history[t]

\* A conversation never holds a message twice, however often it was persisted,
\* cut, closed and restored (prompt.rs:177: "otherwise session restore loads
\* old + new messages causing duplication").
NothingRestoredTwice ==
    \A t \in open : Cardinality(Ids(history[t])) = Len(history[t])

\* Two requests to one session never run at the same time, whatever is closed
\* and opened meanwhile: there is one lock (prompt_locks.rs:8).
OneAtATime ==
    \A j, k \in Requests : req[j].pc \in Holding /\ req[k].pc \in Holding => j = k

\* What a prompt writes back at its end is based on what the session holds at
\* that moment: nothing that was appended meanwhile is overwritten
\* (acp_server/mod.rs:237).
SnapshotIsCurrent ==
    \A k \in Requests :
        /\ req[k].pc \in {"running", "rewinding", "rewound"} \cup Unsettled
        /\ req[k].epoch = closes
        /\ Main \in open
        => history[Main] = req[k].base

\* A text confirmed to its sender during an execution is in the history that
\* the execution leaves, be it successful or not (steering/mod.rs:25).
ConfirmedIsKept ==
    [][\A k \in Requests :
         At(k, "publish") /\ req'[k].pc = "respond" =>
             req[k].confirmed \subseteq Ids(history'[Main])]_vars

\* Every request that arrives is answered, unless the process dies.
EveryRequestEnds ==
    \A k \in Requests :
        At(k, "waiting") ~> At(k, "done")
=============================================================================
