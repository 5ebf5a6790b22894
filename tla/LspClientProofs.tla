-------------------------- MODULE LspClientProofs --------------------------
(***************************************************************************)
(* LspClient for every set of calls and files and every limit on restarts: *)
(* nobody waits for an answer that cannot come, and at most one server at  *)
(* a time is kept.                                                         *)
(***************************************************************************)
EXTENDS LspClient, TLAPS

\* A server whose input is open is read, and one that runs and is read has its
\* loop: what can be sent to can also answer.
Served ==
    /\ input \subseteq read
    /\ alive \cap read \subseteq looping

\* A process that is still to be started knows no file.
Fresh == \A g \in Generations : g > spawned => told[g] = {}

IInv == TypeOK /\ NoSilentWait /\ OneServer /\ Served /\ Fresh

\* The initial states satisfy the invariant.
LEMMA InitInv == Init => IInv
<1> USE LspAssumption DEF Init
<1> SUFFICES ASSUME Init PROVE IInv
  OBVIOUS
<1>1. TypeOK
  <2>1. alive \cup input \cup read \cup looping \cup failing \cup greeted = {}
    OBVIOUS
  <2>2. /\ state \in {"Stopped", "Running", "Error"}
        /\ restarts \in 0..MaxRestarts
        /\ spawned \in 0..MaxSpawns /\ current \in 0..spawned
        /\ opened \subseteq Files
    OBVIOUS
  <2>5. started \in BOOLEAN
    OBVIOUS
  <2>3. /\ told \in [Generations -> SUBSET Files]
        /\ way \in [Calls -> {"restart", "start"}]
        /\ on \in [Calls -> 0..spawned]
        /\ turn \in Calls \cup {Nobody}
    OBVIOUS
  <2>4. pc \in [Calls -> Places]
    BY DEF Places
  <2> QED BY <2>1, <2>2, <2>3, <2>4, <2>5 DEF TypeOK
<1>2. NoSilentWait /\ OneServer /\ Served
  BY DEF NoSilentWait, OneServer, Served
<1>3. Fresh
  BY DEF Fresh
<1> QED BY <1>1, <1>2, <1>3 DEF IInv

\* A step of a call that leaves the processes as they are preserves it, if the
\* call waits only for a server that it can send to.
LEMMA QuietStep ==
    ASSUME IInv, NEW c \in Calls, UNCHANGED <<process, current>>,
           state' \in {"Stopped", "Running", "Error"},
           restarts' \in 0..MaxRestarts, opened' = opened,
           started' \in BOOLEAN, way' \in [Calls -> {"restart", "start"}],
           turn' \in Calls \cup {Nobody},
           NEW q \in Places, pc' = [pc EXCEPT ![c] = q],
           \/ on' = on /\ (q \in {"greeting", "asking"} => q = pc[c])
           \/ on' = [on EXCEPT ![c] = current] /\ CanSend
    PROVE  IInv'
<1> USE LspAssumption DEF IInv, process
<1>1. TypeOK'
  BY DEF TypeOK, CanSend
<1>2. NoSilentWait'
  BY DEF TypeOK, NoSilentWait, Served, CanSend
<1>3. OneServer' /\ Served' /\ Fresh'
  BY DEF OneServer, Served, Fresh
<1> QED BY <1>1, <1>2, <1>3

\* What a call does in its turn.
LEMMA PollInv == ASSUME IInv, NEW c \in Calls, Poll(c) PROVE IInv'
<1> USE LspAssumption
<1>1. CASE Look(c)
  <2>1. CASE state = "Running" \/ restarts >= MaxRestarts
    BY <1>1, <2>1, QuietStep
    DEF Look, At, GoOn, Places, process, IInv, TypeOK
  <2>2. CASE ~(state = "Running" \/ restarts >= MaxRestarts)
    <3>1. TypeOK'
      BY <1>1, <2>2 DEF Look, At, GoOn, Places, IInv, TypeOK
    <3>2. NoSilentWait' /\ OneServer' /\ Served' /\ Fresh'
      BY <1>1, <2>2
      DEF Look, At, GoOn, IInv, TypeOK, NoSilentWait, OneServer, Served, Fresh
    <3> QED BY <3>1, <3>2 DEF IInv
  <2> QED BY <2>1, <2>2
<1>2. CASE Launch(c)
  <2>1. TypeOK'
    BY <1>2 DEF Launch, At, GoOn, Places, Generations, IInv, TypeOK
  <2>2. NoSilentWait' /\ Served'
    BY <1>2 DEF Launch, At, GoOn, IInv, TypeOK, NoSilentWait, Served
  <2>3. OneServer' /\ Fresh'
    BY <1>2
    DEF Launch, At, GoOn, Generations, IInv, TypeOK, OneServer, Fresh
  <2> QED BY <2>1, <2>2, <2>3 DEF IInv
<1>3. CASE Greeted(c)
  <2>1. TypeOK'
    BY <1>3 DEF Greeted, At, GoOn, Places, CanSend, IInv, TypeOK
  <2>2. NoSilentWait' /\ OneServer' /\ Served' /\ Fresh'
    BY <1>3
    DEF Greeted, At, GoOn, IInv, TypeOK, NoSilentWait, OneServer, Served, Fresh
  <2> QED BY <2>1, <2>2 DEF IInv
<1>4. CASE Ensure(c)
  <2> USE QuietStep DEF Ensure, At, GoOn, Places, process, IInv, TypeOK
  <2>1. CASE started \/ state = "Running"
    <3>1. started' \in BOOLEAN /\ UNCHANGED <<way, on, state, restarts, opened>>
      BY <1>4, <2>1
    <3>2. pc' = [pc EXCEPT ![c] = "check"] /\ turn' = c
      BY <1>4, <2>1
    <3>3. UNCHANGED <<process, current>>
      BY <1>4
    <3>4. /\ state' \in {"Stopped", "Running", "Error"}
          /\ restarts' \in 0..MaxRestarts
          /\ way' \in [Calls -> {"restart", "start"}]
          /\ turn' \in Calls \cup {Nobody}
      BY <3>1, <3>2
    <3> HIDE <1>4 DEF Ensure, IInv, process
    <3> QED BY <3>1, <3>2, <3>3, <3>4
  <2>2. CASE ~(started \/ state = "Running")
    BY <1>4, <2>2
  <2> QED BY <2>1, <2>2
<1>5. CASE LaunchFails(c)
  BY <1>5, QuietStep DEF LaunchFails, At, GoOn, Places, process, IInv, TypeOK
<1>6. CASE Greet(c)
  BY <1>6, QuietStep DEF Greet, At, GoOn, Leave, Places, process, IInv, TypeOK
<1>7. CASE Confirm(c)
  <2> USE QuietStep DEF Confirm, At, GoOn, Places, process, IInv, TypeOK
  <2>1. CASE way[c] = "restart"
    BY <1>7, <2>1
  <2>2. CASE way[c] # "restart"
    BY <1>7, <2>2
  <2> QED BY <2>1, <2>2
<1>8. CASE Fail(c)
  BY <1>8, QuietStep DEF Fail, At, GoOn, Leave, Places, process, IInv, TypeOK
<1>9. CASE Check(c)
  BY <1>9, QuietStep DEF Check, At, GoOn, Leave, Places, process, IInv, TypeOK
<1>10. CASE Ask(c)
  BY <1>10, QuietStep DEF Ask, At, Leave, Places, process, IInv, TypeOK
<1>11. CASE TimeOut(c)
  BY <1>11, QuietStep DEF TimeOut, GoOn, Leave, Places, process, IInv, TypeOK
<1> QED BY <1>1, <1>2, <1>3, <1>4, <1>5, <1>6, <1>7, <1>8, <1>9, <1>10, <1>11
        DEF Poll

\* A dispatch loop that ends leaves nobody waiting for it.
LEMMA LoopEndsInv ==
    ASSUME IInv, NEW g \in Generations, LoopEnds(g) PROVE IInv'
<1> USE LspAssumption DEF IInv
<1>1. pc' \in [Calls -> Places]
  BY DEF LoopEnds, Refused, TypeOK, Places
<1>2. TypeOK'
  BY <1>1 DEF LoopEnds, TypeOK
<1>3. NoSilentWait'
  BY DEF LoopEnds, Refused, TypeOK, NoSilentWait
<1>4. OneServer' /\ Served' /\ Fresh'
  BY DEF LoopEnds, TypeOK, OneServer, Served, Fresh
<1> QED BY <1>2, <1>3, <1>4

\* Every step preserves the invariant.
LEMMA StepInv == IInv /\ [Next]_vars => IInv'
<1> USE LspAssumption
<1> SUFFICES ASSUME IInv, [Next]_vars PROVE IInv'
  OBVIOUS
<1> USE DEF IInv
<1>1. ASSUME NEW S \in SUBSET Calls, Begin(S) PROVE IInv'
  BY <1>1
  DEF Begin, process, TypeOK, Places, NoSilentWait, OneServer, Served, Fresh
<1>2. ASSUME NEW c \in Calls, Answer(c) PROVE IInv'
  BY <1>2, QuietStep DEF Answer, Places, process, TypeOK
<1>3. CASE Cancel
  BY <1>3
  DEF Cancel, process, TypeOK, Places, NoSilentWait, OneServer, Served, Fresh
<1>4. ASSUME NEW g \in Generations, Exit(g) PROVE IInv'
  BY <1>4
  DEF Exit, call, TypeOK, NoSilentWait, OneServer, Served, Fresh
<1>5. ASSUME NEW g \in Generations, OnError(g) PROVE IInv'
  BY <1>5
  DEF OnError, call, TypeOK, NoSilentWait, OneServer, Served, Fresh
<1>6. ASSUME NEW f \in Files, Sync(f) PROVE IInv'
  BY <1>6
  DEF Sync, CanSend, call, Generations, TypeOK, NoSilentWait, OneServer,
      Served, Fresh
<1>7. CASE UNCHANGED vars
  BY <1>7
  DEF vars, call, process, TypeOK, NoSilentWait, OneServer, Served, Fresh
<1> QED BY <1>1, <1>2, <1>3, <1>4, <1>5, <1>6, <1>7, PollInv, LoopEndsInv
        DEF Next

\* The invariant holds in every reachable state.
LEMMA Invariant == Spec => []IInv
BY InitInv, StepInv, PTL DEF Spec

\* The variables of the client and of the calls keep their types, whatever the
\* number of calls, files, restarts and processes.
THEOREM TypeCorrect == Spec => []TypeOK
<1>1. IInv => TypeOK
  BY DEF IInv
<1> QED BY <1>1, Invariant, PTL

\* However servers die and are replaced under a call, the loop it waits for
\* still runs: it is answered or rejected, and never left to its timeout by the
\* end of a server.
THEOREM NobodyWaitsInVain == Spec => []NoSilentWait
<1>1. IInv => NoSilentWait
  BY DEF IInv
<1> QED BY <1>1, Invariant, PTL

\* Wherever starts, restarts, failures and cancels fall, the servers replaced
\* have lost their input, and no file is opened twice on the current one.
THEOREM OneServerKept == Spec => []OneServer
<1>1. IInv => OneServer
  BY DEF IInv
<1> QED BY <1>1, Invariant, PTL
=============================================================================
