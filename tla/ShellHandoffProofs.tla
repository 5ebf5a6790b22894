------------------------- MODULE ShellHandoffProofs -------------------------
(***************************************************************************)
(* ShellHandoff for every set of commands: whoever races for a command, it *)
(* is answered or told once, killed by its owner only, and no sleeping     *)
(* tool misses the hand-over.                                              *)
(***************************************************************************)
EXTENDS ShellHandoff, TLAPS

\* What is known of a call from where its tool stands.
Call(c) ==
    /\ tool[c] = "idle" =>
         /\ owner[c] = "none" /\ phase[c] = "none"
         /\ aborter[c] = "nobody" /\ answer[c] = "none"
    /\ tool[c] = "registering" => supported /\ owner[c] \in {"foreground", "background"}
    /\ tool[c] = "stopping" => aborter[c] # "nobody"
    /\ tool[c] \in {"arming", "checking", "waiting"} =>
         owner[c] \in {"foreground", "background"}
    /\ tool[c] \in {"checking", "waiting"} =>
         waiter[c] \in {"registered", "notified"}

\* Only a client that keeps commands takes one into the background.
Host ==
    /\ hostOpen => supported
    /\ ui # Idle => supported
    /\ \A c \in Commands : owner[c] = "background" => supported

\* A slot is marked as ended only when its process has ended and nobody can
\* hand it over any more, its notice is remembered, and it was started.
Slot(c) ==
    /\ c \in ended => Published(c) /\ owner[c] # "foreground"
    /\ told[c] = IF c \in noticed THEN 1 ELSE 0
    /\ c \in slots \cup arriving => tool[c] # "idle"

IInv ==
    /\ TypeOK
    /\ ToldOnce
    /\ KilledByOwner
    /\ NoLostWakeUp
    /\ Host
    /\ \A c \in Commands : Call(c) /\ Slot(c)

\* The initial states satisfy the invariant.
LEMMA InitInv == Init => IInv
<1> USE ShellAssumption
<1> SUFFICES ASSUME Init PROVE IInv
  OBVIOUS
<1>1. TypeOK
  BY DEF Init, TypeOK, Idle
<1>2. ToldOnce /\ KilledByOwner /\ NoLostWakeUp
  BY DEF Init, ToldOnce, KilledByOwner, NoLostWakeUp, Published
<1>3. Host /\ \A c \in Commands : Call(c) /\ Slot(c)
  BY DEF Init, Host, Call, Slot, Idle
<1> QED BY <1>1, <1>2, <1>3 DEF IInv

\* A step of the tool preserves it: what it answers agrees with the owner.
LEMMA ToolInv ==
    ASSUME IInv, NEW c \in Commands,
           \/ Refuse(c) \/ \E direct \in BOOLEAN : Launch(c, direct)
           \/ Tool(c) \/ Cancel(c)
    PROVE  IInv'
<1> USE ShellAssumption DEF IInv, Answer, Go
<1> USE DEF TypeOK, ToldOnce, KilledByOwner, NoLostWakeUp, Host, Call, Slot,
            Published, client, calls
<1>1. CASE Refuse(c)
  BY <1>1 DEF Refuse
<1>2. ASSUME NEW direct \in BOOLEAN, Launch(c, direct) PROVE IInv'
  BY <1>2 DEF Launch
<1>3. CASE Register(c)
  BY <1>3 DEF Register
<1>4. CASE Stopped(c)
  BY <1>4 DEF Stopped
<1>5. CASE Arm(c)
  BY <1>5 DEF Arm
<1>6. CASE Check(c)
  BY <1>6 DEF Check
<1>7. CASE Wake(c)
  BY <1>7 DEF Wake
<1>8. CASE TakeResult(c)
  BY <1>8 DEF TakeResult
<1>9. CASE TimeOut(c)
  BY <1>9 DEF TimeOut, Leave
<1>10. CASE Cancel(c)
  BY <1>10 DEF Cancel, Leave
<1> QED BY <1>1, <1>2, <1>3, <1>4, <1>5, <1>6, <1>7, <1>8, <1>9, <1>10 DEF Tool

\* A step of the process preserves it.
LEMMA ProcessInv ==
    ASSUME IInv, NEW c \in Commands, Process(c)
    PROVE  IInv'
<1> USE ShellAssumption
<1> USE DEF IInv, TypeOK, ToldOnce, KilledByOwner, NoLostWakeUp, Host, Call,
            Slot, Published, client, calls
<1>1. CASE Publish(c)
  BY <1>1 DEF Publish
<1>2. CASE Send(c)
  BY <1>2 DEF Send
<1> QED BY <1>1, <1>2 DEF Process

\* A step of the client preserves it: the race for the owner is decided where
\* it is taken, and a slot that is swept gets its notice in the same sweep.
LEMMA ClientInv ==
    ASSUME IInv,
           \/ Client \/ Close
           \/ \E c \in Commands : Pick(c) \/ Kill(c)
    PROVE  IInv'
<1> USE ShellAssumption
<1> USE DEF IInv, TypeOK, ToldOnce, KilledByOwner, NoLostWakeUp, Host, Call,
            Slot, Published, client, calls, AtRest, Idle
<1>1. CASE TakeRegistrations
  BY <1>1 DEF TakeRegistrations
<1>2. CASE Sweep
  <2>1. /\ ended' \subseteq Commands /\ noticed' \subseteq Commands
        /\ slots' \subseteq slots
    BY <1>2 DEF Sweep, Finished, Due, Excess
  <2>2. ASSUME NEW c \in Commands
        PROVE  /\ told'[c] \in Nat
               /\ told'[c] = IF c \in noticed' THEN 1 ELSE 0
               /\ c \in ended' => Published(c)' /\ owner'[c] # "foreground"
               /\ told'[c] = 1 => owner'[c] = "background" /\ Published(c)'
               /\ c \in ended' /\ owner'[c] = "background" => told'[c] = 1
    BY <1>2 DEF Sweep, Finished, Due
  <2> QED BY <1>2, <2>1, <2>2 DEF Sweep
<1>3. ASSUME NEW c \in Commands, HandOver(c) PROVE IInv'
  <2>1. supported /\ Host'
    BY <1>3 DEF HandOver
  <2>2. TypeOK'
    BY <1>3 DEF HandOver
  <2>3. ToldOnce' /\ KilledByOwner' /\ \A d \in Commands : Call(d)' /\ Slot(d)'
    BY <1>3, <2>1 DEF HandOver
  <2>4. ui # [step |-> "handed", cmd |-> c] /\ tool' = tool /\ waiter' = waiter
    BY <1>3 DEF HandOver
  <2>5. ASSUME NEW d \in Commands, d # c,
               tool[d] = "waiting" /\ owner'[d] = "background"
        PROVE  waiter[d] = "notified"
    <3>1. owner[d] = "background" /\ ui # [step |-> "handed", cmd |-> d]
      BY <1>3, <2>5 DEF HandOver
    <3> QED BY <2>5, <3>1
  <2>6. tool[c] = "waiting" /\ owner'[c] = "background" =>
          waiter[c] = "notified" \/ ui' = [step |-> "handed", cmd |-> c]
    BY <1>3, <2>4 DEF HandOver
  <2>7. NoLostWakeUp'
    BY <2>4, <2>5, <2>6
  <2> QED BY <2>1, <2>2, <2>3, <2>7
<1>4. ASSUME NEW c \in Commands, Notify(c) PROVE IInv'
  <2>1. TypeOK' /\ Host'
    BY <1>4 DEF Notify
  <2>2. NoLostWakeUp'
    BY <1>4 DEF Notify
  <2> QED BY <1>4, <2>1, <2>2 DEF Notify
<1>5. CASE Close
  <2>1. TypeOK' /\ Host'
    BY <1>5 DEF Close
  <2>2. ToldOnce' /\ KilledByOwner' /\ NoLostWakeUp'
    BY <1>5 DEF Close
  <2>3. \A c \in Commands : Call(c)' /\ Slot(c)'
    BY <1>5 DEF Close
  <2> QED BY <2>1, <2>2, <2>3
<1>6. ASSUME NEW c \in Commands, Pick(c) PROVE IInv'
  <2>1. TypeOK' /\ Host'
    BY <1>6 DEF Pick
  <2>2. NoLostWakeUp'
    BY <1>6 DEF Pick
  <2> QED BY <1>6, <2>1, <2>2 DEF Pick
<1>7. ASSUME NEW c \in Commands, Kill(c) PROVE IInv'
  BY <1>7 DEF Kill
<1> QED BY <1>1, <1>2, <1>3, <1>4, <1>5, <1>6, <1>7 DEF Client

\* The inductive invariant holds in every reachable state.
THEOREM Invariant == Spec => []IInv
<1>1. IInv /\ [Next]_vars => IInv'
  <2> SUFFICES ASSUME IInv, [Next]_vars PROVE IInv'
    OBVIOUS
  <2>1. CASE UNCHANGED vars
    BY <2>1 DEF vars, calls, client, IInv, TypeOK, ToldOnce, KilledByOwner,
       NoLostWakeUp, Host, Call, Slot, Published, Idle
  <2>2. CASE Next
    BY <2>2, ToolInv, ProcessInv, ClientInv DEF Next
  <2> QED BY <2>1, <2>2
<1> QED BY <1>1, InitInv, PTL DEF Spec

\* The variables keep their types.
THEOREM TypeCorrect == Spec => []TypeOK
<1>1. IInv => TypeOK
  BY DEF IInv
<1> QED BY <1>1, Invariant, PTL

\* The end of a command reaches the agent in one way, and once.
THEOREM EndsToldOnce == Spec => []ToldOnce
<1>1. IInv => ToldOnce
  BY DEF IInv
<1> QED BY <1>1, Invariant, PTL

\* A call that is left kills its command if and only if it still owns it.
THEOREM OnlyOwnerKills == Spec => []KilledByOwner
<1>1. IInv => KilledByOwner
  BY DEF IInv
<1> QED BY <1>1, Invariant, PTL

\* No hand-over falls between the tool's look at the owner and its sleep.
THEOREM WakeUpNotLost == Spec => []NoLostWakeUp
<1>1. IInv => NoLostWakeUp
  BY DEF IInv
<1> QED BY <1>1, Invariant, PTL
=============================================================================
