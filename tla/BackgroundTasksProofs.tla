------------------------ MODULE BackgroundTasksProofs ------------------------
(***************************************************************************)
(* BackgroundTasks for every set of tasks: a result is in one place at a   *)
(* time on its way to the model, so it is read at most once, and what a    *)
(* stopped task leaves behind is never read.                               *)
(***************************************************************************)
EXTENDS BackgroundTasks, TLAPS

\* What a sequence holds, and how.
Has(s, e)     == \E i \in 1..Len(s) : s[i] = e
Once(s, e)    == \A i, j \in 1..Len(s) : s[i] = e /\ s[j] = e => i = j
Led(s, e, by) == \A i \in 1..Len(s) : s[i] = e => \E j \in 1..(i - 1) : s[j] = by

\* The two events of a task that has ended, and where its result may be.
Stopped(t)   == Event("stopped", t)
Completed(t) == Event("completed", t)

OnLane(t)   == \E l \in Lanes : Has(lanes[l], Completed(t))
OnClient(t) == Has(client, Completed(t))
Held(t)     == t \in buffered \/ t \in continuation
OnServer(t) == \E i \in 1..Len(server) : t \in server[i]
OnePrompt(t) ==
    \A i, j \in 1..Len(server) : t \in server[i] /\ t \in server[j] => i = j

\* What holds of the control of executions and launches.
Control ==
    /\ exec # "idle" => lanes # <<>>
    /\ exec \in {"idle", "closing"} => inbox = {}
    /\ \A t \in Tasks : stage[t] # "idle" => lane[t] # 0
    /\ queued <= texts

\* Only a task that ended by itself is noticed.
Noticed ==
    \A t \in inbox \cup notices :
        /\ stage[t] \in {"completed", "reporting", "gone"}
        /\ status[t] \in {"completed", "failed"}
        /\ injected[t] = 0

\* A result is in one place at a time: on the lane of its prompt, in the
\* client's channel, held by the client, with a prompt or in the history.
OnePlace(t) ==
    /\ OnLane(t) => ~OnClient(t) /\ ~Held(t) /\ ~OnServer(t) /\ injected[t] = 0
    /\ OnClient(t) => ~Held(t) /\ ~OnServer(t) /\ injected[t] = 0
    /\ Held(t) => ~OnServer(t) /\ injected[t] = 0
    /\ t \in buffered => t \notin continuation
    /\ OnServer(t) => injected[t] = 0
    /\ injected[t] \in {0, 1}
    /\ OnLane(t) \/ OnClient(t) \/ Held(t) \/ OnServer(t) \/ injected[t] = 1
         => stage[t] = "gone"
    /\ \A l \in Lanes :
         /\ Has(lanes[l], Completed(t)) => l = lane[t]
         /\ Once(lanes[l], Completed(t))
    /\ Once(client, Completed(t))
    /\ OnePrompt(t)

\* The client learns that a task was stopped before it gets its result.
Warned(t) ==
    status[t] = "stopped" =>
        /\ \A l \in Lanes : Has(lanes[l], Completed(t)) =>
             \/ t \in stoppedRows
             \/ Has(client, Stopped(t))
             \/ Led(lanes[l], Completed(t), Stopped(t))
        /\ OnClient(t) => \/ t \in stoppedRows
                          \/ Led(client, Completed(t), Stopped(t))
        /\ stage[t] = "reporting" => \/ t \in stoppedRows
                                     \/ Has(client, Stopped(t))
                                     \/ Has(lanes[lane[t]], Stopped(t))
        /\ ~Held(t) /\ ~OnServer(t) /\ injected[t] = 0

Route(t) == OnePlace(t) /\ Warned(t)

IInv ==
    /\ TypeOK /\ Control /\ Noticed
    /\ \A t \in Tasks : Route(t)
-----------------------------------------------------------------------------
\* A sequence grows at its end.
LEMMA Grown ==
    ASSUME NEW S, NEW s \in Seq(S), NEW e \in S
    PROVE  /\ Append(s, e) \in Seq(S)
           /\ \A x : Has(Append(s, e), x) <=> Has(s, x) \/ x = e
           /\ \A x : Once(s, x) /\ (x = e => ~Has(s, x)) => Once(Append(s, e), x)
           /\ \A x, y : Led(s, x, y) /\ (x = e => Has(s, y)) => Led(Append(s, e), x, y)
<1> DEFINE T == Append(s, e)
           n == Len(s)
<1>1. /\ T \in Seq(S) /\ n \in Nat /\ Len(T) = n + 1 /\ T[n + 1] = e
      /\ \A i \in 1..n : T[i] = s[i]
  OBVIOUS
<1> HIDE DEF T
<1>2. 1..(n + 1) = 1..n \cup {n + 1}
  BY <1>1
<1>3. \A x : Has(T, x) <=> Has(s, x) \/ x = e
  BY <1>1, <1>2 DEF Has
<1>4. ASSUME NEW x, Once(s, x), x = e => ~Has(s, x) PROVE Once(T, x)
  <2> SUFFICES ASSUME NEW i \in 1..(n + 1), NEW j \in 1..(n + 1),
                      T[i] = x, T[j] = x
               PROVE  i = j
    BY <1>1 DEF Once
  <2> QED BY <1>1, <1>2, <1>4 DEF Once, Has
<1>5. ASSUME NEW x, NEW y, Led(s, x, y), x = e => Has(s, y) PROVE Led(T, x, y)
  <2> SUFFICES ASSUME NEW i \in 1..(n + 1), T[i] = x
               PROVE  \E j \in 1..(i - 1) : T[j] = y
    BY <1>1 DEF Led
  <2>1. CASE i \in 1..n
    <3>1. PICK j \in 1..(i - 1) : s[j] = y
      BY <1>1, <1>5, <2>1 DEF Led
    <3> QED BY <1>1, <2>1, <3>1
  <2>2. CASE i = n + 1
    <3>1. PICK j \in 1..n : s[j] = y
      BY <1>1, <1>5, <2>2 DEF Has
    <3> QED BY <1>1, <2>2, <3>1
  <2> QED BY <1>2, <2>1, <2>2
<1> QED BY <1>1, <1>3, <1>4, <1>5 DEF T

\* A sequence loses its head.
LEMMA Shrunk ==
    ASSUME NEW S, NEW s \in Seq(S), s # <<>>
    PROVE  /\ Tail(s) \in Seq(S) /\ Head(s) \in S
           /\ \A x : Has(s, x) <=> Has(Tail(s), x) \/ x = Head(s)
           /\ \A x : Once(s, x) => /\ Once(Tail(s), x)
                                   /\ x = Head(s) => ~Has(Tail(s), x)
           /\ \A x, y : Led(s, x, y) => x # Head(s)
           /\ \A x, y : Led(s, x, y) /\ y # Head(s) => Led(Tail(s), x, y)
<1> DEFINE T == Tail(s)
           n == Len(s)
           h == Head(s)
<1>1. /\ T \in Seq(S) /\ n \in Nat \ {0} /\ Len(T) = n - 1 /\ s[1] = h /\ h \in S
      /\ \A i \in 1..(n - 1) : T[i] = s[i + 1]
  OBVIOUS
<1> HIDE DEF T, h
<1>2. \A i \in 1..n : i = 1 \/ (i - 1 \in 1..(n - 1) /\ T[i - 1] = s[i])
  <2> TAKE i \in 1..n
  <2>1. CASE i # 1
    <3>1. i - 1 \in 1..(n - 1) /\ (i - 1) + 1 = i
      BY <1>1, <2>1
    <3> QED BY <1>1, <3>1
  <2> QED BY <2>1
<1>3. \A i \in 1..(n - 1) : i + 1 \in 1..n /\ i + 1 # 1
  BY <1>1
<1>4. \A x : Has(s, x) <=> Has(T, x) \/ x = h
  <2> TAKE x
  <2>1. Has(s, x) => Has(T, x) \/ x = h
    BY <1>1, <1>2 DEF Has
  <2>2. Has(T, x) => Has(s, x)
    BY <1>1, <1>3 DEF Has
  <2>3. x = h => Has(s, x)
    <3>1. 1 \in 1..n
      BY <1>1
    <3> QED BY <1>1, <3>1 DEF Has
  <2> QED BY <2>1, <2>2, <2>3
<1>5. ASSUME NEW x, Once(s, x) PROVE Once(T, x) /\ (x = h => ~Has(T, x))
  <2>1. Once(T, x)
    <3> SUFFICES ASSUME NEW i \in 1..(n - 1), NEW j \in 1..(n - 1),
                        T[i] = x, T[j] = x
                 PROVE  i = j
      BY <1>1 DEF Once
    <3>1. i + 1 = j + 1
      BY <1>1, <1>3, <1>5 DEF Once
    <3> QED BY <3>1
  <2>2. ASSUME x = h, NEW i \in 1..(n - 1), T[i] = x PROVE FALSE
    <3>1. 1 \in 1..n
      BY <1>1
    <3>2. i + 1 = 1
      BY <1>1, <1>3, <1>5, <2>2, <3>1 DEF Once
    <3> QED BY <1>3, <3>2
  <2> QED BY <1>1, <2>1, <2>2 DEF Has
<1>6. ASSUME NEW x, NEW y, Led(s, x, y) PROVE x # h
  <2>1. 1 \in 1..n /\ 1..(1 - 1) = {}
    BY <1>1
  <2> QED BY <1>1, <1>6, <2>1 DEF Led
<1>7. ASSUME NEW x, NEW y, Led(s, x, y), y # h PROVE Led(T, x, y)
  <2> SUFFICES ASSUME NEW i \in 1..(n - 1), T[i] = x
               PROVE  \E j \in 1..(i - 1) : T[j] = y
    BY <1>1 DEF Led
  <2>1. PICK j \in 1..((i + 1) - 1) : s[j] = y
    BY <1>1, <1>3, <1>7 DEF Led
  <2>2. j # 1 /\ j \in 1..n
    BY <1>1, <1>7, <2>1
  <2>3. j - 1 \in 1..(i - 1) /\ T[j - 1] = y
    BY <1>1, <1>2, <2>1, <2>2
  <2> QED BY <2>3
<1> QED BY <1>1, <1>4, <1>5, <1>6, <1>7 DEF T, h

\* Events are told apart by their kind and their task.
LEMMA EventsDiffer ==
    /\ \A k \in {"started", "stopped", "completed"}, t \in Tasks :
         /\ Event(k, t) \in TaskEvents
         /\ Event(k, t).kind = k /\ Event(k, t).task = t
    /\ \A e \in TaskEvents :
         /\ e.task \in Tasks /\ e.kind \in {"started", "stopped", "completed"}
         /\ e = Event(e.kind, e.task)
    /\ Done.kind = "done" /\ Error.kind = "error"
BY DEF Event, TaskEvents, Done, Error
-----------------------------------------------------------------------------
\* What the type invariant says of each variable.
LEMMA Typed ==
    TypeOK <=>
        /\ stage \in [Tasks -> Stages]
        /\ ending \in [Tasks -> Endings \cup {"none", "interrupted"}]
        /\ slots \subseteq Tasks /\ token \subseteq Tasks
        /\ inbox \subseteq Tasks /\ notices \subseteq Tasks
        /\ active \subseteq Tasks /\ stoppedRows \subseteq Tasks
        /\ buffered \subseteq Tasks /\ continuation \subseteq Tasks
        /\ status \in [Tasks -> {"none", "running", "completed", "failed", "stopped"}]
        /\ lane \in [Tasks -> 0..Len(lanes)]
        /\ lanes \in Seq(Seq(TaskEvents))
        /\ client \in Seq(TaskEvents \cup {Done, Error})
        /\ server \in Seq(SUBSET Tasks)
        /\ exec \in {"idle", "running", "answered", "closing"}
        /\ injected \in [Tasks -> Nat]
        /\ loading \in BOOLEAN /\ donePending \in BOOLEAN
        /\ queued \in 0..MaxTexts /\ texts \in 0..MaxTexts
BY DEF TypeOK

\* An event put on a lane, or taken from one.
LEMMA OneLane ==
    ASSUME NEW ls \in Seq(Seq(TaskEvents)), NEW l \in 1..Len(ls),
           NEW s \in Seq(TaskEvents)
    PROVE  LET new == [ls EXCEPT ![l] = s]
           IN  /\ new \in Seq(Seq(TaskEvents)) /\ Len(new) = Len(ls)
               /\ new[l] = s
               /\ \A m \in 1..Len(ls) : m # l => new[m] = ls[m]
OBVIOUS
\* Types and control, step by step.
LEMMA StepType == TypeOK /\ Control /\ [Next]_vars => TypeOK' /\ Control'
<1> SUFFICES ASSUME TypeOK, Control, [Next]_vars PROVE TypeOK' /\ Control'
  OBVIOUS
<1> USE TaskAssumption
<1>0. /\ lanes \in Seq(Seq(TaskEvents)) /\ server \in Seq(SUBSET Tasks)
      /\ client \in Seq(TaskEvents \cup {Done, Error})
      /\ stage \in [Tasks -> Stages] /\ Len(lanes) \in Nat
      /\ lane \in [Tasks -> 0..Len(lanes)]
  BY DEF TypeOK
\* What a step that touches neither channels nor the client's texts owes.
<1>1. ASSUME UNCHANGED <<lane, lanes, client, server, tui>>,
             stage' \in [Tasks -> Stages],
             \A t \in Tasks : stage'[t] # "idle" => stage[t] # "idle",
             ending' \in [Tasks -> Endings \cup {"none", "interrupted"}],
             slots' \subseteq Tasks, token' \subseteq Tasks,
             inbox' \subseteq Tasks, notices' \subseteq Tasks,
             status' \in [Tasks -> {"none", "running", "completed", "failed", "stopped"}],
             exec' \in {"idle", "running", "answered", "closing"},
             exec' # "idle" => exec # "idle",
             exec' \in {"idle", "closing"} => inbox' = {},
             injected' \in [Tasks -> Nat]
      PROVE  TypeOK' /\ Control'
  <2>1. TypeOK'
    BY <1>1 DEF TypeOK, tui, waiting
  <2>2. Control'
    BY <1>1 DEF Control, tui, waiting
  <2> QED BY <2>1, <2>2
<1>2. ASSUME NEW t \in Tasks, OpenGate(t) PROVE TypeOK' /\ Control'
  BY <1>0, <1>1, <1>2
  DEF OpenGate, Stages, registry, channels, history, TypeOK, Control
<1>3. ASSUME NEW t \in Tasks, Finish(t) PROVE TypeOK' /\ Control'
  <2>1. PICK e \in Endings \cup {"interrupted"} :
          /\ ending' = [ending EXCEPT ![t] = e]
          /\ token' = IF e = "timeout" THEN token \cup {t} ELSE token
    BY <1>3 DEF Finish
  <2> QED BY <1>0, <1>1, <1>3, <2>1
      DEF Finish, Stages, channels, history, TypeOK, Control
<1>4. ASSUME NEW t \in Tasks, Complete(t) PROVE TypeOK' /\ Control'
  <2>1. Notified(t) \subseteq Tasks /\ (exec \in {"idle", "closing"} => Notified(t) = {})
    BY DEF Notified
  <2>2. PICK v \in {"completed", "failed", "stopped"} :
          status' = [status EXCEPT ![t] = v]
    BY <1>4 DEF Complete
  <2> QED BY <1>0, <1>1, <1>4, <2>1, <2>2
      DEF Complete, Stages, channels, history, TypeOK, Control
<1>5. ASSUME NEW t \in Tasks, Stop(t) PROVE TypeOK' /\ Control'
  BY <1>0, <1>1, <1>5 DEF Stop, task, channels, history, TypeOK, Control
\* A step that writes one lane.
<1>6. ASSUME NEW l \in Lanes, NEW s \in Seq(TaskEvents),
             lanes' = [lanes EXCEPT ![l] = s],
             client' \in Seq(TaskEvents \cup {Done, Error}),
             stage' \in [Tasks -> Stages], lane' \in [Tasks -> 0..Len(lanes)],
             \A t \in Tasks : stage'[t] # "idle" => lane'[t] # 0,
             slots' \subseteq Tasks,
             status' \in [Tasks -> {"none", "running", "completed", "failed", "stopped"}],
             UNCHANGED <<ending, token, exec, inbox, history, server, tui>>
      PROVE  TypeOK' /\ Control'
  <2>1. /\ lanes' \in Seq(Seq(TaskEvents)) /\ Len(lanes') = Len(lanes)
        /\ lanes' # <<>>
    BY <1>0, <1>6, OneLane DEF Lanes
  <2>2. TypeOK'
    BY <1>0, <1>6, <2>1 DEF TypeOK, tui, waiting, history
  <2>3. Control'
    BY <1>0, <1>6, <2>1 DEF Control, tui, waiting, history
  <2> QED BY <2>2, <2>3
<1>7. ASSUME NEW t \in Tasks, Launch(t) PROVE TypeOK' /\ Control'
  <2>1. lanes # <<>> /\ Len(lanes) \in Lanes /\ Len(lanes) # 0
    BY <1>0, <1>7 DEF Launch, Control, Lanes
  <2>2. Append(lanes[Len(lanes)], Event("started", t)) \in Seq(TaskEvents)
    BY <1>0, <2>1, EventsDiffer DEF Lanes
  <2>3. /\ stage' \in [Tasks -> Stages] /\ lane' \in [Tasks -> 0..Len(lanes)]
        /\ \A u \in Tasks : stage'[u] # "idle" => lane'[u] # 0
    BY <1>0, <1>7, <2>1 DEF Launch, Stages, Control
  <2>4. /\ slots' \subseteq Tasks /\ client' = client
        /\ status' \in [Tasks -> {"none", "running", "completed", "failed", "stopped"}]
        /\ UNCHANGED <<ending, token, exec, inbox, history, server, tui>>
        /\ lanes' = [lanes EXCEPT ![Len(lanes)] =
                       Append(lanes[Len(lanes)], Event("started", t))]
    BY <1>7 DEF Launch, TypeOK
  <2> QED BY <1>0, <1>6, <2>1, <2>2, <2>3, <2>4
<1>8. ASSUME NEW t \in Tasks, ReportStopped(t) \/ ReportCompleted(t)
      PROVE  TypeOK' /\ Control'
  <2>1. PICK from \in {"completed", "reporting"}, to \in {"reporting", "gone"},
             kind \in {"stopped", "completed"} : Send(t, from, to, kind)
    BY <1>8 DEF ReportStopped, ReportCompleted
  <2>2. lane[t] \in Lanes
    BY <1>0, <2>1 DEF Send, Control, Lanes
  <2>3. Append(lanes[lane[t]], Event(kind, t)) \in Seq(TaskEvents)
    BY <1>0, <2>2, EventsDiffer DEF Lanes
  <2>4. /\ stage' \in [Tasks -> Stages]
        /\ \A u \in Tasks : stage'[u] # "idle" => lane'[u] # 0
    BY <1>0, <2>1 DEF Send, Stages, Control
  <2>5. /\ slots' \subseteq Tasks /\ client' = client /\ lane' = lane
        /\ status' \in [Tasks -> {"none", "running", "completed", "failed", "stopped"}]
        /\ UNCHANGED <<ending, token, exec, inbox, history, server, tui>>
        /\ lanes' = [lanes EXCEPT ![lane[t]] =
                       Append(lanes[lane[t]], Event(kind, t))]
    BY <2>1 DEF Send, registry, TypeOK
  <2> QED BY <1>0, <1>6, <2>2, <2>3, <2>4, <2>5
<1>9. ASSUME NEW l \in Lanes, Forward(l) PROVE TypeOK' /\ Control'
  <2>1. lanes[l] \in Seq(TaskEvents) /\ lanes[l] # <<>>
    BY <1>0, <1>9 DEF Forward, Lanes
  <2>2. Tail(lanes[l]) \in Seq(TaskEvents) /\ Head(lanes[l]) \in TaskEvents
    BY <2>1
  <2>3. client' \in Seq(TaskEvents \cup {Done, Error})
    BY <1>0, <1>9, <2>2 DEF Forward
  <2>4. /\ lanes' = [lanes EXCEPT ![l] = Tail(lanes[l])]
        /\ UNCHANGED <<ending, token, exec, inbox, history, server, tui, stage,
                       lane, slots, status>>
    BY <1>9 DEF Forward, task, registry
  <2>5. /\ slots' \subseteq Tasks /\ stage' \in [Tasks -> Stages]
        /\ status' \in [Tasks -> {"none", "running", "completed", "failed", "stopped"}]
        /\ lane' \in [Tasks -> 0..Len(lanes)]
        /\ \A u \in Tasks : stage'[u] # "idle" => lane'[u] # 0
    BY <1>0, <2>4 DEF TypeOK, Control
  <2> QED BY <1>6, <2>2, <2>3, <2>4, <2>5
<1>10. CASE BeginPrompt
  <2>1. /\ lanes' \in Seq(Seq(TaskEvents)) /\ Len(lanes') = Len(lanes) + 1
        /\ server' \in Seq(SUBSET Tasks)
    <3>1. <<>> \in Seq(TaskEvents)
      OBVIOUS
    <3> QED BY <1>0, <1>10, <3>1 DEF BeginPrompt
  <2>2. injected' \in [Tasks -> Nat]
    BY <1>10 DEF BeginPrompt, TypeOK
  <2>3. lane' \in [Tasks -> 0..Len(lanes')]
    BY <1>0, <1>10, <2>1 DEF BeginPrompt, task
  <2>4. TypeOK'
    BY <1>0, <1>10, <2>1, <2>2, <2>3
    DEF BeginPrompt, TypeOK, task, registry, tui, waiting
  <2>5. Control'
    BY <1>0, <1>10, <2>1 DEF BeginPrompt, Control, task, tui, waiting
  <2> QED BY <2>4, <2>5
<1>11. CASE FinalDrain \/ DrainAfterTools
  <2>1. PICK next \in {"running", "answered"} : Drain(next)
    BY <1>11 DEF FinalDrain, DrainAfterTools
  <2> QED BY <1>0, <1>1, <2>1 DEF Drain, task, registry, channels, TypeOK, Control
\* A return, with or without a last event.
<1>12. ASSUME NEW to \in {"idle", "closing"}, NEW events, Return(to, events),
              events \in Seq({Done, Error}), exec # "idle",
              stage' \in [Tasks -> Stages],
              \A t \in Tasks : stage'[t] # "idle" => stage[t] # "idle"
       PROVE  TypeOK' /\ Control'
  <2>1. client' \in Seq(TaskEvents \cup {Done, Error})
    <3>1. events \in Seq(TaskEvents \cup {Done, Error})
      BY <1>12
    <3> QED BY <1>0, <1>12, <3>1 DEF Return
  <2>2. TypeOK'
    BY <1>0, <1>12, <2>1 DEF Return, TypeOK, registry, history, tui, waiting
  <2>3. Control'
    BY <1>0, <1>12 DEF Return, Control, registry, history, tui, waiting
  <2> QED BY <2>2, <2>3
<1>13. CASE Answer \/ PushDone \/ Fail \/ Interrupt
  <2>1. PICK to \in {"idle", "closing"}, events \in {<<>>, <<Done>>, <<Error>>} :
          Return(to, events)
    BY <1>13 DEF Answer, PushDone, Fail, Interrupt
  <2>2. /\ exec # "idle" /\ stage' \in [Tasks -> Stages]
        /\ \A t \in Tasks : stage'[t] # "idle" => stage[t] # "idle"
    BY <1>0, <1>13 DEF Answer, PushDone, Fail, Interrupt, Stages
  <2>3. events \in Seq({Done, Error})
    <3>1. <<>> \in Seq({Done, Error})
      OBVIOUS
    <3>2. \A e \in {Done, Error} : <<e>> \in Seq({Done, Error})
      OBVIOUS
    <3> QED BY <2>1, <3>1, <3>2
  <2> QED BY <1>12, <2>1, <2>2, <2>3
\* A step of the client.
<1>14. ASSUME client' \in Seq(TaskEvents \cup {Done, Error}),
              server' \in Seq(SUBSET Tasks),
              active' \subseteq Tasks, stoppedRows' \subseteq Tasks,
              loading' \in BOOLEAN, donePending' \in BOOLEAN,
              buffered' \subseteq Tasks, continuation' \subseteq Tasks,
              queued' \in Nat, texts' \in 0..MaxTexts, queued' <= texts',
              UNCHANGED <<task, registry, lanes, exec, inbox, history>>
       PROVE  TypeOK' /\ Control'
  <2>1. queued' \in 0..MaxTexts
    BY <1>14
  <2>2. TypeOK'
    BY <1>14, <2>1 DEF TypeOK, task, registry, history
  <2>3. Control'
    BY <1>14 DEF Control, task, registry, history
  <2> QED BY <2>2, <2>3
<1>15. /\ queued \in Nat /\ texts \in 0..MaxTexts /\ queued <= texts
       /\ Append(server, {}) \in Seq(SUBSET Tasks)
       /\ active \subseteq Tasks /\ stoppedRows \subseteq Tasks
       /\ buffered \subseteq Tasks /\ continuation \subseteq Tasks
       /\ loading \in BOOLEAN /\ donePending \in BOOLEAN
  BY <1>0 DEF TypeOK, Control
<1>16. ASSUME NEW kind, Receive(kind)
       PROVE  /\ client' \in Seq(TaskEvents \cup {Done, Error})
              /\ kind \in {"started", "stopped", "completed"} =>
                   Head(client).task \in Tasks
              /\ UNCHANGED <<task, registry, lanes, exec, inbox, history, texts>>
  <2>1. /\ client # <<>> /\ client' = Tail(client) /\ Head(client).kind = kind
        /\ UNCHANGED <<task, registry, lanes, exec, inbox, history, texts>>
    BY <1>16 DEF Receive
  <2>2. Head(client) \in TaskEvents \cup {Done, Error}
    BY <1>0, <2>1
  <2>3. kind \in {"started", "stopped", "completed"} => Head(client).task \in Tasks
    BY <2>1, <2>2, EventsDiffer
  <2> QED BY <1>0, <2>1, <2>3
<1>17. CASE TakeContinuation
  <2>1. Append(server, continuation) \in Seq(SUBSET Tasks)
    BY <1>0, <1>15
  <2> QED BY <1>0, <1>14, <1>15, <1>17, <2>1 DEF TakeContinuation, channels
<1>18. CASE OnStarted
  BY <1>0, <1>14, <1>15, <1>16, <1>18 DEF OnStarted, waiting
<1>19. CASE OnStopped
  BY <1>0, <1>14, <1>15, <1>16, <1>19 DEF OnStopped, waiting
<1>20. CASE OnCompleted
  <2>1. buffered' \subseteq Tasks /\ continuation' \subseteq Tasks
        /\ donePending' \in BOOLEAN
    BY <1>15, <1>16, <1>20 DEF OnCompleted
  <2> QED BY <1>0, <1>14, <1>15, <1>16, <1>20, <2>1 DEF OnCompleted
<1>21. CASE OnDone \/ OnError
  <2>1. PICK kind \in {"done", "error"} : OnEnd(kind)
    BY <1>21 DEF OnDone, OnError
  <2>2. CASE queued = 0
    BY <1>0, <1>14, <1>15, <1>16, <2>1, <2>2 DEF OnEnd, Conclude
  <2>3. CASE queued # 0
    <3>1. queued - 1 \in Nat /\ queued - 1 <= texts
      BY <1>15, <2>3
    <3> QED BY <1>0, <1>14, <1>15, <1>16, <2>1, <2>3, <3>1 DEF OnEnd, SubmitText
  <2> QED BY <2>2, <2>3
<1>22. CASE Submit
  <2>1. texts' \in 0..MaxTexts /\ texts' = texts + 1
    BY <1>15, <1>22 DEF Submit
  <2>2. CASE loading
    BY <1>0, <1>14, <1>15, <1>22, <2>1, <2>2 DEF Submit, channels, waiting
  <2>3. CASE ~loading
    <3>1. /\ server' = Append(server, {}) /\ loading' = TRUE
          /\ donePending' = FALSE /\ buffered' = {} /\ continuation' = {}
          /\ UNCHANGED <<queued, active, stoppedRows, client, task, registry,
                         lanes, exec, inbox, history>>
      BY <1>22, <2>3 DEF Submit, SubmitText, channels
    <3>2. queued' \in Nat /\ queued' <= texts'
      BY <1>15, <2>1, <3>1
    <3> QED BY <1>0, <1>14, <1>15, <2>1, <3>1, <3>2
  <2> QED BY <2>2, <2>3
<1>23. CASE UNCHANGED vars
  BY <1>23 DEF vars, task, registry, channels, history, waiting, tui, TypeOK, Control
<1> QED
  BY <1>2, <1>3, <1>4, <1>5, <1>7, <1>8, <1>9, <1>10, <1>11, <1>13, <1>17,
     <1>18, <1>19, <1>20, <1>21, <1>22, <1>23 DEF Next, Task, Server, Client
-----------------------------------------------------------------------------
\* A step that moves no event and no result.
LEMMA StayRoute ==
    ASSUME NEW t \in Tasks, Route(t),
           UNCHANGED <<lanes, client, server, buffered, continuation>>,
           injected'[t] = injected[t],
           t \in stoppedRows => t \in stoppedRows',
           stage[t] # "idle" => lane'[t] = lane[t],
           stage[t] = "gone" => stage'[t] = "gone",
           stage'[t] = "reporting" => stage[t] = "reporting",
           status'[t] = "stopped" =>
             status[t] = "stopped" \/ (stage[t] # "gone" /\ stage'[t] # "reporting")
    PROVE  Route(t)'
<1>1. /\ Lanes' = Lanes /\ OnLane(t)' = OnLane(t) /\ OnClient(t)' = OnClient(t)
      /\ Held(t)' = Held(t) /\ OnServer(t)' = OnServer(t)
      /\ OnePrompt(t)' = OnePrompt(t)
  BY DEF Lanes, OnLane, OnClient, Held, OnServer, OnePrompt
<1>2. \A l \in Lanes : Has(lanes[l], Completed(t)) => OnLane(t)
  BY DEF OnLane
<1>3. OnePlace(t)'
  BY <1>1, <1>2 DEF Route, OnePlace
<1>4. Warned(t)'
  BY <1>1, <1>2 DEF Route, OnePlace, Warned
<1> QED BY <1>3, <1>4 DEF Route

\* What the lanes hold after an event was put on one.
LEMMA LaneGrown ==
    ASSUME TypeOK, NEW l \in Lanes, NEW e \in TaskEvents,
           lanes' = [lanes EXCEPT ![l] = Append(lanes[l], e)]
    PROVE  /\ Lanes' = Lanes
           /\ \A m \in Lanes : \A x :
                /\ Has(lanes'[m], x) <=> Has(lanes[m], x) \/ (m = l /\ x = e)
                /\ Once(lanes[m], x) /\ (m = l /\ x = e => ~Has(lanes[m], x))
                     => Once(lanes'[m], x)
           /\ \A m \in Lanes : \A x, y :
                Led(lanes[m], x, y) /\ (m = l /\ x = e => Has(lanes[m], y))
                  => Led(lanes'[m], x, y)
<1>1. lanes \in Seq(Seq(TaskEvents)) /\ lanes[l] \in Seq(TaskEvents)
  BY DEF TypeOK, Lanes
<1>2. Append(lanes[l], e) \in Seq(TaskEvents)
  BY <1>1
<1>3. /\ Len(lanes') = Len(lanes) /\ lanes'[l] = Append(lanes[l], e)
      /\ \A m \in Lanes : m # l => lanes'[m] = lanes[m]
  BY <1>1, <1>2, OneLane DEF Lanes
<1> QED BY <1>1, <1>3, Grown DEF Lanes

\* And after the first event of one was taken.
LEMMA LaneShrunk ==
    ASSUME TypeOK, NEW l \in Lanes, lanes[l] # <<>>,
           lanes' = [lanes EXCEPT ![l] = Tail(lanes[l])]
    PROVE  /\ Lanes' = Lanes
           /\ Head(lanes[l]) \in TaskEvents
           /\ \A m \in Lanes : \A x :
                /\ m # l => (Has(lanes'[m], x) <=> Has(lanes[m], x))
                /\ Has(lanes[l], x) <=> Has(lanes'[l], x) \/ x = Head(lanes[l])
                /\ Once(lanes[m], x) => Once(lanes'[m], x)
                /\ Once(lanes[l], x) /\ x = Head(lanes[l]) => ~Has(lanes'[l], x)
           /\ \A x, y :
                /\ \A m \in Lanes : m # l /\ Led(lanes[m], x, y) => Led(lanes'[m], x, y)
                /\ Led(lanes[l], x, y) => x # Head(lanes[l])
                /\ Led(lanes[l], x, y) /\ y # Head(lanes[l]) => Led(lanes'[l], x, y)
<1>1. lanes \in Seq(Seq(TaskEvents)) /\ lanes[l] \in Seq(TaskEvents)
  BY DEF TypeOK, Lanes
<1>2. Tail(lanes[l]) \in Seq(TaskEvents)
  BY <1>1
<1>3. /\ Len(lanes') = Len(lanes) /\ lanes'[l] = Tail(lanes[l])
      /\ \A m \in Lanes : m # l => lanes'[m] = lanes[m]
  BY <1>1, <1>2, OneLane DEF Lanes
<1>4. /\ Head(lanes[l]) \in TaskEvents
      /\ \A x : Has(lanes[l], x) <=> Has(lanes'[l], x) \/ x = Head(lanes[l])
      /\ \A x : Once(lanes[l], x) => /\ Once(lanes'[l], x)
                                     /\ x = Head(lanes[l]) => ~Has(lanes'[l], x)
      /\ \A x, y : Led(lanes[l], x, y) => x # Head(lanes[l])
      /\ \A x, y : Led(lanes[l], x, y) /\ y # Head(lanes[l]) => Led(lanes'[l], x, y)
  BY <1>1, <1>3, Shrunk
<1>5. Lanes' = Lanes
  BY <1>3 DEF Lanes
<1>6. \A m \in Lanes : \A x :
        /\ m # l => (Has(lanes'[m], x) <=> Has(lanes[m], x))
        /\ Once(lanes[m], x) => Once(lanes'[m], x)
  BY <1>3, <1>4
<1>7. \A x, y, m \in Lanes : m # l /\ Led(lanes[m], x, y) => Led(lanes'[m], x, y)
  BY <1>3
<1> QED BY <1>4, <1>5, <1>6, <1>7

\* The client's channel, as it grows and shrinks.
LEMMA ClientGrown ==
    ASSUME TypeOK, NEW e \in TaskEvents \cup {Done, Error}, client' = Append(client, e)
    PROVE  /\ \A x : Has(client', x) <=> Has(client, x) \/ x = e
           /\ \A x : Once(client, x) /\ (x = e => ~Has(client, x)) => Once(client', x)
           /\ \A x, y : Led(client, x, y) /\ (x = e => Has(client, y))
                          => Led(client', x, y)
<1> DEFINE S == TaskEvents \cup {Done, Error}
<1>1. client \in Seq(S) /\ e \in S
  BY DEF TypeOK
<1> HIDE DEF S
<1> QED BY <1>1, Grown

LEMMA ClientShrunk ==
    ASSUME TypeOK, client # <<>>, client' = Tail(client)
    PROVE  /\ Head(client) \in TaskEvents \cup {Done, Error}
           /\ \A x : Has(client, x) <=> Has(client', x) \/ x = Head(client)
           /\ \A x : Once(client, x) => /\ Once(client', x)
                                        /\ x = Head(client) => ~Has(client', x)
           /\ \A x, y : Led(client, x, y) => x # Head(client)
           /\ \A x, y : Led(client, x, y) /\ y # Head(client) => Led(client', x, y)
BY Shrunk DEF TypeOK
-----------------------------------------------------------------------------
\* An event other than a result is put on a lane.
LEMMA EventRoute ==
    ASSUME TypeOK, NEW t \in Tasks, Route(t), NEW l \in Lanes,
           NEW e \in TaskEvents, e # Completed(t),
           lanes' = [lanes EXCEPT ![l] = Append(lanes[l], e)],
           UNCHANGED <<client, server, tui, history>>,
           stage[t] # "idle" => lane'[t] = lane[t],
           stage[t] = "gone" => stage'[t] = "gone",
           stage'[t] = "reporting" =>
             stage[t] = "reporting" \/ (e = Stopped(t) /\ l = lane'[t]),
           stage[t] # "idle" => lane[t] \in Lanes,
           status'[t] = "stopped" => status[t] = "stopped"
    PROVE  Route(t)'
<1> DEFINE C == Completed(t)
           S == Stopped(t)
<1>1. /\ Lanes' = Lanes
      /\ \A m \in Lanes : /\ Has(lanes'[m], C) <=> Has(lanes[m], C)
                          /\ Has(lanes[m], S) => Has(lanes'[m], S)
                          /\ m = l /\ e = S => Has(lanes'[m], S)
                          /\ Once(lanes[m], C) => Once(lanes'[m], C)
                          /\ Led(lanes[m], C, S) => Led(lanes'[m], C, S)
  <2>1. /\ Lanes' = Lanes
        /\ \A m \in Lanes : \A x :
             /\ Has(lanes'[m], x) <=> Has(lanes[m], x) \/ (m = l /\ x = e)
             /\ Once(lanes[m], x) /\ (m = l /\ x = e => ~Has(lanes[m], x))
                  => Once(lanes'[m], x)
        /\ \A m \in Lanes : \A x, y :
             Led(lanes[m], x, y) /\ (m = l /\ x = e => Has(lanes[m], y))
               => Led(lanes'[m], x, y)
    BY LaneGrown
  <2>2. C # e
    OBVIOUS
  <2> HIDE DEF C, S
  <2> QED BY ONLY <2>1, <2>2
<1>2. /\ OnLane(t)' = OnLane(t) /\ OnClient(t)' = OnClient(t)
      /\ Held(t)' = Held(t) /\ OnServer(t)' = OnServer(t)
      /\ OnePrompt(t)' = OnePrompt(t)
      /\ injected'[t] = injected[t] /\ stoppedRows' = stoppedRows
      /\ UNCHANGED <<buffered, continuation>>
  BY <1>1 DEF OnLane, OnClient, Held, OnServer, OnePrompt, tui, waiting, history
<1>3. \A m \in Lanes : Has(lanes[m], C) => OnLane(t)
  BY DEF OnLane
<1>4. OnePlace(t)'
  BY <1>1, <1>2, <1>3 DEF Route, OnePlace
<1>5. Warned(t)'
  <2> SUFFICES ASSUME status'[t] = "stopped" PROVE Warned(t)'
    BY DEF Warned
  <2>1. status[t] = "stopped"
    OBVIOUS
  <2>2. \A m \in Lanes' : Has(lanes'[m], C) =>
          t \in stoppedRows' \/ Has(client', S) \/ Led(lanes'[m], C, S)
    BY <1>1, <1>2, <2>1 DEF Route, Warned
  <2>3. stage'[t] = "reporting" => \/ t \in stoppedRows' \/ Has(client', S)
                                   \/ Has(lanes'[lane'[t]], S)
    <3>1. CASE e = S /\ l = lane'[t]
      BY <1>1, <3>1
    <3>2. CASE stage[t] = "reporting"
      BY <1>1, <1>2, <2>1, <3>2 DEF Route, Warned
    <3> QED BY <3>1, <3>2
  <2> QED BY <1>2, <2>1, <2>2, <2>3 DEF Route, Warned
<1> QED BY <1>4, <1>5 DEF Route

\* Its result is put on its lane.
LEMMA ResultRoute ==
    ASSUME TypeOK, NEW t \in Tasks, Route(t), stage[t] = "reporting",
           stage'[t] = "gone", lane[t] \in Lanes, lane' = lane, status' = status,
           lanes' = [lanes EXCEPT ![lane[t]] = Append(lanes[lane[t]], Completed(t))],
           UNCHANGED <<client, server, tui, history>>
    PROVE  Route(t)'
<1> DEFINE C == Completed(t)
           S == Stopped(t)
           l == lane[t]
<1>1. /\ C \in TaskEvents /\ S # C
  BY EventsDiffer DEF Completed, Stopped
<1>2. /\ ~OnLane(t) /\ ~OnClient(t) /\ ~Held(t) /\ ~OnServer(t) /\ injected[t] = 0
      /\ \A m \in Lanes : ~Has(lanes[m], C)
  BY DEF Route, OnePlace, OnLane
<1>3. /\ Lanes' = Lanes
      /\ \A m \in Lanes : /\ Has(lanes'[m], C) <=> m = l
                          /\ Once(lanes[m], C) => Once(lanes'[m], C)
      /\ Has(lanes[l], S) /\ Led(lanes[l], C, S) => Led(lanes'[l], C, S)
  <2>1. /\ Lanes' = Lanes
        /\ \A m \in Lanes : \A x :
             /\ Has(lanes'[m], x) <=> Has(lanes[m], x) \/ (m = l /\ x = C)
             /\ Once(lanes[m], x) /\ (m = l /\ x = C => ~Has(lanes[m], x))
                  => Once(lanes'[m], x)
        /\ \A m \in Lanes : \A x, y :
             Led(lanes[m], x, y) /\ (m = l /\ x = C => Has(lanes[m], y))
               => Led(lanes'[m], x, y)
    BY <1>1, LaneGrown
  <2>2. l \in Lanes
    OBVIOUS
  <2> HIDE DEF C, S, l
  <2> QED BY <1>2, <2>1, <2>2
<1>4. /\ OnLane(t)' /\ ~OnClient(t)' /\ ~Held(t)' /\ ~OnServer(t)'
      /\ injected'[t] = 0 /\ stoppedRows' = stoppedRows
      /\ UNCHANGED <<buffered, continuation>>
  <2>1. OnLane(t)'
    BY <1>3 DEF OnLane
  <2> QED BY <1>2, <2>1 DEF OnClient, Held, OnServer, tui, waiting, history
<1>5. OnePlace(t)'
  <2>1. OnePrompt(t)' = OnePrompt(t) /\ client' = client
    BY DEF OnePrompt
  <2> QED BY <1>3, <1>4, <2>1 DEF Route, OnePlace, Held
<1>6. Warned(t)'
  <2> SUFFICES ASSUME status[t] = "stopped" PROVE Warned(t)'
    BY DEF Warned
  <2>1. t \in stoppedRows \/ Has(client, S) \/ Has(lanes[l], S)
    BY DEF Route, Warned
  <2>2. Led(lanes[l], C, S)
    BY <1>2 DEF Led, Has
  <2>3. t \in stoppedRows' \/ Has(client', S) \/ Led(lanes'[l], C, S)
    BY <1>3, <1>4, <2>1, <2>2
  <2> QED BY <1>3, <1>4, <2>3 DEF Warned
<1> QED BY <1>5, <1>6 DEF Route

\* The pump of a lane hands its first event to the client.
LEMMA ForwardRoute ==
    ASSUME TypeOK, NEW t \in Tasks, Route(t), NEW l \in Lanes, Forward(l),
           stage[t] # "idle" => lane[t] \in Lanes
    PROVE  Route(t)'
<1> DEFINE C == Completed(t)
           S == Stopped(t)
           h == Head(lanes[l])
<1>1. /\ C # S /\ h \in TaskEvents
      /\ lanes[l] # <<>> /\ lanes' = [lanes EXCEPT ![l] = Tail(lanes[l])]
      /\ client' = Append(client, h)
      /\ UNCHANGED <<stage, lane, status, server, tui, history>>
  <2>1. C # S
    BY EventsDiffer DEF Completed, Stopped
  <2>2. /\ lanes[l] # <<>> /\ lanes' = [lanes EXCEPT ![l] = Tail(lanes[l])]
        /\ client' = Append(client, h)
        /\ UNCHANGED <<stage, lane, status, server, tui, history>>
    BY DEF Forward, task, registry
  <2>3. h \in TaskEvents
    BY <2>2, LaneShrunk
  <2> QED BY <2>1, <2>2, <2>3
<1>2. /\ Lanes' = Lanes
      /\ \A m \in Lanes :
           /\ m # l => (Has(lanes'[m], C) <=> Has(lanes[m], C))
           /\ m # l => (Has(lanes'[m], S) <=> Has(lanes[m], S))
           /\ Once(lanes[m], C) => Once(lanes'[m], C)
           /\ m # l /\ Led(lanes[m], C, S) => Led(lanes'[m], C, S)
      /\ Has(lanes[l], C) <=> Has(lanes'[l], C) \/ C = h
      /\ Has(lanes[l], S) <=> Has(lanes'[l], S) \/ S = h
      /\ Once(lanes[l], C) /\ C = h => ~Has(lanes'[l], C)
      /\ Led(lanes[l], C, S) => C # h
      /\ Led(lanes[l], C, S) /\ S # h => Led(lanes'[l], C, S)
  BY <1>1, LaneShrunk
<1>3. /\ Has(client', C) <=> Has(client, C) \/ C = h
      /\ Has(client', S) <=> Has(client, S) \/ S = h
      /\ Once(client, C) /\ (C = h => ~Has(client, C)) => Once(client', C)
      /\ Led(client, C, S) /\ (C = h => Has(client, S)) => Led(client', C, S)
  BY <1>1, ClientGrown
<1>4. /\ OnClient(t) <=> Has(client, C)
      /\ OnClient(t)' <=> Has(client', C)
      /\ OnLane(t) <=> \E m \in Lanes : Has(lanes[m], C)
      /\ OnLane(t)' <=> \E m \in Lanes : Has(lanes'[m], C)
      /\ Held(t)' = Held(t) /\ OnServer(t)' = OnServer(t)
      /\ OnePrompt(t)' = OnePrompt(t)
      /\ injected'[t] = injected[t] /\ stoppedRows' = stoppedRows
      /\ UNCHANGED <<buffered, continuation>>
  BY <1>1, <1>2 DEF OnLane, OnClient, Held, OnServer, OnePrompt, tui, waiting, history
<1>5. C = h => OnLane(t) /\ l = lane[t] /\ ~OnLane(t)'
  BY <1>2, <1>4 DEF Route, OnePlace
<1>6. C # h => /\ OnLane(t)' <=> OnLane(t)
               /\ OnClient(t)' <=> OnClient(t)
  BY <1>2, <1>3, <1>4
<1>7. OnePlace(t)'
  <2>1. /\ OnLane(t)' => ~OnClient(t)' /\ ~Held(t)' /\ ~OnServer(t)' /\ injected'[t] = 0
        /\ OnClient(t)' => ~Held(t)' /\ ~OnServer(t)' /\ injected'[t] = 0
        /\ OnLane(t)' \/ OnClient(t)' => stage'[t] = "gone"
    BY <1>1, <1>4, <1>5, <1>6 DEF Route, OnePlace
  <2>2. \A m \in Lanes' : /\ Has(lanes'[m], C) => m = lane'[t]
                          /\ Once(lanes'[m], C)
    BY <1>1, <1>2 DEF Route, OnePlace
  <2>3. Once(client', C)
    BY <1>3, <1>4, <1>5 DEF Route, OnePlace
  <2> QED BY <1>1, <1>4, <2>1, <2>2, <2>3 DEF Route, OnePlace
<1>8. Warned(t)'
  <2> SUFFICES ASSUME status[t] = "stopped" PROVE Warned(t)'
    BY <1>1 DEF Warned
  <2>1. /\ \A m \in Lanes : Has(lanes[m], C) =>
             t \in stoppedRows \/ Has(client, S) \/ Led(lanes[m], C, S)
        /\ Has(client, C) => t \in stoppedRows \/ Led(client, C, S)
        /\ stage[t] = "reporting" =>
             t \in stoppedRows \/ Has(client, S) \/ Has(lanes[lane[t]], S)
        /\ ~Held(t) /\ ~OnServer(t) /\ injected[t] = 0
    BY <1>4 DEF Route, Warned
  <2>2. \A m \in Lanes : Has(lanes'[m], C) =>
          t \in stoppedRows \/ Has(client', S) \/ Led(lanes'[m], C, S)
    BY <1>2, <1>3, <2>1
  <2>3. Has(client', C) => t \in stoppedRows \/ Led(client', C, S)
    <3>1. CASE C = h
      <4>1. ~Has(client, C)
        BY <1>4, <1>5, <3>1 DEF Route, OnePlace
      <4>2. Led(client, C, S)
        BY <4>1 DEF Led, Has
      <4>3. t \in stoppedRows \/ Has(client, S)
        BY <1>2, <2>1, <3>1
      <4> QED BY <1>3, <4>2, <4>3
    <3>2. CASE C # h
      BY <1>3, <2>1, <3>2
    <3> QED BY <3>1, <3>2
  <2>4. stage[t] = "reporting" =>
          t \in stoppedRows \/ Has(client', S) \/ Has(lanes'[lane[t]], S)
    BY <1>2, <1>3, <2>1
  <2> QED BY <1>1, <1>2, <1>4, <2>1, <2>2, <2>3, <2>4 DEF Warned
<1> QED BY <1>7, <1>8 DEF Route
\* A step of the client, or a last event sent to it, that leaves the result of
\* a task where it was or gives it up.
LEMMA ClientRoute ==
    ASSUME TypeOK, NEW t \in Tasks, Route(t),
           UNCHANGED <<lanes, status>>,
           injected'[t] = injected[t], lane'[t] = lane[t],
           stage[t] = "gone" => stage'[t] = "gone",
           stage'[t] = "reporting" => stage[t] = "reporting",
           OnClient(t)' => OnClient(t),
           Once(client, Completed(t)) => Once(client', Completed(t)),
           t \in stoppedRows => t \in stoppedRows',
           status[t] = "stopped" =>
             \/ t \in stoppedRows'
             \/ /\ Has(client, Stopped(t)) => Has(client', Stopped(t))
                /\ Led(client, Completed(t), Stopped(t))
                     => Led(client', Completed(t), Stopped(t)),
           Held(t)' => Held(t), t \in buffered' => t \notin continuation',
           OnServer(t)' => OnServer(t), OnePrompt(t) => OnePrompt(t)'
    PROVE  Route(t)'
<1>1. Lanes' = Lanes /\ OnLane(t)' = OnLane(t)
  BY DEF Lanes, OnLane
<1>2. \A l \in Lanes : Has(lanes[l], Completed(t)) => OnLane(t)
  BY DEF OnLane
<1>3. OnePlace(t)'
  BY <1>1, <1>2 DEF Route, OnePlace
<1>4. Warned(t)'
  <2> SUFFICES ASSUME status[t] = "stopped" PROVE Warned(t)'
    BY DEF Warned
  <2>1. CASE t \in stoppedRows'
    BY <1>1, <2>1 DEF Route, Warned
  <2>2. CASE t \notin stoppedRows'
    BY <1>1, <2>2 DEF Route, Warned
  <2> QED BY <2>1, <2>2
<1> QED BY <1>3, <1>4 DEF Route

\* Prompts that wait, one more and one less.
LEMMA ServerGrown ==
    ASSUME TypeOK, NEW X \in SUBSET Tasks, server' = Append(server, X)
    PROVE  \A t \in Tasks :
             /\ OnServer(t)' <=> OnServer(t) \/ t \in X
             /\ OnePrompt(t) /\ (t \in X => ~OnServer(t)) => OnePrompt(t)'
<1> DEFINE n == Len(server)
<1>1. /\ n \in Nat /\ Len(server') = n + 1 /\ server'[n + 1] = X
      /\ \A i \in 1..n : server'[i] = server[i]
  BY DEF TypeOK
<1>2. 1..(n + 1) = 1..n \cup {n + 1}
  BY <1>1
<1> SUFFICES ASSUME NEW t \in Tasks
             PROVE  /\ OnServer(t)' <=> OnServer(t) \/ t \in X
                    /\ OnePrompt(t) /\ (t \in X => ~OnServer(t)) => OnePrompt(t)'
  OBVIOUS
<1>3. OnServer(t)' <=> OnServer(t) \/ t \in X
  BY <1>1, <1>2 DEF OnServer
<1>4. ASSUME OnePrompt(t), t \in X => ~OnServer(t) PROVE OnePrompt(t)'
  <2> SUFFICES ASSUME NEW i \in 1..(n + 1), NEW j \in 1..(n + 1),
                      t \in server'[i], t \in server'[j]
               PROVE  i = j
    BY <1>1 DEF OnePrompt
  <2> QED BY <1>1, <1>2, <1>4 DEF OnePrompt, OnServer
<1> QED BY <1>3, <1>4

LEMMA ServerShrunk ==
    ASSUME TypeOK, server # <<>>, server' = Tail(server)
    PROVE  \A t \in Tasks :
             /\ OnServer(t) <=> OnServer(t)' \/ t \in Head(server)
             /\ OnePrompt(t) => /\ OnePrompt(t)'
                                /\ t \in Head(server) => ~OnServer(t)'
<1> DEFINE n == Len(server)
<1>1. /\ n \in Nat \ {0} /\ Len(server') = n - 1 /\ server[1] = Head(server)
      /\ \A i \in 1..(n - 1) : server'[i] = server[i + 1]
  BY DEF TypeOK
<1>2. /\ 1 \in 1..n
      /\ \A i \in 1..n : i = 1 \/ (i - 1 \in 1..(n - 1) /\ server'[i - 1] = server[i])
  <2> SUFFICES ASSUME NEW i \in 1..n, i # 1
               PROVE  i - 1 \in 1..(n - 1) /\ server'[i - 1] = server[i]
    BY <1>1
  <2>1. i - 1 \in 1..(n - 1) /\ (i - 1) + 1 = i
    BY <1>1
  <2> QED BY <1>1, <2>1
<1>3. \A i \in 1..(n - 1) : i + 1 \in 1..n /\ i + 1 # 1
  BY <1>1
<1> SUFFICES ASSUME NEW t \in Tasks
             PROVE  /\ OnServer(t) <=> OnServer(t)' \/ t \in Head(server)
                    /\ OnePrompt(t) => /\ OnePrompt(t)'
                                       /\ t \in Head(server) => ~OnServer(t)'
  OBVIOUS
<1>4. OnServer(t) <=> OnServer(t)' \/ t \in Head(server)
  BY <1>1, <1>2, <1>3 DEF OnServer
<1>5. ASSUME OnePrompt(t) PROVE OnePrompt(t)'
  <2> SUFFICES ASSUME NEW i \in 1..(n - 1), NEW j \in 1..(n - 1),
                      t \in server'[i], t \in server'[j]
               PROVE  i = j
    BY <1>1 DEF OnePrompt
  <2>1. i + 1 = j + 1
    BY <1>1, <1>3, <1>5 DEF OnePrompt
  <2> QED BY <2>1
<1>6. ASSUME OnePrompt(t), t \in Head(server), NEW i \in 1..(n - 1), t \in server'[i]
      PROVE  FALSE
  <2>1. i + 1 = 1
    BY <1>1, <1>2, <1>3, <1>6 DEF OnePrompt
  <2> QED BY <1>3, <2>1
<1> QED BY <1>1, <1>4, <1>5, <1>6 DEF OnServer
-----------------------------------------------------------------------------
\* However a step moves results, each stays in one place, and no result of a
\* stopped task comes to where it could be read.
LEMMA StepRoute ==
    ASSUME IInv, [Next]_vars, NEW t \in Tasks PROVE Route(t)'
<1>0. /\ TypeOK /\ Control /\ Noticed /\ Route(t) /\ OnePlace(t) /\ Warned(t)
      /\ stage \in [Tasks -> Stages] /\ lane \in [Tasks -> 0..Len(lanes)]
      /\ status \in [Tasks -> {"none", "running", "completed", "failed", "stopped"}]
      /\ injected \in [Tasks -> Nat] /\ Len(lanes) \in Nat
      /\ stage[t] # "idle" => lane[t] \in Lanes
  <2>1. TypeOK /\ Control /\ Noticed /\ Route(t) /\ OnePlace(t) /\ Warned(t)
    BY DEF IInv, Route
  <2>2. Len(lanes) \in Nat
    BY <2>1 DEF TypeOK
  <2> QED BY <2>1, <2>2 DEF TypeOK, Control, Lanes
<1>1. ASSUME NEW u \in Tasks, OpenGate(u) \/ Finish(u) \/ Complete(u) \/ Stop(u)
      PROVE  Route(t)'
  <2>1. /\ UNCHANGED <<lanes, client, server, buffered, continuation>>
        /\ injected' = injected /\ lane' = lane /\ stoppedRows' = stoppedRows
    BY <1>1 DEF OpenGate, Finish, Complete, Stop, channels, history, tui, waiting,
                task
  <2>2. /\ stage[t] = "gone" => stage'[t] = "gone"
        /\ stage'[t] = "reporting" => stage[t] = "reporting"
        /\ status'[t] = "stopped" =>
             status[t] = "stopped" \/ (stage[t] # "gone" /\ stage'[t] # "reporting")
    <3>1. CASE Complete(u)
      BY <1>0, <3>1 DEF Complete
    <3>2. CASE OpenGate(u) \/ Finish(u) \/ Stop(u)
      BY <1>0, <3>2 DEF OpenGate, Finish, Stop, registry, task
    <3> QED BY <1>1, <3>1, <3>2
  <2> QED BY <1>0, <2>1, <2>2, StayRoute
<1>2. ASSUME NEW u \in Tasks, Launch(u) PROVE Route(t)'
  <2>1. lanes # <<>> /\ Len(lanes) \in Lanes
    BY <1>0, <1>2 DEF Launch, Control, Lanes, TypeOK
  <2>2. /\ Event("started", u) \in TaskEvents
        /\ Event("started", u) # Completed(t)
    BY EventsDiffer DEF Completed
  <2>3. /\ lanes' = [lanes EXCEPT ![Len(lanes)] =
                       Append(lanes[Len(lanes)], Event("started", u))]
        /\ UNCHANGED <<client, server, tui, history>>
    BY <1>2 DEF Launch
  <2>4. /\ stage[t] # "idle" => lane'[t] = lane[t]
        /\ stage[t] = "gone" => stage'[t] = "gone"
        /\ stage'[t] = "reporting" => stage[t] = "reporting"
        /\ status'[t] = "stopped" => status[t] = "stopped"
    BY <1>0, <1>2 DEF Launch
  <2> QED BY <1>0, <2>1, <2>2, <2>3, <2>4, EventRoute
<1>3. ASSUME NEW u \in Tasks, ReportStopped(u) PROVE Route(t)'
  <2>1. /\ lane[u] \in Lanes /\ stage[u] = "completed"
        /\ stage' = [stage EXCEPT ![u] = "reporting"]
        /\ lanes' = [lanes EXCEPT ![lane[u]] = Append(lanes[lane[u]], Stopped(u))]
        /\ UNCHANGED <<client, server, tui, history, lane, status>>
    <3>1. stage[u] = "completed"
      BY <1>3 DEF ReportStopped, Send
    <3>2. lane[u] \in Lanes
      BY <1>0, <3>1 DEF Control, Lanes
    <3> QED BY <1>3, <3>1, <3>2 DEF ReportStopped, Send, Stopped, registry
  <2>2. Stopped(u) \in TaskEvents /\ Stopped(u) # Completed(t)
    BY EventsDiffer DEF Completed, Stopped
  <2>3. /\ stage[t] = "gone" => stage'[t] = "gone"
        /\ stage'[t] = "reporting" =>
             stage[t] = "reporting" \/ (Stopped(u) = Stopped(t) /\ lane[u] = lane'[t])
    BY <1>0, <2>1
  <2> QED BY <1>0, <2>1, <2>2, <2>3, EventRoute
<1>4. ASSUME NEW u \in Tasks, ReportCompleted(u) PROVE Route(t)'
  <2>1. /\ lane[u] \in Lanes /\ stage[u] = "reporting"
        /\ stage' = [stage EXCEPT ![u] = "gone"]
        /\ lanes' = [lanes EXCEPT ![lane[u]] = Append(lanes[lane[u]], Completed(u))]
        /\ UNCHANGED <<client, server, tui, history>>
        /\ lane' = lane /\ status' = status
    <3>1. stage[u] = "reporting"
      BY <1>4 DEF ReportCompleted, Send
    <3>2. lane[u] \in Lanes
      BY <1>0, <3>1 DEF Control, Lanes
    <3> QED BY <1>4, <3>1, <3>2 DEF ReportCompleted, Send, Completed, registry
  <2>2. CASE u = t
    BY <1>0, <2>1, <2>2, ResultRoute
  <2>3. CASE u # t
    <3>1. Completed(u) \in TaskEvents /\ Completed(u) # Completed(t)
      BY <2>3, EventsDiffer DEF Completed
    <3>2. stage'[t] = stage[t]
      BY <1>0, <2>1, <2>3
    <3> QED BY <1>0, <2>1, <3>1, <3>2, EventRoute
  <2> QED BY <2>2, <2>3
<1>5. ASSUME NEW l \in Lanes, Forward(l) PROVE Route(t)'
  BY <1>0, <1>5, ForwardRoute
<1>6. CASE FinalDrain \/ DrainAfterTools
  <2>1. UNCHANGED <<task, registry, lanes, client, injected, server, tui>>
    BY <1>6 DEF FinalDrain, DrainAfterTools, Drain, channels
  <2> QED BY <1>0, <2>1, StayRoute DEF task, registry, tui, waiting
\* A last event and a prompt without results leave every result where it is.
<1>7. ASSUME NEW e \in {Done, Error}, client' = Append(client, e)
      PROVE  /\ OnClient(t)' => OnClient(t)
             /\ Once(client, Completed(t)) => Once(client', Completed(t))
             /\ Has(client, Stopped(t)) => Has(client', Stopped(t))
             /\ Led(client, Completed(t), Stopped(t))
                  => Led(client', Completed(t), Stopped(t))
  <2>1. Completed(t) # e
    BY EventsDiffer DEF Completed
  <2> QED BY <1>0, <1>7, <2>1, ClientGrown DEF OnClient
<1>8. CASE Answer \/ PushDone \/ Fail \/ Interrupt
  <2>1. /\ UNCHANGED <<lanes, status, history, server, tui>> /\ lane' = lane
        /\ \/ client' = client \o <<>>
           \/ \E e \in {Done, Error} : client' = client \o <<e>>
        /\ \A u \in Tasks :
             stage'[u] = stage[u] \/ (stage[u] = "held" /\ stage'[u] = "gone")
    <3>1. PICK to \in {"idle", "closing"}, events \in {<<>>, <<Done>>, <<Error>>} :
            Return(to, events)
      BY <1>8 DEF Answer, PushDone, Fail, Interrupt
    <3>2. \A u \in Tasks :
             stage'[u] = stage[u] \/ (stage[u] = "held" /\ stage'[u] = "gone")
      BY <1>8 DEF Answer, PushDone, Fail, Interrupt
    <3> QED BY <3>1, <3>2 DEF Return, registry
  <2>2. client' = client \/ \E e \in {Done, Error} : client' = Append(client, e)
    <3>1. /\ client \o <<>> = client
          /\ \A e \in {Done, Error} : client \o <<e>> = Append(client, e)
      BY <1>0 DEF TypeOK
    <3> QED BY <2>1, <3>1
  <2>3. /\ OnClient(t)' => OnClient(t)
        /\ Once(client, Completed(t)) => Once(client', Completed(t))
        /\ Has(client, Stopped(t)) => Has(client', Stopped(t))
        /\ Led(client, Completed(t), Stopped(t))
             => Led(client', Completed(t), Stopped(t))
    BY <1>7, <2>2 DEF OnClient
  <2>4. /\ Held(t)' => Held(t)
        /\ t \in buffered' => t \notin continuation'
        /\ OnServer(t)' => OnServer(t)
        /\ OnePrompt(t) => OnePrompt(t)'
        /\ t \in stoppedRows => t \in stoppedRows'
        /\ injected'[t] = injected[t] /\ lane'[t] = lane[t]
    BY <1>0, <2>1
    DEF OnePlace, Held, OnServer, OnePrompt, history, tui, waiting
  <2>5. /\ stage[t] = "gone" => stage'[t] = "gone"
        /\ stage'[t] = "reporting" => stage[t] = "reporting"
    BY <2>1
  <2>6. UNCHANGED <<lanes, status>>
    BY <2>1
  <2> QED BY <1>0, <2>3, <2>4, <2>5, <2>6, ClientRoute
\* What the client takes from its channel.
<1>9. ASSUME NEW kind, Receive(kind)
      PROVE  /\ UNCHANGED <<lanes, status>> /\ client # <<>>
             /\ client' = Tail(client) /\ Head(client).kind = kind
             /\ stage' = stage /\ lane' = lane /\ injected' = injected
             /\ Head(client) \in TaskEvents \cup {Done, Error}
             /\ OnClient(t)' => OnClient(t)
             /\ Once(client, Completed(t)) => Once(client', Completed(t))
             /\ kind # "stopped" \/ Head(client) # Stopped(t) =>
                  /\ Has(client, Stopped(t)) => Has(client', Stopped(t))
                  /\ Led(client, Completed(t), Stopped(t))
                       => Led(client', Completed(t), Stopped(t))
  <2>1. /\ UNCHANGED <<lanes, status>> /\ client # <<>>
        /\ client' = Tail(client) /\ Head(client).kind = kind
        /\ stage' = stage /\ lane' = lane /\ injected' = injected
    BY <1>9 DEF Receive, task, registry, history
  <2>2. kind # "stopped" => Head(client) # Stopped(t)
    BY <2>1, EventsDiffer DEF Stopped
  <2> QED BY <1>0, <2>1, <2>2, ClientShrunk DEF OnClient
<1>10. CASE OnStarted
  <2>1. /\ Receive("started") /\ stoppedRows' = stoppedRows
        /\ UNCHANGED <<buffered, continuation, server>>
    BY <1>10 DEF OnStarted, waiting
  <2>2. /\ Held(t)' => Held(t)
        /\ t \in buffered' => t \notin continuation'
        /\ OnServer(t)' => OnServer(t)
        /\ OnePrompt(t) => OnePrompt(t)'
    BY <1>0, <2>1 DEF OnePlace, Held, OnServer, OnePrompt
  <2>3. /\ UNCHANGED <<lanes, status>>
        /\ stage' = stage /\ lane' = lane /\ injected' = injected
        /\ OnClient(t)' => OnClient(t)
        /\ Once(client, Completed(t)) => Once(client', Completed(t))
        /\ Has(client, Stopped(t)) => Has(client', Stopped(t))
        /\ Led(client, Completed(t), Stopped(t))
             => Led(client', Completed(t), Stopped(t))
    BY <1>9, <2>1
  <2> QED BY <1>0, <2>1, <2>2, <2>3, ClientRoute
<1>11. CASE OnStopped
  <2>1. /\ Receive("stopped") /\ stoppedRows \subseteq stoppedRows'
        /\ UNCHANGED <<buffered, continuation, server>>
        /\ status[Head(client).task] = "stopped" => Head(client).task \in stoppedRows'
    BY <1>11 DEF OnStopped, waiting
  <2>2. /\ Held(t)' => Held(t)
        /\ t \in buffered' => t \notin continuation'
        /\ OnServer(t)' => OnServer(t)
        /\ OnePrompt(t) => OnePrompt(t)'
    BY <1>0, <2>1 DEF OnePlace, Held, OnServer, OnePrompt
  <2>3. Head(client) = Stopped(t) /\ status[t] = "stopped" => t \in stoppedRows'
    BY <2>1, EventsDiffer DEF Stopped
  <2> QED BY <1>0, <1>9, <2>1, <2>2, <2>3, ClientRoute
<1>12. CASE OnCompleted
  <2> DEFINE u == Head(client).task
  <2>1. /\ Receive("completed") /\ stoppedRows' = stoppedRows /\ server' = server
        /\ \/ u \in stoppedRows /\ UNCHANGED <<buffered, continuation>>
           \/ /\ u \notin stoppedRows
              /\ continuation' = buffered \cup {u} /\ buffered' = {}
           \/ /\ u \notin stoppedRows
              /\ buffered' = buffered \cup {u} /\ continuation' = continuation
    BY <1>12 DEF OnCompleted
  <2>2. Head(client) = Completed(u) /\ u \in Tasks
    BY <1>9, <2>1, EventsDiffer DEF Completed
  <2>3. /\ OnServer(t)' = OnServer(t)
        /\ OnePrompt(t) => OnePrompt(t)'
    BY <2>1 DEF OnServer, OnePrompt
  <2>4. CASE t # u \/ u \in stoppedRows
    <3>1. Held(t)' => Held(t)
      BY <2>1, <2>4 DEF Held
    <3>2. t \in buffered' => t \notin continuation'
      BY <1>0, <2>1, <2>4 DEF OnePlace
    <3> QED BY <1>0, <1>9, <2>1, <2>3, <3>1, <3>2, ClientRoute
  <2>5. CASE t = u /\ u \notin stoppedRows
    <3>1. /\ Has(client, Completed(t)) /\ ~Has(client', Completed(t))
          /\ Once(client', Completed(t))
          /\ ~Led(client, Completed(t), Stopped(t))
      BY <1>0, <1>9, <2>1, <2>2, <2>5, ClientShrunk DEF OnePlace
    <3>2. /\ OnClient(t) /\ ~OnClient(t)' /\ ~OnLane(t) /\ ~Held(t) /\ ~OnServer(t)
          /\ injected[t] = 0 /\ stage[t] = "gone" /\ status[t] # "stopped"
      BY <1>0, <2>5, <3>1 DEF OnePlace, Warned, OnClient
    <3>3. Lanes' = Lanes /\ OnLane(t)' = OnLane(t)
      BY <1>9, <2>1 DEF Lanes, OnLane
    <3>4. t \in buffered' => t \notin continuation'
      BY <2>1, <2>5, <3>2 DEF Held
    <3>5. /\ UNCHANGED <<lanes, status>> /\ stage' = stage /\ lane' = lane
          /\ injected' = injected
      BY <1>9, <2>1
    <3>6. OnePlace(t)'
      BY <1>0, <2>3, <3>1, <3>2, <3>3, <3>4, <3>5 DEF OnePlace
    <3>7. Warned(t)'
      BY <3>2, <3>5 DEF Warned
    <3> QED BY <3>6, <3>7 DEF Route
  <2> QED BY <2>4, <2>5
\* A text goes out and overrides what the client held.
<1>13. ASSUME SubmitText
       PROVE  /\ ~Held(t)' /\ t \notin buffered'
              /\ OnServer(t)' => OnServer(t)
              /\ OnePrompt(t) => OnePrompt(t)'
  <2>1. /\ server' = Append(server, {}) /\ {} \in SUBSET Tasks
        /\ buffered' = {} /\ continuation' = {}
    BY <1>13 DEF SubmitText
  <2> QED BY <1>0, <2>1, ServerGrown DEF Held
<1>14. CASE OnDone \/ OnError
  <2>1. PICK kind \in {"done", "error"} : OnEnd(kind)
    BY <1>14 DEF OnDone, OnError
  <2>2. Receive(kind) /\ stoppedRows' = stoppedRows
    BY <2>1 DEF OnEnd
  <2>3. /\ Held(t)' => Held(t)
        /\ t \in buffered' => t \notin continuation'
        /\ OnServer(t)' => OnServer(t)
        /\ OnePrompt(t) => OnePrompt(t)'
    <3>1. CASE queued = 0
      BY <1>0, <2>1, <3>1
      DEF OnEnd, Conclude, OnePlace, Held, OnServer, OnePrompt
    <3>2. CASE queued # 0
      BY <1>13, <2>1, <3>2 DEF OnEnd
    <3> QED BY <3>1, <3>2
  <2> QED BY <1>0, <1>9, <2>2, <2>3, ClientRoute
<1>15. CASE Submit
  <2>1. UNCHANGED <<lanes, client, stage, lane, status, injected, stoppedRows>>
    BY <1>15 DEF Submit, task, registry, channels, history
  <2>2. /\ Held(t)' => Held(t)
        /\ t \in buffered' => t \notin continuation'
        /\ OnServer(t)' => OnServer(t)
        /\ OnePrompt(t) => OnePrompt(t)'
    <3>1. CASE loading
      BY <1>0, <1>15, <3>1 DEF Submit, waiting, OnePlace, Held, OnServer, OnePrompt
    <3>2. CASE ~loading
      BY <1>13, <1>15, <3>2 DEF Submit
    <3> QED BY <3>1, <3>2
  <2>3. OnClient(t)' => OnClient(t)
    BY <2>1 DEF OnClient
  <2> QED BY <1>0, <2>1, <2>2, <2>3, ClientRoute
<1>16. CASE TakeContinuation
  <2>1. /\ server' = Append(server, continuation) /\ continuation' = {}
        /\ continuation \in SUBSET Tasks
        /\ UNCHANGED <<lanes, client, stage, lane, status, injected, stoppedRows,
                       buffered>>
    BY <1>0, <1>16 DEF TakeContinuation, task, registry, channels, history, TypeOK
  <2>2. /\ OnServer(t)' <=> OnServer(t) \/ t \in continuation
        /\ OnePrompt(t) /\ (t \in continuation => ~OnServer(t)) => OnePrompt(t)'
    BY <1>0, <2>1, ServerGrown
  <2>3. CASE t \in continuation
    <3>1. /\ ~OnLane(t) /\ ~OnClient(t) /\ ~OnServer(t) /\ injected[t] = 0
          /\ stage[t] = "gone" /\ t \notin buffered /\ status[t] # "stopped"
      BY <1>0, <2>3 DEF OnePlace, Warned, Held
    <3>2. /\ Lanes' = Lanes /\ OnLane(t)' = OnLane(t) /\ OnClient(t)' = OnClient(t)
          /\ ~Held(t)'
      BY <2>1, <3>1 DEF Lanes, OnLane, OnClient, Held
    <3>3. OnePlace(t)'
      BY <1>0, <2>1, <2>2, <3>1, <3>2 DEF OnePlace
    <3>4. Warned(t)'
      BY <2>1, <3>1 DEF Warned
    <3> QED BY <3>3, <3>4 DEF Route
  <2>4. CASE t \notin continuation
    <3>1. /\ Held(t)' => Held(t)
          /\ t \in buffered' => t \notin continuation'
          /\ OnServer(t)' => OnServer(t)
          /\ OnePrompt(t) => OnePrompt(t)'
          /\ OnClient(t)' => OnClient(t)
      BY <2>1, <2>2, <2>4 DEF Held, OnClient
    <3> QED BY <1>0, <2>1, <3>1, ClientRoute
  <2> QED BY <2>3, <2>4
<1>17. CASE BeginPrompt
  <2>1. /\ server # <<>> /\ server' = Tail(server) /\ lanes' = Append(lanes, <<>>)
        /\ injected'[t] = IF t \in Head(server) /\ ~Delivered(t)
                          THEN injected[t] + 1 ELSE injected[t]
        /\ UNCHANGED <<stage, lane, status, client, stoppedRows, buffered,
                       continuation>>
    BY <1>17 DEF BeginPrompt, task, registry, tui, waiting
  <2>2. /\ OnServer(t) <=> OnServer(t)' \/ t \in Head(server)
        /\ OnePrompt(t) => /\ OnePrompt(t)'
                           /\ t \in Head(server) => ~OnServer(t)'
    BY <1>0, <2>1, ServerShrunk
  <2>3. /\ Lanes \subseteq Lanes'
        /\ \A l \in Lanes : lanes'[l] = lanes[l]
        /\ \A l \in Lanes' : l \notin Lanes => lanes'[l] = <<>>
    BY <1>0, <2>1 DEF Lanes, TypeOK
  <2>4. \A x : /\ ~Has(<<>>, x) /\ Once(<<>>, x)
    BY DEF Has, Once
  <2>5. OnLane(t)' = OnLane(t)
    BY <2>3, <2>4 DEF OnLane
  <2>6. OnClient(t)' = OnClient(t) /\ Held(t)' = Held(t)
    BY <2>1 DEF OnClient, Held
  <2>7. OnePlace(t)'
    <3>1. CASE t \in Head(server)
      <4>1. /\ ~OnLane(t) /\ ~OnClient(t) /\ ~Held(t) /\ ~OnServer(t)'
            /\ injected[t] = 0 /\ injected'[t] \in {0, 1} /\ stage[t] = "gone"
        BY <1>0, <2>1, <2>2, <3>1 DEF OnePlace
      <4> QED BY <1>0, <2>1, <2>2, <2>3, <2>4, <2>5, <2>6, <4>1 DEF OnePlace
    <3>2. CASE t \notin Head(server)
      BY <1>0, <2>1, <2>2, <2>3, <2>4, <2>5, <2>6, <3>2 DEF OnePlace
    <3> QED BY <3>1, <3>2
  <2>8. Warned(t)'
    <3> SUFFICES ASSUME status[t] = "stopped" PROVE Warned(t)'
      BY <2>1 DEF Warned
    <3>1. t \notin Head(server) /\ injected'[t] = injected[t]
      BY <1>0, <2>1, <2>2 DEF Warned
    <3>2. \A l \in Lanes' : Has(lanes'[l], Completed(t)) =>
            \/ t \in stoppedRows' \/ Has(client', Stopped(t))
            \/ Led(lanes'[l], Completed(t), Stopped(t))
      BY <1>0, <2>1, <2>3, <2>4 DEF Warned
    <3>3. stage'[t] = "reporting" =>
            \/ t \in stoppedRows' \/ Has(client', Stopped(t))
            \/ Has(lanes'[lane'[t]], Stopped(t))
      BY <1>0, <2>1, <2>3 DEF Warned
    <3> QED BY <1>0, <2>1, <2>2, <2>6, <3>1, <3>2, <3>3 DEF Warned
  <2> QED BY <2>7, <2>8 DEF Route
<1>18. CASE UNCHANGED vars
  BY <1>0, <1>18, StayRoute
  DEF vars, task, registry, channels, history, waiting, tui
<1> QED
  BY <1>1, <1>2, <1>3, <1>4, <1>5, <1>6, <1>8, <1>10, <1>11, <1>12, <1>14,
     <1>15, <1>16, <1>17, <1>18 DEF Next, Task, Server, Client
\* Only results that no prompt carried, of tasks nobody stopped, are noticed.
LEMMA StepNoticed == IInv /\ [Next]_vars => Noticed'
<1> SUFFICES ASSUME IInv, [Next]_vars PROVE Noticed'
  OBVIOUS
<1>0. /\ TypeOK /\ Control /\ Noticed /\ \A t \in Tasks : OnePlace(t)
      /\ stage \in [Tasks -> Stages] /\ injected \in [Tasks -> Nat]
      /\ status \in [Tasks -> {"none", "running", "completed", "failed", "stopped"}]
      /\ inbox \subseteq Tasks /\ notices \subseteq Tasks
  BY DEF IInv, Route, TypeOK
<1> SUFFICES ASSUME NEW t \in inbox' \cup notices'
             PROVE  /\ stage'[t] \in {"completed", "reporting", "gone"}
                    /\ status'[t] \in {"completed", "failed"}
                    /\ injected'[t] = 0
  BY DEF Noticed
<1>1. ASSUME t \in inbox \cup notices, injected' = injected,
             \/ UNCHANGED <<stage, status>>
             \/ \E u \in Tasks : OpenGate(u) \/ Finish(u) \/ Complete(u)
                                 \/ Launch(u) \/ ReportStopped(u)
                                 \/ ReportCompleted(u)
             \/ Interrupt
      PROVE  /\ stage'[t] \in {"completed", "reporting", "gone"}
             /\ status'[t] \in {"completed", "failed"}
             /\ injected'[t] = 0
  <2>1. /\ t \in Tasks /\ stage[t] \in {"completed", "reporting", "gone"}
        /\ status[t] \in {"completed", "failed"} /\ injected[t] = 0
    BY <1>0, <1>1 DEF Noticed
  <2>2. stage'[t] \in {"completed", "reporting", "gone"} /\ status'[t] = status[t]
    <3>1. ASSUME NEW u \in Tasks, ReportStopped(u) \/ ReportCompleted(u)
          PROVE  stage'[t] \in {"completed", "reporting", "gone"} /\ status' = status
      BY <1>0, <2>1, <3>1 DEF ReportStopped, ReportCompleted, Send, registry
    <3>2. ASSUME NEW u \in Tasks, OpenGate(u) \/ Finish(u) \/ Complete(u) \/ Launch(u)
          PROVE  stage'[t] = stage[t] /\ status'[t] = status[t]
      BY <1>0, <2>1, <3>2 DEF OpenGate, Finish, Complete, Launch, registry
    <3>3. ASSUME Interrupt PROVE stage'[t] = stage[t] /\ status' = status
      BY <1>0, <2>1, <3>3 DEF Interrupt, Return, registry
    <3> QED BY <1>1, <2>1, <3>1, <3>2, <3>3
  <2> QED BY <1>1, <2>1, <2>2
<1>2. ASSUME NEW u \in Tasks, Complete(u)
      PROVE  /\ stage'[t] \in {"completed", "reporting", "gone"}
             /\ status'[t] \in {"completed", "failed"}
             /\ injected'[t] = 0
  <2>1. /\ inbox' = inbox \cup Notified(u) /\ notices' = notices
        /\ injected' = injected /\ stage[u] = "ended"
        /\ stage' = [stage EXCEPT ![u] = "completed"]
        /\ status' = [status EXCEPT ![u] = IF IsStopped(u) THEN "stopped"
                                            ELSE IF Success(u) THEN "completed"
                                            ELSE "failed"]
    BY <1>2 DEF Complete, history
  <2>2. CASE t \in inbox \cup notices
    BY <1>1, <1>2, <2>1, <2>2
  <2>3. CASE t \notin inbox \cup notices
    <3>1. t = u /\ ~IsStopped(u)
      BY <2>1, <2>3 DEF Notified
    <3>2. injected[u] = 0
      <4>1. injected[u] \in {0, 1} /\ injected[u] # 1
        BY <1>0, <2>1 DEF OnePlace
      <4> QED BY <4>1
    <3> QED BY <1>0, <2>1, <3>1, <3>2
  <2> QED BY <2>2, <2>3
<1>3. ASSUME NEW u \in Tasks,
             OpenGate(u) \/ Finish(u) \/ Launch(u) \/ ReportStopped(u)
             \/ ReportCompleted(u)
      PROVE  inbox' = inbox /\ notices' = notices /\ injected' = injected
  BY <1>3 DEF OpenGate, Finish, Launch, ReportStopped, ReportCompleted, Send, history
<1>4. CASE \/ \E u \in Tasks : Stop(u)
           \/ \E l \in Lanes : Forward(l)
           \/ Client \/ Submit \/ UNCHANGED vars
  <2>1. UNCHANGED <<inbox, notices, injected, stage, status>>
    BY <1>4 DEF Stop, Forward, Client, TakeContinuation, OnStarted, OnStopped,
                OnCompleted, OnDone, OnError, OnEnd, Receive, Submit, vars, task,
                registry, history
  <2> QED BY <1>1, <2>1
<1>5. CASE FinalDrain \/ DrainAfterTools
  <2>1. /\ notices' = notices \cup inbox /\ inbox' = {}
        /\ UNCHANGED <<stage, status, injected>>
    BY <1>5 DEF FinalDrain, DrainAfterTools, Drain, task, registry
  <2> QED BY <1>1, <2>1
<1>6. CASE Answer \/ PushDone \/ Fail \/ Interrupt
  <2>1. /\ inbox' = {} /\ notices' = notices /\ injected' = injected
        /\ UNCHANGED <<stage, status>> \/ Interrupt
    BY <1>6 DEF Answer, PushDone, Fail, Interrupt, Return, history, registry
  <2> QED BY <1>1, <2>1
<1>7. CASE BeginPrompt
  <2>1. /\ exec = "idle" /\ UNCHANGED <<inbox, notices, stage, status>>
        /\ injected' = [u \in Tasks |->
              IF u \in Head(server) /\ ~Delivered(u) THEN injected[u] + 1
              ELSE injected[u]]
    BY <1>7 DEF BeginPrompt, task, registry
  <2>2. t \in notices /\ t \in Tasks
    BY <1>0, <2>1 DEF Control
  <2>3. injected'[t] = injected[t]
    BY <2>1, <2>2 DEF Delivered
  <2> QED BY <1>0, <2>1, <2>2, <2>3 DEF Noticed
<1> QED
  BY <1>1, <1>2, <1>3, <1>4, <1>5, <1>6, <1>7 DEF Next, Task, Server

LEMMA StepInv == IInv /\ [Next]_vars => IInv'
<1> SUFFICES ASSUME IInv, [Next]_vars PROVE IInv'
  OBVIOUS
<1>1. TypeOK' /\ Control'
  BY StepType DEF IInv
<1>2. Noticed'
  BY StepNoticed
<1>3. \A t \in Tasks : Route(t)'
  BY StepRoute
<1> QED BY <1>1, <1>2, <1>3 DEF IInv

LEMMA InitInv == Init => IInv
<1> SUFFICES ASSUME Init PROVE IInv
  OBVIOUS
<1> USE TaskAssumption
<1>1. TypeOK
  <2>1. /\ lanes \in Seq(Seq(TaskEvents)) /\ Len(lanes) = 0
        /\ client \in Seq(TaskEvents \cup {Done, Error})
        /\ server \in Seq(SUBSET Tasks)
    BY DEF Init
  <2>2. /\ stage \in [Tasks -> Stages]
        /\ ending \in [Tasks -> Endings \cup {"none", "interrupted"}]
        /\ status \in [Tasks -> {"none", "running", "completed", "failed", "stopped"}]
        /\ lane \in [Tasks -> 0..0] /\ injected \in [Tasks -> Nat]
    BY DEF Init, Stages
  <2>3. lane \in [Tasks -> 0..Len(lanes)]
    BY <2>1, <2>2
  <2>4. /\ slots = {} /\ token = {} /\ inbox = {} /\ notices = {} /\ active = {}
        /\ stoppedRows = {} /\ buffered = {} /\ continuation = {}
        /\ exec = "idle" /\ loading = FALSE /\ donePending = FALSE
        /\ queued = 0 /\ texts = 0 /\ 0 \in 0..MaxTexts
    BY DEF Init
  <2> QED BY ONLY <2>1, <2>2, <2>3, <2>4, Typed
<1>2. Control /\ Noticed
  BY DEF Init, Control, Noticed
<1>3. ASSUME NEW t \in Tasks PROVE Route(t)
  <2>1. Lanes = {} /\ client = <<>> /\ server = <<>>
    BY DEF Init, Lanes
  <2>2. /\ ~OnLane(t) /\ ~OnClient(t) /\ ~Held(t) /\ ~OnServer(t)
        /\ OnePrompt(t) /\ Once(client, Completed(t)) /\ injected[t] = 0
        /\ t \notin buffered /\ status[t] = "none"
    BY <2>1 DEF Init, OnLane, OnClient, Held, OnServer, OnePrompt, Has, Once
  <2> QED BY <2>1, <2>2 DEF Route, OnePlace, Warned
<1> QED BY <1>1, <1>2, <1>3 DEF IInv

LEMMA Invariant == Spec => []IInv
BY InitInv, StepInv, PTL DEF Spec

\* Tasks, channels, history and client are well formed, for any tasks.
THEOREM TypeCorrect == Spec => []TypeOK
<1>1. IInv => TypeOK
  BY DEF IInv
<1> QED BY <1>1, Invariant, PTL

\* A result is read at most once, as a notice of the execution that ran when
\* its task ended or with a later prompt, although it travels both ways and
\* prompts, cancels and failures may come at any point (executor.rs,
\* is_bg_result_delivered).
THEOREM ResultsReadOnce == Spec => []DeliveredOnce
<1>1. IInv => DeliveredOnce
  <2> SUFFICES ASSUME IInv, NEW t \in Tasks
               PROVE  injected[t] <= (IF t \in notices THEN 0 ELSE 1)
    BY DEF DeliveredOnce
  <2>1. injected[t] \in {0, 1} /\ (t \in notices => injected[t] = 0)
    BY DEF IInv, Route, OnePlace, Noticed
  <2> QED BY <2>1
<1> QED BY <1>1, Invariant, PTL

\* What a stopped task found reaches neither the history nor a prompt on its
\* way there: complete notices nobody, and the client has been told of the stop
\* by the time the result arrives (background.rs, complete).
THEOREM StoppedUnheard == Spec => []StoppedIsSilent
<1>1. IInv => StoppedIsSilent
  <2> SUFFICES ASSUME IInv, NEW t \in Tasks, status[t] = "stopped"
               PROVE  /\ t \notin inbox \cup notices \cup buffered \cup continuation
                      /\ injected[t] = 0
                      /\ \A i \in 1..Len(server) : t \notin server[i]
    BY DEF StoppedIsSilent
  <2>1. t \notin inbox \cup notices
    BY DEF IInv, Noticed
  <2>2. ~Held(t) /\ ~OnServer(t) /\ injected[t] = 0
    BY DEF IInv, Route, Warned
  <2> QED BY <2>1, <2>2 DEF Held, OnServer
<1> QED BY <1>1, Invariant, PTL
=============================================================================
