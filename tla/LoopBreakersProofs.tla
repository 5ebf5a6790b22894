-------------------------- MODULE LoopBreakersProofs --------------------------
(***************************************************************************)
(* LoopBreakers for every set of tools and kinds of failure, every         *)
(* threshold and size of the window and every length of an execution: the  *)
(* hints in the messages are the ones their history calls for, and a       *)
(* breaker trips as soon as the window of the last outcomes calls for it.  *)
(***************************************************************************)
EXTENDS LoopBreakers, FiniteSetTheorems, TLAPS

\* The messages of a tool since it last succeeded, and those of one failure.
Current(t)   == {j \in 1..Len(log) :
                   /\ log[j].tool = t
                   /\ \A m \in j..Len(log) :
                        log[m].tool = t => log[m].outcome # "ok"}
Streak(t, k) == {j \in Current(t) : log[j].outcome = k}

\* Messages and calls are numbered from their steps.
Numbered ==
    /\ Len(log) + Len(todo) <= MaxResults
    /\ todo # <<>> => asked # <<>>
    /\ \A i \in 1..Len(log) : log[i].step \in 1..Len(asked)

\* The loop detector counts how often the last step was asked for in a row.
Repeating ==
    /\ repeats <= Len(asked)
    /\ asked = <<>> => last = <<>>
    /\ asked # <<>> => repeats >= 1 /\ last = asked[Len(asked)]
    /\ \A p \in 0..(repeats - 1) : asked[Len(asked) - p] = last
    /\ repeats < Len(asked) => asked[Len(asked) - repeats] # last
    /\ looping = (repeats >= ActionThreshold)

\* The record of a failure counts the streak, and its threshold is the first
\* one or twice the number of the last failure that came with a warning.
Counted(t, k) ==
    LET r == records[<<t, k>>]
        Warned(j) == "consecutive" \in log[j].hints
    IN  /\ r.count = Cardinality(Streak(t, k))
        /\ r.count < r.next
        /\ \/ r.next = FailureThreshold
           \/ \E j \in Streak(t, k) : Warned(j) /\ r.next = 2 * FailureNumber(j)
        /\ r.next = FailureThreshold \/ FailureThreshold <= r.count
        /\ \A j \in Streak(t, k) : Warned(j) =>
             \/ 2 * FailureNumber(j) = r.next
             \/ 2 * FailureNumber(j) <= r.count

Later(j, i) == {m \in j..i : Counts(log[m])}

\* f says which messages the outcomes in the window come from: all that count,
\* but for those with at least WindowSize after them.
Pictures(f) ==
    /\ \A p \in 1..Len(window) :
         /\ Counts(log[f[p]])
         /\ window[p] = [tool   |-> log[f[p]].tool,
                         failed |-> log[f[p]].outcome = "schema"]
         /\ Cardinality(Later(f[p], Len(log))) = Len(window) - p + 1
    /\ \A j \in 1..Len(log) :
         Counts(log[j]) /\ (\A p \in 1..Len(window) : f[p] # j) =>
             Cardinality(Later(j, Len(log))) > WindowSize

Windowed == \E f \in [1..Len(window) -> 1..Len(log)] : Pictures(f)

Breakers == {"per_tool", "aggregate"}

\* A threshold of the schema breakers is raised only by a breaker that tripped.
Raised ==
    /\ \A t \in Tools : toolNext[t] # SchemaThreshold =>
         \E j \in Current(t) : "per_tool" \in log[j].hints
    /\ aggNext # AggregateThreshold =>
         \E j \in 1..Len(log) : log[j].hints \cap Breakers # {}

\* A threshold that was reached is at least twice the first one: that of a tool
\* from its breaker on, that over all tools from the first result that reached it.
Levels ==
    /\ \A t \in Tools :
         /\ toolNext[t] >= SchemaThreshold
         /\ (\E j \in Current(t) : "per_tool" \in log[j].hints) =>
              toolNext[t] >= 2 * SchemaThreshold
    /\ \/ aggNext = AggregateThreshold /\ \A j \in 1..Len(log) : ~Alternates(j)
       \/ aggNext >= 2 * AggregateThreshold /\ \E j \in 1..Len(log) : Alternates(j)

IInv ==
    /\ TypeOK
    /\ Numbered /\ Repeating /\ LoopsWarned
    /\ (\A t \in Tools, k \in Kinds : Counted(t, k)) /\ FailuresWarned
    /\ Windowed /\ Raised /\ BreakersTrip
    /\ Levels /\ SchemaHintsOwed
-----------------------------------------------------------------------------
\* What a result does to the messages: m is added, for the first call to do.
Writes(m) ==
    /\ m \in Message
    /\ todo # <<>>
    /\ m.step = Len(asked) /\ m.tool = Head(todo).tool
    /\ ("loop" \in m.hints) = (looping /\ Len(todo) = 1)
    /\ log' = Append(log, m)
    /\ todo' = Tail(todo)
    /\ UNCHANGED <<last, repeats, looping, asked>>

\* What it does to the records of failures, and the warning that goes with it.
Records(m) ==
    LET p == <<m.tool, m.outcome>>
    IN  IF m.outcome = "ok"
        THEN /\ records' = [q \in Tools \X Kinds |->
                              IF q[1] = m.tool THEN NoRecord ELSE records[q]]
             /\ "consecutive" \notin m.hints
        ELSE /\ records' = [records EXCEPT ![p] = Failed(@)]
             /\ ("consecutive" \in m.hints) =
                  (records[p].count + 1 >= records[p].next)

\* What it does to the window and the thresholds of the schema breakers, and
\* the breaker that trips.
Window(m) ==
    window' = IF Counts(m) THEN PushOutcome(m.tool, m.outcome = "schema")
              ELSE window
Thresholds(m) ==
    LET schema == m.outcome = "schema"
        perTool == schema /\ PerToolTrips(window', m.tool)
        aggregate == schema /\ AggregateTrips(window')
    IN  /\ toolNext' = IF m.outcome = "ok"
                       THEN [toolNext EXCEPT ![m.tool] = SchemaThreshold]
                       ELSE IF perTool
                       THEN [toolNext EXCEPT ![m.tool] = 2 * @]
                       ELSE toolNext
        /\ aggNext' = IF aggregate THEN 2 * aggNext ELSE aggNext
        /\ ("per_tool" \in m.hints) = perTool
        /\ ("aggregate" \in m.hints) = (aggregate /\ ~perTool)

\* The messages before the one added are what they were, and so is what is said
\* of the history before them.
LEMMA Prefix ==
    ASSUME log \in Seq(Message), NEW m \in Message, log' = Append(log, m)
    PROVE  /\ log' \in Seq(Message)
           /\ Len(log') = Len(log) + 1
           /\ log'[Len(log) + 1] = m
           /\ \A i \in 1..Len(log) :
                /\ log'[i] = log[i]
                /\ SinceSuccess(i)' = SinceSuccess(i)
                /\ SameFailures(i)' = SameFailures(i)
                /\ FailureNumber(i)' = FailureNumber(i)
<1>1. /\ log' \in Seq(Message)
      /\ Len(log') = Len(log) + 1
      /\ log'[Len(log) + 1] = m
      /\ \A i \in 1..Len(log) : log'[i] = log[i]
  OBVIOUS
<1>2. ASSUME NEW i \in 1..Len(log)
      PROVE  SinceSuccess(i)' = SinceSuccess(i)
  <2>1. \A j \in 1..i : j \in 1..Len(log)
    OBVIOUS
  <2>2. \A j \in 1..i : \A n \in j..i : n \in 1..Len(log)
    OBVIOUS
  <2>. QED BY <1>1, <2>1, <2>2 DEF SinceSuccess
<1>3. ASSUME NEW i \in 1..Len(log)
      PROVE  SameFailures(i)' = SameFailures(i)
  <2>1. \A j \in SinceSuccess(i) : j \in 1..Len(log)
    BY DEF SinceSuccess
  <2>. QED BY <1>1, <1>2, <2>1 DEF SameFailures
<1>. QED BY <1>1, <1>2, <1>3 DEF FailureNumber

\* The sets counted are finite.
LEMMA Finite ==
    ASSUME log \in Seq(Message)
    PROVE  /\ \A i \in 1..Len(log) :
                IsFiniteSet(SameFailures(i)) /\ FailureNumber(i) \in Nat
           /\ \A t, k :
                IsFiniteSet(Streak(t, k)) /\ Cardinality(Streak(t, k)) \in Nat
           /\ \A j \in 1..Len(log) :
                /\ IsFiniteSet(Later(j, Len(log)))
                /\ Cardinality(Later(j, Len(log))) \in Nat
<1>1. IsFiniteSet(1..Len(log))
  BY FS_Interval
<1>2. ASSUME NEW i \in 1..Len(log)
      PROVE  IsFiniteSet(SameFailures(i)) /\ FailureNumber(i) \in Nat
  <2>1. SameFailures(i) \in SUBSET (1..Len(log))
    BY DEF SameFailures, SinceSuccess
  <2>. QED BY <1>1, <2>1, FS_Subset, FS_CardinalityType DEF FailureNumber
<1>3. ASSUME NEW t, NEW k
      PROVE  IsFiniteSet(Streak(t, k)) /\ Cardinality(Streak(t, k)) \in Nat
  <2>1. Streak(t, k) \in SUBSET (1..Len(log))
    BY DEF Streak, Current
  <2>. QED BY <1>1, <2>1, FS_Subset, FS_CardinalityType
<1>4. ASSUME NEW j \in 1..Len(log)
      PROVE  /\ IsFiniteSet(Later(j, Len(log)))
             /\ Cardinality(Later(j, Len(log))) \in Nat
  <2>1. Later(j, Len(log)) \in SUBSET (1..Len(log))
    BY DEF Later
  <2>. QED BY <1>1, <2>1, FS_Subset, FS_CardinalityType
<1>. QED BY <1>2, <1>3, <1>4

\* The message added belongs to the streak of its failure, a success ends the
\* streaks of its tool, and the others stay as they are.
LEMMA Streaks ==
    ASSUME log \in Seq(Message), NEW m \in Message, log' = Append(log, m),
           NEW n \in Nat, n = Len(log) + 1, NEW t \in Tools
    PROVE  /\ Current(t)' = IF m.tool # t THEN Current(t)
                            ELSE IF m.outcome = "ok" THEN {}
                            ELSE Current(t) \cup {n}
           /\ \A k \in Kinds :
                Streak(t, k)' = IF m.tool # t THEN Streak(t, k)
                                ELSE IF m.outcome = "ok" THEN {}
                                ELSE IF m.outcome = k
                                     THEN Streak(t, k) \cup {n}
                                ELSE Streak(t, k)
           /\ m.tool = t => SinceSuccess(n)' = Current(t)'
           /\ m.tool = t /\ m.outcome # "ok" =>
                SameFailures(n)' = Streak(t, m.outcome)'
<1>1. /\ Len(log') = n /\ log'[n] = m
      /\ \A i \in 1..Len(log) : log'[i] = log[i]
  BY Prefix
<1>2. \A j : j \in 1..n <=> j \in 1..Len(log) \/ j = n
  OBVIOUS
<1>3. \A j \in 1..Len(log) : \A i : i \in j..n <=> i \in j..Len(log) \/ i = n
  OBVIOUS
<1>4. \A j \in 1..Len(log) : \A i \in j..Len(log) : i \in 1..Len(log)
  OBVIOUS
<1>5. \A i : i \in n..n <=> i = n
  OBVIOUS
<1>6. Current(t)' = IF m.tool # t THEN Current(t)
                    ELSE IF m.outcome = "ok" THEN {} ELSE Current(t) \cup {n}
  <2>1. Current(t)' = {j \in 1..n :
                        /\ log'[j].tool = t
                        /\ \A i \in j..n :
                             log'[i].tool = t => log'[i].outcome # "ok"}
    BY <1>1 DEF Current
  <2>2. \A j \in 1..Len(log) :
           j \in Current(t)' <=>
             j \in Current(t) /\ (m.tool = t => m.outcome # "ok")
    BY <1>1, <1>2, <1>3, <1>4, <2>1 DEF Current
  <2>3. n \in Current(t)' <=> m.tool = t /\ m.outcome # "ok"
    BY <1>1, <1>2, <1>5, <2>1
  <2>4. n \notin Current(t)
    BY DEF Current
  <2>5. \A j \in Current(t)' : j \in 1..Len(log) \/ j = n
    BY <2>1, <1>2
  <2>6. \A j \in Current(t) : j \in 1..Len(log)
    BY DEF Current
  <2>7. CASE m.tool # t
    <3>1. \A j : j \in Current(t)' <=> j \in Current(t)
      BY <2>2, <2>3, <2>5, <2>6, <2>7
    <3>2. Current(t)' = Current(t)
      BY <3>1
    <3>. QED BY <2>7, <3>2
  <2>8. CASE m.tool = t /\ m.outcome = "ok"
    BY <2>2, <2>3, <2>4, <2>5, <2>6, <2>8
  <2>9. CASE m.tool = t /\ m.outcome # "ok"
    BY <2>2, <2>3, <2>4, <2>5, <2>6, <2>9
  <2>. QED BY <2>7, <2>8, <2>9
<1>7. \A k \in Kinds : n \notin Streak(t, k)
  BY DEF Streak, Current
<1>8. \A j \in Current(t) : j \in 1..Len(log)
  BY DEF Current
<1>9. ASSUME NEW k \in Kinds
      PROVE  Streak(t, k)' = IF m.tool # t THEN Streak(t, k)
                             ELSE IF m.outcome = "ok" THEN {}
                             ELSE IF m.outcome = k THEN Streak(t, k) \cup {n}
                             ELSE Streak(t, k)
  <2>1. Streak(t, k)' = {j \in Current(t)' : log'[j].outcome = k}
    BY DEF Streak
  <2>. QED BY <1>1, <1>6, <1>8, <2>1 DEF Streak
<1>10. m.tool = t => SinceSuccess(n)' = Current(t)'
  <2>1. SinceSuccess(n)' = {j \in 1..n : log'[j].tool = log'[n].tool
           /\ \A i \in j..n : log'[i].tool = log'[n].tool => log'[i].outcome # "ok"}
    BY DEF SinceSuccess
  <2>. QED BY <1>1, <2>1 DEF Current
<1>11. m.tool = t /\ m.outcome # "ok" => SameFailures(n)' = Streak(t, m.outcome)'
  <2>1. SameFailures(n)' = {j \in SinceSuccess(n)' : log'[j].outcome = log'[n].outcome}
    BY DEF SameFailures
  <2>. QED BY <1>1, <1>10, <2>1 DEF Streak
<1>. QED BY <1>6, <1>9, <1>10, <1>11
-----------------------------------------------------------------------------
\* Every result adds one message and does to the trackers what this message
\* says.
LEMMA MessageOf ==
    ASSUME TypeOK, NEW outcome \in Outcomes,
           NEW hints \in SUBSET {"consecutive", "per_tool", "aggregate"},
           WriteMessage(outcome, hints), todo # <<>>
    PROVE  \E m \in Message :
             /\ Writes(m)
             /\ m.tool = Head(todo).tool /\ m.outcome = outcome
             /\ m.hints \ {"loop"} = hints
<1>. DEFINE m == [step |-> Len(asked), tool |-> Head(todo).tool,
                  outcome |-> outcome,
                  hints |-> hints \cup
                    {h \in {"loop"} : looping /\ Len(todo) = 1}]
<1>1. Head(todo) \in Call /\ Len(asked) \in Nat
  BY DEF TypeOK
<1>2. m.hints \subseteq Hints
  BY DEF Hints
<1>3. m \in Message
  BY <1>1, <1>2 DEF Message, Call
<1>4. Writes(m)
  <2>1. ("loop" \in m.hints) = (looping /\ Len(todo) = 1)
    OBVIOUS
  <2>. QED BY <1>3, <2>1 DEF Writes, WriteMessage
<1>5. m.hints \ {"loop"} = hints
  OBVIOUS
<1>. QED BY <1>3, <1>4, <1>5

LEMMA ResultWrites ==
    ASSUME TypeOK, Result
    PROVE  \E m \in Message :
             Writes(m) /\ Records(m) /\ Window(m) /\ Thresholds(m)
<1>. USE BreakerAssumption
<1>1. CASE Succeeds
  <2>1. PICK m \in Message : /\ Writes(m)
                             /\ m.tool = Head(todo).tool /\ m.outcome = "ok"
                             /\ m.hints \ {"loop"} = {}
    BY <1>1, MessageOf DEF Succeeds, Outcomes
  <2>2. Records(m)
    BY <1>1, <2>1 DEF Succeeds, Records
  <2>3. Window(m)
    BY <1>1, <2>1 DEF Succeeds, Window, Counts
  <2>4. Thresholds(m)
    BY <1>1, <2>1 DEF Succeeds, Thresholds
  <2>. QED BY <2>1, <2>2, <2>3, <2>4
<1>2. ASSUME NEW kind \in Kinds, Fails(kind)
      PROVE  \E m \in Message :
               Writes(m) /\ Records(m) /\ Window(m) /\ Thresholds(m)
  <2>. DEFINE H == {h \in {"consecutive"} :
                     records[<<Head(todo).tool, kind>>].count + 1
                       >= records[<<Head(todo).tool, kind>>].next}
  <2>1. H \in SUBSET {"consecutive", "per_tool", "aggregate"}
    OBVIOUS
  <2>2. WriteMessage(kind, H) /\ todo # <<>> /\ kind # "schema"
    BY <1>2 DEF Fails
  <2>. HIDE DEF H
  <2>3. PICK m \in Message : /\ Writes(m)
                             /\ m.tool = Head(todo).tool /\ m.outcome = kind
                             /\ m.hints \ {"loop"} = H
    BY <2>1, <2>2, MessageOf DEF Outcomes
  <2>4. Records(m)
    <3>1. ("consecutive" \in m.hints) = ("consecutive" \in H)
      BY <2>3
    <3>. QED BY <1>2, <2>3, <3>1 DEF Fails, Records, H
  <2>5. Window(m)
    BY <1>2, <2>3 DEF Fails, Window, Counts
  <2>6. "per_tool" \notin m.hints /\ "aggregate" \notin m.hints
    BY <2>3 DEF H
  <2>7. Thresholds(m)
    BY <1>2, <2>2, <2>3, <2>6 DEF Fails, Thresholds
  <2>. QED BY <2>3, <2>4, <2>5, <2>7
<1>3. CASE FailsSchema
  <2>. DEFINE t == Head(todo).tool
              w == PushOutcome(t, TRUE)
              A == {h \in {"consecutive"} : records[<<t, "schema">>].count + 1
                                             >= records[<<t, "schema">>].next}
              B == {h \in {"per_tool"} : PerToolTrips(w, t)}
              C == {h \in {"aggregate"} : AggregateTrips(w) /\ ~PerToolTrips(w, t)}
              H == A \cup B \cup C
  <2>1. H \in SUBSET {"consecutive", "per_tool", "aggregate"}
    OBVIOUS
  <2>2. /\ WriteMessage("schema", H) /\ todo # <<>>
        /\ records' = [records EXCEPT ![<<t, "schema">>] = Failed(@)]
        /\ window' = w
        /\ toolNext' = IF PerToolTrips(w, t)
                       THEN [toolNext EXCEPT ![t] = 2 * @] ELSE toolNext
        /\ aggNext' = IF AggregateTrips(w) THEN 2 * aggNext ELSE aggNext
    BY <1>3 DEF FailsSchema, NextAggregate
  <2>3. /\ "consecutive" \in H <=> records[<<t, "schema">>].count + 1
                                     >= records[<<t, "schema">>].next
        /\ "per_tool" \in H <=> PerToolTrips(w, t)
        /\ "aggregate" \in H <=> AggregateTrips(w) /\ ~PerToolTrips(w, t)
    OBVIOUS
  <2>. HIDE DEF H, A, B, C
  <2>4. PICK m \in Message : /\ Writes(m)
                             /\ m.tool = t /\ m.outcome = "schema"
                             /\ m.hints \ {"loop"} = H
    BY <2>1, <2>2, MessageOf DEF Outcomes
  <2>5. \A h \in {"consecutive", "per_tool", "aggregate"} :
           h \in m.hints <=> h \in H
    BY <2>4
  <2>. HIDE DEF t, w
  <2>6. Records(m)
    BY <2>2, <2>3, <2>4, <2>5 DEF Records
  <2>7. Window(m)
    BY <2>2, <2>4 DEF Window, Counts, w
  <2>8. Thresholds(m)
    BY <2>2, <2>3, <2>4, <2>5 DEF Thresholds
  <2>. QED BY <2>4, <2>6, <2>7, <2>8
<1>. QED BY <1>1, <1>2, <1>3 DEF Result
-----------------------------------------------------------------------------
\* The window never holds more than WindowSize outcomes.
LEMMA PushedType ==
    ASSUME TypeOK, NEW t \in Tools, NEW failed \in BOOLEAN
    PROVE  /\ PushOutcome(t, failed) \in Seq([tool : Tools, failed : BOOLEAN])
           /\ Len(PushOutcome(t, failed)) <= WindowSize
<1>. DEFINE Outcome == [tool : Tools, failed : BOOLEAN]
            o == [tool |-> t, failed |-> failed]
            w == Append(window, o)
<1>1. o \in Outcome /\ window \in Seq(Outcome)
  BY DEF TypeOK
<1>2. WindowSize \in Nat /\ Len(window) <= WindowSize /\ Len(window) \in Nat
  BY BreakerAssumption DEF TypeOK
<1>3. PushOutcome(t, failed) = IF Len(w) > WindowSize THEN Tail(w) ELSE w
  BY DEF PushOutcome
<1>. HIDE DEF o, Outcome
<1>4. w \in Seq(Outcome) /\ Len(w) = Len(window) + 1
  BY <1>1
<1>. HIDE DEF w
<1>5. Tail(w) \in Seq(Outcome) /\ Len(Tail(w)) = Len(window)
  BY <1>2, <1>4
<1>6. /\ PushOutcome(t, failed) \in Seq(Outcome)
      /\ Len(PushOutcome(t, failed)) <= WindowSize
  BY <1>2, <1>3, <1>4, <1>5
<1>. QED BY <1>6 DEF Outcome

LEMMA BeginStepTypes ==
    ASSUME TypeOK, Numbered, BeginStep
    PROVE  TypeOK' /\ Numbered'
<1>1. PICK step \in Steps :
        /\ Len(log) + Len(step) <= MaxResults
        /\ last' = step
        /\ repeats' = Repeated(step)
        /\ looping' = (Repeated(step) >= ActionThreshold)
        /\ todo' = step
        /\ asked' = Append(asked, step)
  BY DEF BeginStep
<1>2. step \in Seq(Call)
  BY DEF Steps
<1>3. Repeated(step) \in Nat
  BY DEF Repeated, TypeOK
<1>4. asked' \in Seq(Steps) /\ Len(asked') = Len(asked) + 1 /\ asked' # <<>>
  BY <1>1 DEF TypeOK
<1>5. TypeOK'
  BY <1>1, <1>2, <1>3, <1>4 DEF TypeOK, BeginStep
<1>6. \A i \in 1..Len(log) : log[i].step \in 1..Len(asked')
  <2>1. Len(asked) \in Nat
    BY DEF TypeOK
  <2>. QED BY <1>4, <2>1 DEF Numbered
<1>7. Numbered'
  BY <1>1, <1>4, <1>6 DEF Numbered, BeginStep
<1>. QED BY <1>5, <1>7

LEMMA ResultTypes ==
    ASSUME TypeOK, Numbered, NEW m \in Message,
           Writes(m), Records(m), Window(m), Thresholds(m)
    PROVE  TypeOK' /\ Numbered'
<1>. USE BreakerAssumption
<1>1. /\ log' \in Seq(Message) /\ Len(log') = Len(log) + 1
      /\ log'[Len(log) + 1] = m
      /\ \A i \in 1..Len(log) : log'[i] = log[i]
  BY Prefix DEF TypeOK, Writes
<1>2. /\ todo' \in Seq(Call) /\ Len(todo') = Len(todo) - 1
      /\ Len(todo) \in Nat \ {0} /\ Len(log) \in Nat
  BY DEF TypeOK, Writes
<1>3. Numbered'
  <2>1. todo' # <<>> => asked' # <<>>
    BY DEF Writes, Numbered
  <2>2. Len(log') + Len(todo') <= MaxResults
    BY <1>1, <1>2 DEF Numbered
  <2>3. Len(asked) \in Nat \ {0} /\ m.step \in 1..Len(asked)
    BY DEF TypeOK, Writes, Numbered
  <2>4. \A i \in 1..Len(log') : log'[i].step \in 1..Len(asked)
    <3>1. \A i \in 1..Len(log') : i \in 1..Len(log) \/ i = Len(log) + 1
      BY <1>1, <1>2
    <3>. QED BY <1>1, <2>3, <3>1 DEF Numbered
  <2>. QED BY <2>1, <2>2, <2>4 DEF Numbered, Writes
<1>4. Len(log') <= MaxResults
  BY <1>1, <1>2 DEF Numbered
<1>5. m.tool \in Tools /\ m.outcome \in Outcomes
  BY DEF Message
<1>6. records' \in [Tools \X Kinds -> [count : Nat, next : Nat]]
  <2>1. NoRecord \in [count : Nat, next : Nat]
    BY DEF NoRecord
  <2>2. \A r \in [count : Nat, next : Nat] : Failed(r) \in [count : Nat, next : Nat]
    BY DEF Failed
  <2>3. CASE m.outcome = "ok"
    BY <2>1, <2>3 DEF Records, TypeOK
  <2>4. CASE m.outcome # "ok"
    <3>1. <<m.tool, m.outcome>> \in Tools \X Kinds
      BY <1>5, <2>4 DEF Outcomes
    <3>2. records \in [Tools \X Kinds -> [count : Nat, next : Nat]]
      BY DEF TypeOK
    <3>3. Failed(records[<<m.tool, m.outcome>>]) \in [count : Nat, next : Nat]
      BY <2>2, <3>1, <3>2
    <3>4. records' = [records EXCEPT ![<<m.tool, m.outcome>>] =
                        Failed(records[<<m.tool, m.outcome>>])]
      BY <2>4 DEF Records
    <3>. QED BY <3>1, <3>2, <3>3, <3>4
  <2>. QED BY <2>3, <2>4
<1>7. /\ window' \in Seq([tool : Tools, failed : BOOLEAN])
      /\ Len(window') <= WindowSize
  BY <1>5, PushedType DEF Window, TypeOK
<1>8. toolNext' \in [Tools -> Nat] /\ aggNext' \in Nat
  BY <1>5 DEF Thresholds, TypeOK
<1>. QED BY <1>1, <1>2, <1>3, <1>4, <1>6, <1>7, <1>8 DEF TypeOK, Writes
-----------------------------------------------------------------------------
\* A new step is compared with the one before it.
LEMMA BeginStepLoops ==
    ASSUME TypeOK, Numbered, Repeating, LoopsWarned, BeginStep
    PROVE  Repeating' /\ LoopsWarned'
<1>. USE BreakerAssumption
<1>. DEFINE a == Len(asked)
<1>1. PICK step \in Steps :
        /\ last' = step
        /\ repeats' = Repeated(step)
        /\ looping' = (Repeated(step) >= ActionThreshold)
        /\ todo' = step
        /\ asked' = Append(asked, step)
  BY DEF BeginStep
<1>2. todo = <<>> /\ log' = log
  BY DEF BeginStep
<1>3. /\ a \in Nat /\ repeats \in Nat /\ Len(asked') = a + 1
      /\ asked'[a + 1] = step
      /\ \A i \in 1..a : asked'[i] = asked[i]
  BY <1>1 DEF TypeOK
<1>4. step # <<>>
  BY DEF Steps
<1>5. Repeating'
  <2>1. CASE last = step
    <3>1. a >= 1 /\ repeats >= 1 /\ repeats <= a
      BY <1>3, <1>4, <2>1 DEF Repeating, TypeOK
    <3>2. repeats' = repeats + 1
      BY <1>1, <2>1 DEF Repeated
    <3>3. \A p \in 0..(repeats' - 1) : asked'[Len(asked') - p] = step
      <4>1. ASSUME NEW p \in 0..repeats
            PROVE  asked'[a + 1 - p] = step
        <5>1. CASE p = 0
          BY <1>3, <5>1
        <5>2. CASE p # 0
          <6>1. p - 1 \in 0..(repeats - 1) /\ a - (p - 1) \in 1..a
            BY <1>3, <3>1, <5>2
          <6>2. asked[a - (p - 1)] = last
            BY <6>1 DEF Repeating
          <6>3. a + 1 - p = a - (p - 1)
            BY <1>3
          <6>. QED BY <1>3, <2>1, <6>1, <6>2, <6>3
        <5>. QED BY <5>1, <5>2
      <4>. QED BY <1>3, <3>2, <4>1
    <3>4. repeats' < Len(asked') => asked'[Len(asked') - repeats'] # step
      <4>1. ASSUME repeats < a
            PROVE  asked'[a - repeats] # step
        <5>1. a - repeats \in 1..a
          BY <1>3, <3>1, <4>1
        <5>. QED BY <1>3, <2>1, <4>1, <5>1 DEF Repeating
      <4>2. a + 1 - (repeats + 1) = a - repeats
        BY <1>3
      <4>. QED BY <1>3, <3>2, <4>1, <4>2
    <3>. QED BY <1>1, <1>3, <3>1, <3>2, <3>3, <3>4 DEF Repeating
  <2>2. CASE last # step
    <3>1. repeats' = 1
      BY <1>1, <2>2 DEF Repeated
    <3>2. \A p \in 0..(repeats' - 1) : asked'[Len(asked') - p] = step
      BY <1>3, <3>1
    <3>3. repeats' < Len(asked') => asked'[Len(asked') - repeats'] # step
      <4>1. ASSUME a >= 1
            PROVE  asked'[a] # step
        BY <1>3, <2>2, <4>1 DEF Repeating, TypeOK
      <4>2. a + 1 - 1 = a
        BY <1>3
      <4>. QED BY <1>3, <3>1, <4>1, <4>2
    <3>. QED BY <1>1, <1>3, <3>1, <3>2, <3>3 DEF Repeating
  <2>. QED BY <2>1, <2>2
<1>6. LoopsWarned'
  <2>. SUFFICES ASSUME NEW i \in 1..Len(log)
                PROVE  ("loop" \in log[i].hints) =
                         /\ LastOfStep(i)'
                         /\ log[i].step >= ActionThreshold
                         /\ \A p \in 1..(ActionThreshold - 1) :
                              asked'[log[i].step - p] = asked'[log[i].step]
    BY <1>2 DEF LoopsWarned
  <2>1. log[i].step \in 1..a
    BY DEF Numbered
  <2>2. LastOfStep(i)' = LastOfStep(i)
    BY <1>2, <1>3, <2>1 DEF LastOfStep
  <2>3. ASSUME log[i].step >= ActionThreshold, NEW p \in 1..(ActionThreshold - 1)
        PROVE  /\ asked'[log[i].step - p] = asked[log[i].step - p]
               /\ asked'[log[i].step] = asked[log[i].step]
    <3>1. log[i].step - p \in 1..a
      BY <1>3, <2>1, <2>3
    <3>. QED BY <1>3, <2>1, <3>1
  <2>. QED BY <2>2, <2>3 DEF LoopsWarned
<1>. QED BY <1>5, <1>6

\* Only the last message of the step has the warning, if any.
LEMMA ResultLoops ==
    ASSUME TypeOK, Numbered, Repeating, LoopsWarned, NEW m \in Message, Writes(m)
    PROVE  Repeating' /\ LoopsWarned'
<1>. USE BreakerAssumption
<1>. DEFINE l == Len(log)
            Repeats(s) == /\ s >= ActionThreshold
                          /\ \A p \in 1..(ActionThreshold - 1) :
                               asked[s - p] = asked[s]
<1>1. Repeating'
  BY DEF Repeating, Writes
<1>2. /\ Len(log') = l + 1 /\ log'[l + 1] = m /\ l \in Nat
      /\ \A i \in 1..l : log'[i] = log[i]
  BY Prefix DEF TypeOK, Writes
<1>3. Len(asked) \in Nat \ {0} /\ m.step = Len(asked)
  BY DEF TypeOK, Writes, Numbered
<1>4. todo' = <<>> <=> Len(todo) = 1
  <2>1. todo \in Seq(Call) /\ todo # <<>> /\ todo' = Tail(todo)
    BY DEF TypeOK, Writes
  <2>2. todo' \in Seq(Call) /\ Len(todo') = Len(todo) - 1
    BY <2>1
  <2>3. todo' = <<>> <=> Len(todo') = 0
    BY <2>2
  <2>. QED BY <2>1, <2>2, <2>3
<1>5. ASSUME NEW i \in 1..l
      PROVE  LastOfStep(i)' = LastOfStep(i)
  <2>1. log[i].step \in 1..Len(asked) /\ todo # <<>> /\ asked' = asked
    BY DEF Numbered, Writes
  <2>2. CASE i < l
    <3>1. i + 1 \in 1..l /\ i < l + 1
      BY <1>2, <2>2
    <3>. QED BY <1>2, <2>2, <3>1 DEF LastOfStep
  <2>3. CASE i = l
    <3>1. LastOfStep(i)' = (m.step # log[i].step)
      BY <1>2, <2>3 DEF LastOfStep
    <3>2. LastOfStep(i) = (Len(asked) > log[i].step)
      BY <1>2, <2>1, <2>3 DEF LastOfStep
    <3>. QED BY <1>3, <2>1, <3>1, <3>2
  <2>. QED BY <1>2, <2>2, <2>3
<1>6. ASSUME NEW i \in 1..l
      PROVE  ("loop" \in log'[i].hints) =
               (LastOfStep(i)' /\ Repeats(log'[i].step))
  BY <1>2, <1>5 DEF LoopsWarned
<1>7. ("loop" \in m.hints) = (Len(todo) = 1 /\ Repeats(Len(asked)))
  <2>1. repeats >= ActionThreshold <=> Repeats(Len(asked))
    <3>. DEFINE a == Len(asked)
    <3>1. /\ a \in Nat \ {0} /\ repeats \in Nat /\ repeats >= 1
          /\ repeats <= a /\ last = asked[a]
          /\ ActionThreshold \in Nat \ {0}
      BY <1>3 DEF TypeOK, Repeating
    <3>2. ASSUME repeats >= ActionThreshold
          PROVE  Repeats(a)
      <4>1. \A p \in 1..(ActionThreshold - 1) : p \in 0..(repeats - 1)
        BY <3>1, <3>2
      <4>. QED BY <3>1, <3>2, <4>1 DEF Repeating
    <3>3. ASSUME repeats < ActionThreshold, Repeats(a)
          PROVE  FALSE
      <4>1. repeats \in 1..(ActionThreshold - 1) /\ repeats < a
        BY <3>1, <3>3
      <4>. QED BY <3>1, <3>3, <4>1 DEF Repeating
    <3>. QED BY <3>1, <3>2, <3>3
  <2>2. looping = (repeats >= ActionThreshold)
    BY DEF Repeating
  <2>3. ("loop" \in m.hints) = (looping /\ Len(todo) = 1)
    BY DEF Writes
  <2>. HIDE DEF Repeats
  <2>. QED BY <2>1, <2>2, <2>3
<1>8. ASSUME NEW i \in 1..(l + 1)
      PROVE  ("loop" \in log'[i].hints) =
               (LastOfStep(i)' /\ Repeats(log'[i].step))
  <2>1. CASE i = l + 1
    <3>1. LastOfStep(i)' = (todo' = <<>>)
      <4>1. LastOfStep(i)' = IF i < Len(log') THEN log'[i + 1].step # log'[i].step
                             ELSE todo' = <<>> \/ Len(asked') > log'[i].step
        BY DEF LastOfStep
      <4>. QED BY <1>2, <1>3, <2>1, <4>1 DEF Writes
    <3>. HIDE DEF Repeats
    <3>. QED BY <1>2, <1>3, <1>4, <1>7, <2>1, <3>1
  <2>2. CASE i \in 1..l
    BY <1>6, <2>2
  <2>. QED BY <1>2, <2>1, <2>2
<1>9. LoopsWarned'
  BY <1>2, <1>8 DEF LoopsWarned, Writes
<1>. QED BY <1>1, <1>9
-----------------------------------------------------------------------------
\* The record of a failure keeps pace with its streak.
LEMMA ResultCounted ==
    ASSUME TypeOK, NEW m \in Message, Writes(m), Records(m),
           NEW t \in Tools, NEW k \in Kinds, Counted(t, k)
    PROVE  Counted(t, k)'
<1>. USE BreakerAssumption
<1>. DEFINE r == records[<<t, k>>]
            Warned(j) == "consecutive" \in log[j].hints
<1>01. log \in Seq(Message) /\ Len(log) \in Nat
  BY DEF TypeOK
<1>02. PICK n \in Nat : n = Len(log) + 1
  BY <1>01
<1>0. log \in Seq(Message) /\ Len(log) \in Nat /\ n = Len(log) + 1
  BY <1>01, <1>02
<1>1. /\ log' \in Seq(Message) /\ Len(log') = n /\ log'[n] = m
      /\ \A i \in 1..Len(log) :
           log'[i] = log[i] /\ FailureNumber(i)' = FailureNumber(i)
  BY <1>0, Prefix DEF Writes
<1>2. \A j \in Streak(t, k) : j \in 1..Len(log)
  BY DEF Streak, Current
<1>3. r \in [count : Nat, next : Nat]
  BY DEF TypeOK
<1>4. IsFiniteSet(Streak(t, k)) /\ Cardinality(Streak(t, k)) \in Nat
  BY <1>0, Finite
<1>5. Streak(t, k)' = IF m.tool # t THEN Streak(t, k)
                      ELSE IF m.outcome = "ok" THEN {}
                      ELSE IF m.outcome = k THEN Streak(t, k) \cup {n}
                      ELSE Streak(t, k)
  BY <1>0, Streaks DEF Writes
<1>6. m.tool \in Tools /\ m.outcome \in Outcomes
  BY DEF Message
<1>7. records \in [Tools \X Kinds -> [count : Nat, next : Nat]]
  BY DEF TypeOK
<1>8. ASSUME records'[<<t, k>>] = r, Streak(t, k)' = Streak(t, k)
      PROVE  Counted(t, k)'
  <2>. QED BY <1>1, <1>2, <1>8 DEF Counted
<1>9. CASE m.tool = t /\ m.outcome = "ok"
  <2>1. records'[<<t, k>>] = NoRecord
    BY <1>7, <1>9 DEF Records
  <2>2. Streak(t, k)' = {}
    BY <1>5, <1>9
  <2>. QED BY <2>1, <2>2, FS_EmptySet DEF Counted, NoRecord
<1>10. CASE m.tool = t /\ m.outcome = k
  <2>1. m.outcome # "ok" /\ <<m.tool, m.outcome>> = <<t, k>>
    BY <1>10
  <2>2. /\ records'[<<t, k>>] = Failed(r)
        /\ ("consecutive" \in m.hints) = (r.count + 1 >= r.next)
    BY <1>7, <2>1 DEF Records
  <2>3. Streak(t, k)' = Streak(t, k) \cup {n}
    BY <1>5, <1>10, <2>1
  <2>4. n \notin Streak(t, k)
    BY <1>0, <1>2
  <2>5. Cardinality(Streak(t, k)') = r.count + 1
    <3>1. Cardinality(Streak(t, k) \cup {n}) = Cardinality(Streak(t, k)) + 1
      BY <1>4, <2>4, FS_AddElement
    <3>. QED BY <1>4, <2>3, <3>1 DEF Counted
  <2>6. FailureNumber(n)' = r.count + 1
    <3>1. SameFailures(n)' = Streak(t, k)'
      BY <1>0, <1>10, <2>1, Streaks DEF Writes
    <3>. QED BY <2>5, <3>1 DEF FailureNumber
  <2>. DEFINE c == r.count + 1
              x == IF c >= r.next THEN r.next * 2 ELSE r.next
  <2>7. /\ records'[<<t, k>>].count = c /\ records'[<<t, k>>].next = x
        /\ c \in Nat /\ c <= r.next
    BY <1>3, <2>2 DEF Failed, Counted
  <2>8. \A j \in Streak(t, k) : /\ ("consecutive" \in log'[j].hints) = Warned(j)
                                /\ FailureNumber(j)' = FailureNumber(j)
    BY <1>1, <1>2
  <2>9. \/ x = FailureThreshold
        \/ \E j \in Streak(t, k)' : /\ "consecutive" \in log'[j].hints
                                     /\ x = 2 * FailureNumber(j)'
    <3>1. CASE c >= r.next
      <4>1. "consecutive" \in log'[n].hints /\ x = 2 * FailureNumber(n)'
        BY <1>1, <1>3, <2>2, <2>6, <2>7, <3>1
      <4>. QED BY <2>3, <4>1
    <3>2. CASE c < r.next
      BY <1>3, <2>3, <2>8, <3>2 DEF Counted
    <3>. QED BY <1>3, <2>7, <3>1, <3>2
  <2>10. \A j \in Streak(t, k)' : "consecutive" \in log'[j].hints =>
           2 * FailureNumber(j)' = x \/ 2 * FailureNumber(j)' <= c
    <3>1. ASSUME NEW j \in Streak(t, k), Warned(j)
          PROVE  2 * FailureNumber(j) = x \/ 2 * FailureNumber(j) <= c
      <4>1. FailureNumber(j) \in Nat
        BY <1>0, <1>2, Finite
      <4>2. 2 * FailureNumber(j) = r.next \/ 2 * FailureNumber(j) <= r.count
        BY <3>1 DEF Counted
      <4>. QED BY <1>3, <2>7, <4>1, <4>2
    <3>2. "consecutive" \in log'[n].hints => 2 * FailureNumber(n)' = x
      BY <1>1, <1>3, <2>2, <2>6, <2>7
    <3>. QED BY <2>3, <2>8, <3>1, <3>2
  <2>11. x = FailureThreshold \/ FailureThreshold <= c
    BY <1>3, <2>7 DEF Counted
  <2>12. c < x
    BY <1>3, <2>7
  <2>. HIDE DEF c, x
  <2>. QED BY <2>5, <2>7, <2>9, <2>10, <2>11, <2>12 DEF Counted, c
<1>11. CASE m.tool # t \/ m.outcome \notin {"ok", k}
  <2>1. Streak(t, k)' = Streak(t, k)
    BY <1>5, <1>11
  <2>2. records'[<<t, k>>] = r
    <3>1. CASE m.outcome = "ok"
      BY <1>7, <1>11, <3>1 DEF Records
    <3>2. CASE m.outcome # "ok"
      <4>1. <<m.tool, m.outcome>> # <<t, k>>
        BY <1>11
      <4>2. records' = [records EXCEPT ![<<m.tool, m.outcome>>] =
                          Failed(records[<<m.tool, m.outcome>>])]
        BY <3>2 DEF Records
      <4>. QED BY <1>7, <4>1, <4>2
    <3>. QED BY <3>1, <3>2
  <2>. QED BY <1>8, <2>1, <2>2
<1>. QED BY <1>9, <1>10, <1>11

\* The number of the failure added is one more than the record had counted, so
\* it has the warning exactly if it reaches the threshold.
LEMMA ResultWarned ==
    ASSUME TypeOK, \A t \in Tools, k \in Kinds : Counted(t, k), FailuresWarned,
           NEW m \in Message, Writes(m), Records(m)
    PROVE  FailuresWarned'
<1>. USE BreakerAssumption
<1>1. log \in Seq(Message) /\ Len(log) \in Nat
  BY DEF TypeOK
<1>2. PICK n \in Nat : n = Len(log) + 1
  BY <1>1
<1>3. /\ log' \in Seq(Message) /\ Len(log') = n /\ log'[n] = m
      /\ \A i \in 1..Len(log) :
           /\ log'[i] = log[i]
           /\ SameFailures(i)' = SameFailures(i)
           /\ FailureNumber(i)' = FailureNumber(i)
  BY <1>1, <1>2, Prefix DEF Writes
<1>4. ASSUME NEW i \in 1..Len(log)
      PROVE  "consecutive" \in log'[i].hints <=>
               \/ FailureNumber(i)' = FailureThreshold
               \/ \E j \in SameFailures(i)' :
                     /\ "consecutive" \in log'[j].hints
                     /\ FailureNumber(i)' = 2 * FailureNumber(j)'
  <2>1. \A j \in SameFailures(i) : j \in 1..Len(log)
    BY <1>1 DEF SameFailures, SinceSuccess
  <2>2. \A j \in SameFailures(i) :
          log'[j] = log[j] /\ FailureNumber(j)' = FailureNumber(j)
    BY <1>3, <2>1
  <2>3. /\ log'[i] = log[i] /\ SameFailures(i)' = SameFailures(i)
        /\ FailureNumber(i)' = FailureNumber(i)
    BY <1>3
  <2>4. ("consecutive" \in log[i].hints) =
               \/ FailureNumber(i) = FailureThreshold
               \/ \E j \in SameFailures(i) :
                     /\ "consecutive" \in log[j].hints
                     /\ FailureNumber(i) = 2 * FailureNumber(j)
    BY DEF FailuresWarned
  <2>. QED BY <2>2, <2>3, <2>4
<1>5. m.tool \in Tools /\ m.outcome \in Outcomes
  BY DEF Message
<1>6. "consecutive" \in m.hints <=>
         \/ FailureNumber(n)' = FailureThreshold
         \/ \E j \in SameFailures(n)' :
               /\ "consecutive" \in log'[j].hints
               /\ FailureNumber(n)' = 2 * FailureNumber(j)'
  <2>1. CASE m.outcome = "ok"
    <3>1. SinceSuccess(n)' = {}
      BY <1>1, <1>2, <1>5, <2>1, Streaks DEF Writes
    <3>2. SameFailures(n)' = {}
      BY <3>1 DEF SameFailures
    <3>3. FailureNumber(n)' = 0
      BY <3>2, FS_EmptySet DEF FailureNumber
    <3>4. "consecutive" \notin m.hints
      BY <2>1 DEF Records
    <3>5. FailureThreshold # 0
      OBVIOUS
    <3>. QED BY ONLY <3>2, <3>3, <3>4, <3>5
  <2>2. CASE m.outcome # "ok"
    <3>. DEFINE t == m.tool
                k == m.outcome
                r == records[<<t, k>>]
                c == r.count + 1
    <3>1. t \in Tools /\ k \in Kinds
      BY <1>5, <2>2 DEF Outcomes
    <3>2. r \in [count : Nat, next : Nat]
      BY <3>1 DEF TypeOK
    <3>3. Counted(t, k)
      BY <3>1
    <3>4. ("consecutive" \in m.hints) = (c >= r.next)
      BY <2>2 DEF Records
    <3>5. SameFailures(n)' = Streak(t, k) \cup {n}
      <4>1. log' = Append(log, m)
        BY DEF Writes
      <4>2. SameFailures(n)' = Streak(t, m.outcome)'
        BY <1>1, <1>2, <2>2, <3>1, <4>1, Streaks
      <4>3. \A q \in Kinds : q = m.outcome => Streak(t, q)' = Streak(t, q) \cup {n}
        BY <1>1, <1>2, <2>2, <3>1, <4>1, Streaks
      <4>. QED BY <3>1, <4>2, <4>3
    <3>6. \A j \in Streak(t, k) : j \in 1..Len(log)
      BY DEF Streak, Current
    <3>7. FailureNumber(n)' = c
      <4>1. n \notin Streak(t, k) /\ IsFiniteSet(Streak(t, k))
        BY <1>1, <1>2, <3>6, Finite
      <4>2. Cardinality(Streak(t, k) \cup {n}) = Cardinality(Streak(t, k)) + 1
        BY <4>1, FS_AddElement
      <4>3. FailureNumber(n)' = Cardinality(Streak(t, k)) + 1
        BY <3>5, <4>2 DEF FailureNumber
      <4>. QED BY <3>3, <4>3 DEF Counted
    <3>8. /\ c <= r.next /\ c \in Nat \ {0} /\ r.count \in Nat /\ r.next \in Nat
          /\ r.count < c
      BY <3>2, <3>3 DEF Counted
    <3>9. \A j \in Streak(t, k) :
            /\ ("consecutive" \in log'[j].hints) = ("consecutive" \in log[j].hints)
            /\ FailureNumber(j)' = FailureNumber(j) /\ FailureNumber(j) \in Nat
      BY <1>1, <1>3, <3>6, Finite
    <3>. HIDE DEF t, k
    <3>10. ASSUME c = r.next
           PROVE  \/ c = FailureThreshold
                  \/ \E j \in SameFailures(n)' :
                        /\ "consecutive" \in log'[j].hints
                        /\ c = 2 * FailureNumber(j)'
      BY <3>3, <3>5, <3>9, <3>10 DEF Counted
    <3>11. ASSUME c # r.next
           PROVE  /\ "consecutive" \notin m.hints
                  /\ c # FailureThreshold
                  /\ \A j \in SameFailures(n)' :
                        /\ "consecutive" \in log'[j].hints
                        => c # 2 * FailureNumber(j)'
      <4>1. c < r.next
        BY <3>8, <3>11
      <4>2. "consecutive" \notin m.hints
        BY <3>4, <3>8, <4>1
      <4>3. c # FailureThreshold
        BY <3>3, <3>8, <4>1 DEF Counted
      <4>4. ASSUME NEW j \in Streak(t, k), "consecutive" \in log[j].hints
            PROVE  c # 2 * FailureNumber(j)
        <5>1. 2 * FailureNumber(j) = r.next \/ 2 * FailureNumber(j) <= r.count
          BY <3>3, <4>4 DEF Counted
        <5>2. FailureNumber(j) \in Nat
          BY <3>9
        <5>. QED BY <3>8, <4>1, <5>1, <5>2
      <4>. QED BY <1>3, <3>5, <3>9, <4>2, <4>3, <4>4
    <3>12. c >= r.next <=> c = r.next
      BY <3>8
    <3>. HIDE DEF c, r
    <3>13. CASE c = r.next
      BY ONLY <3>4, <3>7, <3>10, <3>12, <3>13
    <3>14. CASE c # r.next
      BY ONLY <3>7, <3>11, <3>14
    <3>. QED BY <3>13, <3>14
  <2>. QED BY <2>1, <2>2
<1>7. ASSUME NEW i \in 1..n
      PROVE  "consecutive" \in log'[i].hints <=>
               \/ FailureNumber(i)' = FailureThreshold
               \/ \E j \in SameFailures(i)' :
                     /\ "consecutive" \in log'[j].hints
                     /\ FailureNumber(i)' = 2 * FailureNumber(j)'
  <2>1. i \in 1..Len(log) \/ i = n
    BY <1>1, <1>2
  <2>2. CASE i = n
    BY ONLY <1>3, <1>6, <2>2
  <2>. QED BY <1>4, <2>1, <2>2
<1>8. FailuresWarned' <=>
        \A i \in 1..Len(log') :
           ("consecutive" \in log'[i].hints) =
             \/ FailureNumber(i)' = FailureThreshold
             \/ \E j \in SameFailures(i)' :
                   /\ "consecutive" \in log'[j].hints
                   /\ FailureNumber(i)' = 2 * FailureNumber(j)'
  BY ONLY DEF FailuresWarned
<1>9. ASSUME NEW i \in 1..n
      PROVE  ("consecutive" \in log'[i].hints) =
               \/ FailureNumber(i)' = FailureThreshold
               \/ \E j \in SameFailures(i)' :
                     /\ "consecutive" \in log'[j].hints
                     /\ FailureNumber(i)' = 2 * FailureNumber(j)'
  <2>. DEFINE P == "consecutive" \in log'[i].hints
              Q == \/ FailureNumber(i)' = FailureThreshold
                   \/ \E j \in SameFailures(i)' :
                        /\ "consecutive" \in log'[j].hints
                        /\ FailureNumber(i)' = 2 * FailureNumber(j)'
  <2>1. P <=> Q
    BY <1>7
  <2>2. P \in BOOLEAN /\ Q \in BOOLEAN
    OBVIOUS
  <2>. HIDE DEF P, Q
  <2>3. P = Q
    BY ONLY <2>1, <2>2
  <2>. QED BY ONLY <2>3 DEF P, Q
<1>. QED BY ONLY <1>3, <1>8, <1>9
-----------------------------------------------------------------------------
\* A message that counts is one more after each of the messages before it.
LEMMA LaterGrows ==
    ASSUME log \in Seq(Message), NEW m \in Message, log' = Append(log, m),
           NEW n \in Nat, n = Len(log) + 1
    PROVE  /\ \A j \in 1..Len(log) :
                /\ Later(j, n)' = IF Counts(m) THEN Later(j, Len(log)) \cup {n}
                                  ELSE Later(j, Len(log))
                /\ Cardinality(Later(j, n)') =
                     IF Counts(m) THEN Cardinality(Later(j, Len(log))) + 1
                     ELSE Cardinality(Later(j, Len(log)))
           /\ Counts(m) => Cardinality(Later(n, n)') = 1
<1>1. /\ Len(log') = n /\ log'[n] = m /\ Len(log) \in Nat
      /\ \A i \in 1..Len(log) : log'[i] = log[i]
  BY Prefix
<1>2. ASSUME NEW j \in 1..Len(log)
      PROVE  Later(j, n)' = IF Counts(m) THEN Later(j, Len(log)) \cup {n}
                            ELSE Later(j, Len(log))
  <2>1. \A i : i \in j..n <=> i \in j..Len(log) \/ i = n
    BY <1>1
  <2>2. \A i \in j..Len(log) : i \in 1..Len(log)
    BY <1>1
  <2>3. Later(j, n)' = {i \in j..n : Counts(log'[i])}
    BY DEF Later, Counts
  <2>4. \A i : i \in Later(j, n)' <=>
                 i \in Later(j, Len(log)) \/ (i = n /\ Counts(m))
    BY <1>1, <2>1, <2>2, <2>3 DEF Later
  <2>5. CASE Counts(m)
    BY <2>4, <2>5
  <2>6. CASE ~Counts(m)
    <3>1. Later(j, n)' = Later(j, Len(log))
      BY <2>4, <2>6
    <3>. QED BY <2>6, <3>1
  <2>. QED BY <2>5, <2>6
<1>3. ASSUME NEW j \in 1..Len(log)
      PROVE  Cardinality(Later(j, n)') =
                     IF Counts(m) THEN Cardinality(Later(j, Len(log))) + 1
                     ELSE Cardinality(Later(j, Len(log)))
  <2>1. IsFiniteSet(Later(j, Len(log)))
    BY Finite
  <2>2. n \notin Later(j, Len(log))
    BY <1>1 DEF Later
  <2>3. Cardinality(Later(j, Len(log)) \cup {n}) = Cardinality(Later(j, Len(log))) + 1
    BY <2>1, <2>2, FS_AddElement
  <2>. QED BY <1>2, <2>3
<1>4. ASSUME Counts(m)
      PROVE  Cardinality(Later(n, n)') = 1
  <2>1. Later(n, n)' = {i \in n..n : Counts(log'[i])}
    BY DEF Later, Counts
  <2>2. Later(n, n)' = {n}
    BY <1>1, <1>4, <2>1
  <2>. QED BY <2>2, FS_Singleton
<1>. QED BY <1>2, <1>3, <1>4

\* The window goes on picturing the last outcomes that count.
LEMMA ResultWindowed ==
    ASSUME TypeOK, Windowed, NEW m \in Message, Writes(m), Window(m)
    PROVE  Windowed'
<1>. DEFINE o == [tool |-> m.tool, failed |-> m.outcome = "schema"]
            Image(msg) == [tool |-> msg.tool, failed |-> msg.outcome = "schema"]
<1>01. PICK l \in Nat : l = Len(log)
  BY DEF TypeOK
<1>02. PICK w \in Nat : w = Len(window)
  BY DEF TypeOK
<1>1. /\ log \in Seq(Message) /\ l \in Nat /\ w \in Nat /\ w <= WindowSize
      /\ l = Len(log) /\ w = Len(window)
  BY <1>01, <1>02 DEF TypeOK
<1>2. WindowSize \in Nat \ {0}
  BY BreakerAssumption
<1>3. PICK n \in Nat : n = l + 1
  BY <1>1
<1>4. /\ Len(log') = n /\ log'[n] = m
      /\ \A i \in 1..l : log'[i] = log[i]
  BY <1>1, <1>3, Prefix DEF Writes
<1>5. PICK f \in [1..w -> 1..l] : Pictures(f)
  BY <1>1 DEF Windowed
<1>6. /\ \A j \in 1..l :
           Cardinality(Later(j, n)') =
             IF Counts(m) THEN Cardinality(Later(j, l)) + 1
             ELSE Cardinality(Later(j, l))
      /\ Counts(m) => Cardinality(Later(n, n)') = 1
  BY <1>1, <1>3, LaterGrows DEF Writes
<1>7. \A j \in 1..l : Cardinality(Later(j, l)) \in Nat
  BY <1>1, Finite
<1>8. /\ \A p \in 1..w :
           /\ f[p] \in 1..l
           /\ Counts(log[f[p]])
           /\ window[p] = Image(log[f[p]])
           /\ Cardinality(Later(f[p], l)) = w - p + 1
      /\ \A j \in 1..l : Counts(log[j]) /\ (\A p \in 1..w : f[p] # j) =>
           Cardinality(Later(j, l)) > WindowSize
  BY <1>1, <1>5 DEF Pictures
\* What has to be shown of the new picture.
<1>9. ASSUME NEW g, NEW v \in Nat, v = Len(window'),
             \A p \in 1..v :
               /\ g[p] \in 1..n
               /\ Counts(log'[g[p]])
               /\ window'[p] = Image(log'[g[p]])
               /\ Cardinality(Later(g[p], n)') = v - p + 1,
             \A j \in 1..n : Counts(log'[j]) /\ (\A p \in 1..v : g[p] # j) =>
               Cardinality(Later(j, n)') > WindowSize,
             g = [p \in 1..v |-> g[p]]
      PROVE  Windowed'
  <2>1. g \in [1..v -> 1..n]
    BY <1>9
  <2>2. Pictures(g)'
    BY <1>4, <1>9 DEF Pictures
  <2>. QED BY <1>4, <1>9, <2>1, <2>2 DEF Windowed
<1>10. CASE ~Counts(m)
  <2>1. window' = window
    BY <1>10 DEF Window
  <2>2. \A p \in 1..w :
               /\ f[p] \in 1..n
               /\ Counts(log'[f[p]])
               /\ window'[p] = Image(log'[f[p]])
               /\ Cardinality(Later(f[p], n)') = w - p + 1
    BY <1>1, <1>3, <1>4, <1>6, <1>8, <1>10, <2>1
  <2>3. \A j \in 1..n : j \in 1..l \/ j = n
    BY <1>1, <1>3
  <2>4. \A j \in 1..n : Counts(log'[j]) /\ (\A p \in 1..w : f[p] # j) =>
               Cardinality(Later(j, n)') > WindowSize
    BY <1>4, <1>6, <1>8, <1>10, <2>3
  <2>5. f = [p \in 1..w |-> f[p]]
    OBVIOUS
  <2>. QED BY <1>1, <1>9, <2>1, <2>2, <2>4, <2>5
<1>11. CASE Counts(m) /\ w < WindowSize
  <2>. DEFINE g == [p \in 1..(w + 1) |-> IF p <= w THEN f[p] ELSE n]
  <2>1. window' = Append(window, o)
    BY <1>1, <1>2, <1>11 DEF Window, PushOutcome, TypeOK
  <2>2. /\ Len(window') = w + 1 /\ window'[w + 1] = o
        /\ \A p \in 1..w : window'[p] = window[p]
    BY <1>1, <2>1 DEF TypeOK
  <2>3. /\ \A p \in 1..w : g[p] = f[p]
        /\ g[w + 1] = n
    BY <1>1
  <2>4. g = [p \in 1..(w + 1) |-> g[p]]
    OBVIOUS
  <2>. HIDE DEF g
  <2>5. ASSUME NEW p \in 1..(w + 1)
        PROVE  /\ g[p] \in 1..n
               /\ Counts(log'[g[p]])
               /\ window'[p] = Image(log'[g[p]])
               /\ Cardinality(Later(g[p], n)') = (w + 1) - p + 1
    <3>1. CASE p \in 1..w
      <4>1. /\ g[p] = f[p] /\ f[p] \in 1..l
            /\ log'[f[p]] = log[f[p]] /\ window'[p] = window[p]
        BY <1>4, <1>8, <2>2, <2>3, <3>1
      <4>2. f[p] \in 1..n
        BY <1>1, <1>3, <4>1
      <4>3. Cardinality(Later(f[p], n)') = (w - p + 1) + 1
        BY <1>6, <1>8, <1>11, <3>1, <4>1
      <4>4. Counts(log'[f[p]]) /\ window'[p] = Image(log'[f[p]])
        BY <1>8, <3>1, <4>1
      <4>5. (w - p + 1) + 1 = (w + 1) - p + 1
        BY <1>1
      <4>. QED BY <4>1, <4>2, <4>3, <4>4, <4>5
    <3>2. CASE p = w + 1
      <4>1. g[p] = n /\ log'[n] = m /\ window'[p] = Image(m)
        BY <1>4, <2>2, <2>3, <3>2
      <4>2. n \in 1..n /\ (w + 1) - p + 1 = 1
        BY <1>1, <1>3, <3>2
      <4>. QED BY <1>6, <1>11, <4>1, <4>2
    <3>. QED BY <1>1, <3>1, <3>2
  <2>6. ASSUME NEW j \in 1..n, Counts(log'[j]), \A p \in 1..(w + 1) : g[p] # j
        PROVE  Cardinality(Later(j, n)') > WindowSize
    <3>1. j # n /\ j \in 1..l
      BY <1>1, <1>3, <2>3, <2>6
    <3>2. \A p \in 1..w : f[p] # j
      BY <1>1, <2>3, <2>6
    <3>3. Cardinality(Later(j, l)) > WindowSize
      BY <1>4, <1>8, <2>6, <3>1, <3>2
    <3>4. Cardinality(Later(j, n)') = Cardinality(Later(j, l)) + 1
      BY <1>6, <1>11, <3>1
    <3>. QED BY <1>2, <1>7, <3>1, <3>3, <3>4
  <2>7. PICK v \in Nat : v = w + 1
    BY <1>1
  <2>8. /\ v = Len(window') /\ g = [p \in 1..v |-> g[p]]
        /\ \A p \in 1..v :
               /\ g[p] \in 1..n
               /\ Counts(log'[g[p]])
               /\ window'[p] = Image(log'[g[p]])
               /\ Cardinality(Later(g[p], n)') = v - p + 1
        /\ \A j \in 1..n : Counts(log'[j]) /\ (\A p \in 1..v : g[p] # j) =>
               Cardinality(Later(j, n)') > WindowSize
    BY <2>2, <2>4, <2>5, <2>6, <2>7
  <2>. QED BY <1>9, <2>8
<1>12. CASE Counts(m) /\ w = WindowSize
  <2>. DEFINE g == [p \in 1..w |-> IF p < w THEN f[p + 1] ELSE n]
  <2>1. window' = Tail(Append(window, o))
    <3>1. Len(Append(window, o)) = w + 1
      BY <1>1 DEF TypeOK
    <3>2. window' = IF Len(Append(window, o)) > WindowSize
                    THEN Tail(Append(window, o)) ELSE Append(window, o)
      BY <1>12 DEF Window, PushOutcome
    <3>. QED BY <1>1, <1>2, <1>12, <3>1, <3>2
  <2>2. /\ Len(window') = w /\ window'[w] = o
        /\ \A p \in 1..(w - 1) : window'[p] = window[p + 1]
    <3>. DEFINE a == Append(window, o)
    <3>1. window \in Seq([tool : Tools, failed : BOOLEAN])
      BY DEF TypeOK
    <3>2. o \in [tool : Tools, failed : BOOLEAN]
      BY DEF Message
    <3>3. /\ a \in Seq([tool : Tools, failed : BOOLEAN])
          /\ Len(a) = w + 1 /\ a[w + 1] = o
          /\ \A p \in 1..w : a[p] = window[p]
      BY <1>1, <3>1, <3>2
    <3>. HIDE DEF a, o
    <3>4. /\ Len(Tail(a)) = w
          /\ \A p \in 1..w : Tail(a)[p] = a[p + 1]
      BY <1>1, <3>3
    <3>5. \A p \in 1..(w - 1) : p \in 1..w /\ p + 1 \in 1..w
      BY <1>1
    <3>6. w \in 1..w
      BY <1>1, <1>2, <1>12
    <3>. QED BY <2>1, <3>3, <3>4, <3>5, <3>6 DEF a
  <2>3. /\ \A p \in 1..(w - 1) : g[p] = f[p + 1] /\ p + 1 \in 1..w
        /\ g[w] = n
    BY <1>1, <1>2, <1>12
  <2>4. g = [p \in 1..w |-> g[p]]
    OBVIOUS
  <2>. HIDE DEF g
  <2>5. ASSUME NEW p \in 1..w
        PROVE  /\ g[p] \in 1..n
               /\ Counts(log'[g[p]])
               /\ window'[p] = Image(log'[g[p]])
               /\ Cardinality(Later(g[p], n)') = w - p + 1
    <3>1. CASE p \in 1..(w - 1)
      <4>1. p + 1 \in 1..w /\ f[p + 1] \in 1..l /\ g[p] = f[p + 1]
        BY <1>8, <2>3, <3>1
      <4>2. Cardinality(Later(f[p + 1], l)) = w - (p + 1) + 1
        BY <1>8, <4>1
      <4>3. f[p + 1] \in 1..n /\ log'[f[p + 1]] = log[f[p + 1]]
        BY <1>1, <1>3, <1>4, <4>1
      <4>4. Cardinality(Later(f[p + 1], n)') = (w - (p + 1) + 1) + 1
        BY <1>6, <1>12, <4>1, <4>2
      <4>5. (w - (p + 1) + 1) + 1 = w - p + 1
        BY <1>1
      <4>6. Counts(log'[f[p + 1]]) /\ window'[p] = Image(log'[f[p + 1]])
        BY <1>8, <2>2, <3>1, <4>1, <4>3
      <4>. QED BY <4>1, <4>3, <4>4, <4>5, <4>6
    <3>2. CASE p = w
      <4>1. g[p] = n /\ log'[n] = m /\ window'[p] = Image(m)
        BY <1>4, <2>2, <2>3, <3>2
      <4>2. n \in 1..n /\ w - p + 1 = 1
        BY <1>1, <1>3, <3>2
      <4>. QED BY <1>6, <1>12, <4>1, <4>2
    <3>. QED BY <1>1, <3>1, <3>2
  <2>6. ASSUME NEW j \in 1..n, Counts(log'[j]), \A p \in 1..w : g[p] # j
        PROVE  Cardinality(Later(j, n)') > WindowSize
    <3>1. j # n /\ j \in 1..l
      BY <1>1, <1>2, <1>3, <1>12, <2>3, <2>6
    <3>2. \A p \in 2..w : f[p] # j
      <4>1. \A p \in 2..w : p - 1 \in 1..(w - 1) /\ (p - 1) + 1 = p
        BY <1>1
      <4>2. \A p \in 1..(w - 1) : p \in 1..w
        BY <1>1
      <4>. QED BY <2>3, <2>6, <4>1, <4>2
    <3>3. Cardinality(Later(j, l)) >= WindowSize
      <4>1. CASE f[1] = j
        <5>1. 1 \in 1..w /\ w - 1 + 1 = w
          BY <1>1, <1>2, <1>12
        <5>2. Cardinality(Later(f[1], l)) = w - 1 + 1
          BY <1>8, <5>1
        <5>. QED BY <1>2, <1>12, <4>1, <5>1, <5>2
      <4>2. CASE f[1] # j
        <5>1. \A p \in 1..w : f[p] # j
          BY <1>1, <3>2, <4>2
        <5>2. Cardinality(Later(j, l)) > WindowSize
          BY <1>4, <1>8, <2>6, <3>1, <5>1
        <5>. QED BY <1>2, <1>7, <3>1, <5>2
      <4>. QED BY <4>1, <4>2
    <3>4. Cardinality(Later(j, n)') = Cardinality(Later(j, l)) + 1
      BY <1>6, <1>12, <3>1
    <3>. QED BY <1>2, <1>7, <3>1, <3>3, <3>4
  <2>. QED BY <1>1, <1>9, <2>2, <2>4, <2>5, <2>6
<1>. QED BY <1>1, <1>2, <1>10, <1>11, <1>12

\* A function that never takes a value twice has as many values as arguments.
LEMMA ImageCount ==
    ASSUME NEW P, IsFiniteSet(P), NEW f, \A a, b \in P : f[a] = f[b] => a = b
    PROVE  Cardinality({f[p] : p \in P}) = Cardinality(P)
<1>. DEFINE g == [p \in P |-> f[p]]
            I == {f[p] : p \in P}
<1>1. g \in [P -> I]
  OBVIOUS
<1>2. \A a, b \in P : g[a] = g[b] => a = b
  OBVIOUS
<1>3. \A v \in I : \E p \in P : g[p] = v
  OBVIOUS
<1>. HIDE DEF g, I
<1>4. g \in Bijection(P, I)
  BY <1>1, <1>2, <1>3 DEF Bijection, Injection, Surjection, IsInjective
<1>5. ExistsBijection(P, I)
  BY <1>4 DEF ExistsBijection
<1>. QED BY <1>5, FS_Bijection DEF I

\* The window holds as many failures, of a tool and of all, as the history.
Pictured ==
    /\ \A t : Cardinality(Failures(window, t)) =
               Cardinality({j \in SchemaFailures(Len(log)) : log[j].tool = t})
    /\ Cardinality(AllFailures(window)) =
         Cardinality(SchemaFailures(Len(log)))
    /\ FailedTools(window) = {log[j].tool : j \in SchemaFailures(Len(log))}

LEMMA WindowPictures == TypeOK /\ Windowed => Pictured
<1>. SUFFICES ASSUME TypeOK, Windowed PROVE Pictured
  OBVIOUS
<1>. DEFINE l == Len(log)
            w == Len(window)
<1>1. log \in Seq(Message) /\ l \in Nat /\ w \in Nat /\ w <= WindowSize
  BY DEF TypeOK
<1>2. PICK f \in [1..w -> 1..l] : Pictures(f)
  BY DEF Windowed
<1>3. /\ \A p \in 1..w :
           /\ f[p] \in 1..l
           /\ Counts(log[f[p]])
           /\ window[p].tool = log[f[p]].tool
           /\ window[p].failed = (log[f[p]].outcome = "schema")
           /\ Cardinality(Later(f[p], l)) = w - p + 1
      /\ \A j \in 1..l : Counts(log[j]) /\ (\A p \in 1..w : f[p] # j) =>
           Cardinality(Later(j, l)) > WindowSize
  <2>1. /\ \A p \in 1..w :
             /\ Counts(log[f[p]])
             /\ window[p] = [tool   |-> log[f[p]].tool,
                             failed |-> log[f[p]].outcome = "schema"]
             /\ Cardinality(Later(f[p], l)) = w - p + 1
        /\ \A j \in 1..l : Counts(log[j]) /\ (\A p \in 1..w : f[p] # j) =>
             Cardinality(Later(j, l)) > WindowSize
    BY <1>2 DEF Pictures
  <2>2. ASSUME NEW p \in 1..w
        PROVE  /\ window[p].tool = log[f[p]].tool
               /\ window[p].failed = (log[f[p]].outcome = "schema")
    <3>. DEFINE t == log[f[p]].tool
                b == log[f[p]].outcome = "schema"
    <3>1. window[p] = [tool |-> t, failed |-> b]
      BY <2>1
    <3>. HIDE DEF t, b
    <3>2. window[p].tool = t /\ window[p].failed = b
      BY ONLY <3>1
    <3>. QED BY <3>2 DEF t, b
  <2>3. \A p \in 1..w : f[p] \in 1..l
    BY <1>2
  <2>. QED BY <2>1, <2>2, <2>3
<1>4. Recent(l) = {f[p] : p \in 1..w}
  <2>1. Recent(l) = {j \in 1..l : Counts(log[j]) /\ Cardinality(Later(j, l)) <= WindowSize}
    BY DEF Recent, Later
  <2>2. WindowSize \in Nat /\ \A j \in 1..l : Cardinality(Later(j, l)) \in Nat
    BY <1>1, Finite, BreakerAssumption
  <2>3. \A p \in 1..w : f[p] \in Recent(l)
    <3>1. \A p \in 1..w : w - p + 1 <= WindowSize
      BY <1>1, <2>2
    <3>. QED BY <1>3, <2>1, <3>1
  <2>4. \A j \in Recent(l) : \E p \in 1..w : f[p] = j
    BY <1>3, <2>1, <2>2
  <2>. QED BY <2>3, <2>4
<1>5. \A a, b \in 1..w : f[a] = f[b] => a = b
  <2>1. ASSUME NEW a \in 1..w, NEW b \in 1..w, f[a] = f[b]
        PROVE  a = b
    <3>1. w - a + 1 = w - b + 1
      BY <1>3, <2>1
    <3>. QED BY <1>1, <3>1
  <2>. QED BY <2>1
<1>6. IsFiniteSet(1..w)
  BY <1>1, FS_Interval
<1>7. \A P \in SUBSET (1..w) : Cardinality({f[p] : p \in P}) = Cardinality(P)
  <2>1. ASSUME NEW P \in SUBSET (1..w)
        PROVE  Cardinality({f[p] : p \in P}) = Cardinality(P)
    <3>1. IsFiniteSet(P)
      BY <1>6, FS_Subset
    <3>2. \A a, b \in P : f[a] = f[b] => a = b
      BY <1>5
    <3>. QED BY <3>1, <3>2, ImageCount
  <2>. QED BY <2>1
<1>8. SchemaFailures(l) = {f[p] : p \in AllFailures(window)}
  BY <1>3, <1>4 DEF SchemaFailures, AllFailures
<1>9. ASSUME NEW t
      PROVE  {j \in SchemaFailures(l) : log[j].tool = t} =
               {f[p] : p \in Failures(window, t)}
  <2>1. \A p \in 1..w : p \in Failures(window, t) <=>
                          p \in AllFailures(window) /\ log[f[p]].tool = t
    BY <1>3 DEF AllFailures, Failures
  <2>2. \A j : j \in SchemaFailures(l) <=> \E p \in 1..w :
                  p \in AllFailures(window) /\ j = f[p]
    BY <1>8 DEF AllFailures
  <2>3. \A p \in Failures(window, t) : p \in 1..w
    BY DEF Failures
  <2>. QED BY <2>1, <2>2, <2>3
<1>10. AllFailures(window) \in SUBSET (1..w)
  BY DEF AllFailures
<1>11. \A t : Failures(window, t) \in SUBSET (1..w)
  BY DEF Failures
<1>12. FailedTools(window) = {log[j].tool : j \in SchemaFailures(l)}
  <2>1. \A p \in AllFailures(window) :
           window[p].tool = log[f[p]].tool /\ f[p] \in SchemaFailures(l)
    BY <1>3, <1>8, <1>10
  <2>2. \A j \in SchemaFailures(l) : \E p \in AllFailures(window) : j = f[p]
    BY <1>8
  <2>. QED BY <2>1, <2>2 DEF FailedTools
<1>. QED BY <1>7, <1>8, <1>9, <1>10, <1>11, <1>12 DEF Pictured
-----------------------------------------------------------------------------
\* What was recent when an earlier message was written stays so, and a message
\* that is no failure of the schema brings none into the window.
LEMMA RecentKept ==
    ASSUME log \in Seq(Message), NEW m \in Message, log' = Append(log, m),
           NEW n \in Nat, n = Len(log) + 1
    PROVE  /\ \A i \in 1..Len(log) : SchemaFailures(i)' = SchemaFailures(i)
           /\ m.outcome # "schema" =>
                SchemaFailures(n)' \subseteq SchemaFailures(Len(log))
<1>1. /\ Len(log') = n /\ log'[n] = m /\ Len(log) \in Nat
      /\ \A i \in 1..Len(log) : log'[i] = log[i]
  BY Prefix
<1>2. ASSUME NEW i \in 1..Len(log)
      PROVE  SchemaFailures(i)' = SchemaFailures(i)
  <2>1. \A j \in 1..i : j \in 1..Len(log) /\ log'[j] = log[j]
    BY <1>1
  <2>2. \A j \in 1..i : {q \in j..i : Counts(log'[q])} = {q \in j..i : Counts(log[q])}
    <3>1. \A j \in 1..i : \A q \in j..i : q \in 1..i
      OBVIOUS
    <3>. QED BY <2>1, <3>1
  <2>3. Recent(i)' = {j \in 1..i :
                       /\ Counts(log'[j])
                       /\ Cardinality({q \in j..i : Counts(log'[q])}) <= WindowSize}
    BY DEF Recent, Counts
  <2>4. Recent(i)' = Recent(i)
    BY <2>1, <2>2, <2>3 DEF Recent
  <2>5. SchemaFailures(i)' = {j \in Recent(i)' : log'[j].outcome = "schema"}
    BY DEF SchemaFailures
  <2>. QED BY <2>1, <2>4, <2>5 DEF SchemaFailures, Recent
<1>3. ASSUME m.outcome # "schema", NEW j \in SchemaFailures(n)'
      PROVE  j \in SchemaFailures(Len(log))
  <2>1. /\ j \in 1..n /\ Counts(log'[j]) /\ log'[j].outcome = "schema"
        /\ Cardinality({q \in j..n : Counts(log'[q])}) <= WindowSize
    BY <1>3 DEF SchemaFailures, Recent, Counts
  <2>2. j \in 1..Len(log) /\ log'[j] = log[j]
    BY <1>1, <1>3, <2>1
  <2>3. Cardinality(Later(j, n)') <= WindowSize
    BY <2>1 DEF Later, Counts
  <2>4. Cardinality(Later(j, Len(log))) <= WindowSize
    <3>1. Cardinality(Later(j, Len(log))) \in Nat /\ WindowSize \in Nat
      BY <2>2, Finite, BreakerAssumption
    <3>. QED BY <2>2, <2>3, <3>1, LaterGrows
  <2>. QED BY <2>1, <2>2, <2>4 DEF SchemaFailures, Recent, Later
<1>. QED BY <1>2, <1>3

\* A threshold is raised only together with a breaker, and a success takes the
\* threshold of its tool back when it ends what came before.
LEMMA ResultRaised ==
    ASSUME TypeOK, Raised, NEW m \in Message, Writes(m), Thresholds(m)
    PROVE  Raised'
<1>1. log \in Seq(Message) /\ Len(log) \in Nat
  BY DEF TypeOK
<1>2. PICK n \in Nat : n = Len(log) + 1
  BY <1>1
<1>3. /\ Len(log') = n /\ log'[n] = m
      /\ \A i \in 1..Len(log) : log'[i] = log[i]
  BY <1>1, <1>2, Prefix DEF Writes
<1>4. m.tool \in Tools /\ toolNext \in [Tools -> Nat]
  BY DEF Message, TypeOK
<1>5. ASSUME NEW t \in Tools, toolNext'[t] # SchemaThreshold
      PROVE  \E j \in Current(t)' : "per_tool" \in log'[j].hints
  <2>1. \A j \in Current(t) : j \in 1..Len(log)
    BY DEF Current
  <2>2. Current(t)' = IF m.tool # t THEN Current(t)
                      ELSE IF m.outcome = "ok" THEN {}
                      ELSE Current(t) \cup {n}
    BY <1>1, <1>2, Streaks DEF Writes
  <2>3. m.tool = t => m.outcome # "ok"
    BY <1>4, <1>5 DEF Thresholds
  <2>4. CASE toolNext'[t] = toolNext[t]
    <3>1. PICK j \in Current(t) : "per_tool" \in log[j].hints
      BY <1>5, <2>4 DEF Raised
    <3>2. j \in Current(t)' /\ log'[j] = log[j]
      BY <1>3, <2>1, <2>2, <2>3
    <3>. QED BY <3>1, <3>2
  <2>5. CASE toolNext'[t] # toolNext[t]
    <3>1. m.tool = t /\ "per_tool" \in m.hints
      BY <1>4, <2>3, <2>5 DEF Thresholds
    <3>. QED BY <1>3, <2>2, <2>3, <3>1
  <2>. QED BY <2>4, <2>5
<1>6. ASSUME aggNext' # AggregateThreshold
      PROVE  \E j \in 1..n : log'[j].hints \cap Breakers # {}
  <2>1. CASE aggNext' = aggNext
    <3>1. PICK j \in 1..Len(log) : log[j].hints \cap Breakers # {}
      BY <1>6, <2>1 DEF Raised
    <3>. QED BY <1>1, <1>2, <1>3, <3>1
  <2>2. CASE aggNext' # aggNext
    <3>1. "per_tool" \in m.hints \/ "aggregate" \in m.hints
      BY <2>2 DEF Thresholds
    <3>2. m.hints \cap Breakers # {}
      BY <3>1 DEF Breakers
    <3>3. n \in 1..n
      BY <1>1, <1>2
    <3>. QED BY <1>3, <3>2, <3>3
  <2>. QED BY <2>1, <2>2
<1>. QED BY <1>3, <1>5, <1>6 DEF Raised

\* A new failure either finds the first threshold, and trips a breaker, or one
\* that an earlier breaker has raised.
LEMMA ResultTrips ==
    ASSUME TypeOK, Raised, BreakersTrip, Pictured',
           NEW m \in Message, Writes(m), Thresholds(m)
    PROVE  BreakersTrip'
<1>1. log \in Seq(Message) /\ Len(log) \in Nat
  BY DEF TypeOK
<1>2. PICK n \in Nat : n = Len(log) + 1
  BY <1>1
<1>3. /\ log' \in Seq(Message) /\ Len(log') = n /\ log'[n] = m
      /\ \A i \in 1..Len(log) :
           log'[i] = log[i] /\ SinceSuccess(i)' = SinceSuccess(i)
  BY <1>1, <1>2, Prefix DEF Writes
<1>4. /\ \A i \in 1..Len(log) : SchemaFailures(i)' = SchemaFailures(i)
      /\ m.outcome # "schema" =>
           SchemaFailures(n)' \subseteq SchemaFailures(Len(log))
  BY <1>1, <1>2, RecentKept DEF Writes
<1>5. \A i \in 1..Len(log) : \A j \in 1..i : j \in 1..Len(log) /\ log'[j] = log[j]
  BY <1>1, <1>3
<1>6. \A i \in 1..Len(log) : \A j \in SchemaFailures(i) : j \in 1..i
  BY DEF SchemaFailures, Recent
<1>7. /\ \A t : Cardinality(Failures(window', t)) =
                 Cardinality({j \in SchemaFailures(n)' : log'[j].tool = t})
      /\ Cardinality(AllFailures(window')) = Cardinality(SchemaFailures(n)')
      /\ FailedTools(window') = {log'[j].tool : j \in SchemaFailures(n)'}
  BY <1>3 DEF Pictured, Failures, AllFailures, FailedTools
<1>8. m.tool \in Tools
  BY DEF Message
<1>. DEFINE OfTool(i)    == {j \in SchemaFailures(i) : log[j].tool = log[i].tool}
            ToolsOf(i)   == {log[j].tool : j \in SchemaFailures(i)}
            OfToolN(i)   == {j \in SchemaFailures(i)' : log'[j].tool = log'[i].tool}
            ToolsOfN(i)  == {log'[j].tool : j \in SchemaFailures(i)'}
<1>9. ASSUME NEW i \in 1..Len(log)
      PROVE  /\ /\ log'[i].outcome = "schema"
                /\ Cardinality(OfToolN(i)) >= SchemaThreshold
                => \E j \in SinceSuccess(i)' : "per_tool" \in log'[j].hints
             /\ /\ Cardinality(SchemaFailures(i)') >= AggregateThreshold
                /\ Cardinality(ToolsOfN(i)) > 1
                => \E j \in 1..i : log'[j].hints \cap Breakers # {}
  <2>1. OfToolN(i) = OfTool(i) /\ ToolsOfN(i) = ToolsOf(i)
    BY <1>3, <1>4, <1>5, <1>6
  <2>2. /\ /\ log[i].outcome = "schema"
           /\ Cardinality(OfTool(i)) >= SchemaThreshold
           => \E j \in SinceSuccess(i) : "per_tool" \in log[j].hints
        /\ /\ Cardinality(SchemaFailures(i)) >= AggregateThreshold
           /\ Cardinality(ToolsOf(i)) > 1
           => \E j \in 1..i : log[j].hints \cap Breakers # {}
    BY DEF BreakersTrip, Breakers
  <2>3. \A j \in SinceSuccess(i) : j \in 1..i
    BY DEF SinceSuccess
  <2>. HIDE DEF OfTool, ToolsOf, OfToolN, ToolsOfN
  <2>. QED BY <1>3, <1>4, <1>5, <2>1, <2>2, <2>3
<1>10. ASSUME m.outcome = "schema", Cardinality(OfToolN(n)) >= SchemaThreshold
       PROVE  \E j \in SinceSuccess(n)' : "per_tool" \in log'[j].hints
  <2>1. SinceSuccess(n)' = Current(m.tool) \cup {n}
    BY <1>1, <1>2, <1>8, <1>10, Streaks DEF Writes
  <2>2. Cardinality(Failures(window', m.tool)) >= SchemaThreshold
    BY <1>3, <1>7, <1>10
  <2>3. CASE toolNext[m.tool] = SchemaThreshold
    <3>1. PerToolTrips(window', m.tool)
      BY <2>2, <2>3 DEF PerToolTrips
    <3>2. "per_tool" \in m.hints
      BY <1>10, <3>1 DEF Thresholds
    <3>. QED BY <1>3, <2>1, <3>2
  <2>4. CASE toolNext[m.tool] # SchemaThreshold
    <3>1. PICK j \in Current(m.tool) : "per_tool" \in log[j].hints
      BY <1>8, <2>4 DEF Raised
    <3>2. j \in 1..Len(log)
      BY DEF Current
    <3>. QED BY <1>3, <2>1, <3>1, <3>2
  <2>. QED BY <2>3, <2>4
<1>11. ASSUME Cardinality(SchemaFailures(n)') >= AggregateThreshold,
              Cardinality(ToolsOfN(n)) > 1
       PROVE  \E j \in 1..n : log'[j].hints \cap Breakers # {}
  <2>1. CASE m.outcome = "schema"
    <3>1. CASE aggNext = AggregateThreshold
      <4>1. AggregateTrips(window')
        BY <1>7, <1>11, <3>1 DEF AggregateTrips
      <4>2. "per_tool" \in m.hints \/ "aggregate" \in m.hints
        BY <2>1, <4>1 DEF Thresholds
      <4>3. m.hints \cap Breakers # {} /\ n \in 1..n
        BY <1>1, <1>2, <4>2 DEF Breakers
      <4>. QED BY <1>3, <4>3
    <3>2. CASE aggNext # AggregateThreshold
      <4>1. PICK j \in 1..Len(log) : log[j].hints \cap Breakers # {}
        BY <3>2 DEF Raised
      <4>. QED BY <1>1, <1>2, <1>3, <4>1
    <3>. QED BY <3>1, <3>2
  <2>2. CASE m.outcome # "schema"
    <3>. DEFINE l == Len(log)
    <3>1. SchemaFailures(n)' \subseteq SchemaFailures(l)
      BY <1>4, <2>2
    <3>2. SchemaFailures(l) \in SUBSET (1..l)
      BY DEF SchemaFailures, Recent
    <3>3. IsFiniteSet(SchemaFailures(l))
      <4>1. IsFiniteSet(1..l)
        BY <1>1, FS_Interval
      <4>. QED BY <3>2, <4>1, FS_Subset
    <3>4. ToolsOfN(n) \subseteq ToolsOf(l)
      BY <1>3, <3>1, <3>2
    <3>5. IsFiniteSet(ToolsOf(l))
      <4>1. [j \in SchemaFailures(l) |-> log[j].tool]
               \in Surjection(SchemaFailures(l), ToolsOf(l))
        BY DEF Surjection
      <4>. QED BY <3>3, <4>1, FS_Surjection
    <3>6. /\ Cardinality(SchemaFailures(n)') <= Cardinality(SchemaFailures(l))
          /\ Cardinality(SchemaFailures(n)') \in Nat
          /\ Cardinality(SchemaFailures(l)) \in Nat
      BY <3>1, <3>3, FS_Subset, FS_CardinalityType
    <3>7. /\ Cardinality(ToolsOfN(n)) <= Cardinality(ToolsOf(l))
          /\ Cardinality(ToolsOfN(n)) \in Nat /\ Cardinality(ToolsOf(l)) \in Nat
      <4>. HIDE DEF ToolsOf, ToolsOfN
      <4>. QED BY <3>4, <3>5, FS_Subset, FS_CardinalityType
    <3>8. l >= 1
      <4>1. CASE l = 0
        <5>1. SchemaFailures(n)' = {}
          BY <3>1, <3>2, <4>1
        <5>2. ToolsOfN(n) = {}
          BY <5>1
        <5>3. Cardinality(ToolsOfN(n)) > 1
          BY <1>11
        <5>. HIDE DEF ToolsOfN
        <5>4. Cardinality(ToolsOfN(n)) = 0
          BY <5>2, FS_EmptySet
        <5>. QED BY <5>3, <5>4
      <4>. QED BY <1>1, <4>1
    <3>9. Cardinality(SchemaFailures(l)) >= AggregateThreshold /\ Cardinality(ToolsOf(l)) > 1
      <4>1. AggregateThreshold \in Nat
        BY BreakerAssumption
      <4>. HIDE DEF ToolsOf, ToolsOfN
      <4>. QED BY <1>11, <3>6, <3>7, <4>1
    <3>10. PICK j \in 1..l : log[j].hints \cap Breakers # {}
      <4>1. l \in 1..l
        BY <1>1, <3>8
      <4>2. \A i \in 1..l :
              /\ Cardinality(SchemaFailures(i)) >= AggregateThreshold
              /\ Cardinality(ToolsOf(i)) > 1
              => \E j \in 1..i : log[j].hints \cap Breakers # {}
        BY DEF BreakersTrip, Breakers
      <4>. HIDE DEF ToolsOf
      <4>. QED BY <3>9, <4>1, <4>2
    <3>. QED BY <1>1, <1>2, <1>3, <3>10
  <2>. QED BY <2>1, <2>2
<1>12. ASSUME NEW i \in 1..n
       PROVE  /\ /\ log'[i].outcome = "schema"
                 /\ Cardinality(OfToolN(i)) >= SchemaThreshold
                 => \E j \in SinceSuccess(i)' : "per_tool" \in log'[j].hints
              /\ /\ Cardinality(SchemaFailures(i)') >= AggregateThreshold
                 /\ Cardinality(ToolsOfN(i)) > 1
                 => \E j \in 1..i : log'[j].hints \cap Breakers # {}
  <2>1. CASE i \in 1..Len(log)
    BY <1>9, <2>1
  <2>2. CASE i = n
    BY <1>3, <1>10, <1>11, <2>2
  <2>. QED BY <1>1, <1>2, <2>1, <2>2
<1>. QED BY <1>3, <1>12 DEF BreakersTrip, Breakers
\* The breakers of the message added are those its thresholds ask for, and the
\* thresholds are twice the first ones from then on.
LEMMA ResultOwed ==
    ASSUME TypeOK, Levels, SchemaHintsOwed, Pictured',
           NEW m \in Message, Writes(m), Thresholds(m)
    PROVE  Levels' /\ SchemaHintsOwed'
<1>1. /\ log \in Seq(Message) /\ Len(log) \in Nat
      /\ toolNext \in [Tools -> Nat] /\ aggNext \in Nat
      /\ SchemaThreshold \in Nat \ {0} /\ AggregateThreshold \in Nat \ {0}
  BY BreakerAssumption DEF TypeOK
<1>2. PICK n \in Nat : n = Len(log) + 1
  BY <1>1
<1>3. /\ Len(log') = n /\ log'[n] = m
      /\ \A i \in 1..Len(log) :
           log'[i] = log[i] /\ SinceSuccess(i)' = SinceSuccess(i)
  BY <1>1, <1>2, Prefix DEF Writes
<1>4. m.tool \in Tools
  BY DEF Message
<1>5. ASSUME NEW i \in 1..Len(log)
      PROVE  /\ SchemaFailures(i)' = SchemaFailures(i)
             /\ OwnFailures(i)' = OwnFailures(i)
             /\ Alternates(i)' = Alternates(i)
  <2>1. SchemaFailures(i)' = SchemaFailures(i)
    BY <1>1, <1>2, RecentKept DEF Writes
  <2>2. \A j \in SchemaFailures(i) : log'[j] = log[j]
    BY <1>1, <1>3 DEF SchemaFailures, Recent
  <2>3. OwnFailures(i)' = OwnFailures(i)
    BY <1>3, <2>1, <2>2 DEF OwnFailures
  <2>4. {log'[j].tool : j \in SchemaFailures(i)'} = {log[j].tool : j \in SchemaFailures(i)}
    BY <2>1, <2>2
  <2>. QED BY <1>3, <2>1, <2>3, <2>4 DEF Alternates
<1>6. /\ Cardinality(SchemaFailures(n)') \in Nat
      /\ Cardinality(OwnFailures(n)') \in Nat
  <2>1. SchemaFailures(n)' \in SUBSET (1..n) /\ OwnFailures(n)' \in SUBSET (1..n)
    BY DEF OwnFailures, SchemaFailures, Recent
  <2>2. IsFiniteSet(1..n)
    BY FS_Interval
  <2>. QED BY <2>1, <2>2, FS_Subset, FS_CardinalityType
<1>7. /\ Cardinality(Failures(window', m.tool)) = Cardinality(OwnFailures(n)')
      /\ Cardinality(AllFailures(window')) = Cardinality(SchemaFailures(n)')
      /\ FailedTools(window') = {log'[j].tool : j \in SchemaFailures(n)'}
  <2>1. /\ \A t : Cardinality(Failures(window', t)) =
                   Cardinality({j \in SchemaFailures(n)' : log'[j].tool = t})
        /\ Cardinality(AllFailures(window')) = Cardinality(SchemaFailures(n)')
        /\ FailedTools(window') = {log'[j].tool : j \in SchemaFailures(n)'}
    BY <1>3 DEF Pictured, Failures, AllFailures, FailedTools
  <2>2. OwnFailures(n)' = {j \in SchemaFailures(n)' : log'[j].tool = m.tool}
    BY <1>3 DEF OwnFailures
  <2>. QED BY <2>1, <2>2
<1>8. /\ PerToolTrips(window', m.tool) <=>
           Cardinality(OwnFailures(n)') >= toolNext[m.tool]
      /\ AggregateTrips(window') <=>
           /\ Cardinality({log'[j].tool : j \in SchemaFailures(n)'}) > 1
           /\ Cardinality(SchemaFailures(n)') >= aggNext
      /\ Alternates(n)' <=>
           /\ m.outcome = "schema"
           /\ Cardinality(SchemaFailures(n)') >= AggregateThreshold
           /\ Cardinality({log'[j].tool : j \in SchemaFailures(n)'}) > 1
  BY <1>3, <1>7 DEF PerToolTrips, AggregateTrips, Alternates
<1>9. /\ ("per_tool" \in m.hints) <=>
           m.outcome = "schema" /\ PerToolTrips(window', m.tool)
      /\ ("aggregate" \in m.hints) <=>
           /\ m.outcome = "schema" /\ AggregateTrips(window')
           /\ ~PerToolTrips(window', m.tool)
      /\ aggNext' = IF m.outcome = "schema" /\ AggregateTrips(window')
                    THEN 2 * aggNext ELSE aggNext
  BY DEF Thresholds
<1>10. m.outcome = "schema" => SinceSuccess(n)' \ {n} \subseteq Current(m.tool)
  BY <1>1, <1>2, <1>4, Streaks DEF Writes
<1>11. ASSUME NEW t \in Tools
       PROVE  /\ toolNext'[t] >= SchemaThreshold
              /\ (\E j \in Current(t)' : "per_tool" \in log'[j].hints) =>
                   toolNext'[t] >= 2 * SchemaThreshold
  <2>1. /\ toolNext[t] \in Nat /\ toolNext[t] >= SchemaThreshold
        /\ (\E j \in Current(t) : "per_tool" \in log[j].hints) =>
             toolNext[t] >= 2 * SchemaThreshold
    BY <1>1 DEF Levels
  <2>2. Current(t)' = IF m.tool # t THEN Current(t)
                      ELSE IF m.outcome = "ok" THEN {}
                      ELSE Current(t) \cup {n}
    BY <1>1, <1>2, Streaks DEF Writes
  <2>3. \A j \in Current(t) : log'[j] = log[j]
    BY <1>3 DEF Current
  <2>4. CASE m.tool # t
    <3>1. toolNext'[t] = toolNext[t]
      BY <1>1, <2>4 DEF Thresholds
    <3>. QED BY <2>1, <2>2, <2>3, <2>4, <3>1
  <2>5. CASE m.tool = t /\ m.outcome = "ok"
    <3>1. toolNext'[t] = SchemaThreshold
      BY <1>1, <2>5 DEF Thresholds
    <3>. QED BY <1>1, <2>2, <2>5, <3>1
  <2>6. CASE m.tool = t /\ m.outcome # "ok"
    <3>1. toolNext'[t] = IF "per_tool" \in m.hints THEN 2 * toolNext[t]
                         ELSE toolNext[t]
      BY <1>1, <2>6 DEF Thresholds
    <3>2. ASSUME NEW j \in Current(t)', "per_tool" \in log'[j].hints,
                 "per_tool" \notin m.hints
          PROVE  j \in Current(t) /\ "per_tool" \in log[j].hints
      BY <1>3, <2>2, <2>3, <2>6, <3>2
    <3>. QED BY <1>1, <2>1, <3>1, <3>2
  <2>. QED BY <2>4, <2>5, <2>6
<1>12. \/ aggNext' = AggregateThreshold /\ \A j \in 1..n : ~Alternates(j)'
       \/ aggNext' >= 2 * AggregateThreshold /\ \E j \in 1..n : Alternates(j)'
  <2>1. CASE /\ aggNext >= 2 * AggregateThreshold
             /\ \E j \in 1..Len(log) : Alternates(j)
    <3>1. \E j \in 1..n : Alternates(j)'
      BY <1>1, <1>2, <1>5, <2>1
    <3>2. aggNext' >= 2 * AggregateThreshold
      BY <1>1, <1>9, <2>1
    <3>. QED BY <3>1, <3>2
  <2>2. CASE aggNext = AggregateThreshold /\ \A j \in 1..Len(log) : ~Alternates(j)
    <3>1. CASE Alternates(n)'
      <4>1. aggNext' = 2 * AggregateThreshold
        BY <1>8, <1>9, <2>2, <3>1
      <4>2. n \in 1..n
        BY <1>1, <1>2
      <4>. QED BY <1>1, <3>1, <4>1, <4>2
    <3>2. CASE ~Alternates(n)'
      <4>1. aggNext' = aggNext
        BY <1>8, <1>9, <2>2, <3>2
      <4>2. \A j \in 1..n : j \in 1..Len(log) \/ j = n
        BY <1>1, <1>2
      <4>. QED BY <1>5, <2>2, <3>2, <4>1, <4>2
    <3>. QED BY <3>1, <3>2
  <2>. QED BY <2>1, <2>2 DEF Levels
<1>13. Levels'
  BY <1>3, <1>11, <1>12 DEF Levels
<1>. DEFINE Owed(i) ==
       /\ "per_tool" \in log[i].hints =>
            /\ log[i].outcome = "schema"
            /\ Cardinality(OwnFailures(i)) >= SchemaThreshold
            /\ \A j \in SinceSuccess(i) \ {i} : "per_tool" \in log[j].hints =>
                 Cardinality(OwnFailures(i)) >= 2 * SchemaThreshold
       /\ "aggregate" \in log[i].hints =>
            /\ Alternates(i) /\ "per_tool" \notin log[i].hints
            /\ \A j \in 1..(i - 1) : Alternates(j) =>
                 Cardinality(SchemaFailures(i)) >= 2 * AggregateThreshold
       /\ Alternates(i) /\ (\A j \in 1..(i - 1) : ~Alternates(j)) =>
            log[i].hints \cap {"per_tool", "aggregate"} # {}
<1>14. ASSUME NEW i \in 1..Len(log)
       PROVE  Owed(i)'
  <2>1. Owed(i)
    BY DEF SchemaHintsOwed
  <2>2. \A j \in SinceSuccess(i) : log'[j] = log[j]
    BY <1>1, <1>3 DEF SinceSuccess
  <2>3. \A j \in 1..(i - 1) : Alternates(j)' = Alternates(j)
    BY <1>1, <1>5
  <2>. QED BY <1>3, <1>5, <2>1, <2>2, <2>3
<1>15. Owed(n)'
  <2>1. ASSUME "per_tool" \in m.hints
        PROVE  /\ m.outcome = "schema"
               /\ Cardinality(OwnFailures(n)') >= SchemaThreshold
               /\ \A j \in SinceSuccess(n)' \ {n} : "per_tool" \in log'[j].hints =>
                    Cardinality(OwnFailures(n)') >= 2 * SchemaThreshold
    <3>1. /\ m.outcome = "schema"
          /\ Cardinality(OwnFailures(n)') >= toolNext[m.tool]
      BY <1>8, <1>9, <2>1
    <3>2. toolNext[m.tool] \in Nat /\ toolNext[m.tool] >= SchemaThreshold
      BY <1>1, <1>4 DEF Levels
    <3>3. ASSUME NEW j \in SinceSuccess(n)' \ {n}, "per_tool" \in log'[j].hints
          PROVE  toolNext[m.tool] >= 2 * SchemaThreshold
      <4>1. j \in Current(m.tool)
        BY <1>10, <3>1
      <4>2. log'[j] = log[j]
        BY <1>3, <4>1 DEF Current
      <4>. QED BY <1>4, <3>3, <4>1, <4>2 DEF Levels
    <3>. QED BY <1>1, <1>6, <3>1, <3>2, <3>3
  <2>2. ASSUME "aggregate" \in m.hints
        PROVE  /\ Alternates(n)' /\ "per_tool" \notin m.hints
               /\ \A j \in 1..(n - 1) : Alternates(j)' =>
                    Cardinality(SchemaFailures(n)') >= 2 * AggregateThreshold
    <3>1. aggNext >= AggregateThreshold
      BY <1>1 DEF Levels
    <3>2. Alternates(n)' /\ "per_tool" \notin m.hints
      BY <1>1, <1>6, <1>8, <1>9, <2>2, <3>1
    <3>3. ASSUME NEW j \in 1..(n - 1), Alternates(j)'
          PROVE  Cardinality(SchemaFailures(n)') >= 2 * AggregateThreshold
      <4>1. j \in 1..Len(log) /\ Alternates(j)
        BY <1>1, <1>2, <1>5, <3>3
      <4>2. aggNext >= 2 * AggregateThreshold
        BY <4>1 DEF Levels
      <4>3. Cardinality(SchemaFailures(n)') >= aggNext
        BY <1>8, <1>9, <2>2
      <4>. QED BY <1>1, <1>6, <4>2, <4>3
    <3>. QED BY <3>2, <3>3
  <2>3. ASSUME Alternates(n)', \A j \in 1..(n - 1) : ~Alternates(j)'
        PROVE  m.hints \cap {"per_tool", "aggregate"} # {}
    <3>1. \A j \in 1..Len(log) : ~Alternates(j)
      BY <1>1, <1>2, <1>5, <2>3
    <3>2. aggNext = AggregateThreshold
      BY <3>1 DEF Levels
    <3>3. "per_tool" \in m.hints \/ "aggregate" \in m.hints
      BY <1>8, <1>9, <2>3, <3>2
    <3>. QED BY <3>3
  <2>. QED BY <1>3, <2>1, <2>2, <2>3
<1>16. \A i \in 1..n : i \in 1..Len(log) \/ i = n
  BY <1>1, <1>2
<1>. QED BY <1>3, <1>13, <1>14, <1>15, <1>16 DEF SchemaHintsOwed
-----------------------------------------------------------------------------
LEMMA InitInv == Init => IInv
<1>. SUFFICES ASSUME Init PROVE IInv
  OBVIOUS
<1>. USE BreakerAssumption
<1>1. /\ log = <<>> /\ Len(log) = 0 /\ 1..Len(log) = {}
      /\ asked = <<>> /\ Len(asked) = 0
      /\ todo = <<>> /\ Len(todo) = 0
      /\ window = <<>> /\ Len(window) = 0 /\ 1..Len(window) = {}
  BY DEF Init
<1>2. TypeOK
  <2>1. NoRecord \in [count : Nat, next : Nat]
    BY DEF NoRecord
  <2>2. records \in [Tools \X Kinds -> [count : Nat, next : Nat]]
    BY <2>1 DEF Init
  <2>3. toolNext \in [Tools -> Nat] /\ aggNext \in Nat
    BY DEF Init
  <2>4. last \in Steps \cup {<<>>} /\ repeats \in Nat /\ looping \in BOOLEAN
    BY DEF Init
  <2>5. todo \in Seq(Call) /\ asked \in Seq(Steps) /\ log \in Seq(Message)
    BY <1>1
  <2>6. /\ window \in Seq([tool : Tools, failed : BOOLEAN])
        /\ Len(window) <= WindowSize /\ Len(log) <= MaxResults
    BY <1>1
  <2>. QED BY <2>2, <2>3, <2>4, <2>5, <2>6 DEF TypeOK
<1>3. Numbered /\ Repeating /\ LoopsWarned
  <2>1. Numbered /\ LoopsWarned
    BY <1>1 DEF Numbered, LoopsWarned
  <2>2. repeats = 0 /\ last = <<>> /\ looping = FALSE
    BY DEF Init
  <2>3. looping = (repeats >= ActionThreshold)
    <3>1. ActionThreshold \in Nat \ {0}
      OBVIOUS
    <3>2. (0 >= ActionThreshold) = FALSE
      BY ONLY <3>1
    <3>. QED BY ONLY <2>2, <3>2
  <2>4. \A p \in 0..(repeats - 1) : FALSE
    BY <2>2
  <2>5. Repeating
    BY <1>1, <2>2, <2>3, <2>4 DEF Repeating
  <2>. QED BY <2>1, <2>5
<1>4. ASSUME NEW t \in Tools, NEW k \in Kinds
      PROVE  Counted(t, k)
  <2>1. Streak(t, k) = {}
    BY <1>1 DEF Streak, Current
  <2>2. records[<<t, k>>] = NoRecord
    BY DEF Init
  <2>. QED BY <2>1, <2>2, FS_EmptySet DEF Counted, NoRecord
<1>5. FailuresWarned /\ BreakersTrip /\ SchemaHintsOwed
  BY <1>1 DEF FailuresWarned, BreakersTrip, SchemaHintsOwed
<1>6. Windowed
  <2>1. [p \in 1..Len(window) |-> 0] \in [1..Len(window) -> 1..Len(log)]
    BY <1>1
  <2>2. Pictures([p \in 1..Len(window) |-> 0])
    BY <1>1 DEF Pictures
  <2>. QED BY <2>1, <2>2 DEF Windowed
<1>7. Raised
  BY DEF Init, Raised
<1>8. Levels
  <2>1. \A t \in Tools : Current(t) = {}
    BY <1>1 DEF Current
  <2>2. aggNext = AggregateThreshold /\ \A t \in Tools : toolNext[t] = SchemaThreshold
    BY DEF Init
  <2>. QED BY <1>1, <2>1, <2>2 DEF Levels
<1>. QED BY <1>2, <1>3, <1>4, <1>5, <1>6, <1>7, <1>8 DEF IInv

\* What is said of the messages and the trackers they feed does not depend on
\* the steps that are still to be done.
LEMMA Unfed ==
    ASSUME UNCHANGED <<records, window, toolNext, aggNext, log>>
    PROVE  /\ \A t, k : Counted(t, k) => Counted(t, k)'
           /\ FailuresWarned => FailuresWarned'
           /\ Windowed => Windowed'
           /\ Raised => Raised'
           /\ BreakersTrip => BreakersTrip'
           /\ Levels => Levels'
           /\ SchemaHintsOwed => SchemaHintsOwed'
<1>0. log' = log /\ records' = records /\ window' = window
      /\ toolNext' = toolNext /\ aggNext' = aggNext
  OBVIOUS
<1>1. /\ \A i : SinceSuccess(i)' = SinceSuccess(i)
      /\ \A t : Current(t)' = Current(t)
      /\ \A i, j : Later(j, i)' = Later(j, i)
      /\ \A i : Recent(i)' = Recent(i)
  BY <1>0 DEF SinceSuccess, Current, Later, Recent, Counts
<1>2. /\ \A i : SameFailures(i)' = SameFailures(i)
      /\ \A t, k : Streak(t, k)' = Streak(t, k)
      /\ \A i : SchemaFailures(i)' = SchemaFailures(i)
  BY <1>0, <1>1 DEF SameFailures, Streak, SchemaFailures
<1>3. \A i : FailureNumber(i)' = FailureNumber(i)
  BY <1>2 DEF FailureNumber
<1>4. ASSUME NEW t, NEW k, Counted(t, k)
      PROVE  Counted(t, k)'
  BY <1>0, <1>2, <1>3, <1>4 DEF Counted
<1>5. FailuresWarned => FailuresWarned'
  <2>. DEFINE Tells(i) == \/ FailureNumber(i) = FailureThreshold
                         \/ \E j \in SameFailures(i) :
                               /\ "consecutive" \in log[j].hints
                               /\ FailureNumber(i) = 2 * FailureNumber(j)
  <2>1. \A i : Tells(i)' = Tells(i)
    BY <1>0, <1>2, <1>3
  <2>2. FailuresWarned = \A i \in 1..Len(log) : ("consecutive" \in log[i].hints) = Tells(i)
    BY DEF FailuresWarned
  <2>3. FailuresWarned' = \A i \in 1..Len(log') : ("consecutive" \in log'[i].hints) = Tells(i)'
    BY DEF FailuresWarned
  <2>. HIDE DEF Tells
  <2>. QED BY <1>0, <2>1, <2>2, <2>3
<1>6. ASSUME NEW f, Pictures(f)
      PROVE  Pictures(f)'
  BY <1>0, <1>1, <1>6 DEF Pictures, Counts
<1>7. Windowed => Windowed'
  BY <1>0, <1>6 DEF Windowed
<1>8. Raised => Raised'
  BY <1>0, <1>1 DEF Raised
<1>9. BreakersTrip => BreakersTrip'
  BY <1>0, <1>1, <1>2 DEF BreakersTrip
<1>10. /\ \A i : OwnFailures(i)' = OwnFailures(i)
       /\ \A i : Alternates(i)' = Alternates(i)
  BY <1>0, <1>2 DEF OwnFailures, Alternates
<1>11. Levels => Levels'
  BY <1>0, <1>1, <1>10 DEF Levels
<1>12. SchemaHintsOwed => SchemaHintsOwed'
  BY <1>0, <1>1, <1>2, <1>10 DEF SchemaHintsOwed
<1>. QED BY <1>4, <1>5, <1>7, <1>8, <1>9, <1>11, <1>12

LEMMA NextInv == IInv /\ [Next]_vars => IInv'
<1>. SUFFICES ASSUME IInv, [Next]_vars PROVE IInv'
  OBVIOUS
<1>. USE DEF IInv
<1>1. CASE BeginStep
  <2>1. UNCHANGED <<records, window, toolNext, aggNext, log>>
    BY <1>1 DEF BeginStep
  <2>. QED BY <1>1, <2>1, BeginStepTypes, BeginStepLoops, Unfed
<1>2. CASE Result
  <2>1. PICK m \in Message :
          Writes(m) /\ Records(m) /\ Window(m) /\ Thresholds(m)
    BY <1>2, ResultWrites
  <2>2. TypeOK' /\ Numbered'
    BY <2>1, ResultTypes
  <2>3. Repeating' /\ LoopsWarned'
    BY <2>1, ResultLoops
  <2>4. \A t \in Tools, k \in Kinds : Counted(t, k)'
    BY <2>1, ResultCounted
  <2>5. FailuresWarned'
    BY <2>1, ResultWarned
  <2>6. Windowed'
    BY <2>1, ResultWindowed
  <2>7. Raised'
    BY <2>1, ResultRaised
  <2>8. Pictured'
    <3>1. (TypeOK /\ Windowed => Pictured)'
      BY WindowPictures, PTL
    <3>. QED BY <2>2, <2>6, <3>1
  <2>9. BreakersTrip'
    BY <2>1, <2>8, ResultTrips
  <2>10. Levels' /\ SchemaHintsOwed'
    BY <2>1, <2>8, ResultOwed
  <2>. QED BY <2>2, <2>3, <2>4, <2>5, <2>6, <2>7, <2>9, <2>10
<1>3. CASE UNCHANGED vars
  <2>1. UNCHANGED <<records, window, toolNext, aggNext, log>>
    BY <1>3 DEF vars, trackers
  <2>2. TypeOK' /\ Numbered' /\ Repeating' /\ LoopsWarned'
    BY <1>3 DEF vars, trackers, TypeOK, Numbered, Repeating, LoopsWarned, LastOfStep
  <2>. QED BY <2>1, <2>2, Unfed
<1>. QED BY <1>1, <1>2, <1>3 DEF Next

\* The three detectors and the messages keep their types, and the window never
\* holds more outcomes than its size (tool_dispatch.rs:470).
THEOREM TypeCorrect == Spec => []TypeOK
<1>1. IInv => TypeOK
  BY DEF IInv
<1>. QED BY <1>1, InitInv, NextInv, PTL DEF Spec

\* For every length of an execution and every threshold, the warnings of a
\* failing tool and of a loop are where the history calls for them and nowhere
\* else (tool_dispatch.rs:73, 82, 127 and 899), and the hints of the schema
\* breakers are owed to failures in the window, twice as many once a breaker has
\* tripped (412-451).
THEOREM HintsTold == Spec => []HintsMatchHistory
<1>1. IInv => HintsMatchHistory
  BY DEF IInv, HintsMatchHistory
<1>. QED BY <1>1, InitInv, NextInv, PTL DEF Spec

\* For every size of the window and every threshold, arguments that do not fit
\* the schema are reported as soon as the window of the last outcomes holds as
\* many as a breaker asks for (tool_dispatch.rs:328, 331 and 369).
THEOREM NothingSlipsThrough == Spec => []BreakersTrip
<1>1. IInv => BreakersTrip
  BY DEF IInv
<1>. QED BY <1>1, InitInv, NextInv, PTL DEF Spec
=============================================================================
