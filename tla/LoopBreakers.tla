----------------------------- MODULE LoopBreakers -----------------------------
(***************************************************************************)
(* The three detectors that notice a model going round in circles          *)
(* (cc-agent/src/agent/executor/tool_dispatch.rs): repeated failures of a  *)
(* tool, repeated steps, and arguments that do not fit the schema.  They   *)
(* live for one execution.  dispatch_tools feeds them with the results of  *)
(* a step in order and adds their hints to the tool messages it writes;    *)
(* ToolBatch says that every call has a result.  log is the sequence of    *)
(* these messages, and what the hints mean is stated over it.              *)
(***************************************************************************)
EXTENDS Naturals, Sequences, FiniteSets, SequencesExt

CONSTANTS
    Tools,              \* tool names
    Inputs,             \* arguments, up to the order of their keys
    Kinds,              \* ToolErrorKind
    FailureThreshold,   \* CONSECUTIVE_FAILURE_THRESHOLD, 5
    ActionThreshold,    \* CONSECUTIVE_ACTION_THRESHOLD, 3
    SchemaThreshold,    \* SCHEMA_FAILURE_CIRCUIT_BREAKER_THRESHOLD, 2
    AggregateThreshold, \* AGGREGATE_SCHEMA_FAILURE_THRESHOLD, 3
    WindowSize,         \* AGGREGATE_WINDOW_SIZE, 6
    MaxBatch,           \* bound: calls of one step
    MaxResults          \* bound: results of the execution

ASSUME BreakerAssumption ==
    /\ "schema" \in Kinds /\ "ok" \notin Kinds
    /\ {FailureThreshold, ActionThreshold, SchemaThreshold,
        AggregateThreshold, WindowSize, MaxBatch} \subseteq Nat \ {0}
    /\ MaxResults \in Nat

VARIABLES
    records,  \* ConsecutiveFailureTracker: per tool and kind
    last,     \* ActionLoopDetector: the last step, <<>> before the first
    repeats,  \* ActionLoopDetector: how often in a row
    window,   \* SchemaFailureTracker.call_window
    toolNext, \* SchemaFailureTracker.tool_states: next_threshold
    aggNext,  \* SchemaFailureTracker.aggregate_next_threshold
    todo,     \* the calls of this step whose results are to be written
    looping,  \* loop_warning
    asked,    \* the steps so far
    log       \* the tool messages: [step, tool, outcome, hints]

trackers == <<records, last, repeats, window, toolNext, aggNext>>
vars == <<trackers, todo, looping, asked, log>>

Call == [tool : Tools, input : Inputs]
Steps == UNION {[1..n -> Call] : n \in 1..MaxBatch}
Outcomes == {"ok"} \cup Kinds

NoRecord == [count |-> 0, next |-> FailureThreshold]

Init ==
    /\ records = [p \in Tools \X Kinds |-> NoRecord]
    /\ last = <<>> /\ repeats = 0
    /\ window = <<>>
    /\ toolNext = [t \in Tools |-> SchemaThreshold]
    /\ aggNext = AggregateThreshold
    /\ todo = <<>> /\ looping = FALSE
    /\ asked = <<>> /\ log = <<>>
-----------------------------------------------------------------------------
\* ActionLoopDetector::record
Repeated(step) == IF last = step THEN repeats + 1 ELSE 1

\* Phase B of dispatch_tools begins: the signature of the step is recorded.
BeginStep ==
    /\ todo = <<>>
    /\ \E step \in Steps :
         /\ Len(log) + Len(step) <= MaxResults
         /\ last' = step
         /\ repeats' = Repeated(step)
         /\ looping' = (Repeated(step) >= ActionThreshold)
         /\ todo' = step
         /\ asked' = Append(asked, step)
    /\ UNCHANGED <<records, window, toolNext, aggNext, log>>

\* ConsecutiveFailureTracker::record_failure
Failed(r) ==
    [count |-> r.count + 1,
     next |-> IF r.count + 1 >= r.next THEN r.next * 2 ELSE r.next]

\* Mutant: the window holds one outcome more.
MutPushOutcome(tool, failed) ==
    LET w == Append(window, [tool |-> tool, failed |-> failed])
    IN  IF Len(w) > WindowSize + 1 THEN Tail(w) ELSE w

\* push_outcome: the oldest outcome leaves a full window.
PushOutcome(tool, failed) ==
    LET w == Append(window, [tool |-> tool, failed |-> failed])
    IN  IF Len(w) > WindowSize THEN Tail(w) ELSE w

Failures(w, t) == {i \in 1..Len(w) : w[i].failed /\ w[i].tool = t}
AllFailures(w) == {i \in 1..Len(w) : w[i].failed}
FailedTools(w) == {w[i].tool : i \in AllFailures(w)}

PerToolTrips(w, t) == Cardinality(Failures(w, t)) >= toolNext[t]

AggregateTrips(w) ==
    Cardinality(FailedTools(w)) > 1 /\ Cardinality(AllFailures(w)) >= aggNext

\* Mutant: the threshold over all tools is raised only with its hint.
MutNextAggregate(w, t) ==
    IF AggregateTrips(w) /\ ~PerToolTrips(w, t) THEN 2 * aggNext ELSE aggNext

\* The threshold over all tools after a failure of t.
NextAggregate(w, t) == IF AggregateTrips(w) THEN 2 * aggNext ELSE aggNext

\* The message of a result with its hints; the loop warning is on the last.
WriteMessage(outcome, hints) ==
    /\ log' = Append(log,
         [step |-> Len(asked), tool |-> Head(todo).tool, outcome |-> outcome,
          hints |-> hints \cup
            {h \in {"loop"} : looping /\ Len(todo) = 1}])
    /\ todo' = Tail(todo)
    /\ UNCHANGED <<last, repeats, looping, asked>>

\* Mutant: a success does not reset the threshold of the tool.
MutSucceeds ==
    /\ todo # <<>>
    /\ LET t == Head(todo).tool
       IN  /\ records' = [p \in Tools \X Kinds |->
                            IF p[1] = t THEN NoRecord ELSE records[p]]
           /\ window' = PushOutcome(t, FALSE)
    /\ WriteMessage("ok", {})
    /\ UNCHANGED <<toolNext, aggNext>>

\* reset_tool and reset: the tool starts afresh, the window keeps its failures.
Succeeds ==
    /\ todo # <<>>
    /\ LET t == Head(todo).tool
       IN  /\ records' = [p \in Tools \X Kinds |->
                            IF p[1] = t THEN NoRecord ELSE records[p]]
           /\ toolNext' = [toolNext EXCEPT ![t] = SchemaThreshold]
           /\ window' = PushOutcome(t, FALSE)
    /\ WriteMessage("ok", {})
    /\ UNCHANGED aggNext

\* An error that has nothing to do with the schema is not in the window.
Fails(kind) ==
    /\ todo # <<>> /\ kind # "schema"
    /\ LET p == <<Head(todo).tool, kind>>
       IN  /\ records' = [records EXCEPT ![p] = Failed(@)]
           /\ WriteMessage(kind,
                {h \in {"consecutive"} : records[p].count + 1 >= records[p].next})
    /\ UNCHANGED <<window, toolNext, aggNext>>

\* record_failure_detailed: either threshold reached is doubled, but a breaker
\* of the tool hides the one over all tools.
FailsSchema ==
    /\ todo # <<>>
    /\ LET t == Head(todo).tool
           p == <<t, "schema">>
           w == PushOutcome(t, TRUE)
       IN  /\ records' = [records EXCEPT ![p] = Failed(@)]
           /\ window' = w
           /\ toolNext' = IF PerToolTrips(w, t)
                          THEN [toolNext EXCEPT ![t] = 2 * @] ELSE toolNext
           /\ aggNext' = NextAggregate(w, t)
           /\ WriteMessage("schema",
                {h \in {"consecutive"} : records[p].count + 1 >= records[p].next}
                \cup {h \in {"per_tool"} : PerToolTrips(w, t)}
                \cup {h \in {"aggregate"} :
                        AggregateTrips(w) /\ ~PerToolTrips(w, t)})

Result == Succeeds \/ FailsSchema \/ \E kind \in Kinds : Fails(kind)
Next == BeginStep \/ Result
Spec == Init /\ [][Next]_vars
-----------------------------------------------------------------------------
Hints == {"consecutive", "loop", "per_tool", "aggregate"}

Message == [step : Nat, tool : Tools, outcome : Outcomes, hints : SUBSET Hints]

TypeOK ==
    /\ records \in [Tools \X Kinds -> [count : Nat, next : Nat]]
    /\ last \in Steps \cup {<<>>} /\ repeats \in Nat
    /\ window \in Seq([tool : Tools, failed : BOOLEAN])
    /\ Len(window) <= WindowSize
    /\ toolNext \in [Tools -> Nat] /\ aggNext \in Nat
    /\ todo \in Seq(Call) /\ looping \in BOOLEAN
    /\ asked \in Seq(Steps)
    /\ log \in Seq(Message) /\ Len(log) <= MaxResults

\* The messages of a tool up to the i-th since it last succeeded, and those
\* among them that report the same failure.
SinceSuccess(i) ==
    {j \in 1..i : log[j].tool = log[i].tool
        /\ \A m \in j..i : log[m].tool = log[i].tool => log[m].outcome # "ok"}
SameFailures(i) == {j \in SinceSuccess(i) : log[j].outcome = log[i].outcome}
FailureNumber(i) == Cardinality(SameFailures(i))

\* The warning about a failing tool comes with the failure number T of one kind
\* since the tool last succeeded, then each time the number has doubled since
\* the warning before, and at no other time (tool_dispatch.rs:73 and 82).
FailuresWarned ==
    \A i \in 1..Len(log) :
        ("consecutive" \in log[i].hints) =
            \/ FailureNumber(i) = FailureThreshold
            \/ \E j \in SameFailures(i) :
                  /\ "consecutive" \in log[j].hints
                  /\ FailureNumber(i) = 2 * FailureNumber(j)

LastOfStep(i) ==
    IF i < Len(log) THEN log[i + 1].step # log[i].step
    ELSE todo = <<>> \/ Len(asked) > log[i].step

\* The last message of a step, and no other, warns of a loop exactly if the
\* step is the same as the ActionThreshold - 1 steps before it
\* (tool_dispatch.rs:127, 899).
LoopsWarned ==
    \A i \in 1..Len(log) :
        LET s == log[i].step
        IN  ("loop" \in log[i].hints) =
              /\ LastOfStep(i)
              /\ s >= ActionThreshold
              /\ \A p \in 1..(ActionThreshold - 1) : asked[s - p] = asked[s]

Counts(m) == m.outcome \in {"ok", "schema"}

\* The results in the window when the i-th message was written.
Recent(i) ==
    {j \in 1..i :
        /\ Counts(log[j])
        /\ Cardinality({m \in j..i : Counts(log[m])}) <= WindowSize}
SchemaFailures(i) == {j \in Recent(i) : log[j].outcome = "schema"}

\* What the two schema breakers count when a result reports wrong arguments.
OwnFailures(i) == {j \in SchemaFailures(i) : log[j].tool = log[i].tool}
Alternates(i) ==
    /\ log[i].outcome = "schema"
    /\ Cardinality(SchemaFailures(i)) >= AggregateThreshold
    /\ Cardinality({log[j].tool : j \in SchemaFailures(i)}) > 1

\* A schema hint is owed to failures still in the window, and to twice as many
\* once its threshold was reached: for a tool, since it last succeeded; over
\* all tools, since the first result that reached it, on which a breaker trips
\* even if its hint is the tool's (tool_dispatch.rs:412-451).
SchemaHintsOwed ==
    \A i \in 1..Len(log) :
        /\ "per_tool" \in log[i].hints =>
             /\ log[i].outcome = "schema"
             /\ Cardinality(OwnFailures(i)) >= SchemaThreshold
             /\ \A j \in SinceSuccess(i) \ {i} : "per_tool" \in log[j].hints =>
                  Cardinality(OwnFailures(i)) >= 2 * SchemaThreshold
        /\ "aggregate" \in log[i].hints =>
             /\ Alternates(i) /\ "per_tool" \notin log[i].hints
             /\ \A j \in 1..(i - 1) : Alternates(j) =>
                  Cardinality(SchemaFailures(i)) >= 2 * AggregateThreshold
        /\ Alternates(i) /\ (\A j \in 1..(i - 1) : ~Alternates(j)) =>
             log[i].hints \cap {"per_tool", "aggregate"} # {}

\* The hints say what the history of the execution says, no more and no less.
HintsMatchHistory == FailuresWarned /\ LoopsWarned /\ SchemaHintsOwed

\* A tool whose arguments are wrong a second time within the window is reported,
\* unless it has been since it last succeeded; successes of other tools in
\* between do not hide it (tool_dispatch.rs:328, 369).  Wrong arguments that
\* alternate between tools are reported, too: as soon as the window holds
\* AggregateThreshold of them a breaker has tripped (331, issue #404).
BreakersTrip ==
    \A i \in 1..Len(log) :
        /\ /\ log[i].outcome = "schema"
           /\ Cardinality({j \in SchemaFailures(i) : log[j].tool = log[i].tool})
                >= SchemaThreshold
           => \E j \in SinceSuccess(i) : "per_tool" \in log[j].hints
        /\ /\ Cardinality(SchemaFailures(i)) >= AggregateThreshold
           /\ Cardinality({log[j].tool : j \in SchemaFailures(i)}) > 1
           => \E j \in 1..i : log[j].hints \cap {"per_tool", "aggregate"} # {}
=============================================================================
