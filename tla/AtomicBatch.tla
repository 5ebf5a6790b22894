----------------------------- MODULE AtomicBatch -----------------------------
(***************************************************************************)
(* What one call of dispatch_tools promises to the ReAct loop, whatever    *)
(* happens inside it: it returns once, and the conversation then holds     *)
(* either nothing of the batch or the AI message with an answer to every   *)
(* tool call.  ToolBatch is shown to implement this module and ReactLoop   *)
(* uses it as its dispatch step.                                           *)
(***************************************************************************)
EXTENDS Naturals

CONSTANT N  \* number of tool calls in the batch

VARIABLES
    asked,     \* the AI message is in the conversation
    answered,  \* tool calls whose result is in the conversation
    outcome    \* what the batch returned

vars == <<asked, answered, outcome>>

\* Ways a batch ends with its transcript written, and without.
Committed == {"ok", "interrupted", "deferred"}
Aborted   == {"interrupted", "fatal"}

Init ==
    /\ asked = FALSE
    /\ answered = {}
    /\ outcome = "running"

Commit ==
    /\ outcome = "running"
    /\ outcome' \in Committed
    /\ asked' = TRUE
    /\ answered' = 1..N

Abort ==
    /\ outcome = "running"
    /\ outcome' \in Aborted
    /\ UNCHANGED <<asked, answered>>

Next == Commit \/ Abort

Spec == Init /\ [][Next]_vars
=============================================================================
