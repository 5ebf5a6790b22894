-------------------------- MODULE ToolBatchProofs --------------------------
(***************************************************************************)
(* Proofs about ToolBatch, for every number of calls and of middlewares.   *)
(*                                                                         *)
(* The safety properties follow from one inductive invariant, IInv: what   *)
(* has happened to a call is determined by pc, by the cursor of the triage *)
(* loop and by the verdict of the chain.                                   *)
(***************************************************************************)
EXTENDS ToolBatch, TLAPS

Approved(c) == \E i \in 1..Len(ready) : ready[i] = c

\* Nothing of the batch has left dispatch_tools yet.
Unwritten == history = <<>> /\ outcome = "running"

\* The triage loop has filed every call before the cursor, and only those.
Filed(upto) ==
    /\ Len(settled) + Len(ready) = upto - 1
    /\ \A c \in Calls : Settled(c) <=> (c < upto /\ verdict[c] = "rejected")
    /\ \A c \in Calls : Approved(c) <=> (c < upto /\ verdict[c] = "ok")
    /\ \A c \in Calls : c < upto => verdict[c] # "fatal"

BeforeTriage ==
    pc \in {"queued", "approving"} =>
        /\ Unwritten
        /\ settled = <<>> /\ ready = <<>> /\ cursor = 1
        /\ \A c \in Calls : exec[c] = "idle" /\ ends[c] = 0

InTriage ==
    pc = "triage" =>
        /\ Unwritten
        /\ Filed(cursor)
        /\ \A c \in Calls : /\ exec[c] = "idle"
                            /\ ends[c] = IF Settled(c) THEN 1 ELSE 0

Executing ==
    pc \in {"running", "after"} =>
        /\ Unwritten
        /\ Filed(N + 1)
        /\ \A c \in Calls :
             /\ exec[c] = "idle" <=> verdict[c] = "rejected"
             /\ ends[c] = IF exec[c] = "running" THEN 0 ELSE 1

Joined ==
    pc = "after" =>
        /\ \A c \in Calls : exec[c] # "running"
        /\ (\E c \in Calls : exec[c] = "interrupted") => wasCancelled

\* A tool is interrupted by a cancelled token only, and the token stays so.
InterruptedOnlyByCancel ==
    (\E c \in Calls : exec[c] = "interrupted") => cancelled

Returned ==
    pc = "done" =>
        /\ \A c \in Calls : ends[c] = 1
        /\ outcome # "running"
        /\ \/ /\ history = <<>>
              /\ outcome \in {"interrupted", "fatal"}
              /\ \A c \in Calls : exec[c] = "idle"
           \/ /\ history = Transcript
              /\ outcome \in {"ok", "interrupted", "deferred"}
              /\ Filed(N + 1)
              /\ \A c \in Calls : exec[c] = "idle" <=> verdict[c] = "rejected"
              /\ (\E c \in Calls : exec[c] = "interrupted")
                   => outcome = "interrupted"

\* What the screen shows of a call follows the triage loop.
Shown ==
    /\ pc # "queued" => \A c \in Calls : shown[c] # "none"
    /\ pc = "triage" =>
         \A c \in Calls : c < cursor /\ verdict[c] = "ok" => shown[c] = "started"
    /\ \A c \in Calls : exec[c] # "idle" => shown[c] = "started"

IInv ==
    /\ TypeOK
    /\ Shown
    /\ BeforeTriage
    /\ InTriage
    /\ Executing
    /\ Joined
    /\ InterruptedOnlyByCancel
    /\ Returned
-----------------------------------------------------------------------------
\* Appending c to a sequence of calls adds c to what it contains, nothing else.
LEMMA AppendMembers ==
    ASSUME NEW s \in Seq(Calls), NEW e \in Calls, NEW c \in Calls
    PROVE  (\E i \in 1..Len(Append(s, e)) : Append(s, e)[i] = c)
              <=> (\E i \in 1..Len(s) : s[i] = c) \/ c = e
<1>1. /\ Len(Append(s, e)) = Len(s) + 1
      /\ Len(s) \in Nat
      /\ \A i \in 1..Len(s) : Append(s, e)[i] = s[i]
      /\ Append(s, e)[Len(s) + 1] = e
  OBVIOUS
<1>2. ASSUME NEW i \in 1..Len(Append(s, e)), Append(s, e)[i] = c
      PROVE  (\E j \in 1..Len(s) : s[j] = c) \/ c = e
  <2>1. CASE i = Len(s) + 1
    BY <1>1, <1>2, <2>1
  <2>2. CASE i \in 1..Len(s)
    BY <1>1, <1>2, <2>2
  <2> QED
    BY <1>1, <2>1, <2>2
<1>3. ASSUME NEW j \in 1..Len(s), s[j] = c
      PROVE  \E i \in 1..Len(Append(s, e)) : Append(s, e)[i] = c
  <2>1. j \in 1..Len(Append(s, e)) /\ Append(s, e)[j] = c
    BY <1>1, <1>3
  <2> QED
    BY <2>1
<1>4. ASSUME c = e
      PROVE  \E i \in 1..Len(Append(s, e)) : Append(s, e)[i] = c
  <2>1. /\ Len(s) + 1 \in 1..Len(Append(s, e))
        /\ Append(s, e)[Len(s) + 1] = c
    BY <1>1, <1>4
  <2> QED
    BY <2>1
<1> QED
  BY <1>2, <1>3, <1>4

\* The transcript is the AI message followed by one tool result for every
\* settled and every ready call, in that order.
LEMMA TranscriptShape ==
    ASSUME TypeOK
    PROVE  /\ Transcript \in Seq(Messages)
           /\ Len(Transcript) = 1 + Len(settled) + Len(ready)
           /\ Transcript[1] = AiMessage
           /\ \A i \in 1..Len(settled) :
                Transcript[1 + i] = ToolMessage(settled[i])
           /\ \A i \in 1..Len(ready) :
                Transcript[1 + Len(settled) + i] = ToolMessage(ready[i])
<1> DEFINE answers == [i \in 1..Len(Results) |-> ToolMessage(Results[i])]
<1>1. settled \in Seq(Calls) /\ ready \in Seq(Calls) /\ N \in Nat
  BY BatchAssumption DEF TypeOK
<1>2. /\ Results \in Seq(Calls)
      /\ Len(Results) = Len(settled) + Len(ready)
      /\ \A i \in 1..Len(settled) : Results[i] = settled[i]
      /\ \A i \in 1..Len(ready) : Results[Len(settled) + i] = ready[i]
  BY <1>1 DEF Results
<1>3. \A c \in Calls : ToolMessage(c) \in Messages
  BY <1>1 DEF ToolMessage, Messages, Calls
<1>4. AiMessage \in Messages
  BY <1>1 DEF AiMessage, Messages
<1>5. \A i \in 1..Len(Results) : Results[i] \in Calls
  BY <1>2
<1>6. answers \in Seq(Messages) /\ Len(answers) = Len(Results)
  BY <1>2, <1>3, <1>5
<1>7. Transcript = <<AiMessage>> \o answers
  BY DEF Transcript
<1>8. /\ <<AiMessage>> \in Seq(Messages)
      /\ Len(<<AiMessage>>) = 1
      /\ <<AiMessage>>[1] = AiMessage
  BY <1>4
<1> HIDE DEF answers
<1>9. /\ Transcript \in Seq(Messages)
      /\ Len(Transcript) = 1 + Len(answers)
      /\ Transcript[1] = AiMessage
      /\ \A i \in 1..Len(answers) : Transcript[1 + i] = answers[i]
  BY <1>6, <1>7, <1>8
<1>10. \A i \in 1..Len(Results) : answers[i] = ToolMessage(Results[i])
  BY DEF answers
<1>11. /\ \A i \in 1..Len(settled) : answers[i] = ToolMessage(settled[i])
       /\ \A i \in 1..Len(ready) :
            answers[Len(settled) + i] = ToolMessage(ready[i])
  BY <1>1, <1>2, <1>10
<1> QED
  BY <1>1, <1>2, <1>6, <1>9, <1>11
-----------------------------------------------------------------------------
LEMMA InitInv == Init => IInv
<1> SUFFICES ASSUME Init PROVE IInv
  OBVIOUS
<1>1. TypeOK
  <2>1. /\ pc \in {"queued", "approving", "triage", "running", "after", "done"}
        /\ cancelled \in BOOLEAN /\ wasCancelled \in BOOLEAN
        /\ deferred \in BOOLEAN
        /\ outcome \in {"running", "ok", "interrupted", "deferred", "fatal"}
    BY Zenon DEF Init
  <2>2. /\ verdict \in [Calls -> Verdicts]
        /\ exec \in [Calls -> ExecStates]
        /\ shown \in [Calls -> {"none", "pending", "started"}]
        /\ ends \in [Calls -> Nat]
    BY DEF Init, Verdicts, ExecStates
  <2>3. /\ settled \in Seq(Calls) /\ ready \in Seq(Calls)
        /\ history \in Seq(Messages)
    BY DEF Init
  <2>4. mw \in 0..M /\ cursor \in 1..(N + 1)
    BY BatchAssumption DEF Init
  <2> QED
    BY <2>1, <2>2, <2>3, <2>4 DEF TypeOK
<1>2. BeforeTriage
  BY DEF Init, BeforeTriage, Unwritten
<1>3. InTriage /\ Executing /\ Joined /\ Returned
  BY DEF Init, InTriage, Executing, Joined, Returned
<1>4. InterruptedOnlyByCancel /\ Shown
  BY DEF Init, InterruptedOnlyByCancel, Shown
<1> QED
  BY <1>1, <1>2, <1>3, <1>4 DEF IInv
\* Abandoning a batch keeps the types.
LEMMA AbandonType ==
    ASSUME TypeOK, NEW why \in {"interrupted", "fatal"}, Abandon(why)
    PROVE  TypeOK'
<1>1. ends' \in [Calls -> Nat]
  BY DEF Abandon, ClosePending, TypeOK
<1>2. /\ outcome' \in {"running", "ok", "interrupted", "deferred", "fatal"}
      /\ pc' \in {"queued", "approving", "triage", "running", "after", "done"}
  BY DEF Abandon
<1>3. UNCHANGED <<cancelled, mw, verdict, cursor, settled, ready, exec, shown,
                  wasCancelled, deferred, history>>
  BY DEF Abandon, queues
<1> QED
  BY <1>1, <1>2, <1>3 DEF TypeOK

LEMMA StepType == IInv /\ [Next]_vars => TypeOK'
<1> SUFFICES ASSUME IInv, [Next]_vars PROVE TypeOK'
  OBVIOUS
<1>0. TypeOK /\ N \in Nat \ {0} /\ M \in Nat
  BY BatchAssumption DEF IInv
<1>1. CASE Announce
  BY <1>0, <1>1 DEF Announce, TypeOK, queues, display, result, Verdicts
<1>2. CASE RunMiddleware
  BY <1>0, <1>2 DEF RunMiddleware, TypeOK, queues, display, result, Verdicts
<1>3. CASE FinishChain
  BY <1>0, <1>3 DEF FinishChain, TypeOK, queues, display, result, Verdicts
<1>4. CASE CancelApproval
  BY <1>0, <1>4, AbandonType DEF CancelApproval
<1>5. CASE TriageCancelled
  BY <1>0, <1>5, AbandonType DEF TriageCancelled
<1>6. CASE TriageApproved
  <2>1. cursor \in Calls /\ cursor' \in 1..(N + 1)
    BY <1>0, <1>6 DEF TriageApproved, TypeOK, Calls
  <2>2. shown' \in [Calls -> {"none", "pending", "started"}]
    BY <1>0, <1>6, <2>1 DEF TriageApproved, TypeOK
  <2>3. ready' \in Seq(Calls)
    BY <1>0, <1>6, <2>1 DEF TriageApproved, TypeOK
  <2>4. UNCHANGED <<pc, cancelled, mw, verdict, settled, exec, ends,
                    wasCancelled, deferred, history, outcome>>
    BY <1>6 DEF TriageApproved, result
  <2> QED
    BY <1>0, <2>1, <2>2, <2>3, <2>4 DEF TypeOK
<1>7. CASE TriageRejected
  <2>1. cursor \in Calls /\ cursor' \in 1..(N + 1)
    BY <1>0, <1>7 DEF TriageRejected, TypeOK, Calls
  <2>2. ends' \in [Calls -> Nat]
    BY <1>0, <1>7, <2>1 DEF TriageRejected, TypeOK
  <2>3. settled' \in Seq(Calls)
    BY <1>0, <1>7, <2>1 DEF TriageRejected, TypeOK
  <2>4. UNCHANGED <<pc, cancelled, mw, verdict, ready, exec, shown,
                    wasCancelled, deferred, history, outcome>>
    BY <1>7 DEF TriageRejected, result
  <2> QED
    BY <1>0, <2>1, <2>2, <2>3, <2>4 DEF TypeOK
<1>8. CASE TriageFatal
  BY <1>0, <1>8, AbandonType DEF TriageFatal
<1>9. CASE Launch
  <2>1. exec' \in [Calls -> ExecStates]
    BY <1>0, <1>9 DEF Launch, TypeOK, ExecStates
  <2>2. /\ pc' = "running"
        /\ UNCHANGED <<cancelled, mw, verdict, cursor, settled, ready, shown,
                       ends, wasCancelled, deferred, history, outcome>>
    BY <1>9 DEF Launch, queues, display, result
  <2> QED
    BY <1>0, <2>1, <2>2 DEF TypeOK
<1>10. ASSUME NEW c \in Calls, CompleteTool(c) PROVE TypeOK'
  BY <1>0, <1>10 DEF CompleteTool, TypeOK, queues, display, result, Verdicts, ExecStates, Endings
<1>11. ASSUME NEW c \in Calls, InterruptTool(c) PROVE TypeOK'
  BY <1>0, <1>11 DEF InterruptTool, TypeOK, queues, display, result, Verdicts, ExecStates, Endings
<1>12. CASE Join
  BY <1>0, <1>12 DEF Join, TypeOK, queues, display, result, Verdicts
<1>13. CASE AfterTool
  <2>1. Len(ready) <= N
    BY <1>0, <1>13 DEF AfterTool, IInv, Executing, Filed, TypeOK
  <2>2. cursor' \in 1..(N + 1)
    BY <1>0, <1>13, <2>1 DEF AfterTool, TypeOK
  <2>3. deferred' \in BOOLEAN
    BY <1>0, <1>13, Zenon DEF AfterTool, TypeOK
  <2>4. UNCHANGED <<pc, cancelled, mw, verdict, settled, ready, exec, shown,
                    ends, wasCancelled, history, outcome>>
    BY <1>13 DEF AfterTool, queues, display
  <2> QED
    BY <1>0, <2>2, <2>3, <2>4 DEF TypeOK
<1>14. CASE Write
  <2>1. history' \in Seq(Messages)
    BY <1>0, <1>14, TranscriptShape DEF Write
  <2>2. /\ pc' = "done"
        /\ outcome' \in {"interrupted", "deferred", "ok"}
        /\ UNCHANGED <<cancelled, mw, verdict, cursor, settled, ready, exec,
                       shown, ends, wasCancelled, deferred>>
    BY <1>14 DEF Write, queues, display
  <2> QED
    BY <1>0, <2>1, <2>2 DEF TypeOK
<1>15. CASE Cancel
  BY <1>0, <1>15 DEF Cancel, TypeOK, queues, display, result, Verdicts
<1>16. CASE UNCHANGED vars
  BY <1>0, <1>16 DEF vars, TypeOK
<1> QED
  BY <1>1, <1>2, <1>3, <1>4, <1>5, <1>6, <1>7, <1>8, <1>9, <1>10, <1>11, <1>12, <1>13, <1>14, <1>15, <1>16 DEF Next, Triage, Finished

\* The parts of the invariant beside the types.
Control ==
    /\ BeforeTriage
    /\ InTriage
    /\ Executing
    /\ Joined
    /\ InterruptedOnlyByCancel
    /\ Returned

LEMMA StepControl == IInv /\ [Next]_vars => Control'
<1> SUFFICES ASSUME IInv, [Next]_vars PROVE Control'
  OBVIOUS
<1>0. TypeOK /\ Control /\ N \in Nat \ {0}
  BY BatchAssumption DEF IInv, Control
<1>1. CASE Announce
  BY <1>0, <1>1 DEF Announce, TypeOK, queues, display, result,
         Control, BeforeTriage, InTriage, Executing, Joined,
         InterruptedOnlyByCancel, Returned, Unwritten, Filed, Settled, Approved, Abandon, ClosePending
<1>2. CASE RunMiddleware
  BY <1>0, <1>2 DEF RunMiddleware, TypeOK, queues, display, result,
         Control, BeforeTriage, InTriage, Executing, Joined,
         InterruptedOnlyByCancel, Returned, Unwritten, Filed, Settled, Approved, Abandon, ClosePending
<1>3. CASE FinishChain
  BY <1>0, <1>3 DEF FinishChain, TypeOK, queues, display, result,
         Control, BeforeTriage, InTriage, Executing, Joined,
         InterruptedOnlyByCancel, Returned, Unwritten, Filed, Settled, Approved, Abandon, ClosePending
<1>4. CASE CancelApproval
  BY <1>0, <1>4 DEF CancelApproval, TypeOK, queues, display, result,
         Control, BeforeTriage, InTriage, Executing, Joined,
         InterruptedOnlyByCancel, Returned, Unwritten, Filed, Settled, Approved, Abandon, ClosePending
<1>5. CASE TriageCancelled
  BY <1>0, <1>5 DEF TriageCancelled, TypeOK, queues, display, result,
         Control, BeforeTriage, InTriage, Executing, Joined,
         InterruptedOnlyByCancel, Returned, Unwritten, Filed, Settled, Approved, Abandon, ClosePending
<1>6. CASE TriageApproved
  <2>1. /\ pc = "triage" /\ pc' = "triage"
        /\ cursor \in Calls /\ cursor' = cursor + 1
        /\ verdict[cursor] = "ok"
        /\ ready' = Append(ready, cursor)
        /\ UNCHANGED <<cancelled, verdict, settled, exec, history, outcome>>
    BY <1>0, <1>6 DEF TriageApproved, TypeOK, Calls, result
  <2>2. InTriage
    BY <1>0 DEF Control
  <2>3. Len(ready') = Len(ready) + 1 /\ Len(ready) \in Nat
    BY <1>0, <2>1 DEF TypeOK
  <2>4. \A c \in Calls : Approved(c)' <=> Approved(c) \/ c = cursor
    <3>1. ready \in Seq(Calls)
      BY <1>0 DEF TypeOK
    <3> QED
      BY <2>1, <3>1, AppendMembers DEF Approved
  <2>5. \A c \in Calls : Settled(c)' <=> Settled(c)
    BY <2>1 DEF Settled
  <2>6. \A c \in Calls : c < cursor + 1 <=> c < cursor \/ c = cursor
    BY <1>0, <2>1 DEF Calls
  <2>7. Filed(cursor)'
    <3>1. Len(settled') = Len(settled) /\ Len(settled) \in Nat
      BY <1>0, <2>1 DEF TypeOK
    <3>2. Len(settled)' + Len(ready)' = cursor' - 1
      BY <1>0, <2>1, <2>2, <2>3, <3>1 DEF InTriage, Filed, Calls, TypeOK
    <3> QED
      BY <2>1, <2>2, <2>4, <2>5, <2>6, <3>2 DEF InTriage, Filed
  <2>8. \A c \in Calls : ends'[c] = IF Settled(c)' THEN 1 ELSE 0
    BY <1>6, <2>1, <2>2, <2>5 DEF TriageApproved, InTriage
  <2>9. InTriage'
    BY <2>1, <2>2, <2>7, <2>8 DEF InTriage, Unwritten
  <2> QED
    BY <1>0, <2>1, <2>9
    DEF Control, BeforeTriage, Executing, Joined, InterruptedOnlyByCancel,
        Returned
<1>7. CASE TriageRejected
  <2>1. /\ pc = "triage" /\ pc' = "triage"
        /\ cursor \in Calls /\ cursor' = cursor + 1
        /\ verdict[cursor] = "rejected"
        /\ settled' = Append(settled, cursor)
        /\ UNCHANGED <<cancelled, verdict, ready, exec, history, outcome>>
    BY <1>0, <1>7 DEF TriageRejected, TypeOK, Calls, result
  <2>2. InTriage
    BY <1>0 DEF Control
  <2>3. Len(settled') = Len(settled) + 1 /\ Len(settled) \in Nat
    BY <1>0, <2>1 DEF TypeOK
  <2>4. \A c \in Calls : Settled(c)' <=> Settled(c) \/ c = cursor
    <3>1. settled \in Seq(Calls)
      BY <1>0 DEF TypeOK
    <3> QED
      BY <2>1, <3>1, AppendMembers DEF Settled
  <2>5. \A c \in Calls : Approved(c)' <=> Approved(c)
    BY <2>1 DEF Approved
  <2>6. \A c \in Calls : c < cursor + 1 <=> c < cursor \/ c = cursor
    BY <1>0, <2>1 DEF Calls
  <2>7. Filed(cursor)'
    <3>1. Len(ready') = Len(ready) /\ Len(ready) \in Nat
      BY <1>0, <2>1 DEF TypeOK
    <3>2. Len(settled)' + Len(ready)' = cursor' - 1
      BY <1>0, <2>1, <2>2, <2>3, <3>1 DEF InTriage, Filed, Calls, TypeOK
    <3> QED
      BY <2>1, <2>2, <2>4, <2>5, <2>6, <3>2 DEF InTriage, Filed
  <2>8. \A c \in Calls : ends'[c] = IF Settled(c)' THEN 1 ELSE 0
    <3>1. ~Settled(cursor)
      BY <1>0, <2>1, <2>2 DEF InTriage, Filed, Calls
    <3>2. ends' = [ends EXCEPT ![cursor] = @ + 1] /\ ends \in [Calls -> Nat]
      BY <1>0, <1>7 DEF TriageRejected, TypeOK
    <3> QED
      BY <2>1, <2>2, <2>4, <3>1, <3>2 DEF InTriage
  <2>9. InTriage'
    BY <2>1, <2>2, <2>7, <2>8 DEF InTriage, Unwritten
  <2> QED
    BY <1>0, <2>1, <2>9
    DEF Control, BeforeTriage, Executing, Joined, InterruptedOnlyByCancel,
        Returned
<1>8. CASE TriageFatal
  <2>1. /\ pc = "triage" /\ pc' = "done" /\ outcome' = "fatal"
        /\ UNCHANGED <<cancelled, settled, exec, history>>
        /\ ends' = [c \in Calls |-> IF Settled(c) THEN ends[c] ELSE ends[c] + 1]
    BY <1>8 DEF TriageFatal, Abandon, ClosePending, queues
  <2>2. InTriage
    BY <1>0 DEF Control
  <2>3. \A c \in Calls : ends'[c] = 1
    BY <2>1, <2>2 DEF InTriage
  <2>4. history' = <<>> /\ \A c \in Calls : exec'[c] = "idle"
    BY <2>1, <2>2 DEF InTriage, Unwritten
  <2> QED
    BY <1>0, <2>1, <2>3, <2>4
    DEF Control, BeforeTriage, InTriage, Executing, Joined,
        InterruptedOnlyByCancel, Returned
<1>9. CASE Launch
  <2>1. /\ pc = "triage" /\ pc' = "running" /\ cursor = N + 1
        /\ UNCHANGED <<cancelled, verdict, settled, ready, ends, history, outcome>>
        /\ exec' = [c \in Calls |-> IF verdict[c] = "ok" THEN "running" ELSE exec[c]]
    BY <1>0, <1>9 DEF Launch, TypeOK, queues, display, result
  <2>2. InTriage /\ Filed(N + 1)
    BY <1>0, <2>1 DEF Control, InTriage
  <2>3. Filed(N + 1)'
    BY <2>1, <2>2 DEF Filed, Settled, Approved
  <2>4. \A c \in Calls : verdict[c] \in {"ok", "rejected"}
    BY <1>0, <2>2 DEF Filed, TypeOK, Verdicts, Calls
  <2>5. \A c \in Calls : Settled(c) <=> verdict[c] = "rejected"
    BY <1>0, <2>2 DEF Filed, Calls
  <2>6. \A c \in Calls :
          /\ exec'[c] = "idle" <=> verdict'[c] = "rejected"
          /\ ends'[c] = IF exec'[c] = "running" THEN 0 ELSE 1
    BY <2>1, <2>2, <2>4, <2>5 DEF InTriage
  <2>7. Executing'
    BY <2>1, <2>2, <2>3, <2>6 DEF Executing, InTriage, Unwritten
  <2>8. InterruptedOnlyByCancel'
    BY <1>0, <2>1 DEF Control, InterruptedOnlyByCancel
  <2> QED
    BY <2>1, <2>7, <2>8
    DEF Control, BeforeTriage, InTriage, Joined, Returned
<1>10. ASSUME NEW c \in Calls, CompleteTool(c) PROVE Control'
  <2>1. PICK r \in Endings : exec' = [exec EXCEPT ![c] = r]
    BY <1>10 DEF CompleteTool
  <2>2. /\ pc = "running" /\ pc' = "running" /\ exec[c] = "running"
        /\ ends' = [ends EXCEPT ![c] = @ + 1]
        /\ UNCHANGED <<cancelled, verdict, settled, ready, history, outcome>>
        /\ r \notin {"idle", "running", "interrupted"}
    BY <1>10 DEF CompleteTool, queues, result, Endings
  <2>3. Filed(N + 1)'
    BY <1>0, <2>2 DEF Control, Executing, Filed, Settled, Approved
  <2>4. \A d \in Calls :
          /\ exec'[d] = "idle" <=> verdict'[d] = "rejected"
          /\ ends'[d] = IF exec'[d] = "running" THEN 0 ELSE 1
    BY <1>0, <2>1, <2>2 DEF Control, Executing, TypeOK
  <2>5. InterruptedOnlyByCancel'
    BY <1>0, <2>1, <2>2 DEF Control, InterruptedOnlyByCancel, TypeOK
  <2> QED
    BY <1>0, <2>2, <2>3, <2>4, <2>5
    DEF Control, BeforeTriage, InTriage, Executing, Joined, Returned, Unwritten
<1>11. ASSUME NEW c \in Calls, InterruptTool(c) PROVE Control'
  BY <1>0, <1>11 DEF InterruptTool, TypeOK, queues, display, result,
         Control, BeforeTriage, InTriage, Executing, Joined,
         InterruptedOnlyByCancel, Returned, Unwritten, Filed, Settled, Approved
<1>12. CASE Join
  BY <1>0, <1>12 DEF Join, TypeOK, queues, display, result,
         Control, BeforeTriage, InTriage, Executing, Joined,
         InterruptedOnlyByCancel, Returned, Unwritten, Filed, Settled, Approved, Abandon, ClosePending
<1>13. CASE AfterTool
  BY <1>0, <1>13 DEF AfterTool, TypeOK, queues, display, result,
         Control, BeforeTriage, InTriage, Executing, Joined,
         InterruptedOnlyByCancel, Returned, Unwritten, Filed, Settled, Approved, Abandon, ClosePending
<1>14. CASE Write
  <2>1. /\ pc = "after" /\ pc' = "done"
        /\ history' = Transcript
        /\ outcome' = IF wasCancelled THEN "interrupted"
                      ELSE IF deferred THEN "deferred" ELSE "ok"
        /\ UNCHANGED <<cancelled, verdict, settled, ready, exec, ends>>
    BY <1>14 DEF Write, queues, display
  <2>2. Executing /\ Joined
    BY <1>0 DEF Control
  <2>3. Transcript' = Transcript
    BY <2>1 DEF Transcript, Results, ToolMessage
  <2>4. Filed(N + 1)'
    BY <2>1, <2>2 DEF Executing, Filed, Settled, Approved
  <2>5. \A c \in Calls : /\ ends'[c] = 1
                         /\ exec'[c] = "idle" <=> verdict'[c] = "rejected"
    BY <2>1, <2>2 DEF Executing, Joined
  <2>6. (\E c \in Calls : exec'[c] = "interrupted") => outcome' = "interrupted"
    BY <2>1, <2>2 DEF Joined
  <2>7. Returned'
    BY <2>1, <2>3, <2>4, <2>5, <2>6 DEF Returned
  <2> QED
    BY <1>0, <2>1, <2>7
    DEF Control, BeforeTriage, InTriage, Executing, Joined,
        InterruptedOnlyByCancel
<1>15. CASE Cancel
  BY <1>0, <1>15 DEF Cancel, TypeOK, queues, display, result,
         Control, BeforeTriage, InTriage, Executing, Joined,
         InterruptedOnlyByCancel, Returned, Unwritten, Filed, Settled, Approved, Abandon, ClosePending
<1>16. CASE UNCHANGED vars
  <2>1. /\ \A c \in Calls : /\ Settled(c)' <=> Settled(c)
                            /\ Approved(c)' <=> Approved(c)
        /\ Transcript' = Transcript
    BY <1>16 DEF vars, Settled, Approved, Transcript, Results, ToolMessage
  <2> QED
    BY <1>0, <1>16, <2>1
    DEF vars, Control, BeforeTriage, InTriage, Executing, Joined,
        InterruptedOnlyByCancel, Returned, Unwritten, Filed
<1> QED
  BY <1>1, <1>2, <1>3, <1>4, <1>5, <1>6, <1>7, <1>8, <1>9, <1>10, <1>11, <1>12, <1>13, <1>14, <1>15, <1>16 DEF Next, Triage, Finished

LEMMA StepShown == IInv /\ [Next]_vars => Shown'
<1> SUFFICES ASSUME IInv, [Next]_vars PROVE Shown'
  OBVIOUS
<1>0. TypeOK /\ Shown
  BY DEF IInv
<1>1. CASE Announce
  <2>1. \A c \in Calls : shown'[c] = "pending" /\ exec'[c] = "idle"
    BY <1>1 DEF Announce, IInv, BeforeTriage
  <2>2. pc' = "approving"
    BY <1>1 DEF Announce
  <2> QED
    BY <2>1, <2>2 DEF Shown
<1>2. CASE FinishChain
  <2>1. cursor' = 1 /\ pc = "approving" /\ UNCHANGED <<shown, exec>>
    BY <1>2 DEF FinishChain, IInv, BeforeTriage, display
  <2>2. \A c \in Calls : ~(c < 1)
    BY DEF Calls
  <2> QED
    BY <1>0, <2>1, <2>2 DEF Shown
<1>3. CASE TriageApproved
  <2>1. /\ pc = "triage" /\ pc' = "triage" /\ cursor' = cursor + 1
        /\ shown' = [shown EXCEPT ![cursor] = "started"]
        /\ UNCHANGED <<verdict, exec>>
    BY <1>3 DEF TriageApproved
  <2>2. \A c \in Calls : shown'[c] = IF c = cursor THEN "started" ELSE shown[c]
    BY <1>0, <2>1 DEF TypeOK
  <2>3. \A c \in Calls : c < cursor + 1 <=> c < cursor \/ c = cursor
    BY <1>0 DEF Calls, TypeOK
  <2> QED
    BY <1>0, <2>1, <2>2, <2>3 DEF Shown
<1>4. CASE TriageRejected
  <2>1. /\ pc = "triage" /\ pc' = "triage" /\ cursor' = cursor + 1
        /\ verdict[cursor] = "rejected" /\ UNCHANGED <<verdict, exec, shown>>
    BY <1>4 DEF TriageRejected
  <2>2. \A c \in Calls : c < cursor + 1 <=> c < cursor \/ c = cursor
    BY <1>0 DEF Calls, TypeOK
  <2> QED
    BY <1>0, <2>1, <2>2 DEF Shown
<1>5. CASE Launch
  <2>1. /\ pc = "triage" /\ pc' = "running" /\ cursor = N + 1
        /\ UNCHANGED <<verdict, shown>>
        /\ exec' = [c \in Calls |-> IF verdict[c] = "ok" THEN "running" ELSE exec[c]]
    BY <1>0, <1>5, BatchAssumption DEF Launch, TypeOK, display
  <2>2. \A c \in Calls : c < N + 1
    BY BatchAssumption DEF Calls
  <2> QED
    BY <1>0, <2>1, <2>2 DEF Shown
<1>6. ASSUME NEW c \in Calls, CompleteTool(c) \/ InterruptTool(c) PROVE Shown'
  <2>1. /\ pc = "running" /\ pc' = "running" /\ exec[c] = "running"
        /\ UNCHANGED shown
        /\ \A d \in Calls : d # c => exec'[d] = exec[d]
    BY <1>0, <1>6 DEF CompleteTool, InterruptTool, TypeOK
  <2> QED
    BY <1>0, <2>1 DEF Shown
<1>7. CASE /\ UNCHANGED <<shown, exec, cursor>>
           /\ pc # "queued" /\ pc' # "triage"
  BY <1>0, <1>7 DEF Shown
<1>8. CASE UNCHANGED <<shown, exec, cursor, pc, verdict>>
  BY <1>0, <1>8 DEF Shown
<1>9. CASE RunMiddleware \/ CancelApproval \/ TriageCancelled \/ TriageFatal
  BY <1>7, <1>9 DEF RunMiddleware, CancelApproval, TriageCancelled, TriageFatal,
                    Abandon, display
<1>10. CASE Join \/ AfterTool
  BY <1>0, <1>10 DEF Shown, Join, AfterTool, display
<1>11. CASE Write
  BY <1>7, <1>11 DEF Write, display
<1>12. CASE Cancel \/ UNCHANGED vars
  BY <1>8, <1>12 DEF Cancel, vars, display
<1> QED
  BY <1>1, <1>2, <1>3, <1>4, <1>5, <1>6, <1>9, <1>10, <1>11, <1>12
  DEF Next, Triage, Finished

LEMMA StepInv == IInv /\ [Next]_vars => IInv'
  BY StepType, StepControl, StepShown DEF IInv, Control

\* What the invariant says of a batch that has written its transcript: every
\* call was settled or approved, so every call has a result.
LEMMA TranscriptAnswersAll ==
    ASSUME TypeOK, Filed(N + 1)
    PROVE  /\ Len(Transcript) = N + 1
           /\ \A c \in Calls : \E i \in 2..Len(Transcript) :
                Transcript[i].kind = "tool" /\ Transcript[i].call = c
<1>1. /\ N \in Nat \ {0}
      /\ Len(settled) \in Nat /\ Len(ready) \in Nat
      /\ Len(settled) + Len(ready) = N
  BY BatchAssumption DEF TypeOK, Filed
<1>2. Len(Transcript) = N + 1
  BY <1>1, TranscriptShape
<1>3. ASSUME NEW c \in Calls
      PROVE  \E i \in 2..Len(Transcript) :
               Transcript[i].kind = "tool" /\ Transcript[i].call = c
  <2>1. ToolMessage(c).kind = "tool" /\ ToolMessage(c).call = c
    BY DEF ToolMessage
  <2>2. verdict[c] = "rejected" \/ verdict[c] = "ok"
    BY <1>1, <1>3 DEF TypeOK, Filed, Verdicts, Calls
  <2>3. Settled(c) \/ Approved(c)
    BY <1>1, <1>3, <2>2 DEF Filed, Calls
  <2>4. CASE Settled(c)
    <3>1. PICK i \in 1..Len(settled) : settled[i] = c
      BY <2>4 DEF Settled
    <3>2. Transcript[1 + i] = ToolMessage(c) /\ 1 + i \in 2..Len(Transcript)
      BY <1>1, <1>2, <3>1, TranscriptShape
    <3> QED
      BY <2>1, <3>2
  <2>5. CASE Approved(c)
    <3>1. PICK i \in 1..Len(ready) : ready[i] = c
      BY <2>5 DEF Approved
    <3>2. /\ Transcript[1 + Len(settled) + i] = ToolMessage(c)
          /\ 1 + Len(settled) + i \in 2..Len(Transcript)
      BY <1>1, <1>2, <3>1, TranscriptShape
    <3> QED
      BY <2>1, <3>2
  <2> QED
    BY <2>3, <2>4, <2>5
<1> QED
  BY <1>2, <1>3

LEMMA Invariance == Spec => []IInv
  BY InitInv, StepInv, PTL DEF Spec

\* Every variable of dispatch_tools keeps its type, whatever N and M.
THEOREM BatchTypes == Spec => []TypeOK
<1>1. IInv => TypeOK
  BY DEF IInv
<1> QED
  BY <1>1, Invariance, PTL

\* The conversation never holds a tool call without its result: the AI message
\* and the answers to all of its calls are written together or not at all.
THEOREM ToolUsePairing == Spec => []ToolUseClosed
<1>1. IInv => ToolUseClosed
  <2> SUFFICES ASSUME IInv, history # <<>> PROVE ToolUseClosed
    BY DEF ToolUseClosed
  <2>1. TypeOK /\ history = Transcript /\ Filed(N + 1)
    BY DEF IInv, TypeOK, BeforeTriage, InTriage, Executing, Returned, Unwritten
  <2> QED
    BY <2>1, TranscriptShape, TranscriptAnswersAll DEF ToolUseClosed
<1> QED
  BY <1>1, Invariance, PTL

\* However the batch returns, each call has been closed on screen once.
THEOREM DisplayClosure == Spec => []DisplayClosed
<1>1. IInv => DisplayClosed
  <2> SUFFICES ASSUME IInv PROVE DisplayClosed
    OBVIOUS
  <2>1. \A c \in Calls : ends[c] \in {0, 1}
    BY DEF IInv, TypeOK, BeforeTriage, InTriage, Executing, Returned
  <2>2. outcome # "running" => pc = "done"
    BY DEF IInv, TypeOK, BeforeTriage, InTriage, Executing, Unwritten
  <2>3. \A c \in Calls : ends[c] > 0 => pc # "queued"
    BY <2>1 DEF IInv, BeforeTriage
  <2> QED
    BY <2>1, <2>2, <2>3 DEF IInv, Returned, Shown, DisplayClosed
<1> QED
  BY <1>1, Invariance, PTL

\* A tool is launched only if the whole chain approved it and no call of the
\* batch was fatally refused.
THEOREM ApprovalGate == Spec => []RunsOnlyApproved
<1>1. IInv => RunsOnlyApproved
  <2> SUFFICES ASSUME IInv, NEW c \in Calls, exec[c] # "idle"
               PROVE  /\ verdict[c] = "ok"
                      /\ \A d \in Calls : verdict[d] # "fatal"
    BY DEF RunsOnlyApproved
  <2>1. Filed(N + 1) /\ (exec[c] = "idle" <=> verdict[c] = "rejected")
    BY DEF IInv, TypeOK, BeforeTriage, InTriage, Executing, Returned
  <2>2. \A d \in Calls : d < N + 1
    BY BatchAssumption DEF Calls
  <2> QED
    BY <2>1, <2>2 DEF IInv, TypeOK, Filed, Verdicts
<1> QED
  BY <1>1, Invariance, PTL

\* A batch that cut a tool short returns Interrupted or has not returned.
THEOREM InterruptionTold == Spec => []InterruptionReported
<1>1. IInv => InterruptionReported
  BY DEF IInv, TypeOK, BeforeTriage, InTriage, Executing, Returned, Unwritten,
         InterruptionReported
<1> QED
  BY <1>1, Invariance, PTL

\* A batch that launched anything returns only with its transcript written,
\* also when it is interrupted or a middleware fails after the tools ran.
THEOREM EffectsRecorded == Spec => []EffectsAreRecorded
<1>1. IInv => EffectsAreRecorded
  <2> SUFFICES ASSUME IInv, outcome # "running",
                      NEW c \in Calls, exec[c] # "idle"
               PROVE  history # <<>>
    BY DEF EffectsAreRecorded
  <2>1. history = Transcript /\ TypeOK /\ Filed(N + 1)
    BY DEF IInv, TypeOK, BeforeTriage, InTriage, Executing, Returned, Unwritten
  <2>2. Len(history) = N + 1 /\ N \in Nat
    BY <2>1, TranscriptAnswersAll, BatchAssumption
  <2> QED
    BY <2>2
<1> QED
  BY <1>1, Invariance, PTL
-----------------------------------------------------------------------------
\* A written transcript answers exactly the calls of the batch.
LEMMA TranscriptAnswered ==
    ASSUME TypeOK, Filed(N + 1)
    PROVE  {Transcript[i].call : i \in 2..Len(Transcript)} = 1..N
<1>1. /\ Len(settled) \in Nat /\ Len(ready) \in Nat /\ N \in Nat
      /\ Len(settled) + Len(ready) = N
      /\ settled \in Seq(Calls) /\ ready \in Seq(Calls)
  BY BatchAssumption DEF TypeOK, Filed
<1>2. Len(Transcript) = N + 1
  BY TranscriptAnswersAll
<1>3. ASSUME NEW i \in 2..Len(Transcript) PROVE Transcript[i].call \in 1..N
  <2>1. CASE i <= 1 + Len(settled)
    <3>1. i - 1 \in 1..Len(settled) /\ i = 1 + (i - 1)
      BY <1>1, <1>3, <2>1
    <3>2. Transcript[i] = ToolMessage(settled[i - 1])
      BY <3>1, TranscriptShape
    <3>3. settled[i - 1] \in Calls
      BY <1>1, <3>1
    <3> QED
      BY <3>2, <3>3 DEF ToolMessage, Calls
  <2>2. CASE i > 1 + Len(settled)
    <3> DEFINE j == i - 1 - Len(settled)
    <3>1. j \in 1..Len(ready) /\ i = 1 + Len(settled) + j
      BY <1>1, <1>2, <1>3, <2>2
    <3>2. Transcript[i] = ToolMessage(ready[j])
      BY <3>1, TranscriptShape
    <3>3. ready[j] \in Calls
      BY <1>1, <3>1
    <3> QED
      BY <3>2, <3>3 DEF ToolMessage, Calls
  <2> QED
    BY <1>1, <1>2, <2>1, <2>2
<1> QED
  BY <1>3, TranscriptAnswersAll DEF Calls

LEMMA BatchInitRefines == Init => Atomic!Init
  BY DEF Init, Atomic!Init

\* Writing is the abstract commit.
LEMMA WriteRefines ==
    ASSUME IInv, Write
    PROVE  Atomic!Commit
<1>1. /\ history' = Transcript /\ outcome' \in Atomic!Committed
      /\ pc = "after"
  BY DEF Write, Atomic!Committed
<1>2. TypeOK /\ history = <<>> /\ outcome = "running" /\ Filed(N + 1)
  BY <1>1 DEF IInv, Executing, Unwritten
<1>3. (history # <<>>)' = TRUE
  <2>1. Len(Transcript) = N + 1 /\ N \in Nat
    BY <1>2, TranscriptAnswersAll, BatchAssumption
  <2> QED
    BY <1>1, <2>1
<1>4. {history'[i].call : i \in 2..Len(history')} = 1..N
  BY <1>1, <1>2, TranscriptAnswered
<1> QED
  BY <1>1, <1>2, <1>3, <1>4 DEF Atomic!Commit

\* Abandoning a batch before anything ran is the abstract abort.
LEMMA AbandonRefines ==
    ASSUME outcome = "running", NEW why \in {"interrupted", "fatal"},
           Abandon(why)
    PROVE  Atomic!Abort
  BY DEF Abandon, Atomic!Abort, Atomic!Aborted

LEMMA BatchStepRefines == IInv /\ [Next]_vars => [Atomic!Next]_(Atomic!vars)
<1> SUFFICES ASSUME IInv, [Next]_vars PROVE [Atomic!Next]_(Atomic!vars)
  OBVIOUS
<1>1. CASE Write
  BY <1>1, WriteRefines DEF Atomic!Next
<1>2. CASE CancelApproval \/ TriageCancelled \/ TriageFatal
  <2>1. outcome = "running"
    BY <1>2 DEF CancelApproval, TriageCancelled, TriageFatal, IInv,
                BeforeTriage, InTriage, Unwritten
  <2>2. Abandon("interrupted") \/ Abandon("fatal")
    BY <1>2 DEF CancelApproval, TriageCancelled, TriageFatal
  <2> QED
    BY <2>1, <2>2, AbandonRefines DEF Atomic!Next
<1>3. CASE UNCHANGED <<history, outcome>>
  BY <1>3 DEF Atomic!vars
<1>4. \/ Write \/ CancelApproval \/ TriageCancelled \/ TriageFatal
      \/ UNCHANGED <<history, outcome>>
  BY DEF Next, vars, result, Announce, RunMiddleware, FinishChain, Triage,
         TriageApproved, TriageRejected, Launch, CompleteTool, InterruptTool,
         Join, AfterTool, Cancel, Finished
<1> QED
  BY <1>1, <1>2, <1>3, <1>4

\* dispatch_tools implements the all-or-nothing batch the loop relies on.
THEOREM BatchRefinement == Spec => ImplementsAtomicBatch
<1>1. Init /\ [][Next]_vars /\ []IInv => Atomic!Spec
  BY BatchInitRefines, BatchStepRefines, PTL DEF Atomic!Spec
<1> QED
  BY <1>1, Invariance, PTL DEF Spec, ImplementsAtomicBatch
=============================================================================
