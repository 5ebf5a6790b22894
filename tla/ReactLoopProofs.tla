-------------------------- MODULE ReactLoopProofs --------------------------
(***************************************************************************)
(* ReactLoop for every number of iterations, added texts and notices: what *)
(* the senders of added texts are told is what happened to them, the model *)
(* reads the texts in order and before they are summarised, and the client *)
(* gets every message once and in order (CopyStep at the end).             *)
(***************************************************************************)
EXTENDS ReactLoop, FiniteSetTheorems, SequenceTheorems, TLAPS

\* Where an iteration is under way, and where the queue is closed.
Body   == {"steer", "model", "afterModel", "dispatch", "snapshot", "drain",
           "boundary"}
Sealed == {"finalDrain", "afterAgent", "done"}

\* What pc says of the counter, the queue and the texts held back.
Control ==
    /\ pc \in Body => step < MaxSteps
    /\ msgs # <<>>
    /\ closed <=> pc \in Sealed
    /\ closed => queue = <<>>
    /\ pending # <<>> => pc \in {"beforeModel", "steer"}
    /\ outcome # "running" => pc = "done"

\* A text whose sender waits is queued or held back, and nowhere else; one is
\* refused an answer only when the execution could not go on.
Held ==
    /\ \A k \in 1..Items : receipt[k] = "waiting" <=> k \in ToSet(Drained)
    /\ \A k \in 1..Items : receipt[k] = "confirmed" <=> k \in Carried(msgs)
    /\ \A k \in 1..Items :
         receipt[k] = "rejected" => LastStep \/ (pc = "done" /\ outcome # "ok")

\* Texts are accepted, held and carried in the order of their numbers.
Ordered ==
    /\ \A j, k \in 1..Items :
         j < k /\ receipt[k] # "idle" => receipt[j] # "idle"
    /\ \A i, j \in 1..Len(Drained) : i < j => Drained[i] < Drained[j]
    /\ \A k \in Carried(msgs), l \in ToSet(Drained) : k < l

\* Outside a call of the model, everything carried has been read.
AllRead == pc \notin {"model", "done"} => Carried(msgs) \subseteq read

Texts == Held /\ Ordered /\ AllRead /\ ReadInOrder

IInv == TypeOK /\ Control /\ Texts
-----------------------------------------------------------------------------
Messages == [kind : Kinds, id : Nat, of : SUBSET (1..Items)]

\* What a conversation carries are texts of this execution, and its last id is
\* a number.
LEMMA OfMessages ==
    ASSUME NEW ms \in Seq(Messages)
    PROVE  /\ Carried(ms) \in SUBSET (1..Items)
           /\ Verbatim(ms) \in SUBSET (1..Items)
           /\ ms # <<>> => LastId(ms) \in Nat
<1>1. \A i \in 1..Len(ms) : ms[i].of \in SUBSET (1..Items) /\ ms[i].id \in Nat
  <2>1. \A i \in 1..Len(ms) : ms[i] \in Messages
    OBVIOUS
  <2> QED BY <2>1 DEF Messages
<1>2. ms # <<>> => Len(ms) \in 1..Len(ms)
  OBVIOUS
<1> QED BY <1>1, <1>2 DEF Carried, Verbatim, LastId

\* Messages are added at the end.
LEMMA Longer ==
    ASSUME NEW ms \in Seq(Messages), NEW ns \in Seq(Messages)
    PROVE  /\ ms \o ns \in Seq(Messages)
           /\ Len(ms \o ns) = Len(ms) + Len(ns)
           /\ \A i \in 1..Len(ms) : (ms \o ns)[i] = ms[i]
           /\ \A i \in 1..Len(ns) : (ms \o ns)[Len(ms) + i] = ns[i]
           /\ ms # <<>> => ms \o ns # <<>>
OBVIOUS

\* A message written by a step is one.
LEMMA NewMessage ==
    ASSUME TypeOK, NEW kind \in Kinds, NEW n \in Nat, NEW of \in SUBSET (1..Items)
    PROVE  /\ Message(kind, n, of) \in Messages
           /\ Append(msgs, Message(kind, n, of)) \in Seq(Messages)
           /\ made + n \in Nat
           /\ n > 0 => made + n \in Nat \ {0}
BY LoopAssumption DEF Message, Messages, TypeOK

\* What a return does to the variables it writes.
LEMMA ReturnTyped ==
    ASSUME TypeOK, NEW o \in Outcomes, Return(o)
    PROVE  /\ pc' \in Places /\ outcome' \in Outcomes
           /\ closed' \in BOOLEAN
           /\ queue' \in Seq(1..Items) /\ pending' \in Seq(1..Items)
           /\ receipt' \in [1..Items -> Receipts]
           /\ prefix' \in Seq({SystemMessage})
<1>1. receipt' \in [1..Items -> Receipts]
  BY DEF Return, TypeOK, Receipts
<1>2. prefix' \in Seq({SystemMessage})
  BY DEF Return, TypeOK
<1> QED BY <1>1, <1>2 DEF Return, Places

\* So does an early return.
LEMMA FailTyped ==
    ASSUME TypeOK, NEW o \in Outcomes, Fail(o) PROVE TypeOK'
<1>1. Return(o) /\ UNCHANGED <<step, collected, anchor, reply, recent,
                      microDone, msgs, made, client, read, cancelled, channel,
                      noticed>>
  BY DEF Fail, notices
<1> QED BY <1>1, ReturnTyped DEF TypeOK

\* The places of the iteration and its counter keep their types.
LEMMA StepType == TypeOK /\ Control /\ [Next]_vars => TypeOK'
<1> SUFFICES ASSUME TypeOK, Control, [Next]_vars PROVE TypeOK'
  OBVIOUS
<1> USE LoopAssumption
<1>0. /\ msgs \in Seq(Messages) /\ msgs # <<>>
      /\ Carried(msgs) \in SUBSET (1..Items)
  BY OfMessages DEF TypeOK, Messages, Control
<1>1. CASE Begin
  <2>1. msgs' \in Seq(Messages) /\ made' \in Nat \ {0} /\ anchor' \in Nat
    BY <1>1, NewMessage DEF Begin, Append1, Kinds, TypeOK
  <2> QED BY <1>1, <2>1
          DEF Begin, steering, notices, TypeOK, Messages, Places
<1>2. CASE GuideAgent
  <2>1. /\ msgs' \in Seq(Messages) /\ made' \in Nat \ {0}
        /\ prefix' \in Seq({SystemMessage})
    <3>1. "preload" \in Kinds
      BY DEF Kinds
    <3>2. CASE Append1("preload") /\ UNCHANGED prefix
      BY <3>1, <3>2, NewMessage DEF Append1, TypeOK
    <3>3. CASE prefix' = <<SystemMessage>> /\ UNCHANGED <<msgs, made>>
      BY <1>0, <3>3 DEF TypeOK
    <3> QED BY <1>2, <3>2, <3>3 DEF GuideAgent
  <2> QED BY <1>2, <2>1
          DEF GuideAgent, loop, steering, notices, TypeOK, Messages
<1>3. CASE BeforeAgent
  <2>1. prefix' \in Seq({SystemMessage})
    BY <1>3 DEF BeforeAgent, TypeOK
  <2> QED BY <1>3, <2>1 DEF BeforeAgent, steering, notices, TypeOK, Places
<1>4. ASSUME NEW o \in Outcomes, Fail(o) PROVE TypeOK'
  BY <1>4, FailTyped
<1>5. CASE BeforeAgentFails \/ BeforeModelFails \/ CallInterrupted
           \/ CallFails \/ AfterAgent
  BY <1>4, <1>5 DEF BeforeAgentFails, BeforeModelFails, CallInterrupted,
                    CallFails, AfterAgent, Outcomes
<1>6. CASE DispatchAborted
  BY <1>4, <1>6 DEF DispatchAborted, Batch!Aborted, Outcomes
<1>7. CASE NoCompaction
  BY <1>7 DEF NoCompaction, steering, notices, talk, TypeOK, Places
<1>8. CASE CompactFully
  <2>1. msgs' \in Seq(Messages) /\ made' \in Nat \ {0}
    BY <1>0, <1>8, NewMessage DEF CompactFully, Summary, Kinds, TypeOK
  <2> QED BY <1>8, <2>1
          DEF CompactFully, steering, notices, TypeOK, Messages, Places
<1>9. CASE CompactMicro
  BY <1>9 DEF CompactMicro, steering, notices, talk, TypeOK, Places
<1>10. CASE ConsumeSteering
  <2>1. Drained \in Seq(1..Items)
    BY DEF Drained, TypeOK
  <2>2. Rehung \in Nat
    BY <1>0, OfMessages DEF Rehung, TypeOK
  <2>3. CASE Drained = <<>>
    BY <1>10, <2>2, <2>3 DEF ConsumeSteering, notices, TypeOK, Places
  <2>4. CASE Drained # <<>>
    <3> DEFINE added == [i \in 1..Len(Drained) |-> Message("steer", i, {Drained[i]})]
               written == msgs \o added
    <3>1. added \in Seq(Messages) /\ Len(added) = Len(Drained)
      <4>1. \A i \in 1..Len(Drained) : Message("steer", i, {Drained[i]}) \in Messages
        BY <2>1, NewMessage DEF Kinds
      <4> QED BY <2>1, <4>1
    <3>2. written \in Seq(Messages) /\ written # <<>>
      BY <1>0, <3>1, Longer
    <3>3. LastId(written) \in Nat
      BY <3>2, OfMessages
    <3>4. made + Len(Drained) \in Nat \ {0}
      BY <2>1 DEF TypeOK
    <3>5. /\ msgs' = written /\ made' = made + Len(Drained)
          /\ anchor' = LastId(written)
          /\ receipt' = [k \in 1..Items |->
                     IF \E i \in 1..Len(Drained) : Drained[i] = k
                     THEN "confirmed" ELSE receipt[k]]
      BY <1>10, <2>4 DEF ConsumeSteering
    <3>6. receipt' \in [1..Items -> Receipts]
      BY <3>5 DEF TypeOK, Receipts
    <3>7. /\ queue' = <<>> /\ pending' = <<>> /\ pc' = "model"
          /\ UNCHANGED <<step, collected, reply, recent, microDone, prefix,
                         closed, channel, noticed, cancelled, read, outcome>>
      BY <1>10 DEF ConsumeSteering, notices
    <3> HIDE DEF written
    <3> QED BY <3>2, <3>3, <3>4, <3>5, <3>6, <3>7 DEF TypeOK, Messages, Places
  <2> QED BY <2>3, <2>4
<1>11. CASE CallModel
  <2>1. read' \in SUBSET (1..Items)
    BY <1>0, <1>11, OfMessages DEF CallModel, TypeOK
  <2>2. reply' \in [tools : BOOLEAN, thought : Thoughts \cup {NoThought}]
    BY <1>11 DEF CallModel
  <2> QED BY <1>11, <2>1, <2>2
          DEF CallModel, steering, notices, talk, TypeOK, Places
<1>12. CASE Proceed
  <2>1. recent' \in Seq(Thoughts)
    <3>1. CASE reply.thought = NoThought
      BY <1>12, <3>1 DEF Proceed, TypeOK
    <3>2. CASE reply.thought # NoThought
      <4>1. reply.thought \in Thoughts /\ recent \in Seq(Thoughts)
        BY <3>2 DEF TypeOK
      <4>2. Append(recent, reply.thought) \in Seq(Thoughts)
        BY <4>1
      <4>3. Window \in Seq(Thoughts)
        BY <4>1, <4>2 DEF Window
      <4> QED BY <1>12, <3>2, <4>3 DEF Proceed
    <3> QED BY <3>1, <3>2
  <2> QED BY <1>12, <2>1
          DEF Proceed, Branch, steering, notices, talk, TypeOK, Places
<1>13. CASE BreakLoop
  <2>1. msgs' \in Seq(Messages) /\ made' \in Nat \ {0}
    BY <1>13, NewMessage DEF BreakLoop, Append1, Kinds, TypeOK
  <2>2. step' \in 0..MaxSteps /\ pc' \in Places
    <3>1. pc \in {"afterModel"} => step < MaxSteps
      BY DEF Body, Control
    <3> QED BY <1>13, <3>1 DEF BreakLoop, Places, TypeOK
  <2>3. recent' \in Seq(Thoughts)
    BY <1>13 DEF BreakLoop
  <2> QED BY <1>13, <2>1, <2>2, <2>3
          DEF BreakLoop, steering, notices, TypeOK, Messages
<1>14. CASE DispatchWritten
  <2>1. msgs' \in Seq(Messages) /\ made' \in Nat \ {0}
    BY <1>14, NewMessage DEF DispatchWritten, Transcript, Kinds, TypeOK, Messages
  <2>2. PICK o \in Batch!Committed :
          IF o = "ok"
          THEN pc' = "snapshot" /\ UNCHANGED <<prefix, steering, outcome>>
          ELSE Return(IF o = "deferred" THEN "failed" ELSE o)
    BY <1>14 DEF DispatchWritten
  <2>3. UNCHANGED <<step, collected, anchor, reply, recent, microDone, channel,
                    noticed, cancelled, read>>
    BY <1>14 DEF DispatchWritten, notices
  <2>4. CASE o = "ok"
    BY <2>1, <2>2, <2>3, <2>4 DEF steering, TypeOK, Messages, Places
  <2>5. CASE o # "ok"
    <3>1. (IF o = "deferred" THEN "failed" ELSE o) \in Outcomes
      BY <2>5 DEF Batch!Committed, Outcomes
    <3> QED BY <2>1, <2>2, <2>3, <2>5, <3>1, ReturnTyped DEF TypeOK, Messages
  <2> QED BY <2>4, <2>5
<1>15. CASE EmitSnapshot
  BY <1>15 DEF EmitSnapshot, steering, notices, talk, TypeOK, Places
<1>16. ASSUME DrainNotices
       PROVE  /\ msgs' \in Seq(Messages) /\ made' \in Nat \ {0}
              /\ channel' \in Nat /\ LastId(msgs') \in Nat
              /\ noticed' = noticed
  <2>1. \A i \in 1..channel : Message("notice", i, {}) \in Messages
    BY NewMessage DEF Kinds, TypeOK
  <2>2. NoticeMessages \in Seq(Messages)
    BY <2>1 DEF NoticeMessages, TypeOK
  <2>3. msgs' \in Seq(Messages) /\ msgs' # <<>>
    BY <1>16, <2>2 DEF DrainNotices, TypeOK, Messages, Control
  <2>4. LastId(msgs') \in Nat
    BY <2>3, OfMessages
  <2> QED BY <1>16, <2>3, <2>4 DEF DrainNotices, TypeOK
<1>17. CASE DrainAfterTools
  <2>1. step' \in 0..MaxSteps
    BY <1>17 DEF DrainAfterTools, Control, Body, TypeOK
  <2> QED BY <1>16, <1>17, <2>1
          DEF DrainAfterTools, steering, TypeOK, Messages, Places
<1>18. CASE KeepAnswer
  <2>1. msgs' \in Seq(Messages) /\ made' \in Nat \ {0}
    BY <1>18, NewMessage DEF KeepAnswer, Append1, Kinds, TypeOK
  <2>2. step' \in 0..MaxSteps
    BY <1>18 DEF KeepAnswer, Control, Body, TypeOK
  <2> QED BY <1>18, <2>1, <2>2
          DEF KeepAnswer, notices, TypeOK, Messages, Places
<1>19. CASE FinalAnswer
  <2>1. /\ msgs' \in Seq(Messages) /\ made' \in Nat \ {0}
        /\ LastId(msgs') \in Nat
    BY <1>19, NewMessage
    DEF FinalAnswer, Append1, Kinds, LastId, TypeOK, Message, Messages
  <2>2. receipt' \in [1..Items -> Receipts] /\ queue' \in Seq(1..Items)
    BY <1>19 DEF FinalAnswer, Seal, TypeOK, Receipts
  <2> QED BY <1>19, <2>1, <2>2
          DEF FinalAnswer, Seal, notices, TypeOK, Messages, Places
<1>20. CASE FinalDrain
  BY <1>16, <1>20 DEF FinalDrain, steering, TypeOK, Messages, Places
<1>21. CASE MaxIterations
  BY <1>21, ReturnTyped DEF MaxIterations, notices, TypeOK, Outcomes
<1>22. ASSUME NEW k \in 1..Items, Enqueue(k) PROVE TypeOK'
  <2>1. receipt' \in [1..Items -> Receipts] /\ queue' \in Seq(1..Items)
    <3>1. \A v \in Receipts : [receipt EXCEPT ![k] = v] \in [1..Items -> Receipts]
      BY DEF TypeOK
    <3>2. Append(queue, k) \in Seq(1..Items)
      BY DEF TypeOK
    <3> QED BY <1>22, <3>1, <3>2 DEF Enqueue, Receipts, TypeOK
  <2> QED BY <1>22, <2>1 DEF Enqueue, loop, notices, talk, TypeOK
<1>23. CASE Cancel
  BY <1>23 DEF Cancel, loop, steering, notices, talk, TypeOK
<1>24. CASE Post
  BY <1>24 DEF Post, loop, steering, talk, TypeOK
<1>25. CASE UNCHANGED vars
  BY <1>25 DEF vars, loop, steering, notices, talk, TypeOK
<1> QED BY <1>1, <1>2, <1>3, <1>5, <1>6, <1>7, <1>8, <1>9, <1>10, <1>11, <1>12,
           <1>13, <1>14, <1>15, <1>17, <1>18, <1>19, <1>20, <1>21, <1>22,
           <1>23, <1>24, <1>25 DEF Next, Loop
-----------------------------------------------------------------------------
InOrder(ms) ==
    \A i, j \in 1..Len(ms) :
        i < j => \A k \in ms[i].of, l \in ms[j].of : k < l

\* Messages that carry nothing.
Plain(ns) == ns \in Seq(Messages) /\ \A i \in 1..Len(ns) : ns[i].of = {}

\* Messages that carry nothing change neither what is carried nor the order.
LEMMA PlainMessages ==
    ASSUME NEW ms \in Seq(Messages), NEW ns, Plain(ns)
    PROVE  /\ Carried(ms \o ns) = Carried(ms)
           /\ InOrder(ms) => InOrder(ms \o ns)
           /\ \A i \in 1..Len(ms \o ns) :
                \/ i \in 1..Len(ms) /\ (ms \o ns)[i] = ms[i]
                \/ (ms \o ns)[i].of = {}
<1> DEFINE both == ms \o ns
<1>1. /\ Len(ms) \in Nat /\ Len(ns) \in Nat /\ Len(both) = Len(ms) + Len(ns)
      /\ \A i \in 1..Len(ms) : both[i] = ms[i]
      /\ \A i \in 1..Len(ns) : both[Len(ms) + i] = ns[i]
  BY Longer DEF Plain
<1> HIDE DEF both
<1>2. \A i \in 1..Len(both) :
        (i \in 1..Len(ms) /\ both[i] = ms[i]) \/ both[i].of = {}
  <2> SUFFICES ASSUME NEW i \in 1..Len(both), i \notin 1..Len(ms)
               PROVE  both[i].of = {}
    BY <1>1
  <2>1. i - Len(ms) \in 1..Len(ns) /\ i = Len(ms) + (i - Len(ms))
    BY <1>1
  <2>2. both[i] = ns[i - Len(ms)]
    BY <1>1, <2>1
  <2> QED BY <2>1, <2>2 DEF Plain
<1>3. \A i \in 1..Len(ms) : i \in 1..Len(both) /\ both[i].of = ms[i].of
  BY <1>1
<1>4. Carried(both) = Carried(ms)
  BY <1>2, <1>3 DEF Carried
<1>5. InOrder(ms) => InOrder(both)
  BY <1>2 DEF InOrder
<1> QED BY <1>2, <1>4, <1>5 DEF both

\* A step that moves no text preserves what is said of them.
LEMMA QuietStep ==
    ASSUME IInv, TypeOK', NEW ns, Plain(ns), msgs' = msgs \o ns,
           UNCHANGED <<read, receipt, Drained>>, step' >= step,
           \/ pc # "done" /\ pc' # "done" /\ (pc = "model" => pc' = "model")
           \/ UNCHANGED <<pc, outcome>>
    PROVE  Texts'
<1> USE DEF IInv, Texts
<1>1. /\ msgs \in Seq(Messages)
      /\ step \in Nat /\ step' \in Nat /\ MaxSteps \in Nat
  BY LoopAssumption DEF TypeOK, Messages
<1>2. Carried(msgs') = Carried(msgs)
  BY <1>1, PlainMessages
<1>3. Held'
  <2>1. LastStep => LastStep'
    <3> DEFINE a == step
               b == step'
    <3>1. a \in Nat /\ b \in Nat /\ MaxSteps \in Nat /\ b >= a
      BY <1>1
    <3> HIDE DEF a, b
    <3>2. a + 1 >= MaxSteps => b + 1 >= MaxSteps
      BY <3>1
    <3> QED BY <3>2 DEF LastStep, a, b
  <2>2. pc = "done" /\ outcome # "ok" => pc' = "done" /\ outcome' # "ok"
    OBVIOUS
  <2>3. ASSUME NEW k \in 1..Items
        PROVE  /\ receipt'[k] = "waiting" <=> k \in ToSet(Drained)'
               /\ receipt'[k] = "confirmed" <=> k \in Carried(msgs')
               /\ receipt'[k] = "rejected"
                    => LastStep' \/ (pc' = "done" /\ outcome' # "ok")
    BY <1>2, <2>1, <2>2 DEF Held
  <2> QED BY <2>3 DEF Held
<1>4. Ordered'
  BY <1>2 DEF Ordered
<1>5. AllRead'
  BY <1>2 DEF AllRead
<1>6. ReadInOrder'
  <2>1. InOrder(msgs')
    BY <1>1, PlainMessages DEF ReadInOrder, InOrder
  <2>2. \A i \in 1..Len(msgs') : \/ i \in 1..Len(msgs) /\ msgs'[i] = msgs[i]
                                 \/ msgs'[i].of = {}
    BY <1>1, PlainMessages
  <2> QED BY <2>1, <2>2 DEF ReadInOrder, InOrder
<1> QED BY <1>3, <1>4, <1>5, <1>6

\* So does a return: who still waits is rejected, which only a return that
\* reports no success may do.
LEMMA ReturnStep ==
    ASSUME IInv, TypeOK', NEW ns, Plain(ns), msgs' = msgs \o ns,
           UNCHANGED <<read, step>>, NEW o, Return(o),
           o # "ok" \/ closed, o # "running", pc # "done"
    PROVE  Control' /\ Texts'
<1> USE DEF IInv, Texts
<1>1. msgs \in Seq(Messages)
  BY DEF TypeOK, Messages
<1>2. Carried(msgs') = Carried(msgs)
  BY <1>1, PlainMessages
<1>3. Control'
  BY <1>1, Longer DEF Return, Control, Sealed, Body, Plain
<1>4. Drained' = <<>> /\ ToSet(Drained') = {}
  BY DEF Return, Drained, ToSet
<1>5. closed => Drained = <<>> /\ ToSet(Drained) = {}
  BY DEF Control, Sealed, Drained, ToSet
<1>6. Held'
  <2>1. \A k \in 1..Items :
          receipt'[k] = IF receipt[k] = "waiting" THEN "rejected" ELSE receipt[k]
    BY DEF Return
  <2>2. \A k \in 1..Items : receipt'[k] # "waiting"
    BY <2>1
  <2>3. \A k \in 1..Items : receipt'[k] = "confirmed" <=> k \in Carried(msgs')
    BY <1>2, <2>1 DEF Held
  <2>4. ASSUME NEW k \in 1..Items, receipt'[k] = "rejected"
        PROVE  LastStep' \/ (pc' = "done" /\ outcome' # "ok")
    <3>1. CASE o # "ok"
      BY <3>1 DEF Return
    <3>2. CASE closed
      BY <1>5, <2>1, <2>4, <3>2 DEF Held, LastStep
    <3> QED BY <3>1, <3>2
  <2> QED BY <1>4, <2>2, <2>3, <2>4 DEF Held
<1>7. Ordered'
  <2>1. \A k \in 1..Items : receipt'[k] # "idle" <=> receipt[k] # "idle"
    BY DEF Return
  <2> QED BY <1>4, <2>1 DEF Ordered
<1>8. AllRead'
  BY DEF AllRead, Return
<1>9. ReadInOrder'
  <2>1. InOrder(msgs')
    BY <1>1, PlainMessages DEF ReadInOrder, InOrder
  <2>2. \A i \in 1..Len(msgs') : \/ i \in 1..Len(msgs) /\ msgs'[i] = msgs[i]
                                 \/ msgs'[i].of = {}
    BY <1>1, PlainMessages
  <2> QED BY <2>1, <2>2 DEF ReadInOrder, InOrder
<1> QED BY <1>3, <1>6, <1>7, <1>8, <1>9
-----------------------------------------------------------------------------
\* The elements of a sequence, by place and as it grows.
LEMMA Elements ==
    ASSUME NEW S, NEW s \in Seq(S)
    PROVE  /\ ToSet(s) = {s[i] : i \in 1..Len(s)}
           /\ ToSet(s) \subseteq S
           /\ \A e \in S : ToSet(Append(s, e)) = ToSet(s) \cup {e}
<1>1. DOMAIN s = 1..Len(s) /\ \A i \in 1..Len(s) : s[i] \in S
  OBVIOUS
<1>2. ToSet(s) = {s[i] : i \in 1..Len(s)}
  BY <1>1 DEF ToSet
<1>3. ASSUME NEW e \in S PROVE ToSet(Append(s, e)) = ToSet(s) \cup {e}
  <2>1. /\ DOMAIN Append(s, e) = 1..(Len(s) + 1)
        /\ Append(s, e)[Len(s) + 1] = e
        /\ \A i \in 1..Len(s) : Append(s, e)[i] = s[i]
    OBVIOUS
  <2>2. 1..(Len(s) + 1) = 1..Len(s) \cup {Len(s) + 1}
    OBVIOUS
  <2> QED BY <1>2, <2>1, <2>2 DEF ToSet
<1> QED BY <1>1, <1>2, <1>3

\* The texts held back and queued, and what they are.
LEMMA Waiting ==
    ASSUME TypeOK
    PROVE  /\ Drained \in Seq(1..Items)
           /\ ToSet(Drained) \subseteq 1..Items
           /\ ToSet(Drained) = {Drained[i] : i \in 1..Len(Drained)}
           /\ \A k \in 1..Items :
                ToSet(Append(Drained, k)) = ToSet(Drained) \cup {k}
           /\ pending = <<>> => Drained = queue
           /\ queue = <<>> => Drained = pending
<1>1. queue \in Seq(1..Items) /\ pending \in Seq(1..Items)
  BY DEF TypeOK
<1>2. /\ Drained \in Seq(1..Items)
      /\ pending = <<>> => Drained = queue
      /\ queue = <<>> => Drained = pending
  BY <1>1 DEF Drained
<1>3. ToSet(Drained) \subseteq 1..Items
  BY <1>2, Elements
<1>4. ToSet(Drained) = {Drained[i] : i \in 1..Len(Drained)}
  BY <1>2, Elements
<1>5. ASSUME NEW k \in 1..Items
      PROVE  ToSet(Append(Drained, k)) = ToSet(Drained) \cup {k}
  <2> DEFINE D == Drained
             S == 1..Items
  <2>1. D \in Seq(S)
    BY <1>2
  <2> HIDE DEF D, S
  <2>2. \A e \in S : ToSet(Append(D, e)) = ToSet(D) \cup {e}
    BY <2>1, Elements
  <2> QED BY <2>2 DEF D, S
<1> QED BY <1>2, <1>3, <1>4, <1>5

\* Nothing, one message and notices are plain.
LEMMA PlainOnes ==
    ASSUME TypeOK
    PROVE  /\ Plain(<<>>) /\ msgs = msgs \o <<>>
           /\ \A kind \in Kinds :
                /\ Plain(<<Message(kind, 1, {})>>)
                /\ Append(msgs, Message(kind, 1, {}))
                     = msgs \o <<Message(kind, 1, {})>>
           /\ Plain(NoticeMessages)
           /\ Plain(Transcript)
<1>1. \A kind \in Kinds, n \in Nat :
        Message(kind, n, {}) \in Messages /\ Message(kind, n, {}).of = {}
  BY NewMessage DEF Message
<1>2. msgs = msgs \o <<>> /\ Plain(<<>>)
  BY DEF TypeOK, Plain
<1>3. ASSUME NEW kind \in Kinds
      PROVE  /\ Plain(<<Message(kind, 1, {})>>)
             /\ Append(msgs, Message(kind, 1, {}))
                  = msgs \o <<Message(kind, 1, {})>>
  <2> DEFINE m == Message(kind, 1, {})
  <2>1. m \in Messages /\ m.of = {} /\ msgs \in Seq(Messages)
    BY <1>1 DEF TypeOK, Messages
  <2> HIDE DEF m
  <2>2. Plain(<<m>>) /\ Append(msgs, m) = msgs \o <<m>>
    BY <2>1 DEF Plain
  <2> QED BY <2>2 DEF m
<1>4. Plain(NoticeMessages)
  BY <1>1 DEF NoticeMessages, Plain, Kinds, TypeOK
<1>5. Plain(Transcript)
  <2>1. /\ Message("tools", 1, {}) \in Messages
        /\ Message("results", 2, {}) \in Messages
        /\ Message("tools", 1, {}).of = {}
        /\ Message("results", 2, {}).of = {}
    BY <1>1 DEF Kinds
  <2> QED BY <2>1 DEF Plain, Transcript
<1> QED BY <1>2, <1>3, <1>4, <1>5
-----------------------------------------------------------------------------
\* The drained texts are written: they move from the waiting ones to the
\* carried ones, behind all that were.
LEMMA ConsumeStep ==
    ASSUME IInv, TypeOK', ConsumeSteering PROVE Control' /\ Texts'
<1> USE DEF IInv
<1>1. /\ msgs \in Seq(Messages) /\ msgs # <<>> /\ Drained \in Seq(1..Items)
      /\ ToSet(Drained) = {Drained[i] : i \in 1..Len(Drained)}
      /\ ToSet(Drained) \subseteq 1..Items
  BY Waiting DEF TypeOK, Messages, Control
<1>2. /\ pc = "steer" /\ pc' = "model" /\ queue' = <<>> /\ pending' = <<>>
      /\ UNCHANGED <<step, closed, read, outcome>>
  BY DEF ConsumeSteering
<1>3. Drained' = <<>> /\ ToSet(Drained)' = {}
  BY <1>2 DEF Drained, ToSet
<1>4. CASE Drained = <<>>
  <2>1. UNCHANGED <<msgs, receipt>>
    BY <1>4 DEF ConsumeSteering
  <2>2. Control'
    BY <1>1, <1>2, <2>1 DEF Control, Body, Sealed
  <2>3. Texts'
    <3>1. Plain(<<>>) /\ msgs' = msgs \o <<>>
      BY <2>1, PlainOnes
    <3>2. step' >= step /\ Drained' = Drained
      BY <1>2, <1>3, <1>4 DEF TypeOK
    <3> QED BY <1>2, <2>1, <3>1, <3>2, QuietStep
  <2> QED BY <2>2, <2>3
<1>5. CASE Drained # <<>>
  <2> DEFINE added == [i \in 1..Len(Drained) |-> Message("steer", i, {Drained[i]})]
             written == msgs \o added
  <2>1. /\ added \in Seq(Messages) /\ Len(added) = Len(Drained)
        /\ \A i \in 1..Len(added) :
             added[i].kind = "steer" /\ added[i].of = {Drained[i]}
    <3>1. \A i \in 1..Len(Drained) : Message("steer", i, {Drained[i]}) \in Messages
      <4>1. \A i \in 1..Len(Drained) : {Drained[i]} \in SUBSET (1..Items)
        BY <1>1
      <4> QED BY <1>1, <4>1, NewMessage DEF Kinds
    <3>2. \A i \in 1..Len(Drained) :
            /\ Message("steer", i, {Drained[i]}).kind = "steer"
            /\ Message("steer", i, {Drained[i]}).of = {Drained[i]}
      BY DEF Message
    <3> QED BY <1>1, <3>1, <3>2
  <2>2. /\ msgs' = written
        /\ receipt' = [k \in 1..Items |->
                     IF \E i \in 1..Len(Drained) : Drained[i] = k
                     THEN "confirmed" ELSE receipt[k]]
    BY <1>5 DEF ConsumeSteering
  <2>3. /\ written \in Seq(Messages) /\ written # <<>>
        /\ Len(written) = Len(msgs) + Len(Drained)
        /\ Len(msgs) \in Nat /\ Len(Drained) \in Nat
        /\ \A i \in 1..Len(msgs) : written[i] = msgs[i]
        /\ \A i \in 1..Len(Drained) : written[Len(msgs) + i] = added[i]
    BY <1>1, <2>1, Longer
  <2> HIDE DEF added, written
  <2>4. \A i \in 1..Len(written) :
          \/ i \in 1..Len(msgs) /\ written[i] = msgs[i]
          \/ /\ i - Len(msgs) \in 1..Len(Drained)
             /\ written[i].kind = "steer"
             /\ written[i].of = {Drained[i - Len(msgs)]}
    <3> SUFFICES ASSUME NEW i \in 1..Len(written), i \notin 1..Len(msgs)
                 PROVE  /\ i - Len(msgs) \in 1..Len(Drained)
                        /\ written[i].kind = "steer"
                        /\ written[i].of = {Drained[i - Len(msgs)]}
      BY <2>3
    <3>1. i - Len(msgs) \in 1..Len(Drained) /\ i = Len(msgs) + (i - Len(msgs))
      BY <2>3
    <3>2. written[i] = added[i - Len(msgs)]
      BY <2>3, <3>1
    <3> QED BY <2>1, <3>1, <3>2
  <2>5. Carried(written) = Carried(msgs) \cup ToSet(Drained)
    <3>1. Carried(written) \subseteq Carried(msgs) \cup ToSet(Drained)
      BY <1>1, <2>4 DEF Carried
    <3>2. Carried(msgs) \subseteq Carried(written)
      <4>1. \A i \in 1..Len(msgs) :
              i \in 1..Len(written) /\ written[i].of = msgs[i].of
        BY <2>3
      <4> QED BY <4>1 DEF Carried
    <3>3. ToSet(Drained) \subseteq Carried(written)
      <4>1. \A i \in 1..Len(Drained) :
              /\ Len(msgs) + i \in 1..Len(written)
              /\ written[Len(msgs) + i].of = {Drained[i]}
        BY <2>1, <2>3
      <4> QED BY <1>1, <4>1 DEF Carried
    <3> QED BY <3>1, <3>2, <3>3
  <2>6. Control'
    BY <1>2, <2>2, <2>3 DEF Control, Body, Sealed
  <2>7. Held'
    <3>1. \A k \in 1..Items :
            receipt'[k] = IF k \in ToSet(Drained) THEN "confirmed" ELSE receipt[k]
      BY <1>1, <2>2
    <3>2. \A k \in 1..Items : receipt'[k] # "waiting"
      BY <3>1 DEF Texts, Held
    <3>3. \A k \in 1..Items : receipt'[k] = "confirmed" <=> k \in Carried(msgs')
      BY <2>2, <2>5, <3>1 DEF Texts, Held
    <3>4. ASSUME NEW k \in 1..Items, receipt'[k] = "rejected" PROVE LastStep'
      BY <1>2, <3>1, <3>4 DEF Texts, Held, LastStep
    <3> QED BY <1>3, <3>2, <3>3, <3>4 DEF Held
  <2>8. Ordered'
    <3>1. \A k \in 1..Items : receipt'[k] # "idle" <=> receipt[k] # "idle"
      BY <1>1, <2>2 DEF Texts, Held
    <3> QED BY <1>3, <3>1 DEF Texts, Ordered
  <2>9. InOrder(written)
    <3>1. Carried(msgs) = UNION {msgs[i].of : i \in 1..Len(msgs)}
      BY DEF Carried
    <3> SUFFICES ASSUME NEW i \in 1..Len(written), NEW j \in 1..Len(written), i < j,
                        NEW k \in written[i].of, NEW l \in written[j].of
                 PROVE  k < l
      BY DEF InOrder
    <3>2. CASE j \in 1..Len(msgs)
      <4>1. i \in 1..Len(msgs) /\ written[i] = msgs[i] /\ written[j] = msgs[j]
        BY <2>3, <3>2
      <4> QED BY <3>2, <4>1 DEF Texts, ReadInOrder
    <3>3. CASE i \in 1..Len(msgs) /\ j \notin 1..Len(msgs)
      <4>1. k \in Carried(msgs)
        BY <2>3, <3>1, <3>3
      <4>2. l \in ToSet(Drained)
        BY <1>1, <2>4, <3>3
      <4> QED BY <4>1, <4>2 DEF Texts, Ordered
    <3>4. CASE i \notin 1..Len(msgs)
      <4>1. j \notin 1..Len(msgs)
        BY <2>3, <3>4
      <4>2. /\ i - Len(msgs) \in 1..Len(Drained) /\ k = Drained[i - Len(msgs)]
            /\ j - Len(msgs) \in 1..Len(Drained) /\ l = Drained[j - Len(msgs)]
        BY <2>4, <3>4, <4>1
      <4>3. i - Len(msgs) < j - Len(msgs)
        BY <2>3
      <4> QED BY <4>2, <4>3 DEF Texts, Ordered
    <3> QED BY <3>2, <3>3, <3>4
  <2>10. ReadInOrder'
    <3>1. \A i \in 1..Len(written) :
            written[i].kind # "steer" => written[i].of \subseteq read
      BY <2>4 DEF Texts, ReadInOrder
    <3> QED BY <1>2, <2>2, <2>9, <3>1 DEF ReadInOrder, InOrder
  <2>11. AllRead'
    BY <1>2 DEF AllRead
  <2> QED BY <2>6, <2>7, <2>8, <2>10, <2>11 DEF Texts
<1> QED BY <1>4, <1>5

\* A text is added: its number is above those of all accepted before it.
LEMMA EnqueueStep ==
    ASSUME IInv, TypeOK', NEW k \in 1..Items, Enqueue(k)
    PROVE  Control' /\ Texts'
<1> USE DEF IInv, Texts
<1>1. /\ receipt \in [1..Items -> Receipts] /\ receipt[k] = "idle"
      /\ \A j \in 1..(k - 1) : receipt[j] # "idle"
      /\ queue \in Seq(1..Items) /\ pending \in Seq(1..Items)
      /\ msgs \in Seq(Messages) /\ Items \in Nat
      /\ UNCHANGED <<pc, step, msgs, closed, pending, read, outcome>>
  BY LoopAssumption DEF Enqueue, TypeOK, Messages, loop, talk
<1>0. Drained \in Seq(1..Items)
  BY Waiting
<1>2. /\ Drained \in Seq(1..Items) /\ ToSet(Drained) \subseteq 1..Items
      /\ ToSet(Drained) = {Drained[i] : i \in 1..Len(Drained)}
      /\ ToSet(Append(Drained, k)) = ToSet(Drained) \cup {k}
      /\ Carried(msgs) \subseteq 1..Items
  BY <1>0, <1>1, Waiting, OfMessages
<1>3. PICK v \in {"refused", "waiting"} :
        /\ receipt' = [receipt EXCEPT ![k] = v]
        /\ v = "refused" => closed /\ queue' = queue
        /\ v = "waiting" => ~closed /\ queue' = Append(queue, k)
  BY DEF Enqueue
<1>4. /\ receipt'[k] = v
      /\ \A j \in 1..Items : j # k => receipt'[j] = receipt[j]
  BY <1>1, <1>3
<1>5. \A j \in 1..Items : receipt[j] # "idle" => j < k
  <2> SUFFICES ASSUME NEW j \in 1..Items, receipt[j] # "idle", ~(j < k)
               PROVE  FALSE
    OBVIOUS
  <2>1. j # k
    BY <1>1
  <2>2. k < j
    BY <1>1, <2>1
  <2> QED BY <1>1, <2>2 DEF Ordered
<1>6. /\ \A j \in ToSet(Drained) : receipt[j] = "waiting" /\ j < k
      /\ \A j \in Carried(msgs) : receipt[j] = "confirmed" /\ j < k
  BY <1>2, <1>5 DEF Held
<1>7. Control'
  <2>1. closed => queue' = <<>>
    BY <1>3 DEF Control
  <2> QED BY <1>1, <2>1 DEF Control
<1>8. IF v = "waiting" THEN Drained' = Append(Drained, k) ELSE Drained' = Drained
  <2>1. pending \o Append(queue, k) = Append(pending \o queue, k)
    BY <1>1
  <2> QED BY <1>1, <1>3, <2>1 DEF Drained
<1>9. ToSet(Drained)' = IF v = "waiting" THEN ToSet(Drained) \cup {k}
                        ELSE ToSet(Drained)
  BY <1>2, <1>8
<1>10. Held'
  <2>1. ASSUME NEW j \in 1..Items
        PROVE  /\ receipt'[j] = "waiting" <=> j \in ToSet(Drained)'
               /\ receipt'[j] = "confirmed" <=> j \in Carried(msgs')
               /\ receipt'[j] = "rejected"
                    => LastStep' \/ (pc' = "done" /\ outcome' # "ok")
    <3>1. CASE j = k
      BY <1>1, <1>3, <1>4, <1>6, <1>9, <3>1
    <3>2. CASE j # k
      BY <1>1, <1>4, <1>9, <3>2 DEF Held, LastStep
    <3> QED BY <3>1, <3>2
  <2> QED BY <2>1 DEF Held
<1>11. Ordered'
  <2>1. \A i, j \in 1..Items :
          i < j /\ receipt'[j] # "idle" => receipt'[i] # "idle"
    <3> SUFFICES ASSUME NEW i \in 1..Items, NEW j \in 1..Items, i < j,
                        receipt'[j] # "idle"
                 PROVE  receipt'[i] # "idle"
      OBVIOUS
    <3>1. CASE j = k
      BY <1>1, <1>4, <3>1
    <3>2. CASE j # k
      <4>1. receipt[i] # "idle"
        BY <1>4, <3>2 DEF Ordered
      <4> QED BY <1>1, <1>4, <4>1
    <3> QED BY <3>1, <3>2
  <2>2. CASE v = "refused"
    BY <1>1, <1>8, <2>1, <2>2 DEF Ordered
  <2>3. CASE v = "waiting"
    <3> DEFINE D == Drained
               E == Append(Drained, k)
    <3>1. /\ Len(D) \in Nat /\ Len(E) = Len(D) + 1 /\ E[Len(D) + 1] = k
          /\ \A i \in 1..Len(D) : E[i] = D[i] /\ D[i] < k
          /\ \A i, j \in 1..Len(D) : i < j => D[i] < D[j]
      BY <1>2, <1>6 DEF Ordered
    <3>2. Drained' = E
      BY <1>8, <2>3
    <3> HIDE DEF D, E
    <3>3. \A i, j \in 1..Len(E) : i < j => E[i] < E[j]
      <4> SUFFICES ASSUME NEW i \in 1..Len(E), NEW j \in 1..Len(E), i < j
                   PROVE  E[i] < E[j]
        OBVIOUS
      <4>1. i \in 1..Len(D) /\ (j \in 1..Len(D) \/ j = Len(D) + 1)
        BY <3>1
      <4> QED BY <3>1, <4>1
    <3>4. \A j \in Carried(msgs'), l \in ToSet(Drained)' : j < l
      BY <1>1, <1>6, <1>9 DEF Ordered
    <3> QED BY <2>1, <3>2, <3>3, <3>4 DEF Ordered
  <2> QED BY <2>2, <2>3
<1>12. AllRead' /\ ReadInOrder'
  BY <1>1 DEF AllRead, ReadInOrder
<1> QED BY <1>7, <1>10, <1>11, <1>12
\* The queue is sealed: who is rejected was too late for the last iteration.
LEMMA SealStep ==
    ASSUME IInv, TypeOK', FinalAnswer PROVE Control' /\ Texts'
<1> USE DEF IInv, Texts
<1>1. /\ pc = "boundary" /\ pc' = "finalDrain" /\ pending' = pending
      /\ closed' = TRUE /\ queue' = <<>>
      /\ LastStep \/ queue = <<>>
      /\ UNCHANGED <<step, read, outcome>>
      /\ msgs' = Append(msgs, Message("answer", 1, {}))
      /\ receipt' = [k \in 1..Items |->
             IF \E i \in 1..Len(queue) : queue[i] = k THEN "rejected"
             ELSE receipt[k]]
  BY DEF FinalAnswer, Seal, Append1
<1>2. /\ pending = <<>> /\ Drained = queue /\ Drained' = <<>>
      /\ ToSet(Drained)' = {}
  <2>1. pending = <<>> /\ Drained = queue
    BY <1>1, Waiting DEF Control
  <2>2. queue' = <<>> /\ pending' = <<>>
    BY <1>1, <2>1
  <2>3. Drained' = <<>>
    BY <2>2 DEF Drained
  <2> QED BY <2>1, <2>3 DEF ToSet
<1>3. \A k \in 1..Items :
        receipt'[k] = IF k \in ToSet(Drained) THEN "rejected" ELSE receipt[k]
  BY <1>1, <1>2, Waiting
<1>4. /\ Plain(<<Message("answer", 1, {})>>)
      /\ msgs' = msgs \o <<Message("answer", 1, {})>>
      /\ msgs \in Seq(Messages)
  BY <1>1, PlainOnes DEF Kinds, TypeOK, Messages
<1>5. /\ Carried(msgs') = Carried(msgs)
      /\ InOrder(msgs) => InOrder(msgs')
  BY <1>4, PlainMessages
<1>6. Control'
  <2>1. msgs' # <<>>
    BY <1>4, Longer DEF Plain, Control
  <2>2. /\ pc' = "finalDrain" /\ closed' = TRUE /\ queue' = <<>>
        /\ pending' = <<>> /\ outcome' = "running"
    BY <1>1, <1>2 DEF Control
  <2> QED BY <2>1, <2>2 DEF Control, Body, Sealed
<1>7. Held'
  <2>1. \A k \in 1..Items : receipt'[k] # "waiting"
    BY <1>3 DEF Held
  <2>2. \A k \in 1..Items : receipt'[k] = "confirmed" <=> k \in Carried(msgs')
    BY <1>3, <1>5 DEF Held
  <2>3. ASSUME NEW k \in 1..Items, receipt'[k] = "rejected" PROVE LastStep'
    <3>1. LastStep
      <4>1. CASE k \in ToSet(Drained)
        BY <1>1, <1>2, <4>1 DEF ToSet
      <4>2. CASE k \notin ToSet(Drained)
        BY <1>1, <1>3, <2>3, <4>2 DEF Held
      <4> QED BY <4>1, <4>2
    <3> QED BY <1>1, <3>1 DEF LastStep
  <2> QED BY <1>2, <2>1, <2>2, <2>3 DEF Held
<1>8. Ordered'
  <2>1. \A k \in 1..Items : receipt'[k] # "idle" <=> receipt[k] # "idle"
    BY <1>3 DEF Held
  <2> QED BY <1>2, <2>1 DEF Ordered
<1>9. AllRead'
  BY <1>1, <1>5 DEF AllRead
<1>10. ReadInOrder'
  <2>1. InOrder(msgs')
    BY <1>5 DEF ReadInOrder, InOrder
  <2>2. \A i \in 1..Len(msgs') : \/ i \in 1..Len(msgs) /\ msgs'[i] = msgs[i]
                                 \/ msgs'[i].of = {}
    BY <1>4, PlainMessages
  <2> QED BY <1>1, <2>1, <2>2 DEF ReadInOrder, InOrder
<1> QED BY <1>6, <1>7, <1>8, <1>9, <1>10

\* Every step preserves the invariant.
LEMMA StepInv == IInv /\ [Next]_vars => IInv'
<1> SUFFICES ASSUME IInv, [Next]_vars PROVE IInv'
  OBVIOUS
<1>0. /\ TypeOK /\ Control /\ Texts /\ TypeOK'
      /\ msgs \in Seq(Messages) /\ msgs # <<>>
      /\ step \in Nat /\ MaxSteps \in Nat \ {0} /\ made \in Nat
  <2>1. TypeOK /\ Control /\ Texts /\ TypeOK'
    BY StepType DEF IInv
  <2>2. msgs \in Seq(Messages) /\ msgs # <<>>
    BY <2>1 DEF TypeOK, Messages, Control
  <2>3. step \in Nat /\ MaxSteps \in Nat \ {0} /\ made \in Nat
    BY <2>1, LoopAssumption DEF TypeOK
  <2> QED BY <2>1, <2>2, <2>3
\* A step that writes messages carrying nothing and moves no text.
<1>1. ASSUME NEW ns, Plain(ns), msgs' = msgs \o ns,
             UNCHANGED <<read, receipt>>, step' >= step, Drained' = Drained,
             pc # "done" /\ pc' # "done" /\ (pc = "model" => pc' = "model"),
             UNCHANGED outcome, closed' = closed, queue' = queue \/ queue' = <<>>,
             pc' \in Body => step' < MaxSteps,
             pc \in Sealed <=> pc' \in Sealed,
             pending' # <<>> => pc' \in {"beforeModel", "steer"}
      PROVE  Control' /\ Texts'
  <2>1. Control'
    <3>1. msgs' # <<>>
      BY <1>0, <1>1, Longer DEF Plain
    <3> QED BY <1>0, <1>1, <3>1 DEF Control
  <2>2. Texts'
    BY <1>0, <1>1, QuietStep
  <2> QED BY <2>1, <2>2
\* One that writes nothing.
<1>2. ASSUME UNCHANGED <<msgs, read, receipt, steering, outcome>>, step' = step,
             pc # "done" /\ pc' # "done" /\ (pc = "model" => pc' = "model"),
             pc' \in Body => step < MaxSteps,
             pc \in Sealed <=> pc' \in Sealed,
             pending # <<>> => pc' \in {"beforeModel", "steer"}
      PROVE  Control' /\ Texts'
  <2>1. Plain(<<>>) /\ msgs' = msgs \o <<>>
    BY <1>0, <1>2, PlainOnes
  <2>2. /\ Drained' = Drained /\ closed' = closed /\ queue' = queue
        /\ pending' = pending /\ step' >= step /\ UNCHANGED <<read, receipt>>
    BY <1>0, <1>2 DEF Drained, steering
  <2> QED BY <1>1, <1>2, <2>1, <2>2
\* One that writes one message carrying nothing.
<1>3. ASSUME NEW kind \in Kinds, Append1(kind)
      PROVE  /\ Plain(<<Message(kind, 1, {})>>)
             /\ msgs' = msgs \o <<Message(kind, 1, {})>>
  BY <1>0, <1>3, PlainOnes DEF Append1
<1>4. ASSUME NEW o \in Outcomes, Fail(o), o # "ok" \/ closed, o # "running",
             pc # "done"
      PROVE  Control' /\ Texts'
  <2>1. Return(o) /\ UNCHANGED <<msgs, read, step>>
    BY <1>4 DEF Fail
  <2>2. Plain(<<>>) /\ msgs' = msgs \o <<>>
    BY <1>0, <2>1, PlainOnes
  <2> QED BY <1>0, <1>4, <2>1, <2>2, ReturnStep
<1>5. CASE Begin
  <2>1. Append1("human") /\ pc = "start" /\ pc' = "beforeAgent"
        /\ UNCHANGED <<steering, read, outcome>> /\ step' = step
    BY <1>5 DEF Begin
  <2>2. Drained' = Drained /\ step' >= step
    BY <1>0, <2>1 DEF Drained, steering
  <2>3. Control' /\ Texts'
    BY <1>0, <1>1, <1>3, <2>1, <2>2 DEF steering, Control, Body, Sealed, Kinds
  <2> QED BY <1>0, <2>3 DEF IInv
<1>6. CASE GuideAgent
  <2>1. /\ pc = "beforeAgent" /\ pc' = pc /\ step' = step
        /\ UNCHANGED <<steering, read, outcome>>
    BY <1>6 DEF GuideAgent, loop
  <2>2. Drained' = Drained /\ step' >= step
    BY <1>0, <2>1 DEF Drained, steering
  <2>3. CASE Append1("preload")
    <3>1. Control' /\ Texts'
      BY <1>0, <1>1, <1>3, <2>1, <2>2, <2>3
      DEF steering, Control, Body, Sealed, Kinds
    <3> QED BY <1>0, <3>1 DEF IInv
  <2>4. CASE UNCHANGED <<msgs, made>>
    <3>1. Control' /\ Texts'
      BY <1>0, <1>2, <2>1, <2>4 DEF steering, Control, Body, Sealed
    <3> QED BY <1>0, <3>1 DEF IInv
  <2> QED BY <1>6, <2>3, <2>4 DEF GuideAgent
<1>7. CASE BeforeAgent \/ NoCompaction \/ CompactMicro \/ Proceed \/ EmitSnapshot
  <2>1. UNCHANGED <<msgs, read, receipt, steering, outcome>> /\ step' = step
    BY <1>7 DEF BeforeAgent, NoCompaction, CompactMicro, Proceed, EmitSnapshot,
                steering, talk
  <2>2. \/ pc = "beforeAgent" /\ pc' = "beforeModel"
        \/ pc = "beforeModel" /\ pc' = "steer" /\ step < MaxSteps
        \/ pc = "afterModel" /\ pc' \in {"dispatch", "boundary"}
        \/ pc = "snapshot" /\ pc' = "drain"
    BY <1>7 DEF BeforeAgent, NoCompaction, CompactMicro, Proceed, Branch,
                EmitSnapshot, Measured
  <2>3. Control' /\ Texts'
    BY <1>0, <1>2, <2>1, <2>2 DEF Control, Body, Sealed
  <2> QED BY <1>0, <2>3 DEF IInv
<1>8. CASE BeforeAgentFails \/ BeforeModelFails \/ CallInterrupted \/ CallFails
           \/ AfterAgent
  <2>1. PICK o \in {"failed", "interrupted", "ok"} :
          /\ Fail(o) /\ pc # "done"
          /\ o = "ok" => pc = "afterAgent"
    BY <1>8 DEF BeforeAgentFails, BeforeModelFails, CallInterrupted, CallFails,
                AfterAgent
  <2>2. o # "ok" \/ closed
    BY <1>0, <2>1 DEF Control, Sealed
  <2>3. Control' /\ Texts'
    BY <1>4, <2>1, <2>2 DEF Outcomes
  <2> QED BY <1>0, <2>3 DEF IInv
<1>9. CASE DispatchAborted
  <2>1. PICK o \in {"interrupted", "failed"} : Fail(o) /\ pc # "done"
    BY <1>9 DEF DispatchAborted, Batch!Aborted
  <2>2. Control' /\ Texts'
    BY <1>4, <2>1 DEF Outcomes
  <2> QED BY <1>0, <2>2 DEF IInv
<1>10. CASE CompactFully
  <2>1. /\ pc = "beforeModel" /\ pc' = "steer" /\ step < MaxSteps
        /\ msgs' = Summary
        /\ UNCHANGED <<step, read, receipt, pending, queue, closed, outcome>>
    BY <1>10 DEF CompactFully, Measured, steering
  <2>2. /\ Len(Summary) = 2
        /\ Summary[1].of = Carried(msgs) /\ Summary[1].kind = "summary"
        /\ Summary[2].of = {}
    BY DEF Summary, Message
  <2>3. Carried(Summary) = Carried(msgs)
    BY <2>2 DEF Carried
  <2>4. Summary # <<>>
    BY <2>2
  <2>5. Control'
    BY <1>0, <2>1, <2>4 DEF Control, Body, Sealed
  <2>6. Drained' = Drained /\ LastStep' = LastStep
    BY <2>1 DEF Drained, LastStep
  <2>7. Held' /\ Ordered' /\ AllRead'
    <3>1. Held'
      BY <1>0, <2>1, <2>3, <2>6 DEF Texts, Held
    <3>2. Ordered'
      BY <1>0, <2>1, <2>3, <2>6 DEF Texts, Ordered
    <3>3. AllRead'
      BY <1>0, <2>1, <2>3 DEF Texts, AllRead
    <3> QED BY <3>1, <3>2, <3>3
  <2>8. ReadInOrder'
    <3>1. Carried(msgs) \subseteq read
      BY <1>0, <2>1 DEF Texts, AllRead
    <3> QED BY <2>1, <2>2, <3>1 DEF ReadInOrder
  <2> QED BY <1>0, <2>5, <2>7, <2>8 DEF IInv, Texts
<1>11. CASE ConsumeSteering
  BY <1>0, <1>11, ConsumeStep DEF IInv
<1>12. CASE CallModel
  <2>1. /\ pc = "model" /\ pc' = "afterModel" /\ read' = read \cup Verbatim(msgs)
        /\ UNCHANGED <<step, msgs, receipt, pending, queue, closed, outcome>>
    BY <1>12 DEF CallModel, steering, talk
  <2>2. Carried(msgs) \subseteq read'
    BY <1>0, <2>1 DEF Texts, ReadInOrder, Carried, Verbatim
  <2>3. Drained' = Drained /\ LastStep' = LastStep
    BY <2>1 DEF Drained, LastStep
  <2>4. Control'
    BY <1>0, <2>1 DEF Control, Body, Sealed
  <2>5. Held'
    BY <1>0, <2>1, <2>3 DEF Texts, Held
  <2>6. Ordered'
    BY <1>0, <2>1, <2>3 DEF Texts, Ordered
  <2>7. AllRead' /\ ReadInOrder'
    BY <1>0, <2>1, <2>2 DEF Texts, AllRead, ReadInOrder
  <2> QED BY <1>0, <2>4, <2>5, <2>6, <2>7 DEF IInv, Texts
<1>13. CASE BreakLoop
  <2>1. /\ Append1("hint") /\ pc = "afterModel"
        /\ UNCHANGED <<steering, read, outcome>>
        /\ \/ pc' = "beforeModel" /\ step' = step + 1
           \/ pc' = "boundary" /\ step' = step
    BY <1>13 DEF BreakLoop
  <2>2. Drained' = Drained /\ step' >= step
    BY <1>0, <2>1 DEF Drained, steering
  <2>3. Control' /\ Texts'
    BY <1>0, <1>1, <1>3, <2>1, <2>2 DEF steering, Control, Body, Sealed, Kinds
  <2> QED BY <1>0, <2>3 DEF IInv
<1>14. CASE DispatchWritten
  <2>1. /\ pc = "dispatch" /\ msgs' = msgs \o Transcript /\ Plain(Transcript)
        /\ UNCHANGED <<step, read>>
    BY <1>0, <1>14, PlainOnes DEF DispatchWritten
  <2>2. \/ pc' = "snapshot" /\ UNCHANGED <<steering, outcome>>
        \/ \E o \in {"interrupted", "failed"} : Return(o)
    BY <1>14 DEF DispatchWritten, Batch!Committed
  <2>3. CASE pc' = "snapshot" /\ UNCHANGED <<steering, outcome>>
    <3>1. Drained' = Drained /\ step' >= step
      BY <1>0, <2>1, <2>3 DEF Drained, steering
    <3>2. Control' /\ Texts'
      BY <1>0, <1>1, <2>1, <2>3, <3>1 DEF steering, Control, Body, Sealed
    <3> QED BY <1>0, <3>2 DEF IInv
  <2>4. ASSUME NEW o \in {"interrupted", "failed"}, Return(o) PROVE IInv'
    <3>1. Control' /\ Texts'
      BY <1>0, <2>1, <2>4, ReturnStep
    <3> QED BY <1>0, <3>1 DEF IInv
  <2> QED BY <2>2, <2>3, <2>4
<1>15. CASE DrainAfterTools \/ FinalDrain
  <2>1. /\ msgs' = msgs \o NoticeMessages /\ Plain(NoticeMessages)
        /\ UNCHANGED <<steering, read, outcome>>
        /\ \/ pc = "drain" /\ pc' = "beforeModel" /\ step' = step + 1
           \/ pc = "finalDrain" /\ pc' = "afterAgent" /\ step' = step
    BY <1>0, <1>15, PlainOnes DEF DrainAfterTools, FinalDrain, DrainNotices, steering
  <2>2. Drained' = Drained /\ step' >= step
    BY <1>0, <2>1 DEF Drained, steering
  <2>3. Control' /\ Texts'
    BY <1>0, <1>1, <2>1, <2>2 DEF steering, Control, Body, Sealed
  <2> QED BY <1>0, <2>3 DEF IInv
<1>16. CASE KeepAnswer
  <2>1. /\ Append1("answer") /\ pc = "boundary" /\ pc' = "beforeModel"
        /\ pending' = queue /\ queue' = <<>> /\ step' = step + 1
        /\ UNCHANGED <<closed, receipt, read, outcome>>
    BY <1>16 DEF KeepAnswer
  <2>2. pending = <<>> /\ queue \in Seq(1..Items)
    BY <1>0, <2>1 DEF Control, TypeOK
  <2>3. Drained' = Drained /\ step' >= step
    BY <1>0, <2>1, <2>2 DEF Drained
  <2>4. Control' /\ Texts'
    BY <1>0, <1>1, <1>3, <2>1, <2>3 DEF Body, Sealed, Kinds
  <2> QED BY <1>0, <2>4 DEF IInv
<1>17. CASE FinalAnswer
  BY <1>0, <1>17, SealStep DEF IInv
<1>18. CASE MaxIterations
  <2>1. Return("maxIterations") /\ UNCHANGED <<msgs, read, step>> /\ pc # "done"
    BY <1>18 DEF MaxIterations
  <2>2. Plain(<<>>) /\ msgs' = msgs \o <<>>
    BY <1>0, <2>1, PlainOnes
  <2>3. Control' /\ Texts'
    BY <1>0, <2>1, <2>2, ReturnStep
  <2> QED BY <1>0, <2>3 DEF IInv
<1>19. ASSUME NEW k \in 1..Items, Enqueue(k) PROVE IInv'
  BY <1>0, <1>19, EnqueueStep DEF IInv
<1>20. CASE Cancel \/ Post \/ UNCHANGED vars
  <2>1. UNCHANGED <<pc, step, msgs, receipt, pending, queue, closed, read, outcome>>
    BY <1>20 DEF Cancel, Post, vars, loop, steering, notices, talk
  <2>2. Drained' = Drained /\ LastStep' = LastStep
    BY <2>1 DEF Drained, LastStep
  <2>3. Control'
    BY <1>0, <2>1 DEF Control
  <2>4. Held'
    BY <1>0, <2>1, <2>2 DEF Texts, Held
  <2>5. Ordered'
    BY <1>0, <2>1, <2>2 DEF Texts, Ordered
  <2>6. AllRead' /\ ReadInOrder'
    BY <1>0, <2>1 DEF Texts, AllRead, ReadInOrder
  <2> QED BY <1>0, <2>3, <2>4, <2>5, <2>6 DEF IInv, Texts
<1> QED BY <1>5, <1>6, <1>7, <1>8, <1>9, <1>10, <1>11, <1>12, <1>13, <1>14,
           <1>15, <1>16, <1>17, <1>18, <1>19, <1>20 DEF Next, Loop
LEMMA InitInv == Init => IInv
<1> SUFFICES ASSUME Init PROVE IInv
  OBVIOUS
<1> USE LoopAssumption DEF Init
<1>1. /\ Len(msgs) = 1 /\ msgs[1].of = {} /\ msgs[1].kind = "old"
      /\ msgs \in Seq(Messages) /\ msgs # <<>>
  BY DEF Messages, Kinds
<1>2. Carried(msgs) = {}
  BY <1>1 DEF Carried
<1>3. Drained = <<>> /\ ToSet(Drained) = {}
  BY DEF Drained, ToSet
<1>4. TypeOK
  <2>1. prefix \in Seq({SystemMessage}) /\ recent \in Seq(Thoughts)
    OBVIOUS
  <2>2. receipt \in [1..Items -> Receipts]
    BY DEF Receipts
  <2>3. reply \in [tools : BOOLEAN, thought : Thoughts \cup {NoThought}]
    OBVIOUS
  <2>4. queue \in Seq(1..Items) /\ pending \in Seq(1..Items)
    OBVIOUS
  <2>5. /\ made \in Nat \ {0} /\ anchor \in Nat /\ step \in 0..MaxSteps
        /\ channel \in Nat /\ noticed \in 0..MaxNotices
    OBVIOUS
  <2>6. /\ cancelled \in BOOLEAN /\ collected \in BOOLEAN
        /\ microDone \in BOOLEAN /\ closed \in BOOLEAN
        /\ read \in SUBSET (1..Items)
        /\ pc \in Places /\ outcome \in Outcomes
    BY DEF Places, Outcomes
  <2> QED BY ONLY <1>1, <2>1, <2>2, <2>3, <2>4, <2>5, <2>6 DEF TypeOK, Messages
<1>5. Control
  BY <1>1 DEF Control, Body, Sealed
<1>6. Held /\ Ordered
  BY <1>2, <1>3 DEF Held, Ordered
<1>7. AllRead /\ ReadInOrder
  BY <1>1, <1>2 DEF AllRead, ReadInOrder
<1> QED BY <1>4, <1>5, <1>6, <1>7 DEF IInv, Texts

LEMMA Invariant == Spec => []IInv
BY InitInv, StepInv, PTL DEF Spec

\* The state of the loop, of the steering queue and of the conversation is
\* well formed, whatever is added, cancelled or posted meanwhile.
THEOREM TypeCorrect == Spec => []TypeOK
<1>1. IInv => TypeOK
  BY DEF IInv
<1> QED BY <1>1, Invariant, PTL

\* The sender of an added text is told that it was taken over exactly when the
\* conversation carries it, every way out of execute_inner answers every
\* sender, and an answer given before the last iteration leaves nothing
\* accepted and unwritten (steering/mod.rs, consume_steering, SteeringGuard).
THEOREM ReceiptsTold == Spec => []ReceiptsTruthful
<1>1. IInv => ReceiptsTruthful
  <2> SUFFICES ASSUME IInv PROVE ReceiptsTruthful
    OBVIOUS
  <2> USE DEF IInv, Texts
  <2>1. \A k \in 1..Items : receipt[k] = "confirmed" <=> k \in Carried(msgs)
    BY DEF Held
  <2>2. ASSUME closed PROVE \A k \in 1..Items : receipt[k] # "waiting"
    <3>1. pending = <<>> /\ queue = <<>>
      BY <2>2 DEF Control, Sealed
    <3>2. Drained = <<>>
      BY <3>1 DEF Drained
    <3> QED BY <3>2 DEF Held, ToSet
  <2>3. pc = "done" => closed
    BY DEF Control, Sealed
  <2>4. ASSUME pc \in {"finalDrain", "afterAgent"} \/ outcome = "ok", ~LastStep
        PROVE  \A k \in 1..Items : receipt[k] \notin {"waiting", "rejected"}
    <3>1. closed /\ (pc = "done" => outcome = "ok")
      BY <2>4 DEF Control, Sealed
    <3> QED BY <2>2, <2>4, <3>1 DEF Held
  <2> QED BY <2>1, <2>2, <2>3, <2>4 DEF ReceiptsTruthful
<1> QED BY <1>1, Invariant, PTL

\* Added texts enter the conversation in the order in which they were
\* accepted, and a summary replaces one only after the model was given it word
\* for word (mod.rs, consume_steering after the compaction).
THEOREM TextsReadInOrder == Spec => []ReadInOrder
<1>1. IInv => ReadInOrder
  BY DEF IInv, Texts
<1> QED BY <1>1, Invariant, PTL
-----------------------------------------------------------------------------
\* The client's copy.

\* The copy c has the first a of the messages ms, perhaps without notices.
Covers(c, ms, a) ==
    /\ c \in Seq(Messages)
    /\ Rising(c)
    /\ \A i \in 1..Len(c) : \E j \in 1..a : c[i] = ms[j]
    /\ \A j \in 1..a : ms[j].kind = "notice" \/ \E i \in 1..Len(c) : c[i] = ms[j]

\* Messages have the numbers in which they were made.
Numbered ==
    /\ Rising(msgs)
    /\ \A i \in 1..Len(msgs) : msgs[i].id <= made
    /\ anchor <= made

\* Where the client has everything.
Full ==
    \/ pc \in {"start", "drain", "afterAgent"}
    \/ outcome \in {"ok", "maxIterations"}

\* The anchor is at the last message that was sent, save between a snapshot and
\* the notices that follow it, at the end, and after a compaction, which sends
\* everything and leaves the anchor at a message that is gone.
AnchorAt(a) ==
    \/ msgs[a].id = anchor
    \/ a = Len(msgs) /\ pc \in {"drain", "done"}
    \/ a = Len(msgs) /\ pc = "steer" /\ \A i \in 1..Len(msgs) : msgs[i].id # anchor

CaughtUp(a) ==
    /\ Covers(client, msgs, a)
    /\ \A i \in (a + 1)..Len(msgs) : Visible(msgs[i])
    /\ AnchorAt(a)
    /\ Full => a = Len(msgs)

Copied == ~microDone => \E a \in 1..Len(msgs) : CaughtUp(a)

\* A filter that lets everything pass.
LEMMA PickedAll ==
    ASSUME NEW s \in Seq(Messages)
    PROVE  Picked(s, 1..Len(s)) = s
<1> DEFINE m == Len(s)
           At(n) == CHOOSE i \in 1..m : Cardinality({j \in 1..m : j < i}) = n - 1
<1>1. m \in Nat
  OBVIOUS
<1>2. Cardinality(1..m) = m
  <2> HIDE DEF m
  <2> QED BY <1>1, FS_Interval
<1>3. ASSUME NEW i \in 1..m PROVE Cardinality({j \in 1..m : j < i}) = i - 1
  <2>1. {j \in 1..m : j < i} = 1..(i - 1)
    BY <1>1
  <2>2. Cardinality(1..(i - 1)) = i - 1
    BY <1>1, FS_Interval
  <2> QED BY <2>1, <2>2
<1>4. ASSUME NEW n \in 1..m PROVE At(n) = n
  <2>1. \A i \in 1..m : Cardinality({j \in 1..m : j < i}) = n - 1 <=> i = n
    BY <1>1, <1>3
  <2> QED BY <2>1
<1>5. Picked(s, 1..m) = [n \in 1..m |-> s[At(n)]]
  BY <1>2 DEF Picked
<1>6. [n \in 1..m |-> s[At(n)]] = [n \in 1..m |-> s[n]]
  <2> HIDE DEF At, m
  <2> QED BY <1>4
<1>7. [n \in 1..m |-> s[n]] = s
  OBVIOUS
<1> QED BY <1>5, <1>6, <1>7

LEMMA ShownAll ==
    ASSUME NEW s \in Seq(Messages), \A i \in 1..Len(s) : Visible(s[i])
    PROVE  Shown(s) = s
<1>1. {i \in 1..Len(s) : Visible(s[i])} = 1..Len(s)
  OBVIOUS
<1> QED BY <1>1, PickedAll DEF Shown

LEMMA IdNumbers ==
    ASSUME NEW ms \in Seq(Messages)
    PROVE  \A i \in 1..Len(ms) : ms[i].id \in Nat
<1>1. \A i \in 1..Len(ms) : ms[i] \in Messages
  OBVIOUS
<1> QED BY <1>1 DEF Messages

\* What follows the message the anchor is at.
LEMMA AfterIs ==
    ASSUME NEW ms \in Seq(Messages), Rising(ms), NEW a \in 1..Len(ms)
    PROVE  After(ms, ms[a].id) = SubSeq(ms, a + 1, Len(ms))
<1>1. ASSUME NEW i \in 1..Len(ms), ms[i].id = ms[a].id PROVE i = a
  <2>1. ms[i].id \in Nat /\ ms[a].id \in Nat
    BY IdNumbers
  <2> QED BY <1>1, <2>1 DEF Rising
<1>2. (CHOOSE i \in 1..Len(ms) : ms[i].id = ms[a].id) = a
  BY <1>1
<1>3. 1 + a = a + 1
  OBVIOUS
<1> QED BY <1>2, <1>3 DEF After

\* A snapshot that starts at a message carries all that follow it.
LEMMA SnapshotIs ==
    ASSUME NEW ms \in Seq(Messages), Rising(ms), NEW a \in 1..Len(ms),
           \A i \in (a + 1)..Len(ms) : Visible(ms[i])
    PROVE  /\ Shown(After(ms, ms[a].id)) = SubSeq(ms, a + 1, Len(ms))
           /\ SubSeq(ms, a + 1, Len(ms)) \in Seq(Messages)
<1> DEFINE s == SubSeq(ms, a + 1, Len(ms))
<1>1. /\ s \in Seq(Messages) /\ Len(s) = Len(ms) - a
      /\ \A i \in 1..Len(s) : s[i] = ms[a + i] /\ a + i \in (a + 1)..Len(ms)
  OBVIOUS
<1> HIDE DEF s
<1>2. \A i \in 1..Len(s) : Visible(s[i])
  BY <1>1
<1>3. Shown(s) = s
  BY <1>1, <1>2, ShownAll
<1> QED BY <1>1, <1>3, AfterIs DEF s

\* New messages have the next numbers.
New(ns) ==
    /\ ns \in Seq(Messages)
    /\ \A i \in 1..Len(ns) : ns[i].id = made + i

LEMMA NumberedNew ==
    ASSUME TypeOK, Numbered, NEW ns, New(ns)
    PROVE  /\ Rising(msgs \o ns)
           /\ \A i \in 1..Len(msgs \o ns) : (msgs \o ns)[i].id <= made + Len(ns)
<1> DEFINE both == msgs \o ns
<1>1. /\ msgs \in Seq(Messages) /\ made \in Nat
      /\ \A i \in 1..Len(msgs) : msgs[i].id \in Nat
  <2>1. msgs \in Seq(Messages) /\ made \in Nat
    BY DEF TypeOK, Messages
  <2> QED BY <2>1, IdNumbers
<1>2. /\ Len(msgs) \in Nat /\ Len(ns) \in Nat /\ Len(both) = Len(msgs) + Len(ns)
      /\ \A i \in 1..Len(msgs) : both[i] = msgs[i]
      /\ \A i \in 1..Len(ns) : both[Len(msgs) + i] = ns[i]
  BY <1>1, Longer DEF New
<1> HIDE DEF both
<1>3. ASSUME NEW i \in 1..Len(both)
      PROVE  \/ i \in 1..Len(msgs) /\ both[i].id = msgs[i].id
             \/ i > Len(msgs) /\ both[i].id = made + (i - Len(msgs))
  <2>1. CASE i \in 1..Len(msgs)
    BY <1>2, <2>1
  <2>2. CASE i \notin 1..Len(msgs)
    <3>1. i - Len(msgs) \in 1..Len(ns) /\ i = Len(msgs) + (i - Len(msgs))
      BY <1>2, <2>2
    <3>2. both[i] = ns[i - Len(msgs)]
      BY <1>2, <3>1
    <3> QED BY <1>2, <3>1, <3>2 DEF New
  <2> QED BY <2>1, <2>2
<1>4. Rising(both)
  <2> SUFFICES ASSUME NEW i \in 1..Len(both), NEW j \in 1..Len(both), i < j
               PROVE  both[i].id < both[j].id
    BY DEF Rising
  <2>1. CASE j \in 1..Len(msgs)
    <3>1. i \in 1..Len(msgs)
      BY <1>2, <2>1
    <3> QED BY <1>2, <2>1, <3>1 DEF Numbered, Rising
  <2>2. CASE i \in 1..Len(msgs) /\ j \notin 1..Len(msgs)
    <3>1. both[i].id = msgs[i].id /\ msgs[i].id <= made /\ msgs[i].id \in Nat
      BY <1>1, <1>2, <2>2 DEF Numbered
    <3>2. both[j].id = made + (j - Len(msgs)) /\ j > Len(msgs)
      BY <1>3, <2>2
    <3> QED BY <1>1, <1>2, <3>1, <3>2
  <2>3. CASE i \notin 1..Len(msgs)
    <3>1. both[i].id = made + (i - Len(msgs)) /\ i > Len(msgs)
      BY <1>3, <2>3
    <3>2. both[j].id = made + (j - Len(msgs))
      BY <1>2, <1>3, <3>1
    <3> QED BY <1>1, <1>2, <3>1, <3>2
  <2> QED BY <2>1, <2>2, <2>3
<1>5. \A i \in 1..Len(both) : both[i].id <= made + Len(ns)
  <2> TAKE i \in 1..Len(both)
  <2>1. CASE i \in 1..Len(msgs) /\ both[i].id = msgs[i].id
    BY <1>1, <1>2, <2>1 DEF Numbered
  <2>2. CASE i > Len(msgs) /\ both[i].id = made + (i - Len(msgs))
    BY <1>1, <1>2, <2>2
  <2> QED BY <1>3, <2>1, <2>2
<1> QED BY <1>4, <1>5 DEF both

\* The copy covers as much of a conversation that has grown.
LEMMA CoversLonger ==
    ASSUME NEW c, NEW ms \in Seq(Messages), NEW ns \in Seq(Messages),
           NEW a \in 1..Len(ms), Covers(c, ms, a)
    PROVE  Covers(c, ms \o ns, a)
<1>1. \A j \in 1..a : (ms \o ns)[j] = ms[j]
  <2>1. \A j \in 1..a : j \in 1..Len(ms)
    OBVIOUS
  <2> QED BY <2>1, Longer
<1> QED BY <1>1 DEF Covers

\* It covers the notices behind what it has.
LEMMA CoversNotices ==
    ASSUME NEW c, NEW ms \in Seq(Messages), NEW a \in 1..Len(ms), Covers(c, ms, a),
           \A i \in (a + 1)..Len(ms) : ms[i].kind = "notice"
    PROVE  Covers(c, ms, Len(ms))
<1>1. \A j \in 1..Len(ms) : j \in 1..a \/ j \in (a + 1)..Len(ms)
  OBVIOUS
<1>2. \A j \in 1..a : j \in 1..Len(ms)
  OBVIOUS
<1> QED BY <1>1, <1>2 DEF Covers

\* It covers everything once it was sent the rest.
LEMMA CoversAll ==
    ASSUME NEW c, NEW ms \in Seq(Messages), Rising(ms), NEW a \in 1..Len(ms),
           Covers(c, ms, a)
    PROVE  Covers(c \o SubSeq(ms, a + 1, Len(ms)), ms, Len(ms))
<1> DEFINE s == SubSeq(ms, a + 1, Len(ms))
           both == c \o s
<1>1. /\ s \in Seq(Messages) /\ Len(s) = Len(ms) - a /\ Len(s) \in Nat
      /\ \A i \in 1..Len(s) : s[i] = ms[a + i] /\ a + i \in (a + 1)..Len(ms)
  OBVIOUS
<1> HIDE DEF s
<1>2. c \in Seq(Messages)
  BY DEF Covers
<1>3. /\ both \in Seq(Messages) /\ Len(c) \in Nat /\ Len(both) = Len(c) + Len(s)
      /\ \A i \in 1..Len(c) : both[i] = c[i]
      /\ \A i \in 1..Len(s) : both[Len(c) + i] = s[i]
  <2>1. s \in Seq(Messages)
    BY <1>1
  <2>2. Len(c) \in Nat
    BY <1>2
  <2> QED BY ONLY <1>2, <2>1, <2>2, Longer
<1> HIDE DEF both
<1>4. \A i \in 1..Len(ms) : ms[i].id \in Nat
  BY IdNumbers
<1>5. ASSUME NEW i \in 1..Len(both), i \notin 1..Len(c)
      PROVE  /\ a + (i - Len(c)) \in (a + 1)..Len(ms)
             /\ both[i] = ms[a + (i - Len(c))]
  <2>1. i - Len(c) \in 1..Len(s) /\ i = Len(c) + (i - Len(c))
    BY <1>1, <1>3, <1>5
  <2>2. both[i] = s[i - Len(c)]
    BY <1>3, <2>1
  <2> QED BY <1>1, <2>1, <2>2
<1>6. Rising(both)
  <2> SUFFICES ASSUME NEW i \in 1..Len(both), NEW j \in 1..Len(both), i < j
               PROVE  both[i].id < both[j].id
    BY DEF Rising
  <2>1. CASE j \in 1..Len(c)
    <3>1. i \in 1..Len(c)
      BY <1>3, <2>1
    <3> QED BY <1>3, <2>1, <3>1 DEF Covers, Rising
  <2>2. CASE i \in 1..Len(c) /\ j \notin 1..Len(c)
    <3>1. PICK l \in 1..a : both[i] = ms[l]
      BY <1>3, <2>2 DEF Covers
    <3>2. a + (j - Len(c)) \in (a + 1)..Len(ms) /\ both[j] = ms[a + (j - Len(c))]
      BY <1>5, <2>2
    <3>3. /\ l \in 1..Len(ms) /\ a + (j - Len(c)) \in 1..Len(ms)
          /\ l < a + (j - Len(c))
      <4> DEFINE q == a + (j - Len(c))
      <4>1. q \in (a + 1)..Len(ms) /\ Len(ms) \in Nat
        BY <3>2
      <4> HIDE DEF q
      <4>2. l \in 1..Len(ms) /\ q \in 1..Len(ms) /\ l < q
        BY <4>1
      <4> QED BY <4>2 DEF q
    <3> QED BY <3>1, <3>2, <3>3 DEF Rising
  <2>3. CASE i \notin 1..Len(c)
    <3>1. j \notin 1..Len(c)
      BY <1>3, <2>3
    <3>2. /\ a + (i - Len(c)) \in 1..Len(ms) /\ both[i] = ms[a + (i - Len(c))]
          /\ a + (j - Len(c)) \in 1..Len(ms) /\ both[j] = ms[a + (j - Len(c))]
      <4>1. /\ a + (i - Len(c)) \in (a + 1)..Len(ms)
            /\ both[i] = ms[a + (i - Len(c))]
        BY <1>5, <2>3
      <4>2. /\ a + (j - Len(c)) \in (a + 1)..Len(ms)
            /\ both[j] = ms[a + (j - Len(c))]
        BY <1>5, <3>1
      <4>3. (a + 1)..Len(ms) \subseteq 1..Len(ms)
        OBVIOUS
      <4> QED BY <4>1, <4>2, <4>3
    <3>3. a + (i - Len(c)) < a + (j - Len(c))
      BY <1>3
    <3> QED BY <3>2, <3>3 DEF Rising
  <2> QED BY <2>1, <2>2, <2>3
<1>7. \A i \in 1..Len(both) : \E j \in 1..Len(ms) : both[i] = ms[j]
  <2> TAKE i \in 1..Len(both)
  <2>1. CASE i \in 1..Len(c)
    <3>1. PICK j \in 1..a : c[i] = ms[j]
      BY <2>1 DEF Covers
    <3>2. j \in 1..Len(ms) /\ both[i] = ms[j]
      BY <1>3, <2>1, <3>1
    <3> QED BY <3>2
  <2>2. CASE i \notin 1..Len(c)
    <3>1. a + (i - Len(c)) \in 1..Len(ms) /\ both[i] = ms[a + (i - Len(c))]
      BY <1>5, <2>2
    <3> QED BY <3>1
  <2> QED BY <2>1, <2>2
<1>8. \A j \in 1..Len(ms) :
        ms[j].kind = "notice" \/ \E i \in 1..Len(both) : both[i] = ms[j]
  <2> TAKE j \in 1..Len(ms)
  <2>1. CASE j \in 1..a
    <3>1. CASE ms[j].kind = "notice"
      BY <3>1
    <3>2. CASE ms[j].kind # "notice"
      <4>1. PICK i \in 1..Len(c) : c[i] = ms[j]
        BY <2>1, <3>2 DEF Covers
      <4>2. i \in 1..Len(both) /\ both[i] = ms[j]
        BY <1>1, <1>3, <4>1
      <4> QED BY <4>2
    <3> QED BY <3>1, <3>2
  <2>2. CASE j \notin 1..a
    <3>1. j - a \in 1..Len(s) /\ a + (j - a) = j
      BY <1>1, <2>2
    <3> DEFINE q == j - a
    <3>2. q \in 1..Len(s) /\ a + q = j
      BY <3>1
    <3> HIDE DEF q
    <3>3. s[q] = ms[j]
      BY <1>1, <3>2
    <3>4. both[Len(c) + q] = s[q]
      BY <1>3, <3>2
    <3>5. Len(c) + q \in 1..Len(both)
      <4>1. /\ Len(c) \in Nat /\ Len(s) \in Nat /\ q \in 1..Len(s)
            /\ Len(both) = Len(c) + Len(s)
        BY <1>1, <1>3, <3>2
      <4> QED BY ONLY <4>1
    <3> QED BY <3>3, <3>4, <3>5
  <2> QED BY <2>1, <2>2
<1> QED BY <1>3, <1>6, <1>7, <1>8 DEF Covers, both, s

\* A conversation covers itself.
LEMMA CoversItself ==
    ASSUME NEW ms \in Seq(Messages), Rising(ms)
    PROVE  Covers(ms, ms, Len(ms))
BY DEF Covers

\* The conversation is followed by new messages, none of them restored files.
Grown(ns) ==
    /\ New(ns) /\ \A i \in 1..Len(ns) : Visible(ns[i])
    /\ msgs' = msgs \o ns
    /\ made' = made + Len(ns)

\* What is known of a conversation that has grown.
LEMMA GrownIs ==
    ASSUME IInv, Numbered, NEW ns, Grown(ns)
    PROVE  /\ msgs \in Seq(Messages) /\ ns \in Seq(Messages)
           /\ msgs' \in Seq(Messages)
           /\ Len(msgs) \in Nat \ {0} /\ Len(msgs') = Len(msgs) + Len(ns)
           /\ Len(ns) \in Nat /\ made \in Nat /\ anchor \in Nat
           /\ Rising(msgs')
           /\ \A i \in 1..Len(msgs') : msgs'[i].id <= made'
           /\ LastId(msgs') <= made' /\ LastId(msgs') = msgs'[Len(msgs')].id
           /\ anchor <= made'
           /\ \A i \in 1..Len(msgs) : msgs'[i] = msgs[i]
           /\ \A a \in 1..Len(msgs) :
                (\A i \in (a + 1)..Len(msgs) : Visible(msgs[i])) =>
                \A i \in (a + 1)..Len(msgs') : Visible(msgs'[i])
<1>1. /\ msgs \in Seq(Messages) /\ ns \in Seq(Messages) /\ msgs # <<>>
      /\ made \in Nat /\ anchor \in Nat
  BY DEF IInv, TypeOK, Control, Messages, Grown, New
<1>2. /\ msgs' \in Seq(Messages) /\ Len(msgs') = Len(msgs) + Len(ns)
      /\ \A i \in 1..Len(msgs) : msgs'[i] = msgs[i]
      /\ \A i \in 1..Len(ns) : msgs'[Len(msgs) + i] = ns[i]
  BY <1>1, Longer DEF Grown
<1>3. Len(msgs) \in Nat \ {0} /\ Len(ns) \in Nat
  BY <1>1
<1>4. Rising(msgs') /\ \A i \in 1..Len(msgs') : msgs'[i].id <= made'
  BY NumberedNew DEF Grown, IInv
<1>5. Len(msgs') \in 1..Len(msgs')
  BY <1>2, <1>3
<1>6. LastId(msgs') <= made' /\ LastId(msgs') = msgs'[Len(msgs')].id
  BY <1>4, <1>5 DEF LastId
<1>7. anchor <= made'
  BY <1>1, <1>3 DEF Numbered, Grown
<1>8. ASSUME NEW a \in 1..Len(msgs), NEW i \in (a + 1)..Len(msgs'),
             \A j \in (a + 1)..Len(msgs) : Visible(msgs[j])
      PROVE  Visible(msgs'[i])
  <2>1. CASE i \in 1..Len(msgs)
    <3>1. i \in (a + 1)..Len(msgs)
      BY <1>3, <2>1
    <3> QED BY <1>2, <1>8, <2>1, <3>1
  <2>2. CASE i \notin 1..Len(msgs)
    <3> DEFINE q == i - Len(msgs)
    <3>1. q \in 1..Len(ns) /\ i = Len(msgs) + q
      BY <1>2, <1>3, <2>2
    <3> HIDE DEF q
    <3>2. msgs'[i] = ns[q]
      BY <1>2, <3>1
    <3> QED BY <3>1, <3>2 DEF Grown
  <2> QED BY <2>1, <2>2
<1> QED BY <1>1, <1>2, <1>3, <1>4, <1>6, <1>7, <1>8

\* A step that sends nothing.
LEMMA Unsent ==
    ASSUME IInv, Numbered, Copied, NEW ns, Grown(ns),
           UNCHANGED <<anchor, client, microDone>>,
           \/ ns = <<>> /\ UNCHANGED <<pc, outcome>>
           \/ /\ pc \notin {"drain", "done", "steer"}
              /\ Full' => Full /\ ns = <<>>
    PROVE  Numbered' /\ Copied'
<1>1. Numbered'
  BY GrownIs DEF Numbered
<1>2. Copied'
  <2> SUFFICES ASSUME ~microDone PROVE \E a \in 1..Len(msgs') : CaughtUp(a)'
    BY DEF Copied
  <2>1. PICK a \in 1..Len(msgs) : CaughtUp(a)
    BY DEF Copied
  <2>2. a \in 1..Len(msgs') /\ msgs'[a] = msgs[a]
    <3>1. /\ Len(msgs') = Len(msgs) + Len(ns) /\ Len(msgs) \in Nat /\ Len(ns) \in Nat
          /\ \A i \in 1..Len(msgs) : msgs'[i] = msgs[i]
      BY GrownIs
    <3> QED BY <3>1
  <2>3. Covers(client, msgs', a)
    <3>1. msgs \in Seq(Messages) /\ ns \in Seq(Messages) /\ msgs' = msgs \o ns
      BY GrownIs DEF Grown
    <3> QED BY <2>1, <3>1, CoversLonger DEF CaughtUp
  <2>4. \A i \in (a + 1)..Len(msgs') : Visible(msgs'[i])
    BY <2>1, GrownIs DEF CaughtUp
  <2>5. ns = <<>> => msgs' = msgs
    BY GrownIs DEF Grown
  <2>6. AnchorAt(a)'
    <3>1. CASE ns = <<>> /\ UNCHANGED <<pc, outcome>>
      BY <2>1, <2>5, <3>1 DEF CaughtUp, AnchorAt
    <3>2. CASE pc \notin {"drain", "done", "steer"}
      BY <2>1, <2>2, <3>2 DEF CaughtUp, AnchorAt
    <3> QED BY <3>1, <3>2
  <2>7. Full' => a = Len(msgs')
    BY <2>1, <2>5 DEF CaughtUp, Full
  <2>8. CaughtUp(a)'
    BY <2>3, <2>4, <2>6, <2>7 DEF CaughtUp, Covers, Rising
  <2> QED BY <2>2, <2>8
<1> QED BY <1>1, <1>2

\* A step that sends everything since the anchor.
LEMMA Sent ==
    ASSUME IInv, Numbered, Copied, NEW ns, Grown(ns), UNCHANGED microDone,
           \A a \in 1..Len(msgs) : ~microDone /\ CaughtUp(a) =>
             client' = client \o Shown(After(msgs', msgs[a].id)),
           \/ anchor' = LastId(msgs')
           \/ UNCHANGED anchor /\ pc' \in {"drain", "done"}
    PROVE  Numbered' /\ Copied'
<1>1. Numbered'
  BY GrownIs DEF Numbered
<1>2. Copied'
  <2> SUFFICES ASSUME ~microDone PROVE \E a \in 1..Len(msgs') : CaughtUp(a)'
    BY DEF Copied
  <2>1. PICK a \in 1..Len(msgs) : CaughtUp(a)
    BY DEF Copied
  <2>2. /\ msgs' \in Seq(Messages) /\ Rising(msgs')
        /\ a \in 1..Len(msgs') /\ Len(msgs') \in 1..Len(msgs') /\ msgs'[a] = msgs[a]
    <3>1. /\ Len(msgs') = Len(msgs) + Len(ns) /\ Len(msgs) \in Nat \ {0}
          /\ Len(ns) \in Nat /\ \A i \in 1..Len(msgs) : msgs'[i] = msgs[i]
          /\ msgs' \in Seq(Messages) /\ Rising(msgs')
      BY GrownIs
    <3> QED BY <3>1
  <2>3. \A i \in (a + 1)..Len(msgs') : Visible(msgs'[i])
    BY <2>1, GrownIs DEF CaughtUp
  <2>4. client' = client \o SubSeq(msgs', a + 1, Len(msgs'))
    <3>1. Shown(After(msgs', msgs'[a].id)) = SubSeq(msgs', a + 1, Len(msgs'))
      BY <2>2, <2>3, SnapshotIs
    <3> QED BY <2>1, <2>2, <3>1
  <2>5. Covers(client, msgs', a)
    <3>1. msgs \in Seq(Messages) /\ ns \in Seq(Messages) /\ msgs' = msgs \o ns
      BY GrownIs DEF Grown
    <3> QED BY <2>1, <3>1, CoversLonger DEF CaughtUp
  <2>6. Covers(client', msgs', Len(msgs'))
    BY <2>2, <2>4, <2>5, CoversAll
  <2>7. AnchorAt(Len(msgs))'
    BY GrownIs DEF AnchorAt
  <2>8. (Len(msgs) + 1)..Len(msgs) = {}
    BY GrownIs
  <2>9. (Len(msgs') + 1)..Len(msgs') = {}
    BY <2>2
  <2>10. CaughtUp(Len(msgs))'
    BY <2>6, <2>7, <2>9 DEF CaughtUp, Covers, Rising
  <2> QED BY <2>2, <2>10
<1> QED BY <1>1, <1>2

\* One new message.
LEMMA OneNew ==
    ASSUME IInv, NEW kind \in Kinds \ {"restored"}, Append1(kind)
    PROVE  Grown(<<Message(kind, 1, {})>>)
<1> DEFINE m == Message(kind, 1, {})
<1>1. m \in Messages /\ m.id = made + 1 /\ m.kind = kind
  BY NewMessage DEF Message, IInv
<1>2. msgs \in Seq(Messages) /\ made \in Nat
  BY DEF IInv, TypeOK, Messages
<1>3. Append(msgs, m) = msgs \o <<m>>
  <2> HIDE DEF m
  <2> QED BY <1>1, <1>2
<1>4. New(<<m>>)
  <2> HIDE DEF m
  <2> QED BY <1>1 DEF New
<1>5. \A i \in 1..Len(<<m>>) : Visible(<<m>>[i])
  <2> HIDE DEF m
  <2> QED BY <1>1 DEF Visible
<1> QED BY <1>3, <1>4, <1>5 DEF Grown, Append1

\* No new message.
LEMMA NothingNew ==
    ASSUME IInv, UNCHANGED <<msgs, made>>
    PROVE  Grown(<<>>) /\ msgs' = msgs \o <<>>
BY DEF IInv, TypeOK, Messages, Grown, New

\* The notices of a drain.
LEMMA NoticesNew ==
    ASSUME IInv, DrainNotices
    PROVE  /\ Grown(NoticeMessages)
           /\ \A i \in 1..Len(NoticeMessages) : NoticeMessages[i].kind = "notice"
<1>1. channel \in Nat /\ made \in Nat
  BY DEF IInv, TypeOK
<1>2. \A i \in 1..channel : /\ Message("notice", i, {}) \in Messages
                            /\ Message("notice", i, {}).id = made + i
                            /\ Message("notice", i, {}).kind = "notice"
  BY NewMessage DEF IInv, Kinds, Message
<1>3. /\ NoticeMessages \in Seq(Messages) /\ Len(NoticeMessages) = channel
      /\ \A i \in 1..channel : NoticeMessages[i] = Message("notice", i, {})
  BY <1>1, <1>2 DEF NoticeMessages
<1> QED BY <1>2, <1>3 DEF Grown, New, DrainNotices, Visible

\* While an execution runs its outcome is open.
LEMMA StillOpen ==
    ASSUME IInv, pc # "done"
    PROVE  outcome = "running"
BY DEF IInv, Control

\* Where nothing but the anchor says what was sent.
LEMMA AnchorIs ==
    ASSUME NEW a \in 1..Len(msgs), CaughtUp(a), pc \notin {"drain", "done", "steer"}
    PROVE  msgs[a].id = anchor
BY DEF CaughtUp, AnchorAt

\* After a compaction the anchor is hung to the last message.
LEMMA RehungIs ==
    ASSUME IInv, Numbered, NEW a \in 1..Len(msgs), CaughtUp(a), pc = "steer"
    PROVE  Rehung = msgs[a].id
BY DEF CaughtUp, AnchorAt, Rehung, LastId

\* What the client has keeps up with the conversation.
LEMMA CopyStep == IInv /\ Numbered /\ Copied /\ [Next]_vars => Numbered' /\ Copied'
<1> SUFFICES ASSUME IInv, Numbered, Copied, [Next]_vars
             PROVE  Numbered' /\ Copied'
  OBVIOUS
<1> DEFINE Away == {"drain", "done", "steer"}
<1>1. /\ msgs \in Seq(Messages) /\ msgs # <<>> /\ Len(msgs) \in 1..Len(msgs)
      /\ made \in Nat /\ anchor \in Nat /\ step \in Nat
      /\ pc # "done" => outcome = "running"
  BY StillOpen DEF IInv, TypeOK, Control, Messages
\* Steps that send nothing.
<1>2. ASSUME UNCHANGED <<msgs, made, anchor, client, microDone, pc, outcome>>
      PROVE  Numbered' /\ Copied'
  BY <1>2, NothingNew, Unsent
<1>3. ASSUME UNCHANGED <<msgs, made, anchor, client, microDone>>,
             pc \notin Away, Full' => Full
      PROVE  Numbered' /\ Copied'
  BY <1>3, NothingNew, Unsent
<1>4. ASSUME NEW kind \in Kinds \ {"restored"}, Append1(kind),
             UNCHANGED <<anchor, client, microDone>>, pc \notin Away, ~Full'
      PROVE  Numbered' /\ Copied'
  BY <1>4, OneNew, Unsent
<1>5. ASSUME NEW o \in {"failed", "interrupted", "running", "deferred", "fatal"},
             Return(IF o \in {"deferred", "fatal"} THEN "failed" ELSE o)
      PROVE  ~Full'
  BY <1>5 DEF Return, Full
<1>6. CASE Begin
  <2>1. /\ Append1("human") /\ anchor' = made + 1 /\ pc = "start"
        /\ client' = Append(client, Message("human", 1, {}))
        /\ microDone' = microDone
    BY <1>6 DEF Begin
  <2> DEFINE m == Message("human", 1, {})
  <2>2. Grown(<<m>>) /\ m \in Messages /\ m.id = made + 1
    BY <2>1, OneNew, NewMessage DEF Kinds, IInv, Message
  <2>3. /\ msgs' \in Seq(Messages) /\ Rising(msgs') /\ Len(msgs') = Len(msgs) + 1
        /\ msgs'[Len(msgs) + 1] = m
        /\ \A i \in 1..Len(msgs) : msgs'[i] = msgs[i]
    <3> HIDE DEF m
    <3>1. /\ <<m>> \in Seq(Messages) /\ Len(<<m>>) = 1 /\ <<m>>[1] = m
          /\ msgs' = msgs \o <<m>>
      BY <2>2 DEF Grown
    <3>2. /\ msgs' \in Seq(Messages) /\ Rising(msgs') /\ Len(msgs') = Len(msgs) + 1
          /\ \A i \in 1..Len(msgs) : msgs'[i] = msgs[i]
      BY <2>2, <3>1, GrownIs
    <3>3. 1 \in 1..Len(<<m>>)
      BY <3>1
    <3>4. msgs'[Len(msgs) + 1] = m
      BY <1>1, <3>1, <3>3, Longer
    <3> QED BY <3>2, <3>4
  <2>4. LastId(msgs') = anchor'
    <3> HIDE DEF m
    <3> QED BY <2>1, <2>2, <2>3 DEF LastId
  <2>5. ASSUME NEW a \in 1..Len(msgs), ~microDone, CaughtUp(a)
        PROVE  client' = client \o Shown(After(msgs', msgs[a].id))
    <3>1. a = Len(msgs)
      BY <2>1, <2>5 DEF CaughtUp, Full
    <3>2. a \in 1..Len(msgs') /\ msgs'[a] = msgs[a]
      BY <2>3
    <3>3. \A i \in (a + 1)..Len(msgs') : Visible(msgs'[i])
      BY <2>2, <2>5, GrownIs DEF CaughtUp
    <3>4. Shown(After(msgs', msgs[a].id)) = SubSeq(msgs', a + 1, Len(msgs'))
      BY <2>3, <3>2, <3>3, SnapshotIs
    <3>5. SubSeq(msgs', a + 1, Len(msgs')) = <<m>>
      <4> DEFINE n == Len(msgs')
      <4> HIDE DEF m, n
      <4>1. n \in Nat /\ a + 1 = n /\ msgs' \in Seq(Messages) /\ n = Len(msgs')
            /\ n \in 1..n /\ msgs'[n] = m
        BY <1>1, <2>3, <3>1 DEF n
      <4>2. /\ Len(SubSeq(msgs', n, n)) = 1 /\ SubSeq(msgs', n, n)[1] = m
            /\ SubSeq(msgs', n, n) \in Seq(Messages)
        BY ONLY <4>1
      <4>3. SubSeq(msgs', n, n) = <<m>>
        <5> DEFINE v == SubSeq(msgs', n, n)
                   w == <<m>>
        <5>1. w \in Seq(Messages) /\ Len(w) = 1 /\ w[1] = m
          BY <2>2
        <5>2. v \in Seq(Messages) /\ Len(v) = 1 /\ v[1] = m
          BY <4>2
        <5> HIDE DEF v, w
        <5>3. v = w
          BY ONLY <5>1, <5>2, SeqEqual
        <5> QED BY <5>3 DEF v, w
      <4> QED BY <4>1, <4>3
    <3>6. client \in Seq(Messages)
      BY <2>5 DEF CaughtUp, Covers
    <3>7. Append(client, m) = client \o <<m>>
      <4> HIDE DEF m
      <4> QED BY <2>2, <3>6
    <3> QED BY <2>1, <3>4, <3>5, <3>7
  <2> HIDE DEF m
  <2> QED BY <2>1, <2>2, <2>4, <2>5, Sent
<1>7. CASE GuideAgent
  <2>1. /\ UNCHANGED <<pc, anchor, client, microDone, outcome>>
        /\ pc = "beforeAgent"
    BY <1>7 DEF GuideAgent, loop
  <2>2. Append1("preload") \/ UNCHANGED <<msgs, made>>
    BY <1>7 DEF GuideAgent
  <2>3. ~Full' /\ "preload" \in Kinds \ {"restored"}
    BY <1>1, <2>1 DEF Full, Kinds
  <2> QED BY <1>2, <1>4, <2>1, <2>2, <2>3
<1>8. CASE BeforeAgent
  <2>1. /\ UNCHANGED <<msgs, made, anchor, client, microDone, outcome>>
        /\ pc = "beforeAgent" /\ pc' = "beforeModel"
    BY <1>8 DEF BeforeAgent
  <2> QED BY <1>1, <1>3, <2>1 DEF Full
<1>9. CASE BeforeAgentFails \/ BeforeModelFails \/ CallInterrupted \/ CallFails
  <2>1. /\ UNCHANGED <<msgs, made, anchor, client, microDone>>
        /\ pc \notin Away
        /\ pc' = "done" /\ outcome' \in {"failed", "interrupted"}
    BY <1>9 DEF BeforeAgentFails, BeforeModelFails, CallInterrupted, CallFails,
                Fail, Return
  <2> QED BY <1>3, <2>1 DEF Full
<1>10. CASE NoCompaction
  <2>1. /\ UNCHANGED <<msgs, made, anchor, client, microDone, outcome>>
        /\ pc = "beforeModel" /\ pc' = "steer"
    BY <1>10 DEF NoCompaction, talk
  <2> QED BY <1>1, <1>3, <2>1 DEF Full
<1>11. CASE CompactFully
  <2>1. /\ msgs' = Summary /\ made' = made + 2 /\ client' = Summary
        /\ pc = "beforeModel" /\ pc' = "steer"
        /\ UNCHANGED <<anchor, microDone, outcome>>
    BY <1>11 DEF CompactFully
  <2>2. /\ Summary \in Seq(Messages) /\ Len(Summary) = 2
        /\ Summary[1].id = made + 1 /\ Summary[2].id = made + 2
    <3>1. Carried(msgs) \in SUBSET (1..Items)
      BY <1>1, OfMessages
    <3>2. /\ Message("summary", 1, Carried(msgs)) \in Messages
          /\ Message("restored", 2, {}) \in Messages
      BY <3>1, NewMessage DEF IInv, Kinds
    <3> QED BY <3>2 DEF Summary, Message
  <2> HIDE DEF Summary
  <2>3. Rising(Summary)
    BY <1>1, <2>2 DEF Rising
  <2>4. \A i \in 1..Len(Summary) : Summary[i].id <= made + 2 /\ Summary[i].id > made
    BY <1>1, <2>2
  <2>5. Numbered'
    <3>1. anchor <= made + 2
      BY <1>1 DEF Numbered
    <3> QED BY <2>1, <2>3, <2>4, <3>1 DEF Numbered, Rising
  <2>6. \A i \in 1..Len(Summary) : Summary[i].id # anchor
    BY <1>1, <2>4 DEF Numbered
  <2>7. Covers(Summary, Summary, Len(Summary))
    BY <2>2, <2>3, CoversItself
  <2>8. CaughtUp(2)'
    <3>1. AnchorAt(2)'
      BY <2>1, <2>2, <2>6 DEF AnchorAt
    <3> QED BY <2>1, <2>2, <2>7, <3>1 DEF CaughtUp, Covers, Rising
  <2>9. 2 \in 1..Len(msgs')
    BY <2>1, <2>2
  <2> QED BY <2>5, <2>8, <2>9 DEF Copied
<1>12. CASE CompactMicro
  BY <1>12 DEF CompactMicro, talk, Numbered, Rising, Copied
<1>13. CASE ConsumeSteering
  <2>1. /\ pc = "steer" /\ pc' = "model" /\ UNCHANGED <<microDone, outcome>>
    BY <1>13 DEF ConsumeSteering
  <2>2. CASE Drained = <<>>
    <3>1. anchor' = Rehung /\ UNCHANGED <<msgs, made, client>>
      BY <1>13, <2>2 DEF ConsumeSteering
    <3>2. Rehung <= made
      BY <1>1 DEF Rehung, LastId, Numbered
    <3>3. Numbered'
      BY <3>1, <3>2 DEF Numbered, Rising
    <3>4. ASSUME NEW a \in 1..Len(msgs), CaughtUp(a) PROVE CaughtUp(a)'
      <4>1. AnchorAt(a)'
        BY <2>1, <3>1, <3>4, RehungIs DEF AnchorAt
      <4>2. ~Full'
        BY <1>1, <2>1 DEF Full
      <4> QED BY <3>1, <3>4, <4>1, <4>2 DEF CaughtUp, Covers, Rising
    <3> QED BY <2>1, <3>1, <3>3, <3>4 DEF Copied
  <2>3. CASE Drained # <<>>
    <3> DEFINE added == [i \in 1..Len(Drained) |-> Message("steer", i, {Drained[i]})]
    <3>1. /\ msgs' = msgs \o added /\ made' = made + Len(Drained)
          /\ client' = client \o Shown(After(msgs', Rehung))
          /\ anchor' = LastId(msgs')
      BY <1>13, <2>3 DEF ConsumeSteering
    <3>2. Drained \in Seq(1..Items)
      BY DEF Drained, IInv, TypeOK
    <3>3. \A i \in 1..Len(Drained) :
            /\ Message("steer", i, {Drained[i]}) \in Messages
            /\ Message("steer", i, {Drained[i]}).id = made + i
            /\ Message("steer", i, {Drained[i]}).kind = "steer"
      <4> TAKE i \in 1..Len(Drained)
      <4>1. i \in Nat /\ Drained[i] \in 1..Items
        <5> DEFINE n == Len(Drained)
        <5>1. n \in Nat /\ i \in 1..n
          BY <3>2
        <5> HIDE DEF n
        <5>2. i \in Nat
          BY <5>1
        <5> QED BY <3>2, <5>2, ElementOfSeq
      <4>2. "steer" \in Kinds
        BY DEF Kinds
      <4> QED BY <4>1, <4>2, NewMessage DEF IInv, Message
    <3>4. /\ added \in Seq(Messages) /\ Len(added) = Len(Drained)
          /\ \A i \in 1..Len(added) : added[i].id = made + i /\ Visible(added[i])
      BY <3>2, <3>3 DEF Visible
    <3> HIDE DEF added
    <3>5. Grown(added)
      BY <3>1, <3>4 DEF Grown, New
    <3>6. \A a \in 1..Len(msgs) : CaughtUp(a) =>
            client' = client \o Shown(After(msgs', msgs[a].id))
      BY <2>1, <3>1, RehungIs
    <3> QED BY <2>1, <3>1, <3>5, <3>6, Sent
  <2> QED BY <2>2, <2>3
<1>14. CASE CallModel \/ Proceed
  <2>1. /\ UNCHANGED <<msgs, made, anchor, client, microDone, outcome>>
        /\ pc \in {"model", "afterModel"}
        /\ pc' \in {"afterModel", "dispatch", "boundary"}
    BY <1>14 DEF CallModel, Proceed, Branch, talk
  <2> QED BY <1>1, <1>3, <2>1 DEF Full
<1>15. CASE BreakLoop
  <2>1. /\ Append1("hint") /\ UNCHANGED <<anchor, client, microDone, outcome>>
        /\ pc = "afterModel" /\ pc' \in {"beforeModel", "boundary"}
    BY <1>15 DEF BreakLoop
  <2> QED BY <1>1, <1>4, <2>1 DEF Full, Kinds
<1>16. CASE DispatchWritten
  <2>1. /\ pc = "dispatch" /\ msgs' = msgs \o Transcript /\ made' = made + 2
        /\ UNCHANGED <<anchor, client, microDone>>
    BY <1>16 DEF DispatchWritten
  <2>2. ~Full'
    <3>1. PICK o \in Batch!Committed :
            IF o = "ok" THEN pc' = "snapshot" /\ UNCHANGED <<prefix, steering, outcome>>
            ELSE Return(IF o = "deferred" THEN "failed" ELSE o)
      BY <1>16 DEF DispatchWritten
    <3> QED BY <1>1, <2>1, <3>1 DEF Full, Return, Batch!Committed
  <2>3. Grown(Transcript)
    <3>1. /\ Message("tools", 1, {}) \in Messages
          /\ Message("results", 2, {}) \in Messages
      BY NewMessage DEF IInv, Kinds
    <3>2. /\ Transcript \in Seq(Messages) /\ Len(Transcript) = 2
          /\ Transcript[1].id = made + 1 /\ Transcript[2].id = made + 2
          /\ Visible(Transcript[1]) /\ Visible(Transcript[2])
      BY <3>1 DEF Transcript, Message, Visible
    <3> HIDE DEF Transcript
    <3> QED BY <2>1, <3>2 DEF Grown, New
  <2> QED BY <2>1, <2>2, <2>3, Unsent
<1>17. CASE DispatchAborted
  <2>1. PICK o \in Batch!Aborted : Fail(IF o = "fatal" THEN "failed" ELSE o)
    BY <1>17 DEF DispatchAborted
  <2>2. /\ UNCHANGED <<msgs, made, anchor, client, microDone>>
        /\ pc = "dispatch"
    BY <1>17, <2>1 DEF DispatchAborted, Fail
  <2>3. ~Full'
    BY <2>1 DEF Full, Fail, Return, Batch!Aborted
  <2> QED BY <1>3, <2>2, <2>3
\* Steps that send a snapshot.
<1>18. ASSUME NEW ns, Grown(ns), microDone' = microDone, pc \notin Away,
              client' = client \o Snapshot(msgs'),
              \/ anchor' = LastId(msgs')
              \/ UNCHANGED anchor /\ pc' \in {"drain", "done"}
       PROVE  Numbered' /\ Copied'
  <2>1. \A a \in 1..Len(msgs) : CaughtUp(a) => msgs[a].id = anchor
    BY <1>18, AnchorIs
  <2>2. client' = client \o Shown(After(msgs', anchor))
    BY <1>18 DEF Snapshot
  <2> QED BY <1>18, <2>1, <2>2, Sent
<1>19. CASE EmitSnapshot
  <2>1. /\ UNCHANGED <<msgs, made, anchor, microDone>>
        /\ client' = client \o Snapshot(msgs) /\ pc = "snapshot" /\ pc' = "drain"
    BY <1>19 DEF EmitSnapshot, talk
  <2>2. Snapshot(msgs') = Snapshot(msgs)
    BY <2>1
  <2> QED BY <1>18, <2>1, <2>2, NothingNew
<1>20. CASE MaxIterations
  <2>1. /\ UNCHANGED <<msgs, made, anchor, microDone>>
        /\ client' = client \o Snapshot(msgs) /\ pc = "beforeModel" /\ pc' = "done"
    BY <1>20 DEF MaxIterations, Return
  <2>2. Snapshot(msgs') = Snapshot(msgs)
    BY <2>1
  <2> QED BY <1>18, <2>1, <2>2, NothingNew
<1>21. CASE FinalAnswer
  <2>1. /\ Append1("answer") /\ microDone' = microDone /\ pc = "boundary"
        /\ client' = client \o Snapshot(msgs') /\ anchor' = LastId(msgs')
    BY <1>21 DEF FinalAnswer
  <2>2. "answer" \in Kinds \ {"restored"}
    BY DEF Kinds
  <2> QED BY <1>18, <2>1, <2>2, OneNew
<1>22. CASE FinalDrain
  <2>1. /\ DrainNotices /\ microDone' = microDone /\ pc = "finalDrain"
        /\ client' = client \o Snapshot(msgs') /\ anchor' = LastId(msgs')
    BY <1>22 DEF FinalDrain
  <2> QED BY <1>18, <2>1, NoticesNew
<1>23. CASE DrainAfterTools
  <2>1. /\ DrainNotices /\ UNCHANGED <<microDone, client, outcome>>
        /\ anchor' = LastId(msgs') /\ pc = "drain" /\ pc' = "beforeModel"
    BY <1>23 DEF DrainAfterTools
  <2>2. /\ Grown(NoticeMessages)
        /\ \A i \in 1..Len(NoticeMessages) : NoticeMessages[i].kind = "notice"
    BY <2>1, NoticesNew
  <2> DEFINE ns == NoticeMessages
  <2> HIDE DEF ns
  <2>3. Numbered'
    BY <2>1, <2>2, GrownIs DEF Numbered
  <2>4. ASSUME NEW a \in 1..Len(msgs), CaughtUp(a) PROVE CaughtUp(Len(msgs))'
    <3>1. a = Len(msgs)
      BY <2>1, <2>4 DEF CaughtUp, Full
    <3>2. /\ ns \in Seq(Messages) /\ msgs' = msgs \o ns /\ msgs' \in Seq(Messages)
          /\ Len(msgs') = Len(msgs) + Len(ns) /\ Len(ns) \in Nat
          /\ LastId(msgs') = msgs'[Len(msgs')].id
      BY <2>2, GrownIs DEF ns, Grown
    <3>3. Covers(client, msgs', a)
      BY <1>1, <2>4, <3>2, CoversLonger DEF CaughtUp
    <3>4. \A i \in (a + 1)..Len(msgs') : msgs'[i].kind = "notice"
      <4>1. \A i \in 1..Len(ns) : msgs'[Len(msgs) + i] = ns[i] /\ ns[i].kind = "notice"
        BY <1>1, <2>2, <3>2, Longer DEF ns
      <4> TAKE i \in (a + 1)..Len(msgs')
      <4> DEFINE q == i - Len(msgs)
      <4>2. q \in 1..Len(ns) /\ i = Len(msgs) + q
        BY <1>1, <3>1, <3>2
      <4> HIDE DEF q
      <4> QED BY <4>1, <4>2
    <3>5. a \in 1..Len(msgs')
      BY <3>2
    <3>6. Covers(client, msgs', Len(msgs'))
      BY <3>2, <3>3, <3>4, <3>5, CoversNotices
    <3>7. AnchorAt(Len(msgs))'
      BY <2>1, <3>2 DEF AnchorAt
    <3>8. (Len(msgs') + 1)..Len(msgs') = {}
      BY <3>2
    <3> QED BY <2>1, <3>6, <3>7, <3>8 DEF CaughtUp, Covers, Rising
  <2>5. Len(msgs') \in 1..Len(msgs')
    BY <1>1, <2>2, GrownIs
  <2> QED BY <2>1, <2>3, <2>4, <2>5 DEF Copied
<1>24. CASE KeepAnswer
  <2>1. /\ Append1("answer") /\ UNCHANGED <<anchor, client, microDone, outcome>>
        /\ pc = "boundary" /\ pc' = "beforeModel"
    BY <1>24 DEF KeepAnswer
  <2> QED BY <1>1, <1>4, <2>1 DEF Full, Kinds
<1>25. CASE AfterAgent
  <2>1. /\ UNCHANGED <<msgs, made, anchor, client, microDone>>
        /\ pc = "afterAgent"
    BY <1>25 DEF AfterAgent, Fail
  <2> QED BY <1>3, <2>1 DEF Full
<1>26. CASE (\E k \in 1..Items : Enqueue(k)) \/ Cancel \/ Post \/ UNCHANGED vars
  <2>1. UNCHANGED <<msgs, made, anchor, client, microDone, pc, outcome>>
    BY <1>26 DEF Enqueue, Cancel, Post, vars, loop, talk
  <2> QED BY <1>2, <2>1
<1> QED BY <1>6, <1>7, <1>8, <1>9, <1>10, <1>11, <1>12, <1>13, <1>14, <1>15, <1>16,
           <1>17, <1>19, <1>20, <1>21, <1>22, <1>23, <1>24, <1>25, <1>26
        DEF Next, Loop

LEMMA InitCopy == Init => Numbered /\ Copied
<1> SUFFICES ASSUME Init PROVE Numbered /\ Copied
  OBVIOUS
<1>1. /\ msgs \in Seq(Messages) /\ Len(msgs) = 1 /\ msgs[1].id = 1
      /\ made = 1 /\ anchor = 1 /\ client = msgs
  BY LoopAssumption DEF Init, Messages, Kinds
<1>2. Rising(msgs)
  BY <1>1 DEF Rising
<1>3. Numbered
  BY <1>1, <1>2 DEF Numbered
<1>4. Covers(client, msgs, 1)
  BY <1>1, <1>2, CoversItself
<1>5. CaughtUp(1)
  BY <1>1, <1>4 DEF CaughtUp, AnchorAt
<1> QED BY <1>1, <1>3, <1>5 DEF Copied

\* The client's copy of the conversation is the conversation up to a point,
\* without the notices of background tasks that were read after a tool step, and
\* all of it when the execution ends by itself (final_answer.rs:45,
\* consume_steering): as long as no micro compaction sent it more.
THEOREM CopyIsFaithful == Spec => []ClientFaithful
<1>1. IInv /\ Numbered /\ Copied => ClientFaithful
  <2> SUFFICES ASSUME IInv, Numbered, Copied, ~microDone PROVE ClientFaithful
    BY DEF ClientFaithful
  <2>1. PICK a \in 1..Len(msgs) : CaughtUp(a)
    BY DEF Copied
  <2>2. /\ msgs \in Seq(Messages) /\ Len(msgs) \in Nat
        /\ Covers(client, msgs, a) /\ Rising(msgs)
    BY <2>1 DEF IInv, TypeOK, Messages, CaughtUp, Numbered
  <2>3. Rising(client)
    BY <2>2 DEF Covers
  <2>4. ToSet(client) \subseteq ToSet(msgs)
    <3>1. \A j \in 1..a : j \in 1..Len(msgs)
      OBVIOUS
    <3> QED BY <2>2, <3>1 DEF Covers, ToSet
  <2>5. ASSUME NEW m \in ToSet(msgs) \ ToSet(client), m.kind # "notice"
        PROVE  /\ outcome \notin {"ok", "maxIterations"}
               /\ \A i \in 1..Len(client) : client[i].id < m.id
    <3>1. PICK j \in 1..Len(msgs) : m = msgs[j]
      BY <2>5 DEF ToSet
    <3>2. j \notin 1..a
      BY <2>2, <2>5, <3>1 DEF Covers, ToSet
    <3>3. a < j
      BY <2>2, <3>2
    <3>4. outcome \notin {"ok", "maxIterations"}
      BY <2>1, <2>2, <3>3 DEF CaughtUp, Full
    <3>5. ASSUME NEW i \in 1..Len(client) PROVE client[i].id < m.id
      <4>1. PICK l \in 1..a : client[i] = msgs[l]
        BY <2>2, <3>5 DEF Covers
      <4>2. l \in 1..Len(msgs) /\ l < j
        BY <2>2, <3>3
      <4> QED BY <2>2, <3>1, <4>1, <4>2 DEF Rising
    <3> QED BY <3>4, <3>5
  <2> QED BY <2>2, <2>3, <2>4, <2>5 DEF ClientFaithful
<1>2. Init => IInv /\ Numbered /\ Copied
  BY InitInv, InitCopy
<1>3. IInv /\ Numbered /\ Copied /\ [Next]_vars => (IInv /\ Numbered /\ Copied)'
  BY StepInv, CopyStep
<1> QED BY <1>1, <1>2, <1>3, PTL DEF Spec
=============================================================================
