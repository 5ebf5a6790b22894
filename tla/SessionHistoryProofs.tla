------------------------ MODULE SessionHistoryProofs ------------------------
(***************************************************************************)
(* Proofs about SessionHistory and ThreadStore, for every set of requests  *)
(* and threads and every bound.                                            *)
(*                                                                         *)
(* 1. The requests of a session never overlap (OneAtATime).  The property  *)
(* is not inductive: a second lock would allow two holders.  What excludes *)
(* it is that the table forgets a lock only when no request refers to it,  *)
(* so that every request that waits or holds refers to the lock of the     *)
(* table (CurrentLock).                                                    *)
(*                                                                         *)
(* 2. The operators of the store: what an insertion, a deletion and a load *)
(* make of the rows of a thread.                                           *)
(*                                                                         *)
(* 3. Types (Typed).                                                       *)
(*                                                                         *)
(* 4. Memory and store agree (Sound), when the session is Sheltered: the   *)
(* one request that holds the lock is at a known distance between the two  *)
(* (Stage), the cached context is the beginning of the rows or older than  *)
(* all of them (Aligned), and new messages are not in the store yet.       *)
(*                                                                         *)
(* 5. Confirmed texts stay (LastWord), unless an execution compacts.       *)
(***************************************************************************)
EXTENDS SessionHistory, FiniteSetTheorems, SequenceTheorems, TLAPS

\* req is a function of records with fields in some set V; nothing is said of
\* the values.
Records(V) == [pc : V, kind : V, lock : V, base : V, epoch : V, result : V,
               ok : V, confirmed : V, cancelled : V]

Shape == \E V : req \in [Requests -> Records(V)]

LockTypes == lockOf \in Nat /\ locks \in Nat

Queued(k) == req[k].pc \in Holding \cup {"waiting"}

\* Requests that wait or hold do so at the lock of the table.
CurrentLock == \A k \in Requests : Queued(k) => lockOf # 0 /\ req[k].lock = lockOf

LockInv == Shape /\ LockTypes /\ CurrentLock /\ OneAtATime

\* Nothing about the locks changes for the requests in S.
Keeps(S) ==
    \A j \in S : req'[j].pc = req[j].pc /\ req'[j].lock = req[j].lock

\* Request k proceeds while it holds its lock.
Moves(k) ==
    /\ Shape'
    /\ Keeps(Requests \ {k})
    /\ req[k].pc \in Holding /\ req'[k].pc \in Holding
    /\ req'[k].lock = req[k].lock
    /\ UNCHANGED <<lockOf, locks>>

LEMMA MovesPreserves ==
    ASSUME LockInv, NEW k \in Requests, Moves(k)
    PROVE  LockInv'
<1>1. CurrentLock'
  BY DEF LockInv, CurrentLock, Queued, Moves, Keeps
<1>2. OneAtATime'
  BY DEF LockInv, OneAtATime, Moves, Keeps
<1>3. QED
  BY <1>1, <1>2 DEF LockInv, LockTypes, Moves

\* More values may be allowed.
LEMMA ShapeWith ==
    ASSUME Shape, NEW W
    PROVE  \E V : W \subseteq V /\ req \in [Requests -> Records(V)]
<1>1. PICK V : req \in [Requests -> Records(V)]
  BY DEF Shape
<1>2. req \in [Requests -> Records(V \cup W)]
  BY <1>1 DEF Records
<1>3. QED
  BY <1>2

LEMMA ChangeOne ==
    ASSUME NEW V, req \in [Requests -> Records(V)], NEW k \in Requests,
           NEW r \in Records(V), req' = [req EXCEPT ![k] = r]
    PROVE  Shape' /\ Keeps(Requests \ {k}) /\ req'[k] = r
  BY DEF Shape, Keeps

\* What changes one request by pc alone leaves the others as they are.
LEMMA StepMoves ==
    ASSUME Shape, NEW k \in Requests, NEW from \in Holding, NEW to \in Holding,
           Step(k, from, to), UNCHANGED <<lockOf, locks>>
    PROVE  Moves(k)
<1>1. PICK V : {to} \subseteq V /\ req \in [Requests -> Records(V)]
  BY ShapeWith
<1>2. req' \in [Requests -> Records(V)]
  BY <1>1 DEF Step, Records
<1>3. /\ Keeps(Requests \ {k})
      /\ req'[k].pc = to /\ req'[k].lock = req[k].lock
  BY <1>1 DEF Step, Records, Keeps
<1>4. QED
  BY <1>2, <1>3 DEF Moves, Shape, Step, At

LEMMA ReturnMoves ==
    ASSUME Shape, NEW k \in Requests, req[k].pc \in Holding,
           NEW r, NEW o, NEW c, Return(k, r, o, c), UNCHANGED <<lockOf, locks>>
    PROVE  Moves(k)
<1>1. PICK V : {"persist", r, o, c} \subseteq V /\ req \in [Requests -> Records(V)]
  BY ShapeWith
<1> DEFINE new == [req[k] EXCEPT !.pc = "persist", !.result = r, !.ok = o,
                                 !.confirmed = c]
<1>2. new \in Records(V) /\ new.pc = "persist" /\ new.lock = req[k].lock
  BY <1>1 DEF Records
<1>3. req' = [req EXCEPT ![k] = new]
  BY DEF Return
<1>4. QED
  BY <1>1, <1>2, <1>3, ChangeOne DEF Moves, Holding

\* What a holder of the lock does.
Inside(k) ==
    \/ Register(k) \/ ReadHistory(k)
    \/ AnswerPrompt(k) \/ FailPrompt(k) \/ CompactedPrompt(k)
    \/ CompactCommand(k) \/ RewindCommand(k) \/ RewindClearsCache(k)
    \/ RewindReturns(k) \/ DropCommand(k)
    \/ Persist(k) \/ PersistClearsCache(k) \/ PersistCompacted(k)
    \/ Publish(k) \/ AppendHistory(k)

LEMMA InsideMoves ==
    ASSUME LockInv, NEW k \in Requests, Inside(k)
    PROVE  Moves(k)
<1> USE DEF LockInv, server
<1>1. CASE Register(k)
  <2>1. CASE Main \in open
    BY <1>1, <2>1, StepMoves DEF Register, Holding
  <2>2. CASE Main \notin open
    BY <1>1, <2>2, StepMoves DEF Register, Holding
  <2>3. QED
    BY <2>1, <2>2
<1>2. CASE ReadHistory(k)
  <2>1. CASE Main \in open
    <3> DEFINE W == {"running", closes, history[Main]}
    <3> HIDE DEF W
    <3>1. PICK V : W \subseteq V /\ req \in [Requests -> Records(V)]
      BY ShapeWith
    <3> DEFINE new == [req[k] EXCEPT !.pc = "running", !.epoch = closes,
                                     !.base = history[Main]]
    <3>2. new \in Records(V) /\ new.pc = "running" /\ new.lock = req[k].lock
      BY <3>1 DEF Records, W
    <3>3. req' = [req EXCEPT ![k] = new]
      BY <1>2, <2>1 DEF ReadHistory
    <3>4. QED
      BY <1>2, <3>1, <3>2, <3>3, ChangeOne DEF ReadHistory, Moves, At, Holding
  <2>2. CASE Main \notin open
    BY <1>2, <2>2, StepMoves DEF ReadHistory, Step, Holding
  <2>3. QED
    BY <2>1, <2>2
<1>3. CASE AnswerPrompt(k)
  BY <1>3, ReturnMoves DEF AnswerPrompt, At, Holding
<1>4. CASE FailPrompt(k)
  BY <1>4, ReturnMoves DEF FailPrompt, At, Holding
<1>5. CASE CompactedPrompt(k)
  BY <1>5, ReturnMoves DEF CompactedPrompt, At, Holding
<1>6. CASE CompactCommand(k)
  BY <1>6, ReturnMoves DEF CompactCommand, At, Holding
<1>7. CASE RewindCommand(k)
  <2>1. PICK s : req' = [req EXCEPT ![k] = [req[k] EXCEPT !.pc = "rewinding",
                                                          !.result = s]]
    BY <1>7 DEF RewindCommand
  <2>2. PICK V : {"rewinding", s} \subseteq V /\ req \in [Requests -> Records(V)]
    BY ShapeWith
  <2> DEFINE new == [req[k] EXCEPT !.pc = "rewinding", !.result = s]
  <2>3. new \in Records(V) /\ new.pc = "rewinding" /\ new.lock = req[k].lock
    BY <2>2 DEF Records
  <2>4. QED
    BY <1>7, <2>1, <2>2, <2>3, ChangeOne DEF RewindCommand, Moves, At, Holding
<1>8. CASE RewindClearsCache(k)
  BY <1>8, StepMoves DEF RewindClearsCache, Holding
<1>9. CASE RewindReturns(k)
  BY <1>9, ReturnMoves DEF RewindReturns, At, Holding
<1>10. CASE DropCommand(k)
  BY <1>10, ReturnMoves DEF DropCommand, Holding
<1>11. CASE Persist(k)
  <2>1. PICK p \in {"respond", "deleted", "publish"} :
           req' = [req EXCEPT ![k].pc = p]
    BY <1>11 DEF Persist
  <2>2. At(k, "persist") /\ UNCHANGED <<lockOf, locks>>
    BY <1>11 DEF Persist
  <2>3. QED
    BY <2>1, <2>2, StepMoves DEF Step, Holding, At
<1>12. CASE PersistClearsCache(k)
  BY <1>12, StepMoves DEF PersistClearsCache, Holding
<1>13. CASE PersistCompacted(k)
  BY <1>13, StepMoves DEF PersistCompacted, Holding
<1>14. CASE Publish(k)
  BY <1>14, StepMoves DEF Publish, Holding
<1>15. CASE AppendHistory(k)
  BY <1>15, StepMoves DEF AppendHistory, Holding
<1>16. QED
  BY <1>1, <1>2, <1>3, <1>4, <1>5, <1>6, <1>7, <1>8, <1>9, <1>10, <1>11,
     <1>12, <1>13, <1>14, <1>15 DEF Inside

\* A request that arrives is given the lock of the table, a new one only if
\* there is none; then nobody refers to another.
LEMMA ArrivePreserves ==
    ASSUME LockInv, NEW k \in Requests, Arrive(k)
    PROVE  LockInv'
<1>1. /\ req'[k].pc = "waiting" /\ req'[k].lock = lockOf'
      /\ Keeps(Requests \ {k}) /\ Shape' /\ At(k, "idle")
  <2>1. PICK kind : req' = [req EXCEPT ![k] = [req[k] EXCEPT !.pc = "waiting",
                                               !.kind = kind, !.lock = lockOf']]
    BY DEF Arrive
  <2>2. PICK V : /\ {"waiting", kind, lockOf'} \subseteq V
                 /\ req \in [Requests -> Records(V)]
    BY ShapeWith DEF LockInv
  <2> DEFINE new == [req[k] EXCEPT !.pc = "waiting", !.kind = kind,
                                   !.lock = lockOf']
  <2>3. new \in Records(V) /\ new.pc = "waiting" /\ new.lock = lockOf'
    BY <2>2 DEF Records
  <2>4. QED
    BY <2>1, <2>2, <2>3, ChangeOne DEF Arrive
<1>2. LockTypes' /\ lockOf' # 0 /\ (lockOf # 0 => lockOf' = lockOf)
  BY DEF LockInv, Arrive, LockTypes
<1>3. CurrentLock'
  BY <1>1, <1>2 DEF LockInv, CurrentLock, Queued, Keeps
<1>4. OneAtATime'
  BY <1>1 DEF LockInv, OneAtATime, Keeps, Holding
<1>5. QED
  BY <1>1, <1>2, <1>3, <1>4 DEF LockInv

\* Nobody holds the lock that is taken, and there is no other.
LEMMA AcquirePreserves ==
    ASSUME LockInv, NEW k \in Requests, Acquire(k)
    PROVE  LockInv'
<1>1. /\ req[k].pc = "waiting"
      /\ req'[k].pc \in {"register", "append"} /\ req'[k].lock = req[k].lock
      /\ Keeps(Requests \ {k}) /\ Shape' /\ UNCHANGED <<lockOf, locks>>
  <2>1. PICK to \in {"register", "append"} : req' = [req EXCEPT ![k].pc = to]
    BY DEF Acquire, Step
  <2>2. PICK V : {to} \subseteq V /\ req \in [Requests -> Records(V)]
    BY ShapeWith DEF LockInv
  <2>3. req' \in [Requests -> Records(V)]
    BY <2>1, <2>2 DEF Records
  <2>4. /\ Keeps(Requests \ {k})
        /\ req'[k].pc = to /\ req'[k].lock = req[k].lock
    BY <2>1, <2>2 DEF Records, Keeps
  <2>5. QED
    BY <2>3, <2>4 DEF Acquire, Step, At, Shape, server
<1>2. \A j \in Requests : req[j].pc \notin Holding
  BY <1>1 DEF LockInv, CurrentLock, Queued, Acquire
<1>3. CurrentLock'
  BY <1>1 DEF LockInv, CurrentLock, Queued, Keeps, Holding
<1>4. OneAtATime'
  BY <1>1, <1>2 DEF LockInv, OneAtATime, Keeps
<1>5. QED
  BY <1>1, <1>3, <1>4 DEF LockInv, LockTypes

\* The guard and the reference to the lock go together.
LEMMA RespondPreserves ==
    ASSUME LockInv, NEW k \in Requests, Respond(k)
    PROVE  LockInv'
<1>1. /\ req'[k].pc = "releasing"
      /\ Keeps(Requests \ {k}) /\ Shape' /\ UNCHANGED <<lockOf, locks>>
  <2> DEFINE new == [Idle EXCEPT !.pc = "releasing"]
  <2>1. PICK V : /\ {new.pc, new.kind, new.lock, new.base, new.epoch, new.result,
                      new.ok, new.confirmed, new.cancelled} \subseteq V
                 /\ req \in [Requests -> Records(V)]
    BY ShapeWith DEF LockInv
  <2>2. new \in Records(V) /\ new.pc = "releasing"
    BY <2>1 DEF Records, Idle
  <2>3. QED
    BY <2>1, <2>2, ChangeOne DEF Respond, server
<1>2. CurrentLock'
  BY <1>1 DEF LockInv, CurrentLock, Queued, Keeps, Holding
<1>3. OneAtATime'
  BY <1>1 DEF LockInv, OneAtATime, Keeps, Holding
<1>4. QED
  BY <1>1, <1>2, <1>3 DEF LockInv, LockTypes

\* Only a lock nobody refers to is forgotten.
LEMMA ReleasePreserves ==
    ASSUME LockInv, ReleaseLock, Shape', UNCHANGED locks,
           \A j \in Requests : /\ req'[j].lock = req[j].lock
                               /\ req'[j].pc = req[j].pc
                                  \/ (req[j].pc = "releasing" /\ req'[j].pc = "done")
    PROVE  LockInv'
<1>1. \A j \in Requests : Queued(j)' => Queued(j)
  BY DEF Queued, Holding
<1>2. CASE lockOf' = lockOf
  <2>1. CurrentLock'
    BY <1>1, <1>2 DEF LockInv, CurrentLock
  <2>2. QED
    BY <1>2, <2>1 DEF LockInv, LockTypes, OneAtATime, Holding
<1>3. CASE lockOf' # lockOf
  <2>1. lockOf' = 0 /\ \A j \in Requests : req[j].lock # lockOf
    BY <1>3 DEF ReleaseLock, LockUnused
  <2>2. \A j \in Requests : ~Queued(j)
    BY <2>1 DEF LockInv, CurrentLock
  <2>3. QED
    BY <1>1, <2>1, <2>2 DEF LockInv, LockTypes, CurrentLock, OneAtATime, Queued
<1>4. QED
  BY <1>2, <1>3

LEMMA CancelKeeps ==
    ASSUME Shape, CancelToken
    PROVE  Shape' /\ Keeps(Requests)
<1>1. CASE UNCHANGED req
  BY <1>1 DEF Shape, Keeps
<1>2. CASE token \in Requests /\ req' = [req EXCEPT ![token].cancelled = TRUE]
  <2>1. PICK V : {TRUE} \subseteq V /\ req \in [Requests -> Records(V)]
    BY ShapeWith
  <2>2. req' \in [Requests -> Records(V)]
    BY <1>2, <2>1 DEF Records
  <2>3. Keeps(Requests)
    BY <1>2, <2>1 DEF Records, Keeps
  <2>4. QED
    BY <2>2, <2>3 DEF Shape
<1>3. CASE token \notin Requests /\ req' = [req EXCEPT ![token].cancelled = TRUE]
  BY <1>3 DEF Shape, Keeps
<1>4. QED
  BY <1>1, <1>2, <1>3 DEF CancelToken

\* Steps that touch neither the locks nor the progress of a request.
LEMMA KeepsPreserves ==
    ASSUME LockInv, Shape', Keeps(Requests), UNCHANGED <<lockOf, locks>>
    PROVE  LockInv'
  BY DEF LockInv, LockTypes, CurrentLock, Queued, OneAtATime, Keeps

LEMMA InitLocks == Init => LockInv
<1> SUFFICES ASSUME Init PROVE LockInv
  OBVIOUS
<1>1. Shape
  <2>1. Idle \in Records({"idle", "none", 0, <<>>, FALSE, {}})
    BY DEF Idle, Records
  <2>2. QED
    BY <2>1 DEF Init, Shape
<1>2. \A k \in Requests : req[k].pc = "idle"
  BY DEF Init, Idle
<1>3. QED
  BY <1>1, <1>2 DEF Init, LockInv, LockTypes, CurrentLock, Queued, OneAtATime,
     Holding

LEMMA NextLocks == LockInv /\ [Next]_vars => LockInv'
<1> SUFFICES ASSUME LockInv, [Next]_vars PROVE LockInv'
  OBVIOUS
<1> USE DEF server
<1>1. ASSUME NEW k \in Requests, Arrive(k) PROVE LockInv'
  BY <1>1, ArrivePreserves
<1>2. ASSUME NEW k \in Requests, Acquire(k) PROVE LockInv'
  BY <1>2, AcquirePreserves
<1>3. ASSUME NEW k \in Requests, Inside(k) PROVE LockInv'
  BY <1>3, InsideMoves, MovesPreserves
<1>4. ASSUME NEW k \in Requests, Respond(k) PROVE LockInv'
  BY <1>4, RespondPreserves
<1>5. ASSUME NEW k \in Requests, Release(k) PROVE LockInv'
  <2>1. Shape'
    <3>1. PICK V : {"done"} \subseteq V /\ req \in [Requests -> Records(V)]
      BY ShapeWith DEF LockInv
    <3>2. req' \in [Requests -> Records(V)]
      BY <1>5, <3>1 DEF Release, Step, Records
    <3>3. QED
      BY <3>2 DEF Shape
  <2>2. \A j \in Requests : /\ req'[j].lock = req[j].lock
                            /\ req'[j].pc = req[j].pc
                               \/ (req[j].pc = "releasing" /\ req'[j].pc = "done")
    BY <1>5 DEF Release, Step, At, LockInv, Shape
  <2>3. QED
    BY <1>5, <2>1, <2>2, ReleasePreserves DEF Release
<1>6. CASE CloseReleases
  <2>1. Shape' /\ UNCHANGED <<req, locks>> /\ ReleaseLock
    BY <1>6 DEF CloseReleases, LockInv, Shape
  <2>2. QED
    BY <2>1, ReleasePreserves
<1>7. CASE Cancel \/ Close
  <2>1. CancelToken /\ UNCHANGED <<lockOf, locks>>
    BY <1>7 DEF Cancel, Close
  <2>2. QED
    BY <2>1, CancelKeeps, KeepsPreserves DEF LockInv
<1>8. CASE Crash
  <2>1. Shape' /\ (\A k \in Requests : req'[k].pc \in {"idle", "done"})
    <3>1. Idle \in Records({"idle", "done", "none", 0, <<>>, FALSE, {}})
      BY DEF Idle, Records
    <3>2. [Idle EXCEPT !.pc = "done"]
            \in Records({"idle", "done", "none", 0, <<>>, FALSE, {}})
      BY DEF Idle, Records
    <3>3. req' \in [Requests -> Records({"idle", "done", "none", 0, <<>>, FALSE, {}})]
      BY <1>8, <3>1, <3>2 DEF Crash
    <3>4. QED
      BY <1>8, <3>3 DEF Crash, Idle, Shape
  <2>2. LockTypes'
    BY <1>8 DEF Crash, LockInv, LockTypes
  <2>3. QED
    BY <2>1, <2>2 DEF LockInv, CurrentLock, Queued, OneAtATime, Holding
<1>9. CASE (\E t \in Threads : Load(t)) \/ LoadReadsRows \/ LoadFinishes
           \/ Resume \/ Fork \/ UNCHANGED vars
  <2>1. UNCHANGED <<req, lockOf, locks>>
    BY <1>9 DEF Load, LoadReadsRows, LoadFinishes, Resume, Fork, vars
  <2>2. QED
    BY <2>1, KeepsPreserves DEF LockInv, Shape, Keeps
<1>10. QED
  BY <1>1, <1>2, <1>3, <1>4, <1>5, <1>6, <1>7, <1>8, <1>9
     DEF Next, Work, Inside

\* Requests to a session never run at the same time, whatever is closed,
\* opened, cancelled or lost meanwhile (prompt_locks.rs:8).
THEOREM Serialised == Spec => []OneAtATime
<1>1. LockInv => OneAtATime
  BY DEF LockInv
<1>2. QED
  BY <1>1, InitLocks, NextLocks, PTL DEF Spec
-----------------------------------------------------------------------------
\* The place of i among the numbers in I.
Rank(I, i) == Cardinality({j \in I : j < i})

LEMMA Ranks ==
  ASSUME NEW m \in Nat, NEW I \in SUBSET (1..m)
  PROVE  /\ Cardinality(I) \in Nat
         /\ \A i \in I : Rank(I, i) \in 0..(Cardinality(I) - 1)
         /\ \A i, j \in I : i < j => Rank(I, i) < Rank(I, j)
         /\ \A n \in 1..Cardinality(I) : \E i \in I : Rank(I, i) = n - 1
<1>1. IsFiniteSet(1..m)
  BY FS_Interval
<1>2. IsFiniteSet(I) /\ Cardinality(I) \in Nat
  BY <1>1, FS_Subset, FS_CardinalityType
<1> DEFINE Below(i) == {j \in I : j < i}
<1>3. \A i \in I : IsFiniteSet(Below(i)) /\ Cardinality(Below(i)) \in Nat
  <2>1. TAKE i \in I
  <2>2. Below(i) \in SUBSET I
    OBVIOUS
  <2>3. QED
    BY <1>2, <2>2, FS_Subset, FS_CardinalityType
<1>4. ASSUME NEW i \in I
      PROVE  Cardinality(Below(i)) \in 0..(Cardinality(I) - 1)
  <2>1. Below(i) \in SUBSET I /\ Below(i) # I
    OBVIOUS
  <2>2. Cardinality(Below(i)) <= Cardinality(I)
    BY <1>2, <2>1, FS_Subset
  <2>3. Cardinality(Below(i)) # Cardinality(I)
    BY <1>2, <2>1, FS_Subset
  <2> HIDE DEF Below
  <2>4. QED
    BY <1>2, <1>3, <2>2, <2>3
<1>5. ASSUME NEW i \in I, NEW j \in I, i < j
      PROVE  Cardinality(Below(i)) < Cardinality(Below(j))
  <2>1. Below(i) \in SUBSET Below(j) /\ Below(i) # Below(j)
    <3>1. i \in Below(j) /\ i \notin Below(i)
      BY <1>5
    <3>2. ASSUME NEW x \in Below(i) PROVE x \in Below(j)
      BY <1>5
    <3>3. QED
      BY <3>1, <3>2
  <2>2. Cardinality(Below(i)) <= Cardinality(Below(j))
    BY <1>3, <2>1, FS_Subset
  <2>3. Cardinality(Below(i)) # Cardinality(Below(j))
    BY <1>3, <2>1, FS_Subset
  <2> HIDE DEF Below
  <2>4. QED
    BY <1>3, <2>2, <2>3
<1>6. \A n \in 1..Cardinality(I) : \E i \in I : Cardinality(Below(i)) = n - 1
  <2> DEFINE f == [i \in I |-> Cardinality(Below(i))]
             T == 0..(Cardinality(I) - 1)
  <2>1. f \in Injection(I, T)
    <3>1. f \in [I -> T]
      BY <1>4
    <3>2. ASSUME NEW i \in I, NEW j \in I, f[i] = f[j] PROVE i = j
      <4>1. Cardinality(Below(i)) = Cardinality(Below(j))
        BY <3>2
      <4>2. ~ (i < j) /\ ~ (j < i)
        <5> HIDE DEF Below, f
        <5>1. QED
          BY <1>3, <1>5, <4>1
      <4>3. QED
        BY <4>2
    <3> HIDE DEF f, T
    <3>3. QED
      BY <3>1, <3>2 DEF Injection, IsInjective
  <2>2. IsFiniteSet(T) /\ Cardinality(T) = Cardinality(I)
    <3>1. Cardinality(I) - 1 \in Int
      BY <1>2
    <3>2. QED
      BY <1>2, <3>1, FS_Interval
  <2>3. f \in Surjection(I, T)
    <3> HIDE DEF f, T
    <3>1. QED
      BY <1>2, <2>1, <2>2, FS_Injection
  <2>4. ASSUME NEW n \in 1..Cardinality(I)
        PROVE  \E i \in I : f[i] = n - 1
    <3>1. n - 1 \in T
      BY <1>2
    <3>2. QED
      BY <2>3, <3>1 DEF Surjection
  <2>5. QED
    BY <2>4
<1>7. QED
  BY <1>2, <1>4, <1>5, <1>6 DEF Rank

\* What is picked, and that the order is kept.
LEMMA PickedIs ==
  ASSUME NEW s \in Seq(Nat), NEW I \in SUBSET (1..Len(s))
  PROVE  /\ Picked(s, I) \in Seq(Nat)
         /\ Len(Picked(s, I)) = Cardinality(I)
         /\ \E g \in [1..Cardinality(I) -> I] :
              /\ \A n \in 1..Cardinality(I) :
                   Picked(s, I)[n] = s[g[n]] /\ Rank(I, g[n]) = n - 1
              /\ \A m, n \in 1..Cardinality(I) : g[m] = g[n] => m = n
<1>1. /\ Cardinality(I) \in Nat
      /\ \A n \in 1..Cardinality(I) : \E i \in I : Rank(I, i) = n - 1
  <2>1. Len(s) \in Nat
    OBVIOUS
  <2> HIDE DEF Rank
  <2>2. QED
    BY <2>1, Ranks
<1> DEFINE g == [n \in 1..Cardinality(I) |-> CHOOSE i \in I : Rank(I, i) = n - 1]
<1>2. \A n \in 1..Cardinality(I) : g[n] \in I /\ Rank(I, g[n]) = n - 1
  <2>1. TAKE n \in 1..Cardinality(I)
  <2>2. \E i \in I : Rank(I, i) = n - 1
    BY <1>1
  <2>3. QED
    BY <2>2
<1>3. Picked(s, I) = [n \in 1..Cardinality(I) |-> s[g[n]]]
  BY DEF Picked, Rank
<1>4. g \in [1..Cardinality(I) -> I]
  BY <1>2
<1>5. \A m, n \in 1..Cardinality(I) : g[m] = g[n] => m = n
  <2> HIDE DEF g
  <2>1. QED
    BY <1>1, <1>2
<1> HIDE DEF g
<1>6. \A n \in 1..Cardinality(I) : s[g[n]] \in Nat
  <2>1. \A i \in I : s[i] \in Nat
    BY ElementOfSeq
  <2>2. QED
    BY <1>2, <2>1
<1>7. Picked(s, I) \in Seq(Nat) /\ Len(Picked(s, I)) = Cardinality(I)
  <2> DEFINE c == Cardinality(I)
  <2>1. c \in Nat /\ Picked(s, I) = [n \in 1..c |-> s[g[n]]]
    BY <1>1, <1>3
  <2>2. \A n \in 1..c : s[g[n]] \in Nat
    BY <1>6
  <2> HIDE DEF c
  <2>3. Picked(s, I) \in Seq(Nat) /\ Len(Picked(s, I)) = c
    BY <2>1, <2>2
  <2>4. QED
    BY <2>3 DEF c
<1>8. \A n \in 1..Cardinality(I) : Picked(s, I)[n] = s[g[n]]
  BY <1>3
<1>9. QED
  BY <1>2, <1>4, <1>5, <1>7, <1>8

LEMMA PickedNone ==
  ASSUME NEW s \in Seq(Nat)
  PROVE  Picked(s, {}) = <<>>
<1>1. {} \in SUBSET (1..Len(s))
  OBVIOUS
<1>2. Picked(s, {}) \in Seq(Nat) /\ Len(Picked(s, {})) = Cardinality({})
  BY <1>1, PickedIs
<1>3. QED
  BY <1>2, FS_EmptySet

LEMMA PickedAll ==
  ASSUME NEW s \in Seq(Nat)
  PROVE  Picked(s, 1..Len(s)) = s
<1> DEFINE I == 1..Len(s)
<1>1. Cardinality(I) = Len(s)
  <2> DEFINE m == Len(s)
  <2>1. m \in Nat /\ I = 1..m
    OBVIOUS
  <2> HIDE DEF m, I
  <2>2. Cardinality(I) = m
    BY <2>1, FS_Interval
  <2>3. QED
    BY <2>2 DEF m
<1>2. \A i \in I : Rank(I, i) = i - 1
  <2>1. TAKE i \in I
  <2>2. {j \in I : j < i} = 1..(i - 1)
    OBVIOUS
  <2>3. Cardinality(1..(i - 1)) = i - 1
    BY FS_Interval
  <2>4. QED
    BY <2>2, <2>3 DEF Rank
<1>3. I \in SUBSET (1..Len(s))
  OBVIOUS
<1>4. PICK g \in [1..Cardinality(I) -> I] :
         \A n \in 1..Cardinality(I) :
           Picked(s, I)[n] = s[g[n]] /\ Rank(I, g[n]) = n - 1
  BY <1>3, PickedIs
<1>5. Picked(s, I) \in Seq(Nat) /\ Len(Picked(s, I)) = Len(s)
  BY <1>1, <1>3, PickedIs
<1>6. \A n \in 1..Len(s) : Picked(s, I)[n] = s[n]
  <2>1. TAKE n \in 1..Len(s)
  <2>2. g[n] \in I /\ Rank(I, g[n]) = n - 1 /\ Picked(s, I)[n] = s[g[n]]
    BY <1>1, <1>4
  <2>3. g[n] = n
    BY <1>2, <2>2
  <2>4. QED
    BY <2>2, <2>3
<1> HIDE DEF I
<1>7. Picked(s, I) = s
  BY <1>5, <1>6, SeqEqual
<1>8. QED
  BY <1>7 DEF I

Distinct(s) == \A i, j \in 1..Len(s) : s[i] = s[j] => i = j
PrefixOf(p, s) == Len(p) <= Len(s) /\ \A i \in 1..Len(p) : p[i] = s[i]

\* The cache is what the rows begin with, or from before all of them.
Aligned(r, c) == PrefixOf(c, r) \/ Ids(c) \cap Ids(r) = {}

\* The context of a thread with the rows r and the cache c.
Context(r, c) == IF c = NoCache THEN r ELSE c \o AfterCursor(r, c)

LEMMA ConcatIds ==
  ASSUME NEW s \in Seq(Nat), NEW e \in Seq(Nat)
  PROVE  /\ s \o e \in Seq(Nat)
         /\ Ids(s \o e) = Ids(s) \cup Ids(e)
<1>1. /\ s \o e \in Seq(Nat) /\ Len(s \o e) = Len(s) + Len(e)
      /\ \A i \in 1..Len(s) : (s \o e)[i] = s[i]
      /\ \A i \in 1..Len(e) : (s \o e)[Len(s) + i] = e[i]
      /\ \A i \in 1..Len(s) + Len(e) : i > Len(s) => (s \o e)[i] = e[i - Len(s)]
  OBVIOUS
<1> DEFINE u == s \o e
<1>2. u \in Seq(Nat) /\ Len(u) = Len(s) + Len(e)
      /\ (\A i \in 1..Len(s) : u[i] = s[i])
      /\ (\A i \in 1..Len(e) : u[Len(s) + i] = e[i])
      /\ (\A i \in 1..Len(u) : i > Len(s) => u[i] = e[i - Len(s)])
  BY <1>1
<1> HIDE DEF u
<1>3. ASSUME NEW x \in Ids(u) PROVE x \in Ids(s) \cup Ids(e)
  <2>1. PICK i \in 1..Len(u) : x = u[i]
    BY DEF Ids
  <2>2. CASE i <= Len(s)
    BY <1>2, <2>1, <2>2 DEF Ids
  <2>3. CASE i > Len(s)
    <3>1. i - Len(s) \in 1..Len(e) /\ x = e[i - Len(s)]
      BY <1>2, <2>1, <2>3
    <3>2. QED
      BY <3>1 DEF Ids
  <2>4. QED
    BY <1>2, <2>2, <2>3
<1>4. ASSUME NEW x \in Ids(s) PROVE x \in Ids(u)
  <2>1. PICK i \in 1..Len(s) : x = s[i]
    BY DEF Ids
  <2>2. i \in 1..Len(u) /\ x = u[i]
    BY <1>2, <2>1
  <2>3. QED
    BY <2>2 DEF Ids
<1>5. ASSUME NEW x \in Ids(e) PROVE x \in Ids(u)
  <2>1. PICK i \in 1..Len(e) : x = e[i]
    BY DEF Ids
  <2>2. Len(s) + i \in 1..Len(u) /\ x = u[Len(s) + i]
    BY <1>2, <2>1
  <2>3. QED
    BY <2>2 DEF Ids
<1>6. Ids(u) = Ids(s) \cup Ids(e)
  BY <1>3, <1>4, <1>5
<1>7. QED
  BY <1>2, <1>6 DEF u

LEMMA ConcatDistinct ==
  ASSUME NEW s \in Seq(Nat), NEW e \in Seq(Nat), Distinct(s), Distinct(e),
         Ids(s) \cap Ids(e) = {}
  PROVE  Distinct(s \o e)
<1> DEFINE u == s \o e
<1>1. /\ Len(u) = Len(s) + Len(e) /\ Len(s) \in Nat /\ Len(e) \in Nat
      /\ \A i \in 1..Len(u) : IF i <= Len(s) THEN u[i] = s[i]
                              ELSE u[i] = e[i - Len(s)]
  OBVIOUS
<1> HIDE DEF u
<1>2. ASSUME NEW i \in 1..Len(u), NEW j \in 1..Len(u), u[i] = u[j], i < j
      PROVE  FALSE
  <2>1. CASE j <= Len(s)
    <3>1. i \in 1..Len(s) /\ j \in 1..Len(s) /\ s[i] = s[j]
      BY <1>1, <1>2, <2>1
    <3>2. QED
      BY <1>2, <3>1 DEF Distinct
  <2>2. CASE i > Len(s)
    <3>1. /\ i - Len(s) \in 1..Len(e) /\ j - Len(s) \in 1..Len(e)
          /\ e[i - Len(s)] = e[j - Len(s)]
      BY <1>1, <1>2, <2>2
    <3>2. i - Len(s) = j - Len(s)
      BY <3>1 DEF Distinct
    <3>3. QED
      BY <1>1, <1>2, <3>2
  <2>3. CASE i <= Len(s) /\ j > Len(s)
    <3>1. /\ i \in 1..Len(s) /\ j - Len(s) \in 1..Len(e)
          /\ s[i] = e[j - Len(s)]
      BY <1>1, <1>2, <2>3
    <3>2. s[i] \in Ids(s) /\ s[i] \in Ids(e)
      BY <3>1 DEF Ids
    <3>3. QED
      BY <3>2
  <2>4. QED
    BY <1>1, <2>1, <2>2, <2>3
<1>3. \A i, j \in 1..Len(u) : u[i] = u[j] => i = j
  <2>1. \A i, j \in 1..Len(u) : u[i] = u[j] => ~ (i < j) /\ ~ (j < i)
    BY <1>2
  <2>2. QED
    BY <1>1, <2>1
<1>4. QED
  BY <1>3 DEF Distinct, u

LEMMA AfterCursorType ==
  ASSUME NEW r \in Seq(Nat), NEW c \in Seq(Nat)
  PROVE  AfterCursor(r, c) \in Seq(Nat) /\ Ids(AfterCursor(r, c)) \subseteq Ids(r)
<1>1. CASE \E i \in 1..Len(r) : r[i] = Last(c)
  <2>1. PICK i \in 1..Len(r) : AfterCursor(r, c) = SubSeq(r, 1 + i, Len(r))
    BY <1>1 DEF AfterCursor
  <2> DEFINE a == SubSeq(r, 1 + i, Len(r))
  <2>2. /\ a \in Seq(Nat) /\ Len(a) = Len(r) - i
        /\ \A n \in 1..Len(a) : a[n] = r[i + n]
    <3> DEFINE m == 1 + i
               z == Len(r)
    <3>1. m \in Int /\ z \in Int /\ m <= z + 1 /\ z \in Nat
      OBVIOUS
    <3>2. \A j \in m..z : r[j] \in Nat
      BY ElementOfSeq
    <3>3. /\ a = SubSeq(r, m, z) /\ z - i = z - m + 1
          /\ \A n \in Int : m + n - 1 = i + n
      OBVIOUS
    <3> HIDE DEF a, m, z
    <3>4. /\ SubSeq(r, m, z) \in Seq(Nat)
          /\ Len(SubSeq(r, m, z)) = IF m <= z THEN z - m + 1 ELSE 0
          /\ \A n \in 1..z - m + 1 : SubSeq(r, m, z)[n] = r[m + n - 1]
      BY <3>1, <3>2, SubSeqProperties
    <3>5. Len(a) = z - m + 1
      BY <3>1, <3>3, <3>4
    <3>6. ASSUME NEW n \in 1..Len(a) PROVE a[n] = r[i + n]
      <4>1. n \in 1..z - m + 1 /\ n \in Int
        BY <3>5
      <4>2. a[n] = r[m + n - 1] /\ m + n - 1 = i + n
        BY <3>3, <3>4, <4>1
      <4>3. QED
        BY <4>2
    <3>7. a \in Seq(Nat) /\ Len(a) = z - i
      BY <3>3, <3>4, <3>5
    <3>8. QED
      BY <3>6, <3>7 DEF z
  <2> HIDE DEF a
  <2>3. Ids(a) \subseteq Ids(r)
    <3>1. ASSUME NEW x \in Ids(a) PROVE x \in Ids(r)
      <4>1. PICK n \in 1..Len(a) : x = a[n]
        BY DEF Ids
      <4>2. i + n \in 1..Len(r) /\ x = r[i + n]
        BY <2>2, <4>1
      <4>3. QED
        BY <4>2 DEF Ids
    <3>2. QED
      BY <3>1
  <2>4. QED
    BY <2>1, <2>2, <2>3 DEF a
<1>2. CASE ~ \E i \in 1..Len(r) : r[i] = Last(c)
  <2>1. AfterCursor(r, c) = r
    BY <1>2 DEF AfterCursor
  <2>2. QED
    BY <2>1
<1>3. QED
  BY <1>1, <1>2

LEMMA ContextType ==
  ASSUME NEW r \in Seq(Nat), NEW c \in Seq(Nat)
  PROVE  Context(r, c) \in Seq(Nat) /\ Ids(Context(r, c)) \subseteq Ids(r) \cup Ids(c)
<1>1. CASE c = NoCache
  BY <1>1 DEF Context
<1>2. CASE c # NoCache
  <2>1. Context(r, c) = c \o AfterCursor(r, c)
    BY <1>2 DEF Context
  <2>2. QED
    BY <2>1, AfterCursorType, ConcatIds
<1>3. QED
  BY <1>1, <1>2

\* A cache with which the rows begin adds nothing.
LEMMA ContextOfPrefix ==
  ASSUME NEW r \in Seq(Nat), NEW c \in Seq(Nat), Distinct(r), PrefixOf(c, r)
  PROVE  Context(r, c) = r
<1>1. CASE c = NoCache
  BY <1>1 DEF Context
<1>2. CASE c # NoCache
  <2>1. /\ Len(c) \in 1..Len(r) /\ r[Len(c)] = Last(c)
    BY <1>2 DEF PrefixOf, NoCache, Last
  <2>2. (CHOOSE i \in 1..Len(r) : r[i] = Last(c)) = Len(c)
    BY <2>1 DEF Distinct
  <2>3. AfterCursor(r, c) = SubSeq(r, 1 + Len(c), Len(r))
    BY <2>1, <2>2 DEF AfterCursor
  <2>4. c = SubSeq(r, 1, Len(c))
    BY <2>1 DEF PrefixOf
  <2>5. SubSeq(r, 1, Len(c)) \o SubSeq(r, Len(c) + 1, Len(r)) = SubSeq(r, 1, Len(r))
    <3> DEFINE n == Len(c)
    <3>1. n \in (1 - 1)..Len(r) /\ Len(r) \in n..Len(r) /\ 1 \in 1..Len(r) + 1
      BY <2>1
    <3> HIDE DEF n
    <3>2. SubSeq(r, 1, n) \o SubSeq(r, n + 1, Len(r)) = SubSeq(r, 1, Len(r))
      BY <3>1, ConcatAdjacentSubSeq
    <3>3. QED
      BY <3>2 DEF n
  <2>6. c \o AfterCursor(r, c) = r
    <3>1. 1 + Len(c) = Len(c) + 1
      OBVIOUS
    <3>2. SubSeq(r, 1, Len(r)) = r
      BY SubSeqFull
    <3>3. QED
      BY ONLY <3>1, <3>2, <2>3, <2>4, <2>5
  <2>7. QED
    BY <1>2, <2>6 DEF Context
<1>3. QED
  BY <1>1, <1>2

\* A cache from before all rows has the rows behind it.
LEMMA ContextOfOlder ==
  ASSUME NEW r \in Seq(Nat), NEW c \in Seq(Nat), Ids(c) \cap Ids(r) = {}
  PROVE  Context(r, c) = c \o r
<1>1. CASE c = NoCache
  BY <1>1 DEF Context, NoCache
<1>2. CASE c # NoCache
  <2>1. Last(c) \in Ids(c)
    BY <1>2 DEF NoCache, Last, Ids
  <2>2. \A i \in 1..Len(r) : r[i] # Last(c)
    BY <2>1 DEF Ids
  <2>3. QED
    BY <1>2, <2>2 DEF Context, AfterCursor
<1>3. QED
  BY <1>1, <1>2

LEMMA ContextDistinct ==
  ASSUME NEW r \in Seq(Nat), NEW c \in Seq(Nat), Distinct(r), Distinct(c),
         Aligned(r, c)
  PROVE  /\ Distinct(Context(r, c))
         /\ Ids(r) \subseteq Ids(Context(r, c))
<1>1. CASE PrefixOf(c, r)
  BY <1>1, ContextOfPrefix
<1>2. CASE Ids(c) \cap Ids(r) = {}
  <2>1. Context(r, c) = c \o r
    BY <1>2, ContextOfOlder
  <2>2. Distinct(c \o r)
    BY <1>2, ConcatDistinct
  <2>3. Ids(c \o r) = Ids(c) \cup Ids(r)
    BY ConcatIds
  <2>4. QED
    BY <2>1, <2>2, <2>3
<1>3. QED
  BY <1>1, <1>2 DEF Aligned

\* New messages go to the end of the context.
LEMMA ContextGrows ==
  ASSUME NEW r \in Seq(Nat), NEW c \in Seq(Nat), NEW e \in Seq(Nat),
         Distinct(r), Aligned(r, c), Distinct(e),
         Ids(e) \cap (Ids(r) \cup Ids(c)) = {}
  PROVE  /\ Context(r \o e, c) = Context(r, c) \o e
         /\ Aligned(r \o e, c)
         /\ Distinct(r \o e)
<1>1. Distinct(r \o e) /\ r \o e \in Seq(Nat)
  BY ConcatDistinct
<1>2. CASE PrefixOf(c, r)
  <2>1. PrefixOf(c, r \o e)
    BY <1>2 DEF PrefixOf
  <2>2. QED
    BY <1>1, <1>2, <2>1, ContextOfPrefix DEF Aligned
<1>3. CASE Ids(c) \cap Ids(r) = {}
  <2>1. Ids(c) \cap Ids(r \o e) = {}
    BY <1>3, ConcatIds
  <2>2. Context(r \o e, c) = c \o (r \o e) /\ Context(r, c) = c \o r
    BY <1>1, <1>3, <2>1, ContextOfOlder
  <2>3. (c \o r) \o e = c \o (r \o e)
    BY ConcatAssociative
  <2>4. QED
    BY <1>1, <2>1, <2>2, <2>3 DEF Aligned
<1>4. QED
  BY <1>2, <1>3 DEF Aligned

\* A cache that holds the whole context leaves the context as it is.
LEMMA ContextSaved ==
  ASSUME NEW r \in Seq(Nat), Distinct(r)
  PROVE  Context(r, r) = r /\ Aligned(r, r)
<1>1. PrefixOf(r, r)
  BY DEF PrefixOf
<1>2. QED
  BY <1>1, ContextOfPrefix DEF Aligned

\* What a transaction appends if no id is known: all of it.
LEMMA AppendNew ==
  ASSUME NEW rs \in [Threads -> Seq(Nat)], NEW t \in Threads, NEW e \in Seq(Nat),
         Distinct(e), \A u \in Threads : Ids(e) \cap Ids(rs[u]) = {}
  PROVE  AppendMessages(rs, t, e) = [rs EXCEPT ![t] = rs[t] \o e]
<1>1. Taken(rs, e) = 1..Len(e)
  <2>1. ASSUME NEW i \in 1..Len(e) PROVE i \in Taken(rs, e)
    <3>1. e[i] \in Ids(e)
      BY DEF Ids
    <3>2. \A u \in Threads : e[i] \notin Ids(rs[u])
      BY <3>1
    <3>3. \A j \in 1..(i - 1) : e[j] # e[i]
      BY DEF Distinct
    <3>4. QED
      BY <3>2, <3>3 DEF Taken
  <2>2. QED
    BY <2>1 DEF Taken
<1>2. Picked(e, Taken(rs, e)) = e
  BY <1>1, PickedAll
<1>3. QED
  BY <1>2 DEF AppendMessages

LEMMA AppendType ==
  ASSUME NEW rs \in [Threads -> Seq(Nat)], NEW t \in Threads, NEW e \in Seq(Nat)
  PROVE  AppendMessages(rs, t, e) \in [Threads -> Seq(Nat)]
<1>1. Taken(rs, e) \in SUBSET (1..Len(e))
  BY DEF Taken
<1>2. Picked(e, Taken(rs, e)) \in Seq(Nat)
  BY <1>1, PickedIs
<1>3. rs[t] \o Picked(e, Taken(rs, e)) \in Seq(Nat)
  BY <1>2, ConcatIds
<1>4. QED
  BY <1>3 DEF AppendMessages

\* What a deletion leaves of a thread: nothing twice, and nothing new.
LEMMA DeleteType ==
  ASSUME NEW rs \in [Threads -> Seq(Nat)], NEW t \in Threads, NEW ids
  PROVE  /\ DeleteMessages(rs, t, ids) \in [Threads -> Seq(Nat)]
         /\ \A u \in Threads \ {t} : DeleteMessages(rs, t, ids)[u] = rs[u]
         /\ Ids(DeleteMessages(rs, t, ids)[t]) \subseteq Ids(rs[t]) \ ids
         /\ Distinct(rs[t]) => Distinct(DeleteMessages(rs, t, ids)[t])
<1> DEFINE s == rs[t]
           I == {i \in 1..Len(s) : s[i] \notin ids}
           c == Cardinality(I)
           p == Picked(s, I)
<1>1. s \in Seq(Nat) /\ I \in SUBSET (1..Len(s)) /\ \A i \in I : s[i] \notin ids
  OBVIOUS
<1>2. DeleteMessages(rs, t, ids) = [rs EXCEPT ![t] = p]
  BY DEF DeleteMessages
<1> HIDE DEF s, I
<1>3. /\ p \in Seq(Nat) /\ Len(p) = c
      /\ \E g \in [1..c -> I] :
           /\ \A n \in 1..c : p[n] = s[g[n]]
           /\ \A m, n \in 1..c : g[m] = g[n] => m = n
  <2>1. p \in Seq(Nat) /\ Len(p) = c
    BY <1>1, PickedIs
  <2>2. PICK g \in [1..c -> I] :
           /\ \A n \in 1..c : p[n] = s[g[n]] /\ Rank(I, g[n]) = n - 1
           /\ \A m, n \in 1..c : g[m] = g[n] => m = n
    BY <1>1, PickedIs
  <2> HIDE DEF p, c
  <2>3. QED
    BY <2>1, <2>2
<1> HIDE DEF p, c
<1>4. PICK g \in [1..c -> I] : /\ \A n \in 1..c : p[n] = s[g[n]]
                               /\ \A m, n \in 1..c : g[m] = g[n] => m = n
  BY <1>3
<1>5. \A n \in 1..c : g[n] \in I /\ g[n] \in 1..Len(s)
  BY <1>1
<1>6. Ids(p) \subseteq Ids(s) \ ids
  <2>1. ASSUME NEW x \in Ids(p) PROVE x \in Ids(s) \ ids
    <3>1. PICK n \in 1..c : x = p[n]
      BY <1>3 DEF Ids
    <3>2. x = s[g[n]] /\ g[n] \in I /\ g[n] \in 1..Len(s)
      BY <1>4, <1>5, <3>1
    <3>3. QED
      BY <1>1, <3>2 DEF Ids
  <2>2. QED
    BY <2>1
<1>7. ASSUME Distinct(s) PROVE Distinct(p)
  <2>1. \A m, n \in 1..c : s[g[m]] = s[g[n]] => g[m] = g[n]
    BY <1>5, <1>7 DEF Distinct
  <2>2. \A m, n \in 1..c : p[m] = p[n] => m = n
    BY <1>4, <2>1
  <2>3. QED
    BY <1>3, <2>2 DEF Distinct
<1>8. /\ DeleteMessages(rs, t, ids) \in [Threads -> Seq(Nat)]
      /\ DeleteMessages(rs, t, ids)[t] = p
      /\ \A u \in Threads \ {t} : DeleteMessages(rs, t, ids)[u] = rs[u]
  BY <1>2, <1>3
<1>9. QED
  BY <1>6, <1>7, <1>8 DEF s

\* Nothing is left when all rows are named.
LEMMA DeleteAll ==
  ASSUME NEW rs \in [Threads -> Seq(Nat)], NEW t \in Threads, NEW ids,
         Ids(rs[t]) \subseteq ids
  PROVE  DeleteMessages(rs, t, ids)[t] = <<>>
<1>1. {i \in 1..Len(rs[t]) : rs[t][i] \notin ids} = {}
  BY DEF Ids
<1>2. rs[t] \in Seq(Nat)
  OBVIOUS
<1>3. Picked(rs[t], {}) = <<>>
  BY <1>2, PickedNone
<1>4. QED
  BY <1>1, <1>3 DEF DeleteMessages

\* A sequence without repetition has as many elements as places.
LEMMA DistinctCount ==
  ASSUME NEW s \in Seq(Nat), Distinct(s)
  PROVE  Cardinality(Ids(s)) = Len(s)
<1> DEFINE f == [i \in 1..Len(s) |-> s[i]]
<1>1. f \in Bijection(1..Len(s), Ids(s))
  <2>1. f \in [1..Len(s) -> Ids(s)]
    BY DEF Ids
  <2>2. \A i, j \in 1..Len(s) : f[i] = f[j] => i = j
    BY DEF Distinct
  <2>3. \A x \in Ids(s) : \E i \in 1..Len(s) : f[i] = x
    BY DEF Ids
  <2> HIDE DEF f
  <2>4. QED
    BY <2>1, <2>2, <2>3 DEF Bijection, Injection, Surjection, IsInjective
<1>2. Len(s) \in Nat /\ ExistsBijection(1..Len(s), Ids(s))
  BY <1>1 DEF ExistsBijection
<1> HIDE DEF f
<1>3. QED
  BY <1>2, FS_CountingElements
-----------------------------------------------------------------------------
\* Types.

Places == Holding \cup {"idle", "waiting", "releasing", "done"}
Loading == {"rows", "save"}
Writing == {"deleted", "invalidated", "publish"}

Request == [pc : Places, kind : {"none", "prompt", "append_history"}, lock : Nat,
            base : Seq(Nat), epoch : Nat, result : Seq(Nat), ok : BOOLEAN,
            confirmed : SUBSET Nat, cancelled : BOOLEAN]

TypedStore ==
    /\ rows \in [Threads -> Seq(Nat)]
    /\ cache \in [Threads -> Seq(Nat)]
    /\ history \in [Threads -> Seq(Nat)]
    /\ known \subseteq Threads /\ Main \in known
    /\ open \subseteq known

TypedServer ==
    /\ token \in Requests \cup {0}
    /\ lockOf \in Nat /\ locks \in Nat /\ lockOf <= locks
    /\ loop \in [pc : {"ready", "closed"} \cup Loading, thread : Threads,
                 cached : Seq(Nat), context : Seq(Nat)]
    /\ loop.pc \in Loading => loop.thread \in known

TypedRequests ==
    /\ req \in [Requests -> Request]
    /\ made \in Nat /\ closes \in Nat /\ compacts \in Nat /\ crashes \in Nat
    /\ \A k \in Requests :
         req[k].lock <= locks /\ req[k].confirmed \subseteq 1..made

\* A load has the sessions mutex while it reads, a prompt from its first write
\* to the store until the memory follows.
TypedMutex ==
    /\ mutex \in {"free", "prompt", "load"}
    /\ mutex = "load" <=> loop.pc \in Loading
    /\ \A k \in Requests : req[k].pc \in Writing => mutex = "prompt"

Typed == TypedStore /\ TypedServer /\ TypedRequests /\ TypedMutex

Others(k) == \A j \in Requests \ {k} : req'[j] = req[j]

\* What stays of a request that only moves on.
Same(k) ==
    /\ req'[k].lock = req[k].lock /\ req'[k].base = req[k].base
    /\ req'[k].epoch = req[k].epoch /\ req'[k].result = req[k].result
    /\ req'[k].ok = req[k].ok /\ req'[k].confirmed = req[k].confirmed
    /\ req'[k].cancelled = req[k].cancelled

LEMMA NewRecord ==
    ASSUME req \in [Requests -> Request], NEW k \in Requests, NEW r \in Request,
           req' = [req EXCEPT ![k] = r]
    PROVE  req' \in [Requests -> Request] /\ Others(k) /\ req'[k] = r
  BY DEF Others

LEMMA StepIs ==
    ASSUME req \in [Requests -> Request], NEW k \in Requests,
           NEW to \in Places, req' = [req EXCEPT ![k].pc = to]
    PROVE  /\ req' \in [Requests -> Request] /\ Others(k)
           /\ req'[k].pc = to /\ Same(k)
<1> DEFINE r == [req[k] EXCEPT !.pc = to]
<1>1. /\ r \in Request /\ r.pc = to
      /\ r.lock = req[k].lock /\ r.base = req[k].base /\ r.epoch = req[k].epoch
      /\ r.result = req[k].result /\ r.ok = req[k].ok
      /\ r.confirmed = req[k].confirmed /\ r.cancelled = req[k].cancelled
  BY DEF Request
<1>2. req' = [req EXCEPT ![k] = r]
  OBVIOUS
<1> HIDE DEF r
<1>3. QED
  BY <1>1, <1>2, NewRecord DEF Same

LEMMA ReturnIs ==
    ASSUME req \in [Requests -> Request], NEW k \in Requests,
           NEW s \in Seq(Nat), NEW o \in BOOLEAN, NEW c \in SUBSET Nat,
           Return(k, s, o, c)
    PROVE  /\ req' \in [Requests -> Request] /\ Others(k)
           /\ req'[k].pc = "persist" /\ req'[k].result = s /\ req'[k].ok = o
           /\ req'[k].confirmed = c
           /\ req'[k].lock = req[k].lock /\ req'[k].base = req[k].base
           /\ req'[k].epoch = req[k].epoch
           /\ req'[k].cancelled = req[k].cancelled
<1> DEFINE r == [req[k] EXCEPT !.pc = "persist", !.result = s, !.ok = o,
                               !.confirmed = c]
<1>1. /\ r \in Request /\ r.pc = "persist" /\ r.result = s /\ r.ok = o
      /\ r.confirmed = c /\ r.lock = req[k].lock /\ r.base = req[k].base
      /\ r.epoch = req[k].epoch /\ r.cancelled = req[k].cancelled
  BY DEF Request, Places, Holding
<1>2. req' = [req EXCEPT ![k] = r]
  BY DEF Return
<1> HIDE DEF r
<1>3. QED
  BY <1>1, <1>2, NewRecord

\* The ids of new messages.
LEMMA FreshIs ==
    ASSUME made \in Nat, NEW n \in Nat
    PROVE  /\ Fresh(n) \in Seq(Nat) /\ Len(Fresh(n)) = n
           /\ \A i \in 1..n : Fresh(n)[i] = made + i
           /\ Ids(Fresh(n)) \subseteq (made + 1)..(made + n)
           /\ \A i \in 1..n : made + i \in Ids(Fresh(n))
           /\ Distinct(Fresh(n))
<1>1. /\ Fresh(n) \in Seq(Nat) /\ Len(Fresh(n)) = n
      /\ \A i \in 1..n : Fresh(n)[i] = made + i
  BY DEF Fresh
<1>2. QED
  BY <1>1 DEF Ids, Distinct

LEMMA SubSeqType ==
    ASSUME NEW s \in Seq(Nat), NEW a \in Nat \ {0}, NEW b \in Int, b <= Len(s)
    PROVE  /\ SubSeq(s, a, b) \in Seq(Nat)
           /\ Len(SubSeq(s, a, b)) = IF a <= b THEN b - a + 1 ELSE 0
           /\ \A i \in 1..(b - a + 1) : SubSeq(s, a, b)[i] = s[a + i - 1]
<1>1. \A i \in a..b : s[i] \in Nat
  BY ElementOfSeq
<1>2. QED
  BY <1>1, SubSeqProperties

LEMMA StrippedType ==
    ASSUME req \in [Requests -> Request], NEW k \in Requests
    PROVE  Stripped(k) \in Seq(Nat)
<1> DEFINE r == req[k].result
           b == req[k].base
<1>1. r \in Seq(Nat) /\ b \in Seq(Nat)
  BY DEF Request
<1>2. CASE b # <<>> /\ b[1] \in Ids(r)
  <2>1. PICK i \in 1..Len(r) : Stripped(k) = SubSeq(r, i, Len(r))
    <3>1. \E i \in 1..Len(r) : r[i] = b[1]
      BY <1>2 DEF Ids
    <3>2. Stripped(k) = SubSeq(r, CHOOSE i \in 1..Len(r) : r[i] = b[1], Len(r))
      BY <1>2 DEF Stripped
    <3>3. QED
      BY <3>1, <3>2
  <2> HIDE DEF r
  <2>2. i \in Nat \ {0} /\ Len(r) \in Int /\ Len(r) <= Len(r)
    BY <1>1
  <2>3. QED
    BY <1>1, <2>1, <2>2, SubSeqType
<1>3. CASE ~ (b # <<>> /\ b[1] \in Ids(r)) /\ b = <<>> /\ r # <<>> /\ r[1] = 0
  <2>1. Stripped(k) = Tail(r)
    BY <1>3 DEF Stripped
  <2> HIDE DEF r
  <2>2. QED
    BY <1>1, <1>3, <2>1, HeadTailProperties
<1>4. CASE ~ (b # <<>> /\ b[1] \in Ids(r)) /\ ~ (b = <<>> /\ r # <<>> /\ r[1] = 0)
  <2>1. Stripped(k) = r
    BY <1>4 DEF Stripped
  <2>2. QED
    BY <1>1, <2>1
<1>5. QED
  BY <1>2, <1>3, <1>4

LEMMA SuffixType ==
    ASSUME NEW s \in Seq(Nat), NEW n \in Nat
    PROVE  /\ Suffix(s, n) \in Seq(Nat)
           /\ Len(Suffix(s, n)) = IF n <= Len(s) THEN Len(s) - n ELSE 0
           /\ \A i \in 1..(Len(s) - n) : Suffix(s, n)[i] = s[n + i]
<1> DEFINE a == n + 1
           b == Len(s)
<1>1. a \in Nat \ {0} /\ b \in Int /\ b <= Len(s) /\ b \in Nat
  OBVIOUS
<1>2. Suffix(s, n) = SubSeq(s, a, b)
  BY DEF Suffix
<1>3. b - a + 1 = b - n /\ (a <= b => n <= b) /\ (n <= b /\ ~ (a <= b) => b - n = 0)
  OBVIOUS
<1>4. \A i \in 1..(b - n) : a + i - 1 = n + i
  OBVIOUS
<1> HIDE DEF a, b
<1>5. /\ SubSeq(s, a, b) \in Seq(Nat)
      /\ Len(SubSeq(s, a, b)) = IF a <= b THEN b - a + 1 ELSE 0
      /\ \A i \in 1..(b - a + 1) : SubSeq(s, a, b)[i] = s[a + i - 1]
  BY <1>1, SubSeqType
<1>6. \A i \in 1..(b - n) : SubSeq(s, a, b)[i] = s[n + i]
  BY <1>3, <1>4, <1>5
<1>7. Len(SubSeq(s, a, b)) = IF n <= b THEN b - n ELSE 0
  BY <1>3, <1>5, <1>1 DEF a
<1>8. QED
  BY <1>2, <1>5, <1>6, <1>7 DEF b

\* Cut to n messages: itself if it has no more.
LEMMA TruncateType ==
    ASSUME NEW s \in Seq(Nat), NEW n \in Nat
    PROVE  /\ Truncate(s, n) \in Seq(Nat)
           /\ Len(s) = n => Truncate(s, n) = s
<1>1. /\ Min({n, Len(s)}) \in Nat /\ Min({n, Len(s)}) <= Len(s)
      /\ Len(s) = n => Min({n, Len(s)}) = Len(s)
  <2>1. Len(s) \in Nat
    OBVIOUS
  <2> DEFINE l == Len(s)
  <2> HIDE DEF l
  <2>2. l \in Nat
    BY <2>1 DEF l
  <2>3. \E x \in {n, l} : \A y \in {n, l} : x <= y
    BY <2>2
  <2>4. Min({n, l}) \in {n, l} /\ \A y \in {n, l} : Min({n, l}) <= y
    BY <2>3 DEF Min
  <2>5. QED
    BY <2>2, <2>4 DEF l
<1>2. Truncate(s, n) \in Seq(Nat)
  <2> DEFINE b == Min({n, Len(s)})
  <2>1. b \in Int /\ b <= Len(s) /\ 1 \in Nat \ {0}
    BY <1>1
  <2>2. Truncate(s, n) = SubSeq(s, 1, b)
    BY DEF Truncate
  <2> HIDE DEF b
  <2>3. QED
    BY <2>1, <2>2, SubSeqType
<1>3. ASSUME Len(s) = n PROVE Truncate(s, n) = s
  <2>1. Truncate(s, n) = SubSeq(s, 1, Len(s))
    BY <1>1, <1>3 DEF Truncate
  <2>2. QED
    BY <2>1, SubSeqFull
<1>4. QED
  BY <1>2, <1>3

LEMMA LoadContextIs ==
    ASSUME NEW rs \in [Threads -> Seq(Nat)], NEW t \in Threads, NEW c \in Seq(Nat)
    PROVE  /\ LoadContext(rs, c, t) = Context(rs[t], c)
           /\ LoadContext(rs, c, t) \in Seq(Nat)
<1>1. LoadContext(rs, c, t) = Context(rs[t], c)
  BY DEF LoadContext, Context, Stored
<1>2. QED
  BY <1>1, ContextType

LEMMA StoreStep ==
    ASSUME Typed, [Next]_vars
    PROVE  TypedStore'
<1> USE DEF store, memory, bounds, server
<1>0. /\ rows \in [Threads -> Seq(Nat)] /\ cache \in [Threads -> Seq(Nat)]
      /\ history \in [Threads -> Seq(Nat)] /\ known \subseteq Threads
      /\ Main \in known /\ open \subseteq known /\ Main \in Threads
      /\ req \in [Requests -> Request] /\ made \in Nat
      /\ Other \in Threads
  BY SessionAssumption DEF Typed, TypedStore, TypedRequests
<1>r. ASSUME NEW k \in Requests
      PROVE  /\ req[k].result \in Seq(Nat) /\ req[k].base \in Seq(Nat)
             /\ req[k].ok \in BOOLEAN /\ Len(req[k].base) \in Nat
  BY <1>0 DEF Request
<1>e. <<>> \in Seq(Nat)
  OBVIOUS
<1>1. ASSUME NEW k \in Requests, RewindCommand(k) PROVE TypedStore'
  <2>1. PICK ids : rows' = DeleteMessages(rows, Main, ids)
    BY <1>1 DEF RewindCommand
  <2>2. UNCHANGED <<cache, known, open, history>>
    BY <1>1 DEF RewindCommand
  <2>3. QED
    BY <1>0, <2>1, <2>2, DeleteType DEF TypedStore
<1>2. ASSUME NEW k \in Requests, RewindClearsCache(k) \/ PersistClearsCache(k)
      PROVE  TypedStore'
  <2>1. /\ UNCHANGED <<rows, known, open, history>>
        /\ cache' = [cache EXCEPT ![Main] = NoCache]
    BY <1>2 DEF RewindClearsCache, PersistClearsCache
  <2>2. QED
    BY <1>0, <1>e, <2>1 DEF TypedStore, NoCache
<1>3. ASSUME NEW k \in Requests, Persist(k) PROVE TypedStore'
  <2>1. /\ UNCHANGED <<cache, known, open, history>>
        /\ \/ rows' = rows
           \/ \E s \in {Suffix(req[k].result, Len(req[k].base)),
                        Suffix(Stripped(k), Len(req[k].base))} :
                rows' = AppendMessages(rows, Main, s)
           \/ rows' = DeleteMessages(rows, Main, Ids(req[k].base))
    BY <1>3 DEF Persist
  <2>2. /\ Suffix(req[k].result, Len(req[k].base)) \in Seq(Nat)
        /\ Suffix(Stripped(k), Len(req[k].base)) \in Seq(Nat)
    BY <1>0, <1>r, StrippedType, SuffixType
  <2>3. \A s \in Seq(Nat) : AppendMessages(rows, Main, s) \in [Threads -> Seq(Nat)]
    BY <1>0, AppendType
  <2>4. DeleteMessages(rows, Main, Ids(req[k].base)) \in [Threads -> Seq(Nat)]
    <3> DEFINE d == Ids(req[k].base)
    <3> HIDE DEF d
    <3>1. DeleteMessages(rows, Main, d) \in [Threads -> Seq(Nat)]
      BY <1>0, DeleteType
    <3>2. QED
      BY <3>1 DEF d
  <2>5. rows' \in [Threads -> Seq(Nat)]
    BY <1>0, <2>1, <2>2, <2>3, <2>4
  <2>6. QED
    BY <1>0, <2>1, <2>5 DEF TypedStore
<1>4. ASSUME NEW k \in Requests, PersistCompacted(k) PROVE TypedStore'
  <2>1. rows' \in [Threads -> Seq(Nat)]
    BY <1>0, <1>r, <1>4, AppendType DEF PersistCompacted
  <2>2. QED
    BY <1>0, <1>4, <2>1 DEF PersistCompacted, TypedStore
<1>5. ASSUME NEW k \in Requests, Publish(k) PROVE TypedStore'
  <2>1. PICK s \in {req[k].result, Stripped(k),
                    Truncate(history[Main], Len(req[k].base))} :
           history' = [history EXCEPT ![Main] = s]
    <3>1. CASE req[k].ok
      <4>1. history' = [history EXCEPT ![Main] = req[k].result]
        BY <1>5, <3>1 DEF Publish, Progressed
      <4>2. QED
        BY <4>1
    <3>2. CASE ~req[k].ok /\ Progressed(k)
      BY <1>5, <3>2 DEF Publish
    <3>3. CASE ~req[k].ok /\ ~Progressed(k)
      BY <1>5, <3>3 DEF Publish
    <3>4. QED
      BY <3>1, <3>2, <3>3
  <2>2. s \in Seq(Nat)
    <3>1. Stripped(k) \in Seq(Nat)
      BY <1>0, StrippedType
    <3>2. Truncate(history[Main], Len(req[k].base)) \in Seq(Nat)
      <4>1. history[Main] \in Seq(Nat) /\ Len(req[k].base) \in Nat
        BY <1>0, <1>r
      <4>2. QED
        BY <4>1, TruncateType
    <3>3. QED
      BY <1>r, <3>1, <3>2
  <2>3. QED
    BY <1>0, <1>5, <2>1, <2>2 DEF Publish, TypedStore
<1>6. ASSUME NEW k \in Requests, AppendHistory(k) PROVE TypedStore'
  <2>1. CASE Main \in open
    <3>1. Fresh(2) \in Seq(Nat)
      BY <1>0, FreshIs
    <3>2. rows' \in [Threads -> Seq(Nat)]
      <4>1. rows' = AppendMessages(rows, Main, Fresh(2))
        BY <1>6, <2>1 DEF AppendHistory
      <4>2. QED
        BY <1>0, <3>1, <4>1, AppendType
    <3>3. history[Main] \o Fresh(2) \in Seq(Nat)
      BY <1>0, <3>1, ConcatIds
    <3>4. QED
      BY <1>0, <1>6, <2>1, <3>2, <3>3 DEF AppendHistory, TypedStore
  <2>2. CASE Main \notin open
    BY <1>0, <1>6, <2>2 DEF AppendHistory, TypedStore
  <2>3. QED
    BY <2>1, <2>2
<1>7. CASE LoadFinishes
  <2>1. /\ loop.context \in Seq(Nat) /\ loop.thread \in known
    BY <1>7 DEF LoadFinishes, Typed, TypedServer, Loading
  <2>2. cache' \in [Threads -> Seq(Nat)] /\ history' \in [Threads -> Seq(Nat)]
    BY <1>0, <1>7, <2>1 DEF LoadFinishes
  <2>3. QED
    BY <1>0, <1>7, <2>1, <2>2 DEF LoadFinishes, TypedStore
<1>8. CASE Resume
  BY <1>0, <1>8 DEF Resume, TypedStore
<1>9. CASE Fork
  <2>1. rows' \in [Threads -> Seq(Nat)]
    BY <1>0, <1>9, AppendType DEF Fork
  <2>2. QED
    BY <1>0, <1>9, <2>1 DEF Fork, TypedStore
<1>10. CASE Close
  BY <1>0, <1>e, <1>10 DEF Close, TypedStore
<1>11. CASE Crash
  BY <1>0, <1>e, <1>11 DEF Crash, TypedStore
<1>12. ASSUME UNCHANGED <<rows, cache, known, open, history>> PROVE TypedStore'
  BY <1>0, <1>12 DEF TypedStore
<1>13. ASSUME NEW k \in Requests,
              \/ Arrive(k) \/ Acquire(k) \/ Register(k) \/ ReadHistory(k)
              \/ AnswerPrompt(k) \/ FailPrompt(k) \/ CompactedPrompt(k)
              \/ CompactCommand(k) \/ RewindReturns(k) \/ DropCommand(k)
              \/ Respond(k) \/ Release(k)
       PROVE  UNCHANGED <<rows, cache, known, open, history>>
  BY <1>13 DEF Arrive, Acquire, Register, ReadHistory, AnswerPrompt, FailPrompt,
     CompactedPrompt, CompactCommand, RewindReturns, DropCommand, Respond,
     Release
<1>14. ASSUME \/ \E t \in Threads : Load(t)
              \/ LoadReadsRows \/ Cancel \/ CloseReleases \/ UNCHANGED vars
       PROVE  UNCHANGED <<rows, cache, known, open, history>>
  BY <1>14 DEF Load, LoadReadsRows, Cancel, CloseReleases, vars
<1>15. QED
  BY <1>1, <1>2, <1>3, <1>4, <1>5, <1>6, <1>7, <1>8, <1>9, <1>10, <1>11,
     <1>12, <1>13, <1>14 DEF Next, Work

LEMMA ReadyIs ==
    LET C == [Ready EXCEPT !.pc = "closed"]
        L == [pc : {"ready", "closed"} \cup Loading, thread : Threads,
              cached : Seq(Nat), context : Seq(Nat)]
    IN  /\ Ready \in L /\ Ready.pc \notin Loading
        /\ C \in L /\ C.pc \notin Loading
<1>1. Main \in Threads /\ <<>> \in Seq(Nat)
  BY SessionAssumption
<1>2. [Ready EXCEPT !.pc = "closed"]
        = [pc |-> "closed", thread |-> Main, cached |-> <<>>, context |-> <<>>]
  BY DEF Ready, NoCache
<1>3. Ready = [pc |-> "ready", thread |-> Main, cached |-> <<>>, context |-> <<>>]
  BY DEF Ready, NoCache
<1>4. "ready" \notin Loading /\ "closed" \notin Loading
  BY DEF Loading
<1>5. QED
  BY <1>1, <1>2, <1>3, <1>4

LEMMA ServerStep ==
    ASSUME Typed, [Next]_vars
    PROVE  TypedServer'
<1> USE DEF store, memory, bounds, server
<1>0. /\ token \in Requests \cup {0}
      /\ lockOf \in Nat /\ locks \in Nat /\ lockOf <= locks
      /\ loop \in [pc : {"ready", "closed"} \cup Loading, thread : Threads,
                   cached : Seq(Nat), context : Seq(Nat)]
      /\ loop.pc \in Loading => loop.thread \in known
      /\ cache \in [Threads -> Seq(Nat)] /\ rows \in [Threads -> Seq(Nat)]
      /\ Main \in Threads /\ <<>> \in Seq(Nat) /\ known \subseteq Threads
  BY SessionAssumption DEF Typed, TypedStore, TypedServer
<1>1. ASSUME NEW k \in Requests, Arrive(k) PROVE TypedServer'
  <2>1. UNCHANGED <<token, loop, known>>
    BY <1>1 DEF Arrive
  <2>2. \/ lockOf' = locks + 1 /\ locks' = locks + 1
        \/ UNCHANGED <<lockOf, locks>>
    BY <1>1 DEF Arrive
  <2>3. QED
    BY <1>0, <2>1, <2>2 DEF TypedServer
<1>2. ASSUME NEW k \in Requests, Register(k) \/ Publish(k) PROVE TypedServer'
  <2>1. UNCHANGED <<lockOf, locks, loop, known>> /\ token' \in {token, k, 0}
    BY <1>2 DEF Register, Publish
  <2>2. QED
    BY <1>0, <2>1 DEF TypedServer
<1>3. ASSUME ReleaseLock, UNCHANGED <<token, locks, known>>,
             loop' = loop \/ loop' = Ready
      PROVE  TypedServer'
  <2>1. lockOf' \in {lockOf, 0}
    BY <1>3 DEF ReleaseLock
  <2>2. QED
    BY <1>0, <1>3, <2>1, ReadyIs DEF TypedServer
<1>4. ASSUME NEW t \in Threads, Load(t) PROVE TypedServer'
  <2>1. UNCHANGED <<token, lockOf, locks, known>> /\ t \in known
    BY <1>4 DEF Load
  <2>2. loop' = [pc |-> "rows", thread |-> t, cached |-> cache[t], context |-> <<>>]
    BY <1>4 DEF Load, Ready
  <2>3. cache[t] \in Seq(Nat)
    BY <1>0
  <2>4. QED
    BY <1>0, <2>1, <2>2, <2>3 DEF TypedServer, Loading
<1>5. CASE LoadReadsRows
  <2> DEFINE c == LoadContext(rows, loop.cached, loop.thread)
  <2>1. /\ UNCHANGED <<token, lockOf, locks, known>>
        /\ loop' = [loop EXCEPT !.pc = "save", !.context = c]
        /\ loop.thread \in known
    BY <1>0, <1>5 DEF LoadReadsRows, Loading
  <2>2. c \in Seq(Nat)
    <3>1. loop.cached \in Seq(Nat) /\ loop.thread \in Threads
      BY <1>0
    <3>2. QED
      BY <1>0, <3>1, LoadContextIs
  <2> HIDE DEF c
  <2>3. QED
    BY <1>0, <2>1, <2>2 DEF TypedServer, Loading
<1>6. ASSUME loop' = Ready \/ loop' = [Ready EXCEPT !.pc = "closed"],
             UNCHANGED locks, lockOf' \in {lockOf, 0}, token' \in {token, 0}
      PROVE  TypedServer'
  <2>1. /\ loop' \in [pc : {"ready", "closed"} \cup Loading, thread : Threads,
                      cached : Seq(Nat), context : Seq(Nat)]
        /\ loop'.pc \notin Loading
    BY <1>0, <1>6, ReadyIs
  <2>2. QED
    BY <1>0, <1>6, <2>1 DEF TypedServer
<1>7. CASE LoadFinishes \/ Close \/ Crash
  BY <1>6, <1>7 DEF LoadFinishes, Close, Crash
<1>8. ASSUME UNCHANGED <<token, lockOf, locks, loop>>, known \subseteq known'
      PROVE  TypedServer'
  BY <1>0, <1>8 DEF TypedServer
<1>9. ASSUME NEW k \in Requests,
             \/ Acquire(k) \/ ReadHistory(k) \/ AnswerPrompt(k) \/ FailPrompt(k)
             \/ CompactedPrompt(k) \/ CompactCommand(k) \/ RewindCommand(k)
             \/ RewindClearsCache(k) \/ RewindReturns(k) \/ DropCommand(k)
             \/ Persist(k) \/ PersistClearsCache(k) \/ PersistCompacted(k)
             \/ AppendHistory(k) \/ Respond(k)
      PROVE  UNCHANGED <<token, lockOf, locks, loop, known>>
  BY <1>9 DEF Acquire, ReadHistory, AnswerPrompt, FailPrompt,
     CompactedPrompt, CompactCommand, RewindCommand, RewindClearsCache,
     RewindReturns, DropCommand, Persist, PersistClearsCache, PersistCompacted,
     AppendHistory, Respond
<1>10. ASSUME Resume \/ Fork \/ Cancel \/ UNCHANGED vars
       PROVE  UNCHANGED <<token, lockOf, locks, loop>> /\ known \subseteq known'
  BY <1>10 DEF Resume, Fork, Cancel, vars
<1>11. ASSUME NEW k \in Requests, Release(k) PROVE TypedServer'
  BY <1>3, <1>11 DEF Release
<1>12. CASE CloseReleases
  BY <1>3, <1>12 DEF CloseReleases
<1>13. QED
  BY <1>1, <1>2, <1>4, <1>5, <1>7, <1>8, <1>9, <1>10, <1>11, <1>12
     DEF Next, Work

\* One request gets a new record.
LEMMA RequestTyped ==
    ASSUME TypedRequests, NEW k \in Requests,
           req' \in [Requests -> Request], Others(k),
           made' \in Nat, made <= made', locks <= locks',
           locks \in Nat, locks' \in Nat,
           closes' \in Nat, compacts' \in Nat, crashes' \in Nat,
           req'[k].lock <= locks', req'[k].confirmed \subseteq 1..made'
    PROVE  TypedRequests'
<1>1. ASSUME NEW j \in Requests
      PROVE  req'[j].lock <= locks' /\ req'[j].confirmed \subseteq 1..made'
  <2>1. CASE j = k
    BY <2>1
  <2>2. CASE j # k
    <3>1. /\ req'[j] = req[j] /\ req[j].lock <= locks
          /\ req[j].confirmed \subseteq 1..made /\ req[j].lock \in Nat
          /\ made \in Nat
      BY <2>2 DEF Others, TypedRequests, Request
    <3>2. QED
      BY <3>1
  <2>3. QED
    BY <2>1, <2>2
<1>2. QED
  BY <1>1 DEF TypedRequests

\* How the steps that write more than a control point change the requests.
LEMMA ArriveIs ==
    ASSUME Typed, NEW k \in Requests, Arrive(k)
    PROVE  /\ req' \in [Requests -> Request] /\ Others(k)
           /\ req'[k].pc = "waiting" /\ req'[k].lock = lockOf'
           /\ req'[k].confirmed = req[k].confirmed
<1>1. PICK kind \in {"prompt", "append_history"} :
         req' = [req EXCEPT ![k] = [req[k] EXCEPT !.pc = "waiting",
                                    !.kind = kind, !.lock = lockOf']]
  BY DEF Arrive
<1>2. lockOf' \in Nat /\ req \in [Requests -> Request]
  BY DEF Arrive, Typed, TypedServer, TypedRequests
<1> DEFINE r == [req[k] EXCEPT !.pc = "waiting", !.kind = kind, !.lock = lockOf']
<1>3. /\ r \in Request /\ r.pc = "waiting" /\ r.lock = lockOf'
      /\ r.confirmed = req[k].confirmed
  BY <1>2 DEF Request, Places
<1> HIDE DEF r
<1>4. QED
  BY <1>1, <1>2, <1>3, NewRecord DEF r

LEMMA ReadHistoryIs ==
    ASSUME Typed, NEW k \in Requests, ReadHistory(k)
    PROVE  /\ req' \in [Requests -> Request] /\ Others(k)
           /\ req'[k].lock = req[k].lock /\ req'[k].confirmed = req[k].confirmed
           /\ IF Main \in open
              THEN /\ req'[k].pc = "running" /\ req'[k].epoch = closes
                   /\ req'[k].base = history[Main]
              ELSE req'[k].pc = "respond"
<1>1. /\ req \in [Requests -> Request] /\ closes \in Nat
      /\ history[Main] \in Seq(Nat)
  BY SessionAssumption DEF Typed, TypedStore, TypedRequests
<1>2. CASE Main \in open
  <2> DEFINE r == [req[k] EXCEPT !.pc = "running", !.epoch = closes,
                                 !.base = history[Main]]
  <2>1. /\ r \in Request /\ r.pc = "running" /\ r.epoch = closes
        /\ r.base = history[Main] /\ r.lock = req[k].lock
        /\ r.confirmed = req[k].confirmed
    BY <1>1 DEF Request, Places, Holding
  <2>2. req' = [req EXCEPT ![k] = r]
    BY <1>2 DEF ReadHistory
  <2> HIDE DEF r
  <2>3. QED
    BY <1>1, <1>2, <2>1, <2>2, NewRecord
<1>3. CASE Main \notin open
  <2>1. req' = [req EXCEPT ![k].pc = "respond"] /\ "respond" \in Places
    BY <1>3 DEF ReadHistory, Places, Holding
  <2>2. QED
    BY <1>1, <1>3, <2>1, StepIs DEF Same
<1>4. QED
  BY <1>2, <1>3

LEMMA RewindIs ==
    ASSUME Typed, NEW k \in Requests, RewindCommand(k)
    PROVE  /\ req' \in [Requests -> Request] /\ Others(k)
           /\ req'[k].pc = "rewinding"
           /\ req'[k].lock = req[k].lock /\ req'[k].base = req[k].base
           /\ req'[k].epoch = req[k].epoch /\ req'[k].ok = req[k].ok
           /\ req'[k].confirmed = req[k].confirmed
           /\ req'[k].cancelled = req[k].cancelled
           /\ \E i \in 1..Len(req[k].base) :
                /\ req'[k].result = SubSeq(req[k].base, 1, i - 1)
                /\ rows' = DeleteMessages(rows, Main,
                             Ids(SubSeq(req[k].base, i, Len(req[k].base))))
<1>1. req \in [Requests -> Request] /\ req[k].base \in Seq(Nat)
  BY DEF Typed, TypedRequests, Request
<1> DEFINE cut(i) == SubSeq(req[k].base, 1, i - 1)
<1>2. PICK i \in 1..Len(req[k].base) :
         /\ req' = [req EXCEPT ![k] = [req[k] EXCEPT !.pc = "rewinding",
                                                     !.result = cut(i)]]
         /\ rows' = DeleteMessages(rows, Main,
                      Ids(SubSeq(req[k].base, i, Len(req[k].base))))
  BY DEF RewindCommand
<1>3. cut(i) \in Seq(Nat)
  <2>1. 1 \in Nat \ {0} /\ i - 1 \in Int /\ i - 1 <= Len(req[k].base)
    BY <1>1
  <2>2. QED
    BY <1>1, <2>1, SubSeqType
<1> DEFINE r == [req[k] EXCEPT !.pc = "rewinding", !.result = cut(i)]
<1> HIDE DEF cut
<1>4. /\ r \in Request /\ r.pc = "rewinding" /\ r.result = cut(i)
      /\ r.lock = req[k].lock /\ r.base = req[k].base
      /\ r.epoch = req[k].epoch /\ r.ok = req[k].ok
      /\ r.confirmed = req[k].confirmed /\ r.cancelled = req[k].cancelled
  BY <1>1, <1>3 DEF Request, Places, Holding
<1>5. req' = [req EXCEPT ![k] = r]
  BY <1>2
<1> HIDE DEF r
<1>6. req' \in [Requests -> Request] /\ Others(k) /\ req'[k] = r
  BY <1>1, <1>4, <1>5, NewRecord
<1>7. QED
  BY <1>2, <1>4, <1>6 DEF cut

LEMMA IdleIs ==
    LET R == [Idle EXCEPT !.pc = "releasing"]
        D == [Idle EXCEPT !.pc = "done"]
    IN  /\ Idle \in Request /\ Idle.lock = 0 /\ Idle.confirmed = {}
        /\ R \in Request /\ R.lock = 0 /\ R.confirmed = {} /\ R.pc = "releasing"
        /\ D \in Request /\ D.lock = 0 /\ D.confirmed = {} /\ D.pc = "done"
        /\ Idle.pc = "idle"
<1>1. <<>> \in Seq(Nat) /\ {"idle", "releasing", "done"} \subseteq Places
  BY DEF Places
<1>2. ASSUME NEW p \in Places
      PROVE  /\ [Idle EXCEPT !.pc = p] \in Request
             /\ [Idle EXCEPT !.pc = p].lock = 0
             /\ [Idle EXCEPT !.pc = p].confirmed = {}
             /\ [Idle EXCEPT !.pc = p].pc = p
  BY <1>1 DEF Idle, Request
<1>3. [Idle EXCEPT !.pc = "idle"] = Idle /\ Idle.pc = "idle"
  BY DEF Idle
<1>4. QED
  BY <1>1, <1>2, <1>3

LEMMA RespondIs ==
    ASSUME Typed, NEW k \in Requests, Respond(k)
    PROVE  /\ req' \in [Requests -> Request] /\ Others(k)
           /\ req'[k].pc = "releasing" /\ req'[k].lock = 0
           /\ req'[k].confirmed = {}
<1>1. req \in [Requests -> Request]
  BY DEF Typed, TypedRequests
<1> DEFINE r == [Idle EXCEPT !.pc = "releasing"]
<1>2. r \in Request /\ r.lock = 0 /\ r.confirmed = {} /\ r.pc = "releasing"
  BY IdleIs
<1>3. req' = [req EXCEPT ![k] = r]
  BY DEF Respond
<1> HIDE DEF r
<1>4. QED
  BY <1>1, <1>2, <1>3, NewRecord

\* A cancellation changes nothing of a request but its token.
LEMMA CancelIs ==
    ASSUME Typed, CancelToken
    PROVE  /\ req' \in [Requests -> Request]
           /\ \A j \in Requests :
                /\ req'[j].pc = req[j].pc /\ req'[j].lock = req[j].lock
                /\ req'[j].base = req[j].base /\ req'[j].epoch = req[j].epoch
                /\ req'[j].result = req[j].result /\ req'[j].ok = req[j].ok
                /\ req'[j].confirmed = req[j].confirmed
<1>1. req \in [Requests -> Request] /\ token \in Requests \cup {0}
  BY DEF Typed, TypedServer, TypedRequests
<1>2. CASE token = 0
  BY <1>1, <1>2 DEF CancelToken
<1>3. CASE token # 0
  <2> DEFINE r == [req[token] EXCEPT !.cancelled = TRUE]
  <2>1. token \in Requests
    BY <1>1, <1>3
  <2>2. /\ r \in Request /\ r.pc = req[token].pc /\ r.lock = req[token].lock
        /\ r.base = req[token].base /\ r.epoch = req[token].epoch
        /\ r.result = req[token].result /\ r.ok = req[token].ok
        /\ r.confirmed = req[token].confirmed
    BY <1>1, <2>1 DEF Request
  <2>3. req' = [req EXCEPT ![token] = r]
    BY <1>3 DEF CancelToken
  <2> HIDE DEF r
  <2>4. QED
    BY <1>1, <2>1, <2>2, <2>3, NewRecord DEF Others
<1>4. QED
  BY <1>2, <1>3

LEMMA CrashIs ==
    ASSUME Typed, Crash
    PROVE  /\ req' \in [Requests -> Request]
           /\ \A j \in Requests : /\ req'[j].pc \in {"idle", "done"}
                                  /\ req'[j].lock = 0 /\ req'[j].confirmed = {}
<1> DEFINE d == [Idle EXCEPT !.pc = "done"]
<1>1. /\ d \in Request /\ d.pc = "done" /\ d.lock = 0 /\ d.confirmed = {}
      /\ Idle \in Request /\ Idle.pc = "idle" /\ Idle.lock = 0
      /\ Idle.confirmed = {}
  BY IdleIs
<1>2. req' = [k \in Requests |-> IF At(k, "idle") THEN Idle ELSE d]
  BY DEF Crash
<1> HIDE DEF d
<1>3. QED
  BY <1>1, <1>2

\* What an execution may return.
LEMMA ReturnedIs ==
    ASSUME Typed, NEW k \in Requests,
           \/ AnswerPrompt(k) \/ FailPrompt(k) \/ CompactedPrompt(k)
           \/ CompactCommand(k) \/ RewindReturns(k) \/ DropCommand(k)
    PROVE  /\ made' \in Nat /\ made <= made' /\ compacts' \in Nat
           /\ UNCHANGED <<locks, closes, crashes>>
           /\ \E s \in Seq(Nat), o \in BOOLEAN, c \in SUBSET (1..made') :
                Return(k, s, o, c)
<1> USE DEF server, bounds
<1> DEFINE Some == \E s \in Seq(Nat), o \in BOOLEAN, c \in SUBSET (1..made') :
                     Return(k, s, o, c)
<1>w. ASSUME NEW s \in Seq(Nat), NEW o \in BOOLEAN,
             NEW c \in SUBSET (1..made'), Return(k, s, o, c)
      PROVE  Some
  BY <1>w
<1> HIDE DEF Some
<1>1. /\ made \in Nat /\ compacts \in Nat /\ req \in [Requests -> Request]
      /\ req[k].base \in Seq(Nat) /\ req[k].result \in Seq(Nat)
      /\ << 0 >> \in Seq(Nat) /\ <<>> \in Seq(Nat)
  BY DEF Typed, TypedRequests, Request
<1>2. \A n \in Nat : Fresh(n) \in Seq(Nat)
  BY <1>1, FreshIs
<1>3. /\ req[k].base \o Fresh(1) \in Seq(Nat) /\ req[k].base \o Fresh(2) \in Seq(Nat)
      /\ << 0 >> \o req[k].base \o Fresh(1) \in Seq(Nat)
  BY <1>1, <1>2, ConcatProperties
<1>4. CASE AnswerPrompt(k)
  <2>1. made' = made + 2 /\ UNCHANGED <<locks, closes, crashes, compacts>>
    BY <1>4 DEF AnswerPrompt
  <2>2. PICK steered \in BOOLEAN :
           Return(k, req[k].base \o Fresh(2), TRUE,
                  IF steered THEN {made + 2} ELSE {})
    BY <1>4 DEF AnswerPrompt
  <2>3. (IF steered THEN {made + 2} ELSE {}) \in SUBSET (1..made')
    BY <1>1, <2>1
  <2>4. Some
    BY <1>w, <1>3, <2>2, <2>3
  <2>5. QED
    BY <1>1, <2>1, <2>4 DEF Some
<1>5. CASE FailPrompt(k)
  <2>1. made' = made + 2 /\ UNCHANGED <<locks, closes, crashes, compacts>>
    BY <1>5 DEF FailPrompt
  <2>2. \E s \in Seq(Nat), steered \in BOOLEAN :
           \/ Return(k, s, FALSE, {})
           \/ Return(k, s, FALSE, IF steered THEN {made + 2} ELSE {})
    BY <1>3, <1>5 DEF FailPrompt
  <2>3. PICK s \in Seq(Nat), steered \in BOOLEAN :
           \/ Return(k, s, FALSE, {})
           \/ Return(k, s, FALSE, IF steered THEN {made + 2} ELSE {})
    BY <2>2
  <2>4. /\ (IF steered THEN {made + 2} ELSE {}) \in SUBSET (1..made')
        /\ {} \in SUBSET (1..made')
    BY <1>1, <2>1
  <2>5. Some
    BY <1>w, <2>3, <2>4
  <2>6. QED
    BY <1>1, <2>1, <2>5 DEF Some
<1>6. CASE CompactedPrompt(k)
  <2>1. made' = made + 2 /\ UNCHANGED <<locks, closes, crashes, compacts>>
    BY <1>6 DEF CompactedPrompt
  <2>2. PICK ok \in BOOLEAN : Return(k, Fresh(2), ok, {made + 2})
    BY <1>6 DEF CompactedPrompt
  <2>3. {made + 2} \in SUBSET (1..made') /\ Fresh(2) \in Seq(Nat)
    BY <1>1, <1>2, <2>1
  <2>4. Some
    BY <1>w, <2>2, <2>3
  <2>5. QED
    BY <1>1, <2>1, <2>4 DEF Some
<1>7. CASE CompactCommand(k)
  <2>1. PICK n \in 0..Restored :
           /\ made' = made + 1 + n
           /\ Return(k, IF req[k].base = <<>> THEN <<>> ELSE Fresh(1 + n),
                     TRUE, {})
    BY <1>7 DEF CompactCommand
  <2>2. UNCHANGED <<locks, closes, crashes>> /\ compacts' = compacts + 1
    BY <1>7 DEF CompactCommand
  <2>3. n \in Nat /\ 1 + n \in Nat
    BY SessionAssumption
  <2>4. (IF req[k].base = <<>> THEN <<>> ELSE Fresh(1 + n)) \in Seq(Nat)
    BY <1>1, <1>2, <2>3
  <2>5. {} \in SUBSET (1..made') /\ made' \in Nat /\ made <= made'
    BY <1>1, <2>1, <2>3
  <2>6. Some
    BY <1>w, <2>1, <2>4, <2>5
  <2>7. QED
    BY <1>1, <2>1, <2>2, <2>5, <2>6 DEF Some
<1>8. CASE RewindReturns(k)
  <2>1. UNCHANGED <<made, compacts, locks, closes, crashes>> /\ {} \in SUBSET (1..made')
    BY <1>8 DEF RewindReturns
  <2>2. Return(k, req[k].result, TRUE, {})
    BY <1>8 DEF RewindReturns
  <2>3. Some
    BY <1>w, <1>1, <2>1, <2>2
  <2>4. QED
    BY <1>1, <2>1, <2>3 DEF Some
<1>9. CASE DropCommand(k)
  <2>1. UNCHANGED <<made, compacts, locks, closes, crashes>> /\ {} \in SUBSET (1..made')
    BY <1>9 DEF DropCommand
  <2>2. Return(k, req[k].base, TRUE, {})
    BY <1>9 DEF DropCommand
  <2>3. Some
    BY <1>w, <1>1, <2>1, <2>2
  <2>4. QED
    BY <1>1, <2>1, <2>3 DEF Some
<1>10. QED
  BY <1>4, <1>5, <1>6, <1>7, <1>8, <1>9

LEMMA RequestsStep ==
    ASSUME Typed, [Next]_vars
    PROVE  TypedRequests'
<1> USE DEF server, bounds
<1>0. /\ req \in [Requests -> Request]
      /\ made \in Nat /\ closes \in Nat /\ compacts \in Nat /\ crashes \in Nat
      /\ locks \in Nat /\ lockOf \in Nat /\ lockOf <= locks
      /\ \A k \in Requests :
           req[k].lock <= locks /\ req[k].confirmed \subseteq 1..made
      /\ TypedRequests
  BY DEF Typed, TypedServer, TypedRequests
<1>1. ASSUME NEW k \in Requests, Arrive(k) PROVE TypedRequests'
  <2>1. /\ UNCHANGED <<made, closes, compacts, crashes>>
        /\ locks' \in Nat /\ locks <= locks' /\ lockOf' <= locks'
    BY <1>0, <1>1 DEF Arrive
  <2>2. QED
    BY <1>0, <1>1, <2>1, ArriveIs, RequestTyped
<1>2. ASSUME NEW k \in Requests, NEW to \in Places,
             req' = [req EXCEPT ![k].pc = to],
             made' = made \/ made' = made + 2,
             UNCHANGED <<locks, closes, compacts, crashes>>
      PROVE  TypedRequests'
  <2>1. /\ req' \in [Requests -> Request] /\ Others(k) /\ Same(k)
    BY <1>0, <1>2, StepIs
  <2>2. /\ made' \in Nat /\ made <= made'
        /\ req'[k].lock <= locks' /\ req'[k].confirmed \subseteq 1..made'
    BY <1>0, <1>2, <2>1 DEF Same
  <2>3. QED
    BY <1>0, <1>2, <2>1, <2>2, RequestTyped
<1>3. ASSUME NEW k \in Requests,
             \/ Acquire(k) \/ Register(k) \/ RewindClearsCache(k) \/ Persist(k)
             \/ PersistClearsCache(k) \/ PersistCompacted(k) \/ Publish(k)
             \/ AppendHistory(k) \/ Release(k)
      PROVE  TypedRequests'
  <2>1. /\ UNCHANGED <<locks, closes, compacts, crashes>>
        /\ made' = made \/ made' = made + 2
    BY <1>3 DEF Acquire, Register, RewindClearsCache, Persist,
       PersistClearsCache, PersistCompacted, Publish, AppendHistory, Release
  <2>2. \E to \in Places : req' = [req EXCEPT ![k].pc = to]
    BY <1>3 DEF Acquire, Register, RewindClearsCache, Persist,
       PersistClearsCache, PersistCompacted, Publish, AppendHistory, Release,
       Step, Places, Holding
  <2>3. QED
    BY <1>2, <2>1, <2>2
<1>4. ASSUME NEW k \in Requests, ReadHistory(k) PROVE TypedRequests'
  <2>1. UNCHANGED <<made, locks, closes, compacts, crashes>>
    BY <1>4 DEF ReadHistory
  <2>2. QED
    BY <1>0, <1>4, <2>1, ReadHistoryIs, RequestTyped
<1>5. ASSUME NEW k \in Requests,
             \/ AnswerPrompt(k) \/ FailPrompt(k) \/ CompactedPrompt(k)
             \/ CompactCommand(k) \/ RewindReturns(k) \/ DropCommand(k)
      PROVE  TypedRequests'
  <2>1. /\ made' \in Nat /\ made <= made' /\ compacts' \in Nat
        /\ UNCHANGED <<locks, closes, crashes>>
        /\ \E s \in Seq(Nat), o \in BOOLEAN, c \in SUBSET (1..made') :
             Return(k, s, o, c)
    BY <1>5, ReturnedIs
  <2>2. PICK s \in Seq(Nat), o \in BOOLEAN, c \in SUBSET (1..made') :
           Return(k, s, o, c)
    BY <2>1
  <2>3. c \in SUBSET Nat
    OBVIOUS
  <2>4. /\ req' \in [Requests -> Request] /\ Others(k)
        /\ req'[k].lock = req[k].lock /\ req'[k].confirmed = c
    BY <1>0, <2>2, <2>3, ReturnIs
  <2>5. /\ made' \in Nat /\ made <= made' /\ compacts' \in Nat
        /\ closes' \in Nat /\ crashes' \in Nat
        /\ locks \in Nat /\ locks' \in Nat /\ locks <= locks' /\ TypedRequests
        /\ req'[k].lock <= locks' /\ req'[k].confirmed \subseteq 1..made'
    BY <1>0, <2>1, <2>4
  <2>6. QED
    BY <2>4, <2>5, RequestTyped
<1>6. ASSUME NEW k \in Requests, RewindCommand(k) PROVE TypedRequests'
  <2>1. UNCHANGED <<made, locks, closes, compacts, crashes>>
    BY <1>6 DEF RewindCommand
  <2>2. QED
    BY <1>0, <1>6, <2>1, RewindIs, RequestTyped
<1>7. ASSUME NEW k \in Requests, Respond(k) PROVE TypedRequests'
  <2>1. UNCHANGED <<made, locks, closes, compacts, crashes>>
    BY <1>7 DEF Respond
  <2>2. /\ req' \in [Requests -> Request] /\ Others(k)
        /\ req'[k].lock = 0 /\ req'[k].confirmed = {}
    BY <1>7, RespondIs
  <2>3. QED
    BY <1>0, <2>1, <2>2, RequestTyped
<1>8. CASE Cancel \/ Close
  <2>1. CancelToken /\ UNCHANGED <<made, locks, compacts, crashes>> /\ closes' \in Nat
    BY <1>0, <1>8 DEF Cancel, Close
  <2>2. QED
    BY <1>0, <2>1, CancelIs DEF TypedRequests
<1>9. CASE Crash
  <2>1. UNCHANGED <<made, locks, closes, compacts>> /\ crashes' \in Nat
    BY <1>0, <1>9 DEF Crash
  <2>2. \A j \in Requests : req'[j].lock <= locks' /\ req'[j].confirmed \subseteq 1..made'
    BY <1>0, <1>9, <2>1, CrashIs
  <2>3. QED
    BY <1>0, <1>9, <2>1, <2>2, CrashIs DEF TypedRequests
<1>10. CASE \/ \E t \in Threads : Load(t)
            \/ LoadReadsRows \/ LoadFinishes \/ Resume \/ Fork \/ CloseReleases
            \/ UNCHANGED vars
  <2>1. UNCHANGED <<req, made, locks, closes, compacts, crashes>>
    BY <1>10 DEF Load, LoadReadsRows, LoadFinishes, Resume, Fork, CloseReleases,
       vars
  <2>2. QED
    BY <1>0, <2>1 DEF TypedRequests
<1>11. QED
  BY <1>1, <1>3, <1>4, <1>5, <1>6, <1>7, <1>8, <1>9, <1>10 DEF Next, Work

LEMMA MutexStep ==
    ASSUME Typed, OneAtATime, [Next]_vars
    PROVE  TypedMutex'
<1> USE DEF server
<1>0. /\ mutex \in {"free", "prompt", "load"}
      /\ mutex = "load" <=> loop.pc \in Loading
      /\ \A k \in Requests : req[k].pc \in Writing => mutex = "prompt"
      /\ req \in [Requests -> Request]
  BY DEF Typed, TypedMutex, TypedRequests
\* One request moves, not into the store, and the mutex stays.
<1>1. ASSUME NEW k \in Requests, Others(k),
             req'[k].pc \notin Writing \/ req[k].pc \in Writing,
             UNCHANGED <<mutex, loop>>
      PROVE  TypedMutex'
  <2>1. \A j \in Requests : req'[j].pc \in Writing => mutex' = "prompt"
    BY <1>0, <1>1 DEF Others
  <2>2. QED
    BY <1>0, <1>1, <2>1 DEF TypedMutex
<1>2. ASSUME \A j \in Requests : req'[j].pc \notin Writing,
             mutex' \in {"free", "prompt", "load"},
             mutex' = "load" <=> loop'.pc \in Loading
      PROVE  TypedMutex'
  BY <1>2 DEF TypedMutex
<1>3. ASSUME NEW k \in Requests, Arrive(k) PROVE TypedMutex'
  <2>1. Others(k) /\ req'[k].pc = "waiting" /\ UNCHANGED <<mutex, loop>>
    BY <1>3, ArriveIs DEF Arrive
  <2>2. QED
    BY <1>1, <2>1 DEF Writing
<1>4. ASSUME NEW k \in Requests, NEW to \in Places, req' = [req EXCEPT ![k].pc = to]
      PROVE  Others(k) /\ req'[k].pc = to
  BY <1>0, <1>4, StepIs
<1>5. ASSUME NEW k \in Requests,
             \/ Acquire(k) \/ Register(k) \/ RewindClearsCache(k)
             \/ AppendHistory(k) \/ Release(k)
      PROVE  TypedMutex'
  <2>1. UNCHANGED <<mutex, loop>>
    BY <1>5 DEF Acquire, Register, RewindClearsCache, AppendHistory, Release
  <2>2. PICK to \in Places \ Writing : req' = [req EXCEPT ![k].pc = to]
    BY <1>5 DEF Acquire, Register, RewindClearsCache, AppendHistory, Release,
       Step, Places, Holding, Writing
  <2>3. QED
    BY <1>1, <1>4, <2>1, <2>2
<1>6. ASSUME NEW k \in Requests, Persist(k) PROVE TypedMutex'
  <2>1. At(k, "persist") /\ mutex = "free" /\ UNCHANGED loop
    BY <1>6 DEF Persist
  <2>2. CASE Main \notin open
    <3>1. req' = [req EXCEPT ![k].pc = "respond"] /\ UNCHANGED mutex
      BY <1>6, <2>2 DEF Persist
    <3>2. "respond" \in Places \ Writing
      BY DEF Places, Holding, Writing
    <3>3. QED
      BY <1>1, <1>4, <2>1, <3>1, <3>2
  <2>3. CASE Main \in open
    <3>1. /\ mutex' = "prompt"
          /\ \E to \in Places : req' = [req EXCEPT ![k].pc = to]
      BY <1>6, <2>3 DEF Persist, Places, Holding
    <3>2. QED
      BY <1>0, <2>1, <3>1 DEF TypedMutex
  <2>4. QED
    BY <2>2, <2>3
<1>7. ASSUME NEW k \in Requests, PersistClearsCache(k) \/ PersistCompacted(k)
      PROVE  TypedMutex'
  <2>1. UNCHANGED <<mutex, loop>> /\ req[k].pc \in Writing
    BY <1>7 DEF PersistClearsCache, PersistCompacted, Step, At, Writing
  <2>2. \E to \in Places : req' = [req EXCEPT ![k].pc = to]
    BY <1>7 DEF PersistClearsCache, PersistCompacted, Step, Places, Holding
  <2>3. QED
    BY <1>1, <1>4, <2>1, <2>2
<1>8. ASSUME NEW k \in Requests, Publish(k) PROVE TypedMutex'
  <2>1. /\ At(k, "publish") /\ mutex' = "free" /\ UNCHANGED loop
        /\ req' = [req EXCEPT ![k].pc = "respond"]
    BY <1>8 DEF Publish, Step
  <2>2. mutex = "prompt"
    BY <1>0, <2>1 DEF At, Writing
  <2>3. Others(k) /\ req'[k].pc = "respond"
    BY <1>4, <2>1 DEF Places, Holding
  <2>4. \A j \in Requests \ {k} : req[j].pc \notin Writing
    BY <2>1 DEF OneAtATime, At, Writing, Holding
  <2>5. \A j \in Requests : req'[j].pc \notin Writing
    BY <2>3, <2>4 DEF Others, Writing
  <2>6. QED
    BY <1>0, <1>2, <2>1, <2>2, <2>5
<1>9. ASSUME NEW k \in Requests, ReadHistory(k) PROVE TypedMutex'
  <2>1. Others(k) /\ req'[k].pc \notin Writing /\ UNCHANGED <<mutex, loop>>
    BY <1>9, ReadHistoryIs DEF ReadHistory, Writing
  <2>2. QED
    BY <1>1, <2>1
<1>10. ASSUME NEW k \in Requests,
              \/ AnswerPrompt(k) \/ FailPrompt(k) \/ CompactedPrompt(k)
              \/ CompactCommand(k) \/ RewindReturns(k) \/ DropCommand(k)
       PROVE  TypedMutex'
  <2>1. UNCHANGED <<mutex, loop>>
    BY <1>10 DEF AnswerPrompt, FailPrompt, CompactedPrompt, CompactCommand,
       RewindReturns, DropCommand
  <2>2. PICK s \in Seq(Nat), o \in BOOLEAN, c \in SUBSET (1..made') :
           Return(k, s, o, c)
    BY <1>10, ReturnedIs
  <2>3. c \in SUBSET Nat
    OBVIOUS
  <2>4. Others(k) /\ req'[k].pc = "persist"
    BY <1>0, <2>2, <2>3, ReturnIs
  <2>5. QED
    BY <1>1, <2>1, <2>4 DEF Writing
<1>11. ASSUME NEW k \in Requests, RewindCommand(k) PROVE TypedMutex'
  <2>1. Others(k) /\ req'[k].pc = "rewinding" /\ UNCHANGED <<mutex, loop>>
    BY <1>11, RewindIs DEF RewindCommand
  <2>2. QED
    BY <1>1, <2>1 DEF Writing
<1>12. ASSUME NEW k \in Requests, Respond(k) PROVE TypedMutex'
  <2>1. Others(k) /\ req'[k].pc = "releasing" /\ UNCHANGED <<mutex, loop>>
    BY <1>12, RespondIs DEF Respond
  <2>2. QED
    BY <1>1, <2>1 DEF Writing
\* The others need the mutex free or hold it for a load.
<1>13. ASSUME mutex # "prompt", UNCHANGED req
       PROVE  \A j \in Requests : req'[j].pc \notin Writing
  BY <1>0, <1>13
<1>14. ASSUME NEW t \in Threads, Load(t) PROVE TypedMutex'
  <2>1. mutex # "prompt" /\ UNCHANGED req /\ mutex' = "load"
    BY <1>14 DEF Load
  <2>2. loop'.pc = "rows"
    BY <1>14 DEF Load, Ready
  <2>3. QED
    BY <1>2, <1>13, <2>1, <2>2 DEF Loading
<1>15. CASE LoadReadsRows
  <2>1. UNCHANGED <<req, mutex>> /\ loop.pc \in Loading
    BY <1>15 DEF LoadReadsRows, Loading
  <2>2. loop'.pc = "save"
    <3>1. loop \in [pc : {"ready", "closed"} \cup Loading, thread : Threads,
                    cached : Seq(Nat), context : Seq(Nat)]
      BY DEF Typed, TypedServer
    <3>2. QED
      BY <1>15, <3>1 DEF LoadReadsRows
  <2>3. QED
    BY <1>0, <1>2, <1>13, <2>1, <2>2 DEF Loading
<1>16. CASE LoadFinishes
  <2>1. UNCHANGED req /\ loop.pc \in Loading /\ mutex' = "free" /\ loop' = Ready
    BY <1>16 DEF LoadFinishes, Loading
  <2>2. QED
    BY <1>0, <1>2, <1>13, <2>1, ReadyIs
<1>17. ASSUME UNCHANGED <<mutex, loop>>,
              \A j \in Requests : req'[j].pc = req[j].pc
       PROVE  TypedMutex'
  BY <1>0, <1>17 DEF TypedMutex
<1>18. CASE Resume \/ Fork \/ UNCHANGED vars
  BY <1>17, <1>18 DEF Resume, Fork, vars
<1>19. CASE Cancel
  BY <1>17, <1>19, CancelIs DEF Cancel
<1>20. CASE Close
  <2>1. /\ mutex = "free" /\ mutex' = "free"
        /\ loop' = [Ready EXCEPT !.pc = "closed"] /\ CancelToken
    BY <1>20 DEF Close
  <2>2. \A j \in Requests : req'[j].pc \notin Writing
    BY <1>0, <2>1, CancelIs
  <2>3. QED
    BY <1>2, <2>1, <2>2, ReadyIs
<1>21. CASE CloseReleases
  <2>1. UNCHANGED <<req, mutex>> /\ mutex = "free" /\ loop' = Ready
    BY <1>21 DEF CloseReleases
  <2>2. QED
    BY <1>2, <1>13, <2>1, ReadyIs
<1>22. CASE Crash
  <2>1. mutex' = "free" /\ loop' = Ready
    BY <1>22 DEF Crash
  <2>2. \A j \in Requests : req'[j].pc \notin Writing
    BY <1>22, CrashIs DEF Writing
  <2>3. QED
    BY <1>2, <2>1, <2>2, ReadyIs
<1>23. QED
  BY <1>3, <1>5, <1>6, <1>7, <1>8, <1>9, <1>10, <1>11, <1>12, <1>14, <1>15,
     <1>16, <1>18, <1>19, <1>20, <1>21, <1>22 DEF Next, Work

LEMMA InitTyped == Init => Typed
<1> SUFFICES ASSUME Init PROVE Typed
  OBVIOUS
<1>1. /\ Main \in Threads /\ <<>> \in Seq(Nat) /\ <<1, 2>> \in Seq(Nat)
  BY SessionAssumption
<1>2. TypedStore
  BY <1>1 DEF Init, TypedStore, NoCache
<1>3. TypedServer
  BY <1>1, ReadyIs DEF Init, TypedServer
<1>4. TypedRequests
  <2>1. req = [k \in Requests |-> Idle] /\ made = 2 /\ locks = 0
        /\ compacts = 0 /\ closes = 0 /\ crashes = 0
    BY DEF Init
  <2>2. Idle \in Request /\ Idle.lock = 0 /\ Idle.confirmed = {}
    BY IdleIs
  <2>3. QED
    BY <2>1, <2>2 DEF TypedRequests
<1>5. TypedMutex
  <2>1. mutex = "free" /\ loop = Ready /\ \A k \in Requests : req[k].pc = "idle"
    BY DEF Init, Idle
  <2>2. QED
    BY <2>1, ReadyIs DEF TypedMutex, Writing
<1>6. QED
  BY <1>2, <1>3, <1>4, <1>5 DEF Typed

\* Everything has its type, the sessions mutex is held by a load exactly while
\* it reads, and only messages that were written are confirmed.
THEOREM TypeCorrect == Spec => []TypeOK
<1>1. Typed => TypeOK
  <2> SUFFICES ASSUME Typed PROVE TypeOK
    OBVIOUS
  <2>1. StoreTypeOK /\ open \subseteq known /\ known \subseteq Threads
        /\ history \in [Threads -> Seq(Nat)] /\ token \in Requests \cup {0}
        /\ lockOf \in 0..locks
    BY DEF Typed, TypedStore, TypedServer, StoreTypeOK
  <2>2. mutex \in {"free", "prompt", "load"}
        /\ ((mutex = "load") = (loop.pc \in {"rows", "save"}))
    BY DEF Typed, TypedMutex, Loading
  <2>3. ASSUME NEW k \in Requests
        PROVE  /\ req[k].pc \in Holding \cup {"idle", "waiting", "releasing", "done"}
               /\ req[k].lock \in 0..locks
               /\ req[k].confirmed \subseteq 1..made
    BY DEF Typed, TypedServer, TypedRequests, Request, Places
  <2>4. QED
    BY <2>1, <2>2, <2>3 DEF TypeOK
<1>2. LockInv /\ Typed /\ [Next]_vars => (LockInv /\ Typed)'
  <2> SUFFICES ASSUME LockInv, Typed, [Next]_vars PROVE (LockInv /\ Typed)'
    OBVIOUS
  <2>1. LockInv'
    BY NextLocks
  <2>2. OneAtATime
    BY DEF LockInv
  <2>3. Typed'
    BY <2>2, StoreStep, ServerStep, RequestsStep, MutexStep DEF Typed
  <2>4. QED
    BY <2>1, <2>3
<1>3. QED
  BY <1>1, <1>2, InitLocks, InitTyped, PTL DEF Spec
-----------------------------------------------------------------------------
\* Memory and store.

\* The conditions under which nothing comes between a change of the store and
\* the change of the memory that belongs to it, and the messages of a
\* conversation belong to its thread.  Without any one of them TLC finds memory
\* and store in disagreement.
Sheltered ==
    Rewinds # "any" /\ Shrinking /\ ~AutoCompact /\ ~Resumes /\ ~Forks

Saved == Context(rows[Main], cache[Main])
InStore == Ids(rows[Main]) \cup Ids(cache[Main])

\* From the snapshot of the history until the memory has the result.
Busy == {"running", "rewinding", "rewound"} \cup Unsettled

StoreSound ==
    /\ known = {Main}
    /\ \A t \in Threads \ {Main} : rows[t] = <<>>
    /\ InStore \subseteq 1..made
    /\ Distinct(rows[Main]) /\ Distinct(cache[Main])
    /\ \/ Aligned(rows[Main], cache[Main])
       \/ \E k \in Requests : At(k, "rewinding")

\* A load fills a history that is empty, with what the store still has.
LoadSound ==
    loop.pc \in Loading =>
        /\ loop.thread = Main /\ loop.cached = cache[Main]
        /\ loop.pc = "save" => loop.context = Saved
        /\ Main \in open => history[Main] = <<>>

MemorySound ==
    Main \in open =>
        /\ Distinct(history[Main])
        /\ (\A k \in Requests : req[k].pc \notin Unsettled) =>
               history[Main] = Saved

\* The result is shorter than the conversation and has nothing twice.
Shorter(k) ==
    /\ Len(req[k].result) < Len(req[k].base)
    /\ Distinct(req[k].result)
    /\ Ids(req[k].result) \subseteq 1..made
    /\ Ids(rows[Main]) \subseteq Ids(req[k].base)

\* New messages e follow the conversation, perhaps with a leaked one before it.
Extended(k, e) ==
    /\ Distinct(e) /\ Ids(e) \subseteq 1..made /\ Ids(e) \cap InStore = {}
    /\ \/ req[k].result = req[k].base \o e
       \/ /\ req[k].result = << 0 >> \o req[k].base \o e
          /\ ~req[k].ok /\ Len(e) = 1

Grew(k) ==
    /\ req[k].base = Saved
    /\ Main \in open => history[Main] = Saved
    /\ \E e \in Seq(Nat) : Extended(k, e)

Cut(k) == Shorter(k) /\ req[k].ok

\* Nobody disturbs a rewind, and no load is under way.
Rewound(k) ==
    /\ Rewinds = "undisturbed" /\ Main \in open
    /\ req[k].epoch = closes /\ ~req[k].cancelled
    /\ Shorter(k)
    /\ loop.pc \notin Loading

\* The store has what the memory is about to take over.
Kept(k) ==
    /\ req[k].ok => Saved = req[k].result
    /\ ~req[k].ok /\ Progressed(k) => Saved = Stripped(k)
    /\ ~req[k].ok /\ ~Progressed(k) => Saved = req[k].base /\ history[Main] = req[k].base

\* The snapshot is of this opening of the session, or of an earlier one.
Current(k) ==
    /\ req[k].epoch <= closes
    /\ req[k].epoch = closes => Main \in open /\ history[Main] = req[k].base

Stage(k) ==
    /\ At(k, "running") => req[k].base = Saved
    /\ req[k].pc \in {"rewinding", "rewound"} => Rewound(k)
    /\ At(k, "rewound") => cache[Main] = NoCache
    /\ At(k, "persist") => Grew(k) \/ Cut(k)
    /\ req[k].pc \in {"deleted", "invalidated"} => Cut(k) /\ rows[Main] = <<>>
    /\ At(k, "invalidated") => cache[Main] = NoCache
    /\ At(k, "publish") => Kept(k)
    /\ req[k].pc \in Writing => Main \in open
    /\ req[k].pc \in Busy => Current(k)

Sound == StoreSound /\ LoadSound /\ MemorySound /\ \A k \in Requests : Stage(k)

LEMMA NotBusyNext ==
    ASSUME NEW k \in Requests, req'[k].pc \notin Busy
    PROVE  Stage(k)'
  BY DEF Stage, Busy, Unsettled, Writing, At

\* Nothing that others read changes.
Frame == UNCHANGED <<rows, cache, known, open, history, loop, closes>>

LEMMA FrameStore ==
    ASSUME Typed, StoreSound, UNCHANGED <<rows, cache, known>>,
           made' \in Nat, made <= made',
           \A j \in Requests : At(j, "rewinding") => At(j, "rewinding")'
    PROVE  StoreSound'
<1>1. made \in Nat /\ InStore' = InStore
  BY DEF Typed, TypedRequests, InStore
<1>2. InStore' \subseteq 1..made'
  <2>1. InStore \subseteq 1..made
    BY DEF StoreSound
  <2>2. 1..made \subseteq 1..made'
    BY <1>1
  <2>3. QED
    BY <1>1, <2>1, <2>2
<1>3. (\E j \in Requests : At(j, "rewinding")) =>
          \E j \in Requests : At(j, "rewinding")'
  OBVIOUS
<1>4. \/ Aligned(rows[Main], cache[Main])'
      \/ (\E j \in Requests : At(j, "rewinding"))'
  BY <1>3 DEF StoreSound
<1>5. /\ known' = {Main} /\ \A t \in Threads \ {Main} : rows'[t] = <<>>
      /\ Distinct(rows[Main])' /\ Distinct(cache[Main])'
  BY DEF StoreSound, Distinct
<1>6. QED
  BY <1>2, <1>4, <1>5 DEF StoreSound

LEMMA FrameLoad ==
    ASSUME LoadSound, UNCHANGED <<rows, cache, loop>>,
           Main \in open' => Main \in open \/ history'[Main] = <<>>,
           Main \in open' /\ Main \in open => history'[Main] = history[Main]
    PROVE  LoadSound'
  BY DEF LoadSound, Saved

\* What others do not disturb: the one who holds the lock steps.
LEMMA HolderStep ==
    ASSUME OneAtATime, NEW k \in Requests, req[k].pc \in Holding,
           Others(k), Stage(k)'
    PROVE  \A j \in Requests : Stage(j)'
<1>1. ASSUME NEW j \in Requests, j # k PROVE Stage(j)'
  <2>1. req'[j] = req[j] /\ req[j].pc \notin Holding
    BY <1>1 DEF Others, OneAtATime
  <2>2. req'[j].pc \notin Busy
    BY <2>1 DEF Busy, Unsettled, Holding
  <2>3. QED
    BY <2>2, NotBusyNext
<1>2. QED
  BY <1>1

\* A step of the holder that leaves store and memory as they are.
LEMMA FrameHolder ==
    ASSUME Typed, OneAtATime, Sound, NEW k \in Requests,
           req[k].pc \in Holding \ {"rewinding"}, Others(k), Frame,
           made' \in Nat, made <= made',
           req[k].pc \in Unsettled => req'[k].pc \in Unsettled \/ Main \notin open,
           Stage(k)'
    PROVE  Sound'
<1>1. StoreSound'
  <2>1. \A j \in Requests : At(j, "rewinding") => At(j, "rewinding")'
    BY DEF At, Others
  <2>2. QED
    BY <2>1, FrameStore DEF Sound, Frame
<1>2. LoadSound'
  BY FrameLoad DEF Sound, Frame
<1>3. MemorySound'
  <2>1. Main \in open /\ (\A j \in Requests : req'[j].pc \notin Unsettled) =>
            \A j \in Requests : req[j].pc \notin Unsettled
    BY DEF Others
  <2>2. Saved' = Saved /\ history' = history /\ open' = open
    BY DEF Frame, Saved
  <2>3. QED
    BY <2>1, <2>2 DEF Sound, MemorySound, Distinct
<1>4. QED
  BY <1>1, <1>2, <1>3, HolderStep DEF Sound

\* If the holder has not touched the store, nobody has.
LEMMA Settled ==
    ASSUME OneAtATime, NEW k \in Requests, req[k].pc \in Holding \ Unsettled
    PROVE  \A j \in Requests : req[j].pc \notin Unsettled
<1>1. Unsettled \subseteq Holding
  BY DEF Unsettled, Holding
<1>2. QED
  BY <1>1 DEF OneAtATime

LEMMA ReturnSound ==
    ASSUME Typed, OneAtATime, Sound, NEW k \in Requests,
           req[k].pc \in {"running", "rewound"},
           NEW s \in Seq(Nat), NEW o \in BOOLEAN, NEW c \in SUBSET Nat,
           Return(k, s, o, c), Frame, made' \in Nat, made <= made',
           (Grew(k) \/ Cut(k))'
    PROVE  Sound'
<1>1. /\ Others(k) /\ req'[k].pc = "persist"
      /\ req'[k].base = req[k].base /\ req'[k].epoch = req[k].epoch
  BY ReturnIs DEF Typed, TypedRequests
<1>2. Current(k)
  BY DEF Sound, Stage, Busy
<1>3. Current(k)'
  BY <1>1, <1>2 DEF Current, Frame
<1>4. Stage(k)'
  BY <1>1, <1>3 DEF Stage, At, Writing, Busy, Unsettled
<1>5. /\ req[k].pc \in Holding \ {"rewinding"} /\ req'[k].pc \in Unsettled
  BY <1>1 DEF Holding, Unsettled
<1>6. QED
  BY <1>1, <1>4, <1>5, FrameHolder

\* What the agent adds is new.
LEMMA NewMessages ==
    ASSUME Typed, StoreSound, NEW n \in Nat
    PROVE  /\ Fresh(n) \in Seq(Nat) /\ Len(Fresh(n)) = n /\ Distinct(Fresh(n))
           /\ Ids(Fresh(n)) \subseteq 1..(made + n)
           /\ Ids(Fresh(n)) \cap InStore = {}
           /\ \A i \in 1..n : made + i \in Ids(Fresh(n))
<1>1. made \in Nat
  BY DEF Typed, TypedRequests
<1>2. Ids(Fresh(n)) \subseteq (made + 1)..(made + n)
  BY <1>1, FreshIs
<1>3. (made + 1)..(made + n) \subseteq 1..(made + n)
  BY <1>1
<1>4. ((made + 1)..(made + n)) \cap (1..made) = {}
  BY <1>1
<1>5. InStore \subseteq 1..made
  BY DEF StoreSound
<1>6. QED
  BY <1>1, <1>2, <1>3, <1>4, <1>5, FreshIs

\* The conversation of an execution that runs is that of the store.
LEMMA RunningIs ==
    ASSUME Typed, OneAtATime, Sound, NEW k \in Requests, At(k, "running")
    PROVE  /\ req[k].base = Saved
           /\ Main \in open => history[Main] = Saved
           /\ req[k].base \in Seq(Nat)
<1>1. req[k].pc \in Holding \ Unsettled
  BY DEF At, Holding, Unsettled
<1>2. QED
  BY <1>1, Settled DEF Sound, Stage, MemorySound, Typed, TypedRequests, Request

LEMMA ExtendSound ==
    ASSUME Typed, OneAtATime, Sound, NEW k \in Requests, At(k, "running"),
           NEW s \in Seq(Nat), NEW o \in BOOLEAN, NEW c \in SUBSET Nat,
           Return(k, s, o, c), Frame, made' \in Nat, made <= made',
           NEW e \in Seq(Nat), Distinct(e), Ids(e) \subseteq 1..made',
           Ids(e) \cap InStore = {},
           \/ s = req[k].base \o e
           \/ s = << 0 >> \o req[k].base \o e /\ ~o /\ Len(e) = 1
    PROVE  Sound'
<1>1. req'[k].base = req[k].base /\ req'[k].result = s /\ req'[k].ok = o
  BY ReturnIs DEF Typed, TypedRequests
<1>2. Saved' = Saved /\ InStore' = InStore /\ history' = history /\ open' = open
  BY DEF Frame, Saved, InStore
<1>3. Extended(k, e)'
  <2>1. Distinct(e)' /\ Ids(e)' = Ids(e)
    BY DEF Distinct, Ids
  <2>2. QED
    BY <1>1, <1>2, <2>1 DEF Extended
<1>4. Grew(k)'
  <2>1. req'[k].base = Saved' /\ (Main \in open' => history'[Main] = Saved')
    BY <1>1, <1>2, RunningIs
  <2>2. \E d \in Seq(Nat) : Extended(k, d)'
    BY <1>3
  <2>3. QED
    BY <2>1, <2>2 DEF Grew
<1>5. req[k].pc \in {"running", "rewound"}
  BY DEF At
<1>6. QED
  BY <1>4, <1>5, ReturnSound

LEMMA AnswerSound ==
    ASSUME Typed, OneAtATime, Sound, NEW k \in Requests, AnswerPrompt(k)
    PROVE  Sound'
<1>1. /\ At(k, "running") /\ made' = made + 2 /\ Frame
  BY DEF AnswerPrompt, Frame, store, memory, server
<1>2. PICK steered \in BOOLEAN :
         Return(k, req[k].base \o Fresh(2), TRUE,
                IF steered THEN {made + 2} ELSE {})
  BY DEF AnswerPrompt
<1>3. made \in Nat /\ req[k].base \in Seq(Nat)
  BY DEF Typed, TypedRequests, Request
<1> DEFINE c == IF steered THEN {made + 2} ELSE {}
           s == req[k].base \o Fresh(2)
<1>4. /\ Fresh(2) \in Seq(Nat) /\ Distinct(Fresh(2)) /\ Len(Fresh(2)) = 2
      /\ Ids(Fresh(2)) \subseteq 1..(made + 2) /\ Ids(Fresh(2)) \cap InStore = {}
      /\ made + 2 \in Ids(Fresh(2))
  <2>1. StoreSound /\ 2 \in Nat /\ 2 \in 1..2
    BY DEF Sound
  <2>2. QED
    BY <2>1, NewMessages
<1>5. c \in SUBSET Nat /\ c \subseteq Ids(Fresh(2)) /\ s \in Seq(Nat)
  BY <1>3, <1>4, ConcatIds
<1>6. Return(k, s, TRUE, c) /\ s = req[k].base \o Fresh(2)
  BY <1>2
<1> HIDE DEF c, s
<1>7. made' \in Nat /\ made <= made'
  BY <1>1, <1>3
<1>8. QED
  BY <1>1, <1>4, <1>5, <1>6, <1>7, ExtendSound

LEMMA FailSound ==
    ASSUME Typed, OneAtATime, Sound, NEW k \in Requests, FailPrompt(k)
    PROVE  Sound'
<1>1. /\ At(k, "running") /\ made' = made + 2 /\ Frame
  BY DEF FailPrompt, Frame, store, memory, server
<1>2. /\ made \in Nat /\ req[k].base \in Seq(Nat) /\ << 0 >> \in Seq(Nat)
      /\ StoreSound
  BY DEF Typed, TypedRequests, Request, Sound
<1>3. made' \in Nat /\ made <= made' /\ {} \in SUBSET Nat
  BY <1>1, <1>2
<1> DEFINE e == Fresh(1)
           d == Fresh(2)
<1>4. /\ e \in Seq(Nat) /\ Distinct(e) /\ Len(e) = 1
      /\ Ids(e) \subseteq 1..(made + 1) /\ Ids(e) \cap InStore = {}
  <2>1. 1 \in Nat
    OBVIOUS
  <2>2. QED
    BY <1>2, <2>1, NewMessages
<1>5. /\ d \in Seq(Nat) /\ Distinct(d) /\ Len(d) = 2
      /\ Ids(d) \subseteq 1..(made + 2) /\ Ids(d) \cap InStore = {}
      /\ made + 2 \in Ids(d)
  <2>1. 2 \in Nat /\ 2 \in 1..2
    OBVIOUS
  <2>2. QED
    BY <1>2, <2>1, NewMessages
<1>6. \/ Return(k, req[k].base \o e, FALSE, {})
      \/ Return(k, << 0 >> \o req[k].base \o e, FALSE, {})
      \/ \E steered \in BOOLEAN :
           Return(k, req[k].base \o d, FALSE, IF steered THEN {made + 2} ELSE {})
  BY DEF FailPrompt
<1> HIDE DEF e, d
<1>7. Ids(e) \subseteq 1..made' /\ Ids(d) \subseteq 1..made'
  <2>1. 1..(made + 1) \subseteq 1..made' /\ 1..(made + 2) \subseteq 1..made'
    BY <1>1, <1>2
  <2>2. QED
    BY <1>4, <1>5, <2>1
<1>8. CASE Return(k, req[k].base \o e, FALSE, {})
  <2>1. req[k].base \o e \in Seq(Nat)
    BY <1>2, <1>4, ConcatIds
  <2>2. QED
    BY <1>1, <1>3, <1>4, <1>7, <1>8, <2>1, ExtendSound
<1>9. CASE Return(k, << 0 >> \o req[k].base \o e, FALSE, {})
  <2>1. << 0 >> \o req[k].base \o e \in Seq(Nat)
    BY <1>2, <1>4, ConcatProperties
  <2>2. QED
    BY <1>1, <1>3, <1>4, <1>7, <1>9, <2>1, ExtendSound
<1>10. ASSUME NEW steered \in BOOLEAN,
              Return(k, req[k].base \o d, FALSE, IF steered THEN {made + 2} ELSE {})
       PROVE  Sound'
  <2> DEFINE c == IF steered THEN {made + 2} ELSE {}
  <2>1. req[k].base \o d \in Seq(Nat)
    BY <1>2, <1>5, ConcatIds
  <2>2. c \in SUBSET Nat /\ c \subseteq Ids(d)
    BY <1>2, <1>5
  <2>3. Return(k, req[k].base \o d, FALSE, c)
    BY <1>10
  <2>4. ~ (Len(d) <= 1)
    BY <1>5
  <2> HIDE DEF c
  <2>5. QED
    BY <1>1, <1>3, <1>5, <1>7, <2>1, <2>2, <2>3, <2>4, ExtendSound
<1>11. QED
  BY <1>6, <1>8, <1>9, <1>10

LEMMA CompactSound ==
    ASSUME Sheltered, Typed, OneAtATime, Sound, NEW k \in Requests,
           CompactCommand(k)
    PROVE  Sound'
<1>1. At(k, "running") /\ Frame
  BY DEF CompactCommand, Frame, store, memory, server
<1>2. PICK n \in 0..Restored :
         /\ 1 + n < Len(req[k].base) /\ made' = made + 1 + n
         /\ Return(k, IF req[k].base = <<>> THEN <<>> ELSE Fresh(1 + n), TRUE, {})
  BY DEF CompactCommand, Sheltered
<1>3. /\ made \in Nat /\ req[k].base \in Seq(Nat) /\ n \in Nat /\ Restored \in Nat
      /\ req \in [Requests -> Request] /\ StoreSound
  BY SessionAssumption DEF Typed, TypedRequests, Request, Sound
<1> DEFINE m == 1 + n
<1>4. m \in Nat /\ m < Len(req[k].base) /\ made' = made + m
      /\ made' \in Nat /\ made <= made' /\ req[k].base # <<>>
  BY <1>2, <1>3
<1>5. Return(k, Fresh(m), TRUE, {})
  BY <1>2, <1>4
<1> HIDE DEF m
<1>6. /\ Fresh(m) \in Seq(Nat) /\ Len(Fresh(m)) = m /\ Distinct(Fresh(m))
      /\ Ids(Fresh(m)) \subseteq 1..(made + m)
  BY <1>3, <1>4, NewMessages
<1>7. {} \in SUBSET Nat
  OBVIOUS
<1>8. /\ req'[k].base = req[k].base /\ req'[k].result = Fresh(m)
      /\ req'[k].ok = TRUE /\ req'[k].confirmed = {}
  <2> DEFINE o == TRUE
  <2>1. o \in BOOLEAN /\ Return(k, Fresh(m), o, {})
    BY <1>5
  <2> HIDE DEF o
  <2>2. /\ req'[k].base = req[k].base /\ req'[k].result = Fresh(m)
        /\ req'[k].ok = o /\ req'[k].confirmed = {}
    BY <1>3, <1>6, <1>7, <2>1, ReturnIs
  <2>3. QED
    BY <2>2 DEF o
<1>9. Ids(rows[Main]) \subseteq Ids(req[k].base)
  <2>1. req[k].base = Saved
    BY <1>1, RunningIs
  <2>2. Aligned(rows[Main], cache[Main])
    BY <1>1 DEF Sound, StoreSound, OneAtATime, At, Holding
  <2>3. rows[Main] \in Seq(Nat) /\ cache[Main] \in Seq(Nat)
    BY SessionAssumption DEF Typed, TypedStore
  <2>4. QED
    BY <1>3, <2>1, <2>2, <2>3, ContextDistinct DEF StoreSound, Saved
<1>10. Cut(k)'
  <2>1. Distinct(req'[k].result) /\ Ids(req'[k].result) \subseteq 1..made'
        /\ Len(req'[k].result) < Len(req'[k].base)
    BY <1>4, <1>6, <1>8
  <2>2. Ids(rows'[Main]) \subseteq Ids(req'[k].base)
    BY <1>1, <1>8, <1>9 DEF Frame
  <2>3. QED
    BY <1>8, <2>1, <2>2 DEF Cut, Shorter, Distinct, Ids
<1>11. req[k].pc \in {"running", "rewound"}
  BY <1>1 DEF At
<1>12. QED
  BY <1>1, <1>4, <1>5, <1>6, <1>7, <1>10, <1>11, ReturnSound

LEMMA RewindReturnsSound ==
    ASSUME Typed, OneAtATime, Sound, NEW k \in Requests, RewindReturns(k)
    PROVE  Sound'
<1>1. /\ At(k, "rewound") /\ Frame /\ UNCHANGED made
      /\ Return(k, req[k].result, TRUE, {})
  BY DEF RewindReturns, Frame, store, memory, server, bounds
<1>2. /\ made \in Nat /\ req[k].result \in Seq(Nat) /\ {} \in SUBSET Nat
      /\ req \in [Requests -> Request]
  BY DEF Typed, TypedRequests, Request
<1>3. /\ req'[k].base = req[k].base /\ req'[k].result = req[k].result
      /\ req'[k].ok = TRUE /\ req'[k].confirmed = {}
  <2> DEFINE o == TRUE
  <2>1. o \in BOOLEAN /\ Return(k, req[k].result, o, {})
    BY <1>1
  <2> HIDE DEF o
  <2>2. /\ req'[k].base = req[k].base /\ req'[k].result = req[k].result
        /\ req'[k].ok = o /\ req'[k].confirmed = {}
    BY <1>2, <2>1, ReturnIs
  <2>3. QED
    BY <2>2 DEF o
<1>4. Shorter(k)
  BY <1>1 DEF Sound, Stage, Rewound, At
<1>5. Cut(k)'
  <2>1. Distinct(req'[k].result) /\ Ids(req'[k].result) \subseteq 1..made'
        /\ Len(req'[k].result) < Len(req'[k].base)
    BY <1>1, <1>3, <1>4 DEF Shorter
  <2>2. Ids(rows'[Main]) \subseteq Ids(req'[k].base)
    BY <1>1, <1>3, <1>4 DEF Frame, Shorter
  <2>3. QED
    BY <1>3, <2>1, <2>2 DEF Cut, Shorter, Distinct, Ids
<1>6. req[k].pc \in {"running", "rewound"} /\ made' \in Nat /\ made <= made'
  BY <1>1, <1>2 DEF At
<1>7. QED
  BY <1>1, <1>2, <1>5, <1>6, ReturnSound

\* Nothing is dropped in the middle of a rewind.
LEMMA DropSound ==
    ASSUME Typed, OneAtATime, Sound, NEW k \in Requests, DropCommand(k)
    PROVE  Sound'
<1>1. /\ Frame /\ UNCHANGED made /\ Return(k, req[k].base, TRUE, {})
      /\ req[k].pc \in {"running", "rewinding", "rewound"} /\ req[k].cancelled
  BY DEF DropCommand, Frame, store, memory, server, bounds
<1>2. At(k, "running")
  BY <1>1 DEF Sound, Stage, Rewound, At
<1>3. /\ made \in Nat /\ req[k].base \in Seq(Nat) /\ {} \in SUBSET Nat
  BY DEF Typed, TypedRequests, Request
<1> DEFINE e == <<>>
<1>4. /\ e \in Seq(Nat) /\ Distinct(e) /\ Ids(e) = {}
      /\ req[k].base = req[k].base \o e
  BY <1>3 DEF Distinct, Ids
<1> HIDE DEF e
<1>5. made' \in Nat /\ made <= made'
  BY <1>1, <1>3
<1>6. Ids(e) \subseteq 1..made' /\ Ids(e) \cap InStore = {} /\ {} \subseteq Ids(e)
  BY <1>4
<1>7. QED
  BY <1>1, <1>2, <1>3, <1>4, <1>5, <1>6, ExtendSound

\* The steps before and behind the execution.
LEMMA OutsideSound ==
    ASSUME Typed, OneAtATime, Sound, NEW k \in Requests,
           Register(k) \/ ReadHistory(k) \/ Respond(k)
    PROVE  Sound'
<1>1. /\ Frame /\ UNCHANGED made
      /\ req[k].pc \in {"register", "read", "respond"}
  BY DEF Register, ReadHistory, Respond, Step, At, Frame, store, memory, server,
     bounds
<1>2. req[k].pc \in Holding \ {"rewinding"} /\ req[k].pc \notin Unsettled
  BY <1>1 DEF Holding, Unsettled
<1>3. made' \in Nat /\ made <= made' /\ req \in [Requests -> Request]
  BY <1>1 DEF Typed, TypedRequests
<1>4. CASE Register(k) \/ Respond(k) \/ (ReadHistory(k) /\ Main \notin open)
  <2>1. Others(k) /\ req'[k].pc \in {"read", "respond", "releasing"}
    <3>1. CASE Register(k)
      <4>1. PICK to \in {"read", "respond"} : req' = [req EXCEPT ![k].pc = to]
        BY <3>1 DEF Register, Step
      <4>2. to \in Places
        BY DEF Places, Holding
      <4>3. QED
        BY <1>3, <4>1, <4>2, StepIs
    <3>2. CASE Respond(k)
      BY <3>2, RespondIs
    <3>3. CASE ReadHistory(k) /\ Main \notin open
      BY <3>3, ReadHistoryIs
    <3>4. QED
      BY <1>4, <3>1, <3>2, <3>3
  <2>2. Stage(k)'
    BY <2>1, NotBusyNext DEF Busy, Unsettled
  <2>3. QED
    BY <1>1, <1>2, <1>3, <2>1, <2>2, FrameHolder
<1>5. CASE ReadHistory(k) /\ Main \in open
  <2>1. /\ Others(k) /\ req'[k].pc = "running" /\ req'[k].epoch = closes
        /\ req'[k].base = history[Main]
    BY <1>5, ReadHistoryIs
  <2>2. history[Main] = Saved
    BY <1>2, <1>5, Settled DEF Sound, MemorySound
  <2>3. closes \in Nat
    BY DEF Typed, TypedRequests
  <2>4. Current(k)'
    BY <1>1, <1>5, <2>1, <2>3 DEF Current, Frame
  <2>5. req'[k].base = Saved'
    BY <1>1, <2>1, <2>2 DEF Saved, Frame
  <2>6. Stage(k)'
    BY <2>1, <2>4, <2>5 DEF Stage, At, Writing, Busy, Unsettled
  <2>7. QED
    BY <1>1, <1>2, <1>3, <2>1, <2>6, FrameHolder
<1>6. QED
  BY <1>4, <1>5

\* What a store without the messages e holds once they are appended.
LEMMA AppendSound ==
    ASSUME Typed, StoreSound, Aligned(rows[Main], cache[Main]),
           NEW e \in Seq(Nat), Distinct(e), Ids(e) \cap InStore = {},
           Ids(e) \subseteq 1..made', made' \in Nat, made <= made',
           rows' = AppendMessages(rows, Main, e), UNCHANGED <<cache, known>>
    PROVE  StoreSound' /\ Saved' = Saved \o e
<1>1. /\ rows \in [Threads -> Seq(Nat)] /\ Main \in Threads
      /\ rows[Main] \in Seq(Nat) /\ cache[Main] \in Seq(Nat) /\ made \in Nat
  BY SessionAssumption DEF Typed, TypedStore, TypedRequests
<1>2. ASSUME NEW u \in Threads PROVE Ids(e) \cap Ids(rows[u]) = {}
  <2>1. CASE u = Main
    BY <2>1 DEF InStore
  <2>2. CASE u # Main
    <3>1. rows[u] = <<>>
      BY <2>2 DEF StoreSound
    <3>2. Ids(<<>>) = {}
      BY DEF Ids
    <3>3. QED
      BY <3>1, <3>2
  <2>3. QED
    BY <2>1, <2>2
<1>3. rows' = [rows EXCEPT ![Main] = rows[Main] \o e]
  BY <1>1, <1>2, AppendNew
<1>4. /\ rows'[Main] = rows[Main] \o e /\ cache'[Main] = cache[Main]
      /\ \A t \in Threads \ {Main} : rows'[t] = rows[t]
  BY <1>1, <1>3
<1>5. /\ Context(rows[Main] \o e, cache[Main]) = Context(rows[Main], cache[Main]) \o e
      /\ Aligned(rows[Main] \o e, cache[Main]) /\ Distinct(rows[Main] \o e)
  BY <1>1, ContextGrows DEF StoreSound, InStore
<1>6. InStore' = InStore \cup Ids(e)
  <2>1. Ids(rows[Main] \o e) = Ids(rows[Main]) \cup Ids(e)
    BY <1>1, ConcatIds
  <2>2. InStore' = Ids(rows'[Main]) \cup Ids(cache'[Main])
    BY DEF InStore, Ids
  <2>3. QED
    BY <1>4, <2>1, <2>2 DEF InStore
<1>7. InStore' \subseteq 1..made'
  <2>1. InStore \subseteq 1..made /\ 1..made \subseteq 1..made'
    BY <1>1 DEF StoreSound
  <2>2. QED
    BY <1>6, <2>1
<1>8. Saved' = Saved \o e
  BY <1>4, <1>5 DEF Saved
<1>9. /\ Distinct(rows[Main])' /\ Distinct(cache[Main])'
      /\ Aligned(rows[Main], cache[Main])'
  <2>1. Distinct(rows'[Main]) /\ Distinct(cache'[Main])
    BY <1>4, <1>5 DEF StoreSound
  <2>2. Aligned(rows'[Main], cache'[Main])
    BY <1>4, <1>5
  <2>3. QED
    BY <2>1, <2>2 DEF Distinct, Aligned, PrefixOf, Ids
<1>10. QED
  BY <1>4, <1>7, <1>8, <1>9 DEF StoreSound

\* A store without cache is sound if its rows are.
LEMMA ShrinkSound ==
    ASSUME Typed, StoreSound, UNCHANGED <<known, made>>,
           rows' \in [Threads -> Seq(Nat)], cache' \in [Threads -> Seq(Nat)],
           \A t \in Threads \ {Main} : rows'[t] = rows[t],
           Ids(rows'[Main]) \subseteq Ids(rows[Main]), Distinct(rows'[Main]),
           cache'[Main] = cache[Main] \/ cache'[Main] = NoCache,
           \/ rows'[Main] = <<>> \/ cache'[Main] = NoCache
           \/ \E k \in Requests : At(k, "rewinding")'
    PROVE  StoreSound'
<1>1. Ids(<<>>) = {} /\ Distinct(<<>>)
  BY DEF Ids, Distinct
<1>2. Main \in Threads /\ rows'[Main] \in Seq(Nat) /\ cache'[Main] \in Seq(Nat)
  BY SessionAssumption
<1>3. \/ Aligned(rows'[Main], cache'[Main])
      \/ \E k \in Requests : At(k, "rewinding")'
  <2>1. CASE rows'[Main] = <<>>
    BY <1>1, <2>1 DEF Aligned
  <2>2. CASE cache'[Main] = NoCache
    BY <1>1, <2>2 DEF Aligned, NoCache
  <2>3. QED
    BY <2>1, <2>2
<1>4. \/ Aligned(rows[Main], cache[Main])'
      \/ (\E k \in Requests : At(k, "rewinding"))'
  BY <1>3 DEF Aligned, PrefixOf, Ids
<1>5. Distinct(rows[Main])' /\ Distinct(cache[Main])'
  <2>1. Distinct(cache'[Main])
    BY <1>1 DEF StoreSound, NoCache
  <2>2. QED
    BY <2>1 DEF Distinct
<1>6. InStore' \subseteq 1..made'
  <2>1. InStore' = Ids(rows'[Main]) \cup Ids(cache'[Main])
    BY DEF InStore, Ids
  <2>2. Ids(cache'[Main]) \subseteq Ids(cache[Main])
    BY <1>1 DEF NoCache
  <2>3. QED
    BY <2>1, <2>2 DEF StoreSound, InStore
<1>7. QED
  BY <1>4, <1>5, <1>6 DEF StoreSound

LEMMA ConcatThree ==
    ASSUME NEW a \in Seq(Nat), NEW b \in Seq(Nat), NEW c \in Seq(Nat)
    PROVE  (a \o b) \o c = a \o (b \o c)
  BY ConcatAssociative

\* With the system message stripped the conversation and what follows it stay.
LEMMA StrippedIs ==
    ASSUME req \in [Requests -> Request], NEW k \in Requests, NEW e \in Seq(Nat),
           Distinct(req[k].base \o e), 0 \notin Ids(req[k].base \o e),
           \/ req[k].result = req[k].base \o e
           \/ req[k].result = << 0 >> \o req[k].base \o e
    PROVE  Stripped(k) = req[k].base \o e
<1> DEFINE r == req[k].result
           b == req[k].base
           u == b \o e
<1>1. /\ b \in Seq(Nat) /\ u \in Seq(Nat) /\ Len(u) = Len(b) + Len(e)
      /\ b # <<>> => Len(b) >= 1 /\ u[1] = b[1]
  BY DEF Request
<1>2. CASE r = u
  <2>1. CASE b # <<>>
    <3>1. 1 \in 1..Len(r) /\ r[1] = b[1] /\ \A i \in 1..Len(r) : r[i] = b[1] => i = 1
      <4> HIDE DEF u
      <4>1. Len(u) >= 1 /\ u[1] = b[1]
        BY <1>1, <2>1
      <4>2. \A i \in 1..Len(u) : u[i] = u[1] => i = 1
        BY <4>1, <1>1 DEF Distinct, u
      <4>3. QED
        BY <1>1, <1>2, <4>1, <4>2
    <3>2. (CHOOSE i \in 1..Len(r) : r[i] = b[1]) = 1 /\ b[1] \in Ids(r)
      BY <3>1 DEF Ids
    <3>3. Stripped(k) = SubSeq(r, 1, Len(r))
      BY <2>1, <3>2 DEF Stripped
    <3>4. QED
      BY <1>1, <1>2, <3>3, SubSeqFull
  <2>2. CASE b = <<>>
    <3>1. ~ (r # <<>> /\ r[1] = 0)
      BY <1>1, <1>2 DEF Ids
    <3>2. Stripped(k) = r
      BY <2>2, <3>1 DEF Stripped
    <3>3. QED
      BY <1>2, <3>2
  <2>3. QED
    BY <2>1, <2>2
<1>3. CASE r = << 0 >> \o b \o e
  <2>1. r = << 0 >> \o u /\ << 0 >> \in Seq(Nat)
    <3>1. << 0 >> \in Seq(Nat)
      OBVIOUS
    <3> DEFINE z == << 0 >>
    <3>2. z \in Seq(Nat) /\ b \in Seq(Nat) /\ e \in Seq(Nat) /\ r = (z \o b) \o e
      BY <1>1, <1>3, <3>1
    <3> HIDE DEF z, b, r
    <3>3. (z \o b) \o e = z \o (b \o e)
      BY <3>2, ConcatThree
    <3>4. r = z \o u
      BY <3>2, <3>3
    <3>5. QED
      BY <3>2, <3>4 DEF z
  <2>2. /\ Len(r) = Len(u) + 1 /\ r[1] = 0 /\ r \in Seq(Nat) /\ Tail(r) = u
        /\ \A i \in 1..Len(u) : r[i + 1] = u[i]
        /\ \A i \in 2..Len(r) : r[i] = u[i - 1]
    <3> HIDE DEF u, r
    <3>1. /\ Len(r) = Len(u) + 1 /\ r[1] = 0 /\ r \in Seq(Nat)
          /\ \A i \in 1..Len(u) : r[i + 1] = u[i]
          /\ \A i \in 2..Len(r) : r[i] = u[i - 1]
      <4> DEFINE z == << 0 >>
      <4>1. z \in Seq(Nat) /\ Len(z) = 1 /\ z[1] = 0 /\ r = z \o u
        BY <2>1
      <4> HIDE DEF z
      <4>2. /\ z \o u \in Seq(Nat) /\ Len(z \o u) = Len(z) + Len(u)
            /\ \A i \in 1..(Len(z) + Len(u)) :
                 (z \o u)[i] = IF i <= Len(z) THEN z[i] ELSE u[i - Len(z)]
        <5>1. u \in Seq(Nat)
          BY <1>1
        <5>2. QED
          BY ONLY <4>1, <5>1, ConcatProperties
      <4>3. Len(u) \in Nat
        BY <1>1
      <4>4. QED
        BY <4>1, <4>2, <4>3
    <3>2. /\ Tail(r) \in Seq(Nat) /\ Len(Tail(r)) = Len(u)
          /\ \A i \in 1..Len(u) : Tail(r)[i] = u[i]
      BY <1>1, <3>1
    <3>3. Tail(r) = u
      BY <1>1, <3>2, SeqEqual
    <3>4. QED
      BY <3>1, <3>3
  <2>3. CASE b = <<>>
    <3>1. r # <<>>
      BY <1>1, <2>2
    <3>2. Stripped(k) = Tail(r)
      BY <2>2, <2>3, <3>1 DEF Stripped
    <3>3. QED
      BY <2>2, <3>2
  <2>4. CASE b # <<>>
    <3> HIDE DEF u, r
    <3>1. Len(u) >= 1 /\ u[1] = b[1] /\ b[1] \in Ids(u)
      BY <1>1, <2>4 DEF Ids
    <3>2. b[1] # 0
      BY <3>1 DEF u
    <3>3. 2 \in 1..Len(r) /\ r[2] = b[1]
      BY <1>1, <2>2, <3>1
    <3>4. ASSUME NEW i \in 1..Len(r), r[i] = b[1] PROVE i = 2
      <4>1. i # 1
        BY <2>2, <3>2, <3>4
      <4>2. i - 1 \in 1..Len(u) /\ u[i - 1] = u[1] /\ 1 \in 1..Len(u)
        BY <1>1, <2>2, <3>1, <3>4, <4>1
      <4>3. i - 1 = 1
        BY <4>2 DEF Distinct, u
      <4>4. QED
        BY <4>3
    <3>5. (CHOOSE i \in 1..Len(r) : r[i] = b[1]) = 2 /\ b[1] \in Ids(r)
      BY <3>3, <3>4 DEF Ids
    <3>6. Stripped(k) = SubSeq(r, 2, Len(r))
      BY <2>4, <3>5 DEF Stripped, r
    <3>7. Tail(r) = SubSeq(r, 2, Len(r))
      <4>1. r # <<>>
        BY <3>3
      <4>2. QED
        BY <2>2, <4>1, TailIsSubSeq
    <3>8. QED
      BY <2>2, <3>6, <3>7 DEF u
  <2>5. QED
    BY <2>3, <2>4
<1>4. QED
  BY <1>2, <1>3

LEMMA SavedIs ==
    ASSUME Typed, StoreSound, Aligned(rows[Main], cache[Main])
    PROVE  /\ Saved \in Seq(Nat) /\ Distinct(Saved)
           /\ Ids(rows[Main]) \subseteq Ids(Saved) /\ Ids(Saved) \subseteq InStore
           /\ 0 \notin Ids(Saved)
<1>1. rows[Main] \in Seq(Nat) /\ cache[Main] \in Seq(Nat) /\ made \in Nat
  BY SessionAssumption DEF Typed, TypedStore, TypedRequests
<1>2. /\ Saved \in Seq(Nat) /\ Distinct(Saved)
      /\ Ids(rows[Main]) \subseteq Ids(Saved) /\ Ids(Saved) \subseteq InStore
  BY <1>1, ContextType, ContextDistinct DEF StoreSound, Saved, InStore
<1>3. 0 \notin 1..made /\ InStore \subseteq 1..made
  BY <1>1 DEF StoreSound
<1>4. QED
  BY <1>2, <1>3

\* Unless a rewind is at work, the cache fits the rows.
LEMMA HolderAligned ==
    ASSUME OneAtATime, StoreSound, NEW k \in Requests,
           req[k].pc \in Holding \ {"rewinding"}
    PROVE  Aligned(rows[Main], cache[Main])
  BY DEF StoreSound, OneAtATime, At, Holding

\* The holder changes the store while the memory waits.
LEMMA WriterSound ==
    ASSUME OneAtATime, Sound, NEW k \in Requests, req[k].pc \in Holding,
           Others(k), req'[k].pc \in Unsettled, UNCHANGED <<open, history, loop>>,
           loop.pc \notin Loading, StoreSound', Stage(k)'
    PROVE  Sound'
<1>1. LoadSound'
  BY DEF LoadSound
<1>2. MemorySound'
  BY DEF Sound, MemorySound, Distinct
<1>3. QED
  BY <1>1, <1>2, HolderStep DEF Sound

\* What is left of a conversation that is cut before its message i.
LEMMA CutOff ==
    ASSUME NEW s \in Seq(Nat), Distinct(s), NEW i \in 1..Len(s)
    PROVE  LET p == SubSeq(s, 1, i - 1)
           IN  /\ p \in Seq(Nat) /\ Len(p) < Len(s) /\ Distinct(p)
               /\ Ids(p) \subseteq Ids(s)
<1> DEFINE b == i - 1
           p == SubSeq(s, 1, b)
<1>1. 1 \in Nat \ {0} /\ b \in Nat /\ b < Len(s) /\ b \in Int /\ b <= Len(s)
      /\ b - 1 + 1 = b
  OBVIOUS
<1> HIDE DEF b
<1>2. p \in Seq(Nat) /\ Len(p) = b /\ \A j \in 1..b : p[j] = s[j]
  <2>1. /\ p \in Seq(Nat) /\ Len(p) = IF 1 <= b THEN b - 1 + 1 ELSE 0
        /\ \A j \in 1..(b - 1 + 1) : p[j] = s[1 + j - 1]
    BY <1>1, SubSeqType
  <2>2. QED
    BY <1>1, <2>1
<1> HIDE DEF p
<1>3. \A j \in 1..Len(p) : j \in 1..Len(s) /\ p[j] = s[j]
  BY <1>1, <1>2
<1>4. Distinct(p)
  BY <1>3 DEF Distinct
<1>5. Ids(p) \subseteq Ids(s)
  BY <1>3 DEF Ids
<1>6. QED
  BY <1>1, <1>2, <1>4, <1>5 DEF p, b

LEMMA RewindSound ==
    ASSUME Sheltered, Typed, OneAtATime, Sound, NEW k \in Requests,
           RewindCommand(k)
    PROVE  Sound'
<1>1. /\ At(k, "running") /\ Rewinds = "undisturbed" /\ Main \in open
      /\ req[k].epoch = closes /\ ~req[k].cancelled
      /\ UNCHANGED <<cache, known, open, history, loop, made, closes>>
  BY SessionAssumption
     DEF RewindCommand, Sheltered, memory, server, bounds
<1>2. req[k].pc \in Holding \ {"rewinding"}
  BY <1>1 DEF At, Holding
<1>3. /\ Others(k) /\ req'[k].pc = "rewinding" /\ req'[k].base = req[k].base
      /\ req'[k].epoch = req[k].epoch /\ req'[k].cancelled = req[k].cancelled
  BY RewindIs
<1>4. PICK i \in 1..Len(req[k].base) :
        /\ req'[k].result = SubSeq(req[k].base, 1, i - 1)
        /\ rows' = DeleteMessages(rows, Main,
                     Ids(SubSeq(req[k].base, i, Len(req[k].base))))
  BY RewindIs
<1>5. /\ req[k].base = Saved /\ history[Main] = req[k].base
      /\ req[k].base \in Seq(Nat)
  BY <1>1, RunningIs
<1>6. /\ Distinct(req[k].base) /\ Ids(req[k].base) \subseteq InStore
      /\ Ids(rows[Main]) \subseteq Ids(req[k].base)
  BY <1>2, <1>5, HolderAligned, SavedIs DEF Sound
<1>7. loop.pc \notin Loading
  BY <1>1, <1>4, <1>5 DEF Sound, LoadSound
<1>8. /\ Len(req'[k].result) < Len(req'[k].base) /\ Distinct(req'[k].result)
      /\ Ids(req'[k].result) \subseteq Ids(req[k].base)
  BY <1>3, <1>4, <1>5, <1>6, CutOff
<1>9. /\ rows' \in [Threads -> Seq(Nat)]
      /\ \A t \in Threads \ {Main} : rows'[t] = rows[t]
      /\ Ids(rows'[Main]) \subseteq Ids(rows[Main]) /\ Distinct(rows'[Main])
  <2> DEFINE d == Ids(SubSeq(req[k].base, i, Len(req[k].base)))
  <2>1. rows' = DeleteMessages(rows, Main, d)
    BY <1>4
  <2>2. rows \in [Threads -> Seq(Nat)] /\ Main \in Threads /\ Distinct(rows[Main])
    BY SessionAssumption DEF Typed, TypedStore, Sound, StoreSound
  <2> HIDE DEF d
  <2>3. /\ DeleteMessages(rows, Main, d) \in [Threads -> Seq(Nat)]
        /\ \A u \in Threads \ {Main} : DeleteMessages(rows, Main, d)[u] = rows[u]
        /\ Ids(DeleteMessages(rows, Main, d)[Main]) \subseteq Ids(rows[Main]) \ d
        /\ Distinct(DeleteMessages(rows, Main, d)[Main])
    <3>1. DeleteMessages(rows, Main, d) \in [Threads -> Seq(Nat)]
      BY ONLY <2>2, DeleteType
    <3>2. \A u \in Threads \ {Main} : DeleteMessages(rows, Main, d)[u] = rows[u]
      BY ONLY <2>2, DeleteType
    <3>3. Ids(DeleteMessages(rows, Main, d)[Main]) \subseteq Ids(rows[Main]) \ d
      BY ONLY <2>2, DeleteType
    <3>4. Distinct(DeleteMessages(rows, Main, d)[Main])
      BY ONLY <2>2, DeleteType
    <3>5. QED
      BY ONLY <3>1, <3>2, <3>3, <3>4
  <2>4. QED
    BY ONLY <2>1, <2>3
<1>10. StoreSound'
  <2>1. \E j \in Requests : At(j, "rewinding")'
    BY <1>3 DEF At
  <2>2. cache' \in [Threads -> Seq(Nat)]
    BY <1>1 DEF Typed, TypedStore
  <2>3. QED
    BY <1>1, <1>9, <2>1, <2>2, ShrinkSound DEF Sound
<1>11. Stage(k)'
  <2>1. Shorter(k)'
    <3>1. Ids(rows'[Main]) \subseteq Ids(req'[k].base)
      BY <1>3, <1>6, <1>9
    <3>2. Ids(req'[k].result) \subseteq 1..made'
      BY <1>1, <1>6, <1>8 DEF Sound, StoreSound
    <3>3. QED
      BY <1>8, <3>1, <3>2 DEF Shorter, Distinct, Ids
  <2>2. Rewound(k)'
    BY <1>1, <1>3, <1>7, <2>1 DEF Rewound
  <2>3. Current(k)'
    BY <1>1, <1>3, <1>5 DEF Current, Typed, TypedRequests
  <2>4. QED
    BY <1>3, <2>2, <2>3 DEF Stage, At, Writing
<1>12. req'[k].pc \in Unsettled
  BY <1>3 DEF Unsettled
<1>13. QED
  BY <1>1, <1>2, <1>3, <1>7, <1>10, <1>11, <1>12, WriterSound

LEMMA ClearsSound ==
    ASSUME Typed, OneAtATime, Sound, NEW k \in Requests,
           RewindClearsCache(k) \/ PersistClearsCache(k)
    PROVE  Sound'
<1>1. /\ UNCHANGED <<rows, known, open, history, loop, made, closes>>
      /\ cache' = [cache EXCEPT ![Main] = NoCache]
  BY DEF RewindClearsCache, PersistClearsCache, memory, server, bounds
<1>2. PICK to \in {"rewound", "invalidated"} :
        /\ req' = [req EXCEPT ![k].pc = to]
        /\ to = "rewound" => At(k, "rewinding")
        /\ to = "invalidated" => At(k, "deleted")
  BY DEF RewindClearsCache, PersistClearsCache, Step
<1>3. to \in Places /\ req \in [Requests -> Request] /\ Main \in Threads
  BY SessionAssumption DEF Places, Holding, Typed, TypedRequests
<1>4. Others(k) /\ Same(k) /\ req'[k].pc = to
  BY <1>2, <1>3, StepIs
<1>5. req[k].pc \in Holding /\ req'[k].pc \in Unsettled
  BY <1>2, <1>4 DEF At, Holding, Unsettled
<1>6. loop.pc \notin Loading
  <2>1. CASE to = "rewound"
    BY <1>2, <2>1 DEF Sound, Stage, Rewound, At
  <2>2. CASE to = "invalidated"
    BY <1>2, <2>2 DEF Typed, TypedMutex, Writing, At
  <2>3. QED
    BY <2>1, <2>2
<1>7. cache' \in [Threads -> Seq(Nat)] /\ cache'[Main] = NoCache
  BY <1>1, <1>3 DEF Typed, TypedStore, NoCache
<1>8. StoreSound'
  <2>1. rows' \in [Threads -> Seq(Nat)] /\ Distinct(rows'[Main])
    BY <1>1 DEF Typed, TypedStore, Sound, StoreSound
  <2>2. \A t \in Threads \ {Main} : rows'[t] = rows[t]
    BY <1>1
  <2>3. Ids(rows'[Main]) \subseteq Ids(rows[Main])
    BY <1>1
  <2>4. StoreSound /\ UNCHANGED <<known, made>>
    BY <1>1 DEF Sound
  <2>5. QED
    BY <1>7, <2>1, <2>2, <2>3, <2>4, ShrinkSound
<1>9. Stage(k)'
  <2>1. Current(k) /\ Shorter(k)
    BY <1>2 DEF Sound, Stage, Rewound, Cut, Busy, Unsettled, At
  <2>2. Current(k)'
    BY <1>1, <1>4, <2>1 DEF Current, Same
  <2>3. Shorter(k)'
    <3>1. req'[k].result = req[k].result /\ req'[k].base = req[k].base
      BY <1>4 DEF Same
    <3>2. rows' = rows /\ made' = made
      BY <1>1
    <3>3. /\ Len(req'[k].result) < Len(req'[k].base) /\ Distinct(req'[k].result)
          /\ Ids(req'[k].result) \subseteq 1..made'
          /\ Ids(rows'[Main]) \subseteq Ids(req'[k].base)
      BY <2>1, <3>1, <3>2 DEF Shorter
    <3>4. QED
      BY ONLY <3>3 DEF Shorter, Distinct, Ids
  <2>4. CASE to = "rewound"
    <3>1. Rewound(k)
      BY <1>2, <2>4 DEF Sound, Stage, At
    <3>2. Rewound(k)'
      BY <1>1, <1>4, <2>3, <3>1 DEF Rewound, Same
    <3>3. QED
      BY <1>4, <1>7, <2>2, <2>4, <3>2 DEF Stage, At, Writing
  <2>5. CASE to = "invalidated"
    <3>1. Cut(k) /\ rows[Main] = <<>> /\ Main \in open
      BY <1>2, <2>5 DEF Sound, Stage, At, Writing
    <3>2. Cut(k)'
      BY <1>1, <1>4, <2>3, <3>1 DEF Cut, Same
    <3>3. QED
      BY <1>1, <1>4, <1>7, <2>2, <2>5, <3>1, <3>2 DEF Stage, At, Writing
  <2>6. QED
    BY <2>4, <2>5
<1>10. QED
  BY <1>1, <1>4, <1>5, <1>6, <1>8, <1>9, WriterSound

LEMMA CompactedSound ==
    ASSUME Typed, OneAtATime, Sound, NEW k \in Requests, PersistCompacted(k)
    PROVE  Sound'
<1>1. /\ UNCHANGED <<cache, known, open, history, loop, made, closes>>
      /\ rows' = AppendMessages(rows, Main, req[k].result)
      /\ At(k, "invalidated") /\ req' = [req EXCEPT ![k].pc = "publish"]
  BY DEF PersistCompacted, Step, memory, server, bounds
<1>2. req \in [Requests -> Request] /\ "publish" \in Places /\ made \in Nat
      /\ req[k].result \in Seq(Nat)
  BY DEF Places, Holding, Typed, TypedRequests, Request
<1>3. Others(k) /\ Same(k) /\ req'[k].pc = "publish"
  BY <1>1, <1>2, StepIs
<1>4. /\ Cut(k) /\ rows[Main] = <<>> /\ cache[Main] = NoCache /\ Main \in open
      /\ Current(k)
  BY <1>1 DEF Sound, Stage, At, Writing, Busy, Unsettled
<1>5. /\ Distinct(req[k].result) /\ Ids(req[k].result) \subseteq 1..made
      /\ req[k].ok
  BY <1>4 DEF Cut, Shorter
<1>6. InStore = {} /\ Saved = <<>> /\ Aligned(rows[Main], cache[Main])
  <2>1. Ids(<<>>) = {}
    BY DEF Ids
  <2>2. QED
    BY <1>4, <2>1 DEF InStore, Saved, Context, Aligned, NoCache
<1>7. StoreSound' /\ Saved' = Saved \o req[k].result
  <2> DEFINE e == req[k].result
  <2>1. /\ e \in Seq(Nat) /\ Distinct(e) /\ Ids(e) \cap InStore = {}
        /\ Ids(e) \subseteq 1..made' /\ made' \in Nat /\ made <= made'
        /\ rows' = AppendMessages(rows, Main, e) /\ UNCHANGED <<cache, known>>
        /\ StoreSound
    BY <1>1, <1>2, <1>5, <1>6 DEF Sound
  <2> HIDE DEF e
  <2>2. StoreSound' /\ Saved' = Saved \o e
    BY <1>6, <2>1, AppendSound
  <2>3. QED
    BY <2>2 DEF e
<1>8. Saved' = req[k].result
  BY <1>2, <1>6, <1>7
<1>9. Stage(k)'
  <2>1. Kept(k)'
    BY <1>3, <1>5, <1>8 DEF Kept, Same
  <2>2. Current(k)'
    BY <1>1, <1>3, <1>4 DEF Current, Same
  <2>3. QED
    BY <1>1, <1>3, <1>4, <2>1, <2>2 DEF Stage, At, Writing
<1>10. loop.pc \notin Loading
  BY <1>1 DEF Typed, TypedMutex, Writing, At
<1>11. req[k].pc \in Holding /\ req'[k].pc \in Unsettled
  BY <1>1, <1>3 DEF At, Holding, Unsettled
<1>12. QED
  BY <1>1, <1>3, <1>7, <1>9, <1>10, <1>11, WriterSound

LEMMA SuffixOf ==
    ASSUME NEW b \in Seq(Nat), NEW e \in Seq(Nat)
    PROVE  Suffix(b \o e, Len(b)) = e
<1> DEFINE u == b \o e
           n == Len(b)
<1>1. /\ u \in Seq(Nat) /\ n \in Nat /\ Len(u) = n + Len(e) /\ Len(e) \in Nat
      /\ \A i \in 1..Len(e) : u[n + i] = e[i]
  OBVIOUS
<1> HIDE DEF u, n
<1>2. /\ Suffix(u, n) \in Seq(Nat)
      /\ Len(Suffix(u, n)) = IF n <= Len(u) THEN Len(u) - n ELSE 0
      /\ \A i \in 1..(Len(u) - n) : Suffix(u, n)[i] = u[n + i]
  BY <1>1, SuffixType
<1>3. Len(Suffix(u, n)) = Len(e) /\ \A i \in 1..Len(e) : Suffix(u, n)[i] = e[i]
  BY <1>1, <1>2
<1>4. Suffix(u, n) = e
  BY <1>2, <1>3, SeqEqual
<1>5. QED
  BY <1>4 DEF u, n

\* The two judgements of a result depend on the request alone.
LEMMA SameResult ==
    ASSUME NEW k \in Requests, Same(k)
    PROVE  Progressed(k)' = Progressed(k) /\ Stripped(k)' = Stripped(k)
  BY DEF Same, Progressed, Stripped, Ids

\* How a finished execution without fewer messages than before begins.
LEMMA PersistsGrown ==
    ASSUME Typed, OneAtATime, Sound, NEW k \in Requests, At(k, "persist"),
           Main \in open, NEW e \in Seq(Nat), req[k].base = Saved,
           history[Main] = Saved, Extended(k, e)
    PROVE  /\ ~Shrunk(k)
           /\ Grown(k) \/ Progressed(k) => Stripped(k) = Saved \o e
           /\ Grown(k) => req[k].result = Saved \o e
           /\ ~Grown(k) /\ req[k].ok => req[k].result = Saved
           /\ Suffix(Saved \o e, Len(req[k].base)) = e
<1> DEFINE b == req[k].base
<1>1. /\ req \in [Requests -> Request] /\ req[k].ok \in BOOLEAN
      /\ b \in Seq(Nat) /\ b = Saved /\ made \in Nat
  BY DEF Typed, TypedRequests, Request
<1>2. /\ Distinct(e) /\ Ids(e) \subseteq 1..made /\ Ids(e) \cap InStore = {}
  BY DEF Extended
<1>3. Distinct(Saved) /\ Ids(Saved) \subseteq InStore /\ 0 \notin Ids(Saved)
  <2>1. req[k].pc \in Holding \ {"rewinding"}
    BY DEF At, Holding
  <2>2. Aligned(rows[Main], cache[Main])
    BY <2>1, HolderAligned DEF Sound
  <2>3. QED
    BY <2>2, SavedIs DEF Sound
<1>4. Ids(b \o e) = Ids(b) \cup Ids(e) /\ b \o e \in Seq(Nat)
  BY <1>1, ConcatIds
<1>5. Distinct(b \o e) /\ 0 \notin Ids(b \o e)
  <2>1. Ids(b) \cap Ids(e) = {} /\ Distinct(b)
    BY <1>1, <1>2, <1>3
  <2>2. 0 \notin Ids(e)
    BY <1>1, <1>2
  <2>3. Distinct(b \o e)
    BY <1>1, <1>2, <2>1, ConcatDistinct
  <2>4. QED
    BY <1>1, <1>3, <1>4, <2>2, <2>3
<1>6. Stripped(k) = b \o e
  BY <1>1, <1>5, StrippedIs DEF Extended
<1>7. Len(b \o e) = Len(b) + Len(e) /\ Len(b) \in Nat /\ Len(e) \in Nat
  BY <1>1
<1>9. Suffix(Saved \o e, Len(b)) = e
  BY <1>1, SuffixOf
<1>10. CASE req[k].result = b \o e
  <2>1. Len(req[k].result) = Len(b) + Len(e)
    BY <1>7, <1>10
  <2>2. ~Shrunk(k)
    BY <1>7, <2>1 DEF Shrunk
  <2>3. ~Grown(k) /\ req[k].ok => Len(e) = 0
    BY <1>7, <2>1 DEF Grown
  <2>4. Len(e) = 0 => Ids(e) = {} /\ b \o e = b
    BY <1>1 DEF Ids
  <2>5. QED
    BY <1>1, <1>4, <1>6, <1>9, <1>10, <2>2, <2>3, <2>4
<1>11. CASE req[k].result # b \o e
  <2>1. req[k].result = << 0 >> \o b \o e /\ ~req[k].ok /\ Len(e) = 1
    BY <1>11 DEF Extended
  <2>2. ~Shrunk(k) /\ ~Grown(k)
    BY <2>1 DEF Shrunk, Grown
  <2>3. QED
    BY <1>1, <1>4, <1>6, <1>9, <2>1, <2>2
<1>12. QED
  BY <1>10, <1>11

LEMMA PersistSound ==
    ASSUME Typed, OneAtATime, Sound, NEW k \in Requests, Persist(k)
    PROVE  Sound'
<1>1. /\ At(k, "persist") /\ mutex = "free"
      /\ UNCHANGED <<cache, known, open, history, loop, made, closes>>
  BY DEF Persist, memory, bounds
<1>2. /\ req \in [Requests -> Request] /\ made \in Nat /\ made' \in Nat
      /\ made <= made' /\ Main \in Threads /\ rows \in [Threads -> Seq(Nat)]
      /\ {"respond", "deleted", "publish"} \subseteq Places
  BY <1>1, SessionAssumption
     DEF Typed, TypedStore, TypedRequests, Places, Holding
<1>3. req[k].pc \in Holding \ {"rewinding"} /\ req[k].pc \in Holding
  BY <1>1 DEF At, Holding
<1>4. CASE Main \notin open
  <2>1. req' = [req EXCEPT ![k].pc = "respond"] /\ rows' = rows
    BY <1>4 DEF Persist
  <2>2. Others(k) /\ req'[k].pc = "respond"
    BY <1>2, <2>1, StepIs
  <2>3. Stage(k)'
    BY <2>2, NotBusyNext DEF Busy, Unsettled
  <2>4. Frame
    BY <1>1, <2>1 DEF Frame
  <2>5. QED
    BY <1>2, <1>3, <1>4, <2>2, <2>3, <2>4, FrameHolder
<1> SUFFICES ASSUME Main \in open PROVE Sound'
  BY <1>4
<1>5. loop.pc \notin Loading
  BY <1>1 DEF Typed, TypedMutex
<1>6. Aligned(rows[Main], cache[Main]) /\ StoreSound
  BY <1>3, HolderAligned DEF Sound
<1>7. Current(k) /\ (Grew(k) \/ Cut(k))
  BY <1>1 DEF Sound, Stage, At, Busy, Unsettled
<1>8. PICK to \in {"deleted", "publish"} :
        /\ req' = [req EXCEPT ![k].pc = to]
        /\ to = IF Shrunk(k) THEN "deleted" ELSE "publish"
  BY DEF Persist
<1>9. Others(k) /\ Same(k) /\ req'[k].pc = to
  BY <1>2, <1>8, StepIs
<1>10. req'[k].pc \in Unsettled
  BY <1>9 DEF Unsettled
<1>11. Current(k)'
  BY <1>1, <1>7, <1>9 DEF Current, Same
<1>12. ASSUME Grew(k) PROVE StoreSound' /\ Stage(k)'
  <2>1. PICK e \in Seq(Nat) : Extended(k, e)
    BY <1>12 DEF Grew
  <2>2. req[k].base = Saved /\ history[Main] = Saved
    BY <1>12 DEF Grew
  <2>3. /\ ~Shrunk(k)
        /\ Grown(k) \/ Progressed(k) => Stripped(k) = Saved \o e
        /\ Grown(k) => req[k].result = Saved \o e
        /\ ~Grown(k) /\ req[k].ok => req[k].result = Saved
        /\ Suffix(Saved \o e, Len(req[k].base)) = e
    BY <1>1, <2>1, <2>2, PersistsGrown
  <2>4. to = "publish"
    BY <1>8, <2>3
  <2>5. Progressed(k)' = Progressed(k) /\ Stripped(k)' = Stripped(k)
    BY <1>9, SameResult
  <2>6. CASE ~Grown(k) /\ ~Progressed(k)
    <3>1. rows' = rows
      BY <2>3, <2>6 DEF Persist
    <3>2. Saved' = Saved
      BY <1>1, <3>1 DEF Saved
    <3>3. Kept(k)'
      BY <1>1, <1>9, <2>2, <2>3, <2>5, <2>6, <3>2 DEF Kept, Same
    <3>4. Stage(k)'
      BY <1>1, <1>9, <1>11, <2>4, <3>3 DEF Stage, At, Writing
    <3>5. StoreSound'
      <4>1. UNCHANGED <<rows, cache, known>>
        BY <1>1, <3>1
      <4>2. \A j \in Requests : At(j, "rewinding") => At(j, "rewinding")'
        BY <1>3, <1>9 DEF At, Others
      <4>3. QED
        BY <1>2, <1>6, <4>1, <4>2, FrameStore
    <3>6. QED
      BY <3>4, <3>5
  <2>7. CASE Grown(k) \/ Progressed(k)
    <3>1. rows' = AppendMessages(rows, Main, e)
      <4>1. CASE Grown(k)
        BY <2>2, <2>3, <4>1 DEF Persist
      <4>2. CASE ~Grown(k) /\ Progressed(k)
        BY <2>2, <2>3, <4>2 DEF Persist
      <4>3. QED
        BY <2>7, <4>1, <4>2
    <3>2. Distinct(e) /\ Ids(e) \cap InStore = {} /\ Ids(e) \subseteq 1..made'
      BY <1>1, <2>1 DEF Extended
    <3>3. StoreSound' /\ Saved' = Saved \o e
      BY <1>1, <1>2, <1>6, <3>1, <3>2, AppendSound
    <3>4. req[k].ok /\ Progressed(k) => FALSE
      BY DEF Progressed
    <3>5. ~req[k].ok /\ Grown(k) => FALSE
      BY DEF Grown
    <3>7. Kept(k)'
      BY <1>9, <2>3, <2>5, <2>7, <3>3, <3>4, <3>5 DEF Kept, Same
    <3>8. Stage(k)'
      BY <1>1, <1>9, <1>11, <2>4, <3>7 DEF Stage, At, Writing
    <3>9. QED
      BY <3>3, <3>8
  <2>8. QED
    BY <2>6, <2>7
<1>13. ASSUME Cut(k) PROVE StoreSound' /\ Stage(k)'
  <2>1. /\ Shrunk(k) /\ ~Grown(k) /\ Shorter(k) /\ req[k].ok
        /\ ~Progressed(k)
    <3>1. Len(req[k].result) \in Nat /\ Len(req[k].base) \in Nat
      BY <1>2 DEF Request
    <3>2. QED
      BY <1>13, <3>1 DEF Cut, Shorter, Shrunk, Grown, Progressed
  <2> DEFINE d == Ids(req[k].base)
  <2>2. rows' = DeleteMessages(rows, Main, d) /\ to = "deleted"
    BY <1>8, <2>1 DEF Persist
  <2>3. Ids(rows[Main]) \subseteq d
    BY <2>1 DEF Shorter
  <2> HIDE DEF d
  <2>4. DeleteMessages(rows, Main, d)[Main] = <<>>
    BY <1>2, <2>3, DeleteAll
  <2>5. DeleteMessages(rows, Main, d) \in [Threads -> Seq(Nat)]
    BY ONLY <1>2, DeleteType
  <2>6. \A u \in Threads \ {Main} : DeleteMessages(rows, Main, d)[u] = rows[u]
    BY ONLY <1>2, DeleteType
  <2>7. Ids(<<>>) = {} /\ Distinct(<<>>)
    BY DEF Ids, Distinct
  <2>8. /\ rows'[Main] = <<>> /\ rows' \in [Threads -> Seq(Nat)]
        /\ \A u \in Threads \ {Main} : rows'[u] = rows[u]
        /\ Ids(rows'[Main]) \subseteq Ids(rows[Main]) /\ Distinct(rows'[Main])
    BY <2>2, <2>4, <2>5, <2>6, <2>7
  <2>9. StoreSound'
    <3>1. cache' \in [Threads -> Seq(Nat)] /\ cache'[Main] = cache[Main]
      BY <1>1 DEF Typed, TypedStore
    <3>2. UNCHANGED <<known, made>>
      BY <1>1
    <3>3. QED
      BY <1>6, <2>8, <3>1, <3>2, ShrinkSound
  <2>10. Cut(k)'
    <3>1. req'[k].result = req[k].result /\ req'[k].base = req[k].base
      BY <1>9 DEF Same
    <3>2. /\ Len(req'[k].result) < Len(req'[k].base) /\ Distinct(req'[k].result)
          /\ Ids(req'[k].result) \subseteq 1..made'
          /\ Ids(rows'[Main]) \subseteq Ids(req'[k].base)
      BY <1>1, <2>1, <2>3, <2>7, <2>8, <3>1 DEF Shorter
    <3>3. Shorter(k)'
      BY ONLY <3>2 DEF Shorter, Distinct, Ids
    <3>4. QED
      BY <1>9, <2>1, <3>3 DEF Cut, Same
  <2>11. Stage(k)'
    BY <1>1, <1>9, <1>11, <2>2, <2>8, <2>10 DEF Stage, At, Writing
  <2>12. QED
    BY <2>9, <2>11
<1>14. QED
  BY <1>1, <1>3, <1>5, <1>7, <1>9, <1>10, <1>12, <1>13, WriterSound

\* The memory takes over what the store has.
LEMMA PublishSound ==
    ASSUME Typed, OneAtATime, Sound, NEW k \in Requests, Publish(k)
    PROVE  Sound'
<1>1. /\ At(k, "publish") /\ req' = [req EXCEPT ![k].pc = "respond"]
      /\ UNCHANGED <<rows, cache, known, open, loop, made, closes>>
  BY DEF Publish, Step, store, bounds
<1>2. /\ req \in [Requests -> Request] /\ made \in Nat /\ made' \in Nat
      /\ made <= made' /\ Main \in Threads /\ "respond" \in Places
      /\ history \in [Threads -> Seq(Nat)]
  BY <1>1, SessionAssumption
     DEF Typed, TypedStore, TypedRequests, Places, Holding
<1>r. /\ req[k].ok \in BOOLEAN /\ req[k].base \in Seq(Nat)
      /\ Len(req[k].base) \in Nat
  BY <1>2 DEF Request
<1>3. Others(k) /\ req'[k].pc = "respond"
  BY <1>1, <1>2, StepIs
<1>4. req[k].pc \in Holding \ {"rewinding"} /\ loop.pc \notin Loading
  BY <1>1 DEF At, Holding, Typed, TypedMutex, Writing
<1>5. Aligned(rows[Main], cache[Main]) /\ StoreSound
  BY <1>4, HolderAligned DEF Sound
<1>6. Kept(k) /\ Main \in open
  BY <1>1 DEF Sound, Stage, At, Writing
<1>7. history'[Main] = Saved
  <2> DEFINE cut == Truncate(history[Main], Len(req[k].base))
  <2>1. history' = [history EXCEPT ![Main] =
                      CASE req[k].ok -> req[k].result
                        [] Progressed(k) -> Stripped(k)
                        [] OTHER -> cut]
    BY DEF Publish
  <2> HIDE DEF cut
  <2>2. CASE req[k].ok
    <3>1. ~Progressed(k)
      BY <2>2 DEF Progressed
    <3>2. history'[Main] = req[k].result
      BY <1>2, <2>1, <2>2, <3>1
    <3>3. QED
      BY <1>6, <2>2, <3>2 DEF Kept
  <2>3. CASE ~req[k].ok /\ Progressed(k)
    <3>1. history'[Main] = Stripped(k)
      BY <1>2, <2>1, <2>3
    <3>2. QED
      BY <1>6, <2>3, <3>1 DEF Kept
  <2>4. CASE ~req[k].ok /\ ~Progressed(k)
    <3>1. history'[Main] = cut
      BY <1>2, <2>1, <2>4
    <3>2. Saved = req[k].base /\ history[Main] = req[k].base
      BY <1>6, <2>4 DEF Kept
    <3>3. cut = history[Main]
      <4> DEFINE h == history[Main]
      <4>1. h \in Seq(Nat) /\ Len(h) = Len(req[k].base)
        BY <1>2, <3>2
      <4> HIDE DEF h
      <4>2. Truncate(h, Len(req[k].base)) = h
        BY <1>r, <4>1, TruncateType
      <4>3. QED
        BY <4>2 DEF h, cut
    <3>4. QED
      BY <3>1, <3>2, <3>3
  <2>5. QED
    BY <1>r, <2>2, <2>3, <2>4
<1>8. StoreSound'
  <2>1. \A j \in Requests : At(j, "rewinding") => At(j, "rewinding")'
    BY <1>4, <1>3 DEF At, Others
  <2>2. UNCHANGED <<rows, cache, known>>
    BY <1>1
  <2>3. QED
    BY <1>2, <1>5, <2>1, <2>2, FrameStore
<1>9. LoadSound'
  BY <1>1, <1>4 DEF LoadSound
<1>10. MemorySound'
  <2>1. Distinct(history'[Main])
    BY <1>5, <1>7, SavedIs
  <2>2. Saved' = Saved
    BY <1>1 DEF Saved
  <2>3. QED
    BY <1>7, <2>1, <2>2 DEF MemorySound, Distinct
<1>11. Stage(k)'
  BY <1>3, NotBusyNext DEF Busy, Unsettled
<1>12. QED
  BY <1>3, <1>4, <1>8, <1>9, <1>10, <1>11, HolderStep DEF Sound

LEMMA AppendHistorySound ==
    ASSUME Typed, OneAtATime, Sound, NEW k \in Requests, AppendHistory(k)
    PROVE  Sound'
<1>1. /\ At(k, "append") /\ req' = [req EXCEPT ![k].pc = "respond"]
      /\ UNCHANGED <<cache, known, open, loop, closes>> /\ mutex = "free"
  BY DEF AppendHistory, Step, server
<1>2. /\ req \in [Requests -> Request] /\ made \in Nat /\ Main \in Threads
      /\ "respond" \in Places /\ history \in [Threads -> Seq(Nat)]
  BY SessionAssumption DEF Typed, TypedStore, TypedRequests, Places, Holding
<1>3. Others(k) /\ req'[k].pc = "respond"
  BY <1>1, <1>2, StepIs
<1>4. /\ req[k].pc \in Holding \ {"rewinding"} /\ req[k].pc \notin Unsettled
      /\ loop.pc \notin Loading
  BY <1>1 DEF At, Holding, Unsettled, Typed, TypedMutex
<1>5. Stage(k)'
  BY <1>3, NotBusyNext DEF Busy, Unsettled
<1>6. CASE Main \notin open
  <2>1. Frame /\ made' = made
    BY <1>1, <1>6 DEF AppendHistory, Frame
  <2>2. QED
    BY <1>2, <1>3, <1>4, <1>5, <2>1, FrameHolder
<1>7. CASE Main \in open
  <2>1. Aligned(rows[Main], cache[Main]) /\ StoreSound
    BY <1>4, HolderAligned DEF Sound
  <2>2. history[Main] = Saved
    BY <1>4, <1>7, Settled DEF Sound, MemorySound
  <2> DEFINE e == Fresh(2)
  <2>3. /\ history' = [history EXCEPT ![Main] = history[Main] \o e]
        /\ rows' = AppendMessages(rows, Main, e) /\ made' = made + 2
    BY <1>7 DEF AppendHistory
  <2>4. /\ e \in Seq(Nat) /\ Distinct(e) /\ Ids(e) \cap InStore = {}
        /\ Ids(e) \subseteq 1..(made + 2)
    <3>1. 2 \in Nat
      OBVIOUS
    <3>2. QED
      BY <2>1, <3>1, NewMessages
  <2> HIDE DEF e
  <2>5. made' \in Nat /\ made <= made' /\ Ids(e) \subseteq 1..made'
    BY <1>2, <2>3, <2>4
  <2>6. StoreSound' /\ Saved' = Saved \o e
    BY <1>1, <2>1, <2>3, <2>4, <2>5, AppendSound
  <2>7. history'[Main] = Saved'
    BY <1>2, <2>2, <2>3, <2>6
  <2>8. Distinct(Saved \o e)
    <3>1. Saved \in Seq(Nat) /\ Distinct(Saved) /\ Ids(Saved) \cap Ids(e) = {}
      BY <2>1, <2>4, SavedIs
    <3>2. QED
      BY <2>4, <3>1, ConcatDistinct
  <2>9. MemorySound'
    <3>1. Distinct(history'[Main])
      BY <2>6, <2>7, <2>8
    <3>2. QED
      BY <2>7, <3>1 DEF MemorySound, Distinct
  <2>10. LoadSound'
    BY <1>1, <1>4 DEF LoadSound
  <2>11. QED
    BY <1>3, <1>4, <1>5, <2>6, <2>9, <2>10, HolderStep DEF Sound
<1>8. QED
  BY <1>6, <1>7

\* A rewind holds a conversation in memory that is not empty.
LEMMA RewoundIs ==
    ASSUME Typed, Sound, NEW k \in Requests, req[k].pc \in {"rewinding", "rewound"}
    PROVE  /\ Rewinds = "undisturbed" /\ loop.pc \notin Loading /\ Main \in open
           /\ history[Main] # <<>>
<1>1. /\ Rewound(k) /\ Current(k)
  BY DEF Sound, Stage, Busy
<1>2. req[k].base = history[Main] /\ Len(req[k].result) < Len(req[k].base)
  BY <1>1 DEF Rewound, Current, Shorter
<1>3. Len(req[k].result) \in Nat
  BY DEF Typed, TypedRequests, Request
<1>4. QED
  BY <1>1, <1>2, <1>3 DEF Rewound

\* What a step leaves alone of a request, its token and its lock aside.
Untouched(j) ==
    /\ req'[j].pc = req[j].pc /\ req'[j].base = req[j].base
    /\ req'[j].epoch = req[j].epoch /\ req'[j].result = req[j].result
    /\ req'[j].ok = req[j].ok /\ req'[j].confirmed = req[j].confirmed

LEMMA SameGrew ==
    ASSUME Typed, NEW k \in Requests, Untouched(k), Grew(k),
           InStore' \subseteq InStore, made' \in Nat, made <= made',
           Saved' = Saved, Main \in open' => history'[Main] = Saved
    PROVE  Grew(k)'
<1>1. PICK e \in Seq(Nat) : Extended(k, e)
  BY DEF Grew
<1>2. Distinct(e)' /\ Ids(e)' = Ids(e) /\ Distinct(e)
  BY <1>1 DEF Extended, Distinct, Ids
<1>3. Ids(e) \subseteq 1..made'
  <2>1. made \in Nat /\ 1..made \subseteq 1..made'
    BY DEF Typed, TypedRequests
  <2>2. QED
    BY <1>1, <2>1 DEF Extended
<1>4. Ids(e) \cap InStore' = {}
  BY <1>1 DEF Extended
<1>5. Extended(k, e)'
  BY <1>1, <1>2, <1>3, <1>4 DEF Extended, Untouched
<1>6. \E d \in Seq(Nat) : Extended(k, d)'
  BY <1>5
<1>7. QED
  BY <1>6 DEF Grew, Untouched

LEMMA SameShorter ==
    ASSUME Typed, NEW k \in Requests, Untouched(k), Shorter(k), rows' = rows,
           made' = made
    PROVE  Shorter(k)'
<1>1. /\ Len(req'[k].result) < Len(req'[k].base) /\ Distinct(req'[k].result)
      /\ Ids(req'[k].result) \subseteq 1..made'
      /\ Ids(rows'[Main]) \subseteq Ids(req'[k].base)
  BY DEF Shorter, Untouched
<1>2. QED
  BY ONLY <1>1 DEF Shorter, Distinct, Ids

\* A step that leaves store and memory to the requests at work.
LEMMA AsideSound ==
    ASSUME Typed, Sound, UNCHANGED <<rows, cache, known, open, history, closes, made>>,
           \A j \in Requests :
              \/ Untouched(j)
              \/ req[j].pc \notin Busy /\ req'[j].pc \notin Busy,
           \A j \in Requests : req[j].pc \in {"rewinding", "rewound"} =>
              req'[j].cancelled = req[j].cancelled /\ loop'.pc \notin Loading,
           LoadSound'
    PROVE  Sound'
<1>1. made \in Nat /\ made' \in Nat /\ made <= made'
  BY DEF Typed, TypedRequests
<1>2. Saved' = Saved /\ InStore' = InStore
  BY DEF Saved, InStore
<1>3. StoreSound'
  <2>1. \A j \in Requests : At(j, "rewinding") => At(j, "rewinding")'
    BY DEF At, Untouched, Busy
  <2>2. QED
    BY <1>1, <2>1, FrameStore DEF Sound
<1>4. MemorySound'
  <2>1. (\A j \in Requests : req'[j].pc \notin Unsettled) =>
            \A j \in Requests : req[j].pc \notin Unsettled
    BY DEF Untouched, Busy
  <2>2. history' = history /\ open' = open
    OBVIOUS
  <2>3. QED
    BY <1>2, <2>1, <2>2 DEF Sound, MemorySound, Distinct
<1>5. ASSUME NEW j \in Requests PROVE Stage(j)'
  <2>1. CASE req'[j].pc \notin Busy
    BY <2>1, NotBusyNext
  <2>2. CASE req'[j].pc \in Busy
    <3>1. Untouched(j) /\ Stage(j)
      BY <2>2 DEF Sound
    <3>2. history' = history /\ open' = open /\ rows' = rows /\ cache' = cache
          /\ closes' = closes
      OBVIOUS
    <3>3. Current(j)'
      <4>1. Current(j)
        BY <2>2, <3>1 DEF Stage, Untouched
      <4>2. QED
        BY <3>1, <3>2, <4>1 DEF Current, Untouched
    <3>4. Shorter(j) => Shorter(j)'
      BY <3>1, SameShorter
    <3>5. Grew(j) => Grew(j)'
      <4>1. Grew(j) => (Main \in open' => history'[Main] = Saved)
        BY <3>2 DEF Grew
      <4>2. QED
        BY <1>1, <1>2, <3>1, <4>1, SameGrew
    <3>6. Cut(j) => Cut(j)'
      BY <3>1, <3>4 DEF Cut, Untouched
    <3>7. req[j].pc \in {"rewinding", "rewound"} => Rewound(j)'
      <4>1. ASSUME req[j].pc \in {"rewinding", "rewound"} PROVE Rewound(j)'
        <5>1. Rewound(j) /\ req'[j].cancelled = req[j].cancelled
              /\ loop'.pc \notin Loading
          BY <3>1, <4>1 DEF Stage
        <5>2. QED
          BY <3>1, <3>2, <3>4, <5>1 DEF Rewound, Untouched
      <4>2. QED
        BY <4>1
    <3>8. Kept(j) => Kept(j)'
      <4>1. Progressed(j)' = Progressed(j) /\ Stripped(j)' = Stripped(j)
        BY <3>1 DEF Untouched, Progressed, Stripped, Ids
      <4>2. QED
        BY <1>2, <3>1, <3>2, <4>1 DEF Kept, Untouched
    <3>9. QED
      <4>1. At(j, "running") => req'[j].base = Saved'
        BY <1>2, <3>1 DEF Stage, Untouched
      <4>2. QED
        BY <3>1, <3>2, <3>3, <3>5, <3>6, <3>7, <3>8, <4>1 DEF Stage, At, Untouched
  <2>3. QED
    BY <2>1, <2>2
<1>6. QED
  BY <1>3, <1>4, <1>5 DEF Sound

\* Requests that come, wait or go.
LEMMA WaitingSound ==
    ASSUME Typed, Sound, NEW k \in Requests, Arrive(k) \/ Acquire(k) \/ Release(k)
    PROVE  Sound'
<1>1. UNCHANGED <<rows, cache, known, open, history, closes, made, loop>>
  BY DEF Arrive, Acquire, Release, store, memory, server, bounds
<1>2. req \in [Requests -> Request]
  BY DEF Typed, TypedRequests
<1>3. /\ Others(k) /\ req[k].pc \notin Busy /\ req'[k].pc \notin Busy
  <2>1. CASE Arrive(k)
    <3>1. At(k, "idle")
      BY <2>1 DEF Arrive
    <3>2. QED
      BY <2>1, <3>1, ArriveIs DEF Busy, Unsettled, At
  <2>2. CASE Acquire(k) \/ Release(k)
    <3>1. PICK to \in {"register", "append", "done"} :
            req' = [req EXCEPT ![k].pc = to]
      BY <2>2 DEF Acquire, Release, Step
    <3>2. req[k].pc \in {"waiting", "releasing"}
      BY <2>2 DEF Acquire, Release, Step, At
    <3>3. to \in Places
      BY DEF Places, Holding
    <3>4. QED
      BY <1>2, <3>1, <3>2, <3>3, StepIs DEF Busy, Unsettled
  <2>3. QED
    BY <2>1, <2>2
<1>4. \A j \in Requests : Untouched(j) \/ (req[j].pc \notin Busy /\ req'[j].pc \notin Busy)
  BY <1>3 DEF Others, Untouched
<1>5. \A j \in Requests : req[j].pc \in {"rewinding", "rewound"} =>
         req'[j].cancelled = req[j].cancelled /\ loop'.pc \notin Loading
  BY <1>1, <1>3, RewoundIs DEF Others, Busy
<1>6. LoadSound'
  BY <1>1, FrameLoad DEF Sound
<1>7. QED
  BY <1>1, <1>4, <1>5, <1>6, AsideSound

\* The handlers of the server loop that leave the conversation alone.
LEMMA LoopSound ==
    ASSUME Typed, Sound,
           \/ \E t \in Threads : Load(t)
           \/ LoadReadsRows \/ Cancel \/ CloseReleases \/ UNCHANGED vars
    PROVE  Sound'
<1>1. UNCHANGED <<rows, cache, known, open, history, closes, made>>
  BY DEF Load, LoadReadsRows, Cancel, CloseReleases, vars, store, memory, server,
     bounds
<1>2. \A j \in Requests : Untouched(j)
  <2>1. CASE Cancel
    <3>1. CancelToken
      BY <2>1 DEF Cancel
    <3>2. QED
      BY <3>1, CancelIs DEF Untouched
  <2>2. CASE ~Cancel
    BY <2>2 DEF Load, LoadReadsRows, CloseReleases, vars, Untouched
  <2>3. QED
    BY <2>1, <2>2
<1>3. ASSUME NEW j \in Requests, req[j].pc \in {"rewinding", "rewound"}
      PROVE  req'[j].cancelled = req[j].cancelled /\ loop'.pc \notin Loading
  <2>1. /\ Rewinds = "undisturbed" /\ loop.pc \notin Loading /\ Main \in open
        /\ history[Main] # <<>> /\ known = {Main}
    BY <1>3, RewoundIs DEF Sound, StoreSound
  <2>2. ~Undisturbed
    BY <1>3, <2>1 DEF Undisturbed
  <2>3. ~Cancel
    BY <2>2 DEF Cancel
  <2>4. ~ \E t \in Threads : Load(t)
    BY <2>1 DEF Load
  <2>5. ~LoadReadsRows
    BY <2>1 DEF LoadReadsRows, Loading
  <2>6. CASE CloseReleases
    BY <2>6, ReadyIs DEF CloseReleases
  <2>7. CASE UNCHANGED vars
    BY <2>1, <2>7 DEF vars, server
  <2>8. QED
    BY <2>3, <2>4, <2>5, <2>6, <2>7
<1>4. LoadSound'
  <2>1. Saved' = Saved
    BY <1>1 DEF Saved
  <2>2. ASSUME NEW t \in Threads, Load(t) PROVE LoadSound'
    <3>1. /\ t = Main
          /\ Main \in open => history[Main] = <<>>
      BY <2>2 DEF Sound, StoreSound, Load
    <3>2. loop' = [Ready EXCEPT !.pc = "rows", !.thread = t, !.cached = cache[t]]
      BY <2>2 DEF Load
    <3>3. loop'.pc = "rows" /\ loop'.thread = t /\ loop'.cached = cache[t]
      BY <3>2 DEF Ready
    <3>4. QED
      BY <1>1, <3>1, <3>3 DEF LoadSound
  <2>3. CASE LoadReadsRows
    <3>1. /\ loop.thread = Main /\ loop.cached = cache[Main]
          /\ Main \in open => history[Main] = <<>>
      BY <2>3 DEF LoadReadsRows, Sound, LoadSound, Loading
    <3>2. /\ loop \in [pc : {"ready", "closed"} \cup Loading, thread : Threads,
                       cached : Seq(Nat), context : Seq(Nat)]
          /\ rows \in [Threads -> Seq(Nat)] /\ cache[Main] \in Seq(Nat)
          /\ Main \in Threads
      BY SessionAssumption DEF Typed, TypedServer, TypedStore
    <3>3. LoadContext(rows, cache[Main], Main) = Saved
      BY <3>2, LoadContextIs DEF Saved
    <3>4. loop' = [loop EXCEPT !.pc = "save", !.context = Saved]
      BY <2>3, <3>1, <3>3 DEF LoadReadsRows
    <3>5. /\ loop'.pc = "save" /\ loop'.context = Saved
          /\ loop'.thread = Main /\ loop'.cached = cache[Main]
      BY <3>1, <3>2, <3>4
    <3>6. QED
      BY <1>1, <2>1, <3>1, <3>5 DEF LoadSound
  <2>4. CASE Cancel
    <3>1. loop' = loop
      BY <2>4 DEF Cancel, server
    <3>2. QED
      BY <1>1, <3>1, FrameLoad DEF Sound
  <2>5. CASE CloseReleases
    BY <2>5, ReadyIs DEF CloseReleases, LoadSound
  <2>6. CASE UNCHANGED vars
    <3>1. loop' = loop
      BY <2>6 DEF vars, server
    <3>2. QED
      BY <1>1, <3>1, FrameLoad DEF Sound
  <2>7. QED
    BY <2>2, <2>3, <2>4, <2>5, <2>6
<1>5. QED
  BY <1>1, <1>2, <1>3, <1>4, AsideSound

\* What a load read is what the store still has.
LEMMA LoadFinishesSound ==
    ASSUME Typed, Sound, LoadFinishes
    PROVE  Sound'
<1>1. /\ loop.pc = "save" /\ loop.pc \in Loading /\ mutex = "load"
      /\ UNCHANGED <<rows, known, req, made, closes>>
      /\ loop' = Ready
  BY DEF LoadFinishes, Loading, bounds, Typed, TypedMutex
<1>2. /\ loop.thread = Main /\ loop.cached = cache[Main] /\ loop.context = Saved
      /\ Main \in open => history[Main] = <<>>
  BY <1>1 DEF Sound, LoadSound
<1>3. /\ rows \in [Threads -> Seq(Nat)] /\ cache \in [Threads -> Seq(Nat)]
      /\ history \in [Threads -> Seq(Nat)] /\ Main \in Threads /\ made \in Nat
      /\ cache[Main] \in Seq(Nat) /\ rows[Main] \in Seq(Nat)
  BY SessionAssumption DEF Typed, TypedStore, TypedRequests
<1>4. /\ Main \in open' /\ history'[Main] = Saved
      /\ cache'[Main] = IF cache[Main] = NoCache THEN Saved ELSE cache[Main]
  <2>1. history' = [history EXCEPT ![Main] = Saved]
    BY <1>2 DEF LoadFinishes
  <2>2. cache' = [cache EXCEPT ![Main] = IF cache[Main] = NoCache THEN Saved
                                         ELSE cache[Main]]
    BY <1>2 DEF LoadFinishes
  <2>3. QED
    BY <1>2, <1>3, <2>1, <2>2 DEF LoadFinishes
<1>5. \A j \in Requests : req[j].pc \notin {"rewinding", "rewound"} \cup Writing
  <2>1. \A j \in Requests : req[j].pc \notin {"rewinding", "rewound"}
    BY <1>1, RewoundIs
  <2>2. \A j \in Requests : req[j].pc \notin Writing
    BY <1>1 DEF Typed, TypedMutex
  <2>3. QED
    BY <2>1, <2>2
<1>6. Aligned(rows[Main], cache[Main]) /\ StoreSound
  BY <1>5 DEF Sound, StoreSound, At
<1>7. /\ Saved' = Saved /\ Aligned(rows'[Main], cache'[Main])
      /\ Ids(cache'[Main]) \subseteq InStore /\ Distinct(cache'[Main])
  <2>1. CASE cache[Main] = NoCache
    <3>1. Saved = rows[Main]
      BY <2>1 DEF Saved, Context
    <3>2. Context(rows[Main], rows[Main]) = rows[Main] /\ Aligned(rows[Main], rows[Main])
      BY <1>3, <1>6, ContextSaved DEF StoreSound
    <3>3. cache'[Main] = rows[Main] /\ rows' = rows
      BY <1>1, <1>4, <2>1, <3>1
    <3>4. Saved' = Context(rows'[Main], cache'[Main])
      BY DEF Saved, Context, AfterCursor
    <3>5. QED
      BY <1>6, <3>1, <3>2, <3>3, <3>4 DEF StoreSound, InStore
  <2>2. CASE cache[Main] # NoCache
    <3>1. cache'[Main] = cache[Main] /\ rows' = rows
      BY <1>1, <1>4, <2>2
    <3>2. Saved' = Context(rows'[Main], cache'[Main])
      BY DEF Saved, Context, AfterCursor
    <3>3. QED
      BY <1>6, <3>1, <3>2 DEF StoreSound, InStore, Saved
  <2>3. QED
    BY <2>1, <2>2
<1>8. InStore' \subseteq InStore
  <2>1. InStore' = Ids(rows'[Main]) \cup Ids(cache'[Main])
    BY DEF InStore, Ids
  <2>2. QED
    BY <1>1, <1>7, <2>1 DEF InStore
<1>9. StoreSound'
  <2>1. Distinct(cache[Main])' /\ Distinct(rows[Main])' /\ Aligned(rows[Main], cache[Main])'
    <3>1. Distinct(cache'[Main]) /\ Distinct(rows'[Main])
          /\ Aligned(rows'[Main], cache'[Main])
      BY <1>1, <1>6, <1>7 DEF StoreSound
    <3>2. QED
      BY ONLY <3>1 DEF Distinct, Aligned, PrefixOf, Ids
  <2>2. known' = {Main} /\ (\A t \in Threads \ {Main} : rows'[t] = <<>>)
        /\ InStore' \subseteq 1..made'
    BY <1>1, <1>6, <1>8 DEF StoreSound
  <2>3. QED
    BY <2>1, <2>2 DEF StoreSound
<1>10. LoadSound'
  BY <1>1, ReadyIs DEF LoadSound
<1>11. MemorySound'
  <2>1. Distinct(history'[Main])
    BY <1>4, <1>6, SavedIs
  <2>2. QED
    BY <1>4, <1>7, <2>1 DEF MemorySound, Distinct
<1>12. ASSUME NEW j \in Requests PROVE Stage(j)'
  <2>1. CASE req'[j].pc \notin Busy
    BY <2>1, NotBusyNext
  <2>2. CASE req'[j].pc \in Busy
    <3>1. /\ req'[j] = req[j] /\ req[j].pc \in {"running", "persist"}
      BY <1>1, <1>5, <2>2 DEF Busy, Unsettled, Writing
    <3>2. /\ Untouched(j) /\ Stage(j) /\ Current(j) /\ made' \in Nat /\ made <= made'
      BY <1>1, <1>3, <3>1 DEF Untouched, Sound, Stage, Busy, Unsettled
    <3>3. At(j, "persist") => Grew(j)' \/ Cut(j)'
      <4>1. Grew(j) => Grew(j)'
        BY <1>4, <1>7, <1>8, <3>2, SameGrew
      <4>2. Cut(j) => Cut(j)'
        BY <1>1, <3>2, SameShorter DEF Cut, Untouched
      <4>3. QED
        BY <3>2, <4>1, <4>2 DEF Stage
    <3>4. Current(j)'
      <4>1. CASE req[j].base = Saved
        BY <1>1, <1>4, <3>1, <3>2, <4>1 DEF Current
      <4>2. CASE req[j].base # Saved
        <5>1. Cut(j)
          BY <3>1, <3>2, <4>2 DEF Stage, At, Grew
        <5>2. Len(req[j].result) < Len(req[j].base) /\ Len(req[j].result) \in Nat
          BY <5>1 DEF Cut, Shorter, Typed, TypedRequests, Request
        <5>3. req[j].base # <<>>
          BY <5>2
        <5>4. req[j].epoch # closes
          BY <1>2, <3>2, <5>3 DEF Current
        <5>5. QED
          BY <1>1, <3>1, <3>2, <5>4 DEF Current
      <4>3. QED
        BY <4>1, <4>2
    <3>5. QED
      <4>1. At(j, "running") => req'[j].base = Saved'
        BY <1>7, <3>1, <3>2 DEF Stage
      <4>2. QED
        BY <3>1, <3>3, <3>4, <4>1 DEF Stage, At, Writing
  <2>3. QED
    BY <2>1, <2>2
<1>13. QED
  BY <1>9, <1>10, <1>11, <1>12 DEF Sound

LEMMA CloseSound ==
    ASSUME Sheltered, Typed, Sound, Close
    PROVE  Sound'
<1>1. /\ Undisturbed /\ mutex = "free" /\ Main \notin open' /\ closes' = closes + 1
      /\ UNCHANGED <<rows, cache, known, made>> /\ loop'.pc \notin Loading
  BY ReadyIs DEF Close, store
<1>2. made \in Nat /\ closes \in Nat
  BY DEF Typed, TypedRequests
<1>3. \A j \in Requests : Untouched(j)
  <2>1. CancelToken
    BY DEF Close
  <2>2. QED
    BY <2>1, CancelIs DEF Untouched
<1>4. \A j \in Requests : req[j].pc \notin {"rewinding", "rewound"} \cup Writing
  <2>1. \A j \in Requests : req[j].pc \notin {"rewinding", "rewound"}
    BY <1>1, RewoundIs DEF Undisturbed
  <2>2. \A j \in Requests : req[j].pc \notin Writing
    BY <1>1 DEF Typed, TypedMutex
  <2>3. QED
    BY <2>1, <2>2
<1>5. StoreSound'
  <2>1. \A j \in Requests : At(j, "rewinding") => At(j, "rewinding")'
    BY <1>4 DEF At
  <2>2. QED
    BY <1>1, <1>2, <2>1, FrameStore DEF Sound
<1>6. LoadSound' /\ MemorySound'
  BY <1>1 DEF LoadSound, MemorySound
<1>7. ASSUME NEW j \in Requests PROVE Stage(j)'
  <2>1. CASE req'[j].pc \notin Busy
    BY <2>1, NotBusyNext
  <2>2. CASE req'[j].pc \in Busy
    <3>1. /\ req'[j].pc = req[j].pc /\ req[j].pc \in {"running", "persist"}
      BY <1>3, <1>4, <2>2 DEF Untouched, Busy, Unsettled, Writing
    <3>2. /\ Untouched(j) /\ Stage(j) /\ Current(j) /\ made' \in Nat /\ made <= made'
      BY <1>1, <1>2, <1>3, <3>1 DEF Sound, Stage, Busy, Unsettled
    <3>3. Saved' = Saved /\ InStore' = InStore
      BY <1>1 DEF Saved, InStore
    <3>4. At(j, "persist") => Grew(j)' \/ Cut(j)'
      <4>1. Grew(j) => Grew(j)'
        BY <1>1, <3>2, <3>3, SameGrew
      <4>2. Cut(j) => Cut(j)'
        BY <1>1, <3>2, SameShorter DEF Cut, Untouched
      <4>3. QED
        BY <3>2, <4>1, <4>2 DEF Stage
    <3>5. Current(j)'
      <4>1. req'[j].epoch = req[j].epoch /\ req[j].epoch <= closes
            /\ req[j].epoch \in Nat
        BY <3>2 DEF Current, Untouched, Typed, TypedRequests, Request
      <4>2. req'[j].epoch <= closes' /\ req'[j].epoch # closes'
        BY <1>1, <1>2, <4>1
      <4>3. QED
        BY <4>2 DEF Current
    <3>6. At(j, "running") => req'[j].base = Saved'
      BY <3>2, <3>3 DEF Stage, Untouched
    <3>7. QED
      BY <3>1, <3>4, <3>5, <3>6 DEF Stage, At, Writing
  <2>3. QED
    BY <2>1, <2>2
<1>8. QED
  BY <1>5, <1>6, <1>7 DEF Sound

LEMMA CrashSound ==
    ASSUME Sheltered, Typed, Sound, Crash
    PROVE  Sound'
<1>1. /\ Undisturbed /\ open' = {} /\ UNCHANGED <<rows, cache, known, made>>
      /\ loop'.pc \notin Loading
  BY ReadyIs DEF Crash, store
<1>2. \A j \in Requests : req'[j].pc \notin Busy
  BY CrashIs DEF Busy, Unsettled
<1>3. \A j \in Requests : req[j].pc \notin {"rewinding", "rewound"}
  BY <1>1, RewoundIs DEF Undisturbed
<1>4. StoreSound'
  <2>1. \A j \in Requests : At(j, "rewinding") => At(j, "rewinding")'
    BY <1>3 DEF At
  <2>2. made \in Nat
    BY DEF Typed, TypedRequests
  <2>3. QED
    BY <1>1, <2>1, <2>2, FrameStore DEF Sound
<1>5. LoadSound' /\ MemorySound'
  BY <1>1 DEF LoadSound, MemorySound
<1>6. QED
  BY <1>2, <1>4, <1>5, NotBusyNext DEF Sound
-----------------------------------------------------------------------------
LEMMA InitSound == Init => Sound
<1> SUFFICES ASSUME Init PROVE Sound
  OBVIOUS
<1> DEFINE two == <<1, 2>>
<1>1. /\ two \in Seq(Nat) /\ Ids(two) \subseteq 1..2 /\ Distinct(two)
  BY DEF Ids, Distinct
<1>2. /\ Main \in Threads /\ Ids(<<>>) = {} /\ Distinct(<<>>)
  BY SessionAssumption DEF Ids, Distinct
<1>3. /\ rows[Main] = two /\ cache[Main] = <<>> /\ known = {Main} /\ made = 2
      /\ \A t \in Threads \ {Main} : rows[t] = <<>>
      /\ open = {} /\ loop = Ready
  BY <1>2 DEF Init, NoCache
<1>4. \A k \in Requests : req[k].pc \notin Busy \cup Writing
  BY DEF Init, Idle, Busy, Unsettled, Writing
<1> HIDE DEF two
<1>5. StoreSound
  BY <1>1, <1>2, <1>3 DEF StoreSound, InStore, Aligned
<1>6. LoadSound /\ MemorySound
  BY <1>3, ReadyIs DEF LoadSound, MemorySound
<1>7. \A k \in Requests : Stage(k)
  BY <1>4 DEF Stage, At, Busy, Unsettled
<1>8. QED
  BY <1>5, <1>6, <1>7 DEF Sound

LEMMA NextSound ==
    ASSUME Sheltered, Typed, OneAtATime, Sound, [Next]_vars
    PROVE  Sound'
<1>1. ASSUME NEW k \in Requests, Arrive(k) \/ Work(k) PROVE Sound'
  <2>1. CASE Arrive(k) \/ Acquire(k) \/ Release(k)
    BY <2>1, WaitingSound
  <2>2. CASE Register(k) \/ ReadHistory(k) \/ Respond(k)
    BY <2>2, OutsideSound
  <2>3. CASE AnswerPrompt(k)
    BY <2>3, AnswerSound
  <2>4. CASE FailPrompt(k)
    BY <2>4, FailSound
  <2>5. ~CompactedPrompt(k)
    BY DEF CompactedPrompt, Sheltered
  <2>6. CASE CompactCommand(k)
    BY <2>6, CompactSound
  <2>7. CASE RewindCommand(k)
    BY <2>7, RewindSound
  <2>8. CASE RewindClearsCache(k) \/ PersistClearsCache(k)
    BY <2>8, ClearsSound
  <2>9. CASE RewindReturns(k)
    BY <2>9, RewindReturnsSound
  <2>10. CASE DropCommand(k)
    BY <2>10, DropSound
  <2>11. CASE Persist(k)
    BY <2>11, PersistSound
  <2>12. CASE PersistCompacted(k)
    BY <2>12, CompactedSound
  <2>13. CASE Publish(k)
    BY <2>13, PublishSound
  <2>14. CASE AppendHistory(k)
    BY <2>14, AppendHistorySound
  <2>15. QED
    BY <1>1, <2>1, <2>2, <2>3, <2>4, <2>5, <2>6, <2>7, <2>8, <2>9, <2>10, <2>11,
       <2>12, <2>13, <2>14 DEF Work
<1>2. CASE (\E t \in Threads : Load(t)) \/ LoadReadsRows \/ Cancel
           \/ CloseReleases \/ UNCHANGED vars
  BY <1>2, LoopSound
<1>3. CASE LoadFinishes
  BY <1>3, LoadFinishesSound
<1>4. ~Resume /\ ~Fork
  BY DEF Resume, Fork, Sheltered
<1>5. CASE Close
  BY <1>5, CloseSound
<1>6. CASE Crash
  BY <1>6, CrashSound
<1>7. QED
  BY <1>1, <1>2, <1>3, <1>4, <1>5, <1>6 DEF Next

\* The memory takes over a result in one way only.
LEMMA OnlyPublish ==
    ASSUME Typed, OneAtATime, [Next]_vars, NEW k \in Requests,
           At(k, "publish"), req'[k].pc = "respond"
    PROVE  Publish(k)
<1>1. /\ req[k].pc = "publish" /\ req[k].pc \in Holding /\ mutex = "prompt"
  BY DEF At, Holding, Typed, TypedMutex, Writing
<1>2. ~UNCHANGED req
  BY <1>1
<1>3. ASSUME NEW j \in Requests, Arrive(j) \/ Work(j) PROVE Publish(k)
  <2>1. ~Arrive(j)
    <3>1. ASSUME Arrive(j) PROVE FALSE
      <4>1. j # k /\ Others(j)
        BY <1>1, <3>1, ArriveIs DEF Arrive, At
      <4>2. QED
        BY <1>1, <4>1 DEF Others
    <3>2. QED
      BY <3>1
  <2>2. ~Acquire(j)
    <3>1. ASSUME Acquire(j) PROVE FALSE
      <4>1. j # k
        BY <1>1, <3>1 DEF Acquire, Step, At
      <4>2. PICK to \in {"register", "append"} : req' = [req EXCEPT ![j].pc = to]
        BY <3>1 DEF Acquire, Step
      <4>3. req'[k] = req[k]
        BY <4>1, <4>2 DEF Typed, TypedRequests
      <4>4. QED
        BY <1>1, <4>3
    <3>2. QED
      BY <3>1
  <2>3. /\ ~Register(j) /\ ~ReadHistory(j) /\ ~Persist(j) /\ ~AppendHistory(j)
        /\ ~Release(j)
    BY <1>1 DEF Register, ReadHistory, Persist, AppendHistory, Release
  <2>4. CASE j # k
    <3>1. req[j].pc \notin Holding
      BY <1>1, <2>4 DEF OneAtATime
    <3>2. /\ ~AnswerPrompt(j) /\ ~FailPrompt(j) /\ ~CompactedPrompt(j)
          /\ ~CompactCommand(j) /\ ~RewindCommand(j) /\ ~RewindClearsCache(j)
          /\ ~RewindReturns(j) /\ ~DropCommand(j) /\ ~PersistClearsCache(j)
          /\ ~PersistCompacted(j) /\ ~Publish(j) /\ ~Respond(j)
      BY <3>1 DEF AnswerPrompt, FailPrompt, CompactedPrompt, CompactCommand,
         RewindCommand, RewindClearsCache, RewindReturns, DropCommand,
         PersistClearsCache, PersistCompacted, Publish, Respond, Step, At, Holding
    <3>3. QED
      BY <1>3, <2>1, <2>2, <2>3, <3>2 DEF Work
  <2>5. CASE j = k
    <3>1. /\ ~AnswerPrompt(k) /\ ~FailPrompt(k) /\ ~CompactedPrompt(k)
          /\ ~CompactCommand(k) /\ ~RewindCommand(k) /\ ~RewindClearsCache(k)
          /\ ~RewindReturns(k) /\ ~DropCommand(k) /\ ~PersistClearsCache(k)
          /\ ~PersistCompacted(k) /\ ~Respond(k)
      BY <1>1 DEF AnswerPrompt, FailPrompt, CompactedPrompt, CompactCommand,
         RewindCommand, RewindClearsCache, RewindReturns, DropCommand,
         PersistClearsCache, PersistCompacted, Respond, Step, At
    <3>2. QED
      BY <1>3, <2>1, <2>2, <2>3, <2>5, <3>1 DEF Work
  <2>6. QED
    BY <2>4, <2>5
<1>4. /\ ~Resume /\ ~Fork /\ ~Cancel /\ ~Close /\ ~CloseReleases
      /\ \A t \in Threads : ~Load(t)
  BY <1>1 DEF Resume, Fork, Cancel, Close, CloseReleases, Load
<1>5. ~LoadReadsRows /\ ~LoadFinishes /\ ~UNCHANGED vars
  BY <1>2 DEF LoadReadsRows, LoadFinishes, vars
<1>6. ~Crash
  BY CrashIs
<1>7. QED
  BY <1>3, <1>4, <1>5, <1>6 DEF Next
-----------------------------------------------------------------------------
\* The theorems.

Whole == LockInv /\ Typed /\ Sound

LEMMA WholeInvariant ==
    ASSUME Sheltered
    PROVE  Spec => []Whole
<1>1. Init => Whole
  BY InitLocks, InitTyped, InitSound DEF Whole
<1>2. Whole /\ [Next]_vars => Whole'
  <2> SUFFICES ASSUME Whole, [Next]_vars PROVE Whole'
    OBVIOUS
  <2>1. LockInv /\ OneAtATime
    BY DEF Whole, LockInv
  <2>2. LockInv'
    BY <2>1, NextLocks
  <2>3. Typed'
    BY <2>1, StoreStep, ServerStep, RequestsStep, MutexStep DEF Typed, Whole
  <2>4. Sound'
    BY <2>1, NextSound DEF Whole
  <2>5. QED
    BY <2>2, <2>3, <2>4 DEF Whole
<1>3. QED
  BY <1>1, <1>2, PTL DEF Spec

LEMMA AgreesIs ==
    ASSUME Whole
    PROVE  MemoryMatchesStore /\ NothingRestoredTwice /\ SnapshotIsCurrent
<1>1. Typed /\ Sound
  BY DEF Whole
<1>2. /\ rows \in [Threads -> Seq(Nat)] /\ cache[Main] \in Seq(Nat)
      /\ history[Main] \in Seq(Nat) /\ Main \in Threads
      /\ \A t \in open : t = Main
  BY <1>1, SessionAssumption DEF Typed, TypedStore, Sound, StoreSound
<1>3. LoadContext(rows, cache[Main], Main) = Saved
  BY <1>2, LoadContextIs DEF Saved
<1>4. MemoryMatchesStore
  BY <1>1, <1>2, <1>3 DEF MemoryMatchesStore, Sound, MemorySound
<1>5. NothingRestoredTwice
  <2>1. Main \in open => Distinct(history[Main])
    BY <1>1 DEF Sound, MemorySound
  <2>2. Main \in open => Cardinality(Ids(history[Main])) = Len(history[Main])
    BY <1>2, <2>1, DistinctCount
  <2>3. QED
    BY <1>2, <2>2 DEF NothingRestoredTwice
<1>6. SnapshotIsCurrent
  BY <1>1 DEF SnapshotIsCurrent, Sound, Stage, Current, Busy
<1>7. QED
  BY <1>4, <1>5, <1>6

\* What a restart would read is what every open session holds, whenever no
\* request is between the store and the memory (prompt.rs:162,
\* session_load.rs:8).
THEOREM RestartAgrees ==
    ASSUME Sheltered
    PROVE  Spec => []MemoryMatchesStore
<1>1. Whole => MemoryMatchesStore
  BY AgreesIs
<1>2. QED
  BY <1>1, WholeInvariant, PTL

\* No conversation holds a message twice, however often it was persisted, cut,
\* closed and restored (prompt.rs:177).
THEOREM RestoredOnce ==
    ASSUME Sheltered
    PROVE  Spec => []NothingRestoredTwice
<1>1. Whole => NothingRestoredTwice
  BY AgreesIs
<1>2. QED
  BY <1>1, WholeInvariant, PTL

\* Nothing that reached the session while a prompt ran is overwritten by what
\* the prompt writes back (acp_server/mod.rs:237).
THEOREM NothingOverwritten ==
    ASSUME Sheltered
    PROVE  Spec => []SnapshotIsCurrent
<1>1. Whole => SnapshotIsCurrent
  BY AgreesIs
<1>2. QED
  BY <1>1, WholeInvariant, PTL

\* From the return of an execution until the memory has its result.
Returned == {"persist", "deleted", "invalidated", "publish"}

\* Only the last of at least two new messages was confirmed.
LastWord(k) ==
    req[k].pc \in Returned =>
        \/ req[k].confirmed = {}
        \/ /\ Len(req[k].base) + 1 < Len(req[k].result)
           /\ req[k].confirmed \subseteq {req[k].result[Len(req[k].result)]}

LEMMA OneLastWord ==
    ASSUME NEW k \in Requests, Others(k), \A j \in Requests : LastWord(j), LastWord(k)'
    PROVE  \A j \in Requests : LastWord(j)'
<1>1. ASSUME NEW j \in Requests, j # k PROVE LastWord(j)'
  <2>1. req'[j] = req[j] /\ LastWord(j)
    BY <1>1 DEF Others
  <2>2. QED
    BY <2>1 DEF LastWord
<1>2. QED
  BY <1>1

LEMMA ConcatPlaces ==
    ASSUME NEW s \in Seq(Nat), NEW e \in Seq(Nat)
    PROVE  /\ s \o e \in Seq(Nat) /\ Len(s \o e) = Len(s) + Len(e)
           /\ \A i \in 1..Len(e) : (s \o e)[Len(s) + i] = e[i]
  OBVIOUS

LEMMA TwoMore ==
    ASSUME NEW s \in Seq(Nat), NEW e \in Seq(Nat), Len(e) = 2
    PROVE  /\ s \o e \in Seq(Nat) /\ Len(s \o e) = Len(s) + 2
           /\ (s \o e)[Len(s \o e)] = e[2]
<1>1. /\ s \o e \in Seq(Nat) /\ Len(s \o e) = Len(s) + Len(e)
      /\ \A i \in 1..Len(e) : (s \o e)[Len(s) + i] = e[i]
  BY ConcatPlaces
<1>2. 2 \in 1..Len(e)
  OBVIOUS
<1>3. QED
  BY <1>1, <1>2

\* An execution that adds two messages.
LEMMA TwoAdded ==
    ASSUME Typed, NEW k \in Requests, NEW steered \in BOOLEAN, NEW o \in BOOLEAN,
           Return(k, req[k].base \o Fresh(2), o, IF steered THEN {made + 2} ELSE {})
    PROVE  Others(k) /\ LastWord(k)'
<1> DEFINE s == req[k].base \o Fresh(2)
           c == IF steered THEN {made + 2} ELSE {}
<1>1. /\ made \in Nat /\ req[k].base \in Seq(Nat) /\ 2 \in Nat
      /\ req \in [Requests -> Request]
  BY DEF Typed, TypedRequests, Request
<1>2. /\ Fresh(2) \in Seq(Nat) /\ Len(Fresh(2)) = 2 /\ Fresh(2)[2] = made + 2
  <2>1. 2 \in 1..2
    OBVIOUS
  <2>2. QED
    BY <1>1, <2>1, FreshIs
<1>3. s \in Seq(Nat) /\ Len(s) = Len(req[k].base) + 2 /\ s[Len(s)] = made + 2
  <2> DEFINE b == req[k].base
             e == Fresh(2)
  <2>1. b \in Seq(Nat) /\ e \in Seq(Nat) /\ Len(e) = 2 /\ e[2] = made + 2
    BY <1>1, <1>2
  <2> HIDE DEF b, e
  <2>2. /\ b \o e \in Seq(Nat) /\ Len(b \o e) = Len(b) + 2
        /\ (b \o e)[Len(b \o e)] = e[2]
    BY <2>1, TwoMore
  <2>3. QED
    BY <2>1, <2>2 DEF b, e
<1>4. c \in SUBSET Nat /\ c \subseteq {made + 2} /\ Return(k, s, o, c)
  BY <1>1
<1>5. Len(req[k].base) \in Nat
  BY <1>1
<1> HIDE DEF s, c
<1>6. /\ Others(k) /\ req'[k].base = req[k].base /\ req'[k].result = s
      /\ req'[k].confirmed = c
  BY <1>1, <1>3, <1>4, ReturnIs
<1>7. QED
  BY <1>3, <1>4, <1>5, <1>6 DEF LastWord

\* An execution that confirms nothing.
LEMMA NothingConfirmed ==
    ASSUME Typed, NEW k \in Requests, NEW s \in Seq(Nat), NEW o \in BOOLEAN,
           Return(k, s, o, {})
    PROVE  Others(k) /\ LastWord(k)'
<1>1. req \in [Requests -> Request] /\ {} \in SUBSET Nat
  BY DEF Typed, TypedRequests
<1>2. Others(k) /\ req'[k].confirmed = {}
  BY <1>1, ReturnIs
<1>3. QED
  BY <1>2 DEF LastWord

LEMMA NextLastWord ==
    ASSUME ~AutoCompact, Typed, \A k \in Requests : LastWord(k), [Next]_vars
    PROVE  \A k \in Requests : LastWord(k)'
<1>1. /\ req \in [Requests -> Request] /\ made \in Nat
      /\ \A k \in Requests : /\ req[k].base \in Seq(Nat)
                             /\ req[k].result \in Seq(Nat)
  BY DEF Typed, TypedRequests, Request
<1> DEFINE Goal == \A k \in Requests : LastWord(k)'
<1>2. ASSUME NEW k \in Requests, Others(k), req'[k].pc \notin Returned PROVE Goal
  BY <1>2, OneLastWord DEF LastWord
<1>3. ASSUME NEW k \in Requests, NEW to \in Places, req' = [req EXCEPT ![k].pc = to],
             to \in Returned => req[k].pc \in Returned
      PROVE  Goal
  <2>1. Others(k) /\ req'[k].pc = to /\ Same(k)
    BY <1>1, <1>3, StepIs
  <2>2. LastWord(k)'
    BY <1>3, <2>1 DEF LastWord, Same
  <2>3. QED
    BY <2>1, <2>2, OneLastWord
<1>4. ASSUME \A k \in Requests :
               /\ req'[k].pc = req[k].pc /\ req'[k].base = req[k].base
               /\ req'[k].result = req[k].result
               /\ req'[k].confirmed = req[k].confirmed
      PROVE  Goal
  BY <1>4 DEF LastWord
<1>5. ASSUME NEW k \in Requests, NEW s \in Seq(Nat), NEW o \in BOOLEAN, Return(k, s, o, {})
      PROVE  Goal
  BY <1>5, NothingConfirmed, OneLastWord
<1>6. ASSUME NEW k \in Requests, NEW o \in BOOLEAN, NEW steered \in BOOLEAN,
             Return(k, req[k].base \o Fresh(2), o, IF steered THEN {made + 2} ELSE {})
      PROVE  Goal
  BY <1>6, TwoAdded, OneLastWord
<1>7. /\ TRUE \in BOOLEAN /\ FALSE \in BOOLEAN /\ {0} \subseteq Nat
      /\ {"respond", "done", "register", "append", "read", "rewound", "deleted",
          "invalidated", "publish"} \subseteq Places
  BY DEF Places, Holding
<1> HIDE DEF Goal
<1>8. ASSUME NEW k \in Requests, Arrive(k) \/ ReadHistory(k) \/ RewindCommand(k) \/ Respond(k)
      PROVE  Goal
  <2>1. Others(k) /\ req'[k].pc \in {"waiting", "running", "respond", "rewinding", "releasing"}
    BY <1>8, ArriveIs, ReadHistoryIs, RewindIs, RespondIs
  <2>2. QED
    BY <1>2, <2>1 DEF Returned
<1>9. ASSUME NEW k \in Requests,
             \/ Acquire(k) \/ Register(k) \/ RewindClearsCache(k) \/ Persist(k)
             \/ PersistClearsCache(k) \/ PersistCompacted(k) \/ Publish(k)
             \/ AppendHistory(k) \/ Release(k)
      PROVE  Goal
  <2>1. PICK to \in {"respond", "done", "register", "append", "read", "rewound",
                     "deleted", "invalidated", "publish"} :
          /\ req' = [req EXCEPT ![k].pc = to]
          /\ to \in Returned => req[k].pc \in Returned
    BY <1>9 DEF Acquire, Register, RewindClearsCache, Persist, PersistClearsCache,
       PersistCompacted, Publish, AppendHistory, Release, Step, At, Returned
  <2>2. QED
    BY <1>3, <1>7, <2>1
<1>10. ASSUME NEW k \in Requests, AnswerPrompt(k) PROVE Goal
  <2>1. PICK steered \in BOOLEAN :
           Return(k, req[k].base \o Fresh(2), TRUE, IF steered THEN {made + 2} ELSE {})
    BY <1>10 DEF AnswerPrompt
  <2> DEFINE o == TRUE
  <2>2. o \in BOOLEAN
        /\ Return(k, req[k].base \o Fresh(2), o, IF steered THEN {made + 2} ELSE {})
    BY <2>1
  <2> HIDE DEF o
  <2>3. QED
    BY <1>6, <2>2
<1>11. ASSUME NEW k \in Requests, FailPrompt(k) PROVE Goal
  <2> DEFINE o == FALSE
             one == req[k].base \o Fresh(1)
             leaked == << 0 >> \o req[k].base \o Fresh(1)
  <2>1. o \in BOOLEAN /\ 1 \in Nat
    OBVIOUS
  <2>2. \/ Return(k, one, o, {})
        \/ Return(k, leaked, o, {})
        \/ \E steered \in BOOLEAN :
             Return(k, req[k].base \o Fresh(2), o, IF steered THEN {made + 2} ELSE {})
    BY <1>11 DEF FailPrompt
  <2>3. one \in Seq(Nat) /\ leaked \in Seq(Nat)
    <3>1. Fresh(1) \in Seq(Nat) /\ << 0 >> \in Seq(Nat)
      BY <1>1, <2>1, FreshIs
    <3>2. QED
      BY <1>1, <3>1, ConcatProperties
  <2> HIDE DEF o, one, leaked
  <2>4. QED
    BY <1>5, <1>6, <2>1, <2>2, <2>3
<1>12. ASSUME NEW k \in Requests, CompactCommand(k) \/ RewindReturns(k) \/ DropCommand(k)
       PROVE  Goal
  <2> DEFINE o == TRUE
  <2>1. o \in BOOLEAN /\ <<>> \in Seq(Nat)
    OBVIOUS
  <2>2. \E s \in Seq(Nat) : Return(k, s, o, {})
    <3>1. CASE RewindReturns(k)
      BY <1>1, <3>1 DEF RewindReturns
    <3>2. CASE DropCommand(k)
      BY <1>1, <3>2 DEF DropCommand
    <3>3. CASE CompactCommand(k)
      <4>1. PICK n \in 0..Restored :
              Return(k, IF req[k].base = <<>> THEN <<>> ELSE Fresh(1 + n), o, {})
        BY <3>3 DEF CompactCommand
      <4>2. 1 + n \in Nat
        BY SessionAssumption
      <4>3. Fresh(1 + n) \in Seq(Nat)
        <5> DEFINE m == 1 + n
        <5>1. m \in Nat
          BY <4>2
        <5> HIDE DEF m
        <5>2. Fresh(m) \in Seq(Nat)
          BY <1>1, <5>1, FreshIs
        <5>3. QED
          BY <5>2 DEF m
      <4>4. QED
        BY <2>1, <4>1, <4>3
    <3>4. QED
      BY <1>12, <3>1, <3>2, <3>3
  <2> HIDE DEF o
  <2>3. QED
    BY <1>5, <2>1, <2>2
<1>13. ASSUME Cancel \/ Close PROVE Goal
  <2>1. CancelToken
    BY <1>13 DEF Cancel, Close
  <2>2. QED
    BY <1>4, <2>1, CancelIs
<1>14. ASSUME Crash PROVE Goal
  <2>1. \A k \in Requests : req'[k].pc \notin Returned
    BY <1>14, CrashIs DEF Returned
  <2>2. QED
    BY <2>1 DEF Goal, LastWord
<1>15. ASSUME UNCHANGED req PROVE Goal
  BY <1>4, <1>15
<1>16. ASSUME NEW k \in Requests, Arrive(k) \/ Work(k) PROVE Goal
  <2>1. ~CompactedPrompt(k)
    BY DEF CompactedPrompt
  <2>2. QED
    BY <1>8, <1>9, <1>10, <1>11, <1>12, <1>16, <2>1 DEF Work
<1>17. ASSUME \/ \E t \in Threads : Load(t)
              \/ LoadReadsRows \/ LoadFinishes \/ Resume \/ Fork \/ CloseReleases
              \/ UNCHANGED vars
       PROVE  Goal
  <2>1. UNCHANGED req
    BY <1>17 DEF Load, LoadReadsRows, LoadFinishes, Resume, Fork, CloseReleases, vars
  <2>2. QED
    BY <1>15, <2>1
<1>18. Goal
  BY <1>13, <1>14, <1>16, <1>17 DEF Next
<1>19. QED
  BY <1>18 DEF Goal

\* Stripping leaves the end of a result with two messages or more.
LEMMA StrippedEnds ==
    ASSUME req \in [Requests -> Request], NEW k \in Requests,
           Len(req[k].result) >= 2
    PROVE  req[k].result[Len(req[k].result)] \in Ids(Stripped(k))
<1> DEFINE r == req[k].result
           b == req[k].base
           n == Len(r)
           last == r[n]
<1>1. r \in Seq(Nat) /\ n \in Nat /\ n >= 2
  BY DEF Request
<1>2. ASSUME NEW i \in 1..n PROVE last \in Ids(SubSeq(r, i, n))
  <2> HIDE DEF r, n
  <2>1. Len(r) = n /\ i \in Nat \ {0} /\ n \in Int /\ n <= Len(r) /\ i <= n
    BY <1>1 DEF n
  <2>2. /\ Len(SubSeq(r, i, n)) = n - i + 1
        /\ \A j \in 1..(n - i + 1) : SubSeq(r, i, n)[j] = r[i + j - 1]
    BY <1>1, <2>1, SubSeqType
  <2>3. n - i + 1 \in 1..(n - i + 1) /\ i + (n - i + 1) - 1 = n
    BY <1>1, <2>1
  <2>4. SubSeq(r, i, n)[n - i + 1] = r[n]
    BY <2>2, <2>3
  <2>5. QED
    BY <2>2, <2>3, <2>4 DEF Ids
<1>3. CASE b # <<>> /\ b[1] \in Ids(r)
  <2>1. \E i \in 1..n : r[i] = b[1]
    BY <1>3 DEF Ids
  <2>2. Stripped(k) = SubSeq(r, CHOOSE i \in 1..n : r[i] = b[1], n)
    BY <1>3 DEF Stripped
  <2>3. QED
    BY <1>2, <2>1, <2>2
<1>4. CASE ~ (b # <<>> /\ b[1] \in Ids(r)) /\ b = <<>> /\ r # <<>> /\ r[1] = 0
  <2>1. Stripped(k) = Tail(r)
    BY <1>4 DEF Stripped
  <2>2. Tail(r) = SubSeq(r, 2, n)
    <3> HIDE DEF r
    <3>1. QED
      BY <1>1, <1>4, TailIsSubSeq
  <2>3. 2 \in 1..n
    BY <1>1
  <2>4. QED
    BY <1>2, <2>1, <2>2, <2>3
<1>5. CASE ~ (b # <<>> /\ b[1] \in Ids(r)) /\ ~ (b = <<>> /\ r # <<>> /\ r[1] = 0)
  <2>1. Stripped(k) = r
    BY <1>5 DEF Stripped
  <2>2. n \in 1..Len(r)
    BY <1>1
  <2>3. QED
    BY <2>1, <2>2 DEF Ids
<1>6. QED
  BY <1>3, <1>4, <1>5

LEMMA PublishKeeps ==
    ASSUME Typed, NEW k \in Requests, LastWord(k), Publish(k)
    PROVE  req[k].confirmed \subseteq Ids(history'[Main])
<1>1. CASE req[k].confirmed = {}
  BY <1>1
<1>2. CASE req[k].confirmed # {}
  <2> DEFINE r == req[k].result
  <2>1. /\ req \in [Requests -> Request] /\ r \in Seq(Nat) /\ Len(r) \in Nat
        /\ Len(req[k].base) \in Nat /\ Main \in Threads
        /\ history \in [Threads -> Seq(Nat)] /\ req[k].ok \in BOOLEAN
    BY SessionAssumption DEF Typed, TypedStore, TypedRequests, Request
  <2>2. Len(req[k].base) + 1 < Len(r) /\ req[k].confirmed \subseteq {r[Len(r)]}
    BY <1>2 DEF LastWord, Publish, Step, At, Returned
  <2>3. Len(r) \in 1..Len(r) /\ Len(r) >= 2
    BY <2>1, <2>2
  <2>4. CASE req[k].ok
    <3>1. ~Progressed(k)
      BY <2>4 DEF Progressed
    <3>2. history'[Main] = r
      BY <2>1, <2>4, <3>1 DEF Publish
    <3>3. QED
      BY <2>2, <2>3, <3>2 DEF Ids
  <2>5. CASE ~req[k].ok
    <3>1. Progressed(k)
      BY <2>2, <2>5 DEF Progressed
    <3>2. history'[Main] = Stripped(k)
      BY <2>1, <2>5, <3>1 DEF Publish
    <3>3. QED
      BY <2>1, <2>2, <2>3, <3>2, StrippedEnds
  <2>6. QED
    BY <2>1, <2>4, <2>5
<1>3. QED
  BY <1>1, <1>2

\* A text confirmed to its sender is in the history that the execution leaves,
\* also when it fails or is cancelled (steering/mod.rs:25, prompt.rs:201).  Only
\* a compaction during the execution can break this: rewinds, resumes and forks
\* at any time cannot.
THEOREM ConfirmedStays ==
    ASSUME ~AutoCompact
    PROVE  Spec => ConfirmedIsKept
<1> DEFINE KeepsConfirmed ==
             \A k \in Requests :
               At(k, "publish") /\ req'[k].pc = "respond" =>
                   req[k].confirmed \subseteq Ids(history'[Main])
           Inv == LockInv /\ Typed /\ \A k \in Requests : LastWord(k)
<1>1. Init => Inv
  <2>1. Init => \A k \in Requests : LastWord(k)
    BY DEF Init, Idle, LastWord, Returned
  <2>2. QED
    BY <2>1, InitLocks, InitTyped
<1>2. Inv /\ [Next]_vars => Inv'
  <2> SUFFICES ASSUME Inv, [Next]_vars PROVE Inv'
    OBVIOUS
  <2>1. LockInv' /\ OneAtATime
    BY NextLocks DEF LockInv
  <2>2. Typed'
    BY <2>1, StoreStep, ServerStep, RequestsStep, MutexStep DEF Typed
  <2>3. \A k \in Requests : LastWord(k)'
    BY NextLastWord
  <2>4. QED
    BY <2>1, <2>2, <2>3
<1>3. Inv /\ [Next]_vars => [KeepsConfirmed]_vars
  <2> SUFFICES ASSUME Inv, [Next]_vars, NEW k \in Requests,
                      At(k, "publish"), req'[k].pc = "respond"
               PROVE  req[k].confirmed \subseteq Ids(history'[Main])
    OBVIOUS
  <2>1. Typed /\ OneAtATime
    BY DEF LockInv
  <2>2. Publish(k)
    BY <2>1, OnlyPublish
  <2>3. QED
    BY <2>1, <2>2, PublishKeeps
<1>4. QED
  BY <1>1, <1>2, <1>3, PTL DEF Spec, ConfirmedIsKept
=============================================================================
