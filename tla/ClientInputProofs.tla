-------------------------- MODULE ClientInputProofs --------------------------
(***************************************************************************)
(* ClientInput for every set of texts and notices and any number of        *)
(* interruptions: nothing the user types and nothing a background command  *)
(* reports exists twice, and nothing stays behind when all is quiet.       *)
(*                                                                         *)
(* The handlers of the client are functions of its state, one applied to   *)
(* the result of another.  So the invariant is a predicate of such a state *)
(* s, the receipts rs on their way to it, what is fresh, the execution r   *)
(* and the history k of the server, and each function has a lemma.         *)
(***************************************************************************)
EXTENDS ClientInput, FiniteSetTheorems, TLAPS

Queued(s)       == ToSet(s.queue)
Answered(rs)    == {r.item : r \in rs}
Confirmed(rs, x) == [item |-> x, ok |-> TRUE] \in rs
Runs(r, x)      == r.on /\ (x = r.prompt.text \/ x \in r.prompt.notices \cup r.added)

\* The client has x; a prompt under way has it; the server has it, too.
Has(s, x)      == x \in {s.draft} \cup Queued(s) \cup s.pending \cup s.inFlight
Leaves(s, x)   == \E i \in 1..Len(s.prompts) : Carries(s.prompts[i], x)
Gone(s, r, k, x) == Leaves(s, x) \/ Runs(r, x) \/ k[x] > 0

Typed(s, rs, f, r, k) ==
    /\ s \in Client /\ rs \subseteq Receipt /\ f \subseteq Items
    /\ r \in Run /\ k \in [Items -> 0..2]
    /\ IsInjective(s.queue)
    /\ s.sending \subseteq Queued(s)
    /\ s.current \subseteq s.inFlight

\* What is being added is on its way, in the queue of the execution or answered,
\* and answered once.
Adding(s, rs, r) ==
    /\ s.sending \cup s.inFlight = s.adds \cup r.steered \cup Answered(rs)
    /\ s.adds \cap r.steered = {}
    /\ (s.adds \cup r.steered) \cap Answered(rs) = {}
    /\ \A p, q \in rs : p.item = q.item => p = q
    /\ ~r.on => r = Idle

\* A text is in one place of the client, and so is a notice.
Placed(s, f) ==
    /\ s.draft \notin f \cup Queued(s)
    /\ s.last \in Texts => s.last \notin {s.draft} \cup f \cup Queued(s)
    /\ f \cap (Queued(s) \cup s.pending \cup s.inFlight) = {}
    /\ s.pending \cap s.inFlight = {}

\* What the client has is not on its way to the server or there, unless it is
\* confirmed, and what has left the client is in one place.
Single(s, rs, f, r, k, x) ==
    /\ x \in f => ~Gone(s, r, k, x)
    /\ Has(s, x) /\ ~Confirmed(rs, x) => ~Gone(s, r, k, x)
    /\ Confirmed(rs, x) => ~Leaves(s, x)
    /\ \A i, j \in 1..Len(s.prompts) :
         Carries(s.prompts[i], x) /\ Carries(s.prompts[j], x) => i = j
    /\ Leaves(s, x) => ~Runs(r, x) /\ k[x] = 0
    /\ Runs(r, x) => k[x] = 0
    /\ k[x] <= 1

Good(s, rs, f, r, k) ==
    /\ Typed(s, rs, f, r, k)
    /\ Adding(s, rs, r)
    /\ Placed(s, f)
    /\ \A x \in Items \ s.withdrawn : Single(s, rs, f, r, k, x)

\* A turn is under way: as a prompt, an execution or an end still to be shown.
Busy(s, r, es) == s.prompts # <<>> \/ r.on \/ \E i \in 1..Len(es) : es[i] = "done"

\* Whoever waits waits for something under way: the user, the queue, the notices.
Turning(s, r, es) == s.loading => Busy(s, r, es)
Flowing(s, r, es) == s.queue # <<>> => Busy(s, r, es) \/ s.sending # {}
Heeding(s, r, es) == s.pending # {} => Busy(s, r, es) \/ s.reconciled
Moving(s, r, es) ==
    Turning(s, r, es) /\ Flowing(s, r, es) /\ Heeding(s, r, es)

IInv ==
    /\ Good(ui, receipts, fresh, run, kept)
    /\ cancels \in [sent : 0..MaxInterrupts, coming : BOOLEAN]
    /\ events \in Seq({"tools", "text", "done", "interrupted", "error"})
    /\ Moving(ui, run, events)
-----------------------------------------------------------------------------
\* Without leaves exactly the elements that do not go, each as often as before.
LEMMA WithoutProperties ==
    ASSUME NEW T, NEW q \in Seq(T), NEW X
    PROVE  /\ Without(q, X) \in Seq(T)
           /\ ToSet(Without(q, X)) = ToSet(q) \ X
           /\ IsInjective(q) => IsInjective(Without(q, X))
<1>. DEFINE left == {i \in DOMAIN q : q[i] \notin X}
            Place(i) == Cardinality({j \in left : j <= i})
            n == Cardinality(left)
            At(k) == CHOOSE i \in left : Place(i) = k
<1>1. /\ left \in SUBSET (1..Len(q)) /\ DOMAIN q = 1..Len(q) /\ Len(q) \in Nat
  OBVIOUS
<1>2. /\ IsFiniteSet(left) /\ n \in Nat
      /\ \A S \in SUBSET left : IsFiniteSet(S) /\ Cardinality(S) \in Nat
  <2>. HIDE DEF left
  <2>1. IsFiniteSet(1..Len(q))
    BY <1>1, FS_Interval
  <2>. QED BY <1>1, <2>1, FS_Subset, FS_CardinalityType
<1>3. \A i \in left : Place(i) \in 1..n
  <2>1. ASSUME NEW i \in left
        PROVE  Place(i) \in 1..n
    <3>. DEFINE S == {j \in left : j <= i}
    <3>1. S \in SUBSET left /\ i \in S
      BY <1>1
    <3>. HIDE DEF S, left
    <3>2. Cardinality(S) <= n /\ Cardinality(S) \in Nat /\ IsFiniteSet(S)
      BY <1>2, <3>1, FS_Subset
    <3>3. Cardinality(S) # 0
      BY <3>1, <3>2, FS_EmptySet
    <3>4. Cardinality(S) \in 1..n
      BY <1>2, <3>2, <3>3
    <3>. QED BY <3>4 DEF S
  <2>. QED BY <2>1
<1>4. \A i, j \in left : Place(i) = Place(j) => i = j
  <2>1. ASSUME NEW i \in left, NEW j \in left, i < j
        PROVE  Place(i) # Place(j)
    <3>. DEFINE A == {h \in left : h <= i}
                B == {h \in left : h <= j}
    <3>1. A \in SUBSET B /\ B \in SUBSET left /\ j \in B /\ j \notin A
      BY <1>1, <2>1
    <3>. HIDE DEF A, B, left
    <3>2. Cardinality(B) = Cardinality(A) => B = A
      BY <1>2, <3>1, FS_Subset
    <3>3. Cardinality(A) # Cardinality(B)
      BY <3>1, <3>2
    <3>. QED BY <3>3 DEF A, B
  <2>2. \A i, j \in left : i = j \/ i < j \/ j < i
    BY <1>1
  <2>. HIDE DEF Place, left
  <2>. QED BY <2>1, <2>2
<1>5. \A k \in 1..n : \E i \in left : Place(i) = k
  <2>. DEFINE f == [i \in left |-> Place(i)]
  <2>. HIDE DEF Place, left, n
  <2>1. f \in [left -> 1..n] /\ \A a, b \in left : f[a] = f[b] => a = b
    BY <1>3, <1>4
  <2>2. f \in Injection(left, 1..n)
    BY <2>1 DEF Injection, IsInjective
  <2>3. IsFiniteSet(1..n) /\ Cardinality(1..n) = n
    <3>1. n \in Int /\ 1 \in Int
      BY <1>2
    <3>2. IsFiniteSet(1..n) /\ Cardinality(1..n) = IF 1 > n THEN 0 ELSE n - 1 + 1
      BY <3>1, FS_Interval
    <3>. QED BY <1>2, <3>2
  <2>4. Cardinality(left) = n
    BY DEF n
  <2>5. f \in Surjection(left, 1..n)
    <3>. HIDE DEF f
    <3>. QED BY <2>2, <2>3, <2>4, FS_Injection
  <2>. QED BY <2>5 DEF Surjection
<1>. HIDE DEF Place
<1>6. \A k \in 1..n : At(k) \in left /\ Place(At(k)) = k
  <2>. HIDE DEF left, n
  <2>. QED BY <1>5
<1>7. \A i \in left : Place(i) \in 1..n /\ At(Place(i)) = i
  <2>1. ASSUME NEW i \in left
        PROVE  At(Place(i)) = i
    BY <1>3, <1>4, <1>6, <2>1
  <2>. QED BY <1>3, <2>1
<1>8. Without(q, X) = [k \in 1..n |-> q[At(k)]]
  BY DEF Without, Place
<1>. HIDE DEF At, n
<1>9. \A k \in 1..n : q[At(k)] \in T
  BY <1>1, <1>6
<1>10. Without(q, X) \in Seq(T) /\ DOMAIN Without(q, X) = 1..n
  BY <1>2, <1>8, <1>9
<1>11. ToSet(Without(q, X)) = ToSet(q) \ X
  <2>1. \A x : x \in ToSet(Without(q, X)) <=> \E k \in 1..n : x = q[At(k)]
    BY <1>8, <1>10 DEF ToSet
  <2>2. \A x : x \in ToSet(q) \ X <=> \E i \in left : x = q[i]
    BY DEF ToSet
  <2>. HIDE DEF left
  <2>. QED BY <1>6, <1>7, <2>1, <2>2
<1>12. ASSUME IsInjective(q)
       PROVE  IsInjective(Without(q, X))
  <2>1. \A i, j \in left : q[i] = q[j] => i = j
    BY <1>12 DEF IsInjective
  <2>. HIDE DEF left
  <2>2. \A k, m \in 1..n : q[At(k)] = q[At(m)] => k = m
    BY <1>6, <2>1
  <2>. QED BY <1>8, <1>10, <2>2 DEF IsInjective
<1>. QED BY <1>10, <1>11, <1>12

\* What is left of a sequence when its i-th element goes.
LEMMA RemoveAtProperties ==
    ASSUME NEW T, NEW q \in Seq(T), NEW i \in 1..Len(q)
    PROVE  /\ RemoveAt(q, i) \in Seq(T)
           /\ Len(RemoveAt(q, i)) = Len(q) - 1
           /\ \A j \in 1..(Len(q) - 1) :
                RemoveAt(q, i)[j] = IF j < i THEN q[j] ELSE q[j + 1]
<1>. DEFINE a == SubSeq(q, 1, i - 1)
            b == SubSeq(q, i + 1, Len(q))
<1>1. i \in Nat \ {0} /\ i <= Len(q) /\ Len(q) \in Nat
  OBVIOUS
<1>2. /\ a \in Seq(T) /\ Len(a) = i - 1
      /\ \A j \in 1..(i - 1) : a[j] = q[j]
  BY <1>1
<1>3. /\ b \in Seq(T) /\ Len(b) = Len(q) - i
      /\ \A j \in 1..(Len(q) - i) : b[j] = q[i + j]
  BY <1>1
<1>4. RemoveAt(q, i) = a \o b
  BY DEF RemoveAt
<1>. HIDE DEF a, b
<1>5. a \o b \in Seq(T) /\ Len(a \o b) = Len(q) - 1
  <2>1. a \o b \in Seq(T) /\ Len(a \o b) = Len(a) + Len(b)
    <3>1. a \in Seq(T) /\ b \in Seq(T)
      BY <1>2, <1>3
    <3>. QED BY ONLY <3>1
  <2>2. (i - 1) + (Len(q) - i) = Len(q) - 1
    BY <1>1
  <2>. QED BY <1>2, <1>3, <2>1, <2>2
<1>6. ASSUME NEW j \in 1..(Len(q) - 1)
      PROVE  (a \o b)[j] = IF j < i THEN q[j] ELSE q[j + 1]
  <2>1. CASE j < i
    <3>1. j \in 1..(i - 1) /\ j \in 1..Len(a)
      BY <1>1, <1>2, <2>1
    <3>. QED BY <1>2, <1>3, <2>1, <3>1
  <2>2. CASE j >= i
    <3>1. /\ j - (i - 1) \in 1..(Len(q) - i)
          /\ i + (j - (i - 1)) = j + 1
      BY <1>1, <2>2
    <3>2. (a \o b)[j] = b[j - Len(a)]
      BY <1>1, <1>2, <1>3, <2>2
    <3>. QED BY <1>1, <1>2, <1>3, <2>2, <3>1, <3>2
  <2>3. j < i \/ j >= i
    BY <1>1
  <2>. QED BY ONLY <2>1, <2>2, <2>3
<1>. QED BY <1>4, <1>5, <1>6

\* What a sequence has, and is, when x comes behind it.
LEMMA AppendAdds ==
    ASSUME NEW T, NEW q \in Seq(T), NEW x \in T
    PROVE  /\ Append(q, x) \in Seq(T) /\ Len(Append(q, x)) = Len(q) + 1
           /\ Append(q, x)[Len(q) + 1] = x
           /\ \A i \in 1..Len(q) : Append(q, x)[i] = q[i]
           /\ ToSet(Append(q, x)) = ToSet(q) \cup {x}
           /\ IsInjective(q) /\ x \notin ToSet(q) => IsInjective(Append(q, x))
<1>. DEFINE a == Append(q, x)
<1>1. /\ a \in Seq(T) /\ Len(a) = Len(q) + 1
      /\ a[Len(q) + 1] = x
      /\ \A i \in 1..Len(q) : a[i] = q[i]
  OBVIOUS
<1>2. /\ DOMAIN q = 1..Len(q) /\ Len(q) \in Nat
      /\ DOMAIN a = 1..(Len(q) + 1)
      /\ \A i \in 1..(Len(q) + 1) : i \in 1..Len(q) \/ i = Len(q) + 1
      /\ \A i \in 1..Len(q) : i \in 1..(Len(q) + 1)
      /\ Len(q) + 1 \in 1..(Len(q) + 1)
  OBVIOUS
<1>. HIDE DEF a
<1>3. ToSet(a) = ToSet(q) \cup {x}
  BY <1>1, <1>2 DEF ToSet
<1>4. IsInjective(q) /\ x \notin ToSet(q) => IsInjective(a)
  BY <1>1, <1>2 DEF ToSet, IsInjective
<1>. QED BY <1>1, <1>3, <1>4 DEF a
-----------------------------------------------------------------------------
\* A submission keeps the invariant when the text is nowhere else.
LEMMA SubmitKeeps ==
    ASSUME NEW s, NEW rs, NEW f, NEW r, NEW k, Good(s, rs, f, r, k),
           NEW t \in Texts \cup {Nothing},
           t \in Texts => t \notin {s.draft} \cup f \cup Queued(s),
           t \in Texts \ s.withdrawn =>
             ~Gone(s, r, k, t) /\ ~Confirmed(rs, t)
    PROVE  Good(Submit(s, t), rs, f, r, k)
<1>. DEFINE u == Submit(s, t)
            p == [text |-> t, notices |-> s.pending]
            n == Len(s.prompts)
<1>1. s \in Client /\ s.prompts \in Seq(Prompt) /\ s.pending \in SUBSET Notices
  BY DEF Good, Typed, Client
<1>2. p \in Prompt /\ \A x : Carries(p, x) <=> x = t \/ x \in s.pending
  BY <1>1 DEF Prompt, Carries
<1>. HIDE DEF p
<1>3. /\ u.draft = s.draft /\ u.queue = s.queue /\ u.sending = s.sending
      /\ u.pending = {} /\ u.inFlight = s.inFlight /\ u.current = {}
      /\ u.last = t /\ u.withdrawn = s.withdrawn
      /\ u.prompts = Append(s.prompts, p) /\ u.adds = s.adds
      /\ u \in Client
  <2>1. Append(s.prompts, p) \in Seq(Prompt)
    BY <1>1, <1>2, AppendAdds
  <2>. QED BY <1>1, <2>1 DEF Submit, Client, p
<1>4. /\ n \in Nat /\ Len(u.prompts) = n + 1 /\ u.prompts[n + 1] = p
      /\ \A i \in 1..n : u.prompts[i] = s.prompts[i]
      /\ \A i : i \in 1..(n + 1) <=> i \in 1..n \/ i = n + 1
  BY <1>1, <1>2, <1>3, AppendAdds
<1>5. \A x : Leaves(u, x) <=> Leaves(s, x) \/ x = t \/ x \in s.pending
  <2>. HIDE DEF u, n
  <2>. QED BY <1>2, <1>4 DEF Leaves, n
<1>. HIDE DEF u
<1>6. Typed(u, rs, f, r, k)
  BY <1>3 DEF Good, Typed, Queued
<1>7. Adding(u, rs, r)
  BY <1>3 DEF Good, Adding
<1>8. Placed(u, f)
  BY <1>3 DEF Good, Placed, Queued
<1>9. ASSUME NEW x \in Items \ u.withdrawn
      PROVE  Single(u, rs, f, r, k, x)
  <2>1. Single(s, rs, f, r, k, x)
    BY <1>3, <1>9 DEF Good
  <2>2. x = t => x \notin {s.draft} \cup f \cup Queued(s) \cup s.pending \cup s.inFlight
               /\ ~Gone(s, r, k, x) /\ ~Confirmed(rs, x)
    BY <1>1, <1>3, InputAssumption DEF Items, Client
  <2>3. x \in s.pending => ~Confirmed(rs, x) /\ ~Gone(s, r, k, x)
    <3>1. x \in s.pending => x \notin s.sending \cup s.inFlight
      BY <1>1, InputAssumption DEF Client, Good, Placed
    <3>2. Confirmed(rs, x) => x \in s.sending \cup s.inFlight
      BY DEF Good, Adding, Confirmed, Answered
    <3>3. x \in s.pending => Has(s, x)
      BY DEF Has
    <3>. QED BY <2>1, <3>1, <3>2, <3>3 DEF Single
  <2>4. x \in s.pending =>
          x \notin {s.draft} \cup f \cup Queued(s) \cup s.inFlight
    BY <1>1, InputAssumption DEF Good, Placed, Client, Typed, Queued, ToSet
  <2>5. Has(u, x) => Has(s, x) /\ x # t /\ x \notin s.pending
    BY <1>3, <2>2, <2>4 DEF Has, Queued
  <2>6. Gone(u, r, k, x) => Gone(s, r, k, x) \/ x = t \/ x \in s.pending
    BY <1>5 DEF Gone
  <2>7. x \in f => ~Gone(u, r, k, x)
    BY <2>1, <2>2, <2>4, <2>6 DEF Single
  <2>8. Has(u, x) /\ ~Confirmed(rs, x) => ~Gone(u, r, k, x)
    BY <2>1, <2>5, <2>6 DEF Single
  <2>9. Confirmed(rs, x) => ~Leaves(u, x)
    BY <1>5, <2>1, <2>2, <2>3 DEF Single
  <2>10. \A i, j \in 1..Len(u.prompts) :
           Carries(u.prompts[i], x) /\ Carries(u.prompts[j], x) => i = j
    <3>1. Carries(p, x) => \A i \in 1..n : ~Carries(u.prompts[i], x)
      BY <1>2, <1>4, <2>2, <2>3 DEF Gone, Leaves, n
    <3>2. \A i, j \in 1..n :
            Carries(u.prompts[i], x) /\ Carries(u.prompts[j], x) => i = j
      BY <1>4, <2>1 DEF Single, n
    <3>. HIDE DEF n
    <3>. QED BY <1>4, <3>1, <3>2
  <2>11. Leaves(u, x) => ~Runs(r, x) /\ k[x] = 0
    <3>1. k[x] \in 0..2
      BY <1>9 DEF Good, Typed
    <3>2. ~Gone(s, r, k, x) => ~Runs(r, x) /\ k[x] = 0
      BY <3>1 DEF Gone
    <3>. QED BY <1>5, <2>1, <2>2, <2>3, <3>2 DEF Single
  <2>. QED BY <2>1, <2>7, <2>8, <2>9, <2>10, <2>11 DEF Single
<1>. QED BY <1>6, <1>7, <1>8, <1>9 DEF Good, u

\* What the invariant asks of one item survives where nothing of it appears
\* that was not there, and no receipt goes that still answers for it.
LEMMA SingleSame ==
    ASSUME NEW s, NEW u, NEW rs, NEW rs2, NEW f, NEW f2, NEW r, NEW k, NEW x,
           Single(s, rs, f, r, k, x),
           u.prompts = s.prompts,
           x \in f2 => x \in f,
           Confirmed(rs2, x) => Confirmed(rs, x),
           Has(u, x) /\ ~Confirmed(rs2, x) =>
             x \in f \/ (Has(s, x) /\ ~Confirmed(rs, x))
    PROVE  Single(u, rs2, f2, r, k, x)
<1>1. Leaves(u, x) <=> Leaves(s, x)
  BY DEF Leaves
<1>. QED BY <1>1 DEF Single, Gone

\* The fields of the client that the invariant looks at.
LEMMA GoodSame ==
    ASSUME NEW s, NEW u \in Client, NEW rs, NEW f, NEW r, NEW k,
           Good(s, rs, f, r, k),
           u.draft = s.draft, u.queue = s.queue, u.sending = s.sending,
           u.pending = s.pending, u.inFlight = s.inFlight,
           u.current \subseteq s.current, u.last = s.last,
           u.withdrawn = s.withdrawn, u.prompts = s.prompts, u.adds = s.adds
    PROVE  Good(u, rs, f, r, k)
<1>1. Typed(u, rs, f, r, k)
  BY DEF Good, Typed, Queued
<1>2. Adding(u, rs, r)
  BY DEF Good, Adding
<1>3. Placed(u, f)
  BY DEF Good, Placed, Queued
<1>4. ASSUME NEW x \in Items \ u.withdrawn
      PROVE  Single(u, rs, f, r, k, x)
  <2>1. Has(u, x) => Has(s, x)
    BY DEF Has, Queued
  <2>2. Single(s, rs, f, r, k, x)
    BY DEF Good
  <2>. QED BY <2>1, <2>2, SingleSame
<1>. QED BY <1>1, <1>2, <1>3, <1>4 DEF Good

LEMMA UnqueueKeeps ==
    ASSUME NEW s, NEW rs, NEW f, NEW r, NEW k, Good(s, rs, f, r, k),
           NEW m \in Texts \ s.sending
    PROVE  /\ Good(Unqueue(s, m), rs, f, r, k)
           /\ Queued(Unqueue(s, m)) = Queued(s) \ {m}
<1>. DEFINE u == Unqueue(s, m)
<1>1. s \in Client /\ s.queue \in Seq(Texts) /\ IsInjective(s.queue)
  BY DEF Good, Typed, Client
<1>2. /\ Without(s.queue, {m}) \in Seq(Texts)
      /\ ToSet(Without(s.queue, {m})) = ToSet(s.queue) \ {m}
      /\ IsInjective(Without(s.queue, {m}))
  BY <1>1, WithoutProperties
<1>3. /\ u \in Client /\ u.queue = Without(s.queue, {m})
      /\ u.draft = s.draft /\ u.sending = s.sending
      /\ u.pending = s.pending /\ u.inFlight = s.inFlight
      /\ u.current = s.current /\ u.last = s.last
      /\ u.withdrawn = s.withdrawn /\ u.prompts = s.prompts
      /\ u.adds = s.adds
  BY <1>1, <1>2 DEF Unqueue, Client
<1>. HIDE DEF u
<1>4. Queued(u) = Queued(s) \ {m} /\ IsInjective(u.queue)
  BY <1>2, <1>3 DEF Queued
<1>5. Typed(u, rs, f, r, k)
  BY <1>3, <1>4 DEF Good, Typed
<1>6. Adding(u, rs, r)
  BY <1>3 DEF Good, Adding
<1>7. Placed(u, f)
  BY <1>3, <1>4 DEF Good, Placed
<1>8. ASSUME NEW x \in Items \ u.withdrawn
      PROVE  Single(u, rs, f, r, k, x)
  <2>1. Has(u, x) => Has(s, x)
    BY <1>3, <1>4 DEF Has
  <2>2. Single(s, rs, f, r, k, x)
    BY <1>3 DEF Good
  <2>. QED BY <1>3, <2>1, <2>2, SingleSame
<1>. QED BY <1>4, <1>5, <1>6, <1>7, <1>8 DEF Good, u

\* Who is in the client and not confirmed has not left it; confirmed is only
\* what is being added.
LEMMA AtHome ==
    ASSUME NEW s, NEW rs, NEW f, NEW r, NEW k, Good(s, rs, f, r, k),
           NEW x \in Items \ s.withdrawn,
           Has(s, x), x \notin s.sending \cup s.inFlight
    PROVE  ~Gone(s, r, k, x) /\ ~Confirmed(rs, x)
<1>1. ~Confirmed(rs, x)
  BY DEF Good, Adding, Confirmed, Answered
<1>. QED BY <1>1 DEF Good, Single

LEMMA FlushKeeps ==
    ASSUME NEW s, NEW rs, NEW f, NEW r, NEW k, Good(s, rs, f, r, k)
    PROVE  /\ Good(Flush(s), rs, f, r, k)
           /\ Flush(s).inFlight = s.inFlight
<1>1. CASE s.queue = <<>> \/ s.sending # {}
  BY <1>1 DEF Flush
<1>2. CASE s.queue # <<>> /\ s.sending = {}
  <2>. DEFINE h == Head(s.queue)
              u == Unqueue(s, h)
  <2>1. /\ s \in Client /\ s.queue \in Seq(Texts) /\ h \in Texts
        /\ h \in Queued(s)
    <3>1. s \in Client /\ s.queue \in Seq(Texts)
      BY DEF Good, Typed, Client
    <3>2. h = s.queue[1] /\ 1 \in DOMAIN s.queue /\ h \in Texts
      BY <1>2, <3>1
    <3>. QED BY <3>1, <3>2 DEF Queued, ToSet
  <2>. HIDE DEF h
  <2>2. Good(u, rs, f, r, k) /\ Queued(u) = Queued(s) \ {h}
    BY <1>2, <2>1, UnqueueKeeps
  <2>3. /\ u.draft = s.draft /\ u.withdrawn = s.withdrawn
        /\ u.prompts = s.prompts /\ u.inFlight = s.inFlight
        /\ u \in Client
    BY <2>1, <2>2 DEF Unqueue, Client, Good, Typed
  <2>. HIDE DEF u
  <2>4. h \notin {u.draft} \cup f \cup Queued(u)
    BY <2>1, <2>2, <2>3 DEF Good, Placed
  <2>5. h \in Texts \ u.withdrawn => ~Gone(u, r, k, h) /\ ~Confirmed(rs, h)
    <3>1. h \in Items /\ h \notin s.inFlight /\ Has(s, h)
      BY <2>1, InputAssumption DEF Items, Client, Has
    <3>2. h \notin s.withdrawn => ~Gone(s, r, k, h) /\ ~Confirmed(rs, h)
      BY <1>2, <3>1, AtHome
    <3>. QED BY <2>3, <3>2 DEF Gone, Leaves
  <2>6. Flush(s) = Submit(u, h)
    BY <1>2 DEF Flush, u, h
  <2>7. Submit(u, h).inFlight = u.inFlight
    BY <2>3 DEF Submit, Client
  <2>. QED BY <2>1, <2>2, <2>3, <2>4, <2>5, <2>6, <2>7, SubmitKeeps
<1>. QED BY <1>1, <1>2

LEMMA DispatchKeeps ==
    ASSUME NEW s, NEW rs, NEW f, NEW r, NEW k, Good(s, rs, f, r, k),
           NEW new \in BOOLEAN
    PROVE  Good(Dispatch(s, new), rs, f, r, k)
<1>. DEFINE u == [s EXCEPT !.tried = TRUE, !.pending = {},
                           !.inFlight = @ \cup s.pending,
                           !.current = @ \cup s.pending,
                           !.adds = @ \cup s.pending]
<1>1. s \in Client
  BY DEF Good, Typed
<1>2. Good(u, rs, f, r, k)
  <2>1. /\ u \in Client /\ u.draft = s.draft /\ u.queue = s.queue
        /\ u.sending = s.sending /\ u.pending = {}
        /\ u.inFlight = s.inFlight \cup s.pending
        /\ u.current = s.current \cup s.pending /\ u.last = s.last
        /\ u.withdrawn = s.withdrawn /\ u.prompts = s.prompts
        /\ u.adds = s.adds \cup s.pending
    BY <1>1 DEF Client, Items
  <2>. HIDE DEF u
  <2>2. Typed(u, rs, f, r, k)
    BY <2>1 DEF Good, Typed, Queued
  <2>3. s.pending \cap (s.adds \cup r.steered \cup Answered(rs)) = {}
    <3>1. s.pending \cap (s.sending \cup s.inFlight) = {}
      BY <1>1, InputAssumption DEF Client, Good, Placed
    <3>. QED BY <3>1 DEF Good, Adding
  <2>4. Adding(u, rs, r)
    BY <2>1, <2>3 DEF Good, Adding
  <2>5. Placed(u, f)
    BY <2>1 DEF Good, Placed, Queued
  <2>6. ASSUME NEW x \in Items \ u.withdrawn
        PROVE  Single(u, rs, f, r, k, x)
    <3>1. Has(u, x) => Has(s, x)
      BY <2>1 DEF Has, Queued
    <3>2. Single(s, rs, f, r, k, x)
      BY <2>1 DEF Good
    <3>. QED BY <2>1, <3>1, <3>2, SingleSame
  <2>. QED BY <2>2, <2>4, <2>5, <2>6 DEF Good
<1>3. Good(Submit(s, Nothing), rs, f, r, k)
  BY SubmitKeeps, InputAssumption
<1>. HIDE DEF u
<1>4. Dispatch(s, new) \in {s, u, Submit(s, Nothing)}
  BY DEF Dispatch, u
<1>. QED BY <1>2, <1>3, <1>4

LEMMA Confirming ==
    ASSUME NEW rs, rs \subseteq Receipt
    PROVE  \A x : Confirmed(rs, x) <=> \E q \in rs : q.item = x /\ q.ok
<1>1. ASSUME NEW q \in rs, q.ok
      PROVE  Confirmed(rs, q.item)
  <2>1. q = [item |-> q.item, ok |-> q.ok] /\ q.ok = TRUE
    BY <1>1 DEF Receipt
  <2>2. q = [item |-> q.item, ok |-> TRUE]
    BY <2>1
  <2>. QED BY <2>2 DEF Confirmed
<1>2. ASSUME NEW x, Confirmed(rs, x)
      PROVE  \E q \in rs : q.item = x /\ q.ok
  BY <1>2 DEF Confirmed
<1>. QED BY <1>1, <1>2

\* The receipts of texts are used up.
LEMMA PollTextsKeeps ==
    ASSUME NEW s, NEW f, NEW r, NEW k, Good(s, receipts, f, r, k)
    PROVE  /\ Good(PollTexts(s), {q \in receipts : q.item \notin s.sending},
                   f, r, k)
           /\ PollTexts(s).inFlight = s.inFlight
<1>. DEFINE rs  == {q \in receipts : q.item \notin s.sending}
            yes == Accepted(s.sending)
            no  == Rejected(s.sending)
            u   == [s EXCEPT !.sending = @ \ (yes \cup no),
                             !.queue = Without(@, yes),
                             !.last = IF yes = {} THEN @ ELSE Nothing]
<1>1. /\ s \in Client /\ s.queue \in Seq(Texts) /\ IsInjective(s.queue)
      /\ receipts \subseteq Receipt
  BY DEF Good, Typed, Client
<1>2. /\ \A x : x \in yes <=> x \in s.sending /\ Confirmed(receipts, x)
      /\ \A x : x \in yes \cup no <=> x \in s.sending /\ x \in Answered(receipts)
  <2>1. \A x : x \in yes <=> x \in s.sending /\ \E q \in receipts : q.item = x /\ q.ok
    BY DEF Accepted
  <2>2. \A x : x \in no <=> x \in s.sending /\ \E q \in receipts : q.item = x /\ ~q.ok
    BY DEF Rejected
  <2>. HIDE DEF yes, no
  <2>. QED BY <1>1, <2>1, <2>2, Confirming DEF Answered
<1>3. /\ \A x : Confirmed(rs, x) <=> Confirmed(receipts, x) /\ x \notin s.sending
      /\ Answered(rs) = Answered(receipts) \ s.sending
  BY DEF Confirmed, Answered
<1>. HIDE DEF rs, yes, no
<1>4. /\ Without(s.queue, yes) \in Seq(Texts)
      /\ ToSet(Without(s.queue, yes)) = ToSet(s.queue) \ yes
      /\ IsInjective(Without(s.queue, yes))
  BY <1>1, WithoutProperties
<1>5. /\ u \in Client /\ u.queue = Without(s.queue, yes)
      /\ u.draft = s.draft /\ u.sending = s.sending \ (yes \cup no)
      /\ u.pending = s.pending /\ u.inFlight = s.inFlight
      /\ u.current = s.current
      /\ u.last = (IF yes = {} THEN s.last ELSE Nothing)
      /\ u.withdrawn = s.withdrawn /\ u.prompts = s.prompts
      /\ u.adds = s.adds
  BY <1>1, <1>4 DEF Client
<1>6. Queued(u) = Queued(s) \ yes /\ IsInjective(u.queue)
  BY <1>4, <1>5 DEF Queued
<1>. HIDE DEF u
<1>7. Typed(u, rs, f, r, k)
  <2>1. rs \subseteq receipts
    BY DEF rs
  <2>. QED BY <1>5, <1>6, <2>1 DEF Good, Typed
<1>8. s.sending \cap s.inFlight = {}
  BY <1>1, InputAssumption DEF Client
<1>9. Adding(u, rs, r)
  <2>1. u.sending \cup u.inFlight = u.adds \cup r.steered \cup Answered(rs)
    BY <1>2, <1>3, <1>5, <1>8 DEF Good, Adding
  <2>2. \A p, q \in rs : p.item = q.item => p = q
    BY DEF Good, Adding, rs
  <2>. QED BY <1>3, <1>5, <2>1, <2>2 DEF Good, Adding
<1>10. Placed(u, f)
  BY <1>5, <1>6, InputAssumption DEF Good, Placed
<1>11. ASSUME NEW x \in Items \ u.withdrawn
       PROVE  Single(u, rs, f, r, k, x)
  <2>1. Has(u, x) => Has(s, x)
    BY <1>5, <1>6 DEF Has
  <2>2. Single(s, receipts, f, r, k, x)
    BY <1>5 DEF Good
  <2>3. Has(u, x) /\ ~Confirmed(rs, x) => ~Confirmed(receipts, x)
    <3>1. SUFFICES ASSUME Has(u, x), x \in yes
                   PROVE  FALSE
      BY <1>2, <1>3
    <3>2. x \in s.sending /\ x \in Queued(s) /\ x \notin Queued(u)
      BY <1>2, <1>6, <3>1 DEF Good, Typed
    <3>3. x \notin s.pending \cup s.inFlight
      BY <1>1, <3>2, InputAssumption DEF Client
    <3>. QED BY <1>5, <3>1, <3>2, <3>3 DEF Has, Good, Placed
  <2>. QED BY <1>3, <1>5, <2>1, <2>2, <2>3, SingleSame
<1>12. Good(u, rs, f, r, k)
  BY <1>7, <1>9, <1>10, <1>11 DEF Good
<1>13. PollTexts(s) \in {u, Flush(u)}
  BY DEF PollTexts, u, yes, no
<1>14. Good(PollTexts(s), rs, f, r, k) /\ PollTexts(s).inFlight = s.inFlight
  BY <1>5, <1>12, <1>13, FlushKeeps
<1>. QED BY <1>14 DEF rs

\* So are those of notices.
LEMMA PollNoticesKeeps ==
    ASSUME NEW s, NEW rs \in SUBSET receipts, NEW f, NEW r, NEW k,
           Good(s, rs, f, r, k),
           \A q \in receipts : q.item \in s.inFlight => q \in rs
    PROVE  Good(PollNotices(s), {q \in rs : q.item \notin s.inFlight}, f, r, k)
<1>. DEFINE rs2 == {q \in rs : q.item \notin s.inFlight}
            yes == Accepted(s.inFlight)
            no  == Rejected(s.inFlight)
            u   == [s EXCEPT !.inFlight = @ \ (yes \cup no),
                       !.current = @ \ (yes \cup no),
                       !.pending = @ \cup no,
                       !.last = IF yes \cap s.current # {} THEN Nothing ELSE @]
<1>1. s \in Client /\ rs \subseteq Receipt
  BY DEF Good, Typed, Client
<1>2. /\ \A x : x \in yes <=> x \in s.inFlight /\ Confirmed(rs, x)
      /\ \A x : x \in no <=> x \in s.inFlight /\ \E q \in rs : q.item = x /\ ~q.ok
      /\ \A x : x \in yes \cup no <=> x \in s.inFlight /\ x \in Answered(rs)
  <2>1. \A x : x \in yes <=> x \in s.inFlight /\ \E q \in rs : q.item = x /\ q.ok
    BY DEF Accepted
  <2>2. \A x : x \in no <=> x \in s.inFlight /\ \E q \in rs : q.item = x /\ ~q.ok
    BY DEF Rejected
  <2>. HIDE DEF yes, no
  <2>. QED BY <1>1, <2>1, <2>2, Confirming DEF Answered
<1>3. /\ \A x : Confirmed(rs2, x) <=> Confirmed(rs, x) /\ x \notin s.inFlight
      /\ Answered(rs2) = Answered(rs) \ s.inFlight
  BY DEF Confirmed, Answered
<1>. HIDE DEF rs2, yes, no
<1>4. yes \subseteq Notices /\ no \subseteq Notices
  BY <1>1, <1>2 DEF Client
<1>5. /\ u \in Client /\ u.queue = s.queue
      /\ u.draft = s.draft /\ u.sending = s.sending
      /\ u.pending = s.pending \cup no
      /\ u.inFlight = s.inFlight \ (yes \cup no)
      /\ u.current = s.current \ (yes \cup no)
      /\ u.last \in {s.last, Nothing}
      /\ u.withdrawn = s.withdrawn /\ u.prompts = s.prompts
      /\ u.adds = s.adds
  BY <1>1, <1>4 DEF Client
<1>. HIDE DEF u
<1>6. Typed(u, rs2, f, r, k)
  <2>1. rs2 \subseteq rs
    BY DEF rs2
  <2>. QED BY <1>5, <2>1 DEF Good, Typed, Queued
<1>7. s.sending \cap s.inFlight = {}
  BY <1>1, InputAssumption DEF Client
<1>8. Adding(u, rs2, r)
  <2>1. u.sending \cup u.inFlight = u.adds \cup r.steered \cup Answered(rs2)
    BY <1>2, <1>3, <1>5, <1>7 DEF Good, Adding
  <2>2. \A p, q \in rs2 : p.item = q.item => p = q
    BY DEF Good, Adding, rs2
  <2>. QED BY <1>3, <1>5, <2>1, <2>2 DEF Good, Adding
<1>9. Placed(u, f)
  BY <1>2, <1>5, InputAssumption DEF Good, Placed, Queued
<1>10. ASSUME NEW x \in Items \ u.withdrawn
       PROVE  Single(u, rs2, f, r, k, x)
  <2>1. Has(u, x) => Has(s, x)
    BY <1>2, <1>5 DEF Has, Queued
  <2>2. Single(s, rs, f, r, k, x)
    BY <1>5 DEF Good
  <2>3. Has(u, x) /\ ~Confirmed(rs2, x) => ~Confirmed(rs, x)
    <3>1. SUFFICES ASSUME Has(u, x), x \in yes
                   PROVE  FALSE
      BY <1>2, <1>3
    <3>2. x \in s.inFlight /\ x \notin s.pending /\ x \in Notices
      BY <1>2, <1>4, <3>1 DEF Good, Placed
    <3>3. x \notin no
      <4>1. \E q \in rs : q.item = x /\ q.ok
        BY <1>1, <1>2, <3>1, Confirming
      <4>2. x \in no => \E q \in rs : q.item = x /\ ~q.ok
        BY <1>2
      <4>. QED BY <4>1, <4>2 DEF Good, Adding
    <3>4. x # s.draft /\ x \notin Queued(s)
      BY <1>1, <3>2, InputAssumption DEF Client, Queued, ToSet
    <3>. QED BY <1>5, <3>1, <3>2, <3>3, <3>4 DEF Has, Queued
  <2>. QED BY <1>3, <1>5, <2>1, <2>2, <2>3, SingleSame
<1>11. Good(u, rs2, f, r, k)
  BY <1>6, <1>8, <1>9, <1>10 DEF Good
<1>12. PollNotices(s) = Dispatch(u, FALSE)
  BY DEF PollNotices, u, yes, no
<1>13. Good(PollNotices(s), rs2, f, r, k)
  BY <1>11, <1>12, DispatchKeeps
<1>. QED BY <1>13 DEF rs2
-----------------------------------------------------------------------------
\* What the user does.
LEMMA UserKeeps ==
    ASSUME Good(ui, receipts, fresh, run, kept), User
    PROVE  Good(ui', receipts', fresh', run', kept')
<1>. DEFINE G == Good(ui', receipts', fresh', run', kept')
<1>1. /\ ui \in Client /\ ui.queue \in Seq(Texts) /\ IsInjective(ui.queue)
      /\ ui.draft \in Texts \cup {Nothing} /\ Queued(ui) \subseteq Texts
      /\ ui.sending \subseteq Queued(ui)
      /\ ui.inFlight \cup ui.pending \subseteq Notices
  BY DEF Good, Typed, Client, Queued, ToSet
<1>2. ASSUME NEW m \in Texts, Type(m)
      PROVE  G
  <2>. DEFINE u == [ui EXCEPT !.draft = m]
  <2>1. /\ u \in Client /\ u.draft = m /\ u.queue = ui.queue
        /\ u.sending = ui.sending /\ u.pending = ui.pending
        /\ u.inFlight = ui.inFlight /\ u.current = ui.current
        /\ u.last = ui.last /\ u.withdrawn = ui.withdrawn
        /\ u.prompts = ui.prompts /\ u.adds = ui.adds
    BY <1>1 DEF Client
  <2>2. ui' = u /\ fresh' = fresh \ {m} /\ m \in fresh
        /\ receipts' = receipts /\ run' = run /\ kept' = kept
    BY <1>2 DEF Type
  <2>. HIDE DEF u
  <2>3. Typed(u, receipts, fresh \ {m}, run, kept) /\ Adding(u, receipts, run)
    BY <2>1 DEF Good, Typed, Adding, Queued
  <2>4. Placed(u, fresh \ {m})
    BY <2>1, <2>2 DEF Good, Placed, Queued
  <2>5. ASSUME NEW x \in Items \ u.withdrawn
        PROVE  Single(u, receipts, fresh \ {m}, run, kept, x)
    <3>1. Has(u, x) => Has(ui, x) \/ x \in fresh
      BY <2>1, <2>2 DEF Has, Queued
    <3>2. Single(ui, receipts, fresh, run, kept, x)
      BY <2>1 DEF Good
    <3>. QED BY <2>1, <3>1, <3>2, SingleSame
  <2>. QED BY <2>2, <2>3, <2>4, <2>5 DEF Good
<1>3. ASSUME NEW m \in Texts, Steer(m)
      PROVE  G
  <2>1. m \in Queued(ui) \ ui.sending /\ UNCHANGED <<fresh, run, receipts, kept>>
    BY <1>3 DEF Steer, Queued
  <2>2. CASE ui.loading
    <3>. DEFINE u == [ui EXCEPT !.sending = @ \cup {m}, !.adds = @ \cup {m}]
    <3>1. /\ u \in Client /\ u.draft = ui.draft /\ u.queue = ui.queue
          /\ u.sending = ui.sending \cup {m} /\ u.pending = ui.pending
          /\ u.inFlight = ui.inFlight /\ u.current = ui.current
          /\ u.last = ui.last /\ u.withdrawn = ui.withdrawn
          /\ u.prompts = ui.prompts /\ u.adds = ui.adds \cup {m}
      BY <1>1 DEF Client, Items
    <3>2. ui' = u
      BY <1>3, <2>2 DEF Steer
    <3>. HIDE DEF u
    <3>3. Typed(u, receipts, fresh, run, kept)
      BY <2>1, <3>1 DEF Good, Typed, Queued
    <3>4. Adding(u, receipts, run)
      <4>1. m \notin ui.adds \cup run.steered \cup Answered(receipts)
        BY <1>1, <2>1, InputAssumption DEF Good, Adding
      <4>. QED BY <3>1, <4>1 DEF Good, Adding
    <3>5. Placed(u, fresh)
      BY <3>1 DEF Good, Placed, Queued
    <3>6. ASSUME NEW x \in Items \ u.withdrawn
          PROVE  Single(u, receipts, fresh, run, kept, x)
      <4>1. Has(u, x) => Has(ui, x)
        BY <3>1 DEF Has, Queued
      <4>2. Single(ui, receipts, fresh, run, kept, x)
        BY <3>1 DEF Good
      <4>. QED BY <3>1, <4>1, <4>2, SingleSame
    <3>. QED BY <2>1, <3>2, <3>3, <3>4, <3>5, <3>6 DEF Good
  <2>3. CASE ~ui.loading
    <3>. DEFINE u == Unqueue(ui, m)
    <3>1. ui.sending = {} /\ ui' = Submit(u, m)
      BY <1>3, <2>3 DEF Steer
    <3>2. Good(u, receipts, fresh, run, kept) /\ Queued(u) = Queued(ui) \ {m}
      BY <2>1, UnqueueKeeps
    <3>3. /\ u.draft = ui.draft /\ u.withdrawn = ui.withdrawn
          /\ u.prompts = ui.prompts
      BY <1>1 DEF Unqueue, Client
    <3>. HIDE DEF u
    <3>4. m \notin {u.draft} \cup fresh \cup Queued(u)
      BY <2>1, <3>2, <3>3 DEF Good, Placed
    <3>5. m \in Texts \ u.withdrawn =>
            ~Gone(u, run, kept, m) /\ ~Confirmed(receipts, m)
      <4>1. m \in Items /\ m \notin ui.inFlight /\ Has(ui, m)
        BY <1>1, <2>1, InputAssumption DEF Items, Has
      <4>2. m \notin ui.withdrawn =>
              ~Gone(ui, run, kept, m) /\ ~Confirmed(receipts, m)
        BY <3>1, <4>1, AtHome
      <4>. QED BY <3>3, <4>2 DEF Gone, Leaves
    <3>6. Good(Submit(u, m), receipts, fresh, run, kept)
      BY <3>2, <3>4, <3>5, SubmitKeeps
    <3>. QED BY <2>1, <3>1, <3>6
  <2>. QED BY <2>2, <2>3
<1>4. ASSUME NEW m \in Texts, Delete(m)
      PROVE  G
  <2>1. /\ m \in Texts \ ui.sending /\ ui' = Unqueue(ui, m)
        /\ UNCHANGED <<fresh, run, receipts, kept>>
    BY <1>4 DEF Delete
  <2>. QED BY <2>1, UnqueueKeeps
<1>5. ASSUME Enter
      PROVE  G
  <2>. DEFINE d == ui.draft
              s == [ui EXCEPT !.draft = Nothing]
  <2>1. /\ d \in Texts /\ UNCHANGED <<fresh, run, receipts, kept>>
        /\ ui' = IF ui.loading THEN [s EXCEPT !.queue = Append(@, d)]
                 ELSE Submit(s, d)
    BY <1>1, <1>5 DEF Enter
  <2>2. /\ s \in Client /\ s.draft = Nothing /\ s.queue = ui.queue
        /\ s.sending = ui.sending /\ s.pending = ui.pending
        /\ s.inFlight = ui.inFlight /\ s.current = ui.current
        /\ s.last = ui.last /\ s.withdrawn = ui.withdrawn
        /\ s.prompts = ui.prompts /\ s.adds = ui.adds
    BY <1>1 DEF Client
  <2>. HIDE DEF s
  <2>3. d \notin fresh \cup Queued(ui) /\ Nothing \notin fresh \cup Queued(ui)
    BY <1>1, InputAssumption DEF Good, Placed, Typed, Items
  <2>4. Good(s, receipts, fresh, run, kept)
    <3>1. /\ Typed(s, receipts, fresh, run, kept)
          /\ Adding(s, receipts, run)
      BY <2>2 DEF Good, Typed, Adding, Queued
    <3>2. Placed(s, fresh)
      BY <1>1, <2>2, <2>3, InputAssumption DEF Good, Placed, Queued
    <3>3. ASSUME NEW x \in Items \ s.withdrawn
          PROVE  Single(s, receipts, fresh, run, kept, x)
      <4>1. Has(s, x) => Has(ui, x)
        BY <2>2, InputAssumption DEF Has, Queued, Items
      <4>2. Single(ui, receipts, fresh, run, kept, x)
        BY <2>2 DEF Good
      <4>. QED BY <2>2, <4>1, <4>2, SingleSame
    <3>. QED BY <3>1, <3>2, <3>3 DEF Good
  <2>5. d \notin ui.withdrawn =>
          ~Gone(ui, run, kept, d) /\ ~Confirmed(receipts, d)
    <3>1. d \in Items /\ Has(ui, d) /\ d \notin ui.sending \cup ui.inFlight
      BY <1>1, <2>1, <2>3, InputAssumption DEF Items, Has
    <3>. QED BY <3>1, AtHome
  <2>6. CASE ~ui.loading
    <3>1. d \notin {s.draft} \cup fresh \cup Queued(s)
      BY <2>1, <2>2, <2>3, InputAssumption DEF Queued
    <3>2. d \in Texts \ s.withdrawn =>
            ~Gone(s, run, kept, d) /\ ~Confirmed(receipts, d)
      BY <2>2, <2>5 DEF Gone, Leaves
    <3>. HIDE DEF d
    <3>3. Good(Submit(s, d), receipts, fresh, run, kept)
      BY <2>1, <2>4, <3>1, <3>2, SubmitKeeps
    <3>. QED BY <2>1, <2>6, <3>3
  <2>7. CASE ui.loading
    <3>. DEFINE u == [s EXCEPT !.queue = Append(@, d)]
    <3>1. /\ Append(ui.queue, d) \in Seq(Texts)
          /\ ToSet(Append(ui.queue, d)) = Queued(ui) \cup {d}
          /\ IsInjective(Append(ui.queue, d))
      <4>. HIDE DEF d
      <4>. QED BY <1>1, <2>1, <2>3, AppendAdds DEF Queued
    <3>2. /\ u \in Client /\ u.draft = Nothing
          /\ u.queue = Append(ui.queue, d)
          /\ u.sending = ui.sending /\ u.pending = ui.pending
          /\ u.inFlight = ui.inFlight /\ u.current = ui.current
          /\ u.last = ui.last /\ u.withdrawn = ui.withdrawn
          /\ u.prompts = ui.prompts /\ u.adds = ui.adds
      BY <2>2, <3>1 DEF Client
    <3>3. ui' = u /\ Queued(u) = Queued(ui) \cup {d}
      BY <2>1, <2>7, <3>1, <3>2 DEF Queued
    <3>. HIDE DEF u
    <3>4. /\ Typed(u, receipts, fresh, run, kept)
          /\ Adding(u, receipts, run)
      BY <3>1, <3>2, <3>3 DEF Good, Typed, Adding
    <3>5. Placed(u, fresh)
      BY <1>1, <2>1, <2>3, <3>2, <3>3, InputAssumption DEF Good, Placed
    <3>6. ASSUME NEW x \in Items \ u.withdrawn
          PROVE  Single(u, receipts, fresh, run, kept, x)
      <4>1. Has(u, x) => Has(ui, x)
        BY <3>2, <3>3, InputAssumption DEF Has, Items
      <4>2. Single(ui, receipts, fresh, run, kept, x)
        BY <3>2 DEF Good
      <4>. QED BY <3>2, <4>1, <4>2, SingleSame
    <3>. QED BY <2>1, <3>3, <3>4, <3>5, <3>6 DEF Good
  <2>. QED BY <2>6, <2>7
<1>6. ASSUME Interrupt
      PROVE  G
  <2>. DEFINE u == [ui EXCEPT !.cancelSent = TRUE]
  <2>1. ui' = u /\ UNCHANGED <<fresh, run, receipts, kept>>
    BY <1>6 DEF Interrupt
  <2>2. /\ u \in Client /\ u.draft = ui.draft /\ u.queue = ui.queue
        /\ u.sending = ui.sending /\ u.pending = ui.pending
        /\ u.inFlight = ui.inFlight /\ u.current = ui.current
        /\ u.last = ui.last /\ u.withdrawn = ui.withdrawn
        /\ u.prompts = ui.prompts /\ u.adds = ui.adds
    BY <1>1 DEF Client
  <2>. HIDE DEF u
  <2>3. Good(u, receipts, fresh, run, kept)
    BY <2>2, GoodSame
  <2>. QED BY <2>1, <2>3
<1>. QED BY <1>2, <1>3, <1>4, <1>5, <1>6 DEF User

\* What the client does each frame and with what it hears.
LEMMA ClientKeeps ==
    ASSUME Good(ui, receipts, fresh, run, kept),
           Poll \/ GiveUp \/ HandleEvent \/ \E n \in Notices : Report(n)
    PROVE  Good(ui', receipts', fresh', run', kept')
<1>. DEFINE G == Good(ui', receipts', fresh', run', kept')
            Same(u) == /\ u \in Client
                       /\ u.draft = ui.draft /\ u.queue = ui.queue
                       /\ u.sending = ui.sending /\ u.pending = ui.pending
                       /\ u.inFlight = ui.inFlight /\ u.current = ui.current
                       /\ u.last = ui.last /\ u.withdrawn = ui.withdrawn
                       /\ u.prompts = ui.prompts /\ u.adds = ui.adds
<1>1. /\ ui \in Client /\ ui.draft \in Texts \cup {Nothing}
      /\ Queued(ui) \subseteq Texts /\ ui.sending \subseteq Queued(ui)
      /\ ui.inFlight \cup ui.pending \subseteq Notices
      /\ ui.last \in Texts \cup {Nothing}
      /\ fresh \subseteq Items
  BY DEF Good, Typed, Client, Queued, ToSet
<1>2. \A u : Same(u) => Good(u, receipts, fresh, run, kept)
  BY GoodSame
<1>3. ASSUME NEW n \in Notices, Report(n)
      PROVE  G
  <2>. DEFINE u == [ui EXCEPT !.pending = @ \cup {n}]
  <2>1. /\ n \in fresh /\ fresh' = fresh \ {n} /\ ui' = Dispatch(u, TRUE)
        /\ UNCHANGED <<receipts, run, kept>>
    BY <1>3 DEF Report
  <2>2. /\ u \in Client /\ u.draft = ui.draft /\ u.queue = ui.queue
        /\ u.sending = ui.sending /\ u.pending = ui.pending \cup {n}
        /\ u.inFlight = ui.inFlight /\ u.current = ui.current
        /\ u.last = ui.last /\ u.withdrawn = ui.withdrawn
        /\ u.prompts = ui.prompts /\ u.adds = ui.adds
    BY <1>1 DEF Client
  <2>. HIDE DEF u
  <2>3. Typed(u, receipts, fresh \ {n}, run, kept) /\ Adding(u, receipts, run)
    BY <2>2 DEF Good, Typed, Adding, Queued
  <2>4. Placed(u, fresh \ {n})
    BY <2>1, <2>2 DEF Good, Placed, Queued
  <2>5. ASSUME NEW x \in Items \ u.withdrawn
        PROVE  Single(u, receipts, fresh \ {n}, run, kept, x)
    <3>1. Has(u, x) => Has(ui, x) \/ x \in fresh
      BY <2>1, <2>2 DEF Has, Queued
    <3>2. Single(ui, receipts, fresh, run, kept, x)
      BY <2>2 DEF Good
    <3>. QED BY <2>2, <3>1, <3>2, SingleSame
  <2>6. Good(u, receipts, fresh \ {n}, run, kept)
    BY <2>3, <2>4, <2>5 DEF Good
  <2>. QED BY <2>1, <2>6, DispatchKeeps
<1>4. ASSUME Poll
      PROVE  G
  <2>. DEFINE s  == PollTexts(ui)
              rs == {q \in receipts : q.item \notin ui.sending}
  <2>1. /\ ui' = PollNotices(s) /\ receipts' = {}
        /\ UNCHANGED <<fresh, run, kept>>
    BY <1>4 DEF Poll
  <2>2. Good(s, rs, fresh, run, kept) /\ s.inFlight = ui.inFlight
    BY PollTextsKeeps
  <2>. HIDE DEF s
  <2>3. \A q \in receipts : q.item \in s.inFlight => q \in rs
    BY <1>1, <2>2, InputAssumption
  <2>4. rs \in SUBSET receipts
    OBVIOUS
  <2>5. {q \in rs : q.item \notin s.inFlight} = {}
    BY <2>2 DEF Good, Adding, Answered
  <2>. HIDE DEF rs
  <2>6. Good(PollNotices(s), {}, fresh, run, kept)
    BY <2>2, <2>3, <2>4, <2>5, PollNoticesKeeps
  <2>. QED BY <2>1, <2>6
<1>5. ASSUME GiveUp
      PROVE  G
  <2>. DEFINE u == [ui EXCEPT !.cancelSent = FALSE, !.loading = FALSE]
  <2>1. ui' = u /\ UNCHANGED <<fresh, run, receipts, kept>>
    BY <1>5 DEF GiveUp
  <2>2. Same(u)
    BY <1>1 DEF Client
  <2>. QED BY <1>2, <2>1, <2>2
<1>6. ASSUME ShowTools \/ ShowText
      PROVE  G
  <2>1. PICK b \in BOOLEAN :
          /\ ui' = [ui EXCEPT !.tools = b]
          /\ UNCHANGED <<fresh, run, receipts, kept>>
    BY <1>6 DEF ShowTools, ShowText
  <2>. DEFINE u == [ui EXCEPT !.tools = b]
  <2>2. Same(u)
    BY <1>1 DEF Client
  <2>. QED BY <1>2, <2>1, <2>2
<1>7. ASSUME HandleDone
      PROVE  G
  <2>. DEFINE u == [ui EXCEPT !.cancelSent = FALSE, !.loading = FALSE]
              s == Flush(u)
              rs == receipts
  <2>1. /\ ui' = PollNotices(s)
        /\ receipts' = {q \in receipts : q.item \notin ui.inFlight}
        /\ UNCHANGED <<fresh, run, kept>>
    BY <1>7 DEF HandleDone
  <2>2. Same(u)
    BY <1>1 DEF Client
  <2>3. Good(u, receipts, fresh, run, kept) /\ u.inFlight = ui.inFlight
    BY <1>2, <2>2
  <2>. HIDE DEF u
  <2>4. Good(s, receipts, fresh, run, kept) /\ s.inFlight = ui.inFlight
    BY <2>3, FlushKeeps
  <2>. HIDE DEF s
  <2>5. Good(PollNotices(s), {q \in receipts : q.item \notin s.inFlight},
             fresh, run, kept)
    BY <2>4, PollNoticesKeeps
  <2>. QED BY <2>1, <2>4, <2>5
<1>8. ASSUME HandleInterrupted
      PROVE  G
  <2>. DEFINE s == [ui EXCEPT !.cancelSent = FALSE, !.reconciled = TRUE]
              u == [s EXCEPT !.draft = IF @ = Nothing THEN ui.last ELSE @,
                             !.last = Nothing,
                             !.withdrawn = @ \cup {ui.last}]
  <2>1. /\ ui' = IF ui.tools \/ ui.last = Nothing THEN s ELSE u
        /\ UNCHANGED <<fresh, run, receipts, kept>>
    BY <1>8 DEF HandleInterrupted
  <2>2. Same(s)
    BY <1>1 DEF Client
  <2>3. CASE ui.tools \/ ui.last = Nothing
    <3>1. ui' = s
      BY <2>1, <2>3
    <3>. HIDE DEF s
    <3>. QED BY <1>2, <2>1, <2>2, <3>1
  <2>4. CASE ~(ui.tools \/ ui.last = Nothing)
    <3>1. ui.last \in Texts /\ ui' = u
      BY <1>1, <2>1, <2>4
    <3>2. /\ u \in Client
          /\ u.draft = (IF ui.draft = Nothing THEN ui.last ELSE ui.draft)
          /\ u.queue = ui.queue
          /\ u.sending = ui.sending /\ u.pending = ui.pending
          /\ u.inFlight = ui.inFlight /\ u.current = ui.current
          /\ u.last = Nothing /\ u.withdrawn = ui.withdrawn \cup {ui.last}
          /\ u.prompts = ui.prompts /\ u.adds = ui.adds
      BY <1>1, <3>1 DEF Client
    <3>. HIDE DEF u
    <3>3. Typed(u, receipts, fresh, run, kept) /\ Adding(u, receipts, run)
      BY <3>2 DEF Good, Typed, Adding, Queued
    <3>4. Placed(u, fresh)
      BY <3>1, <3>2, InputAssumption DEF Good, Placed, Queued
    <3>5. ASSUME NEW x \in Items \ u.withdrawn
          PROVE  Single(u, receipts, fresh, run, kept, x)
      <4>1. x \in Items \ ui.withdrawn /\ x # ui.last
        BY <3>2
      <4>2. Has(u, x) => Has(ui, x)
        BY <3>2, <4>1 DEF Has, Queued
      <4>3. Single(ui, receipts, fresh, run, kept, x)
        BY <4>1 DEF Good
      <4>. QED BY <3>2, <4>2, <4>3, SingleSame
    <3>. QED BY <2>1, <3>1, <3>3, <3>4, <3>5 DEF Good
  <2>. QED BY <2>3, <2>4
<1>9. ASSUME HandleError
      PROVE  G
  <2>. DEFINE u == [ui EXCEPT !.cancelSent = FALSE, !.reconciled = TRUE,
                              !.tools = TRUE, !.loading = FALSE]
  <2>1. ui' = Flush(u) /\ UNCHANGED <<fresh, run, receipts, kept>>
    BY <1>9 DEF HandleError
  <2>2. Same(u)
    BY <1>1 DEF Client
  <2>. HIDE DEF u
  <2>3. Good(Flush(u), receipts, fresh, run, kept)
    BY <1>2, <2>2, FlushKeeps
  <2>. QED BY <2>1, <2>3
<1>. QED BY <1>3, <1>4, <1>5, <1>6, <1>7, <1>8, <1>9 DEF HandleEvent

\* An item that one place of a sequence carries at most is carried by one place
\* at most when a place goes, and not at all when it was that one.
LEMMA TakenOnce ==
    ASSUME NEW q \in Seq(Prompt), NEW i \in 1..Len(q), NEW x,
           \A a, b \in 1..Len(q) : Carries(q[a], x) /\ Carries(q[b], x) => a = b
    PROVE  /\ \A a, b \in 1..Len(RemoveAt(q, i)) :
                Carries(RemoveAt(q, i)[a], x) /\ Carries(RemoveAt(q, i)[b], x)
                  => a = b
           /\ (\E a \in 1..Len(RemoveAt(q, i)) : Carries(RemoveAt(q, i)[a], x))
                => ~Carries(q[i], x) /\ \E a \in 1..Len(q) : Carries(q[a], x)
<1>. DEFINE rest == RemoveAt(q, i)
            n == Len(q)
            Old(j) == IF j < i THEN j ELSE j + 1
<1>1. /\ Len(rest) = n - 1 /\ n \in Nat
      /\ \A j \in 1..(n - 1) : rest[j] = q[Old(j)]
  <2>1. /\ Len(rest) = n - 1
        /\ \A j \in 1..(n - 1) : rest[j] = IF j < i THEN q[j] ELSE q[j + 1]
    BY RemoveAtProperties
  <2>. QED BY <2>1
<1>. HIDE DEF rest
<1>2. \A j \in 1..(n - 1) : Old(j) \in 1..n /\ Old(j) # i
  BY <1>1
<1>3. \A a, b \in 1..(n - 1) : Old(a) = Old(b) => a = b
  BY <1>1
<1>. HIDE DEF Old, n
<1>4. \A a, b \in 1..n : Carries(q[a], x) /\ Carries(q[b], x) => a = b
  BY DEF n
<1>5. i \in 1..n
  BY DEF n
<1>6. \A a, b \in 1..(n - 1) :
        Carries(rest[a], x) /\ Carries(rest[b], x) => a = b
  BY <1>1, <1>2, <1>3, <1>4
<1>7. \A a \in 1..(n - 1) : Carries(rest[a], x) =>
        ~Carries(q[i], x) /\ \E b \in 1..n : Carries(q[b], x)
  BY <1>1, <1>2, <1>4, <1>5
<1>. QED BY <1>1, <1>6, <1>7 DEF rest, n

\* What the server does.
LEMMA ServerKeeps ==
    ASSUME Good(ui, receipts, fresh, run, kept),
           \/ TakePrompt \/ TakeCancel \/ UseTools \/ Execution
           \/ \E x \in Items : TakeAdd(x)
    PROVE  Good(ui', receipts', fresh', run', kept')
<1>. DEFINE G == Good(ui', receipts', fresh', run', kept')
<1>1. /\ ui \in Client /\ ui.prompts \in Seq(Prompt) /\ run \in Run
      /\ Queued(ui) \subseteq Texts /\ ui.sending \subseteq Queued(ui)
      /\ ui.inFlight \cup ui.pending \subseteq Notices
      /\ receipts \subseteq Receipt /\ kept \in [Items -> 0..2]
      /\ ~run.on => run = Idle
  BY DEF Good, Typed, Adding, Client, Queued, ToSet
<1>2. \A x \in Items \ ui.withdrawn : Single(ui, receipts, fresh, run, kept, x)
  BY DEF Good
<1>3. ASSUME NEW i \in DOMAIN ui.prompts, Begin(i)
      PROVE  G
  <2>. DEFINE u == [ui EXCEPT !.prompts = RemoveAt(@, i)]
              p == ui.prompts[i]
              r == [Idle EXCEPT !.on = TRUE, !.prompt = p]
  <2>1. /\ ~run.on /\ run' = r /\ ui' = u /\ run = Idle
        /\ UNCHANGED <<fresh, receipts, kept>>
    BY <1>1, <1>3 DEF Begin
  <2>2. i \in 1..Len(ui.prompts) /\ p \in Prompt
    BY <1>1
  <2>3. RemoveAt(ui.prompts, i) \in Seq(Prompt)
    BY <1>1, <2>2, RemoveAtProperties
  <2>4. /\ u \in Client /\ u.draft = ui.draft /\ u.queue = ui.queue
        /\ u.sending = ui.sending /\ u.pending = ui.pending
        /\ u.inFlight = ui.inFlight /\ u.current = ui.current
        /\ u.last = ui.last /\ u.withdrawn = ui.withdrawn
        /\ u.prompts = RemoveAt(ui.prompts, i) /\ u.adds = ui.adds
    BY <1>1, <2>3 DEF Client
  <2>. HIDE DEF u, p
  <2>5. /\ r \in Run /\ r.on /\ r.steered = {} /\ run.steered = {}
        /\ \A x : ~Runs(run, x)
        /\ \A x : Runs(r, x) <=> Carries(p, x)
    BY <2>1, <2>2 DEF Idle, Run, Runs, Carries, NoPrompt, Prompt
  <2>. HIDE DEF r
  <2>6. Typed(u, receipts, fresh, r, kept)
    BY <2>4, <2>5 DEF Good, Typed, Queued
  <2>7. Adding(u, receipts, r)
    BY <2>4, <2>5 DEF Good, Adding
  <2>8. Placed(u, fresh)
    BY <2>4 DEF Good, Placed, Queued
  <2>9. ASSUME NEW x \in Items \ u.withdrawn
        PROVE  Single(u, receipts, fresh, r, kept, x)
    <3>1. Single(ui, receipts, fresh, run, kept, x)
      BY <1>2, <2>4
    <3>2. Has(u, x) <=> Has(ui, x)
      BY <2>4 DEF Has, Queued
    <3>3. /\ \A a, b \in 1..Len(u.prompts) :
               Carries(u.prompts[a], x) /\ Carries(u.prompts[b], x) => a = b
          /\ Leaves(u, x) => ~Carries(p, x) /\ Leaves(ui, x)
      <4>1. \A a, b \in 1..Len(ui.prompts) :
              Carries(ui.prompts[a], x) /\ Carries(ui.prompts[b], x) => a = b
        BY <3>1 DEF Single
      <4>. QED BY <1>1, <2>2, <2>4, <4>1, TakenOnce DEF Leaves, p
    <3>4. Carries(p, x) => Leaves(ui, x)
      BY <2>2 DEF Leaves, p
    <3>. QED BY <2>5, <3>1, <3>2, <3>3, <3>4 DEF Single, Gone
  <2>. QED BY <2>1, <2>6, <2>7, <2>8, <2>9 DEF Good
<1>4. ASSUME TakeCancel \/ UseTools
      PROVE  G
  <2>1. /\ UNCHANGED <<fresh, ui, receipts, kept>>
        /\ \/ run' = run
           \/ run' = [run EXCEPT !.cancelled = TRUE] /\ run.on
           \/ run' = [run EXCEPT !.tools = TRUE] /\ run.on
    BY <1>4 DEF TakeCancel, UseTools
  <2>2. /\ run' \in Run /\ run'.on = run.on /\ run'.prompt = run.prompt
        /\ run'.steered = run.steered /\ run'.added = run.added
        /\ ~run'.on => run' = Idle
    BY <1>1, <2>1 DEF Run
  <2>3. \A x : Runs(run', x) <=> Runs(run, x)
    BY <2>2 DEF Runs
  <2>4. Typed(ui, receipts, fresh, run', kept) /\ Adding(ui, receipts, run')
    BY <2>2 DEF Good, Typed, Adding
  <2>5. \A x \in Items \ ui.withdrawn :
          Single(ui, receipts, fresh, run', kept, x)
    BY <1>2, <2>3 DEF Single, Gone
  <2>6. Placed(ui, fresh)
    BY DEF Good
  <2>. QED BY <2>1, <2>4, <2>5, <2>6 DEF Good
<1>5. ASSUME NEW y \in Items, TakeAdd(y)
      PROVE  G
  <2>. DEFINE u == [ui EXCEPT !.adds = @ \ {y}]
  <2>1. /\ u \in Client /\ u.draft = ui.draft /\ u.queue = ui.queue
        /\ u.sending = ui.sending /\ u.pending = ui.pending
        /\ u.inFlight = ui.inFlight /\ u.current = ui.current
        /\ u.last = ui.last /\ u.withdrawn = ui.withdrawn
        /\ u.prompts = ui.prompts /\ u.adds = ui.adds \ {y}
    BY <1>1 DEF Client
  <2>2. /\ y \in ui.adds /\ ui' = u /\ UNCHANGED <<fresh, kept>>
        /\ IF run.on
           THEN run' = [run EXCEPT !.steered = @ \cup {y}] /\ receipts' = receipts
           ELSE /\ receipts' = receipts \cup {[item |-> y, ok |-> FALSE]}
                /\ run' = run
    BY <1>5 DEF TakeAdd
  <2>. HIDE DEF u
  <2>3. Placed(u, fresh)
    BY <2>1 DEF Good, Placed, Queued
  <2>4. /\ run' \in Run /\ run'.on = run.on /\ run'.prompt = run.prompt
        /\ run'.added = run.added
        /\ run'.steered = (IF run.on THEN run.steered \cup {y} ELSE run.steered)
        /\ ~run'.on => run' = Idle
    <3>1. CASE run.on
      <4>1. run' = [run EXCEPT !.steered = @ \cup {y}]
        BY <2>2, <3>1
      <4>2. /\ run' \in Run /\ run'.on = run.on /\ run'.prompt = run.prompt
            /\ run'.added = run.added /\ run'.steered = run.steered \cup {y}
        BY <1>1, <4>1 DEF Run
      <4>3. run'.on
        BY <3>1, <4>2
      <4>. QED BY <3>1, <4>2, <4>3
    <3>2. CASE ~run.on
      BY <1>1, <2>2, <3>2
    <3>. QED BY <3>1, <3>2
  <2>5. /\ receipts' \subseteq Receipt
        /\ \A x : Confirmed(receipts', x) <=> Confirmed(receipts, x)
        /\ Answered(receipts') = (IF run.on THEN Answered(receipts)
                                  ELSE Answered(receipts) \cup {y})
    <3>1. CASE run.on
      BY <1>1, <2>2, <3>1
    <3>2. CASE ~run.on
      <4>. DEFINE z == [item |-> y, ok |-> FALSE]
      <4>1. z \in Receipt /\ z.item = y /\ ~z.ok
        BY DEF Receipt
      <4>2. receipts' = receipts \cup {z}
        BY <2>2, <3>2
      <4>. HIDE DEF z
      <4>3. receipts' \subseteq Receipt
        BY <1>1, <4>1, <4>2
      <4>4. \A x : Confirmed(receipts', x) <=> Confirmed(receipts, x)
        <5>1. \A x : Confirmed(receipts', x) <=> \E q \in receipts' : q.item = x /\ q.ok
          BY <4>3, Confirming
        <5>2. \A x : Confirmed(receipts, x) <=> \E q \in receipts : q.item = x /\ q.ok
          BY <1>1, Confirming
        <5>. QED BY <4>1, <4>2, <5>1, <5>2
      <4>5. Answered(receipts') = Answered(receipts) \cup {y}
        BY <4>1, <4>2 DEF Answered
      <4>. QED BY <3>2, <4>3, <4>4, <4>5
    <3>. QED BY <3>1, <3>2
  <2>6. Typed(u, receipts', fresh, run', kept)
    BY <2>1, <2>4, <2>5 DEF Good, Typed, Queued
  <2>7. Adding(u, receipts', run')
    <3>1. y \notin run.steered \cup Answered(receipts)
      BY <2>2 DEF Good, Adding
    <3>2. \A p, q \in receipts' : p.item = q.item => p = q
      <4>. DEFINE z == [item |-> y, ok |-> FALSE]
      <4>1. \A q \in receipts' : q \in receipts \/ q = z
        BY <2>2
      <4>2. z.item = y
        OBVIOUS
      <4>. HIDE DEF z
      <4>3. \A q \in receipts : q.item # y
        BY <3>1 DEF Answered
      <4>4. \A p, q \in receipts : p.item = q.item => p = q
        BY DEF Good, Adding
      <4>. QED BY ONLY <4>1, <4>2, <4>3, <4>4
    <3>3. u.sending \cup u.inFlight
            = u.adds \cup run'.steered \cup Answered(receipts')
      BY <2>1, <2>2, <2>4, <2>5 DEF Good, Adding
    <3>4. /\ u.adds \cap run'.steered = {}
          /\ (u.adds \cup run'.steered) \cap Answered(receipts') = {}
      BY <2>1, <2>2, <2>4, <2>5, <3>1 DEF Good, Adding
    <3>. QED BY <2>4, <3>2, <3>3, <3>4 DEF Adding
  <2>8. ASSUME NEW x \in Items \ u.withdrawn
        PROVE  Single(u, receipts', fresh, run', kept, x)
    <3>1. Single(ui, receipts, fresh, run, kept, x)
      BY <1>2, <2>1
    <3>2. (Has(u, x) <=> Has(ui, x)) /\ (Leaves(u, x) <=> Leaves(ui, x))
      BY <2>1 DEF Has, Queued, Leaves
    <3>3. Runs(run', x) <=> Runs(run, x)
      BY <2>4 DEF Runs
    <3>. QED BY <2>1, <2>5, <3>1, <3>2, <3>3 DEF Single, Gone
  <2>. QED BY <2>2, <2>3, <2>6, <2>7, <2>8 DEF Good
<1>6. ASSUME Consume
      PROVE  G
  <2>. DEFINE S == run.steered
  <2>1. /\ S # {} /\ run' = [run EXCEPT !.steered = {}, !.added = @ \cup S]
        /\ receipts' = receipts \cup [item : S, ok : {TRUE}]
        /\ UNCHANGED <<fresh, ui, kept>>
    BY <1>6 DEF Consume
  <2>2. run.on /\ S \subseteq Items
    BY <1>1, <2>1 DEF Idle, Run
  <2>3. /\ run' \in Run /\ run'.on /\ run'.prompt = run.prompt
        /\ run'.added = run.added \cup S /\ run'.steered = {}
    BY <1>1, <2>1, <2>2 DEF Run
  <2>. HIDE DEF S
  <2>4. /\ receipts' \subseteq Receipt
        /\ \A q \in receipts' : q \in receipts \/ (q.item \in S /\ q.ok = TRUE)
        /\ \A x \in S : /\ [item |-> x, ok |-> TRUE] \in receipts'
                        /\ \E q \in receipts' : q.item = x
        /\ receipts \subseteq receipts'
    <3>1. \A x \in S : [item |-> x, ok |-> TRUE].item = x
      OBVIOUS
    <3>. QED BY <1>1, <2>1, <2>2, <3>1 DEF Receipt
  <2>5. /\ Answered(receipts') = Answered(receipts) \cup S
        /\ \A x : Confirmed(receipts', x) <=> Confirmed(receipts, x) \/ x \in S
    <3>1. \A x : x \in Answered(receipts') <=> x \in Answered(receipts) \/ x \in S
      BY <2>4 DEF Answered
    <3>2. \A x : Confirmed(receipts', x) => Confirmed(receipts, x) \/ x \in S
      BY <2>4 DEF Confirmed
    <3>3. \A x : Confirmed(receipts, x) \/ x \in S => Confirmed(receipts', x)
      BY <2>4 DEF Confirmed
    <3>. QED BY <3>1, <3>2, <3>3
  <2>6. Typed(ui, receipts', fresh, run', kept)
    BY <2>3, <2>4 DEF Good, Typed
  <2>7. S \cap Answered(receipts) = {} /\ S \subseteq ui.sending \cup ui.inFlight
    BY DEF Good, Adding, S
  <2>8. Adding(ui, receipts', run')
    <3>1. \A p, q \in receipts' : p.item = q.item => p = q
      <4>1. \A p, q \in receipts : p.item = q.item => p = q
        BY DEF Good, Adding
      <4>2. \A q \in receipts : q.item \notin S
        BY <2>7 DEF Answered
      <4>3. \A q \in receipts' : q = [item |-> q.item, ok |-> q.ok]
        BY <2>4 DEF Receipt
      <4>4. \A q \in receipts' : q \in receipts \/
              (q.item \in S /\ q = [item |-> q.item, ok |-> TRUE])
        BY <2>4, <4>3
      <4>. QED BY ONLY <4>1, <4>2, <4>4
    <3>2. ui.sending \cup ui.inFlight
            = ui.adds \cup run'.steered \cup Answered(receipts')
      BY <2>3, <2>5 DEF Good, Adding, S
    <3>3. /\ ui.adds \cap run'.steered = {}
          /\ (ui.adds \cup run'.steered) \cap Answered(receipts') = {}
      BY <2>3, <2>5 DEF Good, Adding, S
    <3>. QED BY <2>3, <3>1, <3>2, <3>3 DEF Adding
  <2>9. ASSUME NEW x \in Items \ ui.withdrawn
        PROVE  Single(ui, receipts', fresh, run', kept, x)
    <3>1. Single(ui, receipts, fresh, run, kept, x)
      BY <1>2
    <3>2. Runs(run', x) <=> Runs(run, x) \/ x \in S
      BY <2>2, <2>3 DEF Runs
    <3>3. x \in S => /\ Has(ui, x) /\ x \notin fresh
                     /\ ~Confirmed(receipts, x)
      BY <1>1, <2>7 DEF Has, Good, Placed, Confirmed, Answered
    <3>4. ~Gone(ui, run, kept, x) =>
            ~Leaves(ui, x) /\ ~Runs(run, x) /\ kept[x] = 0
      <4>1. kept[x] \in 0..2
        BY <1>1
      <4>. QED BY <4>1 DEF Gone
    <3>5. x \in S => ~Gone(ui, run, kept, x)
      BY <3>1, <3>3 DEF Single
    <3>6. x \notin S => (Gone(ui, run', kept, x) <=> Gone(ui, run, kept, x))
      BY <3>2 DEF Gone
    <3>7. CASE x \in S
      BY <2>5, <3>1, <3>3, <3>4, <3>5, <3>7 DEF Single
    <3>8. CASE x \notin S
      BY <2>5, <3>1, <3>2, <3>6, <3>8 DEF Single
    <3>. QED BY <3>7, <3>8
  <2>10. Placed(ui, fresh)
    BY DEF Good
  <2>. QED BY <2>1, <2>6, <2>8, <2>9, <2>10 DEF Good
<1>7. ASSUME NEW how, End(how)
      PROVE  G
  <2>. DEFINE S == run.steered
              k == kept'
  <2>1. /\ run.on /\ run' = Idle /\ UNCHANGED <<fresh, ui>>
        /\ receipts' = receipts \cup [item : S, ok : {FALSE}]
    BY <1>7 DEF End
  <2>2. /\ k \in [Items -> 0..2]
        /\ \A x \in Items : k[x] = kept[x] \/ (Runs(run, x) /\ k[x] = kept[x] + 1)
    <3>. DEFINE Add(x) == OnServer(x) /\ (how = "ok" \/ run.tools \/ run.added # {})
                            /\ kept[x] < 2
    <3>1. k = [x \in Items |-> IF Add(x) THEN kept[x] + 1 ELSE kept[x]]
      BY <1>7 DEF End
    <3>2. \A x \in Items : Add(x) => Runs(run, x) /\ kept[x] < 2
      BY DEF OnServer, Runs
    <3>. HIDE DEF Add, k
    <3>3. \A x \in Items : kept[x] \in 0..2
      BY <1>1
    <3>. QED BY <3>1, <3>2, <3>3
  <2>. HIDE DEF k
  <2>3. S \subseteq Items
    BY <1>1 DEF Run
  <2>. HIDE DEF S
  <2>4. /\ receipts' \subseteq Receipt
        /\ \A q \in receipts' : q \in receipts \/ (q.item \in S /\ q.ok = FALSE)
        /\ \A x \in S : /\ [item |-> x, ok |-> FALSE] \in receipts'
                        /\ \E q \in receipts' : q.item = x
        /\ receipts \subseteq receipts'
    <3>1. \A x \in S : [item |-> x, ok |-> FALSE].item = x
      OBVIOUS
    <3>. QED BY <1>1, <2>1, <2>3, <3>1 DEF Receipt
  <2>5. /\ Answered(receipts') = Answered(receipts) \cup S
        /\ \A x : Confirmed(receipts', x) <=> Confirmed(receipts, x)
    <3>1. \A x : x \in Answered(receipts') <=> x \in Answered(receipts) \/ x \in S
      BY <2>4 DEF Answered
    <3>2. \A x : Confirmed(receipts', x) => Confirmed(receipts, x)
      BY <2>4 DEF Confirmed
    <3>3. \A x : Confirmed(receipts, x) => Confirmed(receipts', x)
      BY <2>4 DEF Confirmed
    <3>. QED BY <3>1, <3>2, <3>3
  <2>6. Idle \in Run /\ ~Idle.on /\ Idle.steered = {} /\ \A x : ~Runs(Idle, x)
    BY DEF Idle, Run, Runs, NoPrompt, Prompt
  <2>7. Typed(ui, receipts', fresh, Idle, k)
    BY <2>2, <2>4, <2>6 DEF Good, Typed
  <2>8. Adding(ui, receipts', Idle)
    <3>1. S \cap Answered(receipts) = {}
      BY DEF Good, Adding, S
    <3>2. \A p, q \in receipts' : p.item = q.item => p = q
      <4>1. \A p, q \in receipts : p.item = q.item => p = q
        BY DEF Good, Adding
      <4>2. \A q \in receipts : q.item \notin S
        BY <3>1 DEF Answered
      <4>3. \A q \in receipts' : q = [item |-> q.item, ok |-> q.ok]
        BY <2>4 DEF Receipt
      <4>4. \A q \in receipts' : q \in receipts \/
              (q.item \in S /\ q = [item |-> q.item, ok |-> FALSE])
        BY <2>4, <4>3
      <4>. QED BY ONLY <4>1, <4>2, <4>4
    <3>3. ui.sending \cup ui.inFlight
            = ui.adds \cup Idle.steered \cup Answered(receipts')
      BY <2>5, <2>6 DEF Good, Adding, S
    <3>4. /\ ui.adds \cap Idle.steered = {}
          /\ (ui.adds \cup Idle.steered) \cap Answered(receipts') = {}
      BY <2>5, <2>6 DEF Good, Adding, S
    <3>. QED BY <3>2, <3>3, <3>4 DEF Adding
  <2>9. ASSUME NEW x \in Items \ ui.withdrawn
        PROVE  Single(ui, receipts', fresh, Idle, k, x)
    <3>1. Single(ui, receipts, fresh, run, kept, x)
      BY <1>2
    <3>2. k[x] = kept[x] \/ (Runs(run, x) /\ k[x] = kept[x] + 1)
      BY <2>2
    <3>3. k[x] \in 0..2 /\ kept[x] \in 0..2
      BY <1>1, <2>2
    <3>4. k[x] > 0 => kept[x] > 0 \/ Runs(run, x)
      BY <3>2, <3>3
    <3>5. k[x] <= 1
      BY <3>1, <3>2, <3>3 DEF Single
    <3>6. Leaves(ui, x) => k[x] = 0
      BY <3>1, <3>2 DEF Single
    <3>7. Gone(ui, Idle, k, x) => Gone(ui, run, kept, x)
      BY <2>6, <3>4 DEF Gone
    <3>. QED BY <2>5, <2>6, <3>1, <3>5, <3>6, <3>7 DEF Single
  <2>10. Placed(ui, fresh)
    BY DEF Good
  <2>. QED BY <2>1, <2>7, <2>8, <2>9, <2>10 DEF Good, k
<1>. QED BY <1>3, <1>4, <1>5, <1>6, <1>7 DEF TakePrompt, Execution
-----------------------------------------------------------------------------
\* A submission is something to wait for.
LEMMA SubmitMoves ==
    ASSUME NEW s \in Client, NEW t \in Texts \cup {Nothing}, NEW r, NEW es
    PROVE  Busy(Submit(s, t), r, es)
<1>. DEFINE p == [text |-> t, notices |-> s.pending]
<1>1. s.prompts \in Seq(Prompt) /\ p \in Prompt
  BY DEF Client, Prompt
<1>2. Submit(s, t).prompts = Append(s.prompts, p)
  BY DEF Submit, Client
<1>. HIDE DEF p
<1>3. Append(s.prompts, p) # <<>>
  <2>1. Len(Append(s.prompts, p)) = Len(s.prompts) + 1 /\ Len(s.prompts) \in Nat
    BY <1>1, AppendAdds
  <2>2. Len(<<>>) = 0 /\ Len(s.prompts) + 1 # 0
    BY <2>1
  <2>. QED BY ONLY <2>1, <2>2
<1>. QED BY <1>2, <1>3 DEF Busy

LEMMA FlushMoves ==
    ASSUME NEW s \in Client, NEW r, NEW es, Turning(s, r, es)
    PROVE  /\ Turning(Flush(s), r, es) /\ Flowing(Flush(s), r, es)
           /\ Heeding(s, r, es) => Heeding(Flush(s), r, es)
<1>1. CASE s.queue = <<>> \/ s.sending # {}
  BY <1>1 DEF Flush, Flowing
<1>2. CASE ~(s.queue = <<>> \/ s.sending # {})
  <2>. DEFINE h == Head(s.queue)
  <2>1. h \in Texts /\ s.queue \in Seq(Texts)
    BY <1>2 DEF Client
  <2>. HIDE DEF h
  <2>2. Without(s.queue, {h}) \in Seq(Texts)
    BY <2>1, WithoutProperties
  <2>3. Unqueue(s, h) \in Client
    BY <2>2 DEF Unqueue, Client
  <2>4. Flush(s) = Submit(Unqueue(s, h), h)
    BY <1>2 DEF Flush, h
  <2>5. Busy(Flush(s), r, es)
    BY <2>1, <2>3, <2>4, SubmitMoves
  <2>. QED BY <2>5 DEF Turning, Flowing, Heeding
<1>. QED BY <1>1, <1>2

LEMMA DispatchMoves ==
    ASSUME NEW s \in Client, NEW r, NEW es, NEW new \in BOOLEAN,
           Turning(s, r, es), Flowing(s, r, es)
    PROVE  Moving(Dispatch(s, new), r, es)
<1>. DEFINE u == [s EXCEPT !.tried = TRUE, !.pending = {},
                           !.inFlight = @ \cup s.pending,
                           !.current = @ \cup s.pending,
                           !.adds = @ \cup s.pending]
<1>1. CASE s.pending = {}
  BY <1>1 DEF Dispatch, Moving, Heeding
<1>2. CASE s.pending # {} /\ s.loading
  <2>1. Busy(s, r, es)
    BY <1>2 DEF Turning
  <2>2. u.prompts = s.prompts
    BY DEF Client
  <2>. HIDE DEF u
  <2>3. Dispatch(s, new) \in {s, u}
    BY <1>2 DEF Dispatch, u
  <2>4. Busy(Dispatch(s, new), r, es)
    BY <2>1, <2>2, <2>3 DEF Busy
  <2>. QED BY <2>4 DEF Moving, Turning, Flowing, Heeding
<1>3. CASE s.pending # {} /\ ~s.loading /\ s.reconciled
  <2>1. Dispatch(s, new) = s
    BY <1>3 DEF Dispatch
  <2>. QED BY <1>3, <2>1 DEF Moving, Heeding
<1>4. CASE s.pending # {} /\ ~s.loading /\ ~s.reconciled
  <2>1. Dispatch(s, new) = Submit(s, Nothing)
    BY <1>4 DEF Dispatch
  <2>2. Busy(Dispatch(s, new), r, es)
    BY <2>1, SubmitMoves
  <2>. QED BY <2>2 DEF Moving, Turning, Flowing, Heeding
<1>. QED BY <1>1, <1>2, <1>3, <1>4

LEMMA PollTextsMoves ==
    ASSUME NEW s \in Client, NEW r, NEW es,
           Turning(s, r, es), Flowing(s, r, es)
    PROVE  Turning(PollTexts(s), r, es) /\ Flowing(PollTexts(s), r, es)
<1>. DEFINE yes == Accepted(s.sending)
            no  == Rejected(s.sending)
            u   == [s EXCEPT !.sending = @ \ (yes \cup no),
                             !.queue = Without(@, yes),
                             !.last = IF yes = {} THEN @ ELSE Nothing]
<1>. HIDE DEF yes, no
<1>1. /\ s.queue \in Seq(Texts) /\ Without(s.queue, yes) \in Seq(Texts)
      /\ ToSet(Without(s.queue, yes)) = ToSet(s.queue) \ yes
  BY WithoutProperties DEF Client
<1>2. /\ u \in Client /\ u.loading = s.loading /\ u.prompts = s.prompts
      /\ u.sending = s.sending \ (yes \cup no)
      /\ u.queue = Without(s.queue, yes)
  BY <1>1 DEF Client
<1>3. PollTexts(s) = IF yes \cup no # {} /\ ~s.loading THEN Flush(u) ELSE u
  BY DEF PollTexts, yes, no
<1>. HIDE DEF u
<1>4. Turning(u, r, es)
  BY <1>2 DEF Turning, Busy
<1>5. CASE yes \cup no # {} /\ ~s.loading
  BY <1>2, <1>3, <1>4, <1>5, FlushMoves
<1>6. CASE yes \cup no # {} /\ s.loading
  <2>1. Busy(u, r, es)
    BY <1>2, <1>6 DEF Turning, Busy
  <2>. QED BY <1>3, <1>6, <2>1 DEF Turning, Flowing
<1>7. CASE yes \cup no = {}
  <2>1. u.queue # <<>> => s.queue # <<>>
    <3>1. s.queue = <<>> => ToSet(u.queue) = {}
      BY <1>1, <1>2 DEF ToSet
    <3>2. u.queue \in Seq(Texts)
      BY <1>1, <1>2
    <3>3. u.queue # <<>> => u.queue[1] \in ToSet(u.queue)
      BY <3>2 DEF ToSet
    <3>. QED BY <3>1, <3>3
  <2>2. Flowing(u, r, es)
    BY <1>2, <1>7, <2>1 DEF Flowing, Busy
  <2>. QED BY <1>3, <1>4, <1>7, <2>2
<1>. QED BY <1>5, <1>6, <1>7

LEMMA PollNoticesMoves ==
    ASSUME NEW s \in Client, NEW r, NEW es,
           Turning(s, r, es), Flowing(s, r, es)
    PROVE  Moving(PollNotices(s), r, es)
<1>. DEFINE yes == Accepted(s.inFlight)
            no  == Rejected(s.inFlight)
            u   == [s EXCEPT !.inFlight = @ \ (yes \cup no),
                       !.current = @ \ (yes \cup no),
                       !.pending = @ \cup no,
                       !.last = IF yes \cap s.current # {} THEN Nothing ELSE @]
<1>1. no \subseteq Notices
  BY DEF Rejected, Client
<1>2. PollNotices(s) = Dispatch(u, FALSE)
  BY DEF PollNotices
<1>. HIDE DEF yes, no
<1>3. /\ u \in Client /\ u.loading = s.loading /\ u.prompts = s.prompts
      /\ u.sending = s.sending /\ u.queue = s.queue
  BY <1>1 DEF Client
<1>. HIDE DEF u
<1>4. Turning(u, r, es) /\ Flowing(u, r, es)
  BY <1>3 DEF Turning, Flowing, Busy
<1>. QED BY <1>2, <1>3, <1>4, DispatchMoves

\* No step leaves anyone waiting for nothing.
LEMMA MovingKept ==
    ASSUME Good(ui, receipts, fresh, run, kept), Moving(ui, run, events),
           events \in Seq({"tools", "text", "done", "interrupted", "error"}),
           Next
    PROVE  /\ Moving(ui', run', events')
           /\ events' \in Seq({"tools", "text", "done", "interrupted", "error"})
<1>. DEFINE Kinds == {"tools", "text", "done", "interrupted", "error"}
            M == Moving(ui', run', events') /\ events' \in Seq(Kinds)
            Shown(es) == \E i \in 1..Len(es) : es[i] = "done"
<1>1. /\ ui \in Client /\ run \in Run
      /\ ui.queue \in Seq(Texts) /\ Queued(ui) \subseteq Texts
      /\ ui.draft \in Texts \cup {Nothing}
      /\ ~run.on => run = Idle
      /\ Turning(ui, run, events) /\ Flowing(ui, run, events)
      /\ Heeding(ui, run, events)
  BY DEF Good, Typed, Adding, Client, Queued, ToSet, Moving
<1>. HIDE DEF Kinds
<1>2. events \in Seq(Kinds)
  BY DEF Kinds
<1>. DEFINE Quietly(u) == /\ u.prompts = ui.prompts
                          /\ u.loading => ui.loading
                          /\ u.queue = ui.queue
                          /\ ui.sending \subseteq u.sending
                          /\ u.pending = ui.pending
                          /\ ui.reconciled => u.reconciled
\* A step of the client after which as much is under way as before.
<1>3. ASSUME NEW u, Quietly(u), NEW r, NEW es,
             Busy(ui, run, events) => Busy(u, r, es)
      PROVE  Moving(u, r, es)
  BY <1>1, <1>3 DEF Moving, Turning, Flowing, Heeding
<1>4. ASSUME NEW kind, Receive(kind)
      PROVE  /\ events' \in Seq(Kinds)
             /\ kind # "done" /\ Shown(events) => Shown(events')
  <2>1. events # <<>> /\ Head(events) = kind /\ events' = Tail(events)
    BY <1>4 DEF Receive
  <2>. DEFINE n == Len(events)
  <2>2. /\ Tail(events) \in Seq(Kinds) /\ Len(Tail(events)) = n - 1
        /\ \A i \in 1..(n - 1) : Tail(events)[i] = events[i + 1]
        /\ events[1] = kind /\ n \in Nat
    BY <1>2, <2>1
  <2>3. ASSUME NEW i \in 1..n, events[i] = "done", kind # "done"
        PROVE  i - 1 \in 1..(n - 1) /\ Tail(events)[i - 1] = "done"
    <3>. HIDE DEF n
    <3>1. i # 1
      BY <2>2, <2>3
    <3>2. i - 1 \in 1..(n - 1) /\ (i - 1) + 1 = i
      BY <2>2, <3>1
    <3>. QED BY <2>2, <2>3, <3>2
  <2>. QED BY <2>1, <2>2, <2>3
<1>5. ASSUME NEW m \in Texts, Type(m)
      PROVE  M
  <2>1. ui' = [ui EXCEPT !.draft = m] /\ UNCHANGED <<run, events>>
    BY <1>5 DEF Type
  <2>2. Quietly(ui')
    BY <1>1, <2>1 DEF Client
  <2>. QED BY <1>2, <1>3, <2>1, <2>2 DEF Busy
<1>6. ASSUME NEW m \in Texts, Steer(m)
      PROVE  M
  <2>1. UNCHANGED <<run, events>>
    BY <1>6 DEF Steer
  <2>2. CASE ui.loading
    <3>1. ui' = [ui EXCEPT !.sending = @ \cup {m}, !.adds = @ \cup {m}]
      BY <1>6, <2>2 DEF Steer
    <3>2. Quietly(ui')
      BY <1>1, <3>1 DEF Client
    <3>. QED BY <1>2, <1>3, <2>1, <3>2 DEF Busy
  <2>3. CASE ~ui.loading
    <3>1. ui' = Submit(Unqueue(ui, m), m)
      BY <1>6, <2>3 DEF Steer
    <3>2. Without(ui.queue, {m}) \in Seq(Texts)
      BY <1>1, WithoutProperties
    <3>3. Unqueue(ui, m) \in Client
      BY <1>1, <3>2 DEF Unqueue, Client
    <3>4. Busy(ui', run, events)
      BY <3>1, <3>3, SubmitMoves
    <3>. QED BY <1>2, <2>1, <3>4 DEF Moving, Turning, Flowing, Heeding
  <2>. QED BY <2>2, <2>3
<1>7. ASSUME NEW m \in Texts, Delete(m)
      PROVE  M
  <2>1. /\ m \in Queued(ui) \ ui.sending /\ ui' = Unqueue(ui, m)
        /\ UNCHANGED <<run, events>>
    BY <1>7 DEF Delete, Queued
  <2>2. /\ ui'.prompts = ui.prompts /\ ui'.loading = ui.loading
        /\ ui'.sending = ui.sending /\ ui'.pending = ui.pending
        /\ ui'.reconciled = ui.reconciled
    BY <1>1, <2>1 DEF Unqueue, Client
  <2>3. ui.queue # <<>>
    BY <2>1 DEF Queued, ToSet
  <2>. QED BY <1>1, <1>2, <2>1, <2>2, <2>3
           DEF Moving, Turning, Flowing, Heeding, Busy
<1>8. ASSUME Enter
      PROVE  M
  <2>. DEFINE s == [ui EXCEPT !.draft = Nothing]
  <2>1. UNCHANGED <<run, events>>
    BY <1>8 DEF Enter
  <2>2. CASE ui.loading
    <3>1. ui' = [s EXCEPT !.queue = Append(@, ui.draft)]
      BY <1>8, <2>2 DEF Enter
    <3>2. ui'.prompts = ui.prompts
      BY <1>1, <3>1 DEF Client
    <3>3. Busy(ui', run, events)
      BY <1>1, <2>2, <3>2 DEF Turning, Busy
    <3>. QED BY <1>2, <2>1, <3>3 DEF Moving, Turning, Flowing, Heeding
  <2>3. CASE ~ui.loading
    <3>1. ui' = Submit(s, ui.draft) /\ s \in Client
      BY <1>1, <1>8, <2>3 DEF Enter, Client
    <3>2. Busy(ui', run, events)
      BY <1>1, <3>1, SubmitMoves
    <3>. QED BY <1>2, <2>1, <3>2 DEF Moving, Turning, Flowing, Heeding
  <2>. QED BY <2>2, <2>3
<1>9. ASSUME Interrupt
      PROVE  M
  <2>1. ui' = [ui EXCEPT !.cancelSent = TRUE] /\ UNCHANGED <<run, events>>
    BY <1>9 DEF Interrupt
  <2>2. Quietly(ui')
    BY <1>1, <2>1 DEF Client
  <2>. QED BY <1>2, <1>3, <2>1, <2>2 DEF Busy
<1>10. ASSUME NEW n \in Notices, Report(n)
       PROVE  M
  <2>. DEFINE u == [ui EXCEPT !.pending = @ \cup {n}]
  <2>1. ui' = Dispatch(u, TRUE) /\ UNCHANGED <<run, events>>
    BY <1>10 DEF Report
  <2>2. /\ u \in Client /\ u.loading = ui.loading /\ u.prompts = ui.prompts
        /\ u.sending = ui.sending /\ u.queue = ui.queue
    BY <1>1 DEF Client
  <2>. HIDE DEF u
  <2>3. Turning(u, run, events) /\ Flowing(u, run, events)
    BY <1>1, <2>2 DEF Turning, Flowing, Busy
  <2>. QED BY <1>2, <2>1, <2>2, <2>3, DispatchMoves
<1>11. ASSUME Poll
       PROVE  M
  <2>1. ui' = PollNotices(PollTexts(ui)) /\ UNCHANGED <<run, events>>
    BY <1>11 DEF Poll
  <2>2. PollTexts(ui) \in Client
    BY PollTextsKeeps DEF Good, Typed
  <2>3. Moving(PollNotices(PollTexts(ui)), run, events)
    BY <1>1, <2>2, PollTextsMoves, PollNoticesMoves
  <2>. QED BY <1>2, <2>1, <2>3
<1>12. ASSUME GiveUp
       PROVE  M
  <2>1. /\ ui' = [ui EXCEPT !.cancelSent = FALSE, !.loading = FALSE]
        /\ UNCHANGED <<run, events>>
    BY <1>12 DEF GiveUp
  <2>2. Quietly(ui')
    BY <1>1, <2>1 DEF Client
  <2>. QED BY <1>2, <1>3, <2>1, <2>2 DEF Busy
<1>13. ASSUME ShowTools \/ ShowText
       PROVE  M
  <2>1. PICK b \in BOOLEAN : /\ ui' = [ui EXCEPT !.tools = b]
                             /\ run' = run
    BY <1>13 DEF ShowTools, ShowText
  <2>2. events' \in Seq(Kinds) /\ (Shown(events) => Shown(events'))
    BY <1>4, <1>13 DEF ShowTools, ShowText
  <2>3. Quietly(ui')
    BY <1>1, <2>1 DEF Client
  <2>. QED BY <1>3, <2>1, <2>2, <2>3 DEF Busy
<1>14. ASSUME HandleDone
       PROVE  M
  <2>. DEFINE u == [ui EXCEPT !.cancelSent = FALSE, !.loading = FALSE]
  <2>1. /\ ui' = PollNotices(Flush(u)) /\ run' = run
        /\ events' \in Seq(Kinds)
    BY <1>4, <1>14 DEF HandleDone
  <2>2. u \in Client /\ u.loading = FALSE
    BY <1>1 DEF Client
  <2>3. Good(u, receipts, fresh, run, kept)
    <3>1. /\ u.draft = ui.draft /\ u.queue = ui.queue
          /\ u.sending = ui.sending /\ u.pending = ui.pending
          /\ u.inFlight = ui.inFlight /\ u.current = ui.current
          /\ u.last = ui.last /\ u.withdrawn = ui.withdrawn
          /\ u.prompts = ui.prompts /\ u.adds = ui.adds
      BY <1>1 DEF Client
    <3>. HIDE DEF u
    <3>. QED BY <2>2, <3>1, GoodSame
  <2>. HIDE DEF u
  <2>4. Flush(u) \in Client
    BY <2>3, FlushKeeps DEF Good, Typed
  <2>5. Turning(u, run, events')
    BY <2>2 DEF Turning
  <2>6. Turning(Flush(u), run, events') /\ Flowing(Flush(u), run, events')
    BY <2>2, <2>5, FlushMoves
  <2>7. Moving(PollNotices(Flush(u)), run, events')
    BY <2>4, <2>6, PollNoticesMoves
  <2>. QED BY <2>1, <2>7
<1>15. ASSUME HandleInterrupted
       PROVE  M
  <2>1. /\ run' = run
        /\ events' \in Seq(Kinds) /\ (Shown(events) => Shown(events'))
    BY <1>4, <1>15 DEF HandleInterrupted
  <2>2. Quietly(ui')
    <3>. DEFINE s == [ui EXCEPT !.cancelSent = FALSE, !.reconciled = TRUE]
                u == [s EXCEPT !.draft = IF @ = Nothing THEN ui.last ELSE @,
                               !.last = Nothing,
                               !.withdrawn = @ \cup {ui.last}]
    <3>1. ui' = s \/ ui' = u
      BY <1>15 DEF HandleInterrupted
    <3>2. Quietly(s) /\ Quietly(u)
      BY <1>1 DEF Client
    <3>. QED BY <3>1, <3>2
  <2>. QED BY <1>3, <2>1, <2>2 DEF Busy
<1>16. ASSUME HandleError
       PROVE  M
  <2>. DEFINE u == [ui EXCEPT !.cancelSent = FALSE, !.reconciled = TRUE,
                              !.tools = TRUE, !.loading = FALSE]
  <2>1. ui' = Flush(u) /\ run' = run /\ events' \in Seq(Kinds)
    BY <1>4, <1>16 DEF HandleError
  <2>2. u \in Client /\ u.loading = FALSE /\ u.reconciled
    BY <1>1 DEF Client
  <2>. HIDE DEF u
  <2>3. Turning(u, run, events') /\ Heeding(u, run, events')
    BY <2>2 DEF Turning, Heeding
  <2>4. Moving(Flush(u), run, events')
    BY <2>2, <2>3, FlushMoves DEF Moving
  <2>. QED BY <2>1, <2>4
<1>17. ASSUME NEW i \in DOMAIN ui.prompts, Begin(i)
       PROVE  M
  <2>1. /\ run' = [Idle EXCEPT !.on = TRUE, !.prompt = ui.prompts[i]]
        /\ events' = events
    BY <1>17 DEF Begin
  <2>2. run'.on
    BY <2>1 DEF Idle
  <2>. QED BY <1>2, <2>1, <2>2 DEF Moving, Turning, Flowing, Heeding, Busy
<1>18. ASSUME TakeCancel
       PROVE  M
  <2>1. /\ run' = IF run.on THEN [run EXCEPT !.cancelled = TRUE] ELSE run
        /\ UNCHANGED <<ui, events>>
    BY <1>18 DEF TakeCancel
  <2>2. run.on => run'.on
    BY <1>1, <2>1 DEF Run
  <2>. QED BY <1>2, <1>3, <2>1, <2>2 DEF Busy
<1>19. ASSUME NEW x \in Items, TakeAdd(x)
       PROVE  M
  <2>1. /\ ui' = [ui EXCEPT !.adds = @ \ {x}] /\ events' = events
        /\ run' = run \/ run' = [run EXCEPT !.steered = @ \cup {x}]
    BY <1>19 DEF TakeAdd
  <2>2. (run.on => run'.on) /\ Quietly(ui')
    BY <1>1, <2>1 DEF Run, Client
  <2>. QED BY <1>2, <1>3, <2>1, <2>2 DEF Busy
<1>20. ASSUME Consume \/ UseTools
       PROVE  M
  <2>1. /\ run.on /\ ui' = ui
        /\ \/ run' = [run EXCEPT !.steered = {}, !.added = @ \cup run.steered]
           \/ run' = [run EXCEPT !.tools = TRUE]
        /\ \/ events' = events
           \/ \E e \in {"text", "tools"} : events' = Append(events, e)
    <3>1. CASE Consume
      <4>1. run.on
        BY <1>1, <3>1 DEF Consume, Idle
      <4>. QED BY <3>1, <4>1 DEF Consume
    <3>2. CASE UseTools
      BY <3>2 DEF UseTools
    <3>. QED BY <1>20, <3>1, <3>2
  <2>2. run'.on
    BY <1>1, <2>1 DEF Run
  <2>3. events' \in Seq(Kinds)
    BY <1>2, <2>1 DEF Kinds
  <2>. QED BY <2>2, <2>3 DEF Moving, Turning, Flowing, Heeding, Busy
<1>21. ASSUME NEW how \in {"ok", "error", "interrupted"}, End(how)
       PROVE  M
  <2>. DEFINE tail == IF how = "ok" THEN <<"done">> ELSE <<how, "done">>
              n == Len(events) + Len(tail)
  <2>1. events' = events \o tail /\ ui' = ui
    BY <1>21 DEF End
  <2>2. /\ tail \in Seq(Kinds) /\ Len(tail) \in {1, 2}
        /\ tail[Len(tail)] = "done"
    <3>1. (how # "ok" => how \in Kinds) /\ "done" \in Kinds
      BY DEF Kinds
    <3>2. CASE how = "ok"
      BY <3>1, <3>2
    <3>3. CASE how # "ok"
      BY <3>1, <3>3
    <3>. QED BY <3>2, <3>3
  <2>. HIDE DEF tail
  <2>3. /\ events' \in Seq(Kinds) /\ Len(events') = n
        /\ n \in 1..n /\ events'[n] = "done"
    <3>1. Len(events) \in Nat /\ Len(tail) \in Nat \ {0}
      <4>1. Len(events) \in Nat
        BY <1>2
      <4>2. \A m \in {1, 2} : m \in Nat \ {0}
        OBVIOUS
      <4>. QED BY <2>2, <4>1, <4>2
    <3>2. /\ events \o tail \in Seq(Kinds) /\ Len(events \o tail) = n
          /\ \A i \in 1..Len(tail) :
               (events \o tail)[Len(events) + i] = tail[i]
      BY <1>2, <2>2
    <3>3. Len(tail) \in 1..Len(tail) /\ n \in 1..n
      BY <3>1
    <3>. QED BY <2>1, <2>2, <3>2, <3>3
  <2>4. Busy(ui', run', events')
    BY <2>3 DEF Busy
  <2>. QED BY <2>3, <2>4 DEF Moving, Turning, Flowing, Heeding
<1>. QED
  BY <1>5, <1>6, <1>7, <1>8, <1>9, <1>10, <1>11, <1>12, <1>13, <1>14, <1>15,
     <1>16, <1>17, <1>18, <1>19, <1>20, <1>21
  DEF Next, User, HandleEvent, TakePrompt, Execution, Kinds
-----------------------------------------------------------------------------
LEMMA InitHolds == Init => IInv
<1>. SUFFICES ASSUME Init
              PROVE  IInv
  OBVIOUS
<1>1. /\ ui.draft = Nothing /\ ui.queue = <<>> /\ ui.sending = {}
      /\ ui.pending = {} /\ ui.inFlight = {} /\ ui.current = {}
      /\ ui.last = Nothing /\ ui.withdrawn = {} /\ ui.prompts = <<>>
      /\ ui.adds = {} /\ ~ui.loading
      /\ fresh = Items /\ receipts = {} /\ events = <<>> /\ run = Idle
      /\ kept \in [Items -> 0..2] /\ \A x \in Items : kept[x] = 0
  BY DEF Init, Items
<1>2. ui \in Client
  BY DEF Init, Client
<1>3. Idle \in Run /\ ~Idle.on /\ Idle.steered = {}
  BY DEF Idle, Run, NoPrompt, Prompt
<1>4. Queued(ui) = {} /\ Len(ui.prompts) = 0 /\ IsInjective(ui.queue)
  BY <1>1 DEF Queued, ToSet, IsInjective
<1>5. Typed(ui, receipts, fresh, run, kept)
  BY <1>1, <1>2, <1>3, <1>4 DEF Typed
<1>6. Adding(ui, receipts, run)
  BY <1>1, <1>3 DEF Adding, Answered
<1>7. Placed(ui, fresh)
  BY <1>1, <1>4, InputAssumption DEF Placed, Items
<1>8. ASSUME NEW x \in Items
      PROVE  Single(ui, receipts, fresh, run, kept, x)
  <2>1. ~Leaves(ui, x) /\ ~Runs(run, x) /\ kept[x] = 0
    BY <1>1, <1>3, <1>4 DEF Leaves, Runs
  <2>. QED BY <1>1, <1>4, <2>1 DEF Single, Gone, Confirmed, Has
<1>9. cancels \in [sent : 0..MaxInterrupts, coming : BOOLEAN]
  BY InputAssumption DEF Init
<1>10. events \in Seq({"tools", "text", "done", "interrupted", "error"})
  BY <1>1
<1>11. Moving(ui, run, events)
  BY <1>1 DEF Moving, Turning, Flowing, Heeding
<1>. QED BY <1>5, <1>6, <1>7, <1>8, <1>9, <1>10, <1>11 DEF IInv, Good

LEMMA CancelsKept ==
    ASSUME cancels \in [sent : 0..MaxInterrupts, coming : BOOLEAN], Next
    PROVE  cancels' \in [sent : 0..MaxInterrupts, coming : BOOLEAN]
<1>1. CASE Interrupt
  BY <1>1, InputAssumption DEF Interrupt
<1>2. CASE TakeCancel
  BY <1>2 DEF TakeCancel
<1>3. CASE ~Interrupt /\ ~TakeCancel
  <2>1. cancels' = cancels
    BY <1>3 DEF Next, User, HandleEvent, TakePrompt, Execution, Type, Steer,
       Delete, Enter, Report, Poll, GiveUp, ShowTools, ShowText, HandleDone,
       HandleInterrupted, HandleError, Begin, TakeAdd, UseTools, Consume, End
  <2>. QED BY <2>1
<1>. QED BY <1>1, <1>2, <1>3

LEMMA StepKeeps == IInv /\ [Next]_vars => IInv'
<1>1. ASSUME IInv, Next
      PROVE  IInv'
  <2>1. Good(ui', receipts', fresh', run', kept')
    BY <1>1, UserKeeps, ClientKeeps, ServerKeeps DEF IInv, Next
  <2>2. /\ Moving(ui', run', events')
        /\ events' \in Seq({"tools", "text", "done", "interrupted", "error"})
    BY <1>1, MovingKept DEF IInv
  <2>3. cancels' \in [sent : 0..MaxInterrupts, coming : BOOLEAN]
    BY <1>1, CancelsKept DEF IInv
  <2>4. Good(ui, receipts, fresh, run, kept)' /\ Moving(ui, run, events)'
    BY <2>1, <2>2
  <2>. QED BY <2>2, <2>3, <2>4 DEF IInv
<1>2. ASSUME IInv, UNCHANGED vars
      PROVE  IInv'
  <2>1. /\ ui' = ui /\ receipts' = receipts /\ fresh' = fresh /\ run' = run
        /\ kept' = kept /\ events' = events /\ cancels' = cancels
    BY <1>2 DEF vars
  <2>2. Good(ui', receipts', fresh', run', kept') /\ Moving(ui', run', events')
    BY <1>2, <2>1 DEF IInv
  <2>3. Good(ui, receipts, fresh, run, kept)' /\ Moving(ui, run, events)'
    BY <2>2
  <2>. QED BY <1>2, <2>1, <2>3 DEF IInv
<1>. QED BY <1>1, <1>2

\* The invariant holds throughout.
LEMMA Inductive == Spec => []IInv
BY InitHolds, StepKeeps, PTL DEF Spec

\* Every variable keeps its type, a message that is being added stays in the
\* queue (queued_messages.rs: sending), a request under way is for something
\* the client waits for an answer to.
THEOREM TypeCorrect == Spec => []TypeOK
<1>1. IInv => TypeOK
  BY DEF IInv, Good, Typed, Adding, Queued, TypeOK
<1>. QED BY <1>1, Inductive, PTL

\* Nothing typed or reported exists twice: not in the client and on its way, not
\* in two prompts, not running and kept.
THEOREM NothingTwice == Spec => []OneCopy
<1>1. ASSUME IInv, NEW x \in Items \ ui.withdrawn
      PROVE  Copies(x) <= 1
  <2>. DEFINE S == {i \in DOMAIN ui.prompts : Carries(ui.prompts[i], x)}
  <2>1. Single(ui, receipts, fresh, run, kept, x) /\ kept[x] \in 0..2
    BY <1>1 DEF IInv, Good, Typed
  <2>2. OnServer(x) <=> Runs(run, x)
    BY DEF OnServer, Runs
  <2>3. DOMAIN ui.prompts = 1..Len(ui.prompts)
    BY <1>1 DEF IInv, Good, Typed, Client
  <2>4. Sent(x) = Cardinality(S)
    BY DEF Sent
  <2>5. CASE Leaves(ui, x)
    <3>1. PICK i \in 1..Len(ui.prompts) : Carries(ui.prompts[i], x)
      BY <2>5 DEF Leaves
    <3>2. S = {i}
      BY <2>1, <2>3, <3>1 DEF Single
    <3>3. Sent(x) = 1
      BY <2>4, <3>2, FS_Singleton
    <3>4. ~Waits(x) /\ ~OnServer(x) /\ kept[x] = 0
      <4>1. Waits(x) => Has(ui, x) /\ ~Confirmed(receipts, x)
        BY DEF Waits, Has, Confirmed, Queued
      <4>. QED BY <2>1, <2>2, <2>5, <4>1 DEF Single, Gone
    <3>. QED BY <3>3, <3>4 DEF Copies
  <2>6. CASE ~Leaves(ui, x)
    <3>1. S = {}
      BY <2>3, <2>6 DEF Leaves
    <3>2. Sent(x) = 0
      BY <2>4, <3>1, FS_EmptySet
    <3>3. Waits(x) => ~OnServer(x) /\ kept[x] = 0
      <4>1. Waits(x) => Has(ui, x) /\ ~Confirmed(receipts, x)
        BY DEF Waits, Has, Confirmed, Queued
      <4>. QED BY <2>1, <2>2, <4>1 DEF Single, Gone
    <3>4. OnServer(x) => kept[x] = 0
      BY <2>1, <2>2 DEF Single
    <3>5. kept[x] \in 0..1
      BY <2>1 DEF Single
    <3>. QED BY <3>2, <3>3, <3>4, <3>5 DEF Copies
  <2>. QED BY <2>5, <2>6
<1>2. IInv => OneCopy
  BY <1>1 DEF OneCopy
<1>. QED BY <1>2, Inductive, PTL

\* When nothing is under way any more, nobody waits.
THEOREM NobodyWaits == Spec => []NothingStranded
<1>1. ASSUME IInv, Quiet
      PROVE  /\ ~ui.loading /\ ui.queue = <<>> /\ ui.inFlight = {}
             /\ ui.pending # {} => ui.reconciled
  <2>1. ~Busy(ui, run, events)
    <3>1. Len(events) = 0
      BY <1>1 DEF Quiet
    <3>. QED BY <1>1, <3>1 DEF Quiet, Busy
  <2>2. run.steered = {} /\ Answered(receipts) = {}
    BY <1>1 DEF Quiet, IInv, Good, Adding, Idle, Answered
  <2>3. ui.sending \cup ui.inFlight = {}
    BY <1>1, <2>2 DEF Quiet, IInv, Good, Adding
  <2>. QED BY <1>1, <2>1, <2>3 DEF IInv, Moving, Turning, Flowing, Heeding
<1>2. IInv => NothingStranded
  BY <1>1 DEF NothingStranded
<1>. QED BY <1>2, Inductive, PTL
=============================================================================
