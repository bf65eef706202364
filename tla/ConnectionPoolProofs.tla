------------------------ MODULE ConnectionPoolProofs ------------------------
(***************************************************************************)
(* Machine-checked proofs about ConnectionPool: for every finite set of callers   *)
(* and of endpoints, every size of the pool and any number of calls and sweeps.   *)
(***************************************************************************)
EXTENDS ConnectionPool, FiniteSetTheorems, NaturalsInduction, SequenceTheorems, TLAPS

-----------------------------------------------------------------------------
(***************************************************************************)
(* The inductive invariant.                                                    *)
(***************************************************************************)

\* No element occurs twice in s.
Distinct(s) == \A m, n \in 1 .. Len(s) : s[m] = s[n] => m = n

AtEntry == {"lock", "connecting", "calling"}
Breaking == {"breakLock", "breaking"}
OnRegistry == {"registry", "evicting"}

\* What a task keeps at each of its awaits.
TaskOK ==
  /\ \A t \in Actor : cur[t] = 0 <=> pc[t] \in {"idle", "registry"}
  /\ \A t \in Task : /\ pc[t] # "idle" => key[t] \in Key /\ calls[t] > 0
                     /\ pc[t] = "idle" => suspect[t] = 0
  /\ pc[Monitor] \in {"idle", "registry", "evicting"}

\* The queue of the registry lock is made of the tasks that wait for it or hold it; the
\* one that evicts holds it.
RegistryOK ==
  /\ Distinct(reg)
  /\ \A t \in Actor : /\ t \in ToSet(reg) <=> pc[t] \in OnRegistry
                      /\ pc[t] = "evicting" => Head(reg) = t

\* The lock of an entry is held by the task that works under it, and its queue is made
\* of tasks that wait in it, each once.
HolderOK ==
  \A e \in Entry, t \in Task : holder[e] = t <=> (cur[t] = e /\ pc[t] \in UnderLock)

QueueOK ==
  \A e \in Entry : /\ Distinct(queue[e])
                   /\ \A t \in ToSet(queue[e]) : cur[t] = e /\ pc[t] \in Waiting

\* An entry has one key and one place in the order of use.
PoolOK ==
  /\ Distinct(lru)
  /\ \A k, l \in Key : pool[k] = pool[l] /\ pool[k] # 0 => k = l

\* Only a connected entry has a session.
SessionOK == \A e \in Entry : session[e] # "none" => connected[e]

\* A task calls over the entry of its own key, or over one that has left the pool.
OwnKeyOK ==
  \A t \in Task : pc[t] \in AtEntry =>
    \A k \in Key : pool[k] = cur[t] => k = key[t]

\* The victim of an eviction stays in the pool until it is closed, and nobody else adds
\* the entry the evicting task is about to add.
EvictOK ==
  \A t \in Task : pc[t] = "evicting" => cur[t] \in Pooled /\ pool[key[t]] = 0

\* Where the session that failed attempt 1 is: the task is about to close it, or it is
\* closed, or it has left the pool and the retry cannot find it.
RetryOK ==
  \A t \in Task : suspect[t] # 0 =>
    /\ pc[t] \in Breaking => suspect[t] = cur[t] \/ suspect[t] \notin Pooled
    /\ pc[t] \in OnRegistry => session[suspect[t]] = "none" \/ suspect[t] \notin Pooled
    /\ pc[t] \in AtEntry /\ suspect[t] = cur[t] => session[suspect[t]] = "none"

CoreInv == /\ TypeOK /\ TaskOK /\ RegistryOK /\ HolderOK /\ QueueOK /\ PoolOK
           /\ SessionOK /\ OwnKeyOK /\ EvictOK /\ RetryOK /\ PoolBounded

\* The calls under way are some of the most there have been together.
PeakOK == Cardinality(InFlight) <= peak

IndInv == CoreInv /\ PeakOK

-----------------------------------------------------------------------------
(***************************************************************************)
(* Lemmas.                                                                     *)
(***************************************************************************)

\* A set of numbers has a least one.
LEMMA Least ==
  ASSUME NEW S \in SUBSET Nat, S # {}
  PROVE  /\ Min(S) \in S
         /\ \A y \in S : Min(S) <= y
<1>1. \E x \in S : \A y \in S : ~ (<<y, x>> \in OpToRel(<, Nat))
  BY NatLessThanWellFounded, WFMin
<1>2. PICK x \in S : \A y \in S : ~ (<<y, x>> \in OpToRel(<, Nat))
  BY <1>1
<1>3. ASSUME NEW y \in S, ~ (x <= y)
      PROVE  FALSE
  <2>1. y \in Nat /\ x \in Nat /\ y < x
    BY <1>3
  <2>2. <<y, x>> \in {ss \in Nat \X Nat : ss[1] < ss[2]}
    BY <2>1
  <2>. QED  BY <1>2, <2>2 DEF OpToRel
<1>. QED  BY <1>3 DEF Min

\* An element added to a sequence that does not have it.
LEMMA AppendEffect ==
  ASSUME NEW S, NEW s \in Seq(S), NEW e \in S
  PROVE  /\ Append(s, e) \in Seq(S)
         /\ ToSet(Append(s, e)) = ToSet(s) \cup {e}
         /\ Distinct(s) /\ e \notin ToSet(s) => Distinct(Append(s, e))
         /\ s # <<>> => Head(Append(s, e)) = Head(s)
  BY DEF ToSet, Distinct

\* The head of a sequence is taken.
LEMMA TailEffect ==
  ASSUME NEW S, NEW s \in Seq(S), s # <<>>, Distinct(s)
  PROVE  /\ Tail(s) \in Seq(S)
         /\ Head(s) \in ToSet(s)
         /\ ToSet(Tail(s)) = ToSet(s) \ {Head(s)}
         /\ Distinct(Tail(s))
<1>1. /\ Len(s) \in Nat \ {0}
      /\ Tail(s) \in Seq(S) /\ Len(Tail(s)) = Len(s) - 1
      /\ \A n \in 1 .. Len(s) - 1 : Tail(s)[n] = s[n + 1]
      /\ Head(s) = s[1]
  OBVIOUS
<1>2. ToSet(Tail(s)) \subseteq ToSet(s) \ {Head(s)}
  BY <1>1 DEF ToSet, Distinct
<1>3. ASSUME NEW x \in ToSet(s) \ {Head(s)}
      PROVE  x \in ToSet(Tail(s))
  <2>1. PICK n \in 1 .. Len(s) : s[n] = x
    BY DEF ToSet
  <2>2. n - 1 \in 1 .. Len(s) - 1 /\ Tail(s)[n - 1] = x
    BY <2>1, <1>1
  <2>3. n - 1 \in DOMAIN Tail(s)
    BY <2>2, <1>1
  <2>. QED  BY <2>2, <2>3 DEF ToSet
<1>4. Distinct(Tail(s))
  BY <1>1 DEF Distinct
<1>5. Head(s) \in ToSet(s)
  BY <1>1 DEF ToSet
<1>. QED  BY <1>1, <1>2, <1>3, <1>4, <1>5

\* A stretch of a sequence.
LEMMA SubSeqEffect ==
  ASSUME NEW S, NEW s \in Seq(S), NEW a \in Int, NEW b \in Int,
         1 <= a, b <= Len(s), a <= b + 1
  PROVE  /\ SubSeq(s, a, b) \in Seq(S) /\ Len(SubSeq(s, a, b)) = b - a + 1
         /\ \A n \in 1 .. b - a + 1 : SubSeq(s, a, b)[n] = s[a + n - 1]
<1>1. \A n \in a .. b : s[n] \in S
  OBVIOUS
<1>2. /\ SubSeq(s, a, b) \in Seq(S)
      /\ Len(SubSeq(s, a, b)) = IF a <= b THEN b - a + 1 ELSE 0
      /\ \A n \in 1 .. b - a + 1 : SubSeq(s, a, b)[n] = s[a + n - 1]
  BY <1>1, SubSeqProperties
<1>. QED  BY <1>2

\* An element is taken out of a sequence.
LEMMA RemoveEffect ==
  ASSUME NEW S, NEW s \in Seq(S), NEW e, Distinct(s)
  PROVE  /\ RemoveFirst(s, e) \in Seq(S)
         /\ ToSet(RemoveFirst(s, e)) = ToSet(s) \ {e}
         /\ Distinct(RemoveFirst(s, e))
         /\ s # <<>> /\ Head(s) # e => /\ RemoveFirst(s, e) # <<>>
                                       /\ Head(RemoveFirst(s, e)) = Head(s)
<1>1. CASE ~ \E i \in 1 .. Len(s) : s[i] = e
  BY <1>1 DEF RemoveFirst, ToSet
<1>2. CASE \E i \in 1 .. Len(s) : s[i] = e
  <2>. DEFINE I == {i \in 1 .. Len(s) : s[i] = e}
              r == RemoveFirst(s, e)
  <2>1. I \in SUBSET Nat /\ I # {}
    BY <1>2
  <2>2. PICK m \in 1 .. Len(s) : m = Min(I) /\ s[m] = e
    BY <2>1, Least
  <2>3. r = RemoveAt(s, m)
    BY <1>2, <2>1, <2>2 DEF RemoveFirst, SelectInSeq
  <2>. DEFINE p == SubSeq(s, 1, m - 1)
              q == SubSeq(s, m + 1, Len(s))
  <2>4. /\ p \in Seq(S) /\ Len(p) = m - 1
        /\ \A n \in 1 .. m - 1 : p[n] = s[n]
    <3>1. /\ p \in Seq(S) /\ Len(p) = (m - 1) - 1 + 1
          /\ \A n \in 1 .. (m - 1) - 1 + 1 : p[n] = s[1 + n - 1]
      <4>1. m - 1 \in Int /\ 1 \in Int /\ 1 <= 1 /\ m - 1 <= Len(s) /\ 1 <= (m - 1) + 1
        BY <2>2
      <4>. QED  BY ONLY s \in Seq(S), <4>1, SubSeqEffect
    <3>. HIDE DEF p
    <3>2. (m - 1) - 1 + 1 = m - 1 /\ \A n \in 1 .. m - 1 : 1 + n - 1 = n
      BY <2>2
    <3>. QED  BY <3>1, <3>2
  <2>5. /\ q \in Seq(S) /\ Len(q) = Len(s) - m
        /\ \A n \in 1 .. Len(s) - m : q[n] = s[m + n]
    <3>1. /\ q \in Seq(S) /\ Len(q) = Len(s) - (m + 1) + 1
          /\ \A n \in 1 .. Len(s) - (m + 1) + 1 : q[n] = s[(m + 1) + n - 1]
      <4>1. /\ m + 1 \in Int /\ Len(s) \in Int /\ 1 <= m + 1 /\ Len(s) <= Len(s)
            /\ m + 1 <= Len(s) + 1
        BY <2>2
      <4>. QED  BY ONLY s \in Seq(S), <4>1, SubSeqEffect
    <3>. HIDE DEF q
    <3>2. /\ Len(s) - (m + 1) + 1 = Len(s) - m
          /\ \A n \in 1 .. Len(s) - m : (m + 1) + n - 1 = m + n
      <4>1. m \in Int /\ Len(s) \in Int
        BY <2>2
      <4>. QED  BY ONLY <4>1
    <3>. QED  BY <3>1, <3>2
  <2>6. /\ r \in Seq(S) /\ Len(r) = Len(s) - 1
        /\ \A n \in 1 .. Len(s) - 1 : r[n] = IF n < m THEN s[n] ELSE s[n + 1]
    <3>1. r = p \o q
      BY <2>3 DEF RemoveAt
    <3>. HIDE DEF p, q, r
    <3>2. /\ r \in Seq(S) /\ Len(r) = Len(p) + Len(q)
          /\ \A n \in 1 .. Len(p) + Len(q) :
               r[n] = IF n <= Len(p) THEN p[n] ELSE q[n - Len(p)]
      BY <3>1, <2>4, <2>5, ConcatProperties
    <3>3. Len(r) = Len(s) - 1
      BY <3>2, <2>2, <2>4, <2>5
    <3>4. ASSUME NEW n \in 1 .. Len(s) - 1
          PROVE  r[n] = IF n < m THEN s[n] ELSE s[n + 1]
      <4>1. r[n] = IF n <= m - 1 THEN p[n] ELSE q[n - (m - 1)]
        <5>1. Len(p) + Len(q) = Len(s) - 1
          BY <2>2, <2>4, <2>5
        <5>2. r[n] = IF n <= Len(p) THEN p[n] ELSE q[n - Len(p)]
          BY <3>2, <5>1
        <5>. QED  BY <5>2, <2>4
      <4>2. CASE n < m
        BY <4>1, <4>2, <2>2, <2>4
      <4>3. CASE n >= m
        <5>1. n - (m - 1) \in 1 .. Len(s) - m
          BY <4>3, <2>2
        <5>2. q[n - (m - 1)] = s[m + (n - (m - 1))]
          BY <5>1, <2>5
        <5>3. m + (n - (m - 1)) = n + 1
          BY <2>2
        <5>. QED  BY <5>2, <5>3, <4>1, <4>3, <2>2
      <4>. QED  BY <4>2, <4>3, <2>2
    <3>. QED  BY <3>2, <3>3, <3>4
  <2>. HIDE DEF r, I
  <2>7. ASSUME NEW x \in ToSet(r)
        PROVE  x \in ToSet(s) \ {e}
    <3>1. PICK n \in 1 .. Len(s) - 1 : r[n] = x
      BY <2>6 DEF ToSet
    <3>2. PICK l \in 1 .. Len(s) : l # m /\ s[l] = x
      <4>1. n \in 1 .. Len(s) /\ n + 1 \in 1 .. Len(s)
        OBVIOUS
      <4>. QED  BY <3>1, <4>1, <2>2, <2>6
    <3>. QED  BY <3>2, <2>2 DEF ToSet, Distinct
  <2>8. ASSUME NEW x \in ToSet(s) \ {e}
        PROVE  x \in ToSet(r)
    <3>1. PICK n \in 1 .. Len(s) : s[n] = x
      BY DEF ToSet
    <3>2. n # m
      BY <3>1, <2>2
    <3>3. CASE n < m
      BY <3>1, <3>3, <2>2, <2>6 DEF ToSet
    <3>4. CASE n > m
      <4>1. n - 1 \in 1 .. Len(s) - 1 /\ r[n - 1] = x
        BY <3>1, <3>4, <2>2, <2>6
      <4>. QED  BY <4>1, <2>6 DEF ToSet
    <3>. QED  BY <3>2, <3>3, <3>4, <2>2
  <2>9. Distinct(r)
    <3>1. SUFFICES ASSUME NEW a \in 1 .. Len(s) - 1, NEW b \in 1 .. Len(s) - 1,
                          r[a] = r[b]
                   PROVE  a = b
      BY <2>6 DEF Distinct
    <3>. DEFINE A == IF a < m THEN a ELSE a + 1
                B == IF b < m THEN b ELSE b + 1
    <3>2. A \in 1 .. Len(s) /\ B \in 1 .. Len(s)
      OBVIOUS
    <3>3. r[a] = s[A] /\ r[b] = s[B]
      BY <2>6
    <3>. HIDE DEF A, B
    <3>4. A = B
      BY <3>1, <3>2, <3>3 DEF Distinct
    <3>. QED  BY <3>4, <2>2 DEF A, B
  <2>10. s # <<>> /\ Head(s) # e => r # <<>> /\ Head(r) = Head(s)
    BY <2>2, <2>6
  <2>. QED  BY <2>6, <2>7, <2>8, <2>9, <2>10 DEF r
<1>. QED  BY <1>1, <1>2

\* The empty sequence.
LEMMA EmptyEffect ==
  /\ ToSet(<<>>) = {}
  /\ Distinct(<<>>)
  BY DEF ToSet, Distinct

\* The larger of two numbers.
LEMMA MaxOfTwo ==
  ASSUME NEW a \in Nat, NEW b \in Nat
  PROVE  /\ Max({a, b}) \in Nat
         /\ Max({a, b}) = a \/ Max({a, b}) = b
         /\ Max({a, b}) >= a /\ Max({a, b}) >= b
<1>1. \E x \in {a, b} : \A y \in {a, b} : x >= y
  OBVIOUS
<1>. QED  BY <1>1 DEF Max

\* A function takes no more values than it has arguments.
LEMMA ImageSize ==
  ASSUME NEW S, IsFiniteSet(S), NEW f, f \in [S -> {f[x] : x \in S}]
  PROVE  /\ IsFiniteSet({f[x] : x \in S})
         /\ Cardinality({f[x] : x \in S}) <= Cardinality(S)
<1>1. f \in Surjection(S, {f[x] : x \in S})
  BY DEF Surjection
<1>. QED  BY <1>1, FS_Surjection

\* The number of tasks, of keys and of entries.
LEMMA Sizes ==
  /\ IsFiniteSet(Actor) /\ Cardinality(Actor) = Cardinality(Task) + 1
  /\ Cardinality(Task) \in Nat /\ Cardinality(Key) \in Nat
  /\ IsFiniteSet(Entry)
  /\ Cardinality(Entry) = Cardinality(Key) + 2 * Cardinality(Task) + 1
  /\ Entry \in SUBSET Nat /\ 0 \notin Entry
<1>1. IsFiniteSet(Actor) /\ Cardinality(Actor) = Cardinality(Task) + 1
  BY TaskAssumption, FS_AddElement DEF Actor
<1>2. Cardinality(Task) \in Nat /\ Cardinality(Key) \in Nat
  BY TaskAssumption, FS_CardinalityType
<1>3. PICK n \in Nat : n = Cardinality(Key) + 2 * Cardinality(Task) + 1 /\ n >= 1
  BY <1>2
<1>4. IsFiniteSet(1 .. n) /\ Cardinality(1 .. n) = n
  BY <1>3, FS_Interval
<1>. QED  BY <1>1, <1>2, <1>3, <1>4 DEF Entry

\* The pooled entries are entries, finitely many.
LEMMA PooledTypes ==
  ASSUME TypeOK
  PROVE  /\ Pooled \in SUBSET Entry /\ IsFiniteSet(Pooled)
         /\ Cardinality(Pooled) \in Nat
         /\ \A k \in Key : pool[k] \in Pooled \/ pool[k] = 0
         /\ \A e \in Pooled : \E k \in Key : pool[k] = e
<1>1. Pooled \in SUBSET Entry
  BY DEF TypeOK, Pooled
<1>2. IsFiniteSet(Pooled) /\ Cardinality(Pooled) \in Nat
  BY <1>1, Sizes, FS_Subset, FS_CardinalityType
<1>. QED  BY <1>1, <1>2 DEF Pooled

\* There is always an entry that nothing refers to: the model never runs out of them.
LEMMA FreshEntry ==
  ASSUME CoreInv, NEW t \in Task, cur[t] \in Pooled \cup {0}
  PROVE  /\ Min(Unreferenced) \in Entry
         /\ Min(Unreferenced) \in Unreferenced
<1>. DEFINE K == {pool[k] : k \in Key}
            A == Actor \ {t}
            c == [a \in A |-> cur[a]]
            C == {c[a] : a \in A}
            U == {suspect[u] : u \in Task}
<1>1. IsFiniteSet(K) /\ Cardinality(K) <= Cardinality(Key)
  <2>1. pool \in [Key -> K] /\ IsFiniteSet(Key)
    BY TaskAssumption DEF CoreInv, TypeOK
  <2>. QED  BY <2>1, ImageSize
<1>2. IsFiniteSet(U) /\ Cardinality(U) <= Cardinality(Task)
  <2>1. suspect \in [Task -> U] /\ IsFiniteSet(Task)
    BY TaskAssumption DEF CoreInv, TypeOK
  <2>. QED  BY <2>1, ImageSize
<1>3. IsFiniteSet(C) /\ Cardinality(C) <= Cardinality(Task)
  <2>1. IsFiniteSet(A) /\ Cardinality(A) = Cardinality(Task)
    <3>1. t \in Actor
      BY DEF Actor
    <3>2. IsFiniteSet(A) /\ Cardinality(A) = Cardinality(Actor) - 1
      BY <3>1, Sizes, FS_RemoveElement
    <3>. QED  BY <3>2, Sizes
  <2>2. c \in [A -> C]
    OBVIOUS
  <2>. HIDE DEF A, c
  <2>. QED  BY <2>1, <2>2, ImageSize
<1>. HIDE DEF K, U, C
<1>4. /\ IsFiniteSet(K \cup U \cup C)
      /\ Cardinality(K \cup U \cup C) <= Cardinality(Key) + 2 * Cardinality(Task)
  <2>1. /\ IsFiniteSet(K \cup U)
        /\ Cardinality(K \cup U) = Cardinality(K) + Cardinality(U) - Cardinality(K \cap U)
        /\ Cardinality(K \cap U) \in Nat
    BY <1>1, <1>2, FS_Union, FS_Intersection, FS_CardinalityType
  <2>2. /\ IsFiniteSet(K \cup U \cup C)
        /\ Cardinality(K \cup U \cup C)
             = Cardinality(K \cup U) + Cardinality(C) - Cardinality((K \cup U) \cap C)
        /\ Cardinality((K \cup U) \cap C) \in Nat
    BY <2>1, <1>3, FS_Union, FS_Intersection, FS_CardinalityType
  <2>3. /\ Cardinality(K) \in Nat /\ Cardinality(U) \in Nat /\ Cardinality(C) \in Nat
        /\ Cardinality(K \cup U) \in Nat
    BY <1>1, <1>2, <1>3, <2>1, FS_CardinalityType
  <2>. QED  BY <1>1, <1>2, <1>3, <2>1, <2>2, <2>3, Sizes
<1>5. PICK e \in Entry : e \notin K \cup U \cup C
  <2>1. SUFFICES ASSUME Entry \in SUBSET (K \cup U \cup C)
                 PROVE  FALSE
    OBVIOUS
  <2>2. Cardinality(Entry) <= Cardinality(K \cup U \cup C)
    BY <2>1, <1>4, FS_Subset
  <2>3. Cardinality(K \cup U \cup C) \in Nat
    BY <1>4, FS_CardinalityType
  <2>. QED  BY <2>2, <2>3, <1>4, Sizes
<1>6. e \notin Pooled /\ \A u \in Task : suspect[u] # e
  BY <1>5 DEF K, U, Pooled
<1>7. \A a \in Actor : cur[a] # e
  <2>1. cur[t] # e
    BY <1>6, Sizes
  <2>2. \A a \in A : cur[a] # e
    BY <1>5 DEF C
  <2>. QED  BY <2>1, <2>2
<1>8. Free(e)
  <2>1. holder[e] = None
    BY <1>7 DEF CoreInv, TypeOK, HolderOK, Actor
  <2>2. queue[e] = <<>>
    <3>1. SUFFICES ASSUME queue[e] # <<>>
                   PROVE  FALSE
      OBVIOUS
    <3>2. queue[e] \in Seq(Task) /\ Distinct(queue[e])
      BY DEF CoreInv, TypeOK, QueueOK
    <3>3. Head(queue[e]) \in ToSet(queue[e]) /\ Head(queue[e]) \in Task
      BY <3>1, <3>2, TailEffect
    <3>. QED  BY <3>3, <1>7 DEF CoreInv, QueueOK, Actor
  <2>. QED  BY <2>1, <2>2 DEF Free
<1>9. Unreferenced # {} /\ Unreferenced \in SUBSET Entry
  BY <1>6, <1>7, <1>8 DEF Unreferenced
<1>. QED  BY <1>9, Least, Sizes

\* The victim of an eviction is a pooled entry whose lock is free.
LEMMA VictimUnlocked ==
  ASSUME CoreInv, Unlocked # {}
  PROVE  Victim \in Unlocked /\ Victim \in Pooled
<1>. DEFINE I == {n \in DOMAIN lru : lru[n] \in Unlocked}
<1>1. PICK e \in Unlocked : e \in ToSet(lru)
  BY DEF Unlocked, CoreInv, TypeOK
<1>2. I # {} /\ I \in SUBSET Nat
  BY <1>1 DEF ToSet, CoreInv, TypeOK
<1>3. Min(I) \in I
  BY <1>2, Least
<1>. QED  BY <1>3 DEF Victim, Unlocked

\* A task joins the queue of the registry lock.
LEMMA JoinsRegistry ==
  ASSUME CoreInv, NEW t \in Actor, pc[t] \notin OnRegistry, ToRegistry(t)
  PROVE  reg' \in Seq(Actor) /\ RegistryOK'
<1>1. /\ reg \in Seq(Actor) /\ Distinct(reg) /\ t \notin ToSet(reg)
      /\ reg' = Append(reg, t) /\ reg' \in Seq(Actor)
      /\ pc' = [pc EXCEPT ![t] = "registry"] /\ pc \in [Actor -> Pc]
  BY DEF CoreInv, TypeOK, RegistryOK, ToRegistry, Goto
<1>2. Distinct(reg') /\ ToSet(reg') = ToSet(reg) \cup {t} /\ (reg # <<>> => Head(reg') = Head(reg))
  BY <1>1, AppendEffect
<1>3. \A u \in Actor : pc[u] = "evicting" => reg # <<>>
  BY EmptyEffect DEF CoreInv, RegistryOK, OnRegistry
<1>. QED  BY <1>1, <1>2, <1>3 DEF CoreInv, RegistryOK, OnRegistry

\* A task releases the registry lock.
LEMMA LeavesRegistry ==
  ASSUME CoreInv, NEW t \in Actor, pc[t] \in OnRegistry, Head(reg) = t, reg' = Tail(reg),
         NEW p \in Pc \ OnRegistry, NEW e, Goto(t, p, e)
  PROVE  reg' \in Seq(Actor) /\ RegistryOK'
<1>1. /\ reg \in Seq(Actor) /\ Distinct(reg) /\ t \in ToSet(reg)
      /\ pc' = [pc EXCEPT ![t] = p] /\ pc \in [Actor -> Pc]
  BY DEF CoreInv, TypeOK, RegistryOK, Goto
<1>2. reg # <<>>
  BY <1>1, EmptyEffect
<1>3. reg' \in Seq(Actor) /\ Distinct(reg') /\ ToSet(reg') = ToSet(reg) \ {t}
  BY <1>1, <1>2, TailEffect
<1>4. \A u \in Actor : pc[u] = "evicting" => u = t
  BY DEF CoreInv, RegistryOK
<1>. QED  BY <1>1, <1>3, <1>4 DEF CoreInv, RegistryOK, OnRegistry

\* A task joins the queue of an entry's lock.
LEMMA JoinsQueue ==
  ASSUME CoreInv, NEW t \in Task, NEW e \in Entry, pc[t] \notin Waiting,
         queue' = [queue EXCEPT ![e] = Append(@, t)],
         NEW p \in Waiting, Goto(t, p, e)
  PROVE  queue' \in [Entry -> Seq(Task)] /\ QueueOK'
<1>1. /\ queue \in [Entry -> Seq(Task)] /\ queue[e] \in Seq(Task) /\ Distinct(queue[e])
      /\ t \notin ToSet(queue[e]) /\ t \in Actor
      /\ pc' = [pc EXCEPT ![t] = p] /\ cur' = [cur EXCEPT ![t] = e]
      /\ DOMAIN pc = Actor /\ DOMAIN cur = Actor
  BY DEF CoreInv, TypeOK, QueueOK, Goto, Actor
<1>2. /\ Append(queue[e], t) \in Seq(Task)
      /\ Distinct(Append(queue[e], t))
      /\ ToSet(Append(queue[e], t)) = ToSet(queue[e]) \cup {t}
  BY <1>1, AppendEffect
<1>3. \A x \in Entry : ToSet(queue[x]) \in SUBSET Task
  BY <1>1 DEF ToSet
<1>. QED  BY <1>1, <1>2, <1>3 DEF CoreInv, QueueOK, Actor

\* The first of the queue of an entry's lock is resumed.
LEMMA LeavesQueue ==
  ASSUME CoreInv, NEW t \in Task, cur[t] \in Entry, Turn(t, cur[t]),
         queue' = [queue EXCEPT ![cur[t]] = Tail(@)],
         NEW p, NEW e, Goto(t, p, e)
  PROVE  queue' \in [Entry -> Seq(Task)] /\ QueueOK'
<1>. DEFINE c == cur[t]
<1>1. /\ queue \in [Entry -> Seq(Task)] /\ queue[c] \in Seq(Task) /\ Distinct(queue[c])
      /\ queue[c] # <<>> /\ Head(queue[c]) = t /\ t \in Actor
      /\ pc' = [pc EXCEPT ![t] = p] /\ cur' = [cur EXCEPT ![t] = e]
      /\ DOMAIN pc = Actor /\ DOMAIN cur = Actor
  BY DEF CoreInv, TypeOK, QueueOK, Goto, Turn, Actor
<1>2. /\ Tail(queue[c]) \in Seq(Task)
      /\ Distinct(Tail(queue[c]))
      /\ ToSet(Tail(queue[c])) = ToSet(queue[c]) \ {t}
  BY <1>1, TailEffect
<1>3. \A x \in Entry : ToSet(queue[x]) \in SUBSET Task
  BY <1>1 DEF ToSet
<1>4. \A x \in Entry : x # c => t \notin ToSet(queue[x])
  BY DEF CoreInv, QueueOK
<1>. QED  BY <1>1, <1>2, <1>3, <1>4 DEF CoreInv, QueueOK, Actor

\* A task that waits in no queue moves.
LEMMA KeepsQueues ==
  ASSUME CoreInv, NEW t \in Actor, pc[t] \notin Waiting, queue' = queue,
         NEW p, NEW e, Goto(t, p, e)
  PROVE  queue' \in [Entry -> Seq(Task)] /\ QueueOK'
<1>1. \A x \in Entry : ToSet(queue[x]) \in SUBSET Task
  BY DEF ToSet, CoreInv, TypeOK
<1>. QED  BY <1>1 DEF CoreInv, TypeOK, QueueOK, Goto, Actor

\* The order of use after a wrapper is handed out.
LEMMA Touched ==
  ASSUME CoreInv, NEW e, Touch(e) \/ lru' = lru, pool' = pool
  PROVE  lru' \in Seq(Entry) /\ ToSet(lru') = Pooled' /\ PoolOK'
<1>1. lru \in Seq(Entry) /\ Distinct(lru) /\ ToSet(lru) = Pooled /\ Pooled' = Pooled
  BY DEF CoreInv, TypeOK, PoolOK, Pooled
<1>2. lru' \in Seq(Entry) /\ ToSet(lru') = ToSet(lru) /\ Distinct(lru')
  <2>1. CASE lru' = lru
    BY <1>1, <2>1
  <2>2. CASE Contains(lru, e) /\ lru' = Append(RemoveFirst(lru, e), e)
    <3>1. e \in ToSet(lru) /\ e \in Entry
      BY <2>2, <1>1 DEF Contains, ToSet
    <3>. DEFINE r == RemoveFirst(lru, e)
    <3>2. r \in Seq(Entry) /\ Distinct(r) /\ ToSet(r) = ToSet(lru) \ {e}
      BY <1>1, RemoveEffect
    <3>. HIDE DEF r
    <3>3. /\ Append(r, e) \in Seq(Entry) /\ Distinct(Append(r, e))
          /\ ToSet(Append(r, e)) = ToSet(r) \cup {e}
      BY <3>1, <3>2, AppendEffect
    <3>. QED  BY <2>2, <3>1, <3>2, <3>3 DEF r
  <2>. QED  BY <2>1, <2>2 DEF Touch
<1>. QED  BY <1>1, <1>2 DEF CoreInv, PoolOK

\* The pool without the entry that was dropped.
LEMMA Dropped ==
  ASSUME CoreInv, NEW v \in Entry, Drop(v)
  PROVE  /\ lru' \in Seq(Entry) /\ ToSet(lru') = Pooled' /\ PoolOK'
         /\ Pooled' = Pooled \ {v}
         /\ IsFiniteSet(Pooled') /\ Cardinality(Pooled') <= Cardinality(Pooled)
<1>1. /\ lru \in Seq(Entry) /\ Distinct(lru) /\ ToSet(lru) = Pooled
      /\ pool \in [Key -> Entry \cup {0}]
      /\ pool' = [k \in Key |-> IF pool[k] = v THEN 0 ELSE pool[k]]
  BY DEF CoreInv, TypeOK, PoolOK, Drop
<1>2. Pooled' = Pooled \ {v}
  <2>1. Pooled' \subseteq Pooled \ {v}
    BY <1>1 DEF Pooled
  <2>2. ASSUME NEW x \in Pooled \ {v}
        PROVE  x \in Pooled'
    <3>1. PICK k \in Key : pool[k] = x /\ x # 0 /\ x # v
      BY DEF Pooled
    <3>2. pool'[k] = x
      BY <3>1, <1>1
    <3>. QED  BY <3>1, <3>2 DEF Pooled
  <2>. QED  BY <2>1, <2>2
<1>3. lru' \in Seq(Entry) /\ ToSet(lru') = ToSet(lru) \ {v} /\ Distinct(lru')
  BY <1>1, RemoveEffect DEF Drop
<1>4. PoolOK'
  BY <1>1, <1>3 DEF CoreInv, PoolOK
<1>5. IsFiniteSet(Pooled') /\ Cardinality(Pooled') <= Cardinality(Pooled)
  BY <1>2, PooledTypes, FS_Subset DEF CoreInv
<1>. QED  BY <1>1, <1>2, <1>3, <1>4, <1>5

\* The bound holds as long as the pool does not grow.
LEMMA BoundKept ==
  ASSUME CoreInv, Cardinality(Pooled') \in Nat, Cardinality(Pooled') <= Cardinality(Pooled),
         peak' \in Nat, peak <= peak'
  PROVE  PoolBounded'
<1>1. peak \in Nat /\ Cardinality(Pooled) \in Nat /\ Cardinality(Pooled) <= Max({MaxSize, peak})
  BY PooledTypes DEF CoreInv, TypeOK, PoolBounded
<1>2. /\ Max({MaxSize, peak}) <= Max({MaxSize, peak'})
      /\ Max({MaxSize, peak}) \in Nat /\ Max({MaxSize, peak'}) \in Nat
  BY <1>1, MaxOfTwo, SizeAssumption
<1>3. Cardinality(Pooled') <= Max({MaxSize, peak'})
  BY <1>1, <1>2
<1>. QED  BY <1>3 DEF PoolBounded

\* The set of calls under way is finite.
LEMMA InFlightFinite == IsFiniteSet(InFlight) /\ Cardinality(InFlight) \in Nat
<1>1. InFlight \in SUBSET Task
  BY DEF InFlight
<1>. QED  BY <1>1, TaskAssumption, FS_Subset, FS_CardinalityType

\* A step that begins no call.
LEMMA PeakKept ==
  ASSUME TypeOK, PeakOK, peak' = peak,
         \A t \in Task : pc'[t] # "idle" => pc[t] # "idle"
  PROVE  PeakOK'
<1>1. InFlight' \in SUBSET InFlight
  BY DEF InFlight
<1>2. Cardinality(InFlight') \in Nat /\ Cardinality(InFlight') <= Cardinality(InFlight)
  BY <1>1, InFlightFinite, FS_Subset, FS_CardinalityType
<1>. QED  BY <1>2, InFlightFinite DEF PeakOK, TypeOK

\* A call begins: the number of calls under way is counted.
LEMMA PeakRises ==
  ASSUME NEW t \in Task, NEW k \in Key, TypeOK, PeakOK, Call(t, k)
  PROVE  peak' \in Nat /\ peak <= peak' /\ PeakOK'
<1>. DEFINE C == InFlight \cup {t}
<1>1. C \in SUBSET Task /\ InFlight' \in SUBSET C
  <2>1. pc' = [pc EXCEPT ![t] = "registry"] /\ pc \in [Actor -> Pc]
    BY DEF Call, ToRegistry, Goto, TypeOK
  <2>. QED  BY <2>1 DEF InFlight, Actor
<1>2. IsFiniteSet(C) /\ Cardinality(C) \in Nat
  BY <1>1, TaskAssumption, FS_Subset, FS_CardinalityType
<1>3. Cardinality(InFlight') \in Nat /\ Cardinality(InFlight') <= Cardinality(C)
  BY <1>1, <1>2, FS_Subset, FS_CardinalityType
<1>4. peak' = Max({peak, Cardinality(C)}) /\ peak \in Nat
  BY DEF Call, TypeOK
<1>. HIDE DEF C
<1>5. peak' \in Nat /\ peak <= peak' /\ Cardinality(C) <= peak'
  BY <1>2, <1>4, MaxOfTwo
<1>. QED  BY <1>2, <1>3, <1>5 DEF PeakOK

-----------------------------------------------------------------------------
(***************************************************************************)
(* Steps, in the order of the module.                                          *)
(***************************************************************************)

\* A call begins.
LEMMA CallStep ==
  ASSUME NEW t \in Task, NEW k \in Key, CoreInv, PeakOK, Call(t, k)
  PROVE  CoreInv'
<1>1. TypeOK'
  <2>1. reg' \in Seq(Actor)
    BY JoinsRegistry DEF CoreInv, Call, ToRegistry, Goto, entryVars, countVars, TypeOK,
           TaskOK, Actor, UnderLock, Waiting, Pc, AtEntry, Breaking, OnRegistry
  <2>2. queue' \in [Entry -> Seq(Task)]
    BY KeepsQueues DEF CoreInv, Call, ToRegistry, Goto, entryVars, countVars, TypeOK,
           TaskOK, Actor, UnderLock, Waiting, Pc, AtEntry, Breaking, OnRegistry
  <2>3. lru' \in Seq(Entry) /\ ToSet(lru') = Pooled'
    BY DEF CoreInv, Call, ToRegistry, Goto, entryVars, countVars, TypeOK, Pooled
  <2>4. /\ pool' \in [Key -> Entry \cup {0}]
        /\ connected' \in [Entry -> BOOLEAN]
        /\ session' \in [Entry -> {"none", "ok", "lost", "met"}]
        /\ holder' \in [Entry -> Task \cup {None}]
    BY DEF CoreInv, Call, ToRegistry, Goto, entryVars, countVars, TypeOK, TaskOK, Actor
  <2>5. /\ pc' \in [Actor -> Pc]
        /\ cur' \in [Actor -> Entry \cup {0}]
        /\ key' \in [Task -> Key \cup {None}]
        /\ attempt' \in [Task -> {1, 2}]
        /\ suspect' \in [Task -> Entry \cup {0}]
    BY DEF CoreInv, Call, ToRegistry, Goto, entryVars, countVars, TypeOK, TaskOK, Actor,
           UnderLock, Waiting, Pc, AtEntry, Breaking, OnRegistry
  <2>6. /\ calls' \in [Task -> 0 .. MaxCalls] /\ sweeps' \in 0 .. MaxSweeps
        /\ idle' \in SUBSET Entry /\ closed' \in BOOLEAN /\ peak' \in Nat
    <3>1. peak' \in Nat
      BY PeakRises DEF CoreInv
    <3>. QED  BY <3>1, SizeAssumption DEF CoreInv, Call, entryVars, TypeOK
  <2>. QED  BY <2>1, <2>2, <2>3, <2>4, <2>5, <2>6 DEF TypeOK
<1>2. TaskOK'
  BY Sizes, TaskAssumption DEF CoreInv, Call, ToRegistry, Goto, entryVars, countVars,
         TypeOK, TaskOK, Actor, UnderLock, Waiting, Pc, AtEntry, Breaking, OnRegistry
<1>3. RegistryOK'
  BY JoinsRegistry DEF CoreInv, Call, ToRegistry, Goto, entryVars, countVars, TypeOK,
         RegistryOK, Actor, UnderLock, Waiting, Pc, AtEntry, Breaking, OnRegistry
<1>4. HolderOK'
  BY TaskAssumption DEF CoreInv, Call, ToRegistry, Goto, entryVars, countVars, TypeOK,
         TaskOK, HolderOK, Actor, UnderLock, Waiting, Pc, AtEntry, Breaking, OnRegistry
<1>5. QueueOK'
  BY KeepsQueues DEF CoreInv, Call, ToRegistry, Goto, entryVars, countVars, TypeOK,
         QueueOK, Actor, UnderLock, Waiting, Pc, AtEntry, Breaking, OnRegistry
<1>6. PoolOK'
  BY DEF CoreInv, Call, ToRegistry, Goto, entryVars, countVars, TypeOK, PoolOK
<1>7. SessionOK'
  BY DEF CoreInv, Call, ToRegistry, Goto, entryVars, countVars, TypeOK, SessionOK,
         TaskOK, UnderLock, Waiting, Pc, AtEntry, Breaking, OnRegistry
<1>8. OwnKeyOK'
  BY TaskAssumption DEF CoreInv, Call, ToRegistry, Goto, entryVars, countVars, TypeOK,
         OwnKeyOK, TaskOK, PoolOK, Actor, UnderLock, Waiting, Pc, AtEntry, Breaking,
         OnRegistry
<1>9. EvictOK'
  BY TaskAssumption DEF CoreInv, Call, ToRegistry, Goto, entryVars, countVars, TypeOK,
         EvictOK, TaskOK, Actor, Pooled, UnderLock, Waiting, Pc, AtEntry, Breaking,
         OnRegistry
<1>10. RetryOK'
  BY TaskAssumption DEF CoreInv, Call, ToRegistry, Goto, entryVars, countVars, TypeOK,
         RetryOK, TaskOK, OwnKeyOK, SessionOK, Actor, Pooled, UnderLock, Waiting, Pc,
         AtEntry, Breaking, OnRegistry
<1>11. PoolBounded'
  <2>1. Pooled' = Pooled /\ Cardinality(Pooled) \in Nat
    BY PooledTypes DEF CoreInv, Call, entryVars, Pooled
  <2>2. peak' \in Nat /\ peak <= peak'
    BY PeakRises DEF CoreInv
  <2>. QED  BY <2>1, <2>2, BoundKept
<1>. QED  BY <1>1, <1>2, <1>3, <1>4, <1>5, <1>6, <1>7, <1>8, <1>9, <1>10, <1>11 DEF CoreInv

\* The entry exists and its lock is free.
LEMMA LookupFreeStep ==
  ASSUME NEW t \in Task, NEW e \in Entry, CoreInv, NEW p \in {"calling", "connecting"},
         AtRegistry(t), e = pool[key[t]], reg' = Tail(reg), Free(e),
         holder' = [holder EXCEPT ![e] = t], Goto(t, p, e), Touch(e) \/ lru' = lru,
         UNCHANGED <<queue, pool, connected, session, key, attempt, calls, suspect,
                     closed, countVars>>
  PROVE  CoreInv'
<1>1. TypeOK'
  <2>1. reg' \in Seq(Actor)
    BY LeavesRegistry DEF CoreInv, AtRegistry, Goto, Free, entryVars, countVars, TypeOK,
           TaskOK, Actor, UnderLock, Waiting, Pc, AtEntry, Breaking, OnRegistry
  <2>2. queue' \in [Entry -> Seq(Task)]
    BY KeepsQueues DEF CoreInv, AtRegistry, Goto, Free, entryVars, countVars, TypeOK,
           TaskOK, Actor, UnderLock, Waiting, Pc, AtEntry, Breaking, OnRegistry
  <2>3. lru' \in Seq(Entry) /\ ToSet(lru') = Pooled'
    BY Touched DEF CoreInv, AtRegistry, Goto, Free, entryVars, countVars, TypeOK, Pooled
  <2>4. /\ pool' \in [Key -> Entry \cup {0}]
        /\ connected' \in [Entry -> BOOLEAN]
        /\ session' \in [Entry -> {"none", "ok", "lost", "met"}]
        /\ holder' \in [Entry -> Task \cup {None}]
    BY DEF CoreInv, AtRegistry, Goto, Free, entryVars, countVars, TypeOK, TaskOK, Actor
  <2>5. /\ pc' \in [Actor -> Pc]
        /\ cur' \in [Actor -> Entry \cup {0}]
        /\ key' \in [Task -> Key \cup {None}]
        /\ attempt' \in [Task -> {1, 2}]
        /\ suspect' \in [Task -> Entry \cup {0}]
    BY DEF CoreInv, AtRegistry, Goto, Free, entryVars, countVars, TypeOK, TaskOK, Actor,
           UnderLock, Waiting, Pc, AtEntry, Breaking, OnRegistry
  <2>6. /\ calls' \in [Task -> 0 .. MaxCalls] /\ sweeps' \in 0 .. MaxSweeps
        /\ idle' \in SUBSET Entry /\ closed' \in BOOLEAN /\ peak' \in Nat
    BY SizeAssumption DEF CoreInv, entryVars, countVars, TypeOK
  <2>. QED  BY <2>1, <2>2, <2>3, <2>4, <2>5, <2>6 DEF TypeOK
<1>2. TaskOK'
  BY Sizes, TaskAssumption DEF CoreInv, AtRegistry, Goto, Free, entryVars, countVars,
         TypeOK, TaskOK, Actor, UnderLock, Waiting, Pc, AtEntry, Breaking, OnRegistry
<1>3. RegistryOK'
  BY LeavesRegistry DEF CoreInv, AtRegistry, Goto, Free, entryVars, countVars, TypeOK,
         RegistryOK, Actor, UnderLock, Waiting, Pc, AtEntry, Breaking, OnRegistry
<1>4. HolderOK'
  BY TaskAssumption DEF CoreInv, AtRegistry, Goto, Free, entryVars, countVars, TypeOK,
         TaskOK, HolderOK, Actor, UnderLock, Waiting, Pc, AtEntry, Breaking, OnRegistry
<1>5. QueueOK'
  BY KeepsQueues DEF CoreInv, AtRegistry, Goto, Free, entryVars, countVars, TypeOK,
         QueueOK, Actor, UnderLock, Waiting, Pc, AtEntry, Breaking, OnRegistry
<1>6. PoolOK'
  BY Touched DEF CoreInv, AtRegistry, Goto, Free, entryVars, countVars, TypeOK, PoolOK
<1>7. SessionOK'
  BY DEF CoreInv, AtRegistry, Goto, Free, entryVars, countVars, TypeOK, SessionOK,
         TaskOK, UnderLock, Waiting, Pc, AtEntry, Breaking, OnRegistry
<1>8. OwnKeyOK'
  <2>1. \A k \in Key : pool[k] = e => k = key[t]
    BY Sizes DEF CoreInv, TaskOK, AtRegistry, PoolOK
  <2>. QED  BY <2>1 DEF CoreInv, TypeOK, OwnKeyOK, Goto, Actor, AtEntry
<1>9. EvictOK'
  BY TaskAssumption DEF CoreInv, AtRegistry, Goto, Free, entryVars, countVars, TypeOK,
         EvictOK, TaskOK, Actor, Pooled, UnderLock, Waiting, Pc, AtEntry, Breaking,
         OnRegistry
<1>10. RetryOK'
  BY TaskAssumption DEF CoreInv, AtRegistry, Goto, Free, entryVars, countVars, TypeOK,
         RetryOK, TaskOK, OwnKeyOK, SessionOK, Actor, Pooled, UnderLock, Waiting, Pc,
         AtEntry, Breaking, OnRegistry
<1>11. PoolBounded'
  BY DEF CoreInv, AtRegistry, Goto, Free, entryVars, countVars, PoolBounded, Pooled
<1>. QED  BY <1>1, <1>2, <1>3, <1>4, <1>5, <1>6, <1>7, <1>8, <1>9, <1>10, <1>11 DEF CoreInv

\* The entry exists and its lock is taken.
LEMMA LookupLockedStep ==
  ASSUME NEW t \in Task, NEW e \in Entry, CoreInv, AtRegistry(t), e = pool[key[t]],
         reg' = Tail(reg),
         queue' = [queue EXCEPT ![e] = Append(@, t)], Goto(t, "lock", e),
         UNCHANGED <<holder, lru, pool, connected, session, key, attempt, calls, suspect,
                     closed, countVars>>
  PROVE  CoreInv'
<1>1. TypeOK'
  <2>1. reg' \in Seq(Actor)
    BY LeavesRegistry DEF CoreInv, AtRegistry, Goto, Free, entryVars, countVars, TypeOK,
           TaskOK, Actor, UnderLock, Waiting, Pc, AtEntry, Breaking, OnRegistry
  <2>2. queue' \in [Entry -> Seq(Task)]
    BY JoinsQueue DEF CoreInv, AtRegistry, Goto, Free, entryVars, countVars, TypeOK,
           TaskOK, Actor, UnderLock, Waiting, Pc, AtEntry, Breaking, OnRegistry
  <2>3. lru' \in Seq(Entry) /\ ToSet(lru') = Pooled'
    BY DEF CoreInv, AtRegistry, Goto, Free, entryVars, countVars, TypeOK, Pooled
  <2>4. /\ pool' \in [Key -> Entry \cup {0}]
        /\ connected' \in [Entry -> BOOLEAN]
        /\ session' \in [Entry -> {"none", "ok", "lost", "met"}]
        /\ holder' \in [Entry -> Task \cup {None}]
    BY DEF CoreInv, AtRegistry, Goto, Free, entryVars, countVars, TypeOK, TaskOK, Actor
  <2>5. /\ pc' \in [Actor -> Pc]
        /\ cur' \in [Actor -> Entry \cup {0}]
        /\ key' \in [Task -> Key \cup {None}]
        /\ attempt' \in [Task -> {1, 2}]
        /\ suspect' \in [Task -> Entry \cup {0}]
    BY DEF CoreInv, AtRegistry, Goto, Free, entryVars, countVars, TypeOK, TaskOK, Actor,
           UnderLock, Waiting, Pc, AtEntry, Breaking, OnRegistry
  <2>6. /\ calls' \in [Task -> 0 .. MaxCalls] /\ sweeps' \in 0 .. MaxSweeps
        /\ idle' \in SUBSET Entry /\ closed' \in BOOLEAN /\ peak' \in Nat
    BY SizeAssumption DEF CoreInv, entryVars, countVars, TypeOK
  <2>. QED  BY <2>1, <2>2, <2>3, <2>4, <2>5, <2>6 DEF TypeOK
<1>2. TaskOK'
  BY Sizes, TaskAssumption DEF CoreInv, AtRegistry, Goto, Free, entryVars, countVars,
         TypeOK, TaskOK, Actor, UnderLock, Waiting, Pc, AtEntry, Breaking, OnRegistry
<1>3. RegistryOK'
  BY LeavesRegistry DEF CoreInv, AtRegistry, Goto, Free, entryVars, countVars, TypeOK,
         RegistryOK, Actor, UnderLock, Waiting, Pc, AtEntry, Breaking, OnRegistry
<1>4. HolderOK'
  BY TaskAssumption DEF CoreInv, AtRegistry, Goto, Free, entryVars, countVars, TypeOK,
         TaskOK, HolderOK, Actor, UnderLock, Waiting, Pc, AtEntry, Breaking, OnRegistry
<1>5. QueueOK'
  BY JoinsQueue DEF CoreInv, AtRegistry, Goto, Free, entryVars, countVars, TypeOK,
         QueueOK, Actor, UnderLock, Waiting, Pc, AtEntry, Breaking, OnRegistry
<1>6. PoolOK'
  BY DEF CoreInv, AtRegistry, Goto, Free, entryVars, countVars, TypeOK, PoolOK
<1>7. SessionOK'
  BY DEF CoreInv, AtRegistry, Goto, Free, entryVars, countVars, TypeOK, SessionOK,
         TaskOK, UnderLock, Waiting, Pc, AtEntry, Breaking, OnRegistry
<1>8. OwnKeyOK'
  <2>1. \A k \in Key : pool[k] = e => k = key[t]
    BY Sizes DEF CoreInv, TaskOK, AtRegistry, PoolOK
  <2>. QED  BY <2>1 DEF CoreInv, TypeOK, OwnKeyOK, Goto, Actor, AtEntry
<1>9. EvictOK'
  BY TaskAssumption DEF CoreInv, AtRegistry, Goto, Free, entryVars, countVars, TypeOK,
         EvictOK, TaskOK, Actor, Pooled, UnderLock, Waiting, Pc, AtEntry, Breaking,
         OnRegistry
<1>10. RetryOK'
  BY TaskAssumption DEF CoreInv, AtRegistry, Goto, Free, entryVars, countVars, TypeOK,
         RetryOK, TaskOK, OwnKeyOK, SessionOK, Actor, Pooled, UnderLock, Waiting, Pc,
         AtEntry, Breaking, OnRegistry
<1>11. PoolBounded'
  BY DEF CoreInv, AtRegistry, Goto, Free, entryVars, countVars, PoolBounded, Pooled
<1>. QED  BY <1>1, <1>2, <1>3, <1>4, <1>5, <1>6, <1>7, <1>8, <1>9, <1>10, <1>11 DEF CoreInv

\* The disconnect of a victim begins.
LEMMA EvictStartStep ==
  ASSUME NEW t \in Task, CoreInv, EvictStart(t)
  PROVE  CoreInv'
<1>1. TypeOK'
  <2>1. reg' \in Seq(Actor)
    BY DEF CoreInv, EvictStart, AtRegistry, Goto, MustDisconnect, MustEvict, entryVars,
           countVars, TypeOK, TaskOK, Actor, UnderLock, Waiting, Pc, AtEntry, Breaking,
           OnRegistry
  <2>2. queue' \in [Entry -> Seq(Task)]
    BY KeepsQueues DEF CoreInv, EvictStart, AtRegistry, Goto, MustDisconnect, MustEvict,
           entryVars, countVars, TypeOK, TaskOK, Actor, UnderLock, Waiting, Pc, AtEntry,
           Breaking, OnRegistry
  <2>3. lru' \in Seq(Entry) /\ ToSet(lru') = Pooled'
    BY DEF CoreInv, EvictStart, AtRegistry, Goto, MustDisconnect, MustEvict, entryVars,
           countVars, TypeOK, Pooled
  <2>4. /\ pool' \in [Key -> Entry \cup {0}]
        /\ connected' \in [Entry -> BOOLEAN]
        /\ session' \in [Entry -> {"none", "ok", "lost", "met"}]
        /\ holder' \in [Entry -> Task \cup {None}]
    BY DEF CoreInv, EvictStart, AtRegistry, Goto, MustDisconnect, MustEvict, entryVars,
           countVars, TypeOK, TaskOK, Actor
  <2>5. /\ pc' \in [Actor -> Pc]
        /\ cur' \in [Actor -> Entry \cup {0}]
        /\ key' \in [Task -> Key \cup {None}]
        /\ attempt' \in [Task -> {1, 2}]
        /\ suspect' \in [Task -> Entry \cup {0}]
    <3>1. Victim \in Entry
      BY VictimUnlocked, PooledTypes DEF CoreInv, EvictStart, MustDisconnect, MustEvict
    <3>. QED  BY <3>1 DEF CoreInv, EvictStart, Goto, TypeOK, Actor, Pc
  <2>6. /\ calls' \in [Task -> 0 .. MaxCalls] /\ sweeps' \in 0 .. MaxSweeps
        /\ idle' \in SUBSET Entry /\ closed' \in BOOLEAN /\ peak' \in Nat
    BY SizeAssumption DEF CoreInv, EvictStart, entryVars, countVars, TypeOK
  <2>. QED  BY <2>1, <2>2, <2>3, <2>4, <2>5, <2>6 DEF TypeOK
<1>2. TaskOK'
  <2>1. Victim # 0
    BY VictimUnlocked, PooledTypes, Sizes
       DEF CoreInv, EvictStart, MustDisconnect, MustEvict
  <2>. QED  BY <2>1, TaskAssumption
            DEF CoreInv, EvictStart, AtRegistry, Goto, TypeOK, TaskOK, Actor
<1>3. RegistryOK'
  BY DEF CoreInv, EvictStart, AtRegistry, Goto, MustDisconnect, MustEvict, entryVars,
         countVars, TypeOK, RegistryOK, Actor, UnderLock, Waiting, Pc, AtEntry,
         Breaking, OnRegistry
<1>4. HolderOK'
  BY TaskAssumption DEF CoreInv, EvictStart, AtRegistry, Goto, MustDisconnect, MustEvict,
         entryVars, countVars, TypeOK, TaskOK, HolderOK, Actor, UnderLock, Waiting, Pc,
         AtEntry, Breaking, OnRegistry
<1>5. QueueOK'
  BY KeepsQueues DEF CoreInv, EvictStart, AtRegistry, Goto, MustDisconnect, MustEvict,
         entryVars, countVars, TypeOK, QueueOK, Actor, UnderLock, Waiting, Pc, AtEntry,
         Breaking, OnRegistry
<1>6. PoolOK'
  BY DEF CoreInv, EvictStart, AtRegistry, Goto, MustDisconnect, MustEvict, entryVars,
         countVars, TypeOK, PoolOK
<1>7. SessionOK'
  BY DEF CoreInv, EvictStart, AtRegistry, Goto, MustDisconnect, MustEvict, entryVars,
         countVars, TypeOK, SessionOK, TaskOK, UnderLock, Waiting, Pc, AtEntry,
         Breaking, OnRegistry
<1>8. OwnKeyOK'
  BY TaskAssumption DEF CoreInv, EvictStart, AtRegistry, Goto, MustDisconnect, MustEvict,
         entryVars, countVars, TypeOK, OwnKeyOK, TaskOK, PoolOK, Actor, UnderLock,
         Waiting, Pc, AtEntry, Breaking, OnRegistry
<1>9. EvictOK'
  <2>1. Victim \in Pooled /\ pool' = pool /\ Pooled' = Pooled
    BY VictimUnlocked DEF CoreInv, EvictStart, MustDisconnect, MustEvict, entryVars, Pooled
  <2>. QED  BY <2>1 DEF CoreInv, EvictStart, AtRegistry, Goto, TypeOK, EvictOK, Actor
<1>10. RetryOK'
  BY TaskAssumption DEF CoreInv, EvictStart, AtRegistry, Goto, MustDisconnect, MustEvict,
         entryVars, countVars, TypeOK, RetryOK, TaskOK, OwnKeyOK, SessionOK, Actor,
         Pooled, UnderLock, Waiting, Pc, AtEntry, Breaking, OnRegistry
<1>11. PoolBounded'
  BY DEF CoreInv, EvictStart, AtRegistry, Goto, MustDisconnect, MustEvict, entryVars,
         countVars, PoolBounded, Pooled
<1>. QED  BY <1>1, <1>2, <1>3, <1>4, <1>5, <1>6, <1>7, <1>8, <1>9, <1>10, <1>11 DEF CoreInv

\* A new entry is added to the pool, in the place of v or of nobody.
LEMMA CreateStep ==
  ASSUME NEW t \in Task, NEW v \in Pooled \cup {0}, CoreInv, PeakOK, Create(t, v),
         pc[t] \in OnRegistry, Head(reg) = t, cur[t] \in {0, v}, pool[key[t]] = 0,
         v # 0 \/ Cardinality(Pooled) < MaxSize \/ Unlocked = {}
  PROVE  CoreInv'
<1>. DEFINE e == Min(Unreferenced)
<1>1. /\ e \in Entry /\ e \notin Pooled /\ e # 0
      /\ holder[e] = None /\ queue[e] = <<>>
      /\ \A a \in Actor : cur[a] # e
      /\ \A u \in Task : suspect[u] # e
  BY FreshEntry, Sizes DEF Unreferenced, Free
<1>2. /\ pool' = [k \in Key |-> IF k = key[t] THEN e ELSE IF pool[k] = v THEN 0 ELSE pool[k]]
      /\ lru' = Append(RemoveFirst(lru, v), e)
      /\ connected' = [x \in Entry |-> connected[x] /\ x \notin {e, v}]
      /\ session' = [x \in Entry |-> IF x \in {e, v} THEN "none" ELSE session[x]]
      /\ holder' = [holder EXCEPT ![e] = t]
      /\ reg' = Tail(reg)
      /\ Goto(t, "connecting", e)
      /\ UNCHANGED <<queue, key, attempt, calls, suspect, closed, idle, sweeps, peak>>
  BY DEF Create, countVars
<1>. HIDE DEF e
<1>3. /\ t \in Actor /\ key[t] \in Key /\ calls[t] > 0
      /\ pc[t] \notin UnderLock /\ pc[t] \notin Waiting
  BY DEF CoreInv, TaskOK, Actor, OnRegistry, UnderLock, Waiting
<1>4. /\ pc' = [pc EXCEPT ![t] = "connecting"] /\ cur' = [cur EXCEPT ![t] = e]
      /\ pc \in [Actor -> Pc] /\ cur \in [Actor -> Entry \cup {0}]
  BY <1>2 DEF Goto, CoreInv, TypeOK
<1>5. /\ pool \in [Key -> Entry \cup {0}] /\ v \in Entry \cup {0}
      /\ Pooled \in SUBSET Entry
  BY PooledTypes DEF CoreInv, TypeOK
<1>6. Pooled' = (Pooled \ {v}) \cup {e}
  <2>1. Pooled' \subseteq (Pooled \ {v}) \cup {e}
    BY <1>2 DEF Pooled
  <2>2. e \in Pooled'
    <3>1. pool'[key[t]] = e
      BY <1>2, <1>3
    <3>. QED  BY <3>1, <1>1, <1>3 DEF Pooled
  <2>3. ASSUME NEW x \in Pooled, x # v
        PROVE  x \in Pooled'
    <3>1. PICK k \in Key : pool[k] = x /\ x # 0
      BY DEF Pooled
    <3>2. pool'[k] = x
      BY <3>1, <2>3, <1>2
    <3>. QED  BY <3>1, <3>2 DEF Pooled
  <2>. QED  BY <2>1, <2>2, <2>3
<1>7. lru' \in Seq(Entry) /\ ToSet(lru') = Pooled' /\ Distinct(lru')
  <2>. DEFINE r == RemoveFirst(lru, v)
  <2>1. lru \in Seq(Entry) /\ Distinct(lru) /\ ToSet(lru) = Pooled
    BY DEF CoreInv, TypeOK, PoolOK
  <2>2. r \in Seq(Entry) /\ Distinct(r) /\ ToSet(r) = Pooled \ {v}
    BY <2>1, RemoveEffect
  <2>. HIDE DEF r
  <2>3. /\ Append(r, e) \in Seq(Entry) /\ Distinct(Append(r, e))
        /\ ToSet(Append(r, e)) = ToSet(r) \cup {e}
    BY <1>1, <2>2, AppendEffect
  <2>. QED  BY <2>2, <2>3, <1>2, <1>6 DEF r
<1>8. reg' \in Seq(Actor) /\ RegistryOK'
  BY <1>2, <1>3, LeavesRegistry DEF Pc, UnderLock, OnRegistry
<1>9. queue' \in [Entry -> Seq(Task)] /\ QueueOK'
  BY <1>2, <1>3, KeepsQueues
<1>10. \A u \in Actor : u # t => pc[u] # "evicting"
  BY DEF CoreInv, RegistryOK
<1>11. TypeOK'
  <2>1. /\ pool' \in [Key -> Entry \cup {0}]
        /\ connected' \in [Entry -> BOOLEAN]
        /\ session' \in [Entry -> {"none", "ok", "lost", "met"}]
        /\ holder' \in [Entry -> Task \cup {None}]
    BY <1>1, <1>2, <1>5 DEF CoreInv, TypeOK
  <2>2. pc' \in [Actor -> Pc] /\ cur' \in [Actor -> Entry \cup {0}]
    BY <1>1, <1>4 DEF Pc, UnderLock
  <2>. QED  BY <1>2, <1>7, <1>8, <1>9, <2>1, <2>2 DEF CoreInv, TypeOK
<1>12. TaskOK'
  BY <1>1, <1>2, <1>3, <1>4, TaskAssumption DEF CoreInv, TaskOK, Actor
<1>13. HolderOK'
  <2>1. \A u \in Task : pc[u] \in Pc /\ u \in Actor /\ cur[u] # e
    BY <1>1, <1>4 DEF Actor
  <2>. QED  BY <1>1, <1>2, <1>3, <1>4, <2>1, TaskAssumption
            DEF CoreInv, TypeOK, HolderOK, UnderLock
<1>14. PoolOK'
  <2>1. \A k \in Key : pool[k] # e
    BY <1>1, PooledTypes DEF CoreInv
  <2>. QED  BY <1>1, <1>2, <1>3, <1>5, <1>7, <2>1 DEF CoreInv, PoolOK
<1>15. SessionOK'
  BY <1>2 DEF CoreInv, SessionOK
<1>16. OwnKeyOK'
  <2>1. ASSUME NEW u \in Task, pc'[u] \in AtEntry, NEW k \in Key, pool'[k] = cur'[u]
        PROVE  k = key'[u]
    <3>1. u \in Actor /\ cur'[u] # 0
      BY <2>1, <1>12 DEF TaskOK, AtEntry, Actor
    <3>2. CASE u = t
      <4>1. pool'[k] = e /\ pool[k] # e
        BY <2>1, <3>1, <3>2, <1>1, <1>4, PooledTypes DEF CoreInv
      <4>. QED  BY <4>1, <3>2, <1>1, <1>2
    <3>3. CASE u # t
      <4>1. cur'[u] = cur[u] /\ pc'[u] = pc[u] /\ cur[u] # e
        BY <3>1, <3>3, <1>1, <1>4
      <4>2. pool[k] = cur[u]
        BY <2>1, <3>1, <4>1, <1>2
      <4>. QED  BY <2>1, <4>1, <4>2, <1>2 DEF CoreInv, OwnKeyOK
    <3>. QED  BY <3>2, <3>3
  <2>. QED  BY <2>1 DEF OwnKeyOK
<1>17. EvictOK'
  BY <1>4, <1>10 DEF EvictOK, Actor
<1>18. RetryOK'
  <2>1. ASSUME NEW u \in Task, suspect'[u] # 0
        PROVE  /\ pc'[u] \in Breaking => \/ suspect'[u] = cur'[u]
                                         \/ suspect'[u] \notin Pooled'
               /\ pc'[u] \in OnRegistry => \/ session'[suspect'[u]] = "none"
                                           \/ suspect'[u] \notin Pooled'
               /\ pc'[u] \in AtEntry /\ suspect'[u] = cur'[u]
                    => session'[suspect'[u]] = "none"
    <3>1. /\ suspect'[u] = suspect[u] /\ suspect[u] # e /\ suspect[u] \in Entry /\ u \in Actor
          /\ session[suspect[u]] = "none" => session'[suspect[u]] = "none"
      BY <2>1, <1>1, <1>2 DEF CoreInv, TypeOK, Actor
    <3>2. CASE u = t
      BY <3>1, <3>2, <1>4 DEF Breaking, OnRegistry, AtEntry
    <3>3. CASE u # t
      BY <2>1, <3>1, <3>3, <1>4, <1>6 DEF CoreInv, RetryOK
    <3>. QED  BY <3>2, <3>3
  <2>. QED  BY <2>1 DEF RetryOK
<1>19. PoolBounded'
  <2>0. peak \in Nat /\ Cardinality(InFlight) <= peak
    BY DEF CoreInv, TypeOK, PeakOK
  <2>1. IsFiniteSet(Pooled) /\ Cardinality(Pooled) \in Nat
    BY PooledTypes DEF CoreInv
  <2>2. CASE v # 0
    <3>1. IsFiniteSet(Pooled \ {v}) /\ Cardinality(Pooled \ {v}) = Cardinality(Pooled) - 1
      BY <2>1, <2>2, FS_RemoveElement
    <3>2. Cardinality(Pooled') = Cardinality(Pooled)
      <4>1. e \notin Pooled \ {v}
        BY <1>1
      <4>2. Cardinality((Pooled \ {v}) \cup {e}) = Cardinality(Pooled \ {v}) + 1
        BY <3>1, <4>1, FS_AddElement
      <4>. QED  BY <3>1, <4>2, <2>1, <1>6
    <3>. QED  BY <3>2, <2>1, <1>2, BoundKept DEF CoreInv, TypeOK
  <2>3. CASE v = 0
    <3>1. Pooled' = Pooled \cup {e}
      BY <2>3, <1>5, <1>6, Sizes
    <3>2. Cardinality(Pooled') = Cardinality(Pooled) + 1
      BY <2>1, <3>1, <1>1, FS_AddElement
    <3>3. IsFiniteSet(InFlight) /\ Cardinality(InFlight) \in Nat
      BY InFlightFinite
    <3>4. CASE Cardinality(Pooled) < MaxSize
      <4>1. Cardinality(Pooled') <= Max({MaxSize, peak})
        BY <3>2, <3>4, <2>1, <2>0, MaxOfTwo, SizeAssumption
      <4>. QED  BY <4>1, <1>2 DEF PoolBounded
    <3>5. CASE Unlocked = {}
      <4>. DEFINE h == [x \in Pooled |-> holder[x]]
      <4>1. \A x \in Pooled : /\ holder[x] \in InFlight \ {t} /\ holder[x] \in Actor
                              /\ cur[holder[x]] = x
        <5>1. ASSUME NEW x \in Pooled
              PROVE  /\ holder[x] \in InFlight \ {t} /\ holder[x] \in Actor
                     /\ cur[holder[x]] = x
          <6>1. x \in Entry /\ holder[x] \in Task
            BY <3>5, <1>5 DEF Unlocked, CoreInv, TypeOK
          <6>2. cur[holder[x]] = x /\ pc[holder[x]] \in UnderLock
            BY <6>1 DEF CoreInv, HolderOK
          <6>. QED  BY <6>1, <6>2, <1>3 DEF CoreInv, TaskOK, Actor, UnderLock, InFlight
        <5>. QED  BY <5>1
      <4>2. h \in Injection(Pooled, InFlight \ {t})
        BY <4>1 DEF Injection, IsInjective
      <4>3. IsFiniteSet(InFlight \ {t}) /\ Cardinality(InFlight \ {t}) = Cardinality(InFlight) - 1
        <5>1. t \in InFlight
          BY DEF InFlight, OnRegistry
        <5>. QED  BY <3>3, <5>1, FS_RemoveElement
      <4>4. Cardinality(Pooled) <= Cardinality(InFlight \ {t})
        BY <4>2, <4>3, FS_Injection
      <4>5. Cardinality(Pooled') <= Max({MaxSize, peak})
        BY <3>2, <3>3, <4>3, <4>4, <2>1, <2>0, MaxOfTwo, SizeAssumption
      <4>. QED  BY <4>5, <1>2 DEF PoolBounded
    <3>. QED  BY <2>3, <3>4, <3>5
  <2>. QED  BY <2>2, <2>3
<1>. QED  BY <1>8, <1>9, <1>11, <1>12, <1>13, <1>14, <1>15, <1>16, <1>17, <1>18, <1>19
          DEF CoreInv

\* The entry is created at once: the pool has room, or every entry is locked, or the
\* victim has no session.
LEMMA CreateEntryStep ==
  ASSUME NEW t \in Task, CoreInv, PeakOK, CreateEntry(t)
  PROVE  CoreInv'
<1>1. /\ pc[t] = "registry" /\ Head(reg) = t /\ pool[key[t]] = 0 /\ cur[t] = 0
      /\ Create(t, IF MustEvict THEN Victim ELSE 0)
  BY DEF CoreInv, TaskOK, CreateEntry, AtRegistry, Actor
<1>2. CASE MustEvict
  <2>1. Victim \in Pooled /\ Victim # 0
    BY <1>2, VictimUnlocked DEF MustEvict, Pooled
  <2>. QED  BY <1>1, <1>2, <2>1, CreateStep DEF OnRegistry
<1>3. CASE ~MustEvict
  <2>1. Cardinality(Pooled) < MaxSize \/ Unlocked = {}
    BY <1>3, PooledTypes, SizeAssumption DEF MustEvict, CoreInv
  <2>. QED  BY <1>1, <1>3, <2>1, CreateStep DEF OnRegistry
<1>. QED  BY <1>2, <1>3

\* The entry is created once its victim is closed.
LEMMA EvictDoneStep ==
  ASSUME NEW t \in Task, CoreInv, PeakOK, EvictDone(t)
  PROVE  CoreInv'
<1>1. /\ pc[t] = "evicting" /\ Head(reg) = t /\ pool[key[t]] = 0
      /\ cur[t] \in Pooled /\ cur[t] # 0 /\ Create(t, cur[t])
  BY DEF CoreInv, RegistryOK, EvictOK, EvictDone, Actor, Pooled
<1>. QED  BY <1>1, CreateStep DEF OnRegistry

\* A caller gets the lock of its entry.
LEMMA TakeLockStep ==
  ASSUME NEW t \in Task, CoreInv, TakeLock(t)
  PROVE  CoreInv'
<1>1. TypeOK'
  <2>1. reg' \in Seq(Actor)
    BY DEF CoreInv, TakeLock, Goto, Turn, entryVars, countVars, TypeOK, TaskOK, Actor,
           UnderLock, Waiting, Pc, AtEntry, Breaking, OnRegistry
  <2>2. queue' \in [Entry -> Seq(Task)]
    BY LeavesQueue DEF CoreInv, TakeLock, Goto, Turn, entryVars, countVars, TypeOK, TaskOK,
           Actor, UnderLock, Waiting, Pc, AtEntry, Breaking, OnRegistry
  <2>3. lru' \in Seq(Entry) /\ ToSet(lru') = Pooled'
    BY Touched DEF CoreInv, TakeLock, Goto, Turn, entryVars, countVars, TypeOK, Pooled
  <2>4. /\ pool' \in [Key -> Entry \cup {0}]
        /\ connected' \in [Entry -> BOOLEAN]
        /\ session' \in [Entry -> {"none", "ok", "lost", "met"}]
        /\ holder' \in [Entry -> Task \cup {None}]
    BY DEF CoreInv, TakeLock, Goto, Turn, entryVars, countVars, TypeOK, TaskOK, Actor
  <2>5. /\ pc' \in [Actor -> Pc]
        /\ cur' \in [Actor -> Entry \cup {0}]
        /\ key' \in [Task -> Key \cup {None}]
        /\ attempt' \in [Task -> {1, 2}]
        /\ suspect' \in [Task -> Entry \cup {0}]
    BY DEF CoreInv, TakeLock, Goto, Turn, entryVars, countVars, TypeOK, TaskOK, Actor,
           UnderLock, Waiting, Pc, AtEntry, Breaking, OnRegistry
  <2>6. /\ calls' \in [Task -> 0 .. MaxCalls] /\ sweeps' \in 0 .. MaxSweeps
        /\ idle' \in SUBSET Entry /\ closed' \in BOOLEAN /\ peak' \in Nat
    BY SizeAssumption DEF CoreInv, TakeLock, entryVars, countVars, TypeOK
  <2>. QED  BY <2>1, <2>2, <2>3, <2>4, <2>5, <2>6 DEF TypeOK
<1>2. TaskOK'
  BY Sizes, TaskAssumption DEF CoreInv, TakeLock, Goto, Turn, entryVars, countVars,
         TypeOK, TaskOK, Actor, UnderLock, Waiting, Pc, AtEntry, Breaking, OnRegistry
<1>3. RegistryOK'
  BY DEF CoreInv, TakeLock, Goto, Turn, entryVars, countVars, TypeOK, RegistryOK, Actor,
         UnderLock, Waiting, Pc, AtEntry, Breaking, OnRegistry
<1>4. HolderOK'
  BY TaskAssumption DEF CoreInv, TakeLock, Goto, Turn, entryVars, countVars, TypeOK,
         TaskOK, HolderOK, Actor, UnderLock, Waiting, Pc, AtEntry, Breaking, OnRegistry
<1>5. QueueOK'
  <2>1. cur[t] \in Entry
    BY DEF CoreInv, TypeOK, TaskOK, Actor, TakeLock
  <2>. QED  BY <2>1, LeavesQueue DEF TakeLock
<1>6. PoolOK'
  BY Touched DEF CoreInv, TakeLock, Goto, Turn, entryVars, countVars, TypeOK, PoolOK
<1>7. SessionOK'
  BY DEF CoreInv, TakeLock, Goto, Turn, entryVars, countVars, TypeOK, SessionOK, TaskOK,
         UnderLock, Waiting, Pc, AtEntry, Breaking, OnRegistry
<1>8. OwnKeyOK'
  BY TaskAssumption DEF CoreInv, TakeLock, Goto, Turn, entryVars, countVars, TypeOK,
         OwnKeyOK, TaskOK, PoolOK, Actor, UnderLock, Waiting, Pc, AtEntry, Breaking,
         OnRegistry
<1>9. EvictOK'
  BY TaskAssumption DEF CoreInv, TakeLock, Goto, Turn, entryVars, countVars, TypeOK,
         EvictOK, TaskOK, Actor, Pooled, UnderLock, Waiting, Pc, AtEntry, Breaking,
         OnRegistry
<1>10. RetryOK'
  BY TaskAssumption DEF CoreInv, TakeLock, Goto, Turn, entryVars, countVars, TypeOK,
         RetryOK, TaskOK, OwnKeyOK, SessionOK, Actor, Pooled, UnderLock, Waiting, Pc,
         AtEntry, Breaking, OnRegistry
<1>11. PoolBounded'
  BY DEF CoreInv, TakeLock, Goto, Turn, entryVars, countVars, PoolBounded, Pooled
<1>. QED  BY <1>1, <1>2, <1>3, <1>4, <1>5, <1>6, <1>7, <1>8, <1>9, <1>10, <1>11 DEF CoreInv

\* A new session.
LEMMA ConnectStep ==
  ASSUME NEW t \in Task, CoreInv, Connect(t)
  PROVE  CoreInv'
<1>1. TypeOK'
  <2>1. reg' \in Seq(Actor)
    BY DEF CoreInv, Connect, Goto, Forget, entryVars, countVars, TypeOK, TaskOK, Actor,
           UnderLock, Waiting, Pc, AtEntry, Breaking, OnRegistry
  <2>2. queue' \in [Entry -> Seq(Task)]
    BY KeepsQueues DEF CoreInv, Connect, Goto, Forget, entryVars, countVars, TypeOK,
           TaskOK, Actor, UnderLock, Waiting, Pc, AtEntry, Breaking, OnRegistry
  <2>3. lru' \in Seq(Entry) /\ ToSet(lru') = Pooled'
    BY Touched DEF CoreInv, Connect, Goto, Forget, entryVars, countVars, TypeOK, Pooled
  <2>4. /\ pool' \in [Key -> Entry \cup {0}]
        /\ connected' \in [Entry -> BOOLEAN]
        /\ session' \in [Entry -> {"none", "ok", "lost", "met"}]
        /\ holder' \in [Entry -> Task \cup {None}]
    BY DEF CoreInv, Connect, Goto, Forget, entryVars, countVars, TypeOK, TaskOK, Actor
  <2>5. /\ pc' \in [Actor -> Pc]
        /\ cur' \in [Actor -> Entry \cup {0}]
        /\ key' \in [Task -> Key \cup {None}]
        /\ attempt' \in [Task -> {1, 2}]
        /\ suspect' \in [Task -> Entry \cup {0}]
    BY DEF CoreInv, Connect, Goto, Forget, entryVars, countVars, TypeOK, TaskOK, Actor,
           UnderLock, Waiting, Pc, AtEntry, Breaking, OnRegistry
  <2>6. /\ calls' \in [Task -> 0 .. MaxCalls] /\ sweeps' \in 0 .. MaxSweeps
        /\ idle' \in SUBSET Entry /\ closed' \in BOOLEAN /\ peak' \in Nat
    BY SizeAssumption DEF CoreInv, Connect, entryVars, countVars, TypeOK
  <2>. QED  BY <2>1, <2>2, <2>3, <2>4, <2>5, <2>6 DEF TypeOK
<1>2. TaskOK'
  BY Sizes, TaskAssumption DEF CoreInv, Connect, Goto, Forget, entryVars, countVars,
         TypeOK, TaskOK, Actor, UnderLock, Waiting, Pc, AtEntry, Breaking, OnRegistry
<1>3. RegistryOK'
  BY DEF CoreInv, Connect, Goto, Forget, entryVars, countVars, TypeOK, RegistryOK, Actor,
         UnderLock, Waiting, Pc, AtEntry, Breaking, OnRegistry
<1>4. HolderOK'
  BY TaskAssumption DEF CoreInv, Connect, Goto, Forget, entryVars, countVars, TypeOK,
         TaskOK, HolderOK, Actor, UnderLock, Waiting, Pc, AtEntry, Breaking, OnRegistry
<1>5. QueueOK'
  BY KeepsQueues DEF CoreInv, Connect, Goto, Forget, entryVars, countVars, TypeOK,
         QueueOK, Actor, UnderLock, Waiting, Pc, AtEntry, Breaking, OnRegistry
<1>6. PoolOK'
  BY Touched DEF CoreInv, Connect, Goto, Forget, entryVars, countVars, TypeOK, PoolOK
<1>7. SessionOK'
  BY DEF CoreInv, Connect, Goto, Forget, entryVars, countVars, TypeOK, SessionOK, TaskOK,
         UnderLock, Waiting, Pc, AtEntry, Breaking, OnRegistry
<1>8. OwnKeyOK'
  BY TaskAssumption DEF CoreInv, Connect, Goto, Forget, entryVars, countVars, TypeOK,
         OwnKeyOK, TaskOK, PoolOK, Actor, UnderLock, Waiting, Pc, AtEntry, Breaking,
         OnRegistry
<1>9. EvictOK'
  BY TaskAssumption DEF CoreInv, Connect, Goto, Forget, entryVars, countVars, TypeOK,
         EvictOK, TaskOK, Actor, Pooled, UnderLock, Waiting, Pc, AtEntry, Breaking,
         OnRegistry
<1>10. RetryOK'
  BY TaskAssumption DEF CoreInv, Connect, Goto, Forget, entryVars, countVars, TypeOK,
         RetryOK, TaskOK, OwnKeyOK, SessionOK, Actor, Pooled, UnderLock, Waiting, Pc,
         AtEntry, Breaking, OnRegistry
<1>11. PoolBounded'
  BY DEF CoreInv, Connect, Goto, Forget, entryVars, countVars, PoolBounded, Pooled
<1>. QED  BY <1>1, <1>2, <1>3, <1>4, <1>5, <1>6, <1>7, <1>8, <1>9, <1>10, <1>11 DEF CoreInv

\* A call returns.
LEMMA CallEndsStep ==
  ASSUME NEW t \in Task, CoreInv, CallEnds(t)
  PROVE  CoreInv'
<1>1. TypeOK'
  <2>1. reg' \in Seq(Actor)
    BY DEF CoreInv, CallEnds, Done, Goto, entryVars, countVars, TypeOK, TaskOK, Actor,
           UnderLock, Waiting, Pc, AtEntry, Breaking, OnRegistry
  <2>2. queue' \in [Entry -> Seq(Task)]
    BY KeepsQueues DEF CoreInv, CallEnds, Done, Goto, entryVars, countVars, TypeOK, TaskOK,
           Actor, UnderLock, Waiting, Pc, AtEntry, Breaking, OnRegistry
  <2>3. lru' \in Seq(Entry) /\ ToSet(lru') = Pooled'
    BY DEF CoreInv, CallEnds, Done, Goto, entryVars, countVars, TypeOK, Pooled
  <2>4. /\ pool' \in [Key -> Entry \cup {0}]
        /\ connected' \in [Entry -> BOOLEAN]
        /\ session' \in [Entry -> {"none", "ok", "lost", "met"}]
        /\ holder' \in [Entry -> Task \cup {None}]
    BY DEF CoreInv, CallEnds, Done, Goto, entryVars, countVars, TypeOK, TaskOK, Actor
  <2>5. /\ pc' \in [Actor -> Pc]
        /\ cur' \in [Actor -> Entry \cup {0}]
        /\ key' \in [Task -> Key \cup {None}]
        /\ attempt' \in [Task -> {1, 2}]
        /\ suspect' \in [Task -> Entry \cup {0}]
    BY DEF CoreInv, CallEnds, Done, Goto, entryVars, countVars, TypeOK, TaskOK, Actor,
           UnderLock, Waiting, Pc, AtEntry, Breaking, OnRegistry
  <2>6. /\ calls' \in [Task -> 0 .. MaxCalls] /\ sweeps' \in 0 .. MaxSweeps
        /\ idle' \in SUBSET Entry /\ closed' \in BOOLEAN /\ peak' \in Nat
    BY SizeAssumption DEF CoreInv, CallEnds, entryVars, countVars, TypeOK
  <2>. QED  BY <2>1, <2>2, <2>3, <2>4, <2>5, <2>6 DEF TypeOK
<1>2. TaskOK'
  BY Sizes, TaskAssumption DEF CoreInv, CallEnds, Done, Goto, entryVars, countVars,
         TypeOK, TaskOK, Actor, UnderLock, Waiting, Pc, AtEntry, Breaking, OnRegistry
<1>3. RegistryOK'
  BY DEF CoreInv, CallEnds, Done, Goto, entryVars, countVars, TypeOK, RegistryOK, Actor,
         UnderLock, Waiting, Pc, AtEntry, Breaking, OnRegistry
<1>4. HolderOK'
  BY TaskAssumption DEF CoreInv, CallEnds, Done, Goto, entryVars, countVars, TypeOK,
         TaskOK, HolderOK, Actor, UnderLock, Waiting, Pc, AtEntry, Breaking, OnRegistry
<1>5. QueueOK'
  BY KeepsQueues DEF CoreInv, CallEnds, Done, Goto, entryVars, countVars, TypeOK,
         QueueOK, Actor, UnderLock, Waiting, Pc, AtEntry, Breaking, OnRegistry
<1>6. PoolOK'
  BY DEF CoreInv, CallEnds, Done, Goto, entryVars, countVars, TypeOK, PoolOK
<1>7. SessionOK'
  BY DEF CoreInv, CallEnds, Done, Goto, entryVars, countVars, TypeOK, SessionOK, TaskOK,
         UnderLock, Waiting, Pc, AtEntry, Breaking, OnRegistry
<1>8. OwnKeyOK'
  BY TaskAssumption DEF CoreInv, CallEnds, Done, Goto, entryVars, countVars, TypeOK,
         OwnKeyOK, TaskOK, PoolOK, Actor, UnderLock, Waiting, Pc, AtEntry, Breaking,
         OnRegistry
<1>9. EvictOK'
  BY TaskAssumption DEF CoreInv, CallEnds, Done, Goto, entryVars, countVars, TypeOK,
         EvictOK, TaskOK, Actor, Pooled, UnderLock, Waiting, Pc, AtEntry, Breaking,
         OnRegistry
<1>10. RetryOK'
  BY TaskAssumption DEF CoreInv, CallEnds, Done, Goto, entryVars, countVars, TypeOK,
         RetryOK, TaskOK, OwnKeyOK, SessionOK, Actor, Pooled, UnderLock, Waiting, Pc,
         AtEntry, Breaking, OnRegistry
<1>11. PoolBounded'
  BY DEF CoreInv, CallEnds, Done, Goto, entryVars, countVars, PoolBounded, Pooled
<1>. QED  BY <1>1, <1>2, <1>3, <1>4, <1>5, <1>6, <1>7, <1>8, <1>9, <1>10, <1>11 DEF CoreInv

\* The broken session is to be closed, and its lock is taken.
LEMMA FailsWaitsStep ==
  ASSUME NEW t \in Task, NEW e \in Entry, CoreInv,
         pc[t] \in {"connecting", "calling"}, e = pool[key[t]],
         holder' = [holder EXCEPT ![cur[t]] = None],
         queue' = [queue EXCEPT ![e] = Append(@, t)], Goto(t, "breakLock", e),
         attempt' = [attempt EXCEPT ![t] = 2], 
         suspect' = [suspect EXCEPT ![t] = IF session[cur[t]] # "none" THEN cur[t] ELSE 0],
         UNCHANGED <<reg, connected, key, pool, session, lru, calls, closed, countVars>>
  PROVE  CoreInv'
<1>1. TypeOK'
  <2>1. reg' \in Seq(Actor)
    BY DEF CoreInv, Goto, entryVars, countVars, TypeOK, TaskOK, Actor, UnderLock, Waiting,
           Pc, AtEntry, Breaking, OnRegistry
  <2>2. queue' \in [Entry -> Seq(Task)]
    BY JoinsQueue DEF CoreInv, Goto, entryVars, countVars, TypeOK, TaskOK, Actor,
           UnderLock, Waiting, Pc, AtEntry, Breaking, OnRegistry
  <2>3. lru' \in Seq(Entry) /\ ToSet(lru') = Pooled'
    BY DEF CoreInv, Goto, entryVars, countVars, TypeOK, Pooled
  <2>4. /\ pool' \in [Key -> Entry \cup {0}]
        /\ connected' \in [Entry -> BOOLEAN]
        /\ session' \in [Entry -> {"none", "ok", "lost", "met"}]
        /\ holder' \in [Entry -> Task \cup {None}]
    BY DEF CoreInv, Goto, entryVars, countVars, TypeOK, TaskOK, Actor
  <2>5. /\ pc' \in [Actor -> Pc]
        /\ cur' \in [Actor -> Entry \cup {0}]
        /\ key' \in [Task -> Key \cup {None}]
        /\ attempt' \in [Task -> {1, 2}]
        /\ suspect' \in [Task -> Entry \cup {0}]
    BY DEF CoreInv, Goto, entryVars, countVars, TypeOK, TaskOK, Actor, UnderLock, Waiting,
           Pc, AtEntry, Breaking, OnRegistry
  <2>6. /\ calls' \in [Task -> 0 .. MaxCalls] /\ sweeps' \in 0 .. MaxSweeps
        /\ idle' \in SUBSET Entry /\ closed' \in BOOLEAN /\ peak' \in Nat
    BY SizeAssumption DEF CoreInv, entryVars, countVars, TypeOK
  <2>. QED  BY <2>1, <2>2, <2>3, <2>4, <2>5, <2>6 DEF TypeOK
<1>2. TaskOK'
  BY Sizes, TaskAssumption DEF CoreInv, Goto, entryVars, countVars, TypeOK, TaskOK,
         Actor, UnderLock, Waiting, Pc, AtEntry, Breaking, OnRegistry
<1>3. RegistryOK'
  BY DEF CoreInv, Goto, entryVars, countVars, TypeOK, RegistryOK, Actor, UnderLock,
         Waiting, Pc, AtEntry, Breaking, OnRegistry
<1>4. HolderOK'
  BY TaskAssumption DEF CoreInv, Goto, entryVars, countVars, TypeOK, TaskOK, HolderOK,
         Actor, UnderLock, Waiting, Pc, AtEntry, Breaking, OnRegistry
<1>5. QueueOK'
  BY JoinsQueue DEF CoreInv, Goto, entryVars, countVars, TypeOK, QueueOK, Actor,
         UnderLock, Waiting, Pc, AtEntry, Breaking, OnRegistry
<1>6. PoolOK'
  BY DEF CoreInv, Goto, entryVars, countVars, TypeOK, PoolOK
<1>7. SessionOK'
  BY DEF CoreInv, Goto, entryVars, countVars, TypeOK, SessionOK, TaskOK, UnderLock,
         Waiting, Pc, AtEntry, Breaking, OnRegistry
<1>8. OwnKeyOK'
  BY TaskAssumption DEF CoreInv, Goto, entryVars, countVars, TypeOK, OwnKeyOK, TaskOK,
         PoolOK, Actor, UnderLock, Waiting, Pc, AtEntry, Breaking, OnRegistry
<1>9. EvictOK'
  BY TaskAssumption DEF CoreInv, Goto, entryVars, countVars, TypeOK, EvictOK, TaskOK,
         Actor, Pooled, UnderLock, Waiting, Pc, AtEntry, Breaking, OnRegistry
<1>10. RetryOK'
  BY TaskAssumption DEF CoreInv, Goto, entryVars, countVars, TypeOK, RetryOK, TaskOK,
         OwnKeyOK, SessionOK, Actor, Pooled, UnderLock, Waiting, Pc, AtEntry, Breaking,
         OnRegistry
<1>11. PoolBounded'
  BY DEF CoreInv, Goto, entryVars, countVars, PoolBounded, Pooled
<1>. QED  BY <1>1, <1>2, <1>3, <1>4, <1>5, <1>6, <1>7, <1>8, <1>9, <1>10, <1>11 DEF CoreInv

\* The broken session is closed at once.
LEMMA FailsBreaksStep ==
  ASSUME NEW t \in Task, NEW e \in Entry, CoreInv,
         pc[t] \in {"connecting", "calling"}, e = pool[key[t]],
         e = cur[t] \/ holder[e] = None,
         holder' = [[holder EXCEPT ![cur[t]] = None] EXCEPT ![e] = t],
         Goto(t, "breaking", e), attempt' = [attempt EXCEPT ![t] = 2],
         suspect' = [suspect EXCEPT ![t] = IF session[cur[t]] # "none" THEN cur[t] ELSE 0],
         UNCHANGED <<queue, reg, connected, key, pool, session, lru, calls, closed,
                     countVars>>
  PROVE  CoreInv'
<1>1. TypeOK'
  <2>1. reg' \in Seq(Actor)
    BY DEF CoreInv, Goto, entryVars, countVars, TypeOK, TaskOK, Actor, UnderLock, Waiting,
           Pc, AtEntry, Breaking, OnRegistry
  <2>2. queue' \in [Entry -> Seq(Task)]
    BY KeepsQueues DEF CoreInv, Goto, entryVars, countVars, TypeOK, TaskOK, Actor,
           UnderLock, Waiting, Pc, AtEntry, Breaking, OnRegistry
  <2>3. lru' \in Seq(Entry) /\ ToSet(lru') = Pooled'
    BY DEF CoreInv, Goto, entryVars, countVars, TypeOK, Pooled
  <2>4. /\ pool' \in [Key -> Entry \cup {0}]
        /\ connected' \in [Entry -> BOOLEAN]
        /\ session' \in [Entry -> {"none", "ok", "lost", "met"}]
        /\ holder' \in [Entry -> Task \cup {None}]
    BY DEF CoreInv, Goto, entryVars, countVars, TypeOK, TaskOK, Actor
  <2>5. /\ pc' \in [Actor -> Pc]
        /\ cur' \in [Actor -> Entry \cup {0}]
        /\ key' \in [Task -> Key \cup {None}]
        /\ attempt' \in [Task -> {1, 2}]
        /\ suspect' \in [Task -> Entry \cup {0}]
    BY DEF CoreInv, Goto, entryVars, countVars, TypeOK, TaskOK, Actor, UnderLock, Waiting,
           Pc, AtEntry, Breaking, OnRegistry
  <2>6. /\ calls' \in [Task -> 0 .. MaxCalls] /\ sweeps' \in 0 .. MaxSweeps
        /\ idle' \in SUBSET Entry /\ closed' \in BOOLEAN /\ peak' \in Nat
    BY SizeAssumption DEF CoreInv, entryVars, countVars, TypeOK
  <2>. QED  BY <2>1, <2>2, <2>3, <2>4, <2>5, <2>6 DEF TypeOK
<1>2. TaskOK'
  BY Sizes, TaskAssumption DEF CoreInv, Goto, entryVars, countVars, TypeOK, TaskOK,
         Actor, UnderLock, Waiting, Pc, AtEntry, Breaking, OnRegistry
<1>3. RegistryOK'
  BY DEF CoreInv, Goto, entryVars, countVars, TypeOK, RegistryOK, Actor, UnderLock,
         Waiting, Pc, AtEntry, Breaking, OnRegistry
<1>4. HolderOK'
  BY TaskAssumption DEF CoreInv, Goto, entryVars, countVars, TypeOK, TaskOK, HolderOK,
         Actor, UnderLock, Waiting, Pc, AtEntry, Breaking, OnRegistry
<1>5. QueueOK'
  BY KeepsQueues DEF CoreInv, Goto, entryVars, countVars, TypeOK, QueueOK, Actor,
         UnderLock, Waiting, Pc, AtEntry, Breaking, OnRegistry
<1>6. PoolOK'
  BY DEF CoreInv, Goto, entryVars, countVars, TypeOK, PoolOK
<1>7. SessionOK'
  BY DEF CoreInv, Goto, entryVars, countVars, TypeOK, SessionOK, TaskOK, UnderLock,
         Waiting, Pc, AtEntry, Breaking, OnRegistry
<1>8. OwnKeyOK'
  BY TaskAssumption DEF CoreInv, Goto, entryVars, countVars, TypeOK, OwnKeyOK, TaskOK,
         PoolOK, Actor, UnderLock, Waiting, Pc, AtEntry, Breaking, OnRegistry
<1>9. EvictOK'
  BY TaskAssumption DEF CoreInv, Goto, entryVars, countVars, TypeOK, EvictOK, TaskOK,
         Actor, Pooled, UnderLock, Waiting, Pc, AtEntry, Breaking, OnRegistry
<1>10. RetryOK'
  BY TaskAssumption DEF CoreInv, Goto, entryVars, countVars, TypeOK, RetryOK, TaskOK,
         OwnKeyOK, SessionOK, Actor, Pooled, UnderLock, Waiting, Pc, AtEntry, Breaking,
         OnRegistry
<1>11. PoolBounded'
  BY DEF CoreInv, Goto, entryVars, countVars, PoolBounded, Pooled
<1>. QED  BY <1>1, <1>2, <1>3, <1>4, <1>5, <1>6, <1>7, <1>8, <1>9, <1>10, <1>11 DEF CoreInv

\* There is no session to close.
LEMMA FailsClosedStep ==
  ASSUME NEW t \in Task, CoreInv, pc[t] \in {"connecting", "calling"}, NEW e,
         e = pool[key[t]], ~ (e # 0 /\ Live(e)), holder' = [holder EXCEPT ![cur[t]] = None],
         connected' = [x \in Entry |-> connected[x] /\ x # e], ToRegistry(t),
         attempt' = [attempt EXCEPT ![t] = 2],
         suspect' = [suspect EXCEPT ![t] = IF session[cur[t]] # "none" THEN cur[t] ELSE 0],
         UNCHANGED <<queue, key, pool, session, lru, calls, closed, countVars>>
  PROVE  CoreInv'
<1>1. TypeOK'
  <2>1. reg' \in Seq(Actor)
    BY JoinsRegistry DEF CoreInv, ToRegistry, Goto, entryVars, countVars, TypeOK, TaskOK,
           Actor, UnderLock, Waiting, Pc, AtEntry, Breaking, OnRegistry
  <2>2. queue' \in [Entry -> Seq(Task)]
    BY KeepsQueues DEF CoreInv, ToRegistry, Goto, entryVars, countVars, TypeOK, TaskOK,
           Actor, UnderLock, Waiting, Pc, AtEntry, Breaking, OnRegistry
  <2>3. lru' \in Seq(Entry) /\ ToSet(lru') = Pooled'
    BY DEF CoreInv, ToRegistry, Goto, entryVars, countVars, TypeOK, Pooled
  <2>4. /\ pool' \in [Key -> Entry \cup {0}]
        /\ connected' \in [Entry -> BOOLEAN]
        /\ session' \in [Entry -> {"none", "ok", "lost", "met"}]
        /\ holder' \in [Entry -> Task \cup {None}]
    BY DEF CoreInv, ToRegistry, Goto, entryVars, countVars, TypeOK, TaskOK, Actor
  <2>5. /\ pc' \in [Actor -> Pc]
        /\ cur' \in [Actor -> Entry \cup {0}]
        /\ key' \in [Task -> Key \cup {None}]
        /\ attempt' \in [Task -> {1, 2}]
        /\ suspect' \in [Task -> Entry \cup {0}]
    BY DEF CoreInv, ToRegistry, Goto, entryVars, countVars, TypeOK, TaskOK, Actor,
           UnderLock, Waiting, Pc, AtEntry, Breaking, OnRegistry
  <2>6. /\ calls' \in [Task -> 0 .. MaxCalls] /\ sweeps' \in 0 .. MaxSweeps
        /\ idle' \in SUBSET Entry /\ closed' \in BOOLEAN /\ peak' \in Nat
    BY SizeAssumption DEF CoreInv, entryVars, countVars, TypeOK
  <2>. QED  BY <2>1, <2>2, <2>3, <2>4, <2>5, <2>6 DEF TypeOK
<1>2. TaskOK'
  BY Sizes, TaskAssumption DEF CoreInv, ToRegistry, Goto, entryVars, countVars, TypeOK,
         TaskOK, Actor, UnderLock, Waiting, Pc, AtEntry, Breaking, OnRegistry
<1>3. RegistryOK'
  BY JoinsRegistry DEF CoreInv, ToRegistry, Goto, entryVars, countVars, TypeOK,
         RegistryOK, Actor, UnderLock, Waiting, Pc, AtEntry, Breaking, OnRegistry
<1>4. HolderOK'
  BY TaskAssumption DEF CoreInv, ToRegistry, Goto, entryVars, countVars, TypeOK, TaskOK,
         HolderOK, Actor, UnderLock, Waiting, Pc, AtEntry, Breaking, OnRegistry
<1>5. QueueOK'
  BY KeepsQueues DEF CoreInv, ToRegistry, Goto, entryVars, countVars, TypeOK, QueueOK,
         Actor, UnderLock, Waiting, Pc, AtEntry, Breaking, OnRegistry
<1>6. PoolOK'
  BY DEF CoreInv, ToRegistry, Goto, entryVars, countVars, TypeOK, PoolOK
<1>7. SessionOK'
  <2>1. ASSUME NEW x \in Entry, session[x] # "none"
        PROVE  connected[x] /\ x # e
    BY <2>1, Sizes DEF CoreInv, SessionOK, Live
  <2>. QED  BY <2>1 DEF SessionOK
<1>8. OwnKeyOK'
  BY TaskAssumption DEF CoreInv, ToRegistry, Goto, entryVars, countVars, TypeOK,
         OwnKeyOK, TaskOK, PoolOK, Actor, UnderLock, Waiting, Pc, AtEntry, Breaking,
         OnRegistry
<1>9. EvictOK'
  BY TaskAssumption DEF CoreInv, ToRegistry, Goto, entryVars, countVars, TypeOK, EvictOK,
         TaskOK, Actor, Pooled, UnderLock, Waiting, Pc, AtEntry, Breaking, OnRegistry
<1>10. RetryOK'
  <2>1. e # 0 => session[e] = "none"
    BY DEF CoreInv, TypeOK, TaskOK, SessionOK, Live
  <2>2. cur[t] \in Pooled => cur[t] = e /\ e # 0
    BY Sizes, PooledTypes DEF CoreInv, OwnKeyOK, AtEntry
  <2>3. Pooled' = Pooled
    BY DEF Pooled
  <2>. QED  BY <2>1, <2>2, <2>3
            DEF CoreInv, TypeOK, RetryOK, ToRegistry, Goto, Actor, AtEntry, Breaking,
            OnRegistry
<1>11. PoolBounded'
  BY DEF CoreInv, ToRegistry, Goto, entryVars, countVars, PoolBounded, Pooled
<1>. QED  BY <1>1, <1>2, <1>3, <1>4, <1>5, <1>6, <1>7, <1>8, <1>9, <1>10, <1>11 DEF CoreInv

\* The second error is raised.
LEMMA FailsRaisesStep ==
  ASSUME NEW t \in Task, CoreInv, pc[t] \in {"connecting", "calling"},
         holder' = [holder EXCEPT ![cur[t]] = None], Done(t),
         UNCHANGED <<queue, reg, connected, pool, session, lru, calls, closed, countVars>>
  PROVE  CoreInv'
<1>1. TypeOK'
  <2>1. reg' \in Seq(Actor)
    BY DEF CoreInv, Done, Goto, entryVars, countVars, TypeOK, TaskOK, Actor, UnderLock,
           Waiting, Pc, AtEntry, Breaking, OnRegistry
  <2>2. queue' \in [Entry -> Seq(Task)]
    BY KeepsQueues DEF CoreInv, Done, Goto, entryVars, countVars, TypeOK, TaskOK, Actor,
           UnderLock, Waiting, Pc, AtEntry, Breaking, OnRegistry
  <2>3. lru' \in Seq(Entry) /\ ToSet(lru') = Pooled'
    BY DEF CoreInv, Done, Goto, entryVars, countVars, TypeOK, Pooled
  <2>4. /\ pool' \in [Key -> Entry \cup {0}]
        /\ connected' \in [Entry -> BOOLEAN]
        /\ session' \in [Entry -> {"none", "ok", "lost", "met"}]
        /\ holder' \in [Entry -> Task \cup {None}]
    BY DEF CoreInv, Done, Goto, entryVars, countVars, TypeOK, TaskOK, Actor
  <2>5. /\ pc' \in [Actor -> Pc]
        /\ cur' \in [Actor -> Entry \cup {0}]
        /\ key' \in [Task -> Key \cup {None}]
        /\ attempt' \in [Task -> {1, 2}]
        /\ suspect' \in [Task -> Entry \cup {0}]
    BY DEF CoreInv, Done, Goto, entryVars, countVars, TypeOK, TaskOK, Actor, UnderLock,
           Waiting, Pc, AtEntry, Breaking, OnRegistry
  <2>6. /\ calls' \in [Task -> 0 .. MaxCalls] /\ sweeps' \in 0 .. MaxSweeps
        /\ idle' \in SUBSET Entry /\ closed' \in BOOLEAN /\ peak' \in Nat
    BY SizeAssumption DEF CoreInv, entryVars, countVars, TypeOK
  <2>. QED  BY <2>1, <2>2, <2>3, <2>4, <2>5, <2>6 DEF TypeOK
<1>2. TaskOK'
  BY Sizes, TaskAssumption DEF CoreInv, Done, Goto, entryVars, countVars, TypeOK, TaskOK,
         Actor, UnderLock, Waiting, Pc, AtEntry, Breaking, OnRegistry
<1>3. RegistryOK'
  BY DEF CoreInv, Done, Goto, entryVars, countVars, TypeOK, RegistryOK, Actor, UnderLock,
         Waiting, Pc, AtEntry, Breaking, OnRegistry
<1>4. HolderOK'
  BY TaskAssumption DEF CoreInv, Done, Goto, entryVars, countVars, TypeOK, TaskOK,
         HolderOK, Actor, UnderLock, Waiting, Pc, AtEntry, Breaking, OnRegistry
<1>5. QueueOK'
  BY KeepsQueues DEF CoreInv, Done, Goto, entryVars, countVars, TypeOK, QueueOK, Actor,
         UnderLock, Waiting, Pc, AtEntry, Breaking, OnRegistry
<1>6. PoolOK'
  BY DEF CoreInv, Done, Goto, entryVars, countVars, TypeOK, PoolOK
<1>7. SessionOK'
  BY DEF CoreInv, Done, Goto, entryVars, countVars, TypeOK, SessionOK, TaskOK, UnderLock,
         Waiting, Pc, AtEntry, Breaking, OnRegistry
<1>8. OwnKeyOK'
  BY TaskAssumption DEF CoreInv, Done, Goto, entryVars, countVars, TypeOK, OwnKeyOK,
         TaskOK, PoolOK, Actor, UnderLock, Waiting, Pc, AtEntry, Breaking, OnRegistry
<1>9. EvictOK'
  BY TaskAssumption DEF CoreInv, Done, Goto, entryVars, countVars, TypeOK, EvictOK,
         TaskOK, Actor, Pooled, UnderLock, Waiting, Pc, AtEntry, Breaking, OnRegistry
<1>10. RetryOK'
  BY TaskAssumption DEF CoreInv, Done, Goto, entryVars, countVars, TypeOK, RetryOK,
         TaskOK, OwnKeyOK, SessionOK, Actor, Pooled, UnderLock, Waiting, Pc, AtEntry,
         Breaking, OnRegistry
<1>11. PoolBounded'
  BY DEF CoreInv, Done, Goto, entryVars, countVars, PoolBounded, Pooled
<1>. QED  BY <1>1, <1>2, <1>3, <1>4, <1>5, <1>6, <1>7, <1>8, <1>9, <1>10, <1>11 DEF CoreInv

\* The lock of the entry to break is taken and its session closed.
LEMMA BreakLiveStep ==
  ASSUME NEW t \in Task, CoreInv, pc[t] = "breakLock", Turn(t, cur[t]), Live(cur[t]),
         queue' = [queue EXCEPT ![cur[t]] = Tail(@)],
         holder' = [holder EXCEPT ![cur[t]] = t], Goto(t, "breaking", cur[t]),
         UNCHANGED <<reg, connected, pool, session, lru, key, attempt, calls, suspect,
                     closed, countVars>>
  PROVE  CoreInv'
<1>1. TypeOK'
  <2>1. reg' \in Seq(Actor)
    BY DEF CoreInv, Goto, Turn, Live, entryVars, countVars, TypeOK, TaskOK, Actor,
           UnderLock, Waiting, Pc, AtEntry, Breaking, OnRegistry
  <2>2. queue' \in [Entry -> Seq(Task)]
    BY LeavesQueue DEF CoreInv, Goto, Turn, Live, entryVars, countVars, TypeOK, TaskOK,
           Actor, UnderLock, Waiting, Pc, AtEntry, Breaking, OnRegistry
  <2>3. lru' \in Seq(Entry) /\ ToSet(lru') = Pooled'
    BY DEF CoreInv, Goto, Turn, Live, entryVars, countVars, TypeOK, Pooled
  <2>4. /\ pool' \in [Key -> Entry \cup {0}]
        /\ connected' \in [Entry -> BOOLEAN]
        /\ session' \in [Entry -> {"none", "ok", "lost", "met"}]
        /\ holder' \in [Entry -> Task \cup {None}]
    BY DEF CoreInv, Goto, Turn, Live, entryVars, countVars, TypeOK, TaskOK, Actor
  <2>5. /\ pc' \in [Actor -> Pc]
        /\ cur' \in [Actor -> Entry \cup {0}]
        /\ key' \in [Task -> Key \cup {None}]
        /\ attempt' \in [Task -> {1, 2}]
        /\ suspect' \in [Task -> Entry \cup {0}]
    BY DEF CoreInv, Goto, Turn, Live, entryVars, countVars, TypeOK, TaskOK, Actor,
           UnderLock, Waiting, Pc, AtEntry, Breaking, OnRegistry
  <2>6. /\ calls' \in [Task -> 0 .. MaxCalls] /\ sweeps' \in 0 .. MaxSweeps
        /\ idle' \in SUBSET Entry /\ closed' \in BOOLEAN /\ peak' \in Nat
    BY SizeAssumption DEF CoreInv, entryVars, countVars, TypeOK
  <2>. QED  BY <2>1, <2>2, <2>3, <2>4, <2>5, <2>6 DEF TypeOK
<1>2. TaskOK'
  BY Sizes, TaskAssumption DEF CoreInv, Goto, Turn, Live, entryVars, countVars, TypeOK,
         TaskOK, Actor, UnderLock, Waiting, Pc, AtEntry, Breaking, OnRegistry
<1>3. RegistryOK'
  BY DEF CoreInv, Goto, Turn, Live, entryVars, countVars, TypeOK, RegistryOK, Actor,
         UnderLock, Waiting, Pc, AtEntry, Breaking, OnRegistry
<1>4. HolderOK'
  BY TaskAssumption DEF CoreInv, Goto, Turn, Live, entryVars, countVars, TypeOK, TaskOK,
         HolderOK, Actor, UnderLock, Waiting, Pc, AtEntry, Breaking, OnRegistry
<1>5. QueueOK'
  <2>1. cur[t] \in Entry
    BY DEF CoreInv, TypeOK, TaskOK, Actor
  <2>. QED  BY <2>1, LeavesQueue
<1>6. PoolOK'
  BY DEF CoreInv, Goto, Turn, Live, entryVars, countVars, TypeOK, PoolOK
<1>7. SessionOK'
  BY DEF CoreInv, Goto, Turn, Live, entryVars, countVars, TypeOK, SessionOK, TaskOK,
         UnderLock, Waiting, Pc, AtEntry, Breaking, OnRegistry
<1>8. OwnKeyOK'
  BY TaskAssumption DEF CoreInv, Goto, Turn, Live, entryVars, countVars, TypeOK,
         OwnKeyOK, TaskOK, PoolOK, Actor, UnderLock, Waiting, Pc, AtEntry, Breaking,
         OnRegistry
<1>9. EvictOK'
  BY TaskAssumption DEF CoreInv, Goto, Turn, Live, entryVars, countVars, TypeOK, EvictOK,
         TaskOK, Actor, Pooled, UnderLock, Waiting, Pc, AtEntry, Breaking, OnRegistry
<1>10. RetryOK'
  BY TaskAssumption DEF CoreInv, Goto, Turn, Live, entryVars, countVars, TypeOK, RetryOK,
         TaskOK, OwnKeyOK, SessionOK, Actor, Pooled, UnderLock, Waiting, Pc, AtEntry,
         Breaking, OnRegistry
<1>11. PoolBounded'
  BY DEF CoreInv, Goto, Turn, Live, entryVars, countVars, PoolBounded, Pooled
<1>. QED  BY <1>1, <1>2, <1>3, <1>4, <1>5, <1>6, <1>7, <1>8, <1>9, <1>10, <1>11 DEF CoreInv

\* The session of the entry to break is closed already.
LEMMA BreakClosedStep ==
  ASSUME NEW t \in Task, CoreInv, pc[t] = "breakLock", Turn(t, cur[t]), ~Live(cur[t]),
         queue' = [queue EXCEPT ![cur[t]] = Tail(@)],
         connected' = [connected EXCEPT ![cur[t]] = FALSE], ToRegistry(t),
         UNCHANGED <<holder, pool, session, lru, key, attempt, calls, suspect, closed,
                     countVars>>
  PROVE  CoreInv'
<1>1. TypeOK'
  <2>1. reg' \in Seq(Actor)
    BY JoinsRegistry DEF CoreInv, Goto, Turn, Live, ToRegistry, entryVars, countVars,
           TypeOK, TaskOK, Actor, UnderLock, Waiting, Pc, AtEntry, Breaking, OnRegistry
  <2>2. queue' \in [Entry -> Seq(Task)]
    BY LeavesQueue DEF CoreInv, Goto, Turn, Live, ToRegistry, entryVars, countVars, TypeOK,
           TaskOK, Actor, UnderLock, Waiting, Pc, AtEntry, Breaking, OnRegistry
  <2>3. lru' \in Seq(Entry) /\ ToSet(lru') = Pooled'
    BY DEF CoreInv, Goto, Turn, Live, ToRegistry, entryVars, countVars, TypeOK, Pooled
  <2>4. /\ pool' \in [Key -> Entry \cup {0}]
        /\ connected' \in [Entry -> BOOLEAN]
        /\ session' \in [Entry -> {"none", "ok", "lost", "met"}]
        /\ holder' \in [Entry -> Task \cup {None}]
    BY DEF CoreInv, Goto, Turn, Live, ToRegistry, entryVars, countVars, TypeOK, TaskOK,
           Actor
  <2>5. /\ pc' \in [Actor -> Pc]
        /\ cur' \in [Actor -> Entry \cup {0}]
        /\ key' \in [Task -> Key \cup {None}]
        /\ attempt' \in [Task -> {1, 2}]
        /\ suspect' \in [Task -> Entry \cup {0}]
    BY DEF CoreInv, Goto, Turn, Live, ToRegistry, entryVars, countVars, TypeOK, TaskOK,
           Actor, UnderLock, Waiting, Pc, AtEntry, Breaking, OnRegistry
  <2>6. /\ calls' \in [Task -> 0 .. MaxCalls] /\ sweeps' \in 0 .. MaxSweeps
        /\ idle' \in SUBSET Entry /\ closed' \in BOOLEAN /\ peak' \in Nat
    BY SizeAssumption DEF CoreInv, entryVars, countVars, TypeOK
  <2>. QED  BY <2>1, <2>2, <2>3, <2>4, <2>5, <2>6 DEF TypeOK
<1>2. TaskOK'
  BY Sizes, TaskAssumption DEF CoreInv, Goto, Turn, Live, ToRegistry, entryVars,
         countVars, TypeOK, TaskOK, Actor, UnderLock, Waiting, Pc, AtEntry, Breaking,
         OnRegistry
<1>3. RegistryOK'
  BY JoinsRegistry DEF CoreInv, Goto, Turn, Live, ToRegistry, entryVars, countVars,
         TypeOK, RegistryOK, Actor, UnderLock, Waiting, Pc, AtEntry, Breaking,
         OnRegistry
<1>4. HolderOK'
  BY TaskAssumption DEF CoreInv, Goto, Turn, Live, ToRegistry, entryVars, countVars,
         TypeOK, TaskOK, HolderOK, Actor, UnderLock, Waiting, Pc, AtEntry, Breaking,
         OnRegistry
<1>5. QueueOK'
  <2>1. cur[t] \in Entry
    BY DEF CoreInv, TypeOK, TaskOK, Actor
  <2>. QED  BY <2>1, LeavesQueue DEF ToRegistry
<1>6. PoolOK'
  BY DEF CoreInv, Goto, Turn, Live, ToRegistry, entryVars, countVars, TypeOK, PoolOK
<1>7. SessionOK'
  BY DEF CoreInv, Goto, Turn, Live, ToRegistry, entryVars, countVars, TypeOK, SessionOK,
         TaskOK, UnderLock, Waiting, Pc, AtEntry, Breaking, OnRegistry
<1>8. OwnKeyOK'
  BY TaskAssumption DEF CoreInv, Goto, Turn, Live, ToRegistry, entryVars, countVars,
         TypeOK, OwnKeyOK, TaskOK, PoolOK, Actor, UnderLock, Waiting, Pc, AtEntry,
         Breaking, OnRegistry
<1>9. EvictOK'
  BY TaskAssumption DEF CoreInv, Goto, Turn, Live, ToRegistry, entryVars, countVars,
         TypeOK, EvictOK, TaskOK, Actor, Pooled, UnderLock, Waiting, Pc, AtEntry,
         Breaking, OnRegistry
<1>10. RetryOK'
  BY TaskAssumption DEF CoreInv, Goto, Turn, Live, ToRegistry, entryVars, countVars,
         TypeOK, RetryOK, TaskOK, OwnKeyOK, SessionOK, Actor, Pooled, UnderLock,
         Waiting, Pc, AtEntry, Breaking, OnRegistry
<1>11. PoolBounded'
  BY DEF CoreInv, Goto, Turn, Live, ToRegistry, entryVars, countVars, PoolBounded, Pooled
<1>. QED  BY <1>1, <1>2, <1>3, <1>4, <1>5, <1>6, <1>7, <1>8, <1>9, <1>10, <1>11 DEF CoreInv

\* A broken session is closed.
LEMMA BrokenStep ==
  ASSUME NEW t \in Task, CoreInv, Broken(t)
  PROVE  CoreInv'
<1>1. TypeOK'
  <2>1. reg' \in Seq(Actor)
    BY JoinsRegistry DEF CoreInv, Broken, Goto, ToRegistry, entryVars, countVars, TypeOK,
           TaskOK, Actor, UnderLock, Waiting, Pc, AtEntry, Breaking, OnRegistry
  <2>2. queue' \in [Entry -> Seq(Task)]
    BY KeepsQueues DEF CoreInv, Broken, Goto, ToRegistry, entryVars, countVars, TypeOK,
           TaskOK, Actor, UnderLock, Waiting, Pc, AtEntry, Breaking, OnRegistry
  <2>3. lru' \in Seq(Entry) /\ ToSet(lru') = Pooled'
    BY DEF CoreInv, Broken, Goto, ToRegistry, entryVars, countVars, TypeOK, Pooled
  <2>4. /\ pool' \in [Key -> Entry \cup {0}]
        /\ connected' \in [Entry -> BOOLEAN]
        /\ session' \in [Entry -> {"none", "ok", "lost", "met"}]
        /\ holder' \in [Entry -> Task \cup {None}]
    BY DEF CoreInv, Broken, Goto, ToRegistry, entryVars, countVars, TypeOK, TaskOK, Actor
  <2>5. /\ pc' \in [Actor -> Pc]
        /\ cur' \in [Actor -> Entry \cup {0}]
        /\ key' \in [Task -> Key \cup {None}]
        /\ attempt' \in [Task -> {1, 2}]
        /\ suspect' \in [Task -> Entry \cup {0}]
    BY DEF CoreInv, Broken, Goto, ToRegistry, entryVars, countVars, TypeOK, TaskOK, Actor,
           UnderLock, Waiting, Pc, AtEntry, Breaking, OnRegistry
  <2>6. /\ calls' \in [Task -> 0 .. MaxCalls] /\ sweeps' \in 0 .. MaxSweeps
        /\ idle' \in SUBSET Entry /\ closed' \in BOOLEAN /\ peak' \in Nat
    BY SizeAssumption DEF CoreInv, Broken, entryVars, countVars, TypeOK
  <2>. QED  BY <2>1, <2>2, <2>3, <2>4, <2>5, <2>6 DEF TypeOK
<1>2. TaskOK'
  BY Sizes, TaskAssumption DEF CoreInv, Broken, Goto, ToRegistry, entryVars, countVars,
         TypeOK, TaskOK, Actor, UnderLock, Waiting, Pc, AtEntry, Breaking, OnRegistry
<1>3. RegistryOK'
  BY JoinsRegistry DEF CoreInv, Broken, Goto, ToRegistry, entryVars, countVars, TypeOK,
         RegistryOK, Actor, UnderLock, Waiting, Pc, AtEntry, Breaking, OnRegistry
<1>4. HolderOK'
  BY TaskAssumption DEF CoreInv, Broken, Goto, ToRegistry, entryVars, countVars, TypeOK,
         TaskOK, HolderOK, Actor, UnderLock, Waiting, Pc, AtEntry, Breaking, OnRegistry
<1>5. QueueOK'
  BY KeepsQueues DEF CoreInv, Broken, Goto, ToRegistry, entryVars, countVars, TypeOK,
         QueueOK, Actor, UnderLock, Waiting, Pc, AtEntry, Breaking, OnRegistry
<1>6. PoolOK'
  BY DEF CoreInv, Broken, Goto, ToRegistry, entryVars, countVars, TypeOK, PoolOK
<1>7. SessionOK'
  BY DEF CoreInv, Broken, Goto, ToRegistry, entryVars, countVars, TypeOK, SessionOK,
         TaskOK, UnderLock, Waiting, Pc, AtEntry, Breaking, OnRegistry
<1>8. OwnKeyOK'
  BY TaskAssumption DEF CoreInv, Broken, Goto, ToRegistry, entryVars, countVars, TypeOK,
         OwnKeyOK, TaskOK, PoolOK, Actor, UnderLock, Waiting, Pc, AtEntry, Breaking,
         OnRegistry
<1>9. EvictOK'
  BY TaskAssumption DEF CoreInv, Broken, Goto, ToRegistry, entryVars, countVars, TypeOK,
         EvictOK, TaskOK, Actor, Pooled, UnderLock, Waiting, Pc, AtEntry, Breaking,
         OnRegistry
<1>10. RetryOK'
  BY TaskAssumption DEF CoreInv, Broken, Goto, ToRegistry, entryVars, countVars, TypeOK,
         RetryOK, TaskOK, OwnKeyOK, SessionOK, Actor, Pooled, UnderLock, Waiting, Pc,
         AtEntry, Breaking, OnRegistry
<1>11. PoolBounded'
  BY DEF CoreInv, Broken, Goto, ToRegistry, entryVars, countVars, PoolBounded, Pooled
<1>. QED  BY <1>1, <1>2, <1>3, <1>4, <1>5, <1>6, <1>7, <1>8, <1>9, <1>10, <1>11 DEF CoreInv

\* A call is cancelled at its await.
LEMMA TimeoutStep ==
  ASSUME NEW t \in Task, CoreInv, Timeout(t)
  PROVE  CoreInv'
<1>1. TypeOK'
  <2>1. reg' \in Seq(Actor)
    BY RemoveEffect DEF CoreInv, Timeout, TypeOK, RegistryOK
  <2>2. queue' \in [Entry -> Seq(Task)]
    <3>1. CASE pc[t] \in Waiting
      <4>1. cur[t] \in Entry
        BY <3>1 DEF CoreInv, TypeOK, TaskOK, Actor, Waiting
      <4>2. RemoveFirst(queue[cur[t]], t) \in Seq(Task)
        BY <4>1, RemoveEffect DEF CoreInv, TypeOK, QueueOK
      <4>. QED  BY <3>1, <4>1, <4>2 DEF CoreInv, TypeOK, Timeout
    <3>2. CASE pc[t] \notin Waiting
      BY <3>2 DEF CoreInv, TypeOK, Timeout
    <3>. QED  BY <3>1, <3>2
  <2>3. lru' \in Seq(Entry) /\ ToSet(lru') = Pooled'
    BY DEF CoreInv, Timeout, Done, Goto, entryVars, countVars, TypeOK, Pooled
  <2>4. /\ pool' \in [Key -> Entry \cup {0}]
        /\ connected' \in [Entry -> BOOLEAN]
        /\ session' \in [Entry -> {"none", "ok", "lost", "met"}]
        /\ holder' \in [Entry -> Task \cup {None}]
    BY DEF CoreInv, Timeout, Done, Goto, entryVars, countVars, TypeOK, TaskOK, Actor
  <2>5. /\ pc' \in [Actor -> Pc]
        /\ cur' \in [Actor -> Entry \cup {0}]
        /\ key' \in [Task -> Key \cup {None}]
        /\ attempt' \in [Task -> {1, 2}]
        /\ suspect' \in [Task -> Entry \cup {0}]
    BY DEF CoreInv, Timeout, Done, Goto, entryVars, countVars, TypeOK, TaskOK, Actor,
           UnderLock, Waiting, Pc, AtEntry, Breaking, OnRegistry
  <2>6. /\ calls' \in [Task -> 0 .. MaxCalls] /\ sweeps' \in 0 .. MaxSweeps
        /\ idle' \in SUBSET Entry /\ closed' \in BOOLEAN /\ peak' \in Nat
    BY SizeAssumption DEF CoreInv, Timeout, entryVars, countVars, TypeOK
  <2>. QED  BY <2>1, <2>2, <2>3, <2>4, <2>5, <2>6 DEF TypeOK
<1>2. TaskOK'
  BY Sizes, TaskAssumption DEF CoreInv, Timeout, Done, Goto, entryVars, countVars,
         TypeOK, TaskOK, Actor, UnderLock, Waiting, Pc, AtEntry, Breaking, OnRegistry
<1>3. RegistryOK'
  <2>1. reg' = RemoveFirst(reg, t) /\ reg \in Seq(Actor) /\ Distinct(reg)
    BY DEF CoreInv, Timeout, TypeOK, RegistryOK
  <2>2. /\ Distinct(reg') /\ ToSet(reg') = ToSet(reg) \ {t}
        /\ reg # <<>> /\ Head(reg) # t => Head(reg') = Head(reg)
    BY <2>1, RemoveEffect
  <2>3. \A u \in Actor : pc[u] = "evicting" => reg # <<>> /\ Head(reg) = u
    BY EmptyEffect DEF CoreInv, RegistryOK, OnRegistry
  <2>4. pc' = [pc EXCEPT ![t] = "idle"] /\ pc \in [Actor -> Pc]
    BY DEF CoreInv, TypeOK, Timeout, Done, Goto
  <2>. QED  BY <2>2, <2>3, <2>4 DEF CoreInv, RegistryOK, OnRegistry, Actor
<1>4. HolderOK'
  BY TaskAssumption DEF CoreInv, Timeout, Done, Goto, entryVars, countVars, TypeOK,
         TaskOK, HolderOK, Actor, UnderLock, Waiting, Pc, AtEntry, Breaking, OnRegistry
<1>5. QueueOK'
  <2>1. CASE pc[t] \in Waiting
    <3>. DEFINE c == cur[t]
    <3>1. c \in Entry /\ queue[c] \in Seq(Task) /\ Distinct(queue[c])
      <4>1. c \in Entry
        BY <2>1 DEF CoreInv, TypeOK, TaskOK, Actor, Waiting
      <4>. QED  BY <4>1 DEF CoreInv, TypeOK, QueueOK
    <3>2. /\ Distinct(RemoveFirst(queue[c], t))
          /\ ToSet(RemoveFirst(queue[c], t)) = ToSet(queue[c]) \ {t}
      BY <3>1, RemoveEffect
    <3>3. \A x \in Entry : ToSet(queue[x]) \in SUBSET Task
      BY DEF ToSet, CoreInv, TypeOK
    <3>4. \A x \in Entry : x # c => t \notin ToSet(queue[x])
      BY DEF CoreInv, QueueOK
    <3>5. queue' = [queue EXCEPT ![c] = RemoveFirst(@, t)]
      BY <2>1 DEF Timeout
    <3>. QED  BY <3>1, <3>2, <3>3, <3>4, <3>5
              DEF CoreInv, TypeOK, QueueOK, Timeout, Done, Goto, Actor
  <2>2. CASE pc[t] \notin Waiting
    BY <2>2, KeepsQueues DEF Timeout, Done, Actor
  <2>. QED  BY <2>1, <2>2
<1>6. PoolOK'
  BY DEF CoreInv, Timeout, Done, Goto, entryVars, countVars, TypeOK, PoolOK
<1>7. SessionOK'
  BY DEF CoreInv, Timeout, Done, Goto, entryVars, countVars, TypeOK, SessionOK, TaskOK,
         UnderLock, Waiting, Pc, AtEntry, Breaking, OnRegistry
<1>8. OwnKeyOK'
  BY TaskAssumption DEF CoreInv, Timeout, Done, Goto, entryVars, countVars, TypeOK,
         OwnKeyOK, TaskOK, PoolOK, Actor, UnderLock, Waiting, Pc, AtEntry, Breaking,
         OnRegistry
<1>9. EvictOK'
  BY TaskAssumption DEF CoreInv, Timeout, Done, Goto, entryVars, countVars, TypeOK,
         EvictOK, TaskOK, Actor, Pooled, UnderLock, Waiting, Pc, AtEntry, Breaking,
         OnRegistry
<1>10. RetryOK'
  BY TaskAssumption DEF CoreInv, Timeout, Done, Goto, entryVars, countVars, TypeOK,
         RetryOK, TaskOK, OwnKeyOK, SessionOK, Actor, Pooled, UnderLock, Waiting, Pc,
         AtEntry, Breaking, OnRegistry
<1>11. PoolBounded'
  BY DEF CoreInv, Timeout, Done, Goto, entryVars, countVars, PoolBounded, Pooled
<1>. QED  BY <1>1, <1>2, <1>3, <1>4, <1>5, <1>6, <1>7, <1>8, <1>9, <1>10, <1>11 DEF CoreInv

\* A transport dies.
LEMMA SessionLostStep ==
  ASSUME NEW e \in Entry, CoreInv, SessionLost(e)
  PROVE  CoreInv'
<1>1. TypeOK'
  <2>1. reg' \in Seq(Actor)
    BY DEF CoreInv, SessionLost, Drivers, entryVars, countVars, TypeOK, TaskOK, Actor,
           UnderLock, Waiting, Pc, AtEntry, Breaking, OnRegistry
  <2>2. queue' \in [Entry -> Seq(Task)]
    BY DEF CoreInv, SessionLost, Drivers, entryVars, countVars, TypeOK, TaskOK, Actor,
           UnderLock, Waiting, Pc, AtEntry, Breaking, OnRegistry
  <2>3. lru' \in Seq(Entry) /\ ToSet(lru') = Pooled'
    BY DEF CoreInv, SessionLost, Drivers, entryVars, countVars, TypeOK, Pooled
  <2>4. /\ pool' \in [Key -> Entry \cup {0}]
        /\ connected' \in [Entry -> BOOLEAN]
        /\ session' \in [Entry -> {"none", "ok", "lost", "met"}]
        /\ holder' \in [Entry -> Task \cup {None}]
    BY DEF CoreInv, SessionLost, Drivers, entryVars, countVars, TypeOK, TaskOK, Actor
  <2>5. /\ pc' \in [Actor -> Pc]
        /\ cur' \in [Actor -> Entry \cup {0}]
        /\ key' \in [Task -> Key \cup {None}]
        /\ attempt' \in [Task -> {1, 2}]
        /\ suspect' \in [Task -> Entry \cup {0}]
    BY DEF CoreInv, SessionLost, Drivers, entryVars, countVars, TypeOK, TaskOK, Actor,
           UnderLock, Waiting, Pc, AtEntry, Breaking, OnRegistry
  <2>6. /\ calls' \in [Task -> 0 .. MaxCalls] /\ sweeps' \in 0 .. MaxSweeps
        /\ idle' \in SUBSET Entry /\ closed' \in BOOLEAN /\ peak' \in Nat
    BY SizeAssumption DEF CoreInv, SessionLost, entryVars, countVars, TypeOK
  <2>. QED  BY <2>1, <2>2, <2>3, <2>4, <2>5, <2>6 DEF TypeOK
<1>2. TaskOK'
  BY Sizes, TaskAssumption DEF CoreInv, SessionLost, Drivers, entryVars, countVars,
         TypeOK, TaskOK, Actor, UnderLock, Waiting, Pc, AtEntry, Breaking, OnRegistry
<1>3. RegistryOK'
  BY DEF CoreInv, SessionLost, Drivers, entryVars, countVars, TypeOK, RegistryOK, Actor,
         UnderLock, Waiting, Pc, AtEntry, Breaking, OnRegistry
<1>4. HolderOK'
  BY TaskAssumption DEF CoreInv, SessionLost, Drivers, entryVars, countVars, TypeOK,
         TaskOK, HolderOK, Actor, UnderLock, Waiting, Pc, AtEntry, Breaking, OnRegistry
<1>5. QueueOK'
  BY DEF CoreInv, SessionLost, Drivers, entryVars, countVars, TypeOK, QueueOK, Actor,
         UnderLock, Waiting, Pc, AtEntry, Breaking, OnRegistry
<1>6. PoolOK'
  BY DEF CoreInv, SessionLost, Drivers, entryVars, countVars, TypeOK, PoolOK
<1>7. SessionOK'
  BY DEF CoreInv, SessionLost, Drivers, entryVars, countVars, TypeOK, SessionOK, TaskOK,
         UnderLock, Waiting, Pc, AtEntry, Breaking, OnRegistry
<1>8. OwnKeyOK'
  BY TaskAssumption DEF CoreInv, SessionLost, Drivers, entryVars, countVars, TypeOK,
         OwnKeyOK, TaskOK, PoolOK, Actor, UnderLock, Waiting, Pc, AtEntry, Breaking,
         OnRegistry
<1>9. EvictOK'
  BY TaskAssumption DEF CoreInv, SessionLost, Drivers, entryVars, countVars, TypeOK,
         EvictOK, TaskOK, Actor, Pooled, UnderLock, Waiting, Pc, AtEntry, Breaking,
         OnRegistry
<1>10. RetryOK'
  BY TaskAssumption DEF CoreInv, SessionLost, Drivers, entryVars, countVars, TypeOK,
         RetryOK, TaskOK, OwnKeyOK, SessionOK, Actor, Pooled, UnderLock, Waiting, Pc,
         AtEntry, Breaking, OnRegistry
<1>11. PoolBounded'
  BY DEF CoreInv, SessionLost, Drivers, entryVars, countVars, PoolBounded, Pooled
<1>. QED  BY <1>1, <1>2, <1>3, <1>4, <1>5, <1>6, <1>7, <1>8, <1>9, <1>10, <1>11 DEF CoreInv

\* A sweep begins.
LEMMA SweepStep ==
  ASSUME CoreInv, Sweep
  PROVE  CoreInv'
<1>1. TypeOK'
  <2>1. reg' \in Seq(Actor)
    BY JoinsRegistry DEF CoreInv, Sweep, ToRegistry, Goto, entryVars, countVars, TypeOK,
           TaskOK, Actor, UnderLock, Waiting, Pc, AtEntry, Breaking, OnRegistry
  <2>2. queue' \in [Entry -> Seq(Task)]
    BY KeepsQueues DEF CoreInv, Sweep, ToRegistry, Goto, entryVars, countVars, TypeOK,
           TaskOK, Actor, UnderLock, Waiting, Pc, AtEntry, Breaking, OnRegistry
  <2>3. lru' \in Seq(Entry) /\ ToSet(lru') = Pooled'
    BY DEF CoreInv, Sweep, ToRegistry, Goto, entryVars, countVars, TypeOK, Pooled
  <2>4. /\ pool' \in [Key -> Entry \cup {0}]
        /\ connected' \in [Entry -> BOOLEAN]
        /\ session' \in [Entry -> {"none", "ok", "lost", "met"}]
        /\ holder' \in [Entry -> Task \cup {None}]
    BY DEF CoreInv, Sweep, ToRegistry, Goto, entryVars, countVars, TypeOK, TaskOK, Actor
  <2>5. /\ pc' \in [Actor -> Pc]
        /\ cur' \in [Actor -> Entry \cup {0}]
        /\ key' \in [Task -> Key \cup {None}]
        /\ attempt' \in [Task -> {1, 2}]
        /\ suspect' \in [Task -> Entry \cup {0}]
    BY DEF CoreInv, Sweep, ToRegistry, Goto, entryVars, countVars, TypeOK, TaskOK, Actor,
           UnderLock, Waiting, Pc, AtEntry, Breaking, OnRegistry
  <2>6. /\ calls' \in [Task -> 0 .. MaxCalls] /\ sweeps' \in 0 .. MaxSweeps
        /\ idle' \in SUBSET Entry /\ closed' \in BOOLEAN /\ peak' \in Nat
    BY SizeAssumption DEF CoreInv, Sweep, entryVars, countVars, TypeOK
  <2>. QED  BY <2>1, <2>2, <2>3, <2>4, <2>5, <2>6 DEF TypeOK
<1>2. TaskOK'
  BY Sizes, TaskAssumption DEF CoreInv, Sweep, ToRegistry, Goto, entryVars, countVars,
         TypeOK, TaskOK, Actor, UnderLock, Waiting, Pc, AtEntry, Breaking, OnRegistry
<1>3. RegistryOK'
  BY JoinsRegistry DEF CoreInv, Sweep, ToRegistry, Goto, entryVars, countVars, TypeOK,
         RegistryOK, Actor, UnderLock, Waiting, Pc, AtEntry, Breaking, OnRegistry
<1>4. HolderOK'
  BY TaskAssumption DEF CoreInv, Sweep, ToRegistry, Goto, entryVars, countVars, TypeOK,
         TaskOK, HolderOK, Actor, UnderLock, Waiting, Pc, AtEntry, Breaking, OnRegistry
<1>5. QueueOK'
  BY KeepsQueues DEF CoreInv, Sweep, ToRegistry, Goto, entryVars, countVars, TypeOK,
         QueueOK, Actor, UnderLock, Waiting, Pc, AtEntry, Breaking, OnRegistry
<1>6. PoolOK'
  BY DEF CoreInv, Sweep, ToRegistry, Goto, entryVars, countVars, TypeOK, PoolOK
<1>7. SessionOK'
  BY DEF CoreInv, Sweep, ToRegistry, Goto, entryVars, countVars, TypeOK, SessionOK,
         TaskOK, UnderLock, Waiting, Pc, AtEntry, Breaking, OnRegistry
<1>8. OwnKeyOK'
  BY TaskAssumption DEF CoreInv, Sweep, ToRegistry, Goto, entryVars, countVars, TypeOK,
         OwnKeyOK, TaskOK, PoolOK, Actor, UnderLock, Waiting, Pc, AtEntry, Breaking,
         OnRegistry
<1>9. EvictOK'
  BY TaskAssumption DEF CoreInv, Sweep, ToRegistry, Goto, entryVars, countVars, TypeOK,
         EvictOK, TaskOK, Actor, Pooled, UnderLock, Waiting, Pc, AtEntry, Breaking,
         OnRegistry
<1>10. RetryOK'
  BY TaskAssumption DEF CoreInv, Sweep, ToRegistry, Goto, entryVars, countVars, TypeOK,
         RetryOK, TaskOK, OwnKeyOK, SessionOK, Actor, Pooled, UnderLock, Waiting, Pc,
         AtEntry, Breaking, OnRegistry
<1>11. PoolBounded'
  BY DEF CoreInv, Sweep, ToRegistry, Goto, entryVars, countVars, PoolBounded, Pooled
<1>. QED  BY <1>1, <1>2, <1>3, <1>4, <1>5, <1>6, <1>7, <1>8, <1>9, <1>10, <1>11 DEF CoreInv

\* Nothing is stale.
LEMMA SweepEmptyStep ==
  ASSUME CoreInv, AtRegistry(Monitor), Goto(Monitor, "idle", 0), reg' = Tail(reg),
         UNCHANGED <<idle, entryVars, sweeps, peak, key, attempt, calls, suspect, closed>>
  PROVE  CoreInv'
<1>1. TypeOK'
  <2>1. reg' \in Seq(Actor)
    BY LeavesRegistry DEF CoreInv, AtRegistry, Goto, entryVars, countVars, TypeOK, TaskOK,
           Actor, UnderLock, Waiting, Pc, AtEntry, Breaking, OnRegistry
  <2>2. queue' \in [Entry -> Seq(Task)]
    BY KeepsQueues DEF CoreInv, AtRegistry, Goto, entryVars, countVars, TypeOK, TaskOK,
           Actor, UnderLock, Waiting, Pc, AtEntry, Breaking, OnRegistry
  <2>3. lru' \in Seq(Entry) /\ ToSet(lru') = Pooled'
    BY DEF CoreInv, AtRegistry, Goto, entryVars, countVars, TypeOK, Pooled
  <2>4. /\ pool' \in [Key -> Entry \cup {0}]
        /\ connected' \in [Entry -> BOOLEAN]
        /\ session' \in [Entry -> {"none", "ok", "lost", "met"}]
        /\ holder' \in [Entry -> Task \cup {None}]
    BY DEF CoreInv, AtRegistry, Goto, entryVars, countVars, TypeOK, TaskOK, Actor
  <2>5. /\ pc' \in [Actor -> Pc]
        /\ cur' \in [Actor -> Entry \cup {0}]
        /\ key' \in [Task -> Key \cup {None}]
        /\ attempt' \in [Task -> {1, 2}]
        /\ suspect' \in [Task -> Entry \cup {0}]
    BY DEF CoreInv, AtRegistry, Goto, entryVars, countVars, TypeOK, TaskOK, Actor,
           UnderLock, Waiting, Pc, AtEntry, Breaking, OnRegistry
  <2>6. /\ calls' \in [Task -> 0 .. MaxCalls] /\ sweeps' \in 0 .. MaxSweeps
        /\ idle' \in SUBSET Entry /\ closed' \in BOOLEAN /\ peak' \in Nat
    BY SizeAssumption DEF CoreInv, entryVars, countVars, TypeOK
  <2>. QED  BY <2>1, <2>2, <2>3, <2>4, <2>5, <2>6 DEF TypeOK
<1>2. TaskOK'
  BY Sizes, TaskAssumption DEF CoreInv, AtRegistry, Goto, entryVars, countVars, TypeOK,
         TaskOK, Actor, UnderLock, Waiting, Pc, AtEntry, Breaking, OnRegistry
<1>3. RegistryOK'
  BY LeavesRegistry DEF CoreInv, AtRegistry, Goto, entryVars, countVars, TypeOK,
         RegistryOK, Actor, UnderLock, Waiting, Pc, AtEntry, Breaking, OnRegistry
<1>4. HolderOK'
  BY TaskAssumption DEF CoreInv, AtRegistry, Goto, entryVars, countVars, TypeOK, TaskOK,
         HolderOK, Actor, UnderLock, Waiting, Pc, AtEntry, Breaking, OnRegistry
<1>5. QueueOK'
  BY KeepsQueues DEF CoreInv, AtRegistry, Goto, entryVars, countVars, TypeOK, QueueOK,
         Actor, UnderLock, Waiting, Pc, AtEntry, Breaking, OnRegistry
<1>6. PoolOK'
  BY DEF CoreInv, AtRegistry, Goto, entryVars, countVars, TypeOK, PoolOK
<1>7. SessionOK'
  BY DEF CoreInv, AtRegistry, Goto, entryVars, countVars, TypeOK, SessionOK, TaskOK,
         UnderLock, Waiting, Pc, AtEntry, Breaking, OnRegistry
<1>8. OwnKeyOK'
  BY TaskAssumption DEF CoreInv, AtRegistry, Goto, entryVars, countVars, TypeOK,
         OwnKeyOK, TaskOK, PoolOK, Actor, UnderLock, Waiting, Pc, AtEntry, Breaking,
         OnRegistry
<1>9. EvictOK'
  BY TaskAssumption DEF CoreInv, AtRegistry, Goto, entryVars, countVars, TypeOK, EvictOK,
         TaskOK, Actor, Pooled, UnderLock, Waiting, Pc, AtEntry, Breaking, OnRegistry
<1>10. RetryOK'
  BY TaskAssumption DEF CoreInv, AtRegistry, Goto, entryVars, countVars, TypeOK, RetryOK,
         TaskOK, OwnKeyOK, SessionOK, Actor, Pooled, UnderLock, Waiting, Pc, AtEntry,
         Breaking, OnRegistry
<1>11. PoolBounded'
  BY DEF CoreInv, AtRegistry, Goto, entryVars, countVars, PoolBounded, Pooled
<1>. QED  BY <1>1, <1>2, <1>3, <1>4, <1>5, <1>6, <1>7, <1>8, <1>9, <1>10, <1>11 DEF CoreInv

\* The first of the stale entries is to be closed.
LEMMA SweepFirstStep ==
  ASSUME NEW e \in Entry, CoreInv, AtRegistry(Monitor), Goto(Monitor, "evicting", e),
         idle' \in SUBSET Entry,
         UNCHANGED <<reg, entryVars, sweeps, peak, key, attempt, calls, suspect, closed>>
  PROVE  CoreInv'
<1>1. TypeOK'
  <2>1. reg' \in Seq(Actor)
    BY DEF CoreInv, AtRegistry, Goto, entryVars, countVars, TypeOK, TaskOK, Actor,
           UnderLock, Waiting, Pc, AtEntry, Breaking, OnRegistry
  <2>2. queue' \in [Entry -> Seq(Task)]
    BY KeepsQueues DEF CoreInv, AtRegistry, Goto, entryVars, countVars, TypeOK, TaskOK,
           Actor, UnderLock, Waiting, Pc, AtEntry, Breaking, OnRegistry
  <2>3. lru' \in Seq(Entry) /\ ToSet(lru') = Pooled'
    BY DEF CoreInv, AtRegistry, Goto, entryVars, countVars, TypeOK, Pooled
  <2>4. /\ pool' \in [Key -> Entry \cup {0}]
        /\ connected' \in [Entry -> BOOLEAN]
        /\ session' \in [Entry -> {"none", "ok", "lost", "met"}]
        /\ holder' \in [Entry -> Task \cup {None}]
    BY DEF CoreInv, AtRegistry, Goto, entryVars, countVars, TypeOK, TaskOK, Actor
  <2>5. /\ pc' \in [Actor -> Pc]
        /\ cur' \in [Actor -> Entry \cup {0}]
        /\ key' \in [Task -> Key \cup {None}]
        /\ attempt' \in [Task -> {1, 2}]
        /\ suspect' \in [Task -> Entry \cup {0}]
    BY DEF CoreInv, AtRegistry, Goto, entryVars, countVars, TypeOK, TaskOK, Actor,
           UnderLock, Waiting, Pc, AtEntry, Breaking, OnRegistry
  <2>6. /\ calls' \in [Task -> 0 .. MaxCalls] /\ sweeps' \in 0 .. MaxSweeps
        /\ idle' \in SUBSET Entry /\ closed' \in BOOLEAN /\ peak' \in Nat
    BY SizeAssumption DEF CoreInv, entryVars, countVars, TypeOK
  <2>. QED  BY <2>1, <2>2, <2>3, <2>4, <2>5, <2>6 DEF TypeOK
<1>2. TaskOK'
  BY Sizes, TaskAssumption DEF CoreInv, AtRegistry, Goto, entryVars, countVars, TypeOK,
         TaskOK, Actor, UnderLock, Waiting, Pc, AtEntry, Breaking, OnRegistry
<1>3. RegistryOK'
  BY DEF CoreInv, AtRegistry, Goto, entryVars, countVars, TypeOK, RegistryOK, Actor,
         UnderLock, Waiting, Pc, AtEntry, Breaking, OnRegistry
<1>4. HolderOK'
  BY TaskAssumption DEF CoreInv, AtRegistry, Goto, entryVars, countVars, TypeOK, TaskOK,
         HolderOK, Actor, UnderLock, Waiting, Pc, AtEntry, Breaking, OnRegistry
<1>5. QueueOK'
  BY KeepsQueues DEF CoreInv, AtRegistry, Goto, entryVars, countVars, TypeOK, QueueOK,
         Actor, UnderLock, Waiting, Pc, AtEntry, Breaking, OnRegistry
<1>6. PoolOK'
  BY DEF CoreInv, AtRegistry, Goto, entryVars, countVars, TypeOK, PoolOK
<1>7. SessionOK'
  BY DEF CoreInv, AtRegistry, Goto, entryVars, countVars, TypeOK, SessionOK, TaskOK,
         UnderLock, Waiting, Pc, AtEntry, Breaking, OnRegistry
<1>8. OwnKeyOK'
  BY TaskAssumption DEF CoreInv, AtRegistry, Goto, entryVars, countVars, TypeOK,
         OwnKeyOK, TaskOK, PoolOK, Actor, UnderLock, Waiting, Pc, AtEntry, Breaking,
         OnRegistry
<1>9. EvictOK'
  BY TaskAssumption DEF CoreInv, AtRegistry, Goto, entryVars, countVars, TypeOK, EvictOK,
         TaskOK, Actor, Pooled, UnderLock, Waiting, Pc, AtEntry, Breaking, OnRegistry
<1>10. RetryOK'
  BY TaskAssumption DEF CoreInv, AtRegistry, Goto, entryVars, countVars, TypeOK, RetryOK,
         TaskOK, OwnKeyOK, SessionOK, Actor, Pooled, UnderLock, Waiting, Pc, AtEntry,
         Breaking, OnRegistry
<1>11. PoolBounded'
  BY DEF CoreInv, AtRegistry, Goto, entryVars, countVars, PoolBounded, Pooled
<1>. QED  BY <1>1, <1>2, <1>3, <1>4, <1>5, <1>6, <1>7, <1>8, <1>9, <1>10, <1>11 DEF CoreInv

\* The last stale entry is dropped.
LEMMA SweepLastStep ==
  ASSUME CoreInv, pc[Monitor] = "evicting", Drop(cur[Monitor]),
         Goto(Monitor, "idle", 0), reg' = Tail(reg),
         UNCHANGED <<idle, holder, queue, sweeps, peak, key, attempt, calls, suspect,
         closed>>
  PROVE  CoreInv'
<1>1. TypeOK'
  <2>1. reg' \in Seq(Actor)
    <3>1. Head(reg) = Monitor /\ Monitor \in Actor
      BY DEF CoreInv, RegistryOK, Actor
    <3>. QED  BY <3>1, LeavesRegistry DEF Pc, OnRegistry
  <2>2. queue' \in [Entry -> Seq(Task)]
    BY KeepsQueues DEF CoreInv, Goto, Drop, entryVars, countVars, TypeOK, TaskOK, Actor,
           UnderLock, Waiting, Pc, AtEntry, Breaking, OnRegistry
  <2>3. lru' \in Seq(Entry) /\ ToSet(lru') = Pooled'
    <3>1. cur[Monitor] \in Entry
      BY DEF CoreInv, TypeOK, TaskOK, Actor
    <3>. QED  BY <3>1, Dropped
  <2>4. /\ pool' \in [Key -> Entry \cup {0}]
        /\ connected' \in [Entry -> BOOLEAN]
        /\ session' \in [Entry -> {"none", "ok", "lost", "met"}]
        /\ holder' \in [Entry -> Task \cup {None}]
    BY DEF CoreInv, Goto, Drop, entryVars, countVars, TypeOK, TaskOK, Actor
  <2>5. /\ pc' \in [Actor -> Pc]
        /\ cur' \in [Actor -> Entry \cup {0}]
        /\ key' \in [Task -> Key \cup {None}]
        /\ attempt' \in [Task -> {1, 2}]
        /\ suspect' \in [Task -> Entry \cup {0}]
    BY DEF CoreInv, Goto, Drop, entryVars, countVars, TypeOK, TaskOK, Actor, UnderLock,
           Waiting, Pc, AtEntry, Breaking, OnRegistry
  <2>6. /\ calls' \in [Task -> 0 .. MaxCalls] /\ sweeps' \in 0 .. MaxSweeps
        /\ idle' \in SUBSET Entry /\ closed' \in BOOLEAN /\ peak' \in Nat
    BY SizeAssumption DEF CoreInv, entryVars, countVars, TypeOK
  <2>. QED  BY <2>1, <2>2, <2>3, <2>4, <2>5, <2>6 DEF TypeOK
<1>2. TaskOK'
  BY Sizes, TaskAssumption DEF CoreInv, Goto, Drop, entryVars, countVars, TypeOK, TaskOK,
         Actor, UnderLock, Waiting, Pc, AtEntry, Breaking, OnRegistry
<1>3. RegistryOK'
  BY LeavesRegistry DEF CoreInv, Goto, Drop, entryVars, countVars, TypeOK, RegistryOK,
         Actor, UnderLock, Waiting, Pc, AtEntry, Breaking, OnRegistry
<1>4. HolderOK'
  BY TaskAssumption DEF CoreInv, Goto, Drop, entryVars, countVars, TypeOK, TaskOK,
         HolderOK, Actor, UnderLock, Waiting, Pc, AtEntry, Breaking, OnRegistry
<1>5. QueueOK'
  BY KeepsQueues DEF CoreInv, Goto, Drop, entryVars, countVars, TypeOK, QueueOK, Actor,
         UnderLock, Waiting, Pc, AtEntry, Breaking, OnRegistry
<1>6. PoolOK'
  <2>1. cur[Monitor] \in Entry
    BY DEF CoreInv, TypeOK, TaskOK, Actor
  <2>. QED  BY <2>1, Dropped
<1>7. SessionOK'
  BY DEF CoreInv, Goto, Drop, entryVars, countVars, TypeOK, SessionOK, TaskOK, UnderLock,
         Waiting, Pc, AtEntry, Breaking, OnRegistry
<1>8. OwnKeyOK'
  BY TaskAssumption DEF CoreInv, Goto, Drop, entryVars, countVars, TypeOK, OwnKeyOK,
         TaskOK, PoolOK, Actor, UnderLock, Waiting, Pc, AtEntry, Breaking, OnRegistry
<1>9. EvictOK'
  <2>1. \A t \in Task : pc[t] # "evicting"
    BY TaskAssumption DEF CoreInv, RegistryOK, Actor
  <2>. QED  BY <2>1, TaskAssumption DEF CoreInv, TypeOK, EvictOK, Goto, Actor
<1>10. RetryOK'
  BY TaskAssumption DEF CoreInv, Goto, Drop, entryVars, countVars, TypeOK, RetryOK,
         TaskOK, OwnKeyOK, SessionOK, Actor, Pooled, UnderLock, Waiting, Pc, AtEntry,
         Breaking, OnRegistry
<1>11. PoolBounded'
  <2>1. cur[Monitor] \in Entry
    BY DEF CoreInv, TypeOK, TaskOK, Actor
  <2>2. Cardinality(Pooled') \in Nat /\ Cardinality(Pooled') <= Cardinality(Pooled)
    BY <2>1, Dropped, FS_CardinalityType
  <2>3. peak' \in Nat /\ peak <= peak'
    BY DEF CoreInv, TypeOK
  <2>. QED  BY <2>2, <2>3, BoundKept
<1>. QED  BY <1>1, <1>2, <1>3, <1>4, <1>5, <1>6, <1>7, <1>8, <1>9, <1>10, <1>11 DEF CoreInv

\* A stale entry is dropped and the next one is to be closed.
LEMMA SweepMoreStep ==
  ASSUME NEW e \in Entry, CoreInv, pc[Monitor] = "evicting", Drop(cur[Monitor]),
         Goto(Monitor, "evicting", e), idle' \in SUBSET Entry,
         UNCHANGED <<reg, holder, queue, sweeps, peak, key, attempt, calls, suspect,
         closed>>
  PROVE  CoreInv'
<1>1. TypeOK'
  <2>1. reg' \in Seq(Actor)
    BY DEF CoreInv, Goto, Drop, entryVars, countVars, TypeOK, TaskOK, Actor, UnderLock,
           Waiting, Pc, AtEntry, Breaking, OnRegistry
  <2>2. queue' \in [Entry -> Seq(Task)]
    BY KeepsQueues DEF CoreInv, Goto, Drop, entryVars, countVars, TypeOK, TaskOK, Actor,
           UnderLock, Waiting, Pc, AtEntry, Breaking, OnRegistry
  <2>3. lru' \in Seq(Entry) /\ ToSet(lru') = Pooled'
    <3>1. cur[Monitor] \in Entry
      BY DEF CoreInv, TypeOK, TaskOK, Actor
    <3>. QED  BY <3>1, Dropped
  <2>4. /\ pool' \in [Key -> Entry \cup {0}]
        /\ connected' \in [Entry -> BOOLEAN]
        /\ session' \in [Entry -> {"none", "ok", "lost", "met"}]
        /\ holder' \in [Entry -> Task \cup {None}]
    BY DEF CoreInv, Goto, Drop, entryVars, countVars, TypeOK, TaskOK, Actor
  <2>5. /\ pc' \in [Actor -> Pc]
        /\ cur' \in [Actor -> Entry \cup {0}]
        /\ key' \in [Task -> Key \cup {None}]
        /\ attempt' \in [Task -> {1, 2}]
        /\ suspect' \in [Task -> Entry \cup {0}]
    BY DEF CoreInv, Goto, Drop, entryVars, countVars, TypeOK, TaskOK, Actor, UnderLock,
           Waiting, Pc, AtEntry, Breaking, OnRegistry
  <2>6. /\ calls' \in [Task -> 0 .. MaxCalls] /\ sweeps' \in 0 .. MaxSweeps
        /\ idle' \in SUBSET Entry /\ closed' \in BOOLEAN /\ peak' \in Nat
    BY SizeAssumption DEF CoreInv, entryVars, countVars, TypeOK
  <2>. QED  BY <2>1, <2>2, <2>3, <2>4, <2>5, <2>6 DEF TypeOK
<1>2. TaskOK'
  BY Sizes, TaskAssumption DEF CoreInv, Goto, Drop, entryVars, countVars, TypeOK, TaskOK,
         Actor, UnderLock, Waiting, Pc, AtEntry, Breaking, OnRegistry
<1>3. RegistryOK'
  BY DEF CoreInv, Goto, Drop, entryVars, countVars, TypeOK, RegistryOK, Actor, UnderLock,
         Waiting, Pc, AtEntry, Breaking, OnRegistry
<1>4. HolderOK'
  BY TaskAssumption DEF CoreInv, Goto, Drop, entryVars, countVars, TypeOK, TaskOK,
         HolderOK, Actor, UnderLock, Waiting, Pc, AtEntry, Breaking, OnRegistry
<1>5. QueueOK'
  BY KeepsQueues DEF CoreInv, Goto, Drop, entryVars, countVars, TypeOK, QueueOK, Actor,
         UnderLock, Waiting, Pc, AtEntry, Breaking, OnRegistry
<1>6. PoolOK'
  <2>1. cur[Monitor] \in Entry
    BY DEF CoreInv, TypeOK, TaskOK, Actor
  <2>. QED  BY <2>1, Dropped
<1>7. SessionOK'
  BY DEF CoreInv, Goto, Drop, entryVars, countVars, TypeOK, SessionOK, TaskOK, UnderLock,
         Waiting, Pc, AtEntry, Breaking, OnRegistry
<1>8. OwnKeyOK'
  BY TaskAssumption DEF CoreInv, Goto, Drop, entryVars, countVars, TypeOK, OwnKeyOK,
         TaskOK, PoolOK, Actor, UnderLock, Waiting, Pc, AtEntry, Breaking, OnRegistry
<1>9. EvictOK'
  <2>1. \A t \in Task : pc[t] # "evicting"
    BY TaskAssumption DEF CoreInv, RegistryOK, Actor
  <2>. QED  BY <2>1, TaskAssumption DEF CoreInv, TypeOK, EvictOK, Goto, Actor
<1>10. RetryOK'
  BY TaskAssumption DEF CoreInv, Goto, Drop, entryVars, countVars, TypeOK, RetryOK,
         TaskOK, OwnKeyOK, SessionOK, Actor, Pooled, UnderLock, Waiting, Pc, AtEntry,
         Breaking, OnRegistry
<1>11. PoolBounded'
  <2>1. cur[Monitor] \in Entry
    BY DEF CoreInv, TypeOK, TaskOK, Actor
  <2>2. Cardinality(Pooled') \in Nat /\ Cardinality(Pooled') <= Cardinality(Pooled)
    BY <2>1, Dropped, FS_CardinalityType
  <2>3. peak' \in Nat /\ peak <= peak'
    BY DEF CoreInv, TypeOK
  <2>. QED  BY <2>2, <2>3, BoundKept
<1>. QED  BY <1>1, <1>2, <1>3, <1>4, <1>5, <1>6, <1>7, <1>8, <1>9, <1>10, <1>11 DEF CoreInv

\* Every entry is dropped.
LEMMA AcloseAllStep ==
  ASSUME CoreInv, AcloseAll
  PROVE  CoreInv'
<1>1. TypeOK'
  <2>1. reg' \in Seq(Actor)
    BY DEF CoreInv, AcloseAll, entryVars, countVars, TypeOK, TaskOK, Actor, UnderLock,
           Waiting, Pc, AtEntry, Breaking, OnRegistry
  <2>2. queue' \in [Entry -> Seq(Task)]
    BY DEF CoreInv, AcloseAll, entryVars, countVars, TypeOK, TaskOK, Actor, UnderLock,
           Waiting, Pc, AtEntry, Breaking, OnRegistry
  <2>3. lru' \in Seq(Entry) /\ ToSet(lru') = Pooled'
    <3>1. Pooled' = {} /\ lru' = <<>>
      BY DEF AcloseAll, Pooled
    <3>. QED  BY <3>1, EmptyEffect
  <2>4. /\ pool' \in [Key -> Entry \cup {0}]
        /\ connected' \in [Entry -> BOOLEAN]
        /\ session' \in [Entry -> {"none", "ok", "lost", "met"}]
        /\ holder' \in [Entry -> Task \cup {None}]
    BY DEF CoreInv, AcloseAll, entryVars, countVars, TypeOK, TaskOK, Actor
  <2>5. /\ pc' \in [Actor -> Pc]
        /\ cur' \in [Actor -> Entry \cup {0}]
        /\ key' \in [Task -> Key \cup {None}]
        /\ attempt' \in [Task -> {1, 2}]
        /\ suspect' \in [Task -> Entry \cup {0}]
    BY DEF CoreInv, AcloseAll, entryVars, countVars, TypeOK, TaskOK, Actor, UnderLock,
           Waiting, Pc, AtEntry, Breaking, OnRegistry
  <2>6. /\ calls' \in [Task -> 0 .. MaxCalls] /\ sweeps' \in 0 .. MaxSweeps
        /\ idle' \in SUBSET Entry /\ closed' \in BOOLEAN /\ peak' \in Nat
    BY SizeAssumption DEF CoreInv, AcloseAll, entryVars, countVars, TypeOK
  <2>. QED  BY <2>1, <2>2, <2>3, <2>4, <2>5, <2>6 DEF TypeOK
<1>2. TaskOK'
  BY Sizes, TaskAssumption DEF CoreInv, AcloseAll, entryVars, countVars, TypeOK, TaskOK,
         Actor, UnderLock, Waiting, Pc, AtEntry, Breaking, OnRegistry
<1>3. RegistryOK'
  BY DEF CoreInv, AcloseAll, entryVars, countVars, TypeOK, RegistryOK, Actor, UnderLock,
         Waiting, Pc, AtEntry, Breaking, OnRegistry
<1>4. HolderOK'
  BY TaskAssumption DEF CoreInv, AcloseAll, entryVars, countVars, TypeOK, TaskOK,
         HolderOK, Actor, UnderLock, Waiting, Pc, AtEntry, Breaking, OnRegistry
<1>5. QueueOK'
  BY DEF CoreInv, AcloseAll, entryVars, countVars, TypeOK, QueueOK, Actor, UnderLock,
         Waiting, Pc, AtEntry, Breaking, OnRegistry
<1>6. PoolOK'
  BY EmptyEffect DEF AcloseAll, PoolOK
<1>7. SessionOK'
  BY DEF CoreInv, AcloseAll, entryVars, countVars, TypeOK, SessionOK, TaskOK, UnderLock,
         Waiting, Pc, AtEntry, Breaking, OnRegistry
<1>8. OwnKeyOK'
  BY TaskAssumption DEF CoreInv, AcloseAll, entryVars, countVars, TypeOK, OwnKeyOK,
         TaskOK, PoolOK, Actor, UnderLock, Waiting, Pc, AtEntry, Breaking, OnRegistry
<1>9. EvictOK'
  BY TaskAssumption DEF CoreInv, AcloseAll, entryVars, countVars, TypeOK, EvictOK,
         TaskOK, Actor, Pooled, UnderLock, Waiting, Pc, AtEntry, Breaking, OnRegistry
<1>10. RetryOK'
  BY TaskAssumption DEF CoreInv, AcloseAll, entryVars, countVars, TypeOK, RetryOK,
         TaskOK, OwnKeyOK, SessionOK, Actor, Pooled, UnderLock, Waiting, Pc, AtEntry,
         Breaking, OnRegistry
<1>11. PoolBounded'
  <2>1. Pooled' = {}
    BY DEF AcloseAll, Pooled
  <2>2. Cardinality(Pooled') \in Nat /\ Cardinality(Pooled') <= Cardinality(Pooled)
    BY <2>1, FS_EmptySet, PooledTypes DEF CoreInv
  <2>3. peak' \in Nat /\ peak <= peak'
    BY DEF AcloseAll, countVars, CoreInv, TypeOK
  <2>. QED  BY <2>2, <2>3, BoundKept
<1>. QED  BY <1>1, <1>2, <1>3, <1>4, <1>5, <1>6, <1>7, <1>8, <1>9, <1>10, <1>11 DEF CoreInv

\* The entry exists.
LEMMA LookupStep ==
  ASSUME NEW t \in Task, CoreInv, Lookup(t)
  PROVE  CoreInv'
<1>. DEFINE e == pool[key[t]]
<1>1. /\ AtRegistry(t) /\ e \in Entry /\ reg' = Tail(reg)
      /\ UNCHANGED <<pool, connected, session, key, attempt, calls, suspect, closed,
                     countVars>>
  BY DEF Lookup, AtRegistry, CoreInv, TaskOK, TypeOK
<1>2. CASE Free(e) /\ holder' = [holder EXCEPT ![e] = t] /\ queue' = queue
           /\ Goto(t, IF connected[e] THEN "calling" ELSE "connecting", e)
           /\ (Touch(e) \/ lru' = lru)
  BY <1>1, <1>2, LookupFreeStep
<1>3. CASE /\ queue' = [queue EXCEPT ![e] = Append(@, t)] /\ Goto(t, "lock", e)
           /\ UNCHANGED <<holder, lru>>
  BY <1>1, <1>3, LookupLockedStep
<1>. QED  BY <1>2, <1>3 DEF Lookup

\* A reconnectable error is handled or raised.
LEMMA FailsStep ==
  ASSUME NEW t \in Task, CoreInv, Fails(t)
  PROVE  CoreInv'
<1>. DEFINE e == pool[key[t]]
            c == cur[t]
            released == [holder EXCEPT ![c] = None]
<1>1. /\ pc[t] \in {"connecting", "calling"}
      /\ UNCHANGED <<pool, session, lru, calls, closed, countVars>>
      /\ key[t] \in Key /\ e \in Entry \cup {0} /\ c \in Entry
      /\ holder \in [Entry -> Task \cup {None}]
  BY DEF Fails, CoreInv, TypeOK, TaskOK, Actor
<1>2. CASE attempt[t] = 1 /\ MarkBroken(t) /\ key' = key
           /\ attempt' = [attempt EXCEPT ![t] = 2]
           /\ suspect' = [suspect EXCEPT ![t] = IF session[c] # "none" THEN c ELSE 0]
  <2>1. CASE e # 0 /\ holder' = released /\ queue' = [queue EXCEPT ![e] = Append(@, t)]
             /\ Goto(t, "breakLock", e) /\ UNCHANGED <<reg, connected>>
    BY <1>1, <1>2, <2>1, FailsWaitsStep
  <2>2. CASE e # 0 /\ released[e] = None /\ holder' = [released EXCEPT ![e] = t]
             /\ Goto(t, "breaking", e) /\ UNCHANGED <<queue, reg, connected>>
    <3>1. e = c \/ holder[e] = None
      BY <1>1, <2>2
    <3>. QED  BY <1>1, <1>2, <2>2, <3>1, FailsBreaksStep
  <2>3. CASE ~ (e # 0 /\ Live(e)) /\ holder' = released
             /\ connected' = [x \in Entry |-> connected[x] /\ x # e]
             /\ ToRegistry(t) /\ queue' = queue
    BY <1>1, <1>2, <2>3, FailsClosedStep
  <2>. QED  BY <1>2, <2>1, <2>2, <2>3 DEF MarkBroken
<1>3. CASE holder' = released /\ Done(t) /\ UNCHANGED <<queue, reg, connected>>
  BY <1>1, <1>3, FailsRaisesStep
<1>4. Reconnects(t) => [attempt EXCEPT ![t] = @ + 1] = [attempt EXCEPT ![t] = 2]
  BY DEF Reconnects
<1>. QED  BY <1>2, <1>3, <1>4 DEF Fails, Reconnects

\* The lock of the entry to break is taken.
LEMMA TakeBreakLockStep ==
  ASSUME NEW t \in Task, CoreInv, TakeBreakLock(t)
  PROVE  CoreInv'
<1>1. CASE Live(cur[t])
  BY <1>1, BreakLiveStep DEF TakeBreakLock
<1>2. CASE ~Live(cur[t])
  BY <1>2, BreakClosedStep DEF TakeBreakLock
<1>. QED  BY <1>1, <1>2

\* The stale entries are chosen.
LEMMA SweepStartStep ==
  ASSUME CoreInv, SweepStart
  PROVE  CoreInv'
<1>1. PICK stale \in SUBSET Unlocked :
        IF stale = {}
        THEN Goto(Monitor, "idle", 0) /\ reg' = Tail(reg) /\ UNCHANGED idle
        ELSE \E e \in stale : /\ Goto(Monitor, "evicting", e)
                              /\ idle' = stale \ {e}
                              /\ UNCHANGED reg
  BY DEF SweepStart
<1>2. /\ AtRegistry(Monitor)
      /\ UNCHANGED <<entryVars, sweeps, peak, key, attempt, calls, suspect, closed>>
  BY DEF SweepStart
<1>3. stale \in SUBSET Entry
  BY PooledTypes DEF CoreInv, Unlocked
<1>4. CASE stale = {}
  BY <1>1, <1>2, <1>4, SweepEmptyStep
<1>5. CASE stale # {}
  <2>1. PICK e \in stale : /\ Goto(Monitor, "evicting", e)
                           /\ idle' = stale \ {e}
                           /\ UNCHANGED reg
    BY <1>1, <1>5
  <2>. QED  BY <1>2, <1>3, <2>1, SweepFirstStep
<1>. QED  BY <1>4, <1>5

\* A stale entry is dropped.
LEMMA SweepNextStep ==
  ASSUME CoreInv, SweepNext
  PROVE  CoreInv'
<1>1. CASE idle = {}
  BY <1>1, SweepLastStep DEF SweepNext
<1>2. CASE idle # {}
  <2>1. PICK e \in idle : /\ Goto(Monitor, "evicting", e)
                          /\ idle' = idle \ {e}
                          /\ UNCHANGED reg
    BY <1>2 DEF SweepNext
  <2>2. e \in Entry /\ idle' \in SUBSET Entry
    BY <2>1 DEF CoreInv, TypeOK
  <2>. QED  BY <2>1, <2>2, SweepMoreStep DEF SweepNext
<1>. QED  BY <1>1, <1>2

-----------------------------------------------------------------------------
(***************************************************************************)
(* The theorems.                                                               *)
(***************************************************************************)

\* The invariant holds when the pool is made.
LEMMA InitIndInv ==
  ASSUME Init
  PROVE  IndInv
<1>1. TypeOK
  <2>1. Pooled = {} /\ ToSet(lru) = {}
    BY EmptyEffect DEF Init, Pooled
  <2>2. lru \in Seq(Entry) /\ reg \in Seq(Actor) /\ queue \in [Entry -> Seq(Task)]
    BY DEF Init
  <2>3. calls \in [Task -> 0 .. MaxCalls] /\ sweeps \in 0 .. MaxSweeps
    BY SizeAssumption DEF Init
  <2>. QED  BY <2>1, <2>2, <2>3 DEF Init, TypeOK, Pc
<1>2. TaskOK /\ HolderOK /\ SessionOK /\ OwnKeyOK /\ EvictOK /\ RetryOK
  BY TaskAssumption
     DEF Init, TaskOK, HolderOK, SessionOK, OwnKeyOK, EvictOK, RetryOK, Actor, UnderLock,
         AtEntry
<1>3. RegistryOK /\ QueueOK /\ PoolOK
  BY EmptyEffect DEF Init, RegistryOK, QueueOK, PoolOK, OnRegistry
<1>4. PoolBounded
  <2>1. Pooled = {} /\ peak = 0
    BY DEF Init, Pooled
  <2>. QED  BY <2>1, FS_EmptySet, MaxOfTwo, SizeAssumption DEF PoolBounded
<1>5. PeakOK
  <2>1. InFlight = {} /\ peak = 0
    BY DEF Init, InFlight, Actor
  <2>. QED  BY <2>1, FS_EmptySet DEF PeakOK
<1>. QED  BY <1>1, <1>2, <1>3, <1>4, <1>5 DEF IndInv, CoreInv

\* Every step of Next keeps the core of the invariant ...
LEMMA NextCore ==
  ASSUME CoreInv, PeakOK, [Next]_vars
  PROVE  CoreInv'
<1>1. CASE UNCHANGED vars
  BY <1>1 DEF vars, CoreInv, TypeOK, TaskOK, RegistryOK, HolderOK, QueueOK, PoolOK,
     SessionOK,
              OwnKeyOK, EvictOK, RetryOK, PoolBounded, Pooled
<1>2. ASSUME NEW t \in Task, Step(t) \/ Timeout(t) \/ \E k \in Key : Call(t, k)
      PROVE  CoreInv'
  BY <1>2, LookupStep, CreateEntryStep, EvictStartStep, EvictDoneStep, TakeLockStep,
     ConnectStep, CallEndsStep, FailsStep, TakeBreakLockStep, BrokenStep, TimeoutStep,
     CallStep DEF Step
<1>3. ASSUME NEW e \in Entry, SessionLost(e)
      PROVE  CoreInv'
  BY <1>3, SessionLostStep
<1>4. CASE Sweep \/ MonitorStep \/ AcloseAll
  BY <1>4, SweepStep, SweepStartStep, SweepNextStep, AcloseAllStep DEF MonitorStep
<1>. QED  BY <1>1, <1>2, <1>3, <1>4 DEF Next, Stopped

\* ... and the count of the calls under way.
LEMMA NextPeak ==
  ASSUME CoreInv, PeakOK, [Next]_vars
  PROVE  PeakOK'
<1>. pc \in [Actor -> Pc] /\ TypeOK /\ \A t \in Task : t \in Actor /\ t # Monitor
  BY TaskAssumption DEF CoreInv, TypeOK, Actor
<1>1. CASE UNCHANGED vars
  BY <1>1, PeakKept DEF vars
<1>2. ASSUME NEW t \in Task, NEW k \in Key, Call(t, k)
      PROVE  PeakOK'
  BY <1>2, PeakRises
<1>3. ASSUME NEW t \in Task, Step(t) \/ Timeout(t)
      PROVE  PeakOK'
  <2>1. pc[t] # "idle" /\ peak' = peak
    <3>1. CASE Lookup(t) \/ CreateEntry(t) \/ EvictStart(t) \/ EvictDone(t)
      BY <3>1 DEF Lookup, CreateEntry, EvictStart, EvictDone, AtRegistry, Create, countVars
    <3>2. CASE TakeLock(t) \/ Connect(t) \/ CallEnds(t) \/ TakeBreakLock(t) \/ Broken(t)
      BY <3>2 DEF TakeLock, Connect, CallEnds, TakeBreakLock, Broken, countVars
    <3>3. CASE Fails(t) \/ Timeout(t)
      BY <3>3 DEF Fails, Timeout, countVars
    <3>. QED  BY <1>3, <3>1, <3>2, <3>3 DEF Step
  <2>2. \E p, e : Goto(t, p, e)
    <3>1. CASE Lookup(t) \/ CreateEntry(t) \/ EvictStart(t) \/ EvictDone(t)
      BY <3>1 DEF Lookup, CreateEntry, EvictStart, EvictDone, Create
    <3>2. CASE TakeLock(t) \/ Connect(t) \/ CallEnds(t) \/ TakeBreakLock(t) \/ Broken(t)
      BY <3>2 DEF TakeLock, Connect, CallEnds, TakeBreakLock, Broken, Done, ToRegistry
    <3>3. CASE Fails(t) \/ Timeout(t)
      BY <3>3 DEF Fails, MarkBroken, Timeout, Done, ToRegistry
    <3>. QED  BY <1>3, <3>1, <3>2, <3>3 DEF Step
  <2>3. \A u \in Task : pc'[u] # "idle" => pc[u] # "idle"
    BY <2>1, <2>2 DEF Goto
  <2>. QED  BY <2>1, <2>3, PeakKept
<1>4. ASSUME NEW e \in Entry, SessionLost(e)
      PROVE  PeakOK'
  BY <1>4, PeakKept DEF SessionLost, countVars
<1>5. CASE Sweep \/ MonitorStep
  <2>1. peak' = peak /\ \E p, e : Goto(Monitor, p, e)
    BY <1>5 DEF Sweep, MonitorStep, SweepStart, SweepNext, ToRegistry
  <2>2. \A u \in Task : pc'[u] = pc[u]
    BY <2>1 DEF Goto
  <2>. QED  BY <2>1, <2>2, PeakKept
<1>6. CASE AcloseAll
  BY <1>6, PeakKept DEF AcloseAll, countVars
<1>. QED  BY <1>1, <1>2, <1>3, <1>4, <1>5, <1>6 DEF Next, Stopped

\* IndInv is an invariant of the connection pool.
THEOREM Invariance == Spec => []IndInv
<1>1. Init => IndInv
  BY InitIndInv
<1>2. IndInv /\ [Next]_vars => IndInv'
  BY NextCore, NextPeak DEF IndInv
<1>. QED  BY <1>1, <1>2, PTL DEF Spec

\* Every variable of the pool stays in its type; in particular the order of use lists
\* exactly the pooled entries.
THEOREM TypeCorrect == Spec => []TypeOK
<1>1. IndInv => TypeOK
  BY DEF IndInv, CoreInv
<1>. QED  BY Invariance, <1>1, PTL

\* acquire and _mark_broken give every lock back and leave every queue, on each of their
\* exits and for any number of callers.
THEOREM LocksGivenBack == Spec => []LocksReleased
<1>1. IndInv => LocksReleased
  <2>1. SUFFICES ASSUME IndInv
                 PROVE  LocksReleased
    OBVIOUS
  <2>2. \A e \in Entry : \A n \in DOMAIN queue[e] : queue[e][n] \in ToSet(queue[e])
    BY DEF ToSet
  <2>. QED  BY <2>1, <2>2 DEF IndInv, CoreInv, HolderOK, QueueOK, LocksReleased
<1>. QED  BY Invariance, <1>1, PTL

\* Connect, call and the closing of a broken session never overlap on one wrapper.
THEOREM CallersTakeTurns == Spec => []CallersSerialized
<1>1. IndInv => CallersSerialized
  <2>1. SUFFICES ASSUME IndInv, NEW e \in Entry
                 PROVE  Cardinality({t \in Drivers(e) : pc[t] \in UnderLock}) <= 1
    BY DEF CallersSerialized
  <2>. DEFINE D == {t \in Drivers(e) : pc[t] \in UnderLock}
  <2>2. D \in SUBSET {holder[e]}
    <3>1. ASSUME NEW t \in D
          PROVE  t = holder[e]
      <4>1. t \in Actor /\ cur[t] = e /\ pc[t] \in UnderLock
        BY DEF Drivers
      <4>2. t \in Task
        BY <4>1, <2>1 DEF IndInv, CoreInv, TaskOK, Actor, UnderLock
      <4>. QED  BY <4>1, <4>2, <2>1 DEF IndInv, CoreInv, HolderOK
    <3>. QED  BY <3>1
  <2>3. Cardinality(D) <= Cardinality({holder[e]}) /\ Cardinality({holder[e]}) = 1
    BY <2>2, FS_Singleton, FS_Subset
  <2>. QED  BY <2>3
<1>. QED  BY Invariance, <1>1, PTL

\* The pool outgrows its configured size only when more calls overlap than it may hold,
\* and never by more than those.
THEOREM PoolStaysBounded == Spec => []PoolBounded
<1>1. IndInv => PoolBounded
  BY DEF IndInv, CoreInv
<1>. QED  BY Invariance, <1>1, PTL

\* The second attempt of a call never goes out on the session that failed the first,
\* whatever other callers, evictions and sweeps do to the entry in between.
THEOREM RetryIsFresh == Spec => []RetryOnFreshSession
<1>1. IndInv => RetryOnFreshSession
  <2>1. SUFFICES ASSUME IndInv, NEW t \in Task, pc[t] = "calling",
                        session[cur[t]] # "none", suspect[t] = cur[t]
                 PROVE  FALSE
    BY DEF RetryOnFreshSession
  <2>2. suspect[t] # 0
    BY <2>1 DEF IndInv, CoreInv, TaskOK, Actor
  <2>. QED  BY <2>1, <2>2 DEF IndInv, CoreInv, RetryOK, AtEntry
<1>. QED  BY Invariance, <1>1, PTL

=============================================================================
