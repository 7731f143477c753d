---------------------------- MODULE TimerQ_proofs ----------------------------
(***************************************************************************)
(* Proofs about TimerQ, for any timers, any pool of nodes and any contexts.*)
(*                                                                         *)
(* The model walks the lists with a recursive function. The proofs speak   *)
(* of chains instead, an injective numbering of the nodes that follows     *)
(* pNext; ChainWalk says that the walk from the head of a chain visits     *)
(* exactly its nodes, by the least number at which it could differ.        *)
(***************************************************************************)
EXTENDS TimerQ, FiniteSetTheorems, WellFoundedInduction, NaturalsInduction, TLAPS

-----------------------------------------------------------------------------
\* TIMER_QUEUE_SIZE_MAX
N == Cardinality(Nodes)

\* q is the list of m nodes that starts at h and is linked by pNext.
Chain(q, m, h) ==
  /\ m \in Nat /\ q \in [1..m -> Nodes]
  /\ \A i, j \in 1..m : q[i] = q[j] => i = j
  /\ h = IF m = 0 THEN NULL ELSE q[1]
  /\ \A i \in 1..m : pNext[q[i]] = IF i = m THEN NULL ELSE q[i + 1]

\* q is the queue and f the free list.
Lists(q, m, f, l) ==
  /\ Chain(q, m, pQHead) /\ Chain(f, l, pQPollFreeList)
  /\ pQTail = IF m = 0 THEN NULL ELSE q[m]
  /\ \A i \in 1..m, j \in 1..l : q[i] # f[j]
  /\ status = "inited" =>
       \A n \in Nodes : (\E i \in 1..m : q[i] = n) \/ (\E j \in 1..l : f[j] = n)

\* The two lists exist.
Linked == \E m, l \in Nat : \E q \in [1..m -> Nodes], f \in [1..l -> Nodes] : Lists(q, m, f, l)

-----------------------------------------------------------------------------
(***************************************************************************)
(* Walk.                                                                   *)
(***************************************************************************)
\* The k-th step of the walk from h.
WalkStep(w, h, k) == IF k = 0 THEN h ELSE IF w[k - 1] = NULL THEN NULL ELSE pNext[w[k - 1]]

\* The pool is finite.
LEMMA Size == N \in Nat /\ IsFiniteSet(Nodes)
BY TimerQAssumption, FS_CardinalityType DEF N

\* A set of numbers has a least element.
LEMMA LeastNat ==
  ASSUME NEW S, S \subseteq Nat, S # {}
  PROVE  \E x \in S : \A y \in S : x <= y
<1> DEFINE R == {ss \in Nat \X Nat : ss[1] < ss[2]}
<1>1. IsWellFoundedOn(R, Nat)
  BY NatLessThanWellFounded DEF OpToRel
<1> HIDE DEF R
<1>2. \E x \in S : \A y \in S : ~ (<<y, x>> \in R)
  BY <1>1, WFMin, Zenon
<1>3. PICK x \in S : \A y \in S : ~ (<<y, x>> \in R)
  BY <1>2
<1>4. ASSUME NEW y \in S PROVE x <= y
  <2>1. x \in Nat /\ y \in Nat /\ ~ (<<y, x>> \in R)
    BY <1>3
  <2>2. ~ (y < x)
    BY <2>1 DEF R
  <2>3. QED
    BY <2>1, <2>2
<1>5. QED
  BY <1>4

\* A function that satisfies the equation of the walk from h is the walk.
LEMMA WalkIs ==
  ASSUME NEW h, NEW W, W = [k \in 0..N |-> WalkStep(W, h, k)]
  PROVE  Walk(h) = W
<1> DEFINE IsWalk(x) == x = [k \in 0..N |-> WalkStep(x, h, k)]
<1>1. Walk(h) = CHOOSE x : IsWalk(x)
  BY DEF Walk, N, WalkStep
<1>2. IsWalk(W)
  OBVIOUS
<1>3. IsWalk(CHOOSE x : IsWalk(x))
  BY <1>2
<1> DEFINE V == CHOOSE x : IsWalk(x)
<1>4. V = [k \in 0..N |-> WalkStep(V, h, k)]
  BY <1>3
<1> HIDE DEF V
<1> DEFINE D == {k \in 0..N : V[k] # W[k]}
<1>5. SUFFICES ASSUME D # {} PROVE FALSE
  <2>1. \A k \in 0..N : V[k] = W[k]
    BY <1>5
  <2>2. V = [k \in 0..N |-> V[k]] /\ W = [k \in 0..N |-> W[k]]
    BY <1>4
  <2>3. V = W
    BY <2>1, <2>2
  <2>4. QED
    BY <1>1, <2>3 DEF V
<1>6. D \subseteq Nat
  BY Size
<1> HIDE DEF D
<1>7. PICK k \in D : \A j \in D : k <= j
  BY <1>5, <1>6, LeastNat
<1>8. k \in 0..N /\ V[k] # W[k]
  BY DEF D
<1>9. V[k] = WalkStep(V, h, k) /\ W[k] = WalkStep(W, h, k)
  BY <1>4, <1>8
<1>10. k # 0
  BY <1>8, <1>9 DEF WalkStep
<1>11. k - 1 \in 0..N /\ ~(k <= k - 1)
  BY <1>8, <1>10, Size
<1>12. k - 1 \notin D
  BY <1>7, <1>11
<1>13. V[k - 1] = W[k - 1]
  BY <1>11, <1>12 DEF D
<1>14. QED
  BY <1>8, <1>9, <1>10, <1>13 DEF WalkStep

\* A chain is not longer than the pool.
LEMMA ChainLen ==
  ASSUME NEW q, NEW m, NEW h, Chain(q, m, h)
  PROVE  m <= N
<1>1. m \in Nat /\ q \in [1..m -> Nodes] /\ \A i, j \in 1..m : q[i] = q[j] => i = j
  BY DEF Chain
<1>2. q \in Injection(1..m, Nodes)
  BY <1>1 DEF Injection, IsInjective
<1>3. Cardinality(1..m) <= N
  BY <1>2, Size, FS_Injection DEF N
<1>4. Cardinality(1..m) = m
  BY <1>1, FS_Interval
<1>5. QED
  BY <1>3, <1>4

\* The walk along a chain visits its nodes in order, then stays at NULL.
LEMMA ChainWalk ==
  ASSUME NEW q, NEW m, NEW h, Chain(q, m, h)
  PROVE  Walk(h) = [k \in 0..N |-> IF k < m THEN q[k + 1] ELSE NULL]
<1> DEFINE W == [k \in 0..N |-> IF k < m THEN q[k + 1] ELSE NULL]
<1>1. m \in Nat /\ q \in [1..m -> Nodes] /\ h = IF m = 0 THEN NULL ELSE q[1]
  BY DEF Chain
<1>2. ASSUME NEW k \in 0..N PROVE W[k] = WalkStep(W, h, k)
  <2>1. CASE k = 0
    BY <1>1, <2>1, Size DEF WalkStep
  <2>2. CASE k # 0
    <3>1. k - 1 \in 0..N /\ k \in Nat /\ (k - 1) + 1 = k
      BY <1>2, <2>2, Size
    <3>2. W[k - 1] = IF k - 1 < m THEN q[k] ELSE NULL
      BY <3>1
    <3>3. W[k] = IF k < m THEN q[k + 1] ELSE NULL
      OBVIOUS
    <3> HIDE DEF W
    <3>4. CASE k - 1 < m
      <4>1. k \in 1..m
        BY <1>1, <2>2, <3>1, <3>4
      <4>2. q[k] \in Nodes /\ q[k] # NULL
        BY <1>1, <4>1, TimerQAssumption
      <4>3. pNext[q[k]] = IF k = m THEN NULL ELSE q[k + 1]
        BY <4>1 DEF Chain
      <4>4. k = m <=> ~(k < m)
        BY <1>1, <4>1
      <4>5. W[k - 1] = q[k]
        BY <3>2, <3>4
      <4>6. QED
        BY <2>2, <3>3, <4>2, <4>3, <4>4, <4>5 DEF WalkStep
    <3>5. CASE ~(k - 1 < m)
      <4>1. ~(k < m)
        BY <1>1, <3>1, <3>5
      <4>2. QED
        BY <2>2, <3>2, <3>3, <3>5, <4>1 DEF WalkStep
    <3>6. QED
      BY <3>4, <3>5
  <2>3. QED
    BY <2>1, <2>2
<1>3. W = [k \in 0..N |-> WalkStep(W, h, k)]
  <2>1. W = [k \in 0..N |-> W[k]]
    OBVIOUS
  <2> HIDE DEF W
  <2>2. QED
    BY <1>2, <2>1
<1> HIDE DEF W
<1>4. Walk(h) = W
  BY <1>3, WalkIs
<1>5. QED
  BY <1>4 DEF W

\* What InList finds from the head of a chain: its nodes, and an end.
LEMMA ChainInList ==
  ASSUME NEW q, NEW m, NEW h, Chain(q, m, h)
  PROVE  Walk(h)[N] = NULL /\ InList(h) = {q[i] : i \in 1..m}
<1>1. m \in Nat /\ q \in [1..m -> Nodes] /\ m <= N
  BY ChainLen DEF Chain
<1> DEFINE W == Walk(h)
<1>2. W = [k \in 0..N |-> IF k < m THEN q[k + 1] ELSE NULL]
  BY ChainWalk
<1>3. InList(h) = {W[k] : k \in 0..N} \ {NULL}
  BY DEF InList, N
<1> HIDE DEF W
<1>4. W[N] = NULL
  BY <1>1, <1>2, Size
<1>5. ASSUME NEW k \in 0..N, W[k] # NULL PROVE \E i \in 1..m : q[i] = W[k]
  <2>1. k < m /\ W[k] = q[k + 1] /\ k \in Nat
    BY <1>2, <1>5, Size
  <2>2. k + 1 \in 1..m
    BY <1>1, <2>1
  <2>3. QED
    BY <2>1, <2>2
<1>6. ASSUME NEW i \in 1..m PROVE q[i] # NULL /\ \E k \in 0..N : W[k] = q[i]
  <2>1. q[i] \in Nodes /\ q[i] # NULL
    BY <1>1, TimerQAssumption
  <2>2. i - 1 \in 0..N /\ i - 1 < m /\ (i - 1) + 1 = i
    BY <1>1, Size
  <2>3. W[i - 1] = q[i]
    BY <1>2, <2>2
  <2>4. QED
    BY <2>1, <2>2, <2>3
<1>7. InList(h) = {q[i] : i \in 1..m}
  BY <1>3, <1>5, <1>6
<1>8. QED
  BY <1>4, <1>7 DEF W

\* The places of t in the queue, and what the walk finds there.
LEMMA ChainEntries ==
  ASSUME NEW q, NEW m, Chain(q, m, pQHead), NEW t
  PROVE  /\ Entries(t) = {k \in 0..(m - 1) : pRaTimer[q[k + 1]] = t}
         /\ \A k \in 0..(m - 1) : Walk(pQHead)[k] = q[k + 1]
<1>1. m \in Nat /\ q \in [1..m -> Nodes] /\ m <= N
  BY ChainLen DEF Chain
<1> DEFINE W == Walk(pQHead)
<1>2. W = [k \in 0..N |-> IF k < m THEN q[k + 1] ELSE NULL]
  BY ChainWalk
<1>3. Entries(t) = {k \in DOMAIN W : W[k] # NULL /\ pRaTimer[W[k]] = t}
  BY DEF Entries
<1> HIDE DEF W
<1>4. DOMAIN W = 0..N
  BY <1>2
<1>5. ASSUME NEW k \in 0..(m - 1) PROVE k \in 0..N /\ W[k] = q[k + 1] /\ W[k] # NULL
  <2>1. k \in 0..N /\ k < m /\ k + 1 \in 1..m
    BY <1>1, Size
  <2>2. W[k] = q[k + 1]
    BY <1>2, <2>1
  <2>3. q[k + 1] \in Nodes
    BY <1>1, <2>1
  <2>4. QED
    BY <2>1, <2>2, <2>3, TimerQAssumption
<1>6. ASSUME NEW k \in 0..N, W[k] # NULL PROVE k \in 0..(m - 1)
  <2>1. k < m /\ k \in Nat
    BY <1>2, <1>6, Size
  <2>2. QED
    BY <1>1, <2>1
<1>7. Entries(t) = {k \in 0..(m - 1) : pRaTimer[q[k + 1]] = t}
  BY <1>3, <1>4, <1>5, <1>6
<1>8. QED
  BY <1>5, <1>7 DEF W

\* t has no entry exactly when no node of the queue holds it.
EntriesOfChain ==
  \A q, m, t : Chain(q, m, pQHead) =>
    (Entries(t) = {} <=> \A i \in 1..m : pRaTimer[q[i]] # t)

\* It holds in every state.
LEMMA NoEntry == EntriesOfChain
<1>1. SUFFICES ASSUME NEW q, NEW m, NEW t, Chain(q, m, pQHead)
               PROVE  Entries(t) = {} <=> \A i \in 1..m : pRaTimer[q[i]] # t
  BY DEF EntriesOfChain
<1>2. Entries(t) = {k \in 0..(m - 1) : pRaTimer[q[k + 1]] = t} /\ m \in Nat
  <2>1. Entries(t) = {k \in 0..(m - 1) : pRaTimer[q[k + 1]] = t}
    BY <1>1, ChainEntries
  <2>2. QED
    BY <1>1, <2>1 DEF Chain
<1>3. ASSUME NEW i \in 1..m, pRaTimer[q[i]] = t PROVE Entries(t) # {}
  <2>1. i - 1 \in 0..(m - 1) /\ (i - 1) + 1 = i
    BY <1>2
  <2>2. QED
    BY <1>2, <1>3, <2>1
<1>4. ASSUME NEW k \in Entries(t) PROVE \E i \in 1..m : pRaTimer[q[i]] = t
  <2>1. k \in 0..(m - 1) /\ pRaTimer[q[k + 1]] = t
    BY <1>2
  <2>2. k + 1 \in 1..m
    BY <1>2, <2>1
  <2>3. QED
    BY <2>1, <2>2
<1>5. QED
  BY <1>3, <1>4

\* The same after a step.
LEMMA NoEntryNext ==
  ASSUME NEW q, NEW m, NEW t, Chain(q, m, pQHead)'
  PROVE  Entries(t)' = {} <=> \A i \in 1..m : pRaTimer'[q[i]] # t
<1>1. EntriesOfChain'
  BY NoEntry, PTL
<1>2. QED
  BY <1>1 DEF EntriesOfChain

\* The lists are sound when they are two chains that share out the nodes.
LEMMA LinkedSound == Linked => ListsSound
<1>1. SUFFICES ASSUME Linked, status = "inited"
               PROVE  /\ Walk(pQHead)[N] = NULL
                      /\ Walk(pQPollFreeList)[N] = NULL
                      /\ InList(pQHead) \intersect InList(pQPollFreeList) = {}
                      /\ InList(pQHead) \union InList(pQPollFreeList) = Nodes
                      /\ IF pQHead = NULL THEN pQTail = NULL
                         ELSE pQTail \in InList(pQHead) /\ pNext[pQTail] = NULL
  BY DEF ListsSound, N
<1>0. PICK m \in Nat, l \in Nat :
        \E q \in [1..m -> Nodes], f \in [1..l -> Nodes] : Lists(q, m, f, l)
  BY <1>1 DEF Linked
<1>2. PICK q \in [1..m -> Nodes], f \in [1..l -> Nodes] : Lists(q, m, f, l)
  BY <1>0
<1>3. /\ Chain(q, m, pQHead) /\ Chain(f, l, pQPollFreeList)
      /\ pQTail = IF m = 0 THEN NULL ELSE q[m]
      /\ \A i \in 1..m, j \in 1..l : q[i] # f[j]
      /\ \A n \in Nodes : (\E i \in 1..m : q[i] = n) \/ (\E j \in 1..l : f[j] = n)
  BY <1>1, <1>2 DEF Lists
<1>4. Walk(pQHead)[N] = NULL /\ InList(pQHead) = {q[i] : i \in 1..m}
  <2>1. Chain(q, m, pQHead)
    BY <1>3
  <2>2. QED
    BY <2>1, ChainInList, SMTT(30)
<1>5. Walk(pQPollFreeList)[N] = NULL /\ InList(pQPollFreeList) = {f[i] : i \in 1..l}
  <2>1. Chain(f, l, pQPollFreeList)
    BY <1>3
  <2>2. QED
    BY <2>1, ChainInList, SMTT(30)
<1>6. InList(pQHead) \intersect InList(pQPollFreeList) = {}
  BY <1>3, <1>4, <1>5
<1>7. InList(pQHead) \union InList(pQPollFreeList) = Nodes
  <2>1. InList(pQHead) \subseteq Nodes /\ InList(pQPollFreeList) \subseteq Nodes
    BY <1>2, <1>4, <1>5
  <2>2. \A n \in Nodes : n \in InList(pQHead) \/ n \in InList(pQPollFreeList)
    BY <1>3, <1>4, <1>5
  <2>3. QED
    BY <2>1, <2>2
<1>8. IF pQHead = NULL THEN pQTail = NULL
      ELSE pQTail \in InList(pQHead) /\ pNext[pQTail] = NULL
  <2>1. pQHead = IF m = 0 THEN NULL ELSE q[1]
    BY <1>3 DEF Chain
  <2>2. CASE m = 0
    BY <1>3, <2>1, <2>2
  <2>3. CASE m # 0
    <3>1. m \in 1..m /\ 1 \in 1..m
      BY <1>2, <2>3
    <3>2. q[1] \in Nodes /\ q[1] # NULL
      BY <3>1, TimerQAssumption
    <3>3. pQTail = q[m] /\ pQTail \in InList(pQHead)
      BY <1>3, <1>4, <2>3, <3>1
    <3>4. pNext[q[m]] = NULL
      BY <1>3, <3>1 DEF Chain
    <3>5. QED
      BY <2>1, <2>3, <3>2, <3>3, <3>4
  <2>4. QED
    BY <2>2, <2>3
<1>9. QED
  BY <1>4, <1>5, <1>6, <1>7, <1>8

-----------------------------------------------------------------------------
(***************************************************************************)
(* The steps on the lists.                                                 *)
(***************************************************************************)
\* Nothing on the lists changes.
LEMMA Same ==
  ASSUME Linked, UNCHANGED lists, status' = status
  PROVE  Linked' /\ \A x : Entries(x) = {} => Entries(x)' = {}
<1>0. PICK m \in Nat, l \in Nat :
        \E q \in [1..m -> Nodes], f \in [1..l -> Nodes] : Lists(q, m, f, l)
  BY DEF Linked
<1>1. PICK q \in [1..m -> Nodes], f \in [1..l -> Nodes] : Lists(q, m, f, l)
  BY <1>0
<1>2. /\ pQHead' = pQHead /\ pQTail' = pQTail /\ pQPollFreeList' = pQPollFreeList
      /\ pNext' = pNext /\ status' = status
  BY DEF lists
<1>3. Lists(q, m, f, l)'
  BY <1>1, <1>2 DEF Lists, Chain
<1>4. Linked'
  BY <1>3 DEF Linked
<1>5. ASSUME NEW x, Entries(x) = {} PROVE Entries(x)' = {}
  <2>1. Chain(q, m, pQHead) /\ Chain(q, m, pQHead)'
    BY <1>1, <1>3 DEF Lists
  <2>2. \A i \in 1..m : pRaTimer[q[i]] # x
    BY <1>5, <2>1, NoEntry DEF EntriesOfChain
  <2>3. pRaTimer' = pRaTimer
    BY DEF lists
  <2>4. QED
    BY <2>1, <2>2, <2>3, NoEntryNext
<1>6. QED
  BY <1>4, <1>5

\* The first free node becomes the last one of the queue.
LEMMA InsertLinks ==
  ASSUME Linked, NEW t \in Timers, RtmpTimerQInsert(t),
         pNext \in [Nodes -> Nodes \union {NULL}], pRaTimer \in [Nodes -> Timers \union {NULL}]
  PROVE  Linked' /\ \A x : x # t /\ Entries(x) = {} => Entries(x)' = {}
<1>0. PICK m \in Nat, l \in Nat :
        \E q \in [1..m -> Nodes], f \in [1..l -> Nodes] : Lists(q, m, f, l)
  BY DEF Linked
<1>1. PICK q \in [1..m -> Nodes], f \in [1..l -> Nodes] : Lists(q, m, f, l)
  BY <1>0
<1>2. /\ Chain(q, m, pQHead) /\ Chain(f, l, pQPollFreeList)
      /\ pQTail = IF m = 0 THEN NULL ELSE q[m]
      /\ \A i \in 1..m, j \in 1..l : q[i] # f[j]
      /\ status = "inited" =>
           \A n \in Nodes : (\E i \in 1..m : q[i] = n) \/ (\E j \in 1..l : f[j] = n)
  BY <1>1 DEF Lists
<1>3. l # 0 /\ pQPollFreeList = f[1]
  BY <1>2 DEF Chain, RtmpTimerQInsert
<1>4. 1 \in 1..l /\ f[1] \in Nodes /\ f[1] # NULL
  BY <1>1, <1>3, TimerQAssumption
<1> DEFINE n == f[1]
           Q == [i \in 1..(m + 1) |-> IF i <= m THEN q[i] ELSE n]
           F == [i \in 1..(l - 1) |-> f[i + 1]]
<1>5. /\ pQPollFreeList' = pNext[n] /\ pQTail' = n /\ status' = status
      /\ pQHead' = IF pQHead = NULL THEN n ELSE pQHead
      /\ pNext' = [x \in Nodes |-> IF x = n THEN NULL ELSE IF x = pQTail THEN n ELSE pNext[x]]
  BY <1>3 DEF RtmpTimerQInsert, stop
<1>6. m + 1 \in Nat /\ l - 1 \in Nat
  BY <1>1, <1>3
<1>7. /\ Q \in [1..(m + 1) -> Nodes] /\ Q[m + 1] = n
      /\ \A i \in 1..m : i \in 1..(m + 1) /\ Q[i] = q[i]
      /\ \A i \in 1..(m + 1) : i \in 1..m \/ i = m + 1
  BY <1>1, <1>4
<1>8. /\ F \in [1..(l - 1) -> Nodes]
      /\ \A i \in 1..(l - 1) : i + 1 \in 1..l /\ F[i] = f[i + 1]
  BY <1>1, <1>3
<1> HIDE DEF Q, F
<1>9. /\ \A i, j \in 1..m : q[i] = q[j] => i = j
      /\ \A i, j \in 1..l : f[i] = f[j] => i = j
      /\ pQHead = IF m = 0 THEN NULL ELSE q[1]
      /\ \A i \in 1..m : pNext[q[i]] = IF i = m THEN NULL ELSE q[i + 1]
      /\ \A i \in 1..l : pNext[f[i]] = IF i = l THEN NULL ELSE f[i + 1]
  BY <1>2 DEF Chain
<1>10. \A i \in 1..m : q[i] \in Nodes /\ q[i] # n /\ q[i] # NULL
  BY <1>1, <1>2, <1>4, TimerQAssumption
<1>11. \A i \in 1..(m + 1) : pNext'[Q[i]] = IF i = m + 1 THEN NULL ELSE Q[i + 1]
  <2>1. pNext'[n] = NULL
    BY <1>4, <1>5
  <2>2. ASSUME NEW i \in 1..m PROVE pNext'[q[i]] = Q[i + 1] /\ i # m + 1
    <3>1. pNext'[q[i]] = IF q[i] = pQTail THEN n ELSE pNext[q[i]]
      BY <1>5, <1>10
    <3>2. m # 0 /\ m \in 1..m /\ pQTail = q[m] /\ i # m + 1
      BY <1>1, <1>2
    <3>3. CASE i = m
      BY <1>7, <3>1, <3>2, <3>3
    <3>4. CASE i # m
      <4>1. q[i] # pQTail
        BY <1>9, <3>2, <3>4
      <4>2. i + 1 \in 1..m
        BY <1>1, <3>4
      <4>3. QED
        BY <1>7, <1>9, <3>1, <3>2, <3>4, <4>1, <4>2
    <3>5. QED
      BY <3>3, <3>4
  <2>3. QED
    BY <1>7, <2>1, <2>2
<1>12. Chain(Q, m + 1, pQHead)'
  <2>1. \A i, j \in 1..(m + 1) : Q[i] = Q[j] => i = j
    BY <1>7, <1>9, <1>10
  <2>2. pQHead' = Q[1] /\ m + 1 # 0
    <3>1. CASE m = 0
      BY <1>5, <1>7, <1>9, <3>1
    <3>2. CASE m # 0
      <4>1. 1 \in 1..m
        BY <1>1, <3>2
      <4>2. QED
        BY <1>1, <1>5, <1>7, <1>9, <1>10, <3>2, <4>1
    <3>3. QED
      BY <3>1, <3>2
  <2>3. QED
    BY <1>6, <1>7, <1>11, <2>1, <2>2 DEF Chain
<1>13. Chain(F, l - 1, pQPollFreeList)'
  <2>1. ASSUME NEW i \in 1..(l - 1) PROVE pNext'[F[i]] = IF i = l - 1 THEN NULL ELSE F[i + 1]
    <3>1. i + 1 \in 1..l /\ F[i] = f[i + 1] /\ i + 1 # 1
      BY <1>8
    <3>2. f[i + 1] \in Nodes /\ f[i + 1] # n /\ f[i + 1] # NULL
      BY <1>1, <1>4, <1>9, <3>1, TimerQAssumption
    <3>3. f[i + 1] # pQTail
      <4>1. CASE m = 0
        BY <1>2, <3>2, <4>1
      <4>2. CASE m # 0
        <5>1. m \in 1..m
          BY <1>1, <4>2
        <5>2. QED
          BY <1>2, <3>1, <4>2, <5>1
      <4>3. QED
        BY <4>1, <4>2
    <3>4. pNext'[F[i]] = pNext[f[i + 1]]
      BY <1>5, <3>1, <3>2, <3>3
    <3>5. pNext[f[i + 1]] = IF i + 1 = l THEN NULL ELSE f[(i + 1) + 1]
      BY <1>9, <3>1
    <3>6. i + 1 = l <=> i = l - 1
      BY <1>1
    <3>7. i # l - 1 => i + 1 \in 1..(l - 1)
      BY <1>1
    <3>8. i # l - 1 => F[i + 1] = f[(i + 1) + 1]
      BY <1>8, <3>7
    <3>9. QED
      BY <3>4, <3>5, <3>6, <3>8
  <2>2. ASSUME NEW i \in 1..(l - 1), NEW j \in 1..(l - 1), F[i] = F[j] PROVE i = j
    <3>1. i + 1 = j + 1
      BY <1>8, <1>9, <2>2
    <3>2. QED
      BY <3>1
  <2>3. pQPollFreeList' = IF l - 1 = 0 THEN NULL ELSE F[1]
    <3>1. pQPollFreeList' = IF 1 = l THEN NULL ELSE f[1 + 1]
      BY <1>4, <1>5, <1>9
    <3>2. CASE l = 1
      BY <3>1, <3>2
    <3>3. CASE l # 1
      <4>1. 1 \in 1..(l - 1) /\ l - 1 # 0
        BY <1>1, <1>3, <3>3
      <4>2. F[1] = f[1 + 1]
        BY <1>8, <4>1
      <4>3. QED
        BY <3>1, <3>3, <4>1, <4>2
    <3>4. QED
      BY <3>2, <3>3
  <2>4. QED
    BY <1>6, <1>8, <2>1, <2>2, <2>3 DEF Chain
<1>14. pQTail' = IF m + 1 = 0 THEN NULL ELSE Q[m + 1]
  BY <1>1, <1>5, <1>7
<1>15. \A i \in 1..(m + 1), j \in 1..(l - 1) : Q[i] # F[j]
  <2>1. \A j \in 1..(l - 1) : j + 1 # 1
    OBVIOUS
  <2>2. \A j \in 1..(l - 1) : F[j] # n
    BY <1>4, <1>8, <1>9, <2>1
  <2>3. QED
    BY <1>2, <1>7, <1>8, <2>2
<1>16. status = "inited" =>
         \A x \in Nodes : (\E i \in 1..(m + 1) : Q[i] = x) \/ (\E j \in 1..(l - 1) : F[j] = x)
  <2>1. SUFFICES ASSUME status = "inited", NEW x \in Nodes
                 PROVE  (\E i \in 1..(m + 1) : Q[i] = x) \/ (\E j \in 1..(l - 1) : F[j] = x)
    OBVIOUS
  <2>2. CASE \E i \in 1..m : q[i] = x
    BY <1>7, <2>2
  <2>3. ASSUME NEW j \in 1..l, f[j] = x PROVE (\E i \in 1..(m + 1) : Q[i] = x) \/ (\E i \in 1..(l - 1) : F[i] = x)
    <3>1. CASE j = 1
      <4>1. m + 1 \in 1..(m + 1)
        BY <1>1
      <4>2. QED
        BY <1>7, <2>3, <3>1, <4>1
    <3>2. CASE j # 1
      <4>1. j - 1 \in 1..(l - 1) /\ (j - 1) + 1 = j
        BY <1>1, <3>2
      <4>2. QED
        BY <1>8, <2>3, <4>1
    <3>3. QED
      BY <3>1, <3>2
  <2>4. QED
    BY <1>2, <2>1, <2>2, <2>3
<1>17. Lists(Q, m + 1, F, l - 1)'
  BY <1>5, <1>12, <1>13, <1>14, <1>15, <1>16 DEF Lists
<1>18. Linked'
  BY <1>6, <1>7, <1>8, <1>17 DEF Linked
<1>19. ASSUME NEW x, x # t, Entries(x) = {} PROVE Entries(x)' = {}
  <2>1. \A i \in 1..m : pRaTimer[q[i]] # x
    BY <1>2, <1>19, NoEntry DEF EntriesOfChain
  <2>2. pRaTimer' = [pRaTimer EXCEPT ![n] = t]
    BY <1>3 DEF RtmpTimerQInsert
  <2>3. pRaTimer'[n] = t /\ \A i \in 1..m : pRaTimer'[q[i]] = pRaTimer[q[i]]
    BY <1>4, <1>10, <2>2
  <2>4. \A i \in 1..(m + 1) : pRaTimer'[Q[i]] # x
    BY <1>7, <1>19, <2>1, <2>3
  <2>5. QED
    BY <1>12, <2>4, NoEntryNext
<1>20. QED
  BY <1>18, <1>19

\* The K-th node of the queue, the head or any other, becomes the first free one.
Unlinked(q, m, K) ==
  /\ pQHead' = IF K = 1 THEN pNext[q[1]] ELSE pQHead
  /\ pQTail' = IF K = m THEN (IF K = 1 THEN NULL ELSE q[K - 1]) ELSE pQTail
  /\ pNext' = [x \in Nodes |-> IF x = q[K] THEN pQPollFreeList
                               ELSE IF K # 1 /\ x = q[K - 1] THEN pNext[q[K]] ELSE pNext[x]]
  /\ pQPollFreeList' = q[K] /\ pRaTimer' = pRaTimer /\ status' = status

\* Both lists stay chains; a timer that only the unlinked node held has no entry left.
LEMMA UnlinkLinks ==
  ASSUME NEW m \in Nat, NEW l \in Nat, NEW q \in [1..m -> Nodes], NEW f \in [1..l -> Nodes],
         Lists(q, m, f, l), NEW K \in 1..m, Unlinked(q, m, K)
  PROVE  /\ Linked'
         /\ \A x : (\A i \in 1..m : i # K => pRaTimer[q[i]] # x) => Entries(x)' = {}
<1>0. /\ pQHead' = IF K = 1 THEN pNext[q[1]] ELSE pQHead
      /\ pQTail' = IF K = m THEN (IF K = 1 THEN NULL ELSE q[K - 1]) ELSE pQTail
      /\ pNext' = [x \in Nodes |-> IF x = q[K] THEN pQPollFreeList
                                   ELSE IF K # 1 /\ x = q[K - 1] THEN pNext[q[K]] ELSE pNext[x]]
      /\ pQPollFreeList' = q[K] /\ pRaTimer' = pRaTimer /\ status' = status
  BY DEF Unlinked
<1> USE <1>0
<1>1. /\ Chain(q, m, pQHead) /\ Chain(f, l, pQPollFreeList)
      /\ pQTail = IF m = 0 THEN NULL ELSE q[m]
      /\ \A i \in 1..m, j \in 1..l : q[i] # f[j]
      /\ status = "inited" =>
           \A n \in Nodes : (\E i \in 1..m : q[i] = n) \/ (\E j \in 1..l : f[j] = n)
  BY DEF Lists
<1>2. /\ \A i, j \in 1..m : q[i] = q[j] => i = j
      /\ \A i, j \in 1..l : f[i] = f[j] => i = j
      /\ pQHead = IF m = 0 THEN NULL ELSE q[1]
      /\ pQPollFreeList = IF l = 0 THEN NULL ELSE f[1]
      /\ \A i \in 1..m : pNext[q[i]] = IF i = m THEN NULL ELSE q[i + 1]
      /\ \A i \in 1..l : pNext[f[i]] = IF i = l THEN NULL ELSE f[i + 1]
  BY <1>1 DEF Chain
<1> DEFINE n == q[K]
           Q == [i \in 1..(m - 1) |-> IF i < K THEN q[i] ELSE q[i + 1]]
           F == [i \in 1..(l + 1) |-> IF i = 1 THEN n ELSE f[i - 1]]
<1>3. m - 1 \in Nat /\ l + 1 \in Nat /\ n \in Nodes /\ n # NULL /\ K \in Nat
  BY TimerQAssumption
<1>4. \A i \in 1..(m - 1) : i \in 1..m /\ i + 1 \in 1..m /\ i \in Nat
  OBVIOUS
<1>5. /\ Q \in [1..(m - 1) -> Nodes]
      /\ \A i \in 1..(m - 1) : Q[i] = IF i < K THEN q[i] ELSE q[i + 1]
  BY <1>4
<1>6. /\ F \in [1..(l + 1) -> Nodes] /\ F[1] = n /\ 1 \in 1..(l + 1)
      /\ \A i \in 1..l : i + 1 \in 1..(l + 1) /\ F[i + 1] = f[i]
      /\ \A i \in 1..(l + 1) : i = 1 \/ (i - 1 \in 1..l /\ (i - 1) + 1 = i)
  <2>1. \A i \in 1..(l + 1) : i # 1 => i - 1 \in 1..l /\ (i - 1) + 1 = i
    OBVIOUS
  <2>2. F \in [1..(l + 1) -> Nodes]
    BY <1>3, <2>1
  <2>3. \A i \in 1..l : i + 1 \in 1..(l + 1) /\ i + 1 # 1 /\ (i + 1) - 1 = i
    OBVIOUS
  <2>4. 1 \in 1..(l + 1)
    OBVIOUS
  <2>5. QED
    BY <2>1, <2>2, <2>3, <2>4
<1>7. \A i \in 1..m : q[i] \in Nodes /\ q[i] # NULL /\ (i # K => q[i] # n)
  BY <1>2, TimerQAssumption
<1>8. \A i \in 1..l : f[i] \in Nodes /\ f[i] # NULL /\ f[i] # n
  BY <1>1, TimerQAssumption
<1> HIDE DEF Q, F
<1>9. pNext'[n] = pQPollFreeList
  BY <1>3
<1>10. ASSUME NEW i \in 1..m, i # K
       PROVE  pNext'[q[i]] = IF i = K - 1 THEN pNext[n] ELSE pNext[q[i]]
  <2>1. pNext'[q[i]] = IF K # 1 /\ q[i] = q[K - 1] THEN pNext[n] ELSE pNext[q[i]]
    BY <1>7, <1>10
  <2>2. CASE K = 1
    <3>1. i # K - 1
      BY <2>2
    <3>2. QED
      BY <2>1, <2>2, <3>1
  <2>3. CASE K # 1
    <3>1. K - 1 \in 1..m
      BY <2>3
    <3>2. q[i] = q[K - 1] <=> i = K - 1
      BY <1>2, <3>1
    <3>3. QED
      BY <2>1, <2>3, <3>2
  <2>4. QED
    BY <2>2, <2>3
<1>11. ASSUME NEW i \in 1..l PROVE pNext'[f[i]] = pNext[f[i]]
  <2>1. K # 1 => K - 1 \in 1..m
    OBVIOUS
  <2>2. K # 1 => f[i] # q[K - 1]
    BY <1>1, <2>1
  <2>3. QED
    BY <1>8, <2>2
<1>12. ASSUME NEW i \in 1..(m - 1)
       PROVE  pNext'[Q[i]] = IF i = m - 1 THEN NULL ELSE Q[i + 1]
  <2>1. i \in 1..m /\ i + 1 \in 1..m /\ i \in Nat
    BY <1>4
  <2>2. i # m - 1 => i + 1 \in 1..(m - 1)
    OBVIOUS
  <2>3. CASE i < K - 1
    <3>1. i # K /\ i # K - 1 /\ i < K /\ i + 1 < K /\ i # m /\ i # m - 1
      BY <1>3, <2>3
    <3>2. Q[i] = q[i] /\ Q[i + 1] = q[i + 1]
      BY <1>5, <2>2, <3>1
    <3>3. QED
      BY <1>2, <1>10, <2>1, <3>1, <3>2
  <2>4. CASE i = K - 1
    <3>1. i # K /\ i < K /\ ~(i + 1 < K) /\ (i = m - 1 <=> K = m) /\ i + 1 = K
      BY <1>3, <2>4
    <3>2. Q[i] = q[i] /\ (i # m - 1 => Q[i + 1] = q[K + 1])
      BY <1>5, <2>2, <3>1
    <3>3. pNext'[q[i]] = pNext[n]
      BY <1>10, <2>1, <2>4, <3>1
    <3>4. pNext[n] = IF K = m THEN NULL ELSE q[K + 1]
      BY <1>2
    <3>5. QED
      BY <3>1, <3>2, <3>3, <3>4
  <2>5. CASE ~(i < K)
    <3>1. i + 1 # K /\ i + 1 # K - 1 /\ ~(i + 1 < K) /\ (i = m - 1 <=> i + 1 = m)
      BY <1>3, <2>1, <2>5
    <3>2. Q[i] = q[i + 1] /\ (i # m - 1 => Q[i + 1] = q[(i + 1) + 1])
      BY <1>5, <2>2, <2>5, <3>1
    <3>3. pNext'[q[i + 1]] = pNext[q[i + 1]]
      BY <1>10, <2>1, <3>1
    <3>4. pNext[q[i + 1]] = IF i + 1 = m THEN NULL ELSE q[(i + 1) + 1]
      BY <1>2, <2>1
    <3>5. QED
      BY <3>1, <3>2, <3>3, <3>4
  <2>6. i < K - 1 \/ i = K - 1 \/ ~(i < K)
    BY <1>3, <2>1
  <2>7. QED
    BY <2>3, <2>4, <2>5, <2>6
<1>13. Chain(Q, m - 1, pQHead)'
  <2>1. ASSUME NEW i \in 1..(m - 1), NEW j \in 1..(m - 1), Q[i] = Q[j] PROVE i = j
    <3> DEFINE a == IF i < K THEN i ELSE i + 1
               b == IF j < K THEN j ELSE j + 1
    <3>1. a \in 1..m /\ b \in 1..m /\ Q[i] = q[a] /\ Q[j] = q[b]
      BY <1>4, <1>5
    <3>2. a = b
      BY <1>2, <2>1, <3>1
    <3>3. QED
      BY <1>3, <1>4, <3>2
  <2>2. pQHead' = IF m - 1 = 0 THEN NULL ELSE Q[1]
    <3>0. m # 0 /\ 1 \in 1..m /\ m \in 1..m
      OBVIOUS
    <3>1. CASE K = 1
      <4>1. pQHead' = IF 1 = m THEN NULL ELSE q[1 + 1]
        BY <1>2, <3>0, <3>1
      <4>2. m # 1 => 1 \in 1..(m - 1) /\ ~(1 < K)
        BY <3>0, <3>1
      <4>3. m # 1 => Q[1] = q[1 + 1]
        BY <1>5, <4>2
      <4>4. QED
        BY <4>1, <4>3
    <3>2. CASE K # 1
      <4>1. 1 \in 1..(m - 1) /\ 1 < K /\ m - 1 # 0
        BY <3>2
      <4>2. Q[1] = q[1]
        BY <1>5, <4>1
      <4>3. QED
        BY <1>2, <3>0, <3>2, <4>1, <4>2
    <3>3. QED
      BY <3>1, <3>2
  <2>3. QED
    BY <1>3, <1>5, <1>12, <2>1, <2>2 DEF Chain
<1>14. Chain(F, l + 1, pQPollFreeList)'
  <2>1. ASSUME NEW i \in 1..(l + 1)
        PROVE  pNext'[F[i]] = IF i = l + 1 THEN NULL ELSE F[i + 1]
    <3>1. CASE i = 1
      <4>1. pNext'[F[i]] = IF l = 0 THEN NULL ELSE f[1]
        BY <1>2, <1>6, <1>9, <3>1
      <4>2. l # 0 => 1 \in 1..l
        OBVIOUS
      <4>3. l # 0 => F[1 + 1] = f[1]
        BY <1>6, <4>2
      <4>4. QED
        BY <3>1, <4>1, <4>3
    <3>2. CASE i # 1
      <4>1. i - 1 \in 1..l /\ (i - 1) + 1 = i
        BY <1>6, <3>2
      <4>2. F[i] = f[i - 1]
        BY <1>6, <4>1
      <4>3. pNext'[F[i]] = IF i - 1 = l THEN NULL ELSE f[i]
        <5> DEFINE p == i - 1
        <5>1. p \in 1..l /\ p + 1 = i /\ F[i] = f[p]
          BY <4>1, <4>2
        <5> HIDE DEF p
        <5>2. pNext'[f[p]] = pNext[f[p]]
          BY <1>11, <5>1
        <5>3. pNext[f[p]] = IF p = l THEN NULL ELSE f[p + 1]
          BY <1>2, <5>1
        <5>4. QED
          BY <5>1, <5>2, <5>3 DEF p
      <4>4. i # l + 1 => i \in 1..l
        OBVIOUS
      <4>5. i # l + 1 => F[i + 1] = f[i]
        BY <1>6, <4>4
      <4>6. i - 1 = l <=> i = l + 1
        OBVIOUS
      <4>7. QED
        BY <4>3, <4>5, <4>6
    <3>3. QED
      BY <3>1, <3>2
  <2>2. ASSUME NEW i \in 1..(l + 1), NEW j \in 1..(l + 1), F[i] = F[j] PROVE i = j
    <3>1. \A k \in 1..(l + 1) : k # 1 => F[k] = f[k - 1] /\ F[k] # n /\ k - 1 \in 1..l
      <4>1. SUFFICES ASSUME NEW k \in 1..(l + 1), k # 1
                     PROVE  F[k] = f[k - 1] /\ F[k] # n /\ k - 1 \in 1..l
        OBVIOUS
      <4> DEFINE p == k - 1
      <4>2. p \in 1..l /\ p + 1 = k
        BY <1>6, <4>1
      <4> HIDE DEF p
      <4>3. F[p + 1] = f[p] /\ f[p] # n
        BY <1>6, <1>8, <4>2
      <4>4. QED
        BY <4>2, <4>3 DEF p
    <3>2. CASE i = 1 \/ j = 1
      BY <1>6, <2>2, <3>1, <3>2
    <3>3. CASE i # 1 /\ j # 1
      <4>1. i - 1 = j - 1
        BY <1>2, <2>2, <3>1, <3>3
      <4>2. QED
        BY <4>1
    <3>4. QED
      BY <3>2, <3>3
  <2>3. pQPollFreeList' = F[1] /\ l + 1 # 0
    BY <1>6
  <2>4. QED
    BY <1>3, <1>6, <2>1, <2>2, <2>3 DEF Chain
<1>15. pQTail' = IF m - 1 = 0 THEN NULL ELSE Q[m - 1]
  <2>0. m # 0
    OBVIOUS
  <2>1. CASE K = m
    <3>1. CASE m = 1
      BY <2>1, <3>1
    <3>2. CASE m # 1
      <4>1. m - 1 \in 1..(m - 1) /\ m - 1 < K
        BY <2>0, <2>1, <3>2
      <4>2. Q[m - 1] = q[m - 1]
        BY <1>5, <4>1
      <4>3. QED
        BY <2>1, <3>2, <4>2
    <3>3. QED
      BY <3>1, <3>2
  <2>2. CASE K # m
    <3>1. m - 1 \in 1..(m - 1) /\ ~(m - 1 < K) /\ m - 1 # 0 /\ (m - 1) + 1 = m
      BY <2>2
    <3>2. Q[m - 1] = q[m]
      BY <1>5, <3>1
    <3>3. QED
      BY <1>1, <2>0, <2>2, <3>1, <3>2
  <2>3. QED
    BY <2>1, <2>2
<1>16. \A i \in 1..(m - 1), j \in 1..(l + 1) : Q[i] # F[j]
  <2>1. SUFFICES ASSUME NEW i \in 1..(m - 1), NEW j \in 1..(l + 1) PROVE Q[i] # F[j]
    OBVIOUS
  <2>2. PICK a \in 1..m : a # K /\ Q[i] = q[a]
    <3>1. CASE i < K
      BY <1>3, <1>4, <1>5, <3>1
    <3>2. CASE ~(i < K)
      <4>1. i + 1 # K
        BY <1>3, <1>4, <3>2
      <4>2. QED
        BY <1>4, <1>5, <3>2, <4>1
    <3>3. QED
      BY <3>1, <3>2
  <2>3. QED
    BY <1>1, <1>6, <1>7, <2>2
<1>17. status = "inited" =>
         \A x \in Nodes : (\E i \in 1..(m - 1) : Q[i] = x) \/ (\E j \in 1..(l + 1) : F[j] = x)
  <2>1. SUFFICES ASSUME status = "inited", NEW x \in Nodes
                 PROVE  (\E i \in 1..(m - 1) : Q[i] = x) \/ (\E j \in 1..(l + 1) : F[j] = x)
    OBVIOUS
  <2>2. CASE \E j \in 1..l : f[j] = x
    BY <1>6, <2>2
  <2>3. ASSUME NEW i \in 1..m, q[i] = x
        PROVE  (\E k \in 1..(m - 1) : Q[k] = x) \/ (\E j \in 1..(l + 1) : F[j] = x)
    <3>1. CASE i = K
      BY <1>6, <2>3, <3>1
    <3>2. CASE i < K
      <4>1. i \in 1..(m - 1)
        BY <3>2
      <4>2. QED
        BY <1>5, <2>3, <3>2, <4>1
    <3>3. CASE i > K
      <4>1. i - 1 \in 1..(m - 1) /\ ~(i - 1 < K) /\ (i - 1) + 1 = i
        BY <3>3
      <4>2. QED
        BY <1>5, <2>3, <4>1
    <3>4. i = K \/ i < K \/ i > K
      BY <1>3
    <3>5. QED
      BY <3>1, <3>2, <3>3, <3>4
  <2>4. QED
    BY <1>1, <2>1, <2>2, <2>3
<1>18. Lists(Q, m - 1, F, l + 1)'
  BY <1>13, <1>14, <1>15, <1>16, <1>17 DEF Lists
<1>19. Linked'
  BY <1>3, <1>5, <1>6, <1>18 DEF Linked
<1>20. ASSUME NEW x, \A i \in 1..m : i # K => pRaTimer[q[i]] # x PROVE Entries(x)' = {}
  <2>1. ASSUME NEW i \in 1..(m - 1) PROVE pRaTimer[Q[i]] # x
    <3>1. CASE i < K
      <4>1. i # K /\ i \in 1..m /\ Q[i] = q[i]
        BY <1>3, <1>4, <1>5, <3>1
      <4>2. QED
        BY <1>20, <4>1
    <3>2. CASE ~(i < K)
      <4>1. i + 1 # K /\ i + 1 \in 1..m /\ Q[i] = q[i + 1]
        BY <1>3, <1>4, <1>5, <3>2
      <4>2. QED
        BY <1>20, <4>1
    <3>3. QED
      BY <3>1, <3>2
  <2>2. QED
    BY <1>13, <2>1, NoEntryNext
<1>21. QED
  BY <1>19, <1>20

\* Where a chain starts.
LEMMA Heads ==
  ASSUME NEW q, NEW m, NEW h, Chain(q, m, h)
  PROVE  h \in Nodes \union {NULL}
<1>1. CASE m = 0
  BY <1>1 DEF Chain
<1>2. CASE m # 0
  <2>1. m \in Nat /\ q \in [1..m -> Nodes] /\ h = q[1]
    BY <1>2 DEF Chain
  <2>2. 1 \in 1..m
    BY <1>2, <2>1
  <2>3. QED
    BY <2>1, <2>2
<1>3. QED
  BY <1>1, <1>2

\* A set of at most one element.
LEMMA AtMostOne ==
  ASSUME NEW S, IsFiniteSet(S), ~(Cardinality(S) > 1), NEW a \in S, NEW b \in S
  PROVE  a = b
<1>1. Cardinality(S) \in Nat /\ Cardinality(S) # 0
  BY FS_CardinalityType, FS_EmptySet
<1>2. Cardinality(S) = 1
  BY <1>1
<1>3. \E x : S = {x}
  BY <1>2, FS_Singleton
<1>4. QED
  BY <1>3

\* RtmpTimerQRemove unlinks the first entry of t; it has no other one left if it
\* had at most one.
LEMMA RemoveLinks ==
  ASSUME Linked, NEW t, RtmpTimerQRemove(t), status' = status,
         pNext \in [Nodes -> Nodes \union {NULL}]
  PROVE  /\ Linked' /\ pNext' \in [Nodes -> Nodes \union {NULL}] /\ pRaTimer' = pRaTimer
         /\ \A x : Entries(x) = {} => Entries(x)' = {}
         /\ ~(Cardinality(Entries(t)) > 1) => Entries(t)' = {}
<1>1. CASE Entries(t) = {}
  <2>1. UNCHANGED lists
    BY <1>1 DEF RtmpTimerQRemove
  <2>2. pNext' = pNext /\ pRaTimer' = pRaTimer
    BY <2>1 DEF lists
  <2>3. QED
    BY <1>1, <2>1, <2>2, Same
<1>2. CASE Entries(t) # {}
  <2>1. PICK m \in Nat, l \in Nat :
          \E q \in [1..m -> Nodes], f \in [1..l -> Nodes] : Lists(q, m, f, l)
    BY DEF Linked
  <2>2. PICK q \in [1..m -> Nodes], f \in [1..l -> Nodes] : Lists(q, m, f, l)
    BY <2>1
  <2>3. Chain(q, m, pQHead) /\ pQTail = IF m = 0 THEN NULL ELSE q[m]
    BY <2>2 DEF Lists
  <2>4. /\ Entries(t) = {k \in 0..(m - 1) : pRaTimer[q[k + 1]] = t}
        /\ \A k \in 0..(m - 1) : Walk(pQHead)[k] = q[k + 1]
    BY <2>3, ChainEntries, ZenonT(30)
  <2>5. /\ \A i, j \in 1..m : q[i] = q[j] => i = j
        /\ pQHead = IF m = 0 THEN NULL ELSE q[1]
    BY <2>3 DEF Chain
  <2> DEFINE k == CHOOSE k \in Entries(t) : \A j \in Entries(t) : k <= j
             K == k + 1
             n == Walk(pQHead)[k]
             prev == IF k = 0 THEN NULL ELSE Walk(pQHead)[k - 1]
  <2>6. Entries(t) \subseteq Nat
    BY <2>4
  <2>7. k \in Entries(t)
    BY <1>2, <2>6, LeastNat
  <2>8. /\ pQHead' = IF n = pQHead THEN pNext[n] ELSE pQHead
        /\ pQTail' = NewTail(n, prev)
        /\ pNext' = [x \in Nodes |-> IF x = n THEN pQPollFreeList
                                     ELSE IF x = prev THEN pNext[n] ELSE pNext[x]]
        /\ pQPollFreeList' = n
        /\ pRaTimer' = pRaTimer
    BY <1>2 DEF RtmpTimerQRemove
  <2> HIDE DEF k
  <2>9. k \in 0..(m - 1) /\ k \in Nat /\ K \in 1..m /\ (K = 1 <=> k = 0) /\ K - 1 = k
    BY <2>4, <2>7
  <2>10. n = q[K] /\ pRaTimer[q[K]] = t
    BY <2>4, <2>7, <2>9
  <2>11. prev = IF K = 1 THEN NULL ELSE q[K - 1]
    <3>1. CASE k = 0
      BY <2>9, <3>1
    <3>2. CASE k # 0
      <4>1. k - 1 \in 0..(m - 1) /\ (k - 1) + 1 = k
        BY <2>9, <3>2
      <4>2. Walk(pQHead)[k - 1] = q[k]
        BY <2>4, <4>1
      <4>3. QED
        BY <2>9, <3>2, <4>2
    <3>3. QED
      BY <3>1, <3>2
  <2> HIDE DEF K, n, prev
  <2>12. m # 0 /\ 1 \in 1..m /\ m \in 1..m
    BY <2>9
  <2>13. (n = pQHead <=> K = 1) /\ (n = pQTail <=> K = m)
    BY <2>3, <2>5, <2>9, <2>10, <2>12
  <2>14. pQHead' = IF K = 1 THEN pNext[q[1]] ELSE pQHead
    BY <2>8, <2>10, <2>13
  <2>15. pQTail' = IF K = m THEN (IF K = 1 THEN NULL ELSE q[K - 1]) ELSE pQTail
    BY <2>8, <2>11, <2>13 DEF NewTail
  <2>16. pNext' = [x \in Nodes |-> IF x = q[K] THEN pQPollFreeList
                                   ELSE IF K # 1 /\ x = q[K - 1] THEN pNext[q[K]] ELSE pNext[x]]
    <3>1. \A x \in Nodes : x = prev <=> K # 1 /\ x = q[K - 1]
      BY <2>11, TimerQAssumption
    <3>2. QED
      BY <2>8, <2>10, <3>1
  <2>17. /\ Linked'
         /\ \A x : (\A i \in 1..m : i # K => pRaTimer[q[i]] # x) => Entries(x)' = {}
    <3>1. Unlinked(q, m, K)
      BY <2>8, <2>10, <2>14, <2>15, <2>16 DEF Unlinked
    <3>2. QED
      BY <2>2, <2>9, <3>1, UnlinkLinks
  <2>18. ASSUME NEW x, Entries(x) = {} PROVE Entries(x)' = {}
    <3>1. \A i \in 1..m : pRaTimer[q[i]] # x
      BY <2>3, <2>18, NoEntry DEF EntriesOfChain
    <3>2. QED
      BY <2>17, <3>1
  <2>19. ASSUME ~(Cardinality(Entries(t)) > 1) PROVE Entries(t)' = {}
    <3>1. IsFiniteSet(Entries(t))
      <4>1. Entries(t) \in SUBSET (0..(m - 1)) /\ IsFiniteSet(0..(m - 1))
        BY <2>4, FS_Interval
      <4>2. QED
        BY <4>1, FS_Subset
    <3>2. ASSUME NEW i \in 1..m, i # K PROVE pRaTimer[q[i]] # t
      <4>1. SUFFICES ASSUME pRaTimer[q[i]] = t PROVE FALSE
        OBVIOUS
      <4>2. i - 1 \in 0..(m - 1) /\ (i - 1) + 1 = i
        OBVIOUS
      <4>3. i - 1 \in Entries(t)
        BY <2>4, <4>1, <4>2
      <4>4. i - 1 = k
        BY <2>7, <2>19, <3>1, <4>3, AtMostOne
      <4>5. QED
        BY <3>2, <4>2, <4>4 DEF K
    <3>3. QED
      BY <2>17, <3>2
  <2>20. pNext' \in [Nodes -> Nodes \union {NULL}]
    <3>1. pQPollFreeList \in Nodes \union {NULL}
      BY <2>2, Heads DEF Lists
    <3>2. q[K] \in Nodes
      BY <2>9
    <3>3. QED
      BY <2>16, <3>1, <3>2
  <2>21. QED
    BY <2>8, <2>17, <2>18, <2>19, <2>20
<1>3. QED
  BY <1>1, <1>2

\* The thread takes the head, and the timer it finds there.
LEMMA TakeLinks ==
  ASSUME Linked, TaskTake, pNext \in [Nodes -> Nodes \union {NULL}]
  PROVE  /\ Linked' /\ pNext' \in [Nodes -> Nodes \union {NULL}] /\ pRaTimer' = pRaTimer
         /\ \A x : Entries(x) = {} => Entries(x)' = {}
         /\ \A x : Entries(x) = {} /\ pQHead # NULL => pRaTimer[pQHead] # x
         /\ pQHead # NULL => pQHead \in Nodes
<1>0. status' = status
  BY DEF TaskTake, stop
<1>1. CASE pQHead = NULL
  <2>1. UNCHANGED lists
    BY <1>1 DEF TaskTake
  <2>2. pNext' = pNext /\ pRaTimer' = pRaTimer
    BY <2>1 DEF lists
  <2>3. QED
    BY <1>0, <1>1, <2>1, <2>2, Same
<1>2. CASE pQHead # NULL
  <2>1. PICK m \in Nat, l \in Nat :
          \E q \in [1..m -> Nodes], f \in [1..l -> Nodes] : Lists(q, m, f, l)
    BY DEF Linked
  <2>2. PICK q \in [1..m -> Nodes], f \in [1..l -> Nodes] : Lists(q, m, f, l)
    BY <2>1
  <2>3. Chain(q, m, pQHead) /\ pQTail = IF m = 0 THEN NULL ELSE q[m]
    BY <2>2 DEF Lists
  <2>4. m # 0 /\ pQHead = q[1] /\ \A i, j \in 1..m : q[i] = q[j] => i = j
    BY <1>2, <2>3 DEF Chain
  <2>5. 1 \in 1..m /\ m \in 1..m
    BY <2>4
  <2>6. /\ pQHead' = pNext[pQHead] /\ pQTail' = NewTail(pQHead, NULL)
        /\ pNext' = [pNext EXCEPT ![pQHead] = pQPollFreeList]
        /\ pQPollFreeList' = pQHead /\ pRaTimer' = pRaTimer
    BY <1>2 DEF TaskTake
  <2>7. PICK K \in 1..m : K = 1
    BY <2>5
  <2>8. pQHead' = IF K = 1 THEN pNext[q[1]] ELSE pQHead
    BY <2>4, <2>6, <2>7
  <2>9. pQTail' = IF K = m THEN (IF K = 1 THEN NULL ELSE q[K - 1]) ELSE pQTail
    <3>1. pQHead = pQTail <=> K = m
      BY <2>3, <2>4, <2>5, <2>7
    <3>2. QED
      BY <2>6, <2>7, <3>1 DEF NewTail
  <2>10. pNext' = [x \in Nodes |-> IF x = q[K] THEN pQPollFreeList
                                   ELSE IF K # 1 /\ x = q[K - 1] THEN pNext[q[K]] ELSE pNext[x]]
    BY <2>4, <2>6, <2>7
  <2>11. pQPollFreeList' = q[K]
    BY <2>4, <2>6, <2>7
  <2>12. /\ Linked'
         /\ \A x : (\A i \in 1..m : i # K => pRaTimer[q[i]] # x) => Entries(x)' = {}
    <3>1. Unlinked(q, m, K)
      BY <1>0, <2>6, <2>8, <2>9, <2>10, <2>11 DEF Unlinked
    <3>2. QED
      BY <2>2, <3>1, UnlinkLinks
  <2>13. ASSUME NEW x, Entries(x) = {} PROVE Entries(x)' = {} /\ pRaTimer[pQHead] # x
    <3>1. \A i \in 1..m : pRaTimer[q[i]] # x
      BY <2>3, <2>13, NoEntry DEF EntriesOfChain
    <3>2. QED
      BY <2>4, <2>5, <2>7, <2>12, <3>1
  <2>14. pNext' \in [Nodes -> Nodes \union {NULL}]
    <3>1. pQPollFreeList \in Nodes \union {NULL}
      BY <2>2, Heads DEF Lists
    <3>2. QED
      BY <2>6, <3>1
  <2>15. QED
    BY <2>4, <2>5, <2>6, <2>12, <2>13, <2>14
<1>3. QED
  BY <1>1, <1>2

\* After the exit both lists are empty.
LEMMA ExitLinks ==
  ASSUME RtmpTimerQExit
  PROVE  Linked' /\ \A x : Entries(x)' = {}
<1> DEFINE E == [i \in 1..0 |-> NULL]
<1>1. pQHead' = NULL /\ pQTail' = NULL /\ pQPollFreeList' = NULL /\ status' = "stopped"
  BY DEF RtmpTimerQExit
<1>2. E \in [1..0 -> Nodes] /\ \A i \in 1..0 : FALSE
  OBVIOUS
<1> HIDE DEF E
<1>3. Chain(E, 0, pQHead)' /\ Chain(E, 0, pQPollFreeList)'
  BY <1>1, <1>2 DEF Chain
<1>4. Lists(E, 0, E, 0)'
  BY <1>1, <1>2, <1>3 DEF Lists
<1>5. Linked'
  BY <1>2, <1>4 DEF Linked
<1>6. ASSUME NEW x PROVE Entries(x)' = {}
  BY <1>2, <1>3, NoEntryNext
<1>7. QED
  BY <1>5, <1>6

-----------------------------------------------------------------------------
(***************************************************************************)
(* RtmpTimerQInit links the whole pool into the free list.                 *)
(***************************************************************************)
\* The order of the pool visits every node once.
LEMMA PoolOrdered ==
  /\ PoolOrder \in [1..N -> Nodes]
  /\ \A i, j \in 1..N : PoolOrder[i] = PoolOrder[j] => i = j
  /\ \A n \in Nodes : \E i \in 1..N : PoolOrder[i] = n
<1> DEFINE Ordered(g) == \A i, j \in DOMAIN g : g[i] = g[j] => i = j
<1>1. PICK b : b \in Bijection(1..N, Nodes)
  BY TimerQAssumption, FS_CardinalityType DEF N, ExistsBijection
<1>2. b \in [1..N -> Nodes] /\ Ordered(b)
  BY <1>1 DEF Bijection, Injection, IsInjective
<1>3. PoolOrder = CHOOSE g \in [1..N -> Nodes] : Ordered(g)
  BY DEF PoolOrder, N
<1>4. PoolOrder \in [1..N -> Nodes] /\ Ordered(PoolOrder)
  <2> HIDE DEF Ordered
  <2>1. QED
    BY <1>2, <1>3
<1>5. PoolOrder \in Injection(1..N, Nodes)
  BY <1>4 DEF Injection, IsInjective
<1>6. Cardinality(1..N) = N
  BY Size, FS_Interval
<1>7. PoolOrder \in Surjection(1..N, Nodes)
  BY <1>5, <1>6, Size, FS_Injection DEF N
<1>8. \A n \in Nodes : \E i \in 1..N : PoolOrder[i] = n
  BY <1>7 DEF Surjection
<1>9. QED
  BY <1>4, <1>8

\* The free list is the whole pool, the queue is empty.
LEMMA InitLinks ==
  ASSUME Init
  PROVE  /\ Linked /\ pNext \in [Nodes -> Nodes \union {NULL}]
         /\ pQPollFreeList \in Nodes
<1> DEFINE E == [i \in 1..0 |-> NULL]
           P == PoolOrder
<1>1. /\ pQHead = NULL /\ pQTail = NULL /\ pQPollFreeList = P[1] /\ status = "inited"
      /\ pNext = [n \in Nodes |-> IF PlaceOf(n) = N THEN NULL ELSE P[PlaceOf(n) + 1]]
  BY DEF Init, N
<1>2. E \in [1..0 -> Nodes] /\ \A i \in 1..0 : FALSE
  OBVIOUS
<1>3. /\ P \in [1..N -> Nodes]
      /\ \A i, j \in 1..N : P[i] = P[j] => i = j
      /\ \A n \in Nodes : \E i \in 1..N : P[i] = n
  BY PoolOrdered
<1>4. N \in Nat /\ N # 0 /\ 1 \in 1..N
  BY Size, FS_EmptySet, TimerQAssumption DEF N
<1>5. ASSUME NEW n \in Nodes PROVE PlaceOf(n) \in 1..N /\ P[PlaceOf(n)] = n
  <2>1. DOMAIN P = 1..N
    BY <1>3
  <2>2. PlaceOf(n) = CHOOSE i \in 1..N : P[i] = n
    BY <2>1 DEF PlaceOf
  <2>3. QED
    BY <1>3, <2>2
<1> HIDE DEF E, P
<1>6. \A i \in 1..N : PlaceOf(P[i]) = i
  BY <1>3, <1>5
<1>7. \A i \in 1..N : pNext[P[i]] = IF i = N THEN NULL ELSE P[i + 1]
  BY <1>1, <1>3, <1>6
<1>8. Chain(P, N, pQPollFreeList)
  BY <1>1, <1>3, <1>4, <1>7 DEF Chain
<1>9. Chain(E, 0, pQHead)
  BY <1>1, <1>2 DEF Chain
<1>10. Lists(E, 0, P, N)
  BY <1>1, <1>2, <1>3, <1>8, <1>9 DEF Lists
<1>11. Linked
  BY <1>2, <1>3, <1>4, <1>10 DEF Linked
<1>12. pNext \in [Nodes -> Nodes \union {NULL}]
  <2>1. ASSUME NEW n \in Nodes, PlaceOf(n) # N PROVE P[PlaceOf(n) + 1] \in Nodes
    <3>1. PlaceOf(n) + 1 \in 1..N
      BY <1>4, <1>5, <2>1
    <3>2. QED
      BY <1>3, <3>1
  <2>2. QED
    BY <1>1, <2>1
<1>13. QED
  BY <1>1, <1>3, <1>4, <1>11, <1>12

-----------------------------------------------------------------------------
(***************************************************************************)
(* The inductive invariant.                                                *)
(***************************************************************************)

\* The timers.
TimerTypes ==
  /\ Valid \in [Timers -> BOOLEAN] /\ State \in [Timers -> BOOLEAN]
  /\ Repeat \in [Timers -> BOOLEAN] /\ armed \in [Timers -> BOOLEAN]
  /\ cancelled \in [Timers -> BOOLEAN]
  /\ cb \in [Timers -> {"no", "insert", "wake", "full"}]

\* The nodes.
NodeTypes ==
  /\ pNext \in [Nodes -> Nodes \union {NULL}] /\ pRaTimer \in [Nodes -> Timers \union {NULL}]

\* The thread.
TaskTypes ==
  /\ kthread_running \in BOOLEAN /\ kthread_stop \in BOOLEAN /\ halt \in BOOLEAN /\ taken \in BOOLEAN
  /\ status \in {"inited", "stopped"}
  /\ pc \in {"wait", "clear", "check", "take", "run", "rearm", "add", "exited"}
  /\ pTimer \in Timers \union {NULL} /\ (pc \in {"run", "rearm", "add"} => pTimer # NULL)

\* The operations of the contexts; one that has begun has a timer.
CtxTypes ==
  /\ TimerSemLock \in Ctx \union {NULL}
  /\ mpc \in [Ctx -> {"idle", "del", "sync", "remove"}]
  /\ arg \in [Ctx -> Timers \union {NULL}]
  /\ pCancelled \in [Ctx -> BOOLEAN]
  /\ \A m \in Ctx : mpc[m] # "idle" => arg[m] \in Timers

\* The three pointers.
Pointers ==
  {pQHead, pQTail, pQPollFreeList} \subseteq Nodes \union {NULL}

\* A timer cancelled for good: nothing is left that could run it or start it again.
Gone(t) ==
  /\ ~armed[t] /\ cb[t] = "no" /\ ~Repeat[t] /\ Entries(t) = {}
  /\ pTimer = t => pc # "add" /\ (pc \in {"run", "rearm"} => ~taken)

\* It stays so for every timer cancelled for good.
Cancels == \A t \in Timers : cancelled[t] => Gone(t)

\* The inductive invariant: the types, the lists and what a cancel has achieved.
IndInv == TimerTypes /\ NodeTypes /\ TaskTypes /\ CtxTypes /\ Linked /\ Cancels

\* The pointers are nodes or NULL.
LEMMA LinkedPointers == Linked => Pointers
<1>1. SUFFICES ASSUME Linked PROVE Pointers
  OBVIOUS
<1>2. PICK m \in Nat, l \in Nat :
        \E q \in [1..m -> Nodes], f \in [1..l -> Nodes] : Lists(q, m, f, l)
  BY <1>1 DEF Linked
<1>3. PICK q \in [1..m -> Nodes], f \in [1..l -> Nodes] : Lists(q, m, f, l)
  BY <1>2
<1>4. pQHead \in Nodes \union {NULL} /\ pQPollFreeList \in Nodes \union {NULL}
  BY <1>3, Heads DEF Lists
<1>5. pQTail \in Nodes \union {NULL}
  <2>1. pQTail = IF m = 0 THEN NULL ELSE q[m]
    BY <1>3 DEF Lists
  <2>2. m # 0 => m \in 1..m
    OBVIOUS
  <2>3. QED
    BY <1>3, <2>1, <2>2
<1>6. QED
  BY <1>4, <1>5 DEF Pointers

\* The types follow.
LEMMA IndTypes == IndInv => TypeOK
<1>1. SUFFICES ASSUME IndInv PROVE TypeOK
  OBVIOUS
<1>2. Pointers
  BY <1>1, LinkedPointers DEF IndInv
<1>3. QED
  BY <1>1, <1>2 DEF IndInv, TimerTypes, NodeTypes, TaskTypes, CtxTypes, Pointers, TypeOK

\* CancelHolds follows.
LEMMA IndCancel == IndInv => CancelHolds
BY DEF IndInv, Cancels, Gone, CancelHolds, Busy

\* The initial states.
LEMMA InitInd == Init => IndInv
<1>1. SUFFICES ASSUME Init PROVE IndInv
  OBVIOUS
<1>2. Linked /\ NodeTypes
  BY <1>1, InitLinks DEF Init, NodeTypes
<1>3. TimerTypes
  BY <1>1 DEF Init, TimerTypes
<1>4. TaskTypes
  BY <1>1 DEF Init, TaskTypes
<1>5. CtxTypes
  BY <1>1 DEF Init, CtxTypes
<1>6. Cancels
  BY <1>1 DEF Init, Cancels
<1>7. QED
  BY <1>2, <1>3, <1>4, <1>5, <1>6 DEF IndInv

-----------------------------------------------------------------------------
(***************************************************************************)
(* The steps that leave the lists alone.                                   *)
(***************************************************************************)
\* A timer that expires was armed, so it is not cancelled.
LEMMA ExpireStep ==
  ASSUME IndInv, NEW t \in Timers, Expire(t)
  PROVE  IndInv'
<1>1. UNCHANGED lists /\ status' = status
  BY DEF Expire, stop
<1>2. Linked' /\ \A x : Entries(x) = {} => Entries(x)' = {}
  BY <1>1, Same DEF IndInv
<1>3. NodeTypes'
  BY <1>1 DEF IndInv, NodeTypes, lists
<1>4. TimerTypes'
  BY DEF IndInv, TimerTypes, Expire, timers
<1>5. TaskTypes'
  BY DEF IndInv, TaskTypes, Expire, task, stop
<1>6. CtxTypes'
  BY DEF IndInv, CtxTypes, Expire, mgr
<1>7. Cancels'
  <2>1. SUFFICES ASSUME NEW x \in Timers, cancelled'[x] PROVE Gone(x)'
    BY DEF Cancels
  <2>2. cancelled[x] => Gone(x)
    BY DEF IndInv, Cancels
  <2>3. QED
    BY <1>2, <2>1, <2>2 DEF IndInv, Gone, TimerTypes, TaskTypes, CtxTypes, Expire, timers, task
<1>8. QED
  BY <1>2, <1>3, <1>4, <1>5, <1>6, <1>7 DEF IndInv

\* The thread is woken.
LEMMA WakeUpStep ==
  ASSUME IndInv, NEW t \in Timers, WakeUp(t)
  PROVE  IndInv'
<1>1. UNCHANGED lists /\ status' = status
  BY DEF WakeUp, stop
<1>2. Linked' /\ \A x : Entries(x) = {} => Entries(x)' = {}
  BY <1>1, Same DEF IndInv
<1>3. NodeTypes'
  BY <1>1 DEF IndInv, NodeTypes, lists
<1>4. TimerTypes'
  BY DEF IndInv, TimerTypes, WakeUp, timers
<1>5. TaskTypes'
  BY DEF IndInv, TaskTypes, WakeUp, task, stop
<1>6. CtxTypes'
  BY DEF IndInv, CtxTypes, WakeUp, mgr
<1>7. Cancels'
  <2>1. SUFFICES ASSUME NEW x \in Timers, cancelled'[x] PROVE Gone(x)'
    BY DEF Cancels
  <2>2. cancelled[x] => Gone(x)
    BY DEF IndInv, Cancels
  <2>3. QED
    BY <1>2, <2>1, <2>2 DEF IndInv, Gone, TimerTypes, TaskTypes, CtxTypes, WakeUp, timers, task
<1>8. QED
  BY <1>2, <1>3, <1>4, <1>5, <1>6, <1>7 DEF IndInv

\* No free node, or the queue is closed.
LEMMA RefusedStep ==
  ASSUME IndInv, NEW t \in Timers, InsertRefused(t)
  PROVE  IndInv'
<1>1. UNCHANGED lists /\ status' = status
  BY DEF InsertRefused, stop
<1>2. Linked' /\ \A x : Entries(x) = {} => Entries(x)' = {}
  BY <1>1, Same DEF IndInv
<1>3. NodeTypes'
  BY <1>1 DEF IndInv, NodeTypes, lists
<1>4. TimerTypes'
  BY DEF IndInv, TimerTypes, InsertRefused, timers
<1>5. TaskTypes'
  BY DEF IndInv, TaskTypes, InsertRefused, task, stop
<1>6. CtxTypes'
  BY DEF IndInv, CtxTypes, InsertRefused, mgr
<1>7. Cancels'
  <2>1. SUFFICES ASSUME NEW x \in Timers, cancelled'[x] PROVE Gone(x)'
    BY DEF Cancels
  <2>2. cancelled[x] => Gone(x)
    BY DEF IndInv, Cancels
  <2>3. QED
    BY <1>2, <2>1, <2>2 DEF IndInv, Gone, TimerTypes, TaskTypes, CtxTypes, InsertRefused, timers, task
<1>8. QED
  BY <1>2, <1>3, <1>4, <1>5, <1>6, <1>7 DEF IndInv

\* An expiry that was refused arms the timer again; its callback was running.
LEMMA AgainStep ==
  ASSUME IndInv, NEW t \in Timers, AddAgain(t)
  PROVE  IndInv'
<1>1. UNCHANGED lists /\ status' = status
  BY DEF AddAgain, stop
<1>2. Linked' /\ \A x : Entries(x) = {} => Entries(x)' = {}
  BY <1>1, Same DEF IndInv
<1>3. NodeTypes'
  BY <1>1 DEF IndInv, NodeTypes, lists
<1>4. TimerTypes'
  BY DEF IndInv, TimerTypes, AddAgain, timers
<1>5. TaskTypes'
  BY DEF IndInv, TaskTypes, AddAgain, task, stop
<1>6. CtxTypes'
  BY DEF IndInv, CtxTypes, AddAgain, mgr
<1>7. Cancels'
  <2>1. SUFFICES ASSUME NEW x \in Timers, cancelled'[x] PROVE Gone(x)'
    BY DEF Cancels
  <2>2. cancelled[x] => Gone(x)
    BY DEF IndInv, Cancels
  <2>3. QED
    BY <1>2, <2>1, <2>2 DEF IndInv, Gone, TimerTypes, TaskTypes, CtxTypes, AddAgain, timers, task
<1>8. QED
  BY <1>2, <1>3, <1>4, <1>5, <1>6, <1>7 DEF IndInv

\* A timer that is set is no longer cancelled.
LEMMA SetTimerStep ==
  ASSUME IndInv, NEW m \in Ctx, NEW t \in Timers, RTMPSetTimer(m, t)
  PROVE  IndInv'
<1>1. UNCHANGED lists /\ status' = status
  BY DEF RTMPSetTimer, SetTimer, Armed, Operation, stop
<1>2. Linked' /\ \A x : Entries(x) = {} => Entries(x)' = {}
  BY <1>1, Same DEF IndInv
<1>3. NodeTypes'
  BY <1>1 DEF IndInv, NodeTypes, lists
<1>4. TimerTypes'
  BY DEF IndInv, TimerTypes, RTMPSetTimer, SetTimer, Armed, Operation, timers
<1>5. TaskTypes'
  BY DEF IndInv, TaskTypes, RTMPSetTimer, SetTimer, Armed, Operation, task, stop
<1>6. CtxTypes'
  BY DEF IndInv, CtxTypes, RTMPSetTimer, SetTimer, Armed, Operation, mgr
<1>7. Cancels'
  <2>1. SUFFICES ASSUME NEW x \in Timers, cancelled'[x] PROVE Gone(x)'
    BY DEF Cancels
  <2>2. cancelled[x] => Gone(x)
    BY DEF IndInv, Cancels
  <2>3. QED
    BY <1>2, <2>1, <2>2 DEF IndInv, Gone, TimerTypes, TaskTypes, CtxTypes, RTMPSetTimer, SetTimer, Armed, Operation, timers, task
<1>8. QED
  BY <1>2, <1>3, <1>4, <1>5, <1>6, <1>7 DEF IndInv

\* Initialising arms nothing.
LEMMA InitTimerStep ==
  ASSUME IndInv, NEW m \in Ctx, NEW t \in Timers, RTMPInitTimer(m, t)
  PROVE  IndInv'
<1>1. UNCHANGED lists /\ status' = status
  BY DEF RTMPInitTimer, Operation, stop
<1>2. Linked' /\ \A x : Entries(x) = {} => Entries(x)' = {}
  BY <1>1, Same DEF IndInv
<1>3. NodeTypes'
  BY <1>1 DEF IndInv, NodeTypes, lists
<1>4. TimerTypes'
  BY DEF IndInv, TimerTypes, RTMPInitTimer, Operation, timers
<1>5. TaskTypes'
  BY DEF IndInv, TaskTypes, RTMPInitTimer, Operation, task, stop
<1>6. CtxTypes'
  BY DEF IndInv, CtxTypes, RTMPInitTimer, Operation, mgr
<1>7. Cancels'
  <2>1. SUFFICES ASSUME NEW x \in Timers, cancelled'[x] PROVE Gone(x)'
    BY DEF Cancels
  <2>2. cancelled[x] => Gone(x)
    BY DEF IndInv, Cancels
  <2>3. QED
    BY <1>2, <2>1, <2>2 DEF IndInv, Gone, TimerTypes, TaskTypes, CtxTypes, RTMPInitTimer, Operation, timers, task
<1>8. QED
  BY <1>2, <1>3, <1>4, <1>5, <1>6, <1>7 DEF IndInv

\* A timer that is modified is no longer cancelled.
LEMMA ModTimerStep ==
  ASSUME IndInv, NEW m \in Ctx, NEW t \in Timers, RTMPModTimer(m, t)
  PROVE  IndInv'
<1>1. UNCHANGED lists /\ status' = status
  BY DEF RTMPModTimer, Armed, Operation, stop
<1>2. Linked' /\ \A x : Entries(x) = {} => Entries(x)' = {}
  BY <1>1, Same DEF IndInv
<1>3. NodeTypes'
  BY <1>1 DEF IndInv, NodeTypes, lists
<1>4. TimerTypes'
  BY DEF IndInv, TimerTypes, RTMPModTimer, Armed, Operation, timers
<1>5. TaskTypes'
  BY DEF IndInv, TaskTypes, RTMPModTimer, Armed, Operation, task, stop
<1>6. CtxTypes'
  BY DEF IndInv, CtxTypes, RTMPModTimer, Armed, Operation, mgr
<1>7. Cancels'
  <2>1. SUFFICES ASSUME NEW x \in Timers, cancelled'[x] PROVE Gone(x)'
    BY DEF Cancels
  <2>2. cancelled[x] => Gone(x)
    BY DEF IndInv, Cancels
  <2>3. QED
    BY <1>2, <2>1, <2>2 DEF IndInv, Gone, TimerTypes, TaskTypes, CtxTypes, RTMPModTimer, Armed, Operation, timers, task
<1>8. QED
  BY <1>2, <1>3, <1>4, <1>5, <1>6, <1>7 DEF IndInv

\* RTMPCancelTimer and RTMPReleaseTimer begin.
LEMMA StopStep ==
  ASSUME IndInv, NEW m \in Ctx, NEW t \in Timers, NEW release \in BOOLEAN, Stop(m, t, release)
  PROVE  IndInv'
<1>1. UNCHANGED lists /\ status' = status
  BY DEF Stop, Operation, stop
<1>2. Linked' /\ \A x : Entries(x) = {} => Entries(x)' = {}
  BY <1>1, Same DEF IndInv
<1>3. NodeTypes'
  BY <1>1 DEF IndInv, NodeTypes, lists
<1>4. TimerTypes'
  BY DEF IndInv, TimerTypes, Stop, Operation, timers
<1>5. TaskTypes'
  BY DEF IndInv, TaskTypes, Stop, Operation, task, stop
<1>6. CtxTypes'
  BY DEF IndInv, CtxTypes, Stop, Operation, mgr
<1>7. Cancels'
  <2>1. SUFFICES ASSUME NEW x \in Timers, cancelled'[x] PROVE Gone(x)'
    BY DEF Cancels
  <2>2. cancelled[x] => Gone(x)
    BY DEF IndInv, Cancels
  <2>3. QED
    BY <1>2, <2>1, <2>2 DEF IndInv, Gone, TimerTypes, TaskTypes, CtxTypes, Stop, Operation, timers, task
<1>8. QED
  BY <1>2, <1>3, <1>4, <1>5, <1>6, <1>7 DEF IndInv

\* RTMP_OS_Del_Timer.
LEMMA DelStep ==
  ASSUME IndInv, NEW m \in Ctx, DelTimer(m)
  PROVE  IndInv'
<1>1. UNCHANGED lists /\ status' = status
  BY DEF DelTimer, Deleted, stop
<1>2. Linked' /\ \A x : Entries(x) = {} => Entries(x)' = {}
  BY <1>1, Same DEF IndInv
<1>3. NodeTypes'
  BY <1>1 DEF IndInv, NodeTypes, lists
<1>4. TimerTypes'
  BY DEF IndInv, TimerTypes, DelTimer, Deleted, timers
<1>5. TaskTypes'
  BY DEF IndInv, TaskTypes, DelTimer, Deleted, task, stop
<1>6. CtxTypes'
  BY DEF IndInv, CtxTypes, DelTimer, Deleted, mgr
<1>7. Cancels'
  <2>1. SUFFICES ASSUME NEW x \in Timers, cancelled'[x] PROVE Gone(x)'
    BY DEF Cancels
  <2>2. cancelled[x] => Gone(x)
    BY DEF IndInv, Cancels
  <2>3. QED
    BY <1>2, <2>1, <2>2 DEF IndInv, Gone, TimerTypes, TaskTypes, CtxTypes, DelTimer, Deleted, timers, task
<1>8. QED
  BY <1>2, <1>3, <1>4, <1>5, <1>6, <1>7 DEF IndInv

\* del_timer_sync has waited.
LEMMA DelSyncStep ==
  ASSUME IndInv, NEW m \in Ctx, DelTimerSync(m)
  PROVE  IndInv'
<1>1. UNCHANGED lists /\ status' = status
  BY DEF DelTimerSync, Deleted, stop
<1>2. Linked' /\ \A x : Entries(x) = {} => Entries(x)' = {}
  BY <1>1, Same DEF IndInv
<1>3. NodeTypes'
  BY <1>1 DEF IndInv, NodeTypes, lists
<1>4. TimerTypes'
  BY DEF IndInv, TimerTypes, DelTimerSync, Deleted, timers
<1>5. TaskTypes'
  BY DEF IndInv, TaskTypes, DelTimerSync, Deleted, task, stop
<1>6. CtxTypes'
  <2>1. arg[m] \in Timers /\ armed[arg[m]] \in BOOLEAN
    BY DEF IndInv, CtxTypes, TimerTypes, DelTimerSync
  <2>2. QED
    BY <2>1 DEF IndInv, CtxTypes, DelTimerSync, Deleted
<1>7. Cancels'
  <2>1. SUFFICES ASSUME NEW x \in Timers, cancelled'[x] PROVE Gone(x)'
    BY DEF Cancels
  <2>2. cancelled[x] => Gone(x)
    BY DEF IndInv, Cancels
  <2>3. QED
    BY <1>2, <2>1, <2>2 DEF IndInv, Gone, TimerTypes, TaskTypes, CtxTypes, DelTimerSync, Deleted, timers, task
<1>8. QED
  BY <1>2, <1>3, <1>4, <1>5, <1>6, <1>7 DEF IndInv

\* The thread wakes up.
LEMMA WaitStep ==
  ASSUME IndInv, TaskWait
  PROVE  IndInv'
<1>1. UNCHANGED lists /\ status' = status
  BY DEF TaskWait, stop
<1>2. Linked' /\ \A x : Entries(x) = {} => Entries(x)' = {}
  BY <1>1, Same DEF IndInv
<1>3. NodeTypes'
  BY <1>1 DEF IndInv, NodeTypes, lists
<1>4. TimerTypes'
  BY DEF IndInv, TimerTypes, TaskWait, timers
<1>5. TaskTypes'
  BY DEF IndInv, TaskTypes, TaskWait, task, stop
<1>6. CtxTypes'
  BY DEF IndInv, CtxTypes, TaskWait, mgr
<1>7. Cancels'
  <2>1. SUFFICES ASSUME NEW x \in Timers, cancelled'[x] PROVE Gone(x)'
    BY DEF Cancels
  <2>2. cancelled[x] => Gone(x)
    BY DEF IndInv, Cancels
  <2>3. QED
    BY <1>2, <2>1, <2>2 DEF IndInv, Gone, TimerTypes, TaskTypes, CtxTypes, TaskWait, timers, task
<1>8. QED
  BY <1>2, <1>3, <1>4, <1>5, <1>6, <1>7 DEF IndInv

\* The thread clears its flag, or ends.
LEMMA ClearStep ==
  ASSUME IndInv, TaskClear
  PROVE  IndInv'
<1>1. UNCHANGED lists /\ status' = status
  BY DEF TaskClear, stop
<1>2. Linked' /\ \A x : Entries(x) = {} => Entries(x)' = {}
  BY <1>1, Same DEF IndInv
<1>3. NodeTypes'
  BY <1>1 DEF IndInv, NodeTypes, lists
<1>4. TimerTypes'
  BY DEF IndInv, TimerTypes, TaskClear, timers
<1>5. TaskTypes'
  BY DEF IndInv, TaskTypes, TaskClear, task, stop
<1>6. CtxTypes'
  BY DEF IndInv, CtxTypes, TaskClear, mgr
<1>7. Cancels'
  <2>1. SUFFICES ASSUME NEW x \in Timers, cancelled'[x] PROVE Gone(x)'
    BY DEF Cancels
  <2>2. cancelled[x] => Gone(x)
    BY DEF IndInv, Cancels
  <2>3. QED
    BY <1>2, <2>1, <2>2 DEF IndInv, Gone, TimerTypes, TaskTypes, CtxTypes, TaskClear, timers, task
<1>8. QED
  BY <1>2, <1>3, <1>4, <1>5, <1>6, <1>7 DEF IndInv

\* The thread looks at the head.
LEMMA CheckStep ==
  ASSUME IndInv, TaskCheck
  PROVE  IndInv'
<1>1. UNCHANGED lists /\ status' = status
  BY DEF TaskCheck, stop
<1>2. Linked' /\ \A x : Entries(x) = {} => Entries(x)' = {}
  BY <1>1, Same DEF IndInv
<1>3. NodeTypes'
  BY <1>1 DEF IndInv, NodeTypes, lists
<1>4. TimerTypes'
  BY DEF IndInv, TimerTypes, TaskCheck, timers
<1>5. TaskTypes'
  BY DEF IndInv, TaskTypes, TaskCheck, task, stop
<1>6. CtxTypes'
  BY DEF IndInv, CtxTypes, TaskCheck, mgr
<1>7. Cancels'
  <2>1. SUFFICES ASSUME NEW x \in Timers, cancelled'[x] PROVE Gone(x)'
    BY DEF Cancels
  <2>2. cancelled[x] => Gone(x)
    BY DEF IndInv, Cancels
  <2>3. QED
    BY <1>2, <2>1, <2>2 DEF IndInv, Gone, TimerTypes, TaskTypes, CtxTypes, TaskCheck, timers, task
<1>8. QED
  BY <1>2, <1>3, <1>4, <1>5, <1>6, <1>7 DEF IndInv

\* The handler runs and may set a timer.
LEMMA RunStep ==
  ASSUME IndInv, TaskRun
  PROVE  IndInv'
<1>1. UNCHANGED lists /\ status' = status
  BY DEF TaskRun, SetTimer, Armed, Operation, stop
<1>2. Linked' /\ \A x : Entries(x) = {} => Entries(x)' = {}
  BY <1>1, Same DEF IndInv
<1>3. NodeTypes'
  BY <1>1 DEF IndInv, NodeTypes, lists
<1>4. TimerTypes'
  <2>1. CASE UNCHANGED <<armed, State, Repeat, cancelled, ops>>
    BY <2>1 DEF IndInv, TimerTypes, TaskRun
  <2>2. ASSUME NEW t \in Timers \ Periodic, SetTimer(t) PROVE TimerTypes'
    BY <2>2 DEF IndInv, TimerTypes, TaskRun, SetTimer, Armed
  <2>3. QED
    BY <2>1, <2>2 DEF TaskRun
<1>5. TaskTypes'
  BY DEF IndInv, TaskTypes, TaskRun, SetTimer, Armed, Operation, task, stop
<1>6. CtxTypes'
  BY DEF IndInv, CtxTypes, TaskRun, SetTimer, Armed, Operation, mgr
<1>7. Cancels'
  <2>1. SUFFICES ASSUME NEW x \in Timers, cancelled'[x] PROVE Gone(x)'
    BY DEF Cancels
  <2>2. cancelled[x] => Gone(x)
    BY DEF IndInv, Cancels
  <2>3. QED
    BY <1>2, <2>1, <2>2 DEF IndInv, Gone, TimerTypes, TaskTypes, CtxTypes, TaskRun, SetTimer, Armed, Operation, timers, task
<1>8. QED
  BY <1>2, <1>3, <1>4, <1>5, <1>6, <1>7 DEF IndInv

\* A timer that does not repeat is not started again.
LEMMA RearmStep ==
  ASSUME IndInv, TaskRearm
  PROVE  IndInv'
<1>1. UNCHANGED lists /\ status' = status
  BY DEF TaskRearm, stop
<1>2. Linked' /\ \A x : Entries(x) = {} => Entries(x)' = {}
  BY <1>1, Same DEF IndInv
<1>3. NodeTypes'
  BY <1>1 DEF IndInv, NodeTypes, lists
<1>4. TimerTypes'
  BY DEF IndInv, TimerTypes, TaskRearm, timers
<1>5. TaskTypes'
  BY DEF IndInv, TaskTypes, TaskRearm, task, stop
<1>6. CtxTypes'
  BY DEF IndInv, CtxTypes, TaskRearm, mgr
<1>7. Cancels'
  <2>1. SUFFICES ASSUME NEW x \in Timers, cancelled'[x] PROVE Gone(x)'
    BY DEF Cancels
  <2>2. cancelled[x] => Gone(x)
    BY DEF IndInv, Cancels
  <2>3. QED
    BY <1>2, <2>1, <2>2 DEF IndInv, Gone, TimerTypes, TaskTypes, CtxTypes, TaskRearm, timers, task
<1>8. QED
  BY <1>2, <1>3, <1>4, <1>5, <1>6, <1>7 DEF IndInv

\* The timer started again is not a cancelled one.
LEMMA AddStep ==
  ASSUME IndInv, TaskAdd
  PROVE  IndInv'
<1>1. UNCHANGED lists /\ status' = status
  BY DEF TaskAdd, stop
<1>2. Linked' /\ \A x : Entries(x) = {} => Entries(x)' = {}
  BY <1>1, Same DEF IndInv
<1>3. NodeTypes'
  BY <1>1 DEF IndInv, NodeTypes, lists
<1>4. TimerTypes'
  BY DEF IndInv, TimerTypes, TaskAdd, timers
<1>5. TaskTypes'
  BY DEF IndInv, TaskTypes, TaskAdd, task, stop
<1>6. CtxTypes'
  BY DEF IndInv, CtxTypes, TaskAdd, mgr
<1>7. Cancels'
  <2>1. SUFFICES ASSUME NEW x \in Timers, cancelled'[x] PROVE Gone(x)'
    BY DEF Cancels
  <2>2. cancelled[x] => Gone(x)
    BY DEF IndInv, Cancels
  <2>3. QED
    BY <1>2, <2>1, <2>2 DEF IndInv, Gone, TimerTypes, TaskTypes, CtxTypes, TaskAdd, timers, task
<1>8. QED
  BY <1>2, <1>3, <1>4, <1>5, <1>6, <1>7 DEF IndInv

\* The interface goes down.
LEMMA HaltStep ==
  ASSUME IndInv, Halt
  PROVE  IndInv'
<1>1. UNCHANGED lists /\ status' = status
  BY DEF Halt, stop
<1>2. Linked' /\ \A x : Entries(x) = {} => Entries(x)' = {}
  BY <1>1, Same DEF IndInv
<1>3. NodeTypes'
  BY <1>1 DEF IndInv, NodeTypes, lists
<1>4. TimerTypes'
  BY DEF IndInv, TimerTypes, Halt, timers
<1>5. TaskTypes'
  BY DEF IndInv, TaskTypes, Halt, task, stop
<1>6. CtxTypes'
  BY DEF IndInv, CtxTypes, Halt, mgr
<1>7. Cancels'
  <2>1. SUFFICES ASSUME NEW x \in Timers, cancelled'[x] PROVE Gone(x)'
    BY DEF Cancels
  <2>2. cancelled[x] => Gone(x)
    BY DEF IndInv, Cancels
  <2>3. QED
    BY <1>2, <2>1, <2>2 DEF IndInv, Gone, TimerTypes, TaskTypes, CtxTypes, Halt, timers, task
<1>8. QED
  BY <1>2, <1>3, <1>4, <1>5, <1>6, <1>7 DEF IndInv

\* kthread_stop.
LEMMA KillStep ==
  ASSUME IndInv, TaskKill
  PROVE  IndInv'
<1>1. UNCHANGED lists /\ status' = status
  BY DEF TaskKill, stop
<1>2. Linked' /\ \A x : Entries(x) = {} => Entries(x)' = {}
  BY <1>1, Same DEF IndInv
<1>3. NodeTypes'
  BY <1>1 DEF IndInv, NodeTypes, lists
<1>4. TimerTypes'
  BY DEF IndInv, TimerTypes, TaskKill, timers
<1>5. TaskTypes'
  BY DEF IndInv, TaskTypes, TaskKill, task, stop
<1>6. CtxTypes'
  BY DEF IndInv, CtxTypes, TaskKill, mgr
<1>7. Cancels'
  <2>1. SUFFICES ASSUME NEW x \in Timers, cancelled'[x] PROVE Gone(x)'
    BY DEF Cancels
  <2>2. cancelled[x] => Gone(x)
    BY DEF IndInv, Cancels
  <2>3. QED
    BY <1>2, <2>1, <2>2 DEF IndInv, Gone, TimerTypes, TaskTypes, CtxTypes, TaskKill, timers, task
<1>8. QED
  BY <1>2, <1>3, <1>4, <1>5, <1>6, <1>7 DEF IndInv

-----------------------------------------------------------------------------
(***************************************************************************)
(* The steps on the lists, the theorems.                                   *)
(***************************************************************************)

\* A timer whose callback queues it is not cancelled; the others keep their entries.
LEMMA InsertStep ==
  ASSUME IndInv, NEW t \in Timers, RtmpTimerQInsert(t)
  PROVE  IndInv'
<1>1. Linked' /\ \A x : x # t /\ Entries(x) = {} => Entries(x)' = {}
  BY InsertLinks DEF IndInv, NodeTypes
<1>2. NodeTypes'
  <2>1. pQPollFreeList \in Nodes
    BY LinkedPointers DEF IndInv, Pointers, RtmpTimerQInsert
  <2>2. QED
    BY <2>1 DEF IndInv, NodeTypes, RtmpTimerQInsert
<1>3. TimerTypes'
  BY DEF IndInv, TimerTypes, RtmpTimerQInsert, timers
<1>4. TaskTypes'
  BY DEF IndInv, TaskTypes, RtmpTimerQInsert, task, stop
<1>5. CtxTypes'
  BY DEF IndInv, CtxTypes, RtmpTimerQInsert, mgr
<1>6. Cancels'
  <2>1. SUFFICES ASSUME NEW x \in Timers, cancelled'[x] PROVE Gone(x)'
    BY DEF Cancels
  <2>2. Gone(x)
    BY <2>1 DEF IndInv, Cancels, RtmpTimerQInsert
  <2>3. x # t
    BY <2>2 DEF Gone, RtmpTimerQInsert
  <2>4. QED
    BY <1>1, <2>2, <2>3 DEF Gone, IndInv, TimerTypes, RtmpTimerQInsert, timers, task
<1>7. QED
  BY <1>1, <1>2, <1>3, <1>4, <1>5, <1>6 DEF IndInv

\* The end of RTMPCancelTimer and RTMPReleaseTimer.
LEMMA RemoveStep ==
  ASSUME IndInv, NEW m \in Ctx, Remove(m)
  PROVE  IndInv'
<1>0. PICK a \in Timers : a = arg[m]
  BY DEF IndInv, CtxTypes, Remove
<1>1. RtmpTimerQRemove(a) /\ status' = status
  BY <1>0 DEF Remove, stop
<1>2. /\ Linked' /\ pNext' \in [Nodes -> Nodes \union {NULL}] /\ pRaTimer' = pRaTimer
      /\ \A x : Entries(x) = {} => Entries(x)' = {}
      /\ ~(Cardinality(Entries(a)) > 1) => Entries(a)' = {}
  BY <1>1, RemoveLinks DEF IndInv, NodeTypes
<1>3. NodeTypes'
  BY <1>2 DEF IndInv, NodeTypes
<1>4. TimerTypes'
  <2>1. /\ State' \in [Timers -> BOOLEAN] /\ Valid' \in [Timers -> BOOLEAN]
        /\ cancelled' \in [Timers -> BOOLEAN]
    BY <1>0 DEF IndInv, TimerTypes, CtxTypes, Remove
  <2>2. QED
    BY <2>1 DEF IndInv, TimerTypes, Remove
<1>5. TaskTypes'
  BY DEF IndInv, TaskTypes, Remove, task, stop
<1>6. CtxTypes'
  BY DEF IndInv, CtxTypes, Remove
<1>7. Cancels'
  <2>1. SUFFICES ASSUME NEW x \in Timers, cancelled'[x] PROVE Gone(x)'
    BY DEF Cancels
  <2>2. CASE x # a
    <3>1. Gone(x)
      BY <1>0, <2>1, <2>2 DEF IndInv, Cancels, Remove, TimerTypes
    <3>2. QED
      BY <1>2, <3>1 DEF Gone, Remove, task
  <2>3. CASE x = a
    <3>1. ~(\/ Cardinality(Entries(x)) > 1 \/ Busy(x)
            \/ Repeat[x] \/ armed[x] \/ cb[x] # "no")
      BY <1>0, <2>1, <2>3 DEF IndInv, Remove, TimerTypes
    <3>2. Entries(x)' = {}
      BY <1>2, <2>3, <3>1
    <3>3. QED
      BY <3>1, <3>2 DEF Gone, Busy, Remove, task
  <2>4. QED
    BY <2>2, <2>3
<1>8. QED
  BY <1>2, <1>3, <1>4, <1>5, <1>6, <1>7 DEF IndInv

\* What the thread takes from the queue is not cancelled.
LEMMA TakeStep ==
  ASSUME IndInv, TaskTake
  PROVE  IndInv'
<1>1. /\ Linked' /\ pNext' \in [Nodes -> Nodes \union {NULL}] /\ pRaTimer' = pRaTimer
      /\ \A x : Entries(x) = {} => Entries(x)' = {}
      /\ \A x : Entries(x) = {} /\ pQHead # NULL => pRaTimer[pQHead] # x
      /\ pQHead # NULL => pQHead \in Nodes
  BY TakeLinks DEF IndInv, NodeTypes
<1>2. NodeTypes'
  BY <1>1 DEF IndInv, NodeTypes
<1>3. TimerTypes'
  BY DEF IndInv, TimerTypes, TaskTake, timers
<1>4. pTimer' \in Timers \union {NULL} /\ pTimer' = IF pQHead = NULL THEN pTimer ELSE pRaTimer[pQHead]
  BY <1>1 DEF IndInv, NodeTypes, TaskTypes, TaskTake
<1>5. TaskTypes'
  BY <1>4 DEF IndInv, TaskTypes, TaskTake, Turn, stop
<1>6. CtxTypes'
  BY DEF IndInv, CtxTypes, TaskTake, mgr
<1>7. Cancels'
  <2>1. SUFFICES ASSUME NEW x \in Timers, cancelled'[x] PROVE Gone(x)'
    BY DEF Cancels
  <2>2. Gone(x)
    BY <2>1 DEF IndInv, Cancels, TaskTake
  <2>3. /\ armed' = armed /\ cb' = cb /\ Repeat' = Repeat /\ taken' = (pQHead # NULL)
        /\ pc' \in {"run", "check"}
    BY DEF TaskTake, timers, Turn
  <2>4. Entries(x)' = {}
    BY <1>1, <2>2 DEF Gone
  <2>5. pTimer' = x => ~taken'
    BY <1>1, <1>4, <2>2, <2>3 DEF Gone
  <2>6. QED
    BY <2>2, <2>3, <2>4, <2>5 DEF Gone
<1>8. QED
  BY <1>1, <1>2, <1>3, <1>5, <1>6, <1>7 DEF IndInv

\* The queue is closed.
LEMMA ExitStep ==
  ASSUME IndInv, RtmpTimerQExit
  PROVE  IndInv'
<1>1. Linked' /\ \A x : Entries(x)' = {}
  BY ExitLinks
<1>2. NodeTypes' /\ TimerTypes' /\ TaskTypes' /\ CtxTypes'
  BY DEF IndInv, NodeTypes, TimerTypes, TaskTypes, CtxTypes, RtmpTimerQExit, timers, task, mgr
<1>3. Cancels'
  BY <1>1 DEF IndInv, Cancels, Gone, RtmpTimerQExit, timers, task
<1>4. QED
  BY <1>1, <1>2, <1>3 DEF IndInv

\* Nothing changes.
LEMMA StutterStep ==
  ASSUME IndInv, UNCHANGED vars
  PROVE  IndInv'
<1>1. Linked' /\ \A x : Entries(x) = {} => Entries(x)' = {}
  BY Same DEF IndInv, vars, stop
<1>2. NodeTypes' /\ TimerTypes' /\ TaskTypes' /\ CtxTypes'
  BY DEF IndInv, NodeTypes, TimerTypes, TaskTypes, CtxTypes, vars, timers, lists, task, mgr, stop
<1>3. Cancels'
  BY <1>1 DEF IndInv, Cancels, Gone, vars, timers, task
<1>4. QED
  BY <1>1, <1>2, <1>3 DEF IndInv

\* IndInv is inductive.
LEMMA IndStep == IndInv /\ [Next]_vars => IndInv'
<1>1. SUFFICES ASSUME IndInv, [Next]_vars PROVE IndInv'
  OBVIOUS
<1>2. CASE UNCHANGED vars
  BY <1>1, <1>2, StutterStep
<1>3. ASSUME NEW t \in Timers, Expire(t) \/ Callback(t) PROVE IndInv'
  BY <1>1, <1>3, ExpireStep, InsertStep, WakeUpStep, RefusedStep, AgainStep DEF Callback
<1>4. ASSUME NEW m \in Ctx, NEW t \in Timers,
             RTMPSetTimer(m, t) \/ RTMPInitTimer(m, t) \/ RTMPModTimer(m, t)
      PROVE  IndInv'
  BY <1>1, <1>4, SetTimerStep, InitTimerStep, ModTimerStep
<1>5. ASSUME NEW m \in Ctx, NEW t \in Timers, NEW release \in BOOLEAN, Stop(m, t, release)
      PROVE  IndInv'
  BY <1>1, <1>5, StopStep
<1>6. ASSUME NEW m \in Ctx, CtxStep(m) PROVE IndInv'
  BY <1>1, <1>6, DelStep, DelSyncStep, RemoveStep DEF CtxStep
<1>7. CASE TaskStep
  BY <1>1, <1>7, WaitStep, ClearStep, CheckStep, TakeStep, RunStep, RearmStep, AddStep DEF TaskStep
<1>8. CASE Halt \/ RtmpTimerQExit \/ TaskKill
  BY <1>1, <1>8, HaltStep, ExitStep, KillStep
<1>9. QED
  BY <1>1, <1>2, <1>3, <1>4, <1>5, <1>6, <1>7, <1>8 DEF Next

\* IndInv holds always.
LEMMA Inductive == Spec => []IndInv
BY InitInd, IndStep, PTL DEF Spec

\* Every field of the timers, of the queue and of the thread keeps its type, and
\* the thread calls no handler without a timer (if (pTimer) in RtmpTimerQHandle).
THEOREM TypeCorrect == Spec => []TypeOK
BY Inductive, IndTypes, PTL

\* For a pool of any size: while the queue is open, the queue and the free list
\* share out the nodes, both end, and pQTail is the last entry of the queue,
\* whatever RtmpTimerQInsert, RtmpTimerQRemove (at the head, in the middle or at
\* the tail) and RtmpTimerQHandle do to them and in whatever order.
THEOREM ListsStaySound == Spec => []ListsSound
<1>1. IndInv => ListsSound
  BY LinkedSound DEF IndInv
<1>2. QED
  BY <1>1, Inductive, PTL

\* A timer that RTMPCancelTimer or RTMPReleaseTimer has cancelled for good stays
\* unarmed and unqueued until it is set again, however the callbacks of the other
\* timers, the thread and the other contexts interleave.
THEOREM CancelStays == Spec => []CancelHolds
BY Inductive, IndCancel, PTL
=============================================================================
