-------------------------- MODULE BaReorder_proofs ---------------------------
(***************************************************************************)
(* Proofs about the reordering of received MPDUs (BaReorder.tla):          *)
(*   TypeCorrect   the types of the variables;                             *)
(*   Conserved     the pool of blocks keeps its blocks, in every           *)
(*                 interleaving of the tasklet and the MLME thread;        *)
(*   Counts        numAsRecipient counts the entries in use.               *)
(***************************************************************************)
EXTENDS BaReorder, FiniteSetTheorems, WellFoundedInduction, SequenceTheorems, TLAPS

-----------------------------------------------------------------------------
(***************************************************************************)
(* The inductive invariant.                                                *)
(***************************************************************************)

\* Frames and sequence numbers.
Nums == FirstNum..LastNum
Seqs == 0..(ModSeq - 1)
\* Where a context can be, and the local variables it keeps there.
Pcs == {"idle", "decide", "enqueue", "winset", "enqset", "order", "set", "flushone",
        "flushset", "barset", "teardown", "tdclear", "tdfree", "tdcount", "setup"}
Work == [pc : Pcs, e : 0..Ents, n : Nat, val : Nat, v : BOOLEAN]

\* The entries of the table: TypeOK's own conjuncts.
EntryTypes ==
  /\ status \in [Entries -> {"NONE", "USED", "Accept"}]
  /\ LastIndSeq \in [Entries -> Seqs \union {RESET_RCV_SEQ}]
  /\ BAWinSize \in [Entries -> {0, WinSize}]
  /\ list \in [Entries -> Seq(Nums)]

\* The peer's index and the count.
TableTypes == BARecWcidArray \in 0..Ents /\ numAsRecipient \in 0..(Ulong - 1)

\* The peer and the histories.
HistTypes ==
  /\ o \in Nums /\ heard \in Nums
  /\ last \in -1..LastNum /\ bar \in -1..LastNum
  /\ order \in {"new", "again", "old"} /\ raced \in BOOLEAN
  /\ bypassed \in BOOLEAN /\ ops \in 0..MaxOps

\* What the tasklet keeps in its local variables from one section to the next.
RxWork(r) ==
  /\ r \in Work /\ r.pc # "setup"
  /\ r.pc \notin {"idle", "teardown"} => r.e \in Entries
  /\ r.pc \in {"decide", "enqueue", "winset", "enqset"} => r.n \in Nums
  /\ r.pc \in {"flushone", "flushset"} /\ ~r.v => r.n \in Nums
  /\ r.pc \in {"flushone", "winset", "barset"} => r.val \in Seqs
  /\ r.pc \in {"flushset", "set"} => r.val \in Seqs \union {RESET_RCV_SEQ}

\* The same of the MLME thread.
MlmeWork(m) ==
  /\ m \in Work /\ m.pc \in {"idle", "setup", "tdclear", "tdfree", "tdcount"}
  /\ m.pc # "idle" => m.e \in Entries
  /\ m.pc = "setup" => m.val \in 0..Ents

\* Both contexts.
ActTypes == act \in [Actors -> Work] /\ RxWork(act["rx"]) /\ MlmeWork(act["mlme"])

\* The places of the lists: one for every frame that is listed.
Cells(ls, s) == UNION {{e} \X (1..Len(ls[e])) : e \in s}

\* Every block is free, holds a listed frame or went with an EAP frame.
Pool ==
  /\ free \in Nat /\ eaps \in Nat
  /\ free + Cardinality(Cells(list, Entries)) + eaps = Blocks

\* Entry e alone is in use, with status st, and the peer's index is w.
Table(e, w, st) ==
  /\ BARecWcidArray = w
  /\ numAsRecipient = IF e = 0 THEN 0 ELSE 1
  /\ \A x \in Entries : status[x] = IF x = e THEN st ELSE "NONE"

\* The table between two operations.
Settled == Table(BARecWcidArray, BARecWcidArray, "Accept")

\* A teardown or a set-up on its way, context a.
Step(a) ==
  LET r == act[a]
  IN /\ r.pc = "tdclear" => Settled /\ r.e = BARecWcidArray
     /\ r.pc \in {"tdfree", "tdcount"} => Table(r.e, 0, "Accept")
     /\ r.pc = "setup" => /\ r.val = r.e
                          /\ IF BARecWcidArray = 0 THEN Table(r.e, 0, "USED")
                             ELSE Settled /\ r.e = BARecWcidArray

\* As long as the contexts have taken turns, the table is as it should be at
\* every point of a set-up or teardown.
Counted ==
  ~raced =>
    /\ act["rx"].pc = "idle" \/ act["mlme"].pc = "idle"
    /\ Step("rx") /\ Step("mlme")
    /\ act["rx"].pc \notin {"tdfree", "tdcount"}
       /\ act["mlme"].pc \notin {"tdfree", "tdcount", "setup"} => Settled

\* Inductive. SessionsCounted alone is not: it says nothing of the table in the
\* middle of a teardown; nor is PoolConserved without the lists' types.
IndInv == EntryTypes /\ TableTypes /\ HistTypes /\ ActTypes /\ Pool /\ Counted

-----------------------------------------------------------------------------
(***************************************************************************)
(* Numbers, sequences and prefixes.                                        *)
(***************************************************************************)

\* A non-empty set of naturals has a least element.
LEMMA LeastNat ==
  ASSUME NEW S, S \subseteq Nat, S # {}
  PROVE  \E x \in S : \A y \in S : x <= y
<1> DEFINE R == {ss \in Nat \X Nat : ss[1] < ss[2]}
<1>1. IsWellFoundedOn(R, Nat)
  BY NatLessThanWellFounded DEF OpToRel
<1> HIDE DEF R
<1>2. \E x \in S : \A y \in S : ~ (<<y, x>> \in R)
  BY <1>1, WFMin, Zenon
<1>3. PICK x \in S : \A y \in S : ~ (<<y, x>> \in R)
  BY <1>2
<1>4. ASSUME NEW y \in S PROVE x <= y
  <2>1. x \in Nat /\ y \in Nat /\ ~ (<<y, x>> \in R)
    BY <1>3
  <2>2. ~ (y < x)
    BY <2>1 DEF R
  <2>3. QED
    BY <2>1, <2>2
<1>5. QED
  BY <1>4

\* Sequence numbers stay below ModSeq.
LEMMA ModRange ==
  ASSUME NEW a \in Int
  PROVE  a % ModSeq \in Seqs
BY BaReorderAssumption DEF Seqs

\* The two parts of a list cut after k frames.
LEMMA Cut ==
  ASSUME NEW S, NEW l \in Seq(S), NEW k \in 0..Len(l)
  PROVE  /\ SubSeq(l, k + 1, Len(l)) \in Seq(S) /\ Len(SubSeq(l, k + 1, Len(l))) = Len(l) - k
         /\ SubSeq(l, 1, k) \in Seq(S) /\ Len(SubSeq(l, 1, k)) = k
OBVIOUS

\* A frame inserted makes the list one longer.
LEMMA Inserted ==
  ASSUME NEW S, NEW l \in Seq(S), NEW k \in 1..(Len(l) + 1), NEW x \in S
  PROVE  InsertAt(l, k, x) \in Seq(S) /\ Len(InsertAt(l, k, x)) = Len(l) + 1
<1>1. k - 1 \in 0..Len(l)
  OBVIOUS
<1>2. SubSeq(l, 1, k - 1) \in Seq(S) /\ Len(SubSeq(l, 1, k - 1)) = k - 1
  BY <1>1, Cut
<1>3. (k - 1) + 1 = k
  OBVIOUS
<1>4. SubSeq(l, k, Len(l)) \in Seq(S) /\ Len(SubSeq(l, k, Len(l))) = Len(l) - (k - 1)
  BY <1>1, <1>3, Cut
<1> DEFINE a == SubSeq(l, 1, k - 1)
           b == SubSeq(l, k, Len(l))
<1>5. InsertAt(l, k, x) = (a \o <<x>>) \o b
  BY DEF InsertAt
<1> HIDE DEF a, b
<1>6. a \in Seq(S) /\ Len(a) = k - 1 /\ b \in Seq(S) /\ Len(b) = Len(l) - (k - 1)
  BY <1>2, <1>4 DEF a, b
<1>7. <<x>> \in Seq(S) /\ Len(<<x>>) = 1
  OBVIOUS
<1>8. a \o <<x>> \in Seq(S) /\ Len(a \o <<x>>) = Len(a) + 1
  BY <1>6, <1>7, ConcatProperties
<1>9. (a \o <<x>>) \o b \in Seq(S) /\ Len((a \o <<x>>) \o b) = Len(a \o <<x>>) + Len(b)
  BY <1>6, <1>8, ConcatProperties
<1>10. QED
  BY <1>5, <1>6, <1>8, <1>9

\* Among 0..n there is the length of the longest prefix without a member of B.
LEMMA Prefix ==
  ASSUME NEW n \in Nat, NEW B \in SUBSET (1..n)
  PROVE  \E k \in 0..n : (\A i \in 1..k : i \notin B) /\ (k < n => k + 1 \in B)
<1>1. CASE B = {}
  <2>1. n \in 0..n /\ (\A i \in 1..n : i \notin B) /\ ~(n < n)
    BY <1>1
  <2>2. QED
    BY <2>1
<1>2. CASE B # {}
  <2>1. B \subseteq Nat
    OBVIOUS
  <2>2. PICK m \in B : \A y \in B : m <= y
    BY <1>2, <2>1, LeastNat
  <2>3. m - 1 \in 0..n /\ (m - 1) + 1 = m
    OBVIOUS
  <2>4. \A i \in 1..(m - 1) : i \notin B
    BY <2>2
  <2>5. QED
    BY <2>3, <2>4
<1>3. QED
  BY <1>1, <1>2

\* The lengths that the two release functions take off the list are lengths.
LEMMA LeCountType ==
  ASSUME NEW l \in Seq(Nums), NEW s
  PROVE  LeCount(l, s) \in 0..Len(l)
<1> DEFINE B == {i \in 1..Len(l) : ~LeSeq(l[i], s)}
<1>1. PICK k \in 0..Len(l) : (\A i \in 1..k : i \notin B) /\ (k < Len(l) => k + 1 \in B)
  <2>1. Len(l) \in Nat /\ B \in SUBSET (1..Len(l))
    OBVIOUS
  <2> HIDE DEF B
  <2>2. QED
    BY <2>1, Prefix
<1>2. \A i \in 1..k : LeSeq(l[i], s)
  BY <1>1
<1>3. k < Len(l) => ~LeSeq(l[k + 1], s)
  BY <1>1
<1>4. QED
  BY <1>2, <1>3 DEF LeCount

\* The same of the frames in order.
LEMMA InOrderCountType ==
  ASSUME NEW l \in Seq(Nums), NEW s
  PROVE  InOrderCount(l, s) \in 0..Len(l)
<1> DEFINE steps(i) == SEQ_STEPONE(SeqNo(l[i]), IF i = 1 THEN s ELSE SeqNo(l[i - 1]))
           B == {i \in 1..Len(l) : ~steps(i)}
<1> HIDE DEF steps
<1>1. PICK k \in 0..Len(l) : (\A i \in 1..k : i \notin B) /\ (k < Len(l) => k + 1 \in B)
  <2>1. Len(l) \in Nat /\ B \in SUBSET (1..Len(l))
    OBVIOUS
  <2> HIDE DEF B
  <2>2. QED
    BY <2>1, Prefix
<1>2. \A i \in 1..k : steps(i)
  BY <1>1
<1>3. k < Len(l) => ~steps(k + 1)
  BY <1>1
<1>4. \E j \in 0..Len(l) : (\A i \in 1..j : steps(i)) /\ (j < Len(l) => ~steps(j + 1))
  BY <1>2, <1>3
<1>5. InOrderCount(l, s) = CHOOSE j \in 0..Len(l) : (\A i \in 1..j : steps(i)) /\ (j < Len(l) => ~steps(j + 1))
  BY DEF InOrderCount, steps
<1>6. QED
  BY <1>4, <1>5

\* The place found for a frame is one of the list's, or the one after its last.
LEMMA PlaceType ==
  ASSUME NEW l \in Seq(Nums), NEW n
  PROVE  Place(l, n) \in 1..(Len(l) + 1)
<1> DEFINE stop == {i \in DOMAIN l : ~SEQ_SMALLER(SeqNo(l[i]), SeqNo(n))}
<1>1. stop \subseteq 1..Len(l)
  OBVIOUS
<1>2. Place(l, n) = IF stop = {} THEN Len(l) + 1 ELSE Min(stop)
  BY DEF Place
<1> HIDE DEF stop
<1>3. CASE stop = {}
  BY <1>2, <1>3
<1>4. CASE stop # {}
  <2>1. Len(l) \in Nat /\ stop \subseteq Nat
    BY <1>1
  <2>2. \E x \in stop : \A y \in stop : x <= y
    BY <1>4, <2>1, LeastNat
  <2>3. Min(stop) \in stop
    BY <2>2 DEF Min
  <2>4. Min(stop) \in 1..Len(l)
    BY <1>1, <2>3
  <2>5. Place(l, n) = Min(stop)
    BY <1>2, <1>4
  <2>6. QED
    BY <2>1, <2>4, <2>5
<1>5. QED
  BY <1>3, <1>4

-----------------------------------------------------------------------------
(***************************************************************************)
(* The frames listed. PoolConserved adds the lengths of the lists with a   *)
(* fold; the places of the lists are a set with that many members.         *)
(***************************************************************************)

\* The entries, and no entries, are finite sets.
LEMMA EntriesFinite == IsFiniteSet(Entries) /\ IsFiniteSet({}) /\ Cardinality({}) = 0
BY BaReorderAssumption, FS_Interval, FS_EmptySet DEF Entries

\* How many numbers there are up to n.
LEMMA IntervalSize ==
  ASSUME NEW n \in Nat
  PROVE  IsFiniteSet(1..n) /\ Cardinality(1..n) = n
<1>1. n \in Int /\ 1 \in Int
  OBVIOUS
<1>2. IsFiniteSet(1..n) /\ Cardinality(1..n) = IF 1 > n THEN 0 ELSE n - 1 + 1
  BY <1>1, FS_Interval
<1>3. QED
  BY <1>2

\* The places of some lists are finitely many.
LEMMA CellsFinite ==
  ASSUME NEW ls \in [Entries -> Seq(Nums)], NEW s \in SUBSET Entries
  PROVE  IsFiniteSet(Cells(ls, s)) /\ Cardinality(Cells(ls, s)) \in Nat
<1> DEFINE T == {{e} \X (1..Len(ls[e])) : e \in s}
<1>1. IsFiniteSet(s)
  BY EntriesFinite, FS_Subset
<1>2. IsFiniteSet(T)
  <2> DEFINE f == [e \in s |-> {e} \X (1..Len(ls[e]))]
  <2>1. T = {f[e] : e \in s}
    OBVIOUS
  <2>2. f \in Surjection(s, T)
    BY <2>1 DEF Surjection
  <2> HIDE DEF f, T
  <2>3. QED
    BY <1>1, <2>2, FS_Surjection
<1>3. ASSUME NEW C \in T PROVE IsFiniteSet(C)
  <2>1. PICK e \in s : C = {e} \X (1..Len(ls[e]))
    BY <1>3
  <2>2. ls[e] \in Seq(Nums)
    OBVIOUS
  <2>3. Len(ls[e]) \in Nat
    BY <2>2
  <2>4. IsFiniteSet({e})
    BY FS_Singleton
  <2>5. IsFiniteSet(1..Len(ls[e]))
    BY <2>3, IntervalSize
  <2>6. QED
    BY <2>1, <2>4, <2>5, FS_Product
<1>4. Cells(ls, s) = UNION T
  BY DEF Cells
<1> HIDE DEF T
<1>5. IsFiniteSet(Cells(ls, s))
  BY <1>2, <1>3, <1>4, FS_UNION
<1>6. QED
  BY <1>5, FS_CardinalityType

\* One list's places and those of the others.
LEMMA CellsSplit ==
  ASSUME NEW ls \in [Entries -> Seq(Nums)], NEW s \in SUBSET Entries, NEW e \in s
  PROVE  Cardinality(Cells(ls, s)) = Len(ls[e]) + Cardinality(Cells(ls, s \ {e}))
<1> DEFINE A == {e} \X (1..Len(ls[e]))
           B == Cells(ls, s \ {e})
<1>1. ls[e] \in Seq(Nums)
  OBVIOUS
<1>2. Len(ls[e]) \in Nat
  BY <1>1
<1>3. IsFiniteSet({e}) /\ Cardinality({e}) = 1
  BY FS_Singleton
<1>4. IsFiniteSet(1..Len(ls[e])) /\ Cardinality(1..Len(ls[e])) = Len(ls[e])
  BY <1>2, IntervalSize
<1>5. IsFiniteSet(A) /\ Cardinality(A) = 1 * Len(ls[e])
  BY <1>3, <1>4, FS_Product
<1>6. IsFiniteSet(B) /\ Cardinality(B) \in Nat
  BY CellsFinite
<1>7. Cells(ls, s) = A \union B
  BY DEF Cells
<1>8. A \intersect B = {}
  BY DEF Cells
<1> HIDE DEF A, B
<1>9. /\ Cardinality(A \union B) = Cardinality(A) + Cardinality(B) - Cardinality(A \intersect B)
  BY <1>5, <1>6, FS_Union
<1>10. Cardinality(A \intersect B) = 0
  BY <1>8, EntriesFinite
<1>11. Cardinality(A) = Len(ls[e])
  BY <1>2, <1>5
<1>12. Cardinality(A \union B) = Len(ls[e]) + Cardinality(B)
  BY <1>2, <1>6, <1>9, <1>10, <1>11
<1>13. QED
  BY <1>7, <1>12 DEF B

\* The lists with e's replaced by l.
Put(ls, e, l) == [ls EXCEPT ![e] = l]

\* A list replaced changes the number by the difference of the lengths.
LEMMA CellsUpdate ==
  ASSUME NEW ls \in [Entries -> Seq(Nums)], NEW e \in Entries, NEW l \in Seq(Nums)
  PROVE  /\ Put(ls, e, l) \in [Entries -> Seq(Nums)]
         /\ Cardinality(Cells(Put(ls, e, l), Entries)) \in Nat
         /\ Cardinality(Cells(Put(ls, e, l), Entries)) + Len(ls[e])
              = Cardinality(Cells(ls, Entries)) + Len(l)
<1> DEFINE ms == Put(ls, e, l)
<1>1. /\ ms \in [Entries -> Seq(Nums)] /\ ms[e] = l /\ Entries \in SUBSET Entries
      /\ \A x \in Entries \ {e} : ms[x] = ls[x]
  BY DEF Put
<1> HIDE DEF ms
<1>2. Cells(ms, Entries \ {e}) = Cells(ls, Entries \ {e})
  BY <1>1 DEF Cells
<1>3. Cardinality(Cells(ms, Entries)) = Len(ms[e]) + Cardinality(Cells(ms, Entries \ {e}))
  BY <1>1, CellsSplit
<1>4. Cardinality(Cells(ls, Entries)) = Len(ls[e]) + Cardinality(Cells(ls, Entries \ {e}))
  BY <1>1, CellsSplit
<1> DEFINE c == Cardinality(Cells(ls, Entries \ {e}))
<1>5. c \in Nat /\ Cardinality(Cells(ms, Entries)) \in Nat
  BY <1>1, CellsFinite
<1>6. Cardinality(Cells(ms, Entries)) = Len(l) + c /\ Cardinality(Cells(ls, Entries)) = Len(ls[e]) + c
  BY <1>1, <1>2, <1>3, <1>4
<1> HIDE DEF c
<1>7. Len(l) \in Nat /\ ls[e] \in Seq(Nums)
  OBVIOUS
<1>8. Len(ls[e]) \in Nat
  BY <1>7
<1>9. Len(l) + c + Len(ls[e]) = Len(ls[e]) + c + Len(l)
  BY <1>5, <1>7, <1>8
<1>10. ms \in [Entries -> Seq(Nums)] /\ Cardinality(Cells(ms, Entries)) \in Nat
       /\ Cardinality(Cells(ms, Entries)) + Len(ls[e]) = Cardinality(Cells(ls, Entries)) + Len(l)
  BY <1>1, <1>5, <1>6, <1>9
<1>11. QED
  BY <1>10 DEF ms

\* The fold of MapThenSumSet, as an equation between functions.
Pick(s) == CHOOSE x \in s : TRUE
SumStep(g, ls, s) == IF s = {} THEN 0 ELSE Len(ls[Pick(s)]) + g[s \ {Pick(s)}]
IsSum(g, ls) == g = [s \in SUBSET Entries |-> SumStep(g, ls, s)]

\* The number of places obeys the fold's equation.
LEMMA CellsSum ==
  ASSUME NEW ls \in [Entries -> Seq(Nums)]
  PROVE  IsSum([s \in SUBSET Entries |-> Cardinality(Cells(ls, s))], ls)
<1> DEFINE g == [s \in SUBSET Entries |-> Cardinality(Cells(ls, s))]
<1>1. ASSUME NEW s \in SUBSET Entries
      PROVE  Cardinality(Cells(ls, s)) = SumStep(g, ls, s)
  <2>1. CASE s = {}
    <3>1. Cells(ls, s) = {}
      BY <2>1 DEF Cells
    <3>2. QED
      BY <2>1, <3>1, EntriesFinite DEF SumStep
  <2>2. CASE s # {}
    <3>1. Pick(s) \in s
      BY <2>2 DEF Pick
    <3>2. Cardinality(Cells(ls, s)) = Len(ls[Pick(s)]) + Cardinality(Cells(ls, s \ {Pick(s)}))
      BY <3>1, CellsSplit
    <3>3. s \ {Pick(s)} \in SUBSET Entries
      OBVIOUS
    <3>4. g[s \ {Pick(s)}] = Cardinality(Cells(ls, s \ {Pick(s)}))
      BY <3>3
    <3> HIDE DEF g
    <3>5. QED
      BY <2>2, <3>2, <3>4 DEF SumStep
  <2>3. QED
    BY <2>1, <2>2
<1>2. g = [s \in SUBSET Entries |-> SumStep(g, ls, s)]
  BY <1>1
<1>3. QED
  BY <1>2 DEF IsSum

\* The equation has one solution.
LEMMA SumUnique ==
  ASSUME NEW ls \in [Entries -> Seq(Nums)], NEW g, NEW h, IsSum(g, ls), IsSum(h, ls)
  PROVE  g[Entries] = h[Entries]
<1> DEFINE D == {Cardinality(s) : s \in {t \in SUBSET Entries : g[t] # h[t]}}
<1>1. SUFFICES ASSUME g[Entries] # h[Entries] PROVE FALSE
  OBVIOUS
<1>2. D \subseteq Nat
  BY EntriesFinite, FS_Subset, FS_CardinalityType
<1>3. Cardinality(Entries) \in D
  BY <1>1
<1>4. PICK k \in D : \A j \in D : k <= j
  <2> HIDE DEF D
  <2>1. QED
    BY <1>2, <1>3, LeastNat
<1>5. PICK s \in SUBSET Entries : g[s] # h[s] /\ k = Cardinality(s)
  BY <1>4
<1>6. g[s] = SumStep(g, ls, s) /\ h[s] = SumStep(h, ls, s)
  BY <1>5 DEF IsSum
<1>7. s # {}
  BY <1>5, <1>6 DEF SumStep
<1>8. Pick(s) \in s
  BY <1>7 DEF Pick
<1>9. g[s \ {Pick(s)}] # h[s \ {Pick(s)}]
  BY <1>5, <1>6, <1>7 DEF SumStep
<1>10. IsFiniteSet(s)
  BY EntriesFinite, FS_Subset
<1>11. Cardinality(s \ {Pick(s)}) = Cardinality(s) - 1
  BY <1>8, <1>10, FS_RemoveElement
<1>12. Cardinality(s \ {Pick(s)}) \in D
  BY <1>9
<1>13. Cardinality(s) \in Nat
  BY <1>10, FS_CardinalityType
<1> HIDE DEF D
<1>14. Cardinality(s) <= Cardinality(s) - 1
  BY <1>4, <1>5, <1>11, <1>12
<1>15. QED
  BY <1>13, <1>14

\* The fold counts the places.
LEMMA TotalIs ==
  ASSUME list \in [Entries -> Seq(Nums)]
  PROVE  MapThenSumSet(LAMBDA e : Len(list[e]), Entries) = Cardinality(Cells(list, Entries))
<1> DEFINE c == [s \in SUBSET Entries |-> Cardinality(Cells(list, s))]
           g == CHOOSE x : IsSum(x, list)
<1>1. MapThenSumSet(LAMBDA e : Len(list[e]), Entries) = g[Entries]
  BY DEF MapThenSumSet, MapThenFoldSet, IsSum, SumStep, Pick
<1>2. IsSum(c, list)
  BY CellsSum
<1>3. c[Entries] = Cardinality(Cells(list, Entries))
  OBVIOUS
<1> HIDE DEF c
<1>4. IsSum(g, list)
  BY <1>2
<1> HIDE DEF g
<1>5. g[Entries] = c[Entries]
  BY <1>2, <1>4, SumUnique
<1>6. QED
  BY <1>1, <1>3, <1>5

-----------------------------------------------------------------------------
(***************************************************************************)
(* The parts of a step.                                                    *)
(***************************************************************************)
\* What the histories record of the order.
Orders == {"new", "again", "old"}

\* Numbers that are written to LastIndSeq.
LEMMA SeqNoType ==
  ASSUME NEW n \in Int
  PROVE  SeqNo(n) \in Seqs
BY ModRange DEF SeqNo

\* The number of a frame that is listed.
LEMMA ListedSeq ==
  ASSUME NEW l \in Seq(Nums), NEW k \in 1..Len(l)
  PROVE  SeqNo(l[k]) \in Seqs
<1>1. l[k] \in Nums
  OBVIOUS
<1>2. l[k] \in Int
  <2> DEFINE x == l[k]
  <2>1. x \in Nums
    BY <1>1
  <2> HIDE DEF x
  <2>2. x \in Int
    BY <2>1, BaReorderAssumption DEF Nums
  <2>3. QED
    BY <2>2 DEF x
<1>3. QED
  BY <1>2, SeqNoType

\* The reset value is a number like the others.
LEMMA ResetType == RESET_RCV_SEQ \in Nat /\ Seqs \subseteq Nat
BY BaReorderAssumption DEF RESET_RCV_SEQ, Seqs

\* Frames are naturals.
LEMMA NumsInNat == Nums \subseteq Nat /\ Nums \subseteq -1..LastNum
BY BaReorderAssumption DEF Nums

\* One list is replaced, and blocks are taken or given back for the difference.
LEMMA PoolStep ==
  ASSUME EntryTypes, Pool, NEW e \in Entries, NEW l \in Seq(Nums),
         list' = Put(list, e, l), free' \in Nat, eaps' \in Nat,
         free' + Len(l) + eaps' = free + Len(list[e]) + eaps
  PROVE  list' \in [Entries -> Seq(Nums)] /\ Pool'
<1>1. list \in [Entries -> Seq(Nums)]
  BY DEF EntryTypes
<1> DEFINE c == Cardinality(Cells(list, Entries))
           d == Cardinality(Cells(Put(list, e, l), Entries))
           m == Len(list[e])
           n == Len(l)
<1>2. /\ Put(list, e, l) \in [Entries -> Seq(Nums)]
      /\ d \in Nat /\ d + m = c + n
  BY <1>1, CellsUpdate
<1>3. Entries \in SUBSET Entries
  OBVIOUS
<1>4. c \in Nat
  BY <1>1, <1>3, CellsFinite
<1>5. list[e] \in Seq(Nums)
  BY <1>1
<1>6. m \in Nat /\ n \in Nat
  BY <1>5
<1>7. free \in Nat /\ eaps \in Nat /\ free + c + eaps = Blocks
  BY DEF Pool
<1>8. free' + n + eaps' = free + m + eaps /\ free' \in Nat /\ eaps' \in Nat
  OBVIOUS
<1>9. d = Cardinality(Cells(list', Entries))
  OBVIOUS
<1> DEFINE g == free'
           q == eaps'
<1>10. d + m = c + n /\ g + n + q = free + m + eaps /\ g \in Nat /\ q \in Nat /\ d \in Nat /\ free \in Nat /\ eaps \in Nat
  BY <1>2, <1>7, <1>8
<1> HIDE DEF c, d, m, n, g, q
<1>11. g + d + q = free + c + eaps
  BY <1>4, <1>6, <1>10
<1>12. free' + d + eaps' = free + c + eaps
  BY <1>11 DEF g, q
<1>13. QED
  BY <1>2, <1>7, <1>8, <1>9, <1>12 DEF Pool

\* Nothing is listed, taken or given back.
LEMMA PoolSame ==
  ASSUME Pool, UNCHANGED <<list, free, eaps>>
  PROVE  Pool'
BY DEF Pool, Cells

\* The first k frames of a list are released with their blocks.
LEMMA Released ==
  ASSUME EntryTypes, Pool, NEW e \in Entries, NEW k \in 0..Len(list[e]),
         list' = Put(list, e, SubSeq(list[e], k + 1, Len(list[e]))),
         free' = free + k, eaps' = eaps
  PROVE  list' \in [Entries -> Seq(Nums)] /\ Pool'
<1> DEFINE l == SubSeq(list[e], k + 1, Len(list[e]))
           m == Len(list[e])
           n == Len(l)
<1>1. list[e] \in Seq(Nums)
  BY DEF EntryTypes
<1>2. l \in Seq(Nums) /\ n = m - k
  BY <1>1, Cut
<1>3. list' = Put(list, e, l)
  OBVIOUS
<1>4. m \in Nat /\ n \in Nat
  BY <1>1, <1>2
<1>5. free \in Nat /\ eaps \in Nat /\ free' = free + k /\ eaps' = eaps
  BY DEF Pool
<1> HIDE DEF l, m, n
<1>6. free' \in Nat /\ eaps' \in Nat /\ k \in Nat
  BY <1>4, <1>5
<1>7. free' + n + eaps' = free + m + eaps
  BY <1>2, <1>4, <1>5, <1>6
<1>8. QED
  BY <1>2, <1>3, <1>6, <1>7, PoolStep DEF m, n

\* What is indicated are frames.
LEMMA Indicated ==
  ASSUME HistTypes, NEW f \in Seq(Nums), Indicate(f)
  PROVE  last' \in -1..LastNum /\ order' \in Orders
<1>1. order' \in Orders
  BY DEF HistTypes, Indicate, Orders
<1>2. last' = IF f = <<>> THEN last ELSE f[Len(f)]
  BY DEF Indicate
<1>3. f # <<>> => f[Len(f)] \in Nums
  OBVIOUS
<1>4. last \in -1..LastNum
  BY DEF HistTypes
<1>5. QED
  BY <1>1, <1>2, <1>3, <1>4, NumsInNat

\* ba_refresh_reordering_mpdus.
LEMMA Refreshed ==
  ASSUME EntryTypes, HistTypes, Pool, NEW e \in Entries, Refresh(e), eaps' = eaps
  PROVE  /\ list' \in [Entries -> Seq(Nums)] /\ Pool'
         /\ LastIndSeq' \in [Entries -> Seqs \union {RESET_RCV_SEQ}]
         /\ last' \in -1..LastNum /\ order' \in Orders
<1>1. LastIndSeq' \in [Entries -> Seqs \union {RESET_RCV_SEQ}]
  BY DEF EntryTypes, Refresh
<1>2. order' \in Orders
  BY DEF HistTypes, Refresh, Orders
<1>3. last' \in -1..LastNum
  BY BaReorderAssumption DEF Refresh
<1>4. list[e] \in Seq(Nums)
  BY DEF EntryTypes
<1>5. <<>> \in Seq(Nums) /\ Len(<<>>) = 0 /\ Len(list[e]) \in Nat
  BY <1>4
<1>6. list' = Put(list, e, <<>>) /\ free' = free + Len(list[e])
  BY DEF Refresh, Put
<1>7. free \in Nat /\ eaps \in Nat
  BY DEF Pool
<1>8. free' \in Nat /\ eaps' \in Nat /\ free' + Len(<<>>) + eaps' = free + Len(list[e]) + eaps
  BY <1>5, <1>6, <1>7
<1>9. list' \in [Entries -> Seq(Nums)] /\ Pool'
  BY <1>5, <1>6, <1>8, PoolStep
<1>10. QED
  BY <1>1, <1>2, <1>3, <1>9

\* LastIndSeq is written, or not.
LEMMA EntryStep ==
  ASSUME EntryTypes, UNCHANGED <<status, BAWinSize>>, list' \in [Entries -> Seq(Nums)],
         \/ UNCHANGED LastIndSeq
         \/ \E e \in Entries, s \in Seqs \union {RESET_RCV_SEQ} : SetLastIndSeq(e, s)
  PROVE  EntryTypes'
BY DEF EntryTypes, SetLastIndSeq

\* The table is left alone.
LEMMA TableSame ==
  ASSUME TableTypes, UNCHANGED table
  PROVE  TableTypes'
BY DEF TableTypes, table

\* The histories and the peer after a step of context a.
LEMMA HistStep ==
  ASSUME HistTypes, NEW a, Race(a), last' \in -1..LastNum, order' \in Orders,
         o' = o, heard' \in Nums, bar' \in -1..LastNum, bypassed' \in BOOLEAN, ops' \in 0..MaxOps
  PROVE  HistTypes'
<1>1. raced' \in BOOLEAN
  BY DEF Race
<1>2. QED
  BY <1>1 DEF HistTypes, Orders

\* A context writes its own local variables.
LEMMA RxWrites ==
  ASSUME ActTypes, NEW r, act' = [act EXCEPT !["rx"] = r], RxWork(r)
  PROVE  ActTypes' /\ act'["mlme"] = act["mlme"] /\ act'["rx"] = r
<1>1. act \in [Actors -> Work] /\ r \in Work /\ "rx" \in Actors /\ "mlme" \in Actors
  BY DEF ActTypes, RxWork, Actors
<1>2. act' \in [Actors -> Work] /\ act'["mlme"] = act["mlme"] /\ act'["rx"] = r
  BY <1>1
<1>3. QED
  BY <1>2 DEF ActTypes

\* The same of the MLME thread.
LEMMA MlmeWrites ==
  ASSUME ActTypes, NEW r, act' = [act EXCEPT !["mlme"] = r], MlmeWork(r)
  PROVE  ActTypes' /\ act'["rx"] = act["rx"] /\ act'["mlme"] = r
<1>1. act \in [Actors -> Work] /\ r \in Work /\ "rx" \in Actors /\ "mlme" \in Actors
  BY DEF ActTypes, MlmeWork, Actors
<1>2. act' \in [Actors -> Work] /\ act'["rx"] = act["rx"] /\ act'["mlme"] = r
  BY <1>1
<1>3. QED
  BY <1>2 DEF ActTypes

\* A context that is done.
LEMMA IdleWork == Idle \in Work /\ RxWork(Idle) /\ MlmeWork(Idle)
BY BaReorderAssumption DEF Idle, Work, RxWork, MlmeWork, Pcs

\* A step of the tasklet that does not touch the table.
LEMMA RxQuiet ==
  ASSUME Counted, Race("rx"), UNCHANGED <<status, table>>, act'["mlme"] = act["mlme"],
         act["rx"].pc \notin {"tdclear", "tdfree", "tdcount"},
         act'["rx"].pc \notin {"tdclear", "tdfree", "tdcount", "setup"}
  PROVE  Counted'
<1>1. SUFFICES ASSUME ~raced' PROVE Counted'
  BY DEF Counted
<1>2. ~raced /\ act["mlme"].pc = "idle"
  BY <1>1 DEF Race, Actors
<1>3. Settled
  BY <1>2 DEF Counted
<1>4. Settled'
  BY <1>3 DEF Settled, Table, table
<1>5. act'["mlme"].pc = "idle"
  BY <1>2
<1>6. Step("rx")' /\ Step("mlme")'
  BY <1>5 DEF Step
<1>7. QED
  BY <1>4, <1>5, <1>6 DEF Counted

-----------------------------------------------------------------------------
(***************************************************************************)
(* The tasklet's steps.                                                    *)
(***************************************************************************)

\* The missing frame is given up and what follows it goes up.
LEMMA FlushOneStep ==
  ASSUME IndInv, FlushOne
  PROVE  IndInv'
<1> DEFINE r == act["rx"]
           k == InOrderCount(list[r.e], r.val)
           s == IF k = 0 THEN RESET_RCV_SEQ ELSE SeqNo(list[r.e][k])
           q == [r EXCEPT !.pc = "flushset", !.val = s]
<1>1. /\ EntryTypes /\ TableTypes /\ HistTypes /\ ActTypes /\ Pool /\ Counted
      /\ RxWork(r) /\ r.pc = "flushone" /\ Race("rx")
  BY DEF IndInv, ActTypes, FlushOne
<1>2. r \in Work /\ r.e \in Entries /\ r.val \in Seqs
  BY <1>1, NumsInNat DEF RxWork
<1>3. k \in 0..Len(list[r.e]) /\ s \in Seqs \union {RESET_RCV_SEQ}
  <2>1. list[r.e] \in Seq(Nums)
    BY <1>1, <1>2 DEF EntryTypes
  <2>2. k \in 0..Len(list[r.e])
    BY <2>1, InOrderCountType
  <2> HIDE DEF k
  <2>3. k # 0 => k \in 1..Len(list[r.e])
    BY <2>2
  <2>4. k # 0 => SeqNo(list[r.e][k]) \in Seqs
    BY <2>1, <2>3, ListedSeq
  <2>5. QED
    BY <2>2, <2>4
<1> HIDE DEF k, s
<1>4. RxWork(q) /\ q.pc \notin {"tdclear", "tdfree", "tdcount", "setup"}
  BY <1>1, <1>2, <1>3, IdleWork, ResetType DEF RxWork, Work, Pcs
<1>5. act' = [act EXCEPT !["rx"] = q]
  BY <1>1 DEF FlushOne, Release, ActTypes, k, s
<1> HIDE DEF q
<1>6. ActTypes' /\ act'["mlme"] = act["mlme"] /\ act'["rx"] = q
  BY <1>1, <1>4, <1>5, RxWrites
<1>7. list' \in [Entries -> Seq(Nums)] /\ Pool'
  <2>1. list' = Put(list, r.e, SubSeq(list[r.e], k + 1, Len(list[r.e]))) /\ free' = free + k /\ eaps' = eaps
    BY DEF FlushOne, Release, Put, k
  <2>2. QED
    BY <1>1, <1>2, <1>3, <2>1, Released
<1>8. UNCHANGED <<status, BAWinSize, table>> /\ SetLastIndSeq(r.e, r.val)
  BY DEF FlushOne, Release
<1>9. EntryTypes'
  BY <1>1, <1>2, <1>3, <1>7, <1>8, EntryStep
<1>10. TableTypes'
  BY <1>1, <1>8, TableSame
<1>11. last' \in -1..LastNum /\ order' \in Orders
  <2>1. list[r.e] \in Seq(Nums)
    BY <1>1, <1>2 DEF EntryTypes
  <2>2. SubSeq(list[r.e], 1, k) \in Seq(Nums)
    BY <1>3, <2>1, Cut
  <2>3. <<>> \in Seq(Nums)
    BY <1>2
  <2>4. SubSeq(list[r.e], 1, k) \o <<>> \in Seq(Nums)
    BY <2>2, <2>3, ConcatProperties
  <2>5. Indicate(SubSeq(list[r.e], 1, k) \o <<>>)
    BY DEF FlushOne, Release, k
  <2>6. QED
    BY <1>1, <2>4, <2>5, Indicated
<1>12. HistTypes'
  <2>1. UNCHANGED <<o, heard, bar, bypassed, ops>>
    BY DEF FlushOne, Release, peer
  <2>2. heard' \in Nums /\ bar' \in -1..LastNum /\ bypassed' \in BOOLEAN /\ ops' \in 0..MaxOps
    BY <1>1, <2>1 DEF HistTypes
  <2>3. QED
    BY <1>1, <1>11, <2>1, <2>2, HistStep
<1>13. Counted'
  BY <1>1, <1>4, <1>6, <1>8, RxQuiet
<1>14. QED
  BY <1>6, <1>7, <1>9, <1>10, <1>12, <1>13 DEF IndInv

\* The number of the last frame released is written back.
LEMMA FlushSetStep ==
  ASSUME IndInv, FlushSet
  PROVE  IndInv'
<1> DEFINE r == act["rx"]
           q == IF r.v THEN Idle ELSE [r EXCEPT !.pc = "decide", !.val = 0, !.v = FALSE]
<1>1. /\ EntryTypes /\ TableTypes /\ HistTypes /\ ActTypes /\ Pool /\ Counted
      /\ RxWork(r) /\ r.pc = "flushset" /\ Race("rx")
  BY DEF IndInv, ActTypes, FlushSet
<1>2. r \in Work /\ r.e \in Entries /\ r.val \in Seqs \union {RESET_RCV_SEQ} /\ (~r.v => r.n \in Nums)
  BY <1>1, NumsInNat DEF RxWork
<1>3. RxWork(q) /\ q.pc \notin {"tdclear", "tdfree", "tdcount", "setup"}
  BY <1>1, <1>2, IdleWork, ResetType DEF RxWork, Work, Pcs, Idle
<1>4. act' = [act EXCEPT !["rx"] = q]
  BY <1>1 DEF FlushSet, SetUnlessReset, Done, ActTypes
<1> HIDE DEF q
<1>5. ActTypes' /\ act'["mlme"] = act["mlme"] /\ act'["rx"] = q
  BY <1>1, <1>3, <1>4, RxWrites
<1>6. list' \in [Entries -> Seq(Nums)] /\ Pool'
  <2>1. UNCHANGED <<list, free, eaps>>
    BY DEF FlushSet, SetUnlessReset, Done
  <2>2. QED
    BY <1>1, <2>1, PoolSame DEF EntryTypes
<1>7. /\ UNCHANGED <<status, BAWinSize, table>>
      /\ \/ UNCHANGED LastIndSeq
         \/ SetLastIndSeq(r.e, r.val)
  BY DEF FlushSet, SetUnlessReset, Done
<1>8. EntryTypes'
  BY <1>1, <1>2, <1>6, <1>7, EntryStep
<1>9. TableTypes'
  BY <1>1, <1>7, TableSame
<1>10. last' \in -1..LastNum /\ order' \in Orders
  BY <1>1 DEF FlushSet, SetUnlessReset, Done, HistTypes, Orders, up
<1>11. HistTypes'
  <2>1. UNCHANGED <<o, heard, bar, bypassed, ops>>
    BY DEF FlushSet, SetUnlessReset, Done, peer
  <2>2. heard' \in Nums /\ bar' \in -1..LastNum /\ bypassed' \in BOOLEAN /\ ops' \in 0..MaxOps
    BY <1>1, <2>1 DEF HistTypes
  <2>3. QED
    BY <1>1, <1>10, <2>1, <2>2, HistStep
<1>12. Counted'
  BY <1>1, <1>3, <1>5, <1>7, RxQuiet
<1>13. QED
  BY <1>5, <1>6, <1>8, <1>9, <1>11, <1>12 DEF IndInv

\* The first frame after a reset goes up.
LEMMA FirstFrameStep ==
  ASSUME IndInv, FirstFrame
  PROVE  IndInv'
<1> DEFINE r == act["rx"]
           q == Idle
<1>1. /\ EntryTypes /\ TableTypes /\ HistTypes /\ ActTypes /\ Pool /\ Counted
      /\ RxWork(r) /\ r.pc = "decide" /\ Race("rx")
  BY DEF IndInv, ActTypes, FirstFrame
<1>2. r \in Work /\ r.e \in Entries /\ r.n \in Nums /\ r.n \in Nat
  BY <1>1, NumsInNat DEF RxWork
<1>3. SeqNo(r.n) \in Seqs
  BY <1>2, SeqNoType
<1>4. RxWork(q) /\ q.pc \notin {"tdclear", "tdfree", "tdcount", "setup"}
  BY <1>1, <1>2, <1>3, IdleWork, ResetType DEF RxWork, Work, Pcs, Idle
<1>5. act' = [act EXCEPT !["rx"] = q]
  BY <1>1 DEF FirstFrame, Done, ActTypes
<1> HIDE DEF q
<1>6. ActTypes' /\ act'["mlme"] = act["mlme"] /\ act'["rx"] = q
  BY <1>1, <1>4, <1>5, RxWrites
<1>7. list' \in [Entries -> Seq(Nums)] /\ Pool'
  <2>1. UNCHANGED <<list, free, eaps>>
    BY DEF FirstFrame, Done
  <2>2. QED
    BY <1>1, <2>1, PoolSame DEF EntryTypes
<1>8. UNCHANGED <<status, BAWinSize, table>> /\ SetLastIndSeq(r.e, SeqNo(r.n))
  BY DEF FirstFrame, Done
<1>9. EntryTypes'
  BY <1>1, <1>2, <1>3, <1>7, <1>8, EntryStep
<1>10. TableTypes'
  BY <1>1, <1>8, TableSame
<1>11. last' \in -1..LastNum /\ order' \in Orders
  <2>1. <<r.n>> \in Seq(Nums) /\ Indicate(<<r.n>>)
    BY <1>2 DEF FirstFrame, Done
  <2>2. QED
    BY <1>1, <2>1, Indicated
<1>12. HistTypes'
  <2>1. UNCHANGED <<o, heard, bar, bypassed, ops>>
    BY DEF FirstFrame, Done, peer
  <2>2. heard' \in Nums /\ bar' \in -1..LastNum /\ bypassed' \in BOOLEAN /\ ops' \in 0..MaxOps
    BY <1>1, <2>1 DEF HistTypes
  <2>3. QED
    BY <1>1, <1>11, <2>1, <2>2, HistStep
<1>13. Counted'
  BY <1>1, <1>4, <1>6, <1>8, RxQuiet
<1>14. QED
  BY <1>6, <1>7, <1>9, <1>10, <1>12, <1>13 DEF IndInv

\* The next frame goes up with those that follow it.
LEMMA InOrderStep ==
  ASSUME IndInv, InOrder
  PROVE  IndInv'
<1> DEFINE r == act["rx"]
           k == InOrderCount(list[r.e], SeqNo(r.n))
           s == IF k = 0 THEN RESET_RCV_SEQ ELSE SeqNo(list[r.e][k])
           q == [r EXCEPT !.pc = "set", !.val = s]
<1>1. /\ EntryTypes /\ TableTypes /\ HistTypes /\ ActTypes /\ Pool /\ Counted
      /\ RxWork(r) /\ r.pc = "decide" /\ Race("rx")
  BY DEF IndInv, ActTypes, InOrder
<1>2. r \in Work /\ r.e \in Entries /\ r.n \in Nums /\ r.n \in Nat
  BY <1>1, NumsInNat DEF RxWork
<1>3. k \in 0..Len(list[r.e]) /\ s \in Seqs \union {RESET_RCV_SEQ} /\ SeqNo(r.n) \in Seqs
  <2>1. list[r.e] \in Seq(Nums)
    BY <1>1, <1>2 DEF EntryTypes
  <2>2. k \in 0..Len(list[r.e])
    BY <2>1, InOrderCountType
  <2> HIDE DEF k
  <2>3. k # 0 => k \in 1..Len(list[r.e])
    BY <2>2
  <2>4. k # 0 => SeqNo(list[r.e][k]) \in Seqs
    BY <2>1, <2>3, ListedSeq
  <2>5. SeqNo(r.n) \in Seqs
    BY <1>2, SeqNoType
  <2>6. QED
    BY <2>2, <2>4, <2>5
<1> HIDE DEF k, s
<1>4. RxWork(q) /\ q.pc \notin {"tdclear", "tdfree", "tdcount", "setup"}
  BY <1>1, <1>2, <1>3, IdleWork, ResetType DEF RxWork, Work, Pcs
<1>5. act' = [act EXCEPT !["rx"] = q]
  BY <1>1 DEF InOrder, ActTypes, k, s
<1> HIDE DEF q
<1>6. ActTypes' /\ act'["mlme"] = act["mlme"] /\ act'["rx"] = q
  BY <1>1, <1>4, <1>5, RxWrites
<1>7. list' \in [Entries -> Seq(Nums)] /\ Pool'
  <2>1. list' = Put(list, r.e, SubSeq(list[r.e], k + 1, Len(list[r.e]))) /\ free' = free + k /\ eaps' = eaps
    BY DEF InOrder, Put, k
  <2>2. QED
    BY <1>1, <1>2, <1>3, <2>1, Released
<1>8. UNCHANGED <<status, BAWinSize, table>> /\ SetLastIndSeq(r.e, SeqNo(r.n))
  BY DEF InOrder
<1>9. EntryTypes'
  BY <1>1, <1>2, <1>3, <1>7, <1>8, EntryStep
<1>10. TableTypes'
  BY <1>1, <1>8, TableSame
<1>11. last' \in -1..LastNum /\ order' \in Orders
  <2>1. list[r.e] \in Seq(Nums)
    BY <1>1, <1>2 DEF EntryTypes
  <2>2. SubSeq(list[r.e], 1, k) \in Seq(Nums)
    BY <1>3, <2>1, Cut
  <2>3. <<r.n>> \in Seq(Nums)
    BY <1>2
  <2>4. <<r.n>> \o SubSeq(list[r.e], 1, k) \in Seq(Nums)
    BY <2>2, <2>3, ConcatProperties
  <2>5. Indicate(<<r.n>> \o SubSeq(list[r.e], 1, k))
    BY DEF InOrder, k
  <2>6. QED
    BY <1>1, <2>4, <2>5, Indicated
<1>12. HistTypes'
  <2>1. UNCHANGED <<o, heard, bar, bypassed, ops>>
    BY DEF InOrder, peer
  <2>2. heard' \in Nums /\ bar' \in -1..LastNum /\ bypassed' \in BOOLEAN /\ ops' \in 0..MaxOps
    BY <1>1, <2>1 DEF HistTypes
  <2>3. QED
    BY <1>1, <1>11, <2>1, <2>2, HistStep
<1>13. Counted'
  BY <1>1, <1>4, <1>6, <1>8, RxQuiet
<1>14. QED
  BY <1>6, <1>7, <1>9, <1>10, <1>12, <1>13 DEF IndInv

\* An old frame is dropped.
LEMMA DropOldStep ==
  ASSUME IndInv, DropOld
  PROVE  IndInv'
<1> DEFINE r == act["rx"]
           q == Idle
<1>1. /\ EntryTypes /\ TableTypes /\ HistTypes /\ ActTypes /\ Pool /\ Counted
      /\ RxWork(r) /\ r.pc = "decide" /\ Race("rx")
  BY DEF IndInv, ActTypes, DropOld
<1>2. r \in Work /\ r.e \in Entries /\ r.n \in Nums /\ r.n \in Nat
  BY <1>1, NumsInNat DEF RxWork
<1>3. RxWork(q) /\ q.pc \notin {"tdclear", "tdfree", "tdcount", "setup"}
  BY <1>1, <1>2, IdleWork, ResetType DEF RxWork, Work, Pcs, Idle
<1>4. act' = [act EXCEPT !["rx"] = q]
  BY <1>1 DEF DropOld, Done, entry, up, ActTypes
<1> HIDE DEF q
<1>5. ActTypes' /\ act'["mlme"] = act["mlme"] /\ act'["rx"] = q
  BY <1>1, <1>3, <1>4, RxWrites
<1>6. list' \in [Entries -> Seq(Nums)] /\ Pool'
  <2>1. UNCHANGED <<list, free, eaps>>
    BY DEF DropOld, Done, entry, up
  <2>2. QED
    BY <1>1, <2>1, PoolSame DEF EntryTypes
<1>7. UNCHANGED <<status, BAWinSize, LastIndSeq, table>>
  BY DEF DropOld, Done, entry, up
<1>8. EntryTypes'
  BY <1>1, <1>2, <1>6, <1>7, EntryStep
<1>9. TableTypes'
  BY <1>1, <1>7, TableSame
<1>10. last' \in -1..LastNum /\ order' \in Orders
  BY <1>1 DEF DropOld, Done, entry, up, HistTypes, Orders
<1>11. HistTypes'
  <2>1. UNCHANGED <<o, heard, bar, bypassed, ops>>
    BY DEF DropOld, Done, entry, up, peer
  <2>2. heard' \in Nums /\ bar' \in -1..LastNum /\ bypassed' \in BOOLEAN /\ ops' \in 0..MaxOps
    BY <1>1, <2>1 DEF HistTypes
  <2>3. QED
    BY <1>1, <1>10, <2>1, <2>2, HistStep
<1>12. Counted'
  BY <1>1, <1>3, <1>5, <1>7, RxQuiet
<1>13. QED
  BY <1>5, <1>6, <1>8, <1>9, <1>11, <1>12 DEF IndInv

\* A frame in the window is to be queued.
LEMMA QueueStep ==
  ASSUME IndInv, Queue
  PROVE  IndInv'
<1> DEFINE r == act["rx"]
           q == [r EXCEPT !.pc = "enqueue"]
<1>1. /\ EntryTypes /\ TableTypes /\ HistTypes /\ ActTypes /\ Pool /\ Counted
      /\ RxWork(r) /\ r.pc = "decide" /\ Race("rx")
  BY DEF IndInv, ActTypes, Queue, Ahead
<1>2. r \in Work /\ r.e \in Entries /\ r.n \in Nums /\ r.n \in Nat
  BY <1>1, NumsInNat DEF RxWork
<1>3. RxWork(q) /\ q.pc \notin {"tdclear", "tdfree", "tdcount", "setup"}
  BY <1>1, <1>2, IdleWork, ResetType DEF RxWork, Work, Pcs
<1>4. act' = [act EXCEPT !["rx"] = q]
  BY <1>1 DEF Queue, Ahead, Go, entry, up, ActTypes
<1> HIDE DEF q
<1>5. ActTypes' /\ act'["mlme"] = act["mlme"] /\ act'["rx"] = q
  BY <1>1, <1>3, <1>4, RxWrites
<1>6. list' \in [Entries -> Seq(Nums)] /\ Pool'
  <2>1. UNCHANGED <<list, free, eaps>>
    BY DEF Queue, Ahead, Go, entry, up
  <2>2. QED
    BY <1>1, <2>1, PoolSame DEF EntryTypes
<1>7. UNCHANGED <<status, BAWinSize, LastIndSeq, table>>
  BY DEF Queue, Ahead, Go, entry, up
<1>8. EntryTypes'
  BY <1>1, <1>2, <1>6, <1>7, EntryStep
<1>9. TableTypes'
  BY <1>1, <1>7, TableSame
<1>10. last' \in -1..LastNum /\ order' \in Orders
  BY <1>1 DEF Queue, Ahead, Go, entry, up, HistTypes, Orders
<1>11. HistTypes'
  <2>1. UNCHANGED <<o, heard, bar, bypassed, ops>>
    BY DEF Queue, Ahead, Go, entry, up, peer
  <2>2. heard' \in Nums /\ bar' \in -1..LastNum /\ bypassed' \in BOOLEAN /\ ops' \in 0..MaxOps
    BY <1>1, <2>1 DEF HistTypes
  <2>3. QED
    BY <1>1, <1>10, <2>1, <2>2, HistStep
<1>12. Counted'
  BY <1>1, <1>3, <1>5, <1>7, RxQuiet
<1>13. QED
  BY <1>5, <1>6, <1>8, <1>9, <1>11, <1>12 DEF IndInv

\* The window moves up to the frame.
LEMMA MoveWindowStep ==
  ASSUME IndInv, MoveWindow
  PROVE  IndInv'
<1> DEFINE r == act["rx"]
           s == (r.n - BAWinSize[r.e]) % ModSeq
           k == LeCount(list[r.e], s)
           q == [r EXCEPT !.pc = "winset", !.val = s]
<1>1. /\ EntryTypes /\ TableTypes /\ HistTypes /\ ActTypes /\ Pool /\ Counted
      /\ RxWork(r) /\ r.pc = "decide" /\ Race("rx")
  BY DEF IndInv, ActTypes, MoveWindow, Ahead
<1>2. r \in Work /\ r.e \in Entries /\ r.n \in Nums /\ r.n \in Nat
  BY <1>1, NumsInNat DEF RxWork
<1>3. s \in Seqs /\ k \in 0..Len(list[r.e])
  <2>1. list[r.e] \in Seq(Nums) /\ BAWinSize[r.e] \in {0, WinSize}
    BY <1>1, <1>2 DEF EntryTypes
  <2>2. BAWinSize[r.e] \in Nat
    BY <2>1, BaReorderAssumption
  <2>3. r.n - BAWinSize[r.e] \in Int
    BY <1>2, <2>2
  <2>4. QED
    BY <2>1, <2>3, ModRange, LeCountType
<1> HIDE DEF k, s
<1>4. RxWork(q) /\ q.pc \notin {"tdclear", "tdfree", "tdcount", "setup"}
  BY <1>1, <1>2, <1>3, IdleWork, ResetType DEF RxWork, Work, Pcs
<1>5. act' = [act EXCEPT !["rx"] = q]
  BY <1>1 DEF MoveWindow, Ahead, Release, ActTypes, k, s
<1> HIDE DEF q
<1>6. ActTypes' /\ act'["mlme"] = act["mlme"] /\ act'["rx"] = q
  BY <1>1, <1>4, <1>5, RxWrites
<1>7. list' \in [Entries -> Seq(Nums)] /\ Pool'
  <2>1. list' = Put(list, r.e, SubSeq(list[r.e], k + 1, Len(list[r.e]))) /\ free' = free + k /\ eaps' = eaps
    BY DEF MoveWindow, Ahead, Release, Put, k, s
  <2>2. QED
    BY <1>1, <1>2, <1>3, <2>1, Released
<1>8. UNCHANGED <<status, BAWinSize, LastIndSeq, table>>
  BY DEF MoveWindow, Ahead, Release
<1>9. EntryTypes'
  BY <1>1, <1>2, <1>3, <1>7, <1>8, EntryStep
<1>10. TableTypes'
  BY <1>1, <1>8, TableSame
<1>11. last' \in -1..LastNum /\ order' \in Orders
  <2>1. list[r.e] \in Seq(Nums)
    BY <1>1, <1>2 DEF EntryTypes
  <2>2. SubSeq(list[r.e], 1, k) \in Seq(Nums)
    BY <1>3, <2>1, Cut
  <2>3. <<>> \in Seq(Nums)
    BY <1>2
  <2>4. SubSeq(list[r.e], 1, k) \o <<>> \in Seq(Nums)
    BY <2>2, <2>3, ConcatProperties
  <2>5. Indicate(SubSeq(list[r.e], 1, k) \o <<>>)
    BY DEF MoveWindow, Ahead, Release, k, s
  <2>6. QED
    BY <1>1, <2>4, <2>5, Indicated
<1>12. HistTypes'
  <2>1. UNCHANGED <<o, heard, bar, bypassed, ops>>
    BY DEF MoveWindow, Ahead, Release, peer
  <2>2. heard' \in Nums /\ bar' \in -1..LastNum /\ bypassed' \in BOOLEAN /\ ops' \in 0..MaxOps
    BY <1>1, <2>1 DEF HistTypes
  <2>3. QED
    BY <1>1, <1>11, <2>1, <2>2, HistStep
<1>13. Counted'
  BY <1>1, <1>4, <1>6, <1>8, RxQuiet
<1>14. QED
  BY <1>6, <1>7, <1>9, <1>10, <1>12, <1>13 DEF IndInv

\* The new start of the window is written.
LEMMA WindowSetStep ==
  ASSUME IndInv, WindowSet
  PROVE  IndInv'
<1> DEFINE r == act["rx"]
           q == [r EXCEPT !.pc = "enqueue", !.v = TRUE]
<1>1. /\ EntryTypes /\ TableTypes /\ HistTypes /\ ActTypes /\ Pool /\ Counted
      /\ RxWork(r) /\ r.pc = "winset" /\ Race("rx")
  BY DEF IndInv, ActTypes, WindowSet
<1>2. r \in Work /\ r.e \in Entries /\ r.n \in Nums /\ r.n \in Nat /\ r.val \in Seqs
  BY <1>1, NumsInNat DEF RxWork
<1>3. RxWork(q) /\ q.pc \notin {"tdclear", "tdfree", "tdcount", "setup"}
  BY <1>1, <1>2, IdleWork, ResetType DEF RxWork, Work, Pcs
<1>4. act' = [act EXCEPT !["rx"] = q]
  BY <1>1 DEF WindowSet, up, ActTypes
<1> HIDE DEF q
<1>5. ActTypes' /\ act'["mlme"] = act["mlme"] /\ act'["rx"] = q
  BY <1>1, <1>3, <1>4, RxWrites
<1>6. list' \in [Entries -> Seq(Nums)] /\ Pool'
  <2>1. UNCHANGED <<list, free, eaps>>
    BY DEF WindowSet, up
  <2>2. QED
    BY <1>1, <2>1, PoolSame DEF EntryTypes
<1>7. UNCHANGED <<status, BAWinSize, table>> /\ SetLastIndSeq(r.e, r.val)
  BY DEF WindowSet, up
<1>8. EntryTypes'
  BY <1>1, <1>2, <1>6, <1>7, EntryStep
<1>9. TableTypes'
  BY <1>1, <1>7, TableSame
<1>10. last' \in -1..LastNum /\ order' \in Orders
  BY <1>1 DEF WindowSet, up, HistTypes, Orders
<1>11. HistTypes'
  <2>1. UNCHANGED <<o, heard, bar, bypassed, ops>>
    BY DEF WindowSet, up, peer
  <2>2. heard' \in Nums /\ bar' \in -1..LastNum /\ bypassed' \in BOOLEAN /\ ops' \in 0..MaxOps
    BY <1>1, <2>1 DEF HistTypes
  <2>3. QED
    BY <1>1, <1>10, <2>1, <2>2, HistStep
<1>12. Counted'
  BY <1>1, <1>3, <1>5, <1>7, RxQuiet
<1>13. QED
  BY <1>5, <1>6, <1>8, <1>9, <1>11, <1>12 DEF IndInv

\* The frame that could not be queued goes up.
LEMMA NoBlockSetStep ==
  ASSUME IndInv, NoBlockSet
  PROVE  IndInv'
<1> DEFINE r == act["rx"]
           q == IF r.v THEN [r EXCEPT !.pc = "order"] ELSE Idle
<1>1. /\ EntryTypes /\ TableTypes /\ HistTypes /\ ActTypes /\ Pool /\ Counted
      /\ RxWork(r) /\ r.pc = "enqset" /\ Race("rx")
  BY DEF IndInv, ActTypes, NoBlockSet
<1>2. r \in Work /\ r.e \in Entries /\ r.n \in Nums /\ r.n \in Nat
  BY <1>1, NumsInNat DEF RxWork
<1>3. SeqNo(r.n) \in Seqs
  BY <1>2, SeqNoType
<1>4. RxWork(q) /\ q.pc \notin {"tdclear", "tdfree", "tdcount", "setup"}
  BY <1>1, <1>2, <1>3, IdleWork, ResetType DEF RxWork, Work, Pcs, Idle
<1>5. act' = [act EXCEPT !["rx"] = q]
  BY <1>1 DEF NoBlockSet, AfterEnqueue, Go, Done, ActTypes
<1> HIDE DEF q
<1>6. ActTypes' /\ act'["mlme"] = act["mlme"] /\ act'["rx"] = q
  BY <1>1, <1>4, <1>5, RxWrites
<1>7. list' \in [Entries -> Seq(Nums)] /\ Pool'
  <2>1. UNCHANGED <<list, free, eaps>>
    BY DEF NoBlockSet, AfterEnqueue, Go, Done
  <2>2. QED
    BY <1>1, <2>1, PoolSame DEF EntryTypes
<1>8. UNCHANGED <<status, BAWinSize, table>> /\ SetLastIndSeq(r.e, SeqNo(r.n))
  BY DEF NoBlockSet, AfterEnqueue, Go, Done
<1>9. EntryTypes'
  BY <1>1, <1>2, <1>3, <1>7, <1>8, EntryStep
<1>10. TableTypes'
  BY <1>1, <1>8, TableSame
<1>11. last' \in -1..LastNum /\ order' \in Orders
  <2>1. <<r.n>> \in Seq(Nums) /\ Indicate(<<r.n>>)
    BY <1>2 DEF NoBlockSet, AfterEnqueue, Go, Done
  <2>2. QED
    BY <1>1, <2>1, Indicated
<1>12. HistTypes'
  <2>1. UNCHANGED <<o, heard, bar, bypassed, ops>>
    BY DEF NoBlockSet, AfterEnqueue, Go, Done, peer
  <2>2. heard' \in Nums /\ bar' \in -1..LastNum /\ bypassed' \in BOOLEAN /\ ops' \in 0..MaxOps
    BY <1>1, <2>1 DEF HistTypes
  <2>3. QED
    BY <1>1, <1>11, <2>1, <2>2, HistStep
<1>13. Counted'
  BY <1>1, <1>4, <1>6, <1>8, RxQuiet
<1>14. QED
  BY <1>6, <1>7, <1>9, <1>10, <1>12, <1>13 DEF IndInv

\* What is in order goes up.
LEMMA WindowInOrderStep ==
  ASSUME IndInv, WindowInOrder
  PROVE  IndInv'
<1> DEFINE r == act["rx"]
           k == InOrderCount(list[r.e], LastIndSeq[r.e])
           s == IF k = 0 THEN RESET_RCV_SEQ ELSE SeqNo(list[r.e][k])
           q == [r EXCEPT !.pc = "set", !.val = s]
<1>1. /\ EntryTypes /\ TableTypes /\ HistTypes /\ ActTypes /\ Pool /\ Counted
      /\ RxWork(r) /\ r.pc = "order" /\ Race("rx")
  BY DEF IndInv, ActTypes, WindowInOrder
<1>2. r \in Work /\ r.e \in Entries
  BY <1>1, NumsInNat DEF RxWork
<1>3. k \in 0..Len(list[r.e]) /\ s \in Seqs \union {RESET_RCV_SEQ}
  <2>1. list[r.e] \in Seq(Nums)
    BY <1>1, <1>2 DEF EntryTypes
  <2>2. k \in 0..Len(list[r.e])
    BY <2>1, InOrderCountType
  <2> HIDE DEF k
  <2>3. k # 0 => k \in 1..Len(list[r.e])
    BY <2>2
  <2>4. k # 0 => SeqNo(list[r.e][k]) \in Seqs
    BY <2>1, <2>3, ListedSeq
  <2>5. QED
    BY <2>2, <2>4
<1> HIDE DEF k, s
<1>4. RxWork(q) /\ q.pc \notin {"tdclear", "tdfree", "tdcount", "setup"}
  BY <1>1, <1>2, <1>3, IdleWork, ResetType DEF RxWork, Work, Pcs
<1>5. act' = [act EXCEPT !["rx"] = q]
  BY <1>1 DEF WindowInOrder, Release, ActTypes, k, s
<1> HIDE DEF q
<1>6. ActTypes' /\ act'["mlme"] = act["mlme"] /\ act'["rx"] = q
  BY <1>1, <1>4, <1>5, RxWrites
<1>7. list' \in [Entries -> Seq(Nums)] /\ Pool'
  <2>1. list' = Put(list, r.e, SubSeq(list[r.e], k + 1, Len(list[r.e]))) /\ free' = free + k /\ eaps' = eaps
    BY DEF WindowInOrder, Release, Put, k
  <2>2. QED
    BY <1>1, <1>2, <1>3, <2>1, Released
<1>8. UNCHANGED <<status, BAWinSize, LastIndSeq, table>>
  BY DEF WindowInOrder, Release
<1>9. EntryTypes'
  BY <1>1, <1>2, <1>3, <1>7, <1>8, EntryStep
<1>10. TableTypes'
  BY <1>1, <1>8, TableSame
<1>11. last' \in -1..LastNum /\ order' \in Orders
  <2>1. list[r.e] \in Seq(Nums)
    BY <1>1, <1>2 DEF EntryTypes
  <2>2. SubSeq(list[r.e], 1, k) \in Seq(Nums)
    BY <1>3, <2>1, Cut
  <2>3. <<>> \in Seq(Nums)
    BY <1>2
  <2>4. SubSeq(list[r.e], 1, k) \o <<>> \in Seq(Nums)
    BY <2>2, <2>3, ConcatProperties
  <2>5. Indicate(SubSeq(list[r.e], 1, k) \o <<>>)
    BY DEF WindowInOrder, Release, k
  <2>6. QED
    BY <1>1, <2>4, <2>5, Indicated
<1>12. HistTypes'
  <2>1. UNCHANGED <<o, heard, bar, bypassed, ops>>
    BY DEF WindowInOrder, Release, peer
  <2>2. heard' \in Nums /\ bar' \in -1..LastNum /\ bypassed' \in BOOLEAN /\ ops' \in 0..MaxOps
    BY <1>1, <2>1 DEF HistTypes
  <2>3. QED
    BY <1>1, <1>11, <2>1, <2>2, HistStep
<1>13. Counted'
  BY <1>1, <1>4, <1>6, <1>8, RxQuiet
<1>14. QED
  BY <1>6, <1>7, <1>9, <1>10, <1>12, <1>13 DEF IndInv

\* The number of the last frame released is written back.
LEMMA InOrderSetStep ==
  ASSUME IndInv, InOrderSet
  PROVE  IndInv'
<1> DEFINE r == act["rx"]
           q == Idle
<1>1. /\ EntryTypes /\ TableTypes /\ HistTypes /\ ActTypes /\ Pool /\ Counted
      /\ RxWork(r) /\ r.pc = "set" /\ Race("rx")
  BY DEF IndInv, ActTypes, InOrderSet
<1>2. r \in Work /\ r.e \in Entries /\ r.val \in Seqs \union {RESET_RCV_SEQ}
  BY <1>1, NumsInNat DEF RxWork
<1>3. RxWork(q) /\ q.pc \notin {"tdclear", "tdfree", "tdcount", "setup"}
  BY <1>1, <1>2, IdleWork, ResetType DEF RxWork, Work, Pcs, Idle
<1>4. act' = [act EXCEPT !["rx"] = q]
  BY <1>1 DEF InOrderSet, SetUnlessReset, Done, up, ActTypes
<1> HIDE DEF q
<1>5. ActTypes' /\ act'["mlme"] = act["mlme"] /\ act'["rx"] = q
  BY <1>1, <1>3, <1>4, RxWrites
<1>6. list' \in [Entries -> Seq(Nums)] /\ Pool'
  <2>1. UNCHANGED <<list, free, eaps>>
    BY DEF InOrderSet, SetUnlessReset, Done, up
  <2>2. QED
    BY <1>1, <2>1, PoolSame DEF EntryTypes
<1>7. /\ UNCHANGED <<status, BAWinSize, table>>
      /\ \/ UNCHANGED LastIndSeq
         \/ SetLastIndSeq(r.e, r.val)
  BY DEF InOrderSet, SetUnlessReset, Done, up
<1>8. EntryTypes'
  BY <1>1, <1>2, <1>6, <1>7, EntryStep
<1>9. TableTypes'
  BY <1>1, <1>7, TableSame
<1>10. last' \in -1..LastNum /\ order' \in Orders
  BY <1>1 DEF InOrderSet, SetUnlessReset, Done, up, HistTypes, Orders
<1>11. HistTypes'
  <2>1. UNCHANGED <<o, heard, bar, bypassed, ops>>
    BY DEF InOrderSet, SetUnlessReset, Done, up, peer
  <2>2. heard' \in Nums /\ bar' \in -1..LastNum /\ bypassed' \in BOOLEAN /\ ops' \in 0..MaxOps
    BY <1>1, <2>1 DEF HistTypes
  <2>3. QED
    BY <1>1, <1>10, <2>1, <2>2, HistStep
<1>12. Counted'
  BY <1>1, <1>3, <1>5, <1>7, RxQuiet
<1>13. QED
  BY <1>5, <1>6, <1>8, <1>9, <1>11, <1>12 DEF IndInv

\* A BAR's start is written.
LEMMA BarSetStep ==
  ASSUME IndInv, BarSet
  PROVE  IndInv'
<1> DEFINE r == act["rx"]
           q == IF r.v THEN [Idle EXCEPT !.pc = "teardown"] ELSE Idle
<1>1. /\ EntryTypes /\ TableTypes /\ HistTypes /\ ActTypes /\ Pool /\ Counted
      /\ RxWork(r) /\ r.pc = "barset" /\ Race("rx")
  BY DEF IndInv, ActTypes, BarSet
<1>2. r \in Work /\ r.e \in Entries /\ r.val \in Seqs
  BY <1>1, NumsInNat DEF RxWork
<1>3. BarLast(r.val) \in Seqs
  BY <1>2, BaReorderAssumption DEF BarLast, Seqs
<1>4. RxWork(q) /\ q.pc \notin {"tdclear", "tdfree", "tdcount", "setup"}
  BY <1>1, <1>2, <1>3, IdleWork, ResetType DEF RxWork, Work, Pcs, Idle
<1>5. act' = [act EXCEPT !["rx"] = q]
  BY <1>1 DEF BarSet, Done, up, ActTypes
<1> HIDE DEF q
<1>6. ActTypes' /\ act'["mlme"] = act["mlme"] /\ act'["rx"] = q
  BY <1>1, <1>4, <1>5, RxWrites
<1>7. list' \in [Entries -> Seq(Nums)] /\ Pool'
  <2>1. UNCHANGED <<list, free, eaps>>
    BY DEF BarSet, Done, up
  <2>2. QED
    BY <1>1, <2>1, PoolSame DEF EntryTypes
<1>8. UNCHANGED <<status, BAWinSize, table>> /\ SetLastIndSeq(r.e, BarLast(r.val))
  BY DEF BarSet, Done, up
<1>9. EntryTypes'
  BY <1>1, <1>2, <1>3, <1>7, <1>8, EntryStep
<1>10. TableTypes'
  BY <1>1, <1>8, TableSame
<1>11. last' \in -1..LastNum /\ order' \in Orders
  BY <1>1 DEF BarSet, Done, up, HistTypes, Orders
<1>12. HistTypes'
  <2>1. UNCHANGED <<o, heard, bar, bypassed, ops>>
    BY DEF BarSet, Done, up, peer
  <2>2. heard' \in Nums /\ bar' \in -1..LastNum /\ bypassed' \in BOOLEAN /\ ops' \in 0..MaxOps
    BY <1>1, <2>1 DEF HistTypes
  <2>3. QED
    BY <1>1, <1>11, <2>1, <2>2, HistStep
<1>13. Counted'
  BY <1>1, <1>4, <1>6, <1>8, RxQuiet
<1>14. QED
  BY <1>6, <1>7, <1>9, <1>10, <1>12, <1>13 DEF IndInv

\* ba_enqueue_reordering_packet: a block is taken for a frame that is not yet listed.
LEMMA EnqueueStep ==
  ASSUME IndInv, ba_enqueue_reordering_packet
  PROVE  IndInv'
<1> DEFINE r == act["rx"]
           l == IF IsListed(list[r.e], r.n) THEN list[r.e]
                ELSE ba_reordering_mpdu_insertsorted(list[r.e], r.n)
           b == BlockTaken(list[r.e], r.n)
           q == IF r.v THEN [r EXCEPT !.pc = "order"] ELSE Idle
<1>1. /\ EntryTypes /\ TableTypes /\ HistTypes /\ ActTypes /\ Pool /\ Counted
      /\ RxWork(r) /\ r.pc = "enqueue" /\ Race("rx") /\ free > 0
  BY DEF IndInv, ActTypes, ba_enqueue_reordering_packet
<1>2. r \in Work /\ r.e \in Entries /\ r.n \in Nums
  BY <1>1 DEF RxWork
<1>3. list[r.e] \in Seq(Nums)
  BY <1>1, <1>2 DEF EntryTypes
<1>4. l \in Seq(Nums) /\ b \in {0, 1} /\ Len(l) = Len(list[r.e]) + b
  <2>1. Place(list[r.e], r.n) \in 1..(Len(list[r.e]) + 1)
    BY <1>3, PlaceType
  <2>2. /\ InsertAt(list[r.e], Place(list[r.e], r.n), r.n) \in Seq(Nums)
        /\ Len(InsertAt(list[r.e], Place(list[r.e], r.n), r.n)) = Len(list[r.e]) + 1
    BY <1>2, <1>3, <2>1, Inserted
  <2>3. CASE IsListed(list[r.e], r.n)
    BY <1>3, <2>3 DEF BlockTaken
  <2>4. CASE ~IsListed(list[r.e], r.n)
    BY <2>2, <2>4 DEF BlockTaken, ba_reordering_mpdu_insertsorted
  <2>5. QED
    BY <2>3, <2>4
<1>5. list' = Put(list, r.e, l) /\ free' = free - b /\ eaps' = eaps
  BY DEF ba_enqueue_reordering_packet, Put
<1>6. RxWork(q) /\ q.pc \notin {"tdclear", "tdfree", "tdcount", "setup"}
  BY <1>1, <1>2, IdleWork, ResetType DEF RxWork, Work, Pcs, Idle
<1>7. act' = [act EXCEPT !["rx"] = q]
  BY <1>1 DEF ba_enqueue_reordering_packet, AfterEnqueue, Go, Done, ActTypes
<1> HIDE DEF q, l, b
<1>8. ActTypes' /\ act'["mlme"] = act["mlme"] /\ act'["rx"] = q
  BY <1>1, <1>6, <1>7, RxWrites
<1>9. list' \in [Entries -> Seq(Nums)] /\ Pool'
  <2> DEFINE m == Len(list[r.e])
             n == Len(l)
  <2>1. m \in Nat /\ n \in Nat /\ n = m + b
    BY <1>3, <1>4
  <2>2. free \in Nat /\ eaps \in Nat
    BY <1>1 DEF Pool
  <2> HIDE DEF m, n
  <2>3. free' \in Nat /\ eaps' \in Nat /\ free' + n + eaps' = free + m + eaps
    BY <1>1, <1>4, <1>5, <2>1, <2>2
  <2>4. QED
    BY <1>1, <1>2, <1>4, <1>5, <2>3, PoolStep DEF m, n
<1>10. UNCHANGED <<status, BAWinSize, LastIndSeq, table>>
  BY DEF ba_enqueue_reordering_packet
<1>11. EntryTypes'
  BY <1>1, <1>9, <1>10, EntryStep
<1>12. TableTypes'
  BY <1>1, <1>10, TableSame
<1>13. HistTypes'
  <2>1. UNCHANGED <<o, heard, bar, bypassed, ops, last, order>>
    BY DEF ba_enqueue_reordering_packet, peer, up
  <2>2. /\ heard' \in Nums /\ bar' \in -1..LastNum /\ bypassed' \in BOOLEAN /\ ops' \in 0..MaxOps
        /\ last' \in -1..LastNum /\ order' \in Orders
    BY <1>1, <2>1 DEF HistTypes, Orders
  <2>3. QED
    BY <1>1, <2>1, <2>2, HistStep
<1>14. Counted'
  BY <1>1, <1>6, <1>8, <1>10, RxQuiet
<1>15. QED
  BY <1>8, <1>9, <1>11, <1>12, <1>13, <1>14 DEF IndInv

\* No block, or an EAP frame that keeps the block it was given.
LEMMA NoBlockStep ==
  ASSUME IndInv, NoBlock
  PROVE  IndInv'
<1> DEFINE r == act["rx"]
           k == LeCount(list[r.e], SeqNo(r.n))
           t == IF free > 0 THEN 1 ELSE 0
           l == SubSeq(list[r.e], k + 1, Len(list[r.e]))
           q == [r EXCEPT !.pc = "enqset"]
<1>1. /\ EntryTypes /\ TableTypes /\ HistTypes /\ ActTypes /\ Pool /\ Counted
      /\ RxWork(r) /\ r.pc = "enqueue" /\ Race("rx")
  BY DEF IndInv, ActTypes, NoBlock
<1>2. r \in Work /\ r.e \in Entries /\ r.n \in Nums
  BY <1>1 DEF RxWork
<1>3. list[r.e] \in Seq(Nums)
  BY <1>1, <1>2 DEF EntryTypes
<1>4. k \in 0..Len(list[r.e])
  BY <1>3, LeCountType
<1>5. list' = Put(list, r.e, l) /\ free' = free - t + k /\ eaps' = eaps + t
  BY DEF NoBlock, Put
<1>6. Indicate(SubSeq(list[r.e], 1, k))
  BY DEF NoBlock
<1>7. RxWork(q) /\ q.pc \notin {"tdclear", "tdfree", "tdcount", "setup"}
  BY <1>1, <1>2, IdleWork, ResetType DEF RxWork, Work, Pcs
<1>8. act' = [act EXCEPT !["rx"] = q]
  BY <1>1 DEF NoBlock, Go, ActTypes
<1> HIDE DEF q, k
<1>9. ActTypes' /\ act'["mlme"] = act["mlme"] /\ act'["rx"] = q
  BY <1>1, <1>7, <1>8, RxWrites
<1>10. l \in Seq(Nums) /\ Len(l) = Len(list[r.e]) - k /\ SubSeq(list[r.e], 1, k) \in Seq(Nums)
  BY <1>3, <1>4, Cut
<1>11. list' \in [Entries -> Seq(Nums)] /\ Pool'
  <2> DEFINE m == Len(list[r.e])
             n == Len(l)
  <2>1. m \in Nat /\ n \in Nat /\ n = m - k /\ k \in Nat
    BY <1>3, <1>4, <1>10
  <2>2. free \in Nat /\ eaps \in Nat /\ t \in Nat /\ free - t \in Nat
    BY <1>1 DEF Pool
  <2> HIDE DEF m, n, t, l
  <2>3. free' \in Nat /\ eaps' \in Nat /\ free' + n + eaps' = free + m + eaps
    BY <1>5, <2>1, <2>2
  <2>4. QED
    BY <1>1, <1>2, <1>5, <1>10, <2>3, PoolStep DEF m, n
<1>12. UNCHANGED <<status, BAWinSize, LastIndSeq, table>>
  BY DEF NoBlock
<1>13. EntryTypes'
  BY <1>1, <1>11, <1>12, EntryStep
<1>14. TableTypes'
  BY <1>1, <1>12, TableSame
<1>15. HistTypes'
  <2>1. last' \in -1..LastNum /\ order' \in Orders
    BY <1>1, <1>6, <1>10, Indicated
  <2>2. UNCHANGED <<o, heard, bar, ops>> /\ bypassed' \in BOOLEAN
    BY DEF NoBlock, peer
  <2>3. heard' \in Nums /\ bar' \in -1..LastNum /\ ops' \in 0..MaxOps
    BY <1>1, <2>2 DEF HistTypes
  <2>4. QED
    BY <1>1, <2>1, <2>2, <2>3, HistStep
<1>16. Counted'
  BY <1>1, <1>7, <1>9, <1>12, RxQuiet
<1>17. QED
  BY <1>9, <1>11, <1>13, <1>14, <1>15, <1>16 DEF IndInv

\* An uncompressed BAR that finds no session to tear down.
LEMMA TearDownNothingStep ==
  ASSUME IndInv, TearDownNothing
  PROVE  IndInv'
<1>1. /\ EntryTypes /\ TableTypes /\ HistTypes /\ ActTypes /\ Pool /\ Counted
      /\ act["rx"].pc = "teardown" /\ Race("rx")
  BY DEF IndInv, TearDownNothing
<1>2. UNCHANGED <<entry, table, free, eaps, o, heard, bar, bypassed, ops, last, order>>
  BY DEF TearDownNothing, peer, up
<1>3. act' = [act EXCEPT !["rx"] = Idle]
  BY DEF TearDownNothing, Done
<1>4. ActTypes' /\ act'["mlme"] = act["mlme"] /\ act'["rx"] = Idle
  BY <1>1, <1>3, IdleWork, RxWrites
<1>5. EntryTypes' /\ TableTypes'
  BY <1>1, <1>2 DEF EntryTypes, TableTypes, entry, table
<1>6. Pool'
  BY <1>1, <1>2, PoolSame DEF entry
<1>7. HistTypes'
  <2>1. /\ heard' \in Nums /\ bar' \in -1..LastNum /\ bypassed' \in BOOLEAN /\ ops' \in 0..MaxOps
        /\ last' \in -1..LastNum /\ order' \in Orders
    BY <1>1, <1>2 DEF HistTypes, Orders
  <2>2. QED
    BY <1>1, <1>2, <2>1, HistStep
<1>8. Counted'
  BY <1>1, <1>2, <1>4, RxQuiet DEF entry, Idle
<1>9. QED
  BY <1>4, <1>5, <1>6, <1>7, <1>8 DEF IndInv

\* What a frame's arrival does, time-out included, but for the peer's part.
FlushKeeps ==
  /\ EntryTypes' /\ TableTypes' /\ ActTypes' /\ Pool' /\ Counted'
  /\ last' \in -1..LastNum /\ order' \in Orders /\ bypassed' = bypassed

\* ba_flush_reordering_timeout_mpdus up to its first unlock.
LEMMA FlushStep ==
  ASSUME IndInv, NEW e \in Entries, NEW n \in Nat, NEW t, NEW next \in {"decide", "idle"},
         next = "decide" => n \in Nums,
         act["rx"].pc = "idle", Flush(e, n, t, next), Race("rx")
  PROVE  FlushKeeps
<1> DEFINE s == (LastIndSeq[e] + 1) % ModSeq
           k == LeCount(list[e], s)
           p == [Idle EXCEPT !.pc = next, !.e = e, !.n = n]
           q == [pc |-> "flushone", e |-> e, n |-> n, val |-> s, v |-> next = "idle"]
<1>1. EntryTypes /\ TableTypes /\ HistTypes /\ ActTypes /\ Pool /\ Counted
  BY DEF IndInv
<1>2. list[e] \in Seq(Nums) /\ LastIndSeq[e] \in Nat
  BY <1>1, ResetType DEF EntryTypes
<1>3. LastIndSeq[e] + 1 \in Int
  BY <1>2
<1>4. s \in Seqs /\ k \in 0..Len(list[e])
  BY <1>2, <1>3, ModRange, LeCountType
<1>5. RxWork(p) /\ p.pc \notin {"tdclear", "tdfree", "tdcount", "setup"}
  <2>1. e \in 0..Ents /\ next \in Pcs
    BY DEF Entries, Pcs
  <2>2. p \in Work
    BY <2>1, IdleWork DEF Work
  <2>3. p.pc = next /\ p.e = e /\ p.n = n
    BY IdleWork DEF Work
  <2> HIDE DEF p
  <2>4. QED
    BY <2>2, <2>3 DEF RxWork
<1>6. RxWork(q) /\ q.pc \notin {"tdclear", "tdfree", "tdcount", "setup"}
  <2>1. e \in 0..Ents /\ "flushone" \in Pcs
    BY DEF Entries, Pcs
  <2>2. s \in Nat
    <3> HIDE DEF s
    <3>1. QED
      BY <1>4, ResetType
  <2>3. (next = "idle") \in BOOLEAN
    OBVIOUS
  <2>4. q \in Work
    BY <2>1, <2>2, <2>3 DEF Work
  <2>5. q.pc = "flushone" /\ q.e = e /\ q.n = n /\ q.val = s /\ (~q.v => n \in Nums)
    OBVIOUS
  <2> HIDE DEF q, s
  <2>6. QED
    BY <1>4, <2>4, <2>5 DEF RxWork
<1> HIDE DEF p, q
<1>7. CASE /\ Refresh(e) /\ act' = [act EXCEPT !["rx"] = p]
           /\ UNCHANGED <<status, BAWinSize, table, eaps, bypassed>>
  <2>1. /\ list' \in [Entries -> Seq(Nums)] /\ Pool'
        /\ LastIndSeq' \in [Entries -> Seqs \union {RESET_RCV_SEQ}]
        /\ last' \in -1..LastNum /\ order' \in Orders
    BY <1>1, <1>7, Refreshed
  <2>2. EntryTypes'
    BY <1>1, <1>7, <2>1 DEF EntryTypes
  <2>3. ActTypes' /\ act'["mlme"] = act["mlme"] /\ act'["rx"] = p
    BY <1>1, <1>5, <1>7, RxWrites
  <2>4. TableTypes' /\ bypassed' = bypassed
    BY <1>1, <1>7, TableSame
  <2>5. Counted'
    BY <1>1, <1>5, <1>7, <2>3, RxQuiet
  <2>6. QED
    BY <2>1, <2>2, <2>3, <2>4, <2>5 DEF FlushKeeps
<1>8. CASE /\ Release(e, k, <<>>) /\ act' = [act EXCEPT !["rx"] = q]
           /\ UNCHANGED <<LastIndSeq, status, BAWinSize, table, eaps, bypassed>>
  <2> HIDE DEF k
  <2>1. list' = Put(list, e, SubSeq(list[e], k + 1, Len(list[e]))) /\ free' = free + k /\ eaps' = eaps
    BY <1>8 DEF Release, Put
  <2>2. list' \in [Entries -> Seq(Nums)] /\ Pool'
    BY <1>1, <1>4, <2>1, Released
  <2>3. EntryTypes'
    BY <1>1, <1>8, <2>2, EntryStep
  <2>4. SubSeq(list[e], 1, k) \in Seq(Nums) /\ <<>> \in Seq(Nums)
    BY <1>2, <1>4, Cut
  <2>5. SubSeq(list[e], 1, k) \o <<>> \in Seq(Nums)
    BY <2>4, ConcatProperties
  <2>6. last' \in -1..LastNum /\ order' \in Orders
    BY <1>1, <1>8, <2>5, Indicated DEF Release
  <2>7. ActTypes' /\ act'["mlme"] = act["mlme"] /\ act'["rx"] = q
    BY <1>1, <1>6, <1>8, RxWrites
  <2>8. TableTypes' /\ bypassed' = bypassed
    BY <1>1, <1>8, TableSame
  <2>9. Counted'
    BY <1>1, <1>6, <1>8, <2>7, RxQuiet
  <2>10. QED
    BY <2>2, <2>3, <2>6, <2>7, <2>8, <2>9 DEF FlushKeeps
<1>9. CASE /\ act' = [act EXCEPT !["rx"] = p]
           /\ UNCHANGED <<entry, table, free, up, eaps, bypassed>>
  <2>1. UNCHANGED <<status, BAWinSize, LastIndSeq, list, free, eaps, last, order>>
    BY <1>9 DEF entry, up
  <2>2. EntryTypes' /\ last' \in -1..LastNum /\ order' \in Orders
    BY <1>1, <2>1 DEF EntryTypes, HistTypes, Orders
  <2>3. ActTypes' /\ act'["mlme"] = act["mlme"] /\ act'["rx"] = p
    BY <1>1, <1>5, <1>9, RxWrites
  <2>4. TableTypes' /\ bypassed' = bypassed
    BY <1>1, <1>9, TableSame
  <2>5. Pool'
    BY <1>1, <2>1, PoolSame
  <2>6. Counted'
    BY <1>1, <1>5, <1>9, <2>1, <2>3, RxQuiet
  <2>7. QED
    BY <2>2, <2>3, <2>4, <2>5, <2>6 DEF FlushKeeps
<1>10. QED
  BY <1>7, <1>8, <1>9 DEF Flush, p, q

\* A data frame arrives.
LEMMA AmpduStep ==
  ASSUME IndInv, NEW n \in Nums, NEW t, Indicate_AMPDU_Packet(n, t)
  PROVE  IndInv'
<1>1. EntryTypes /\ TableTypes /\ HistTypes /\ ActTypes /\ Pool /\ Counted
  BY DEF IndInv
<1>2. /\ act["rx"].pc = "idle" /\ Race("rx") /\ UNCHANGED <<o, bar, ops>>
      /\ heard' = IF n > heard THEN n ELSE heard
  BY DEF Indicate_AMPDU_Packet, Receive
<1>3. heard' \in Nums /\ bar' \in -1..LastNum /\ ops' \in 0..MaxOps
  BY <1>1, <1>2 DEF HistTypes
<1>4. CASE BARecWcidArray # 0 /\ Flush(BARecWcidArray, n, t, "decide")
  <2>1. BARecWcidArray \in Entries /\ n \in Nat
    BY <1>1, <1>4, NumsInNat DEF TableTypes, Entries
  <2>2. FlushKeeps
    BY <1>2, <1>4, <2>1, FlushStep
  <2>3. HistTypes'
    <3>1. last' \in -1..LastNum /\ order' \in Orders /\ bypassed' \in BOOLEAN
      BY <1>1, <2>2 DEF FlushKeeps, HistTypes
    <3>2. QED
      BY <1>1, <1>2, <1>3, <3>1, HistStep
  <2>4. QED
    BY <2>2, <2>3 DEF FlushKeeps, IndInv
<1>5. CASE UNCHANGED <<entry, table, free, act, up, eaps, bypassed>>
  <2>1. EntryTypes' /\ TableTypes' /\ ActTypes'
    BY <1>1, <1>5 DEF EntryTypes, TableTypes, ActTypes, entry, table
  <2>2. Pool'
    BY <1>1, <1>5, PoolSame DEF entry
  <2>3. HistTypes'
    <3>1. last' \in -1..LastNum /\ order' \in Orders /\ bypassed' \in BOOLEAN
      BY <1>1, <1>5 DEF HistTypes, Orders, up
    <3>2. QED
      BY <1>1, <1>2, <1>3, <3>1, HistStep
  <2>4. Counted'
    BY <1>1, <1>2, <1>5, RxQuiet DEF entry
  <2>5. QED
    BY <2>1, <2>2, <2>3, <2>4 DEF IndInv
<1>6. QED
  BY <1>4, <1>5 DEF Indicate_AMPDU_Packet

\* A frame outside any A-MPDU looks at the time-out.
LEMMA LegacyStep ==
  ASSUME IndInv, NEW t, Indicate_Legacy_Packet(t)
  PROVE  IndInv'
<1>1. EntryTypes /\ TableTypes /\ HistTypes /\ ActTypes /\ Pool /\ Counted
  BY DEF IndInv
<1>2. /\ act["rx"].pc = "idle" /\ Race("rx") /\ UNCHANGED <<o, heard, bar, ops>>
      /\ BARecWcidArray # 0 /\ Flush(BARecWcidArray, 0, t, "idle")
  BY DEF Indicate_Legacy_Packet, peer
<1>3. BARecWcidArray \in Entries
  BY <1>1, <1>2 DEF TableTypes, Entries
<1>4. FlushKeeps
  BY <1>2, <1>3, FlushStep
<1>5. HistTypes'
  <2>1. /\ last' \in -1..LastNum /\ order' \in Orders /\ bypassed' \in BOOLEAN
        /\ heard' \in Nums /\ bar' \in -1..LastNum /\ ops' \in 0..MaxOps
    BY <1>1, <1>2, <1>4 DEF FlushKeeps, HistTypes
  <2>3. QED
    BY <1>1, <1>2, <2>1, HistStep
<1>6. QED
  BY <1>4, <1>5 DEF FlushKeeps, IndInv

\* A BAR, up to the unlock.
LEMMA BarStep ==
  ASSUME IndInv, NEW c \in BOOLEAN, CntlEnqueueForRecv(c)
  PROVE  IndInv'
<1> DEFINE e == BARecWcidArray
           k == LeCount(list[e], SeqNo(o))
           p == [act["rx"] EXCEPT !.pc = "teardown"]
           q == [pc |-> "barset", e |-> e, n |-> 0, val |-> SeqNo(o), v |-> ~c]
<1>1. /\ EntryTypes /\ TableTypes /\ HistTypes /\ ActTypes /\ Pool /\ Counted
      /\ act["rx"].pc = "idle" /\ Race("rx") /\ e # 0
      /\ UNCHANGED <<LastIndSeq, status, BAWinSize, table, eaps, bypassed, ops>>
      /\ UNCHANGED <<o, heard>>
  BY DEF IndInv, CntlEnqueueForRecv, peer
<1>2. e \in Entries /\ o \in Nums /\ heard \in Nums /\ o \in -1..LastNum
  BY <1>1, NumsInNat DEF TableTypes, Entries, HistTypes
<1>3. list[e] \in Seq(Nums)
  BY <1>1, <1>2 DEF EntryTypes
<1>4. SeqNo(o) \in Seqs /\ k \in 0..Len(list[e])
  <2>1. o \in Int
    BY <1>2, BaReorderAssumption DEF Nums
  <2>3. QED
    BY <1>3, <2>1, SeqNoType, LeCountType
<1>5. heard' \in Nums /\ bypassed' \in BOOLEAN /\ ops' \in 0..MaxOps
  BY <1>1 DEF HistTypes
<1>6. TableTypes'
  BY <1>1, TableSame
<1>7. RxWork(q) /\ q.pc \notin {"tdclear", "tdfree", "tdcount", "setup"}
  <2>1. e \in 0..Ents /\ "barset" \in Pcs /\ 0 \in Nat
    BY <1>2 DEF Entries, Pcs
  <2>2. SeqNo(o) \in Nat
    BY <1>4, ResetType
  <2>3. (~c) \in BOOLEAN
    OBVIOUS
  <2> HIDE DEF e
  <2>4. q \in Work
    BY <2>1, <2>2, <2>3 DEF Work
  <2>5. q.pc = "barset" /\ q.e = e /\ q.val = SeqNo(o)
    OBVIOUS
  <2> HIDE DEF q
  <2>6. QED
    BY <1>2, <1>4, <2>4, <2>5 DEF RxWork
<1>8. RxWork(p) /\ p.pc \notin {"tdclear", "tdfree", "tdcount", "setup"}
  BY <1>1 DEF ActTypes, RxWork, Work, Pcs
<1> HIDE DEF p, q
<1>9. CASE /\ bar' = o /\ Release(e, k, <<>>) /\ act' = [act EXCEPT !["rx"] = q]
  <2> HIDE DEF k
  <2>1. list' = Put(list, e, SubSeq(list[e], k + 1, Len(list[e]))) /\ free' = free + k /\ eaps' = eaps
    BY <1>1, <1>9 DEF Release, Put
  <2>2. list' \in [Entries -> Seq(Nums)] /\ Pool'
    BY <1>1, <1>2, <1>4, <2>1, Released
  <2>3. EntryTypes'
    BY <1>1, <2>2, EntryStep
  <2>4. SubSeq(list[e], 1, k) \in Seq(Nums) /\ <<>> \in Seq(Nums)
    BY <1>3, <1>4, Cut
  <2>5. SubSeq(list[e], 1, k) \o <<>> \in Seq(Nums)
    BY <2>4, ConcatProperties
  <2>6. last' \in -1..LastNum /\ order' \in Orders
    BY <1>1, <1>9, <2>5, Indicated DEF Release
  <2>7. ActTypes' /\ act'["mlme"] = act["mlme"] /\ act'["rx"] = q
    BY <1>1, <1>7, <1>9, RxWrites
  <2>8. HistTypes'
    BY <1>1, <1>2, <1>5, <1>9, <2>6, HistStep
  <2>9. Counted'
    BY <1>1, <1>7, <2>7, RxQuiet
  <2>10. QED
    BY <1>6, <2>2, <2>3, <2>7, <2>8, <2>9 DEF IndInv
<1>10. CASE Go("rx", "teardown") /\ UNCHANGED <<list, free, up, bar>>
  <2>1. act' = [act EXCEPT !["rx"] = p]
    BY <1>1, <1>10 DEF Go, p, ActTypes
  <2>2. ActTypes' /\ act'["mlme"] = act["mlme"] /\ act'["rx"] = p
    BY <1>1, <1>8, <2>1, RxWrites
  <2>3. EntryTypes'
    BY <1>1, <1>10 DEF EntryTypes
  <2>4. Pool'
    BY <1>1, <1>10, PoolSame
  <2>5. HistTypes'
    <3>1. last' \in -1..LastNum /\ order' \in Orders /\ bar' \in -1..LastNum
      BY <1>1, <1>10 DEF HistTypes, Orders, up
    <3>2. QED
      BY <1>1, <1>5, <3>1, HistStep
  <2>6. Counted'
    BY <1>1, <1>8, <2>2, RxQuiet
  <2>7. QED
    BY <1>6, <2>2, <2>3, <2>4, <2>5, <2>6 DEF IndInv
<1>11. QED
  BY <1>9, <1>10 DEF CntlEnqueueForRecv, q

-----------------------------------------------------------------------------
(***************************************************************************)
(* Set-up and teardown, which change the table.                            *)
(***************************************************************************)

\* A context writes local variables that either context may have.
LEMMA ActWrites ==
  ASSUME ActTypes, NEW a \in Actors, NEW r, RxWork(r), MlmeWork(r),
         act' = [act EXCEPT ![a] = r]
  PROVE  ActTypes' /\ act'[a] = r /\ \A b \in Actors \ {a} : act'[b] = act[b]
<1>1. act \in [Actors -> Work] /\ r \in Work /\ "rx" \in Actors /\ "mlme" \in Actors
  BY DEF ActTypes, RxWork, Actors
<1>2. act' \in [Actors -> Work] /\ act'[a] = r /\ \A b \in Actors \ {a} : act'[b] = act[b]
  BY <1>1
<1>3. RxWork(act'["rx"]) /\ MlmeWork(act'["mlme"])
  BY <1>1, <1>2 DEF ActTypes
<1>4. QED
  BY <1>2, <1>3 DEF ActTypes

\* A step that does not race finds the other context idle.
LEMMA Alone ==
  ASSUME NEW a \in Actors, Race(a), ~raced'
  PROVE  ~raced /\ \A b \in Actors \ {a} : act[b].pc = "idle"
BY DEF Race

\* The claim about the table, once the other context is known to be idle.
LEMMA CountedBy ==
  ASSUME NEW a \in Actors, \A b \in Actors \ {a} : act'[b].pc = "idle", Step(a)',
         a = "rx" => act'[a].pc # "setup",
         act'[a].pc \notin {"tdfree", "tdcount", "setup"} => Settled'
  PROVE  Counted'
<1>1. CASE a = "rx"
  <2>1. act'["mlme"].pc = "idle"
    BY <1>1 DEF Actors
  <2>2. Step("mlme")' /\ Step("rx")'
    BY <1>1, <2>1 DEF Step
  <2>3. QED
    BY <1>1, <2>1, <2>2 DEF Counted
<1>2. CASE a = "mlme"
  <2>1. act'["rx"].pc = "idle"
    BY <1>2 DEF Actors
  <2>2. Step("mlme")' /\ Step("rx")'
    BY <1>2, <2>1 DEF Step
  <2>3. QED
    BY <1>2, <2>1, <2>2 DEF Counted
<1>3. QED
  BY <1>1, <1>2 DEF Actors

\* The local variables of a teardown.
LEMMA TearDownWork ==
  ASSUME NEW e \in Entries, NEW pc \in {"tdclear", "tdfree"}, NEW r,
         r = [Idle EXCEPT !.pc = pc, !.e = e]
  PROVE  RxWork(r) /\ MlmeWork(r) /\ r.pc = pc /\ r.e = e
<1>1. e \in 0..Ents /\ pc \in Pcs
  BY DEF Entries, Pcs
<1>2. r \in Work
  BY <1>1, IdleWork DEF Work
<1>3. r.pc = pc /\ r.e = e
  BY IdleWork DEF Work
<1>4. QED
  BY <1>2, <1>3 DEF RxWork, MlmeWork

\* An operation is counted up to its bound.
LEMMA OperationType ==
  ASSUME HistTypes, Operation
  PROVE  ops' \in 0..MaxOps
BY BaReorderAssumption DEF HistTypes, Operation

\* BARecSessionTearDown: the list goes up.
LEMMA TearDownStep ==
  ASSUME IndInv, NEW a \in Actors, BARecSessionTearDown(a)
  PROVE  IndInv'
<1> DEFINE e == BARecWcidArray
           p == [Idle EXCEPT !.pc = "tdclear", !.e = e]
           q == [Idle EXCEPT !.pc = "tdfree", !.e = e]
<1>1. /\ EntryTypes /\ TableTypes /\ HistTypes /\ ActTypes /\ Pool /\ Counted
      /\ CallsTearDown(a) /\ e # 0 /\ Operation /\ Race(a)
      /\ UNCHANGED <<status, BAWinSize, table, peer, bar, eaps, bypassed>>
  BY DEF IndInv, BARecSessionTearDown
<1>2. e \in Entries
  BY <1>1 DEF TableTypes, Entries
<1>3. RxWork(p) /\ MlmeWork(p) /\ p.pc = "tdclear" /\ p.e = e
  BY <1>2, TearDownWork
<1>4. RxWork(q) /\ MlmeWork(q) /\ q.pc = "tdfree" /\ q.e = e
  BY <1>2, TearDownWork
<1>5. TableTypes'
  BY <1>1, TableSame
<1>6. /\ o' = o /\ heard' \in Nums /\ bar' \in -1..LastNum /\ bypassed' \in BOOLEAN
      /\ ops' \in 0..MaxOps
  BY <1>1, OperationType DEF HistTypes, peer
<1>7. ~raced' => ~raced /\ Settled /\ Settled' /\ \A b \in Actors \ {a} : act[b].pc = "idle"
  <2>1. SUFFICES ASSUME ~raced' PROVE ~raced /\ Settled /\ Settled' /\ \A b \in Actors \ {a} : act[b].pc = "idle"
    OBVIOUS
  <2>2. ~raced /\ \A b \in Actors \ {a} : act[b].pc = "idle"
    BY <1>1, <2>1, Alone
  <2>3. act["rx"].pc \in {"idle", "teardown"} /\ act["mlme"].pc = "idle"
    BY <1>1, <2>2 DEF CallsTearDown, Actors
  <2>4. Settled
    BY <1>1, <2>2, <2>3 DEF Counted
  <2>5. Settled'
    BY <1>1, <2>4 DEF Settled, Table, table
  <2>6. QED
    BY <2>2, <2>4, <2>5
<1> HIDE DEF p, q
<1>8. CASE Refresh(e) /\ act' = [act EXCEPT ![a] = p]
  <2>1. /\ list' \in [Entries -> Seq(Nums)] /\ Pool'
        /\ LastIndSeq' \in [Entries -> Seqs \union {RESET_RCV_SEQ}]
        /\ last' \in -1..LastNum /\ order' \in Orders
    BY <1>1, <1>2, <1>8, Refreshed
  <2>2. EntryTypes'
    BY <1>1, <2>1 DEF EntryTypes
  <2>3. ActTypes' /\ act'[a] = p /\ \A b \in Actors \ {a} : act'[b] = act[b]
    BY <1>1, <1>3, <1>8, ActWrites
  <2>4. HistTypes'
    BY <1>1, <1>6, <2>1, HistStep
  <2>5. Counted'
    <3>1. SUFFICES ASSUME ~raced' PROVE Counted'
      BY DEF Counted
    <3>2. Settled' /\ e' = e /\ \A b \in Actors \ {a} : act'[b].pc = "idle"
      BY <1>1, <1>7, <2>3, <3>1 DEF table
    <3>3. Step(a)'
      BY <1>3, <2>3, <3>2 DEF Step
    <3>4. QED
      BY <1>3, <2>3, <3>2, <3>3, CountedBy
  <2>6. QED
    BY <1>5, <2>1, <2>2, <2>3, <2>4, <2>5 DEF IndInv
<1>9. CASE /\ status[e] # "Accept" /\ act' = [act EXCEPT ![a] = q]
           /\ UNCHANGED <<list, free, LastIndSeq, up>>
  <2>1. EntryTypes'
    BY <1>1, <1>9 DEF EntryTypes
  <2>2. Pool'
    BY <1>1, <1>9, PoolSame
  <2>3. ActTypes' /\ act'[a] = q /\ \A b \in Actors \ {a} : act'[b] = act[b]
    BY <1>1, <1>4, <1>9, ActWrites
  <2>4. last' \in -1..LastNum /\ order' \in Orders
    BY <1>1, <1>9 DEF HistTypes, Orders, up
  <2>5. HistTypes'
    BY <1>1, <1>6, <2>4, HistStep
  <2>6. raced'
    BY <1>2, <1>7, <1>9 DEF Settled, Table
  <2>7. Counted'
    BY <2>6 DEF Counted
  <2>8. QED
    BY <1>5, <2>1, <2>2, <2>3, <2>5, <2>7 DEF IndInv
<1>10. QED
  BY <1>8, <1>9 DEF BARecSessionTearDown, p, q

\* The session is taken out.
LEMMA ClearStep ==
  ASSUME IndInv, NEW a \in Actors, TearDownClear(a)
  PROVE  IndInv'
<1> DEFINE e == act[a].e
           q == [act[a] EXCEPT !.pc = "tdfree"]
<1>1. /\ EntryTypes /\ TableTypes /\ HistTypes /\ ActTypes /\ Pool /\ Counted
      /\ act[a].pc = "tdclear" /\ Race(a)
      /\ SetLastIndSeq(e, RESET_RCV_SEQ) /\ BAWinSize' = [BAWinSize EXCEPT ![e] = 0]
      /\ BARecWcidArray' = 0 /\ Go(a, "tdfree")
      /\ UNCHANGED <<status, list, numAsRecipient, free, peer, up, bar, eaps, bypassed, ops>>
  BY DEF IndInv, TearDownClear
<1>2. act[a] \in Work /\ e \in Entries
  BY <1>1 DEF ActTypes, RxWork, MlmeWork, Actors
<1>3. RxWork(q) /\ MlmeWork(q) /\ q.pc = "tdfree" /\ q.e = e
  BY <1>2 DEF RxWork, MlmeWork, Work, Pcs
<1>4. act' = [act EXCEPT ![a] = q]
  BY <1>1 DEF Go, ActTypes
<1> HIDE DEF q
<1>5. ActTypes' /\ act'[a] = q /\ \A b \in Actors \ {a} : act'[b] = act[b]
  BY <1>1, <1>3, <1>4, ActWrites
<1>6. EntryTypes'
  BY <1>1, <1>2 DEF EntryTypes, SetLastIndSeq
<1>7. TableTypes'
  BY <1>1, BaReorderAssumption DEF TableTypes
<1>8. Pool'
  BY <1>1, PoolSame
<1>9. HistTypes'
  <2>1. /\ last' \in -1..LastNum /\ order' \in Orders /\ o' = o /\ heard' \in Nums
        /\ bar' \in -1..LastNum /\ bypassed' \in BOOLEAN /\ ops' \in 0..MaxOps
    BY <1>1 DEF HistTypes, Orders, up, peer
  <2>2. QED
    BY <1>1, <2>1, HistStep
<1>10. Counted'
  <2>1. SUFFICES ASSUME ~raced' PROVE Counted'
    BY DEF Counted
  <2>2. ~raced /\ \A b \in Actors \ {a} : act[b].pc = "idle"
    BY <1>1, <2>1, Alone
  <2>3. Step(a)
    BY <1>1, <2>2 DEF Counted, Actors
  <2>4. Settled /\ e = BARecWcidArray
    BY <1>1, <2>3 DEF Step
  <2>5. numAsRecipient = 1 /\ \A x \in Entries : status[x] = IF x = e THEN "Accept" ELSE "NONE"
    BY <1>2, <2>4 DEF Settled, Table, Entries
  <2>6. PICK f : f = e
    OBVIOUS
  <2>7. Table(f, 0, "Accept")'
    BY <1>1, <1>2, <2>5, <2>6 DEF Table, Entries
  <2>8. Step(a)'
    BY <1>3, <1>5, <2>6, <2>7 DEF Step
  <2>9. \A b \in Actors \ {a} : act'[b].pc = "idle"
    BY <1>5, <2>2
  <2>10. QED
    BY <1>3, <1>5, <2>8, <2>9, CountedBy
<1>11. QED
  BY <1>5, <1>6, <1>7, <1>8, <1>9, <1>10 DEF IndInv

\* BATableFreeRecEntry up to the lock.
LEMMA FreeStep ==
  ASSUME IndInv, NEW a \in Actors, BATableFreeRecEntry(a)
  PROVE  IndInv'
<1> DEFINE e == act[a].e
           q == [act[a] EXCEPT !.pc = "tdcount"]
<1>1. /\ EntryTypes /\ TableTypes /\ HistTypes /\ ActTypes /\ Pool /\ Counted
      /\ act[a].pc = "tdfree" /\ Race(a)
      /\ \/ status[e] = "NONE" /\ Done(a) /\ UNCHANGED BARecWcidArray
         \/ status[e] # "NONE" /\ Go(a, "tdcount") /\ BARecWcidArray' = 0
      /\ UNCHANGED <<entry, numAsRecipient, free, peer, up, bar, eaps, bypassed, ops>>
  BY DEF IndInv, BATableFreeRecEntry
<1>2. act[a] \in Work /\ e \in Entries
  BY <1>1 DEF ActTypes, RxWork, MlmeWork, Actors
<1>3. RxWork(q) /\ MlmeWork(q) /\ q.pc = "tdcount" /\ q.e = e
  BY <1>2 DEF RxWork, MlmeWork, Work, Pcs
<1>4. EntryTypes' /\ UNCHANGED status
  BY <1>1 DEF EntryTypes, entry
<1>5. TableTypes'
  BY <1>1, BaReorderAssumption DEF TableTypes
<1>6. Pool'
  BY <1>1, PoolSame DEF entry
<1>7. HistTypes'
  <2>1. /\ last' \in -1..LastNum /\ order' \in Orders /\ o' = o /\ heard' \in Nums
        /\ bar' \in -1..LastNum /\ bypassed' \in BOOLEAN /\ ops' \in 0..MaxOps
    BY <1>1 DEF HistTypes, Orders, up, peer
  <2>2. QED
    BY <1>1, <2>1, HistStep
<1>8. ~raced' => /\ \A b \in Actors \ {a} : act[b].pc = "idle"
                 /\ Table(e, 0, "Accept")
  <2>1. SUFFICES ASSUME ~raced'
                 PROVE  (\A b \in Actors \ {a} : act[b].pc = "idle") /\ Table(e, 0, "Accept")
    OBVIOUS
  <2>2. ~raced /\ \A b \in Actors \ {a} : act[b].pc = "idle"
    BY <1>1, <2>1, Alone
  <2>3. Step(a)
    BY <1>1, <2>2 DEF Counted, Actors
  <2>4. QED
    BY <1>1, <2>2, <2>3 DEF Step
<1>9. CASE status[e] = "NONE" /\ act' = [act EXCEPT ![a] = Idle]
  <2>1. ActTypes'
    BY <1>1, <1>9, IdleWork, ActWrites
  <2>2. raced'
    BY <1>2, <1>8, <1>9 DEF Table
  <2>3. QED
    BY <1>4, <1>5, <1>6, <1>7, <2>1, <2>2 DEF IndInv, Counted
<1>10. CASE act' = [act EXCEPT ![a] = q] /\ BARecWcidArray' = 0
  <2> HIDE DEF q
  <2>1. ActTypes' /\ act'[a] = q /\ \A b \in Actors \ {a} : act'[b] = act[b]
    BY <1>1, <1>3, <1>10, ActWrites
  <2>2. Counted'
    <3>1. SUFFICES ASSUME ~raced' PROVE Counted'
      BY DEF Counted
    <3>2. PICK f : f = e
      OBVIOUS
    <3>3. Table(f, 0, "Accept")'
      BY <1>1, <1>4, <1>8, <1>10, <3>1, <3>2 DEF Table
    <3>4. Step(a)'
      BY <1>3, <2>1, <3>2, <3>3 DEF Step
    <3>5. \A b \in Actors \ {a} : act'[b].pc = "idle"
      BY <1>8, <2>1, <3>1
    <3>6. QED
      BY <1>3, <2>1, <3>4, <3>5, CountedBy
  <2>3. QED
    BY <1>4, <1>5, <1>6, <1>7, <2>1, <2>2 DEF IndInv
<1>11. CASE status[e] = "NONE"
  BY <1>1, <1>9, <1>11 DEF Done
<1>12. CASE status[e] # "NONE"
  BY <1>1, <1>10, <1>12 DEF Go, ActTypes
<1>13. QED
  BY <1>11, <1>12

\* The rest of BATableFreeRecEntry, under the lock.
LEMMA FreedStep ==
  ASSUME IndInv, NEW a \in Actors, RecEntryFreed(a)
  PROVE  IndInv'
<1> DEFINE e == act[a].e
<1>1. /\ EntryTypes /\ TableTypes /\ HistTypes /\ ActTypes /\ Pool /\ Counted
      /\ act[a].pc = "tdcount" /\ Race(a) /\ act' = [act EXCEPT ![a] = Idle]
      /\ UNCHANGED <<LastIndSeq, BAWinSize, list, BARecWcidArray, free, peer, up, bar, eaps,
                     bypassed, ops>>
      /\ numAsRecipient' = FreedCount(numAsRecipient)
      /\ status' = [status EXCEPT ![e] = "NONE"]
  BY DEF IndInv, RecEntryFreed, Done
<1>2. act[a] \in Work /\ e \in Entries
  BY <1>1 DEF ActTypes, RxWork, MlmeWork, Actors
<1>3. ActTypes' /\ act'[a] = Idle /\ \A b \in Actors \ {a} : act'[b] = act[b]
  BY <1>1, IdleWork, ActWrites
<1>4. EntryTypes'
  BY <1>1, <1>2 DEF EntryTypes
<1>5. TableTypes'
  <2>1. numAsRecipient - 1 \in Int
    BY <1>1, BaReorderAssumption DEF TableTypes
  <2>2. FreedCount(numAsRecipient) \in 0..(Ulong - 1)
    BY <2>1, BaReorderAssumption DEF FreedCount
  <2>3. QED
    BY <1>1, <2>2, BaReorderAssumption DEF TableTypes
<1>6. Pool'
  BY <1>1, PoolSame
<1>7. HistTypes'
  <2>1. /\ last' \in -1..LastNum /\ order' \in Orders /\ o' = o /\ heard' \in Nums
        /\ bar' \in -1..LastNum /\ bypassed' \in BOOLEAN /\ ops' \in 0..MaxOps
    BY <1>1 DEF HistTypes, Orders, up, peer
  <2>2. QED
    BY <1>1, <2>1, HistStep
<1>8. Counted'
  <2>1. SUFFICES ASSUME ~raced' PROVE Counted'
    BY DEF Counted
  <2>2. ~raced /\ \A b \in Actors \ {a} : act[b].pc = "idle"
    BY <1>1, <2>1, Alone
  <2>3. Step(a)
    BY <1>1, <2>2 DEF Counted, Actors
  <2>4. Table(e, 0, "Accept")
    BY <1>1, <2>3 DEF Step
  <2>5. status[e] = "Accept" /\ numAsRecipient = 1 /\ BARecWcidArray' = 0
    BY <1>1, <1>2, <2>4 DEF Table, Entries
  <2>6. FreedCount(numAsRecipient) = 0
    BY <2>5, BaReorderAssumption DEF FreedCount
  <2>7. \A x \in Entries : status'[x] = "NONE"
    BY <1>1, <1>2, <2>4, <2>5 DEF Table, EntryTypes
  <2>8. Settled'
    BY <1>1, <2>5, <2>6, <2>7 DEF Settled, Table, Entries
  <2>9. Step(a)' /\ act'[a].pc = "idle"
    BY <1>3 DEF Step, Idle
  <2>10. \A b \in Actors \ {a} : act'[b].pc = "idle"
    BY <1>3, <2>2
  <2>11. QED
    BY <2>8, <2>9, <2>10, CountedBy
<1>9. QED
  BY <1>3, <1>4, <1>5, <1>6, <1>7, <1>8 DEF IndInv

\* BATableAllocRecEntry finds an entry; a free one when there is one.
LEMMA FoundIs ==
  FoundEntry \in Entries /\ (~NoneFree => status[FoundEntry] = "NONE")
<1>1. CASE NoneFree
  BY <1>1, BaReorderAssumption DEF FoundEntry, Entries
<1>2. CASE ~NoneFree
  <2> DEFINE S == {x \in Entries : status[x] = "NONE"}
  <2>1. S # {} /\ S \subseteq Nat
    BY <1>2, BaReorderAssumption DEF NoneFree, Entries
  <2>2. PICK x \in S : \A y \in S : x <= y
    <3> HIDE DEF S
    <3>1. QED
      BY <2>1, LeastNat
  <2>3. \A f \in 1..(x - 1) : status[f] # "NONE"
    <3>1. SUFFICES ASSUME NEW f \in 1..(x - 1) PROVE status[f] # "NONE"
      OBVIOUS
    <3>2. f \in Entries /\ ~(x <= f)
      BY BaReorderAssumption DEF Entries
    <3>3. QED
      BY <2>2, <3>2
  <2>4. x \in Entries /\ status[x] = "NONE"
    OBVIOUS
  <2>5. \E y \in Entries : status[y] = "NONE" /\ \A f \in 1..(y - 1) : status[f] # "NONE"
    BY <2>3, <2>4
  <2>6. QED
    BY <1>2, <2>5 DEF FoundEntry
<1>3. QED
  BY <1>1, <1>2

\* The local variables of a set-up.
SetupRec(e, v) == [Idle EXCEPT !.pc = "setup", !.e = e, !.val = v]

\* A set-up's local variables have the MLME thread's types.
LEMMA SetupWork ==
  ASSUME NEW e \in Entries, NEW v \in 0..Ents
  PROVE  /\ MlmeWork(SetupRec(e, v))
         /\ SetupRec(e, v).pc = "setup" /\ SetupRec(e, v).e = e /\ SetupRec(e, v).val = v
<1> DEFINE r == SetupRec(e, v)
<1>1. e \in 0..Ents /\ "setup" \in Pcs /\ v \in Nat
  BY DEF Entries, Pcs
<1>2. r \in Work
  BY <1>1, IdleWork DEF Work, SetupRec
<1>3. r.pc = "setup" /\ r.e = e /\ r.val = v
  BY IdleWork DEF Work, SetupRec
<1>4. QED
  BY <1>2, <1>3 DEF MlmeWork

\* An ADDBA request finds an entry, or empties the one there is.
LEMMA AddBAStep ==
  ASSUME IndInv, PeerAddBAReqAction
  PROVE  IndInv'
<1> DEFINE w == BARecWcidArray
           f == FoundEntry
           v == IF NoneFree THEN 0 ELSE FoundEntry
           p == SetupRec(f, v)
           q == SetupRec(w, w)
<1>1. /\ EntryTypes /\ TableTypes /\ HistTypes /\ ActTypes /\ Pool /\ Counted
      /\ act["mlme"].pc = "idle" /\ Operation /\ Race("mlme")
      /\ UNCHANGED <<BAWinSize, BARecWcidArray, peer, bar, eaps, bypassed>>
  BY DEF IndInv, PeerAddBAReqAction
<1>2. /\ o' = o /\ heard' \in Nums /\ bar' \in -1..LastNum /\ bypassed' \in BOOLEAN
      /\ ops' \in 0..MaxOps
  BY <1>1, OperationType DEF HistTypes, peer
<1>3. ~raced' => Settled /\ act["rx"].pc = "idle"
  <2>1. "mlme" \in Actors /\ "rx" \in Actors \ {"mlme"}
    BY DEF Actors
  <2>2. QED
    BY <1>1, <2>1, Alone DEF Counted
<1>4. f \in Entries /\ (~NoneFree => status[f] = "NONE") /\ v \in 0..Ents
  BY FoundIs, BaReorderAssumption DEF Entries
<1>5. MlmeWork(p) /\ p.pc = "setup" /\ p.e = f /\ p.val = v
  <2>1. f \in Entries /\ v \in 0..Ents
    BY <1>4
  <2> HIDE DEF f, v
  <2>2. QED
    BY <2>1, SetupWork
<1>6. CASE UNCHANGED <<status, list, free, LastIndSeq, up, numAsRecipient, act>>
  <2>1. EntryTypes' /\ TableTypes' /\ ActTypes'
    BY <1>1, <1>6 DEF EntryTypes, TableTypes, ActTypes
  <2>2. Pool'
    BY <1>1, <1>6, PoolSame
  <2>3. last' \in -1..LastNum /\ order' \in Orders
    BY <1>1, <1>6 DEF HistTypes, Orders, up
  <2>4. HistTypes'
    BY <1>1, <1>2, <2>3, HistStep
  <2>5. Counted'
    <3>1. SUFFICES ASSUME ~raced' PROVE Counted'
      BY DEF Counted
    <3>2. Settled'
      BY <1>1, <1>3, <1>6, <3>1 DEF Settled, Table
    <3>3. act'["rx"].pc = "idle" /\ act'["mlme"].pc = "idle"
      BY <1>1, <1>3, <1>6, <3>1
    <3>4. QED
      BY <3>2, <3>3 DEF Counted, Step
  <2>6. QED
    BY <2>1, <2>2, <2>4, <2>5 DEF IndInv
<1>7. CASE /\ w = 0 /\ numAsRecipient < Ents
           /\ numAsRecipient' = IF NoneFree THEN numAsRecipient ELSE numAsRecipient + 1
           /\ status' = [status EXCEPT ![f] = IF NoneFree THEN @ ELSE "USED"]
           /\ act' = [act EXCEPT !["mlme"] = p]
           /\ UNCHANGED <<list, free, LastIndSeq, up>>
  <2> HIDE DEF f, v, p
  <2>1. EntryTypes'
    BY <1>1, <1>4, <1>7 DEF EntryTypes
  <2>2. TableTypes'
    BY <1>1, <1>7, BaReorderAssumption DEF TableTypes
  <2>3. ActTypes' /\ act'["rx"] = act["rx"] /\ act'["mlme"] = p
    BY <1>1, <1>5, <1>7, MlmeWrites
  <2>4. Pool'
    BY <1>1, <1>7, PoolSame
  <2>5. last' \in -1..LastNum /\ order' \in Orders
    BY <1>1, <1>7 DEF HistTypes, Orders, up
  <2>6. HistTypes'
    BY <1>1, <1>2, <2>5, HistStep
  <2>7. Counted'
    <3>1. SUFFICES ASSUME ~raced' PROVE Counted'
      BY DEF Counted
    <3>2. Settled /\ act["rx"].pc = "idle"
      BY <1>3, <3>1
    <3>3. numAsRecipient = 0 /\ \A x \in Entries : status[x] = "NONE"
      BY <1>7, <3>2 DEF Settled, Table, Entries
    <3>4. ~NoneFree
      BY <1>4, <3>3 DEF NoneFree
    <3>5. v = f
      BY <3>4 DEF v, f
    <3>6. numAsRecipient' = 1 /\ \A x \in Entries : status'[x] = IF x = f THEN "USED" ELSE "NONE"
      BY <1>1, <1>4, <1>7, <3>3, <3>4 DEF EntryTypes
    <3>7. PICK g : g = f
      OBVIOUS
    <3>8. BARecWcidArray' = 0
      BY <1>1, <1>7
    <3>9. Table(g, 0, "USED")'
      BY <1>4, <3>6, <3>7, <3>8 DEF Table, Entries
    <3>10. act'["mlme"].pc = "setup" /\ act'["mlme"].e = g /\ act'["mlme"].val = g
      BY <1>5, <2>3, <3>5, <3>7
    <3>11. Step("mlme")'
      BY <3>8, <3>9, <3>10 DEF Step
    <3>12. act'["rx"].pc = "idle" /\ Step("rx")'
      BY <2>3, <3>2 DEF Step
    <3>13. QED
      BY <3>10, <3>11, <3>12 DEF Counted
  <2>8. QED
    BY <2>1, <2>2, <2>3, <2>4, <2>6, <2>7 DEF IndInv
<1>8. CASE /\ w # 0 /\ Refresh(w) /\ act' = [act EXCEPT !["mlme"] = q]
           /\ UNCHANGED <<status, numAsRecipient>>
  <2>1. w \in Entries /\ w \in 0..Ents
    BY <1>1, <1>8 DEF TableTypes, Entries
  <2>2. MlmeWork(q) /\ q.pc = "setup" /\ q.e = w /\ q.val = w
    BY <2>1, SetupWork
  <2> HIDE DEF q
  <2>3. /\ list' \in [Entries -> Seq(Nums)] /\ Pool'
        /\ LastIndSeq' \in [Entries -> Seqs \union {RESET_RCV_SEQ}]
        /\ last' \in -1..LastNum /\ order' \in Orders
    BY <1>1, <1>8, <2>1, Refreshed
  <2>4. EntryTypes'
    BY <1>1, <1>8, <2>3 DEF EntryTypes
  <2>5. TableTypes'
    BY <1>1, <1>8 DEF TableTypes
  <2>6. ActTypes' /\ act'["rx"] = act["rx"] /\ act'["mlme"] = q
    BY <1>1, <1>8, <2>2, MlmeWrites
  <2>7. HistTypes'
    BY <1>1, <1>2, <2>3, HistStep
  <2>8. Counted'
    <3>1. SUFFICES ASSUME ~raced' PROVE Counted'
      BY DEF Counted
    <3>2. Settled /\ act["rx"].pc = "idle"
      BY <1>3, <3>1
    <3>3. Settled' /\ BARecWcidArray' = w
      BY <1>1, <1>8, <3>2 DEF Settled, Table
    <3>4. Step("mlme")'
      BY <1>8, <2>2, <2>6, <3>3 DEF Step
    <3>5. act'["rx"].pc = "idle" /\ Step("rx")'
      BY <2>6, <3>2 DEF Step
    <3>6. QED
      BY <2>2, <2>6, <3>4, <3>5 DEF Counted
  <2>9. QED
    BY <2>3, <2>4, <2>5, <2>6, <2>7, <2>8 DEF IndInv
<1>9. QED
  BY <1>6, <1>7, <1>8 DEF PeerAddBAReqAction, SetupRec

\* BARecSessionAdd fills the entry in.
LEMMA SessionAddStep ==
  ASSUME IndInv, BARecSessionAdd
  PROVE  IndInv'
<1> DEFINE m == act["mlme"]
<1>1. /\ EntryTypes /\ TableTypes /\ HistTypes /\ ActTypes /\ Pool /\ Counted
      /\ m.pc = "setup" /\ Race("mlme") /\ act' = [act EXCEPT !["mlme"] = Idle]
      /\ status' = [status EXCEPT ![m.e] = "Accept"]
      /\ BAWinSize' = [BAWinSize EXCEPT ![m.e] = WinSize]
      /\ SetLastIndSeq(m.e, RESET_RCV_SEQ)
      /\ BARecWcidArray' = m.val /\ last' = -1
      /\ UNCHANGED <<list, numAsRecipient, free, peer, order, bar, eaps, bypassed, ops>>
  BY DEF IndInv, BARecSessionAdd, Done
<1>2. m.e \in Entries /\ m.val \in 0..Ents
  BY <1>1 DEF ActTypes, MlmeWork
<1>3. ActTypes' /\ act'["rx"] = act["rx"] /\ act'["mlme"] = Idle
  BY <1>1, IdleWork, MlmeWrites
<1>4. EntryTypes'
  BY <1>1, <1>2 DEF EntryTypes, SetLastIndSeq
<1>5. TableTypes'
  BY <1>1, <1>2 DEF TableTypes
<1>6. Pool'
  BY <1>1, PoolSame
<1>7. HistTypes'
  <2>1. /\ last' \in -1..LastNum /\ order' \in Orders /\ o' = o /\ heard' \in Nums
        /\ bar' \in -1..LastNum /\ bypassed' \in BOOLEAN /\ ops' \in 0..MaxOps
    BY <1>1, BaReorderAssumption DEF HistTypes, Orders, peer
  <2>2. QED
    BY <1>1, <2>1, HistStep
<1>8. Counted'
  <2>1. SUFFICES ASSUME ~raced' PROVE Counted'
    BY DEF Counted
  <2>2. ~raced /\ act["rx"].pc = "idle"
    <3>1. "mlme" \in Actors /\ "rx" \in Actors \ {"mlme"}
      BY DEF Actors
    <3>2. QED
      BY <1>1, <2>1, <3>1, Alone
  <2>3. Step("mlme")
    BY <1>1, <2>2 DEF Counted
  <2>4. m.val = m.e /\ numAsRecipient = 1 /\ \A x \in Entries : x # m.e => status[x] = "NONE"
    BY <1>1, <1>2, <2>3 DEF Step, Settled, Table, Entries
  <2>5. PICK e : e = m.e
    OBVIOUS
  <2>6. /\ BARecWcidArray' = e /\ e \in Entries /\ numAsRecipient' = 1
        /\ \A x \in Entries : status'[x] = IF x = e THEN "Accept" ELSE "NONE"
    BY <1>1, <1>2, <2>4, <2>5 DEF EntryTypes
  <2>7. Settled'
    BY <2>6 DEF Settled, Table, Entries
  <2>8. act'["rx"].pc = "idle" /\ act'["mlme"].pc = "idle"
    BY <1>3, <2>2 DEF Idle
  <2>9. QED
    BY <2>7, <2>8 DEF Counted, Step
<1>9. QED
  BY <1>3, <1>4, <1>5, <1>6, <1>7, <1>8 DEF IndInv

\* The peer's window moves.
LEMMA AdvanceStep ==
  ASSUME IndInv, PeerAdvances
  PROVE  IndInv'
<1>1. /\ EntryTypes /\ TableTypes /\ HistTypes /\ ActTypes /\ Pool /\ Counted
      /\ o < LastNum /\ o' = o + 1
      /\ UNCHANGED <<status, LastIndSeq, BAWinSize, list, BARecWcidArray, numAsRecipient, free,
                     act, heard, last, order, bar, raced, eaps, bypassed, ops>>
  BY DEF IndInv, PeerAdvances, entry, table, up
<1>2. EntryTypes' /\ TableTypes' /\ ActTypes'
  BY <1>1 DEF EntryTypes, TableTypes, ActTypes
<1>3. Pool'
  BY <1>1, PoolSame
<1>4. HistTypes'
  BY <1>1, BaReorderAssumption DEF HistTypes, Nums
<1>5. Counted'
  BY <1>1 DEF Counted, Step, Settled, Table
<1>6. QED
  BY <1>2, <1>3, <1>4, <1>5 DEF IndInv

-----------------------------------------------------------------------------
(***************************************************************************)
(* The theorems.                                                           *)
(***************************************************************************)

\* The first states satisfy the invariant.
LEMMA InitInd == Init => IndInv
<1> SUFFICES ASSUME Init PROVE IndInv
  OBVIOUS
<1>2. EntryTypes
  BY BaReorderAssumption DEF Init, EntryTypes
<1>3. TableTypes
  BY BaReorderAssumption DEF Init, TableTypes
<1>4. HistTypes
  <2>1. raced \in BOOLEAN /\ bypassed \in BOOLEAN
    BY DEF Init
  <2>2. o \in Nums /\ heard \in Nums /\ last \in -1..LastNum /\ bar \in -1..LastNum
    BY BaReorderAssumption DEF Init, Nums
  <2>3. QED
    BY <2>1, <2>2, BaReorderAssumption DEF Init, HistTypes
<1>5. ActTypes
  <2>1. act = [a \in Actors |-> Idle] /\ "rx" \in Actors /\ "mlme" \in Actors
    BY DEF Init, Actors
  <2>2. QED
    BY <2>1, IdleWork DEF ActTypes
<1>6. Pool
  <2>1. \A e \in Entries : list[e] = <<>>
    BY DEF Init
  <2>2. Cells(list, Entries) = {}
    BY <2>1 DEF Cells
  <2>3. Cardinality(Cells(list, Entries)) = 0
    BY <2>2, EntriesFinite
  <2>4. QED
    BY <2>3, BaReorderAssumption DEF Init, Pool
<1>7. Counted
  <2>1. act["rx"].pc = "idle" /\ act["mlme"].pc = "idle"
    BY DEF Init, Actors, Idle
  <2>2. Settled
    BY BaReorderAssumption DEF Init, Settled, Table, Entries
  <2>3. QED
    BY <2>1, <2>2 DEF Counted, Step
<1>8. QED
  BY <1>2, <1>3, <1>4, <1>5, <1>6, <1>7 DEF IndInv

\* Every step keeps the invariant.
LEMMA NextInd ==
  ASSUME IndInv, [Next]_vars
  PROVE  IndInv'
<1>1. CASE \E n \in FirstNum..LastNum, t \in {"no", "one", "all"} : Indicate_AMPDU_Packet(n, t)
  BY <1>1, AmpduStep DEF Nums
<1>2. CASE \E t \in {"one", "all"} : Indicate_Legacy_Packet(t)
  BY <1>2, LegacyStep
<1>3. CASE \E c \in BOOLEAN : CntlEnqueueForRecv(c)
  BY <1>3, BarStep
<1>4. CASE RxStep
  BY <1>4, FlushOneStep, FlushSetStep, FirstFrameStep, InOrderStep, DropOldStep, QueueStep,
     MoveWindowStep, WindowSetStep, EnqueueStep, NoBlockStep, NoBlockSetStep, WindowInOrderStep,
     InOrderSetStep, BarSetStep, TearDownNothingStep DEF RxStep
<1>5. CASE \E a \in Actors : BARecSessionTearDown(a) \/ TearDown(a)
  BY <1>5, TearDownStep, ClearStep, FreeStep, FreedStep DEF TearDown
<1>6. CASE PeerAddBAReqAction \/ BARecSessionAdd \/ PeerAdvances
  BY <1>6, AddBAStep, SessionAddStep, AdvanceStep
<1>7. CASE UNCHANGED vars
  <2>1. UNCHANGED <<status, LastIndSeq, BAWinSize, list, BARecWcidArray, numAsRecipient, free,
                    act, o, heard, last, order, bar, raced, eaps, bypassed, ops>>
    BY <1>7 DEF vars, entry, table, peer, up
  <2>2. EntryTypes' /\ TableTypes' /\ ActTypes' /\ HistTypes'
    BY <2>1 DEF IndInv, EntryTypes, TableTypes, ActTypes, HistTypes
  <2>3. Pool'
    BY <2>1, PoolSame DEF IndInv
  <2>4. Counted'
    BY <2>1 DEF IndInv, Counted, Step, Settled, Table
  <2>5. QED
    BY <2>2, <2>3, <2>4 DEF IndInv
<1>8. QED
  BY <1>1, <1>2, <1>3, <1>4, <1>5, <1>6, <1>7 DEF Next

\* So it holds in every behaviour.
LEMMA Inductive == Spec => []IndInv
BY InitInd, NextInd, PTL DEF Spec

\* The invariant implies the types,
LEMMA IndTypes == IndInv => TypeOK
<1> SUFFICES ASSUME IndInv PROVE TypeOK
  OBVIOUS
<1>2. EntryTypes /\ TableTypes /\ HistTypes /\ Pool
  BY DEF IndInv
<1>3. free \in 0..Blocks /\ eaps \in 0..Blocks
  <2>1. Entries \in SUBSET Entries /\ list \in [Entries -> Seq(Nums)]
    BY <1>2 DEF EntryTypes
  <2> DEFINE c == Cardinality(Cells(list, Entries))
  <2>2. c \in Nat
    BY <2>1, CellsFinite
  <2>3. free \in Nat /\ eaps \in Nat /\ free + c + eaps = Blocks
    BY <1>2 DEF Pool
  <2> HIDE DEF c
  <2>4. QED
    BY <2>2, <2>3, BaReorderAssumption
<1>4. QED
  BY <1>2, <1>3 DEF TypeOK, EntryTypes, TableTypes, HistTypes, Nums, Seqs

\* ... that the blocks are all accounted for,
LEMMA IndPool == IndInv => PoolConserved
<1> SUFFICES ASSUME IndInv PROVE PoolConserved
  OBVIOUS
<1>2. MapThenSumSet(LAMBDA e : Len(list[e]), Entries) = Cardinality(Cells(list, Entries))
  BY TotalIs DEF IndInv, EntryTypes
<1>3. free + Cardinality(Cells(list, Entries)) + eaps = Blocks
  BY DEF IndInv, Pool
<1>4. QED
  BY <1>2, <1>3, Zenon DEF PoolConserved

\* ... and that the table is, once set-up and teardown are done.
LEMMA IndCounted == IndInv => SessionsCounted
<1>1. SUFFICES ASSUME IndInv, \A a \in Actors : act[a].pc \in {"idle", "teardown"}, ~raced
               PROVE  /\ numAsRecipient = Cardinality({e \in Entries : status[e] # "NONE"})
                      /\ \A e \in Entries : status[e] = "Accept" <=> BARecWcidArray = e
  BY DEF SessionsCounted
<1>2. Settled /\ BARecWcidArray \in 0..Ents
  <2>1. act["rx"].pc \in {"idle", "teardown"} /\ act["mlme"].pc \in {"idle", "teardown"}
    BY <1>1 DEF Actors
  <2>2. QED
    BY <1>1, <2>1 DEF IndInv, Counted, TableTypes
<1>3. \A e \in Entries : status[e] = IF e = BARecWcidArray THEN "Accept" ELSE "NONE"
  BY <1>2 DEF Settled, Table
<1>4. numAsRecipient = Cardinality({e \in Entries : status[e] # "NONE"})
  <2>1. CASE BARecWcidArray = 0
    <3>1. {e \in Entries : status[e] # "NONE"} = {}
      BY <1>3, <2>1 DEF Entries
    <3>2. QED
      BY <1>2, <2>1, <3>1, EntriesFinite DEF Settled, Table
  <2>2. CASE BARecWcidArray # 0
    <3>1. {e \in Entries : status[e] # "NONE"} = {BARecWcidArray}
      BY <1>2, <1>3, <2>2 DEF Entries
    <3>2. Cardinality({BARecWcidArray}) = 1
      BY FS_Singleton
    <3>3. numAsRecipient = 1
      BY <1>2, <2>2 DEF Settled, Table
    <3>4. QED
      BY <3>1, <3>2, <3>3
  <2>3. QED
    BY <2>1, <2>2
<1>5. QED
  BY <1>3, <1>4

\* The types of the variables: numbers written to LastIndSeq outside the lock
\* are sequence numbers or the reset value, and the pool's free list never
\* holds more blocks than there are.
THEOREM TypeCorrect == Spec => []TypeOK
BY Inductive, IndTypes, PTL

\* No block is lost or given back twice, whatever the tasklet and the MLME
\* thread do to the lists at once, for every size of window, table and pool.
THEOREM Conserved == Spec => []PoolConserved
BY Inductive, IndPool, PTL

\* Set-ups and teardowns that do not overlap leave the table with exactly the
\* entry the peer's index names in use, and counted.
THEOREM Counts == Spec => []SessionsCounted
BY Inductive, IndCounted, PTL
=============================================================================
