--------------------------- MODULE BaOrder_proofs ---------------------------
(***************************************************************************)
(* Proofs about the order in which received MPDUs go up (BaReorder.tla):   *)
(*   InWindowAlways  the reordering list is sorted and in the window;      *)
(*   UpInOrder       frames go up in order, none twice.                    *)
(* LastIndSeq and the numbers on the air are remainders; the proofs are    *)
(* about the numbers they are remainders of.                               *)
(***************************************************************************)
EXTENDS BaReorder_proofs

-----------------------------------------------------------------------------
(***************************************************************************)
(* The inductive invariant.                                                *)
(***************************************************************************)

\* In a list nothing is twice or out of place.
Sorted(l) == \A i, j \in 1..Len(l) : i < j => l[i] < l[j]

\* The frames of the list are at least g ahead of p, within the window that
\* follows p, and none is newer than h.
Listed(l, p, g, h) ==
  /\ Sorted(l)
  /\ \A i \in 1..Len(l) : p + g <= l[i] /\ l[i] <= p + WinSize /\ l[i] <= h

\* Between two frames a listed one is not next in line. It may be where the
\* window has moved and the frames in order have not yet been released.
Moved(r) == \/ r.pc \in {"flushone", "winset", "order"}
            \/ r.pc \in {"enqueue", "enqset"} /\ r.v
Gap(r) == IF Moved(r) THEN 1 ELSE 2

\* The tasklet has a frame for which it has not yet compared the numbers.
Pending(r) == r.pc = "decide" \/ (r.pc \in {"flushone", "flushset"} /\ ~r.v)

\* What LastIndSeq, now s, is as soon as the tasklet has written what it means to.
Written(r, s) ==
  IF r.pc \in {"flushone", "winset"} THEN r.val
  ELSE IF r.pc \in {"flushset", "set"} /\ r.val # RESET_RCV_SEQ THEN r.val
  ELSE IF r.pc = "barset" THEN BarLast(r.val)
  ELSE IF r.pc = "enqset" THEN SeqNo(r.n)
  ELSE s

\* What went up last, u, is not beyond p, but for the frame b a BAR starts at.
UpTo(r, p, u, b) ==
  \/ u <= p
  \/ ~Moved(r) /\ r.pc # "enqset" /\ u = p + 1 /\ b = p + 1

\* The newest frame heard, h, is in the window, or is about to move it.
Reached(r, p, h) == h <= p + WinSize \/ (Pending(r) /\ h <= r.n)

\* The frame at hand against p: numbers less than half of ModSeq apart.
AtHand(r, p, h) ==
  /\ Pending(r) => p <= r.n + WinSize - 1 /\ r.n <= p + 2 * WinSize + MaxGap - 1
  /\ r.pc \in {"winset", "enqueue"} => p + Gap(r) <= r.n /\ r.n <= p + WinSize /\ r.n <= h
  /\ r.pc = "enqset" => p = r.n

\* The tasklet is at r, LastIndSeq is s and the list l; the peer's window starts
\* at w; u, h and b as above. LastIndSeq stands for the frame p: the numbers
\* without wrapping that the sequence numbers on the air are remainders of.
StandsFor(r, s, l, p, w, h, u, b) ==
  /\ Written(r, s) = SeqNo(p)
  /\ p <= w + WinSize - 1
  /\ Listed(l, p, Gap(r), h)
  /\ UpTo(r, p, u, b) /\ Reached(r, p, h) /\ AtHand(r, p, h)
  /\ r.pc \notin {"tdclear", "tdfree", "tdcount"}

\* The session's LastIndSeq does.
Tracks(p) ==
  /\ StandsFor(act["rx"], LastIndSeq[BARecWcidArray], list[BARecWcidArray], p, o, heard, last, bar)
  /\ act["mlme"].pc = "idle"

\* After a reset there is no such frame, and nothing is listed.
Blank ==
  /\ LastIndSeq[BARecWcidArray] = RESET_RCV_SEQ /\ list[BARecWcidArray] = <<>> /\ last = -1
  /\ act["rx"].pc \in {"idle", "decide", "teardown", "tdclear", "tdfree", "tdcount"}

\* The frames LastIndSeq can stand for.
Frames == -1..(LastNum + WinSize)

\* The peer's window against what has been heard, and the frame at hand.
Air ==
  /\ o <= heard + MaxGap /\ heard <= o + WinSize - 1
  /\ Pending(act["rx"]) => /\ act["rx"].n <= heard /\ heard <= act["rx"].n + WinSize - 1
                          /\ ~act["rx"].v

\* The tasklet works on the peer's session, the only one with a list.
Session ==
  /\ \A x \in Entries : x # BARecWcidArray => list[x] = <<>>
  /\ BARecWcidArray # 0 => BAWinSize[BARecWcidArray] = WinSize
  /\ act["rx"].pc \notin {"idle", "teardown", "tdclear", "tdfree", "tdcount"} =>
       BARecWcidArray # 0 /\ act["rx"].e = BARecWcidArray

\* As long as the contexts take turns and no frame has gone past a list,
\* frames go up in order and the list is in the window.
Ordered ==
  ~raced /\ ~bypassed =>
    /\ order # "old" /\ Session
    /\ BARecWcidArray # 0 => Blank \/ \E p \in Frames : Tracks(p)

\* Inductive, on top of the types and of the table.
OrderInv == IndInv /\ Air /\ Ordered
-----------------------------------------------------------------------------
(***************************************************************************)
(* Sequence numbers: what the comparisons of remainders say of the numbers *)
(* themselves, for numbers less than half of ModSeq apart.                 *)
(***************************************************************************)

\* How far apart the numbers that meet in a comparison can be.
Half == MaxGap + 2 * WinSize

\* The constants.
LEMMA Sizes ==
  /\ ModSeq \in Nat \ {0} /\ WinSize \in Nat \ {0} /\ MaxGap \in Nat /\ Half \in Nat
  /\ Half = MaxGap + 2 * WinSize /\ Half >= 2
  /\ Half <= ModSeq \div 2 /\ ModSeq \div 2 \in Nat /\ ModSeq - Half >= ModSeq \div 2
  /\ 2 * Half <= ModSeq
<1>1. ModSeq \in Nat \ {0} /\ WinSize \in Nat \ {0} /\ MaxGap \in Nat /\ 2 * (MaxGap + 2 * WinSize) <= ModSeq
  BY BaReorderAssumption
<1>2. QED
  BY <1>1 DEF Half

\* A number is a multiple of ModSeq and its remainder.
LEMMA Divide ==
  ASSUME NEW a \in Int
  PROVE  \E q \in Int : a = q * ModSeq + (a % ModSeq)
<1>1. ModSeq \in Nat \ {0}
  BY Sizes
<1>2. a = (a \div ModSeq) * ModSeq + (a % ModSeq) /\ a \div ModSeq \in Int
  BY <1>1
<1>3. QED
  BY <1>2

\* A multiple of ModSeq that is less than ModSeq away from zero is zero.
LEMMA NoMultiple ==
  ASSUME NEW q \in Int, -ModSeq < q * ModSeq, q * ModSeq < ModSeq
  PROVE  q = 0
<1>1. ModSeq \in Nat \ {0}
  BY Sizes
<1>2. q >= 1 => q * ModSeq >= ModSeq
  BY <1>1
<1>3. q <= -1 => q * ModSeq <= -ModSeq
  BY <1>1
<1>4. QED
  BY <1>1, <1>2, <1>3

\* What a multiple of ModSeq and something less are the remainder is the latter.
LEMMA Remainder ==
  ASSUME NEW a \in Int, NEW q \in Int, NEW r \in 0..(ModSeq - 1), a = q * ModSeq + r
  PROVE  a % ModSeq = r
<1>1. ModSeq \in Nat \ {0}
  BY Sizes
<1>2. PICK k \in Int : a = k * ModSeq + (a % ModSeq)
  BY Divide
<1>3. a % ModSeq \in 0..(ModSeq - 1)
  BY ModRange DEF Seqs
<1>4. (k - q) * ModSeq = k * ModSeq - q * ModSeq
  BY <1>1
<1> DEFINE x == k * ModSeq
           y == q * ModSeq
           z == a % ModSeq
<1>5. x \in Int /\ y \in Int /\ z \in Int /\ k - q \in Int
  BY <1>1, <1>3
<1>6. -ModSeq < x - y /\ x - y < ModSeq
  <2> HIDE DEF x, y, z
  <2>1. x + z = y + r /\ z \in 0..(ModSeq - 1)
    BY <1>2, <1>3 DEF x, y, z
  <2>2. QED
    BY <1>1, <1>5, <2>1
<1>7. k - q = 0
  BY <1>4, <1>5, <1>6, NoMultiple
<1>8. k = q
  BY <1>7
<1>9. x = y
  BY <1>8
<1> HIDE DEF x, y, z
<1>10. x + z = y + r
  BY <1>2 DEF x, y, z
<1>11. z = r
  BY <1>5, <1>9, <1>10
<1>12. QED
  BY <1>11 DEF z

\* Differences of remainders are differences of the numbers.
LEMMA Differences ==
  ASSUME NEW a \in Int, NEW b \in Int
  PROVE  /\ ((a % ModSeq) - (b % ModSeq)) % ModSeq = (a - b) % ModSeq
         /\ (a - (b % ModSeq)) % ModSeq = (a - b) % ModSeq
         /\ ((a % ModSeq) + b) % ModSeq = (a + b) % ModSeq
<1>1. ModSeq \in Nat \ {0}
  BY Sizes
<1>2. PICK i \in Int : a = i * ModSeq + (a % ModSeq)
  BY Divide
<1>3. PICK j \in Int : b = j * ModSeq + (b % ModSeq)
  BY Divide
<1> DEFINE x == i * ModSeq
           y == j * ModSeq
           ra == a % ModSeq
           rb == b % ModSeq
<1>4. ra \in Int /\ rb \in Int /\ x \in Int /\ y \in Int
  BY <1>1, ModRange DEF Seqs
<1>5. ASSUME NEW c \in Int, NEW d \in Int, NEW k \in Int, c = k * ModSeq + d
      PROVE  d % ModSeq = c % ModSeq
  <2>1. PICK h \in Int : d = h * ModSeq + (d % ModSeq)
    BY Divide
  <2>2. d % ModSeq \in 0..(ModSeq - 1)
    BY ModRange DEF Seqs
  <2>3. (k + h) * ModSeq = k * ModSeq + h * ModSeq
    BY <1>1
  <2> DEFINE u == k * ModSeq
             t == h * ModSeq
             z == d % ModSeq
             s == (k + h) * ModSeq
  <2>4. u \in Int /\ t \in Int /\ z \in Int /\ s \in Int /\ s = u + t /\ d = t + z /\ c = u + d
    BY <1>1, <1>5, <2>1, <2>2, <2>3
  <2> HIDE DEF u, t, z, s
  <2>5. c = s + z
    BY <2>4
  <2>6. c = (k + h) * ModSeq + (d % ModSeq) /\ k + h \in Int
    BY <2>5 DEF s, z
  <2>7. QED
    BY <2>2, <2>6, Remainder
<1>6. (i - j) * ModSeq = x - y /\ -j \in Int /\ (-j) * ModSeq = -y
  BY <1>1
<1>7. a = x + ra /\ b = y + rb
  BY <1>2, <1>3
<1> HIDE DEF x, y, ra, rb
<1>8. a - b = (x - y) + (ra - rb) /\ a - b \in Int /\ ra - rb \in Int
  BY <1>4, <1>7
<1>9. (a - b) = (i - j) * ModSeq + (ra - rb) /\ i - j \in Int
  BY <1>6, <1>8
<1>10. (ra - rb) % ModSeq = (a - b) % ModSeq
  BY <1>5, <1>8, <1>9
<1>11. (a - b) = -y + (a - rb) /\ a - rb \in Int
  BY <1>4, <1>7
<1>12. (a - rb) % ModSeq = (a - b) % ModSeq
  BY <1>5, <1>6, <1>8, <1>11
<1>13. a + b = x + (ra + b) /\ a + b \in Int /\ ra + b \in Int
  BY <1>4, <1>7
<1>14. (ra + b) % ModSeq = (a + b) % ModSeq
  BY <1>5, <1>13 DEF x
<1>15. QED
  BY <1>10, <1>12, <1>14 DEF ra, rb

\* Remainders of what is less than ModSeq away from zero.
LEMMA Near ==
  ASSUME NEW d \in Int, -ModSeq <= d, d < ModSeq
  PROVE  d % ModSeq = IF d < 0 THEN d + ModSeq ELSE d
<1>1. ModSeq \in Nat \ {0}
  BY Sizes
<1>2. d < 0 => d = (-1) * ModSeq + (d + ModSeq) /\ d + ModSeq \in 0..(ModSeq - 1)
  BY <1>1
<1>3. d >= 0 => d = 0 * ModSeq + d /\ d \in 0..(ModSeq - 1)
  BY <1>1
<1>4. d < 0 => d % ModSeq = d + ModSeq
  <2>1. -1 \in Int
    OBVIOUS
  <2>2. QED
    BY <1>2, <2>1, Remainder
<1>5. d >= 0 => d % ModSeq = d
  <2>1. 0 \in Int
    OBVIOUS
  <2>2. QED
    BY <1>3, <2>1, Remainder
<1>6. QED
  BY <1>4, <1>5

\* SEQ_SMALLER compares the numbers.
LEMMA Smaller ==
  ASSUME NEW a \in Int, NEW b \in Int, a - b < Half, b - a <= Half
  PROVE  SEQ_SMALLER(SeqNo(a), SeqNo(b)) <=> a < b
<1>1. ((a % ModSeq) - (b % ModSeq)) % ModSeq = (a - b) % ModSeq
  BY Differences
<1> DEFINE d == a - b
<1>2. d \in Int /\ d < Half /\ -Half <= d /\ (d < 0 <=> a < b)
  BY Sizes
<1> HIDE DEF d
<1>3. d % ModSeq = IF d < 0 THEN d + ModSeq ELSE d
  BY <1>2, Near, Sizes
<1>4. d % ModSeq >= ModSeq \div 2 <=> d < 0
  <2> DEFINE h == ModSeq \div 2
  <2>1. h \in Nat /\ ModSeq \in Nat /\ Half \in Nat /\ Half <= h /\ ModSeq - Half >= h
    BY Sizes
  <2> HIDE DEF h
  <2>2. d < 0 => d + ModSeq >= h
    BY <1>2, <2>1
  <2>3. ~(d < 0) => ~(d >= h)
    BY <1>2, <2>1
  <2>4. d % ModSeq >= h <=> d < 0
    BY <1>3, <2>2, <2>3
  <2>5. QED
    BY <2>4 DEF h
<1>5. QED
  BY <1>1, <1>2, <1>4 DEF SEQ_SMALLER, SeqNo, d

\* Two numbers with one remainder are one number.
LEMMA SameNumber ==
  ASSUME NEW a \in Int, NEW b \in Int, a - b < ModSeq, b - a < ModSeq
  PROVE  SeqNo(a) = SeqNo(b) <=> a = b
<1>1. ASSUME SeqNo(a) = SeqNo(b) PROVE a = b
  <2>1. ((a % ModSeq) - (b % ModSeq)) % ModSeq = (a - b) % ModSeq
    BY Differences
  <2>2. a % ModSeq \in Int /\ a % ModSeq = b % ModSeq
    BY <1>1, ModRange DEF SeqNo, Seqs
  <2>3. (a % ModSeq) - (b % ModSeq) = 0
    BY <2>2
  <2>4. 0 % ModSeq = 0
    BY Near, Sizes
  <2>5. (a - b) % ModSeq = 0
    BY <2>1, <2>3, <2>4
  <2>6. a - b \in Int /\ -ModSeq < a - b /\ a - b < ModSeq /\ ModSeq \in Nat
    BY Sizes
  <2>7. (a - b) % ModSeq = IF a - b < 0 THEN (a - b) + ModSeq ELSE a - b
    BY <2>6, Near
  <2>8. QED
    BY <2>5, <2>6, <2>7
<1>2. QED
  BY <1>1

\* SEQ_STEPONE, LeSeq and the numbers they compute with.
LEMMA StepOne ==
  ASSUME NEW a \in Int, NEW b \in Int, a - b <= Half, b - a < Half
  PROVE  SEQ_STEPONE(SeqNo(a), SeqNo(b)) <=> a = b + 1
<1>1. (SeqNo(b) + 1) % ModSeq = SeqNo(b + 1)
  BY Differences DEF SeqNo
<1>2. b + 1 \in Int /\ a - (b + 1) < ModSeq /\ (b + 1) - a < ModSeq
  BY Sizes
<1>3. QED
  BY <1>1, <1>2, SameNumber DEF SEQ_STEPONE

\* LeSeq too.
LEMMA NotAfter ==
  ASSUME NEW a \in Int, NEW b \in Int, a - b < Half, b - a <= Half
  PROVE  LeSeq(a, SeqNo(b)) <=> a <= b
<1>1. a - b < ModSeq /\ b - a < ModSeq
  BY Sizes
<1>2. QED
  BY <1>1, SameNumber, Smaller DEF LeSeq

\* Sums, and the number before.
LEMMA SeqNoOf ==
  ASSUME NEW a \in Int
  PROVE  /\ SeqNo(a) \in Seqs /\ SeqNo(a) # RESET_RCV_SEQ
         /\ \A b \in Int : (SeqNo(a) + b) % ModSeq = SeqNo(a + b)
         /\ BarLast(SeqNo(a)) = SeqNo(a - 1)
<1>1. SeqNo(a) \in Seqs /\ SeqNo(a) \in 0..(ModSeq - 1)
  BY ModRange DEF SeqNo, Seqs
<1>2. SeqNo(a) # RESET_RCV_SEQ
  BY <1>1, Sizes DEF RESET_RCV_SEQ
<1>3. \A b \in Int : (SeqNo(a) + b) % ModSeq = SeqNo(a + b)
  BY Differences DEF SeqNo
<1>4. (SeqNo(a) - 1) % ModSeq = SeqNo(a - 1)
  <2>1. (SeqNo(a) + (-1)) % ModSeq = SeqNo(a + (-1))
    BY <1>3
  <2>2. SeqNo(a) + (-1) = SeqNo(a) - 1 /\ a + (-1) = a - 1
    BY <1>1
  <2>3. QED
    BY <2>1, <2>2
<1>5. SeqNo(a) - 1 \in Int /\ -ModSeq <= SeqNo(a) - 1 /\ SeqNo(a) - 1 < ModSeq
  BY <1>1, Sizes
<1>6. (SeqNo(a) - 1) % ModSeq = IF SeqNo(a) - 1 < 0 THEN SeqNo(a) - 1 + ModSeq ELSE SeqNo(a) - 1
  BY <1>5, Near
<1>7. BarLast(SeqNo(a)) = SeqNo(a - 1)
  BY <1>1, <1>4, <1>6, Sizes DEF BarLast
<1>8. QED
  BY <1>1, <1>2, <1>3, <1>7

-----------------------------------------------------------------------------
(***************************************************************************)
(* The list.                                                               *)
(***************************************************************************)

\* The frames of a list are numbers.
LEMMA Elements ==
  ASSUME NEW l \in Seq(Nums)
  PROVE  /\ Len(l) \in Nat
         /\ \A i \in 1..Len(l) : l[i] \in Nums /\ l[i] \in Int
<1>1. Len(l) \in Nat /\ \A i \in 1..Len(l) : l[i] \in Nums
  OBVIOUS
<1>2. Nums \subseteq Int
  BY BaReorderAssumption DEF Nums
<1>3. QED
  BY <1>1, <1>2

\* The frames before and after a cut.
LEMMA CutElements ==
  ASSUME NEW l \in Seq(Nums), NEW k \in 0..Len(l)
  PROVE  /\ \A i \in 1..(Len(l) - k) : SubSeq(l, k + 1, Len(l))[i] = l[i + k] /\ i + k \in (k + 1)..Len(l)
         /\ \A i \in 1..k : SubSeq(l, 1, k)[i] = l[i]
<1>1. Len(l) \in Nat
  OBVIOUS
<1>2. ASSUME NEW i \in 1..(Len(l) - k)
      PROVE  SubSeq(l, k + 1, Len(l))[i] = l[i + k] /\ i + k \in (k + 1)..Len(l)
  <2>1. i + k \in (k + 1)..Len(l) /\ (k + 1) + i - 1 = i + k
    BY <1>1
  <2>2. SubSeq(l, k + 1, Len(l))[i] = l[(k + 1) + i - 1]
    BY <1>1
  <2>3. QED
    BY <2>1, <2>2
<1>3. ASSUME NEW i \in 1..k PROVE SubSeq(l, 1, k)[i] = l[i]
  <2>1. SubSeq(l, 1, k)[i] = l[1 + i - 1]
    BY <1>1
  <2>2. 1 + i - 1 = i
    OBVIOUS
  <2>3. QED
    BY <2>1, <2>2
<1>4. QED
  BY <1>2, <1>3

\* Both parts of a sorted list are sorted.
LEMMA CutSorted ==
  ASSUME NEW l \in Seq(Nums), NEW k \in 0..Len(l), Sorted(l)
  PROVE  Sorted(SubSeq(l, k + 1, Len(l))) /\ Sorted(SubSeq(l, 1, k))
<1> DEFINE t == SubSeq(l, k + 1, Len(l))
           h == SubSeq(l, 1, k)
<1>1. Len(l) \in Nat /\ k \in Nat /\ Len(t) = Len(l) - k /\ Len(h) = k
  BY Cut
<1>2. /\ \A i \in 1..(Len(l) - k) : t[i] = l[i + k] /\ i + k \in (k + 1)..Len(l)
      /\ \A i \in 1..k : h[i] = l[i]
  BY CutElements
<1> HIDE DEF t, h
<1>3. ASSUME NEW i \in 1..Len(t), NEW j \in 1..Len(t), i < j PROVE t[i] < t[j]
  <2>1. i + k \in 1..Len(l) /\ j + k \in 1..Len(l) /\ i + k < j + k
    BY <1>1, <1>3
  <2>2. l[i + k] < l[j + k]
    BY <2>1 DEF Sorted
  <2>3. QED
    BY <1>1, <1>2, <2>2
<1>4. ASSUME NEW i \in 1..Len(h), NEW j \in 1..Len(h), i < j PROVE h[i] < h[j]
  <2>1. i \in 1..Len(l) /\ j \in 1..Len(l)
    BY <1>1
  <2>2. l[i] < l[j]
    BY <1>4, <2>1 DEF Sorted
  <2>3. QED
    BY <1>1, <1>2, <2>2
<1>5. Sorted(t) /\ Sorted(h)
  BY <1>3, <1>4 DEF Sorted
<1>6. QED
  BY <1>5 DEF t, h

\* What is left of a list fits a number q further on.
LEMMA CutListed ==
  ASSUME NEW l \in Seq(Nums), NEW k \in 0..Len(l), NEW p \in Int, NEW q \in Int, NEW g, NEW h \in Nat,
         NEW m, Listed(l, p, g, m), p <= q, \A i \in (k + 1)..Len(l) : q + h <= l[i]
  PROVE  Listed(SubSeq(l, k + 1, Len(l)), q, h, m)
<1> DEFINE t == SubSeq(l, k + 1, Len(l))
<1>1. Sorted(l) /\ \A i \in 1..Len(l) : l[i] <= p + WinSize /\ l[i] <= m
  BY DEF Listed
<1>2. Len(l) \in Nat /\ k \in Nat /\ Len(t) = Len(l) - k
  BY Cut
<1>3. \A i \in 1..(Len(l) - k) : t[i] = l[i + k] /\ i + k \in (k + 1)..Len(l)
  BY CutElements
<1>4. Sorted(t)
  BY <1>1, CutSorted
<1> HIDE DEF t
<1>5. ASSUME NEW i \in 1..Len(t) PROVE q + h <= t[i] /\ t[i] <= q + WinSize /\ t[i] <= m
  <2>1. i + k \in (k + 1)..Len(l) /\ i + k \in 1..Len(l) /\ t[i] = l[i + k]
    BY <1>2, <1>3
  <2>2. q + h <= l[i + k] /\ l[i + k] <= p + WinSize /\ l[i + k] <= m /\ l[i + k] \in Int
    BY <1>1, <2>1, Elements
  <2>3. QED
    BY <2>1, <2>2, Sizes
<1>6. Listed(t, q, h, m)
  BY <1>4, <1>5 DEF Listed
<1>7. QED
  BY <1>6 DEF t

\* The prefix with numbers up to x.
LEMMA LeCountIs ==
  ASSUME NEW l \in Seq(Nums), Sorted(l), NEW x \in Int,
         \A i \in 1..Len(l) : l[i] - x < Half /\ x - l[i] <= Half
  PROVE  LET k == LeCount(l, SeqNo(x))
         IN /\ k \in 0..Len(l)
            /\ \A i \in 1..k : l[i] <= x
            /\ \A i \in (k + 1)..Len(l) : x + 1 <= l[i]
<1> DEFINE k == LeCount(l, SeqNo(x))
           B == {i \in 1..Len(l) : ~LeSeq(l[i], SeqNo(x))}
<1>1. Len(l) \in Nat /\ \A i \in 1..Len(l) : l[i] \in Int
  BY Elements
<1>2. /\ k \in 0..Len(l)
      /\ \A i \in 1..k : LeSeq(l[i], SeqNo(x))
      /\ k < Len(l) => ~LeSeq(l[k + 1], SeqNo(x))
  <2>1. B \in SUBSET (1..Len(l))
    OBVIOUS
  <2>2. PICK j \in 0..Len(l) : (\A i \in 1..j : i \notin B) /\ (j < Len(l) => j + 1 \in B)
    <3> HIDE DEF B
    <3>1. QED
      BY <1>1, <2>1, Prefix
  <2>3. (\A i \in 1..j : LeSeq(l[i], SeqNo(x))) /\ (j < Len(l) => ~LeSeq(l[j + 1], SeqNo(x)))
    BY <2>2
  <2>4. QED
    BY <2>3 DEF LeCount
<1>3. \A i \in 1..Len(l) : LeSeq(l[i], SeqNo(x)) <=> l[i] <= x
  BY <1>1, NotAfter
<1> HIDE DEF k, B
<1>4. \A i \in 1..k : l[i] <= x
  BY <1>1, <1>2, <1>3
<1>5. ASSUME NEW i \in (k + 1)..Len(l) PROVE x + 1 <= l[i]
  <2>1. k < Len(l) /\ k + 1 \in 1..Len(l) /\ i \in 1..Len(l) /\ (k + 1 = i \/ k + 1 < i)
    BY <1>1, <1>2
  <2>2. ~(l[k + 1] <= x)
    BY <1>2, <1>3, <2>1
  <2>3. l[k + 1] = l[i] \/ l[k + 1] < l[i]
    BY <2>1 DEF Sorted
  <2>4. l[i] \in Int /\ l[k + 1] \in Int
    BY <1>1, <2>1
  <2>5. QED
    BY <2>2, <2>3, <2>4
<1>6. k \in 0..Len(l) /\ (\A i \in 1..k : l[i] <= x) /\ \A i \in (k + 1)..Len(l) : x + 1 <= l[i]
  BY <1>2, <1>4, <1>5
<1>7. QED
  BY <1>6 DEF k

\* The frames in order from p on: what is left is not next in line.
LEMMA InOrderCountIs ==
  ASSUME NEW l \in Seq(Nums), NEW p \in Int, NEW m, Listed(l, p, 1, m)
  PROVE  LET k == InOrderCount(l, SeqNo(p))
             q == IF k = 0 THEN p ELSE l[k]
         IN /\ k \in 0..Len(l)
            /\ \A i \in (k + 1)..Len(l) : q + 2 <= l[i]
<1> DEFINE steps(i) == SEQ_STEPONE(SeqNo(l[i]), IF i = 1 THEN SeqNo(p) ELSE SeqNo(l[i - 1]))
           B == {i \in 1..Len(l) : ~steps(i)}
           k == InOrderCount(l, SeqNo(p))
           q == IF k = 0 THEN p ELSE l[k]
<1>1. Len(l) \in Nat /\ \A i \in 1..Len(l) : l[i] \in Int
  BY Elements
<1>2. Sorted(l) /\ \A i \in 1..Len(l) : p + 1 <= l[i] /\ l[i] <= p + WinSize
  BY DEF Listed
<1>3. k \in 0..Len(l) /\ (k < Len(l) => ~steps(k + 1))
  <2> HIDE DEF steps, k
  <2>1. B \in SUBSET (1..Len(l))
    OBVIOUS
  <2>2. PICK j \in 0..Len(l) : (\A i \in 1..j : i \notin B) /\ (j < Len(l) => j + 1 \in B)
    <3> HIDE DEF B
    <3>1. QED
      BY <1>1, <2>1, Prefix
  <2>3. (\A i \in 1..j : steps(i)) /\ (j < Len(l) => ~steps(j + 1))
    BY <2>2
  <2>4. k = CHOOSE j1 \in 0..Len(l) : (\A i \in 1..j1 : steps(i)) /\ (j1 < Len(l) => ~steps(j1 + 1))
    BY DEF InOrderCount, steps, k
  <2>5. QED
    BY <2>3, <2>4
<1>4. k < Len(l) => ~SEQ_STEPONE(SeqNo(l[k + 1]), SeqNo(q))
  <2>1. k \in 0..Len(l)
    BY <1>3
  <2> HIDE DEF k
  <2>2. (k + 1 = 1 <=> k = 0) /\ (k + 1) - 1 = k
    BY <2>1
  <2>3. QED
    BY <1>3, <2>2
<1>5. q \in Int /\ p <= q /\ q <= p + WinSize
  <2>1. k # 0 => k \in 1..Len(l)
    BY <1>1, <1>3
  <2>2. k # 0 => l[k] \in Int /\ p + 1 <= l[k] /\ l[k] <= p + WinSize
    BY <1>1, <1>2, <2>1
  <2> HIDE DEF k
  <2>3. QED
    BY <2>2, Sizes
<1>6. k # 0 => k \in 1..Len(l) /\ q = l[k]
  BY <1>1, <1>3
<1>7. k = 0 => q = p
  OBVIOUS
<1> HIDE DEF k, q
<1>8. ASSUME NEW i \in (k + 1)..Len(l) PROVE q + 2 <= l[i]
  <2>1. k < Len(l) /\ k + 1 \in 1..Len(l) /\ i \in 1..Len(l) /\ (k + 1 = i \/ k + 1 < i)
    BY <1>1, <1>3
  <2>2. l[k + 1] \in Int /\ l[i] \in Int /\ l[k + 1] <= l[i]
    <3>1. l[k + 1] \in Int /\ l[i] \in Int
      BY <1>1, <2>1
    <3>2. l[k + 1] = l[i] \/ l[k + 1] < l[i]
      BY <1>2, <2>1 DEF Sorted
    <3>3. QED
      BY <3>1, <3>2
  <2>3. l[k + 1] > q
    <3>1. CASE k = 0
      <4>1. p + 1 <= l[k + 1]
        BY <1>2, <2>1
      <4>2. QED
        BY <1>7, <2>2, <3>1, <4>1
    <3>2. CASE k # 0
      <4>1. k \in 1..Len(l) /\ k + 1 \in 1..Len(l) /\ k < k + 1 /\ q = l[k]
        BY <1>6, <2>1, <3>2
      <4>2. l[k] < l[k + 1]
        BY <1>2, <4>1 DEF Sorted
      <4>3. QED
        BY <1>5, <2>2, <4>1, <4>2
    <3>3. QED
      BY <3>1, <3>2
  <2>4. l[k + 1] <= p + WinSize
    BY <1>2, <2>1
  <2> DEFINE y == l[k + 1]
  <2>5. y \in Int /\ y > q /\ y <= p + WinSize
    BY <2>2, <2>3, <2>4
  <2> HIDE DEF y
  <2>6. y - q <= Half /\ q - y < Half
    BY <1>5, <2>5, Sizes
  <2>7. y # q + 1
    <3>1. SEQ_STEPONE(SeqNo(y), SeqNo(q)) <=> y = q + 1
      BY <1>5, <2>5, <2>6, StepOne
    <3>2. ~SEQ_STEPONE(SeqNo(y), SeqNo(q))
      BY <1>4, <2>1 DEF y
    <3>3. QED
      BY <3>1, <3>2
  <2>8. y >= q + 2
    BY <1>5, <2>5, <2>7
  <2>9. l[i] >= y
    BY <2>2 DEF y
  <2>10. QED
    BY <1>5, <2>2, <2>5, <2>8, <2>9
<1>9. k \in 0..Len(l) /\ \A i \in (k + 1)..Len(l) : q + 2 <= l[i]
  BY <1>3, <1>8
<1>10. QED
  BY <1>9 DEF k, q

\* The place of a frame: the frames before it are older, the others are not.
LEMMA PlaceIs ==
  ASSUME NEW l \in Seq(Nums), Sorted(l), NEW n \in Int,
         \A i \in 1..Len(l) : l[i] - n < Half /\ n - l[i] <= Half
  PROVE  /\ Place(l, n) \in 1..(Len(l) + 1)
         /\ \A i \in 1..(Place(l, n) - 1) : l[i] < n
         /\ IsListed(l, n) <=> Place(l, n) <= Len(l) /\ l[Place(l, n)] = n
         /\ ~IsListed(l, n) => \A i \in Place(l, n)..Len(l) : n < l[i]
<1> DEFINE stop == {i \in DOMAIN l : ~SEQ_SMALLER(SeqNo(l[i]), SeqNo(n))}
           k == Place(l, n)
<1>1. Len(l) \in Nat /\ DOMAIN l = 1..Len(l) /\ \A i \in 1..Len(l) : l[i] \in Int
  BY Elements
<1>2. \A i \in 1..Len(l) : SEQ_SMALLER(SeqNo(l[i]), SeqNo(n)) <=> l[i] < n
  BY <1>1, Smaller
<1>3. stop \subseteq 1..Len(l) /\ \A i \in 1..Len(l) : i \in stop <=> ~(l[i] < n)
  BY <1>1, <1>2
<1>4. k = IF stop = {} THEN Len(l) + 1 ELSE Min(stop)
  BY DEF Place
<1>5. k \in 1..(Len(l) + 1)
  BY PlaceType
<1> HIDE DEF stop, k
<1>6. stop # {} => k \in stop /\ \A y \in stop : k <= y
  <2>1. SUFFICES ASSUME stop # {} PROVE k \in stop /\ \A y \in stop : k <= y
    OBVIOUS
  <2>2. stop \subseteq Nat
    BY <1>1, <1>3
  <2>3. \E x \in stop : \A y \in stop : x <= y
    BY <2>1, <2>2, LeastNat
  <2>4. QED
    BY <1>4, <2>1, <2>3 DEF Min
<1>7. stop = {} => k = Len(l) + 1
  BY <1>4
<1>8. ASSUME NEW i \in 1..(k - 1) PROVE l[i] < n
  <2>1. i \in 1..Len(l) /\ ~(k <= i)
    BY <1>1, <1>5
  <2>2. i \notin stop
    BY <1>6, <2>1
  <2>3. QED
    BY <1>3, <2>1, <2>2
<1>9. k <= Len(l) => k \in 1..Len(l) /\ k \in stop /\ ~(l[k] < n)
  <2>1. SUFFICES ASSUME k <= Len(l) PROVE k \in 1..Len(l) /\ k \in stop /\ ~(l[k] < n)
    OBVIOUS
  <2>2. k \in 1..Len(l)
    BY <1>1, <1>5, <2>1
  <2>3. stop # {}
    BY <1>1, <1>7, <2>1
  <2>4. QED
    BY <1>3, <1>6, <2>2, <2>3
<1>10. k <= Len(l) => (SeqNo(l[k]) = SeqNo(n) <=> l[k] = n)
  <2>1. SUFFICES ASSUME k <= Len(l) PROVE SeqNo(l[k]) = SeqNo(n) <=> l[k] = n
    OBVIOUS
  <2>2. k \in 1..Len(l) /\ l[k] \in Int /\ l[k] - n < Half /\ n - l[k] <= Half
    BY <1>1, <1>9, <2>1
  <2> DEFINE y == l[k]
  <2> HIDE DEF y
  <2>3. y \in Int /\ y - n < ModSeq /\ n - y < ModSeq
    BY <2>2, Sizes DEF y
  <2>4. SeqNo(y) = SeqNo(n) <=> y = n
    BY <2>3, SameNumber
  <2>5. QED
    BY <2>4 DEF y
<1>11. IsListed(l, n) <=> k <= Len(l) /\ l[k] = n
  BY <1>10 DEF IsListed, k
<1>12. ASSUME ~IsListed(l, n), NEW i \in k..Len(l) PROVE n < l[i]
  <2>1. k <= Len(l) /\ i \in 1..Len(l) /\ (k = i \/ k < i)
    BY <1>1, <1>5
  <2>2. k \in 1..Len(l) /\ l[k] \in Int /\ l[i] \in Int /\ ~(l[k] < n) /\ l[k] # n
    BY <1>1, <1>9, <1>11, <1>12, <2>1
  <2>3. l[k] = l[i] \/ l[k] < l[i]
    BY <2>1, <2>2 DEF Sorted
  <2>4. QED
    BY <2>2, <2>3
<1>13. /\ k \in 1..(Len(l) + 1)
       /\ \A i \in 1..(k - 1) : l[i] < n
       /\ IsListed(l, n) <=> k <= Len(l) /\ l[k] = n
       /\ ~IsListed(l, n) => \A i \in k..Len(l) : n < l[i]
  BY <1>5, <1>8, <1>11, <1>12
<1>14. QED
  BY <1>13 DEF k

\* The frames of a list into which one was inserted.
LEMMA InsertElements ==
  ASSUME NEW l \in Seq(Nums), NEW k \in 1..(Len(l) + 1), NEW n \in Nums
  PROVE  /\ InsertAt(l, k, n) \in Seq(Nums) /\ Len(InsertAt(l, k, n)) = Len(l) + 1
         /\ \A i \in 1..(Len(l) + 1) :
              InsertAt(l, k, n)[i] = IF i < k THEN l[i] ELSE IF i = k THEN n ELSE l[i - 1]
<1> DEFINE a == SubSeq(l, 1, k - 1)
           b == SubSeq(l, k, Len(l))
           c == a \o <<n>>
<1>1. Len(l) \in Nat /\ k - 1 \in 0..Len(l) /\ (k - 1) + 1 = k
  OBVIOUS
<1>2. /\ a \in Seq(Nums) /\ Len(a) = k - 1 /\ b \in Seq(Nums) /\ Len(b) = Len(l) - (k - 1)
  BY <1>1, Cut
<1>3. /\ \A i \in 1..(k - 1) : a[i] = l[i]
      /\ \A i \in 1..(Len(l) - (k - 1)) : b[i] = l[i + (k - 1)]
  BY <1>1, CutElements
<1>4. InsertAt(l, k, n) = c \o b
  BY DEF InsertAt
<1>5. InsertAt(l, k, n) \in Seq(Nums) /\ Len(InsertAt(l, k, n)) = Len(l) + 1
  BY Inserted
<1> HIDE DEF a, b
<1>6. c \in Seq(Nums) /\ Len(c) = k
  BY <1>1, <1>2
<1>7. \A i \in 1..k : c[i] = IF i < k THEN l[i] ELSE n
  <2>1. ASSUME NEW i \in 1..k PROVE c[i] = IF i < k THEN l[i] ELSE n
    <3>1. CASE i < k
      <4>1. i \in 1..Len(a) /\ i \in 1..(k - 1)
        BY <1>2, <3>1
      <4>2. c[i] = a[i]
        BY <1>2, <4>1
      <4>3. QED
        BY <1>3, <3>1, <4>1, <4>2
    <3>2. CASE ~(i < k)
      <4>1. i = k /\ i = Len(a) + 1
        BY <1>2, <3>2
      <4>2. c[i] = n
        BY <1>2, <4>1
      <4>3. QED
        BY <3>2, <4>2
    <3>3. QED
      BY <3>1, <3>2
  <2>2. QED
    BY <2>1
<1> HIDE DEF c
<1>8. ASSUME NEW i \in 1..(Len(l) + 1)
      PROVE  (c \o b)[i] = IF i < k THEN l[i] ELSE IF i = k THEN n ELSE l[i - 1]
  <2>1. CASE i <= k
    <3>1. i \in 1..k /\ i \in 1..Len(c)
      BY <1>6, <2>1
    <3>2. (c \o b)[i] = c[i]
      BY <1>2, <1>6, <3>1
    <3>3. i < k \/ i = k
      BY <2>1
    <3>4. QED
      BY <1>7, <3>1, <3>2, <3>3
  <2>2. CASE ~(i <= k)
    <3>1. i - k \in 1..Len(b) /\ i - k \in 1..(Len(l) - (k - 1)) /\ (i - k) + (k - 1) = i - 1
      BY <1>1, <1>2, <2>2
    <3>2. (c \o b)[i] = b[i - Len(c)]
      BY <1>1, <1>2, <1>6, <2>2
    <3>3. (c \o b)[i] = l[i - 1]
      BY <1>3, <1>6, <3>1, <3>2
    <3>4. ~(i < k) /\ i # k
      BY <2>2
    <3>5. QED
      BY <3>3, <3>4
  <2>3. QED
    BY <2>1, <2>2
<1>9. QED
  BY <1>4, <1>5, <1>8

\* ba_enqueue_reordering_packet keeps the list as it should be.
LEMMA Enqueued ==
  ASSUME NEW l \in Seq(Nums), NEW n \in Nums, NEW p \in Int, NEW g \in 1..2, NEW m,
         Listed(l, p, g, m), p + g <= n, n <= p + WinSize, n <= m
  PROVE  Listed(IF IsListed(l, n) THEN l ELSE ba_reordering_mpdu_insertsorted(l, n), p, g, m)
<1>1. Len(l) \in Nat /\ n \in Int /\ \A i \in 1..Len(l) : l[i] \in Int
  <2>1. n \in Int
    BY BaReorderAssumption DEF Nums
  <2>2. QED
    BY <2>1, Elements
<1>2. Sorted(l) /\ \A i \in 1..Len(l) : p + g <= l[i] /\ l[i] <= p + WinSize /\ l[i] <= m
  BY DEF Listed
<1>3. \A i \in 1..Len(l) : l[i] - n < Half /\ n - l[i] <= Half
  BY <1>1, <1>2, Sizes
<1> DEFINE k == Place(l, n)
           t == InsertAt(l, k, n)
<1>4. /\ k \in 1..(Len(l) + 1)
      /\ \A i \in 1..(k - 1) : l[i] < n
      /\ ~IsListed(l, n) => \A i \in k..Len(l) : n < l[i]
  BY <1>1, <1>2, <1>3, PlaceIs
<1>5. ba_reordering_mpdu_insertsorted(l, n) = t
  BY DEF ba_reordering_mpdu_insertsorted
<1> HIDE DEF k
<1>6. /\ Len(t) = Len(l) + 1
      /\ \A i \in 1..(Len(l) + 1) : t[i] = IF i < k THEN l[i] ELSE IF i = k THEN n ELSE l[i - 1]
  BY <1>4, InsertElements
<1> HIDE DEF t
<1>7. ASSUME NEW i \in 1..Len(t) PROVE p + g <= t[i] /\ t[i] <= p + WinSize /\ t[i] <= m
  <2>1. i \in 1..(Len(l) + 1)
    BY <1>6
  <2>2. CASE i < k
    <3>1. i \in 1..Len(l) /\ t[i] = l[i]
      BY <1>1, <1>4, <1>6, <2>1, <2>2
    <3>2. QED
      BY <1>2, <3>1
  <2>3. CASE i = k
    <3>1. t[i] = n
      BY <1>4, <1>6, <2>1, <2>3
    <3>2. QED
      BY <3>1
  <2>4. CASE i > k
    <3>1. i - 1 \in 1..Len(l) /\ t[i] = l[i - 1]
      BY <1>1, <1>4, <1>6, <2>1, <2>4
    <3>2. QED
      BY <1>2, <3>1
  <2>5. QED
    BY <1>4, <2>1, <2>2, <2>3, <2>4
<1>8. ASSUME ~IsListed(l, n), NEW i \in 1..Len(t), NEW j \in 1..Len(t), i < j PROVE t[i] < t[j]
  <2>1. i \in 1..(Len(l) + 1) /\ j \in 1..(Len(l) + 1)
    BY <1>6
  <2>2. CASE j < k
    <3>1. i \in 1..Len(l) /\ j \in 1..Len(l) /\ t[i] = l[i] /\ t[j] = l[j]
      BY <1>1, <1>4, <1>6, <1>8, <2>1, <2>2
    <3>2. QED
      BY <1>2, <1>8, <3>1 DEF Sorted
  <2>3. CASE j = k
    <3>1. i \in 1..(k - 1) /\ t[i] = l[i] /\ t[j] = n
      BY <1>1, <1>4, <1>6, <1>8, <2>1, <2>3
    <3>2. QED
      BY <1>4, <3>1
  <2>4. CASE j > k /\ i < k
    <3>1. i \in 1..(k - 1) /\ i \in 1..Len(l) /\ j - 1 \in k..Len(l) /\ j - 1 \in 1..Len(l) /\ t[i] = l[i] /\ t[j] = l[j - 1]
      BY <1>1, <1>4, <1>6, <2>1, <2>4
    <3>2. l[i] < n /\ n < l[j - 1] /\ l[i] \in Int /\ l[j - 1] \in Int
      BY <1>1, <1>4, <1>8, <3>1
    <3>3. QED
      BY <1>1, <3>1, <3>2
  <2>5. CASE i = k
    <3>1. j - 1 \in k..Len(l) /\ t[i] = n /\ t[j] = l[j - 1]
      BY <1>1, <1>4, <1>6, <1>8, <2>1, <2>5
    <3>2. QED
      BY <1>4, <1>8, <3>1
  <2>6. CASE i > k
    <3>1. i - 1 \in 1..Len(l) /\ j - 1 \in 1..Len(l) /\ i - 1 < j - 1 /\ t[i] = l[i - 1] /\ t[j] = l[j - 1]
      BY <1>1, <1>4, <1>6, <1>8, <2>1, <2>6
    <3>2. QED
      BY <1>2, <3>1 DEF Sorted
  <2>7. QED
    BY <1>4, <1>8, <2>1, <2>2, <2>3, <2>4, <2>5, <2>6
<1>9. ~IsListed(l, n) => Listed(t, p, g, m)
  BY <1>7, <1>8 DEF Listed, Sorted
<1>10. QED
  BY <1>5, <1>9

\* A list in the window is no longer than the window.
LEMMA Fits ==
  ASSUME NEW l \in Seq(Nums), NEW p \in Int, NEW m, Listed(l, p, 1, m)
  PROVE  Len(l) <= WinSize
<1>1. Len(l) \in Nat /\ \A i \in 1..Len(l) : l[i] \in Int
  BY Elements
<1>2. Sorted(l) /\ \A i \in 1..Len(l) : p + 1 <= l[i] /\ l[i] <= p + WinSize
  BY DEF Listed
<1> DEFINE D == {i \in 1..Len(l) : l[i] < p + i}
<1>3. D = {}
  <2>1. SUFFICES ASSUME D # {} PROVE FALSE
    OBVIOUS
  <2>2. D \subseteq Nat
    OBVIOUS
  <2>3. PICK i \in D : \A y \in D : i <= y
    BY <2>1, <2>2, LeastNat
  <2>4. i \in 1..Len(l) /\ l[i] < p + i /\ l[i] \in Int
    BY <1>1, <2>3
  <2>5. i # 1
    BY <1>2, <2>4
  <2>6. i - 1 \in 1..Len(l) /\ i - 1 < i /\ ~(i <= i - 1)
    BY <1>1, <2>4, <2>5
  <2>7. l[i - 1] \in Int /\ ~(l[i - 1] < p + (i - 1))
    BY <1>1, <2>3, <2>6
  <2>8. l[i - 1] < l[i]
    BY <1>2, <2>4, <2>6 DEF Sorted
  <2>9. QED
    BY <2>4, <2>7, <2>8
<1>4. CASE Len(l) = 0
  BY <1>4, Sizes
<1>5. CASE Len(l) # 0
  <2>1. Len(l) \in 1..Len(l)
    BY <1>1, <1>5
  <2>2. ~(l[Len(l)] < p + Len(l)) /\ l[Len(l)] <= p + WinSize /\ l[Len(l)] \in Int
    BY <1>1, <1>2, <1>3, <2>1
  <2>3. QED
    BY <1>1, <2>2, Sizes
<1>6. QED
  BY <1>4, <1>5

-----------------------------------------------------------------------------
(***************************************************************************)
(* What goes up.                                                           *)
(***************************************************************************)

\* Frames in order go up in order, if the first is new or may go up again.
LEMMA UpOrdered ==
  ASSUME NEW fs \in Seq(Nums), Sorted(fs), HistTypes, order # "old", Indicate(fs),
         fs # <<>> => \/ last < fs[1]
                      \/ fs[1] = last /\ (last = bar \/ act["rx"].pc = "enqset")
  PROVE  order' # "old" /\ last' = IF fs = <<>> THEN last ELSE fs[Len(fs)]
<1> DEFINE before(i) == IF i = 1 THEN last ELSE fs[i - 1]
           again(i)  == fs[i] = before(i) /\ (fs[i] = bar \/ act["rx"].pc = "enqset")
<1>1. Len(fs) \in Nat /\ DOMAIN fs = 1..Len(fs) /\ \A i \in 1..Len(fs) : fs[i] \in Int
  BY Elements
<1>2. last \in Int
  BY DEF HistTypes
<1>3. ASSUME NEW i \in DOMAIN fs PROVE fs[i] > before(i) \/ again(i)
  <2>1. CASE i = 1
    <3>1. fs # <<>> /\ fs[1] \in Int
      BY <1>1, <2>1
    <3>2. QED
      BY <1>2, <2>1, <3>1
  <2>2. CASE i # 1
    <3>1. i \in 1..Len(fs) /\ i - 1 \in 1..Len(fs) /\ i - 1 < i
      BY <1>1, <2>2
    <3>2. fs[i - 1] < fs[i] /\ fs[i] \in Int /\ fs[i - 1] \in Int
      BY <1>1, <3>1 DEF Sorted
    <3>3. fs[i] > fs[i - 1]
      BY <3>2
    <3>4. QED
      BY <2>2, <3>3
  <2>3. QED
    BY <2>1, <2>2
<1>4. /\ last' = IF fs = <<>> THEN last ELSE fs[Len(fs)]
      /\ order' = IF \A i \in DOMAIN fs : fs[i] > before(i) THEN order
                  ELSE IF order # "old" /\ \A i \in DOMAIN fs :
                            fs[i] > before(i) \/ again(i) THEN "again"
                  ELSE "old"
  BY DEF Indicate
<1> HIDE DEF before, again
<1>5. order' # "old"
  BY <1>3, <1>4
<1>6. QED
  BY <1>4, <1>5

\* The first k frames of a sorted list that is newer than what went up.
LEMMA UpPrefix ==
  ASSUME NEW l \in Seq(Nums), NEW k \in 0..Len(l), Sorted(l), HistTypes, order # "old",
         \A i \in 1..Len(l) : last < l[i],
         Indicate(SubSeq(l, 1, k) \o <<>>) \/ Indicate(SubSeq(l, 1, k))
  PROVE  order' # "old" /\ last' = IF k = 0 THEN last ELSE l[k]
<1> DEFINE h == SubSeq(l, 1, k)
<1>1. h \in Seq(Nums) /\ Len(h) = k /\ Len(l) \in Nat
  BY Cut
<1>2. \A i \in 1..k : h[i] = l[i]
  BY CutElements
<1>3. Sorted(h)
  BY CutSorted
<1> HIDE DEF h
<1>4. h \o <<>> = h
  BY <1>1, ConcatEmptySeq
<1>5. Indicate(h)
  BY <1>4 DEF h
<1>6. (h = <<>> <=> k = 0) /\ (k # 0 => 1 \in 1..k /\ k \in 1..k /\ 1 \in 1..Len(l))
  BY <1>1
<1>7. h # <<>> => last < h[1]
  BY <1>2, <1>6
<1>8. order' # "old" /\ last' = IF h = <<>> THEN last ELSE h[Len(h)]
  BY <1>1, <1>3, <1>5, <1>7, UpOrdered
<1>9. QED
  BY <1>1, <1>2, <1>6, <1>8

\* A frame, then the first k of a list of newer ones.
LEMMA UpFrame ==
  ASSUME NEW l \in Seq(Nums), NEW k \in 0..Len(l), Sorted(l), NEW n \in Nums, HistTypes, order # "old",
         last < n \/ (n = last /\ (last = bar \/ act["rx"].pc = "enqset")),
         \A i \in 1..Len(l) : n < l[i],
         Indicate(<<n>> \o SubSeq(l, 1, k))
  PROVE  order' # "old" /\ last' = IF k = 0 THEN n ELSE l[k]
<1> DEFINE h == SubSeq(l, 1, k)
           fs == <<n>> \o h
<1>1. h \in Seq(Nums) /\ Len(h) = k /\ Len(l) \in Nat
  BY Cut
<1>2. \A i \in 1..k : h[i] = l[i] /\ i \in 1..Len(l)
  BY <1>1, CutElements
<1>3. Sorted(h)
  BY CutSorted
<1> HIDE DEF h
<1>4. <<n>> \in Seq(Nums) /\ Len(<<n>>) = 1 /\ <<n>>[1] = n
  OBVIOUS
<1>5. fs \in Seq(Nums) /\ Len(fs) = k + 1 /\ fs[1] = n /\ \A i \in 2..(k + 1) : fs[i] = h[i - 1]
  <2>1. fs \in Seq(Nums) /\ Len(fs) = 1 + k
    BY <1>1, <1>4, ConcatProperties
  <2>2. \A i \in 1..(1 + k) : fs[i] = IF i <= 1 THEN <<n>>[i] ELSE h[i - 1]
    BY <1>1, <1>4, ConcatProperties
  <2>3. 1 \in 1..(1 + k) /\ 1 + k = k + 1 /\ \A i \in 2..(k + 1) : i \in 1..(1 + k) /\ ~(i <= 1)
    BY <1>1
  <2>4. QED
    BY <1>4, <2>1, <2>2, <2>3
<1>6. Indicate(fs)
  BY DEF fs, h
<1> HIDE DEF fs
<1>7. Sorted(fs)
  <2>1. ASSUME NEW i \in 1..Len(fs), NEW j \in 1..Len(fs), i < j PROVE fs[i] < fs[j]
    <3>1. j \in 2..(k + 1) /\ j - 1 \in 1..k /\ fs[j] = l[j - 1]
      BY <1>1, <1>2, <1>5, <2>1
    <3>2. CASE i = 1
      BY <1>2, <1>5, <3>1, <3>2
    <3>3. CASE i # 1
      <4>1. i \in 2..(k + 1) /\ i - 1 \in 1..k /\ i - 1 < j - 1
        BY <1>1, <1>5, <2>1, <3>3
      <4>2. fs[i] = h[i - 1] /\ fs[j] = h[j - 1]
        BY <1>5, <3>1, <4>1
      <4>3. h[i - 1] < h[j - 1]
        BY <1>1, <1>3, <3>1, <4>1 DEF Sorted
      <4>4. QED
        BY <4>2, <4>3
    <3>4. QED
      BY <3>2, <3>3
  <2>2. QED
    BY <2>1 DEF Sorted
<1>8. fs # <<>>
  BY <1>1, <1>5
<1>9. order' # "old" /\ last' = fs[Len(fs)]
  BY <1>5, <1>6, <1>7, <1>8, UpOrdered
<1>10. fs[Len(fs)] = IF k = 0 THEN n ELSE l[k]
  <2>1. CASE k = 0
    BY <1>5, <2>1
  <2>2. CASE k # 0
    <3>1. k + 1 \in 2..(k + 1) /\ (k + 1) - 1 = k /\ k \in 1..k
      BY <1>1, <2>2
    <3>2. QED
      BY <1>2, <1>5, <2>2, <3>1
  <2>3. QED
    BY <2>1, <2>2
<1>11. QED
  BY <1>9, <1>10

\* The whole of such a list, and a reset.
LEMMA UpAll ==
  ASSUME NEW e \in Entries, EntryTypes, HistTypes, Sorted(list[e]), order # "old",
         \A i \in 1..Len(list[e]) : last < list[e][i], Refresh(e)
  PROVE  order' # "old" /\ last' = -1
<1> DEFINE l == list[e]
           old == \E i \in DOMAIN list[e] : list[e][i] <= (IF i = 1 THEN last ELSE list[e][i - 1])
<1>1. l \in Seq(Nums)
  BY DEF EntryTypes
<1>2. Len(l) \in Nat /\ DOMAIN l = 1..Len(l) /\ \A i \in 1..Len(l) : l[i] \in Int
  BY <1>1, Elements
<1>3. last \in Int
  BY DEF HistTypes
<1>4. ASSUME NEW i \in DOMAIN l PROVE ~(l[i] <= (IF i = 1 THEN last ELSE l[i - 1]))
  <2>1. CASE i = 1
    BY <1>2, <1>3, <2>1
  <2>2. CASE i # 1
    <3>1. i \in 1..Len(l) /\ i - 1 \in 1..Len(l) /\ i - 1 < i
      BY <1>2, <2>2
    <3>2. l[i - 1] < l[i] /\ l[i] \in Int /\ l[i - 1] \in Int
      BY <1>2, <3>1 DEF Sorted
    <3> HIDE DEF l
    <3>3. QED
      BY <2>2, <3>2
  <2>3. QED
    BY <2>1, <2>2
<1>5. ~old
  BY <1>4
<1>6. order' = (IF old THEN "old" ELSE order) /\ last' = -1
  BY DEF Refresh
<1> HIDE DEF old
<1>7. QED
  BY <1>5, <1>6

-----------------------------------------------------------------------------
(***************************************************************************)
(* The parts of a step.                                                    *)
(***************************************************************************)

\* A frame alone goes up.
LEMMA UpOne ==
  ASSUME NEW n \in Nums, HistTypes, order # "old", Indicate(<<n>>),
         last < n \/ (n = last /\ (last = bar \/ act["rx"].pc = "enqset"))
  PROVE  order' # "old" /\ last' = n
<1> DEFINE fs == <<n>>
<1>1. fs \in Seq(Nums) /\ Len(fs) = 1 /\ fs[1] = n /\ fs # <<>>
  OBVIOUS
<1>2. Indicate(fs)
  OBVIOUS
<1> HIDE DEF fs
<1>3. Sorted(fs)
  BY <1>1 DEF Sorted
<1>4. order' # "old" /\ last' = IF fs = <<>> THEN last ELSE fs[Len(fs)]
  BY <1>1, <1>2, <1>3, UpOrdered
<1>5. QED
  BY <1>1, <1>4

\* The peer's numbers and the histories are integers.
LEMMA Ints ==
  ASSUME HistTypes
  PROVE  /\ o \in Nat /\ heard \in Nat /\ o <= LastNum
         /\ last \in Int /\ -1 <= last /\ bar \in Int
BY BaReorderAssumption DEF HistTypes, Nums

\* What a step of the tasklet finds, if it is alone at work.
Found(e) ==
  /\ ~raced /\ act["mlme"].pc = "idle" /\ order # "old" /\ Session
  /\ EntryTypes /\ HistTypes /\ RxWork(act["rx"])
  /\ BARecWcidArray = e /\ e \in Entries
  /\ BAWinSize[e] = WinSize /\ list[e] \in Seq(Nums)

\* Alone, it works on the peer's session.
LEMMA RxFinds ==
  ASSUME OrderInv, Race("rx"), ~raced', ~bypassed, BARecWcidArray # 0
  PROVE  /\ Found(BARecWcidArray)
         /\ Blank \/ \E p \in Frames : Tracks(p)
         /\ act["rx"].pc \notin {"idle", "teardown", "tdclear", "tdfree", "tdcount"} =>
              act["rx"].e = BARecWcidArray
<1>1. ~raced /\ act["mlme"].pc = "idle"
  BY DEF Race, Actors
<1>2. EntryTypes /\ TableTypes /\ HistTypes /\ RxWork(act["rx"]) /\ Ordered
  BY DEF OrderInv, IndInv, ActTypes
<1>3. order # "old" /\ Session /\ (Blank \/ \E p \in Frames : Tracks(p))
  BY <1>1, <1>2 DEF Ordered
<1>4. BARecWcidArray \in Entries
  BY <1>2, BaReorderAssumption DEF TableTypes, Entries
<1>5. BAWinSize[BARecWcidArray] = WinSize /\ list[BARecWcidArray] \in Seq(Nums)
  BY <1>2, <1>3, <1>4 DEF Session, EntryTypes
<1>6. QED
  BY <1>1, <1>2, <1>3, <1>4, <1>5 DEF Found, Session

\* In the middle of a frame there is a session.
LEMMA RxHasSession ==
  ASSUME OrderInv, Race("rx"), ~raced', ~bypassed,
         act["rx"].pc \notin {"idle", "teardown", "tdclear", "tdfree", "tdcount"}
  PROVE  BARecWcidArray # 0 /\ Session
<1>1. ~raced /\ Ordered
  BY DEF Race, OrderInv
<1>2. Session
  BY <1>1 DEF Ordered
<1>3. QED
  BY <1>2 DEF Session

\* The state after a step of the tasklet: it is at r, LastIndSeq is s, the list l.
Leaves(e, r, s, l) ==
  /\ act'["rx"] = r /\ act'["mlme"] = act["mlme"]
  /\ LastIndSeq'[e] = s /\ list'[e] = l
  /\ \A x \in Entries : x # e => list'[x] = list[x]
  /\ UNCHANGED <<BAWinSize, BARecWcidArray>>

\* The session is still the peer's.
LEMMA SessionNext ==
  ASSUME NEW e, NEW r, NEW s, NEW l, Found(e), Leaves(e, r, s, l),
         r.pc \notin {"idle", "teardown", "tdclear", "tdfree", "tdcount"} => r.e = e
  PROVE  Session'
<1>1. /\ BARecWcidArray = e /\ BARecWcidArray' = e /\ e \in Entries
      /\ BAWinSize' = BAWinSize /\ BAWinSize[e] = WinSize /\ Session
      /\ act'["rx"] = r /\ \A x \in Entries : x # e => list'[x] = list[x]
  BY DEF Found, Leaves
<1>2. \A x \in Entries : x # BARecWcidArray' => list'[x] = <<>>
  BY <1>1 DEF Session
<1>3. BARecWcidArray' # 0
  BY <1>1, BaReorderAssumption DEF Entries
<1>4. QED
  BY <1>1, <1>2, <1>3 DEF Session

\* ... and LastIndSeq stands for q.
LEMMA OrderedNext ==
  ASSUME NEW e, NEW r, NEW s, NEW l, Found(e), Leaves(e, r, s, l), HistTypes',
         r.pc \notin {"idle", "teardown", "tdclear", "tdfree", "tdcount"} => r.e = e,
         order' # "old", NEW q \in Int, -1 <= q,
         StandsFor(r, s, l, q, o', heard', last', bar')
  PROVE  Ordered'
<1>1. Session'
  BY SessionNext
<1>2. o' \in Nat /\ o' <= LastNum
  BY BaReorderAssumption DEF HistTypes, Nums
<1>3. q <= o' + WinSize - 1
  BY DEF StandsFor
<1>4. q \in Frames
  BY <1>2, <1>3, BaReorderAssumption DEF Frames
<1>5. BARecWcidArray' = e /\ act'["rx"] = r /\ LastIndSeq'[e] = s /\ list'[e] = l /\ act'["mlme"].pc = "idle"
  BY DEF Found, Leaves
<1>6. Tracks(q)'
  BY <1>5 DEF Tracks
<1>7. QED
  BY <1>1, <1>4, <1>6 DEF Ordered

\* ... or there is none.
LEMMA BlankNext ==
  ASSUME NEW e, NEW r, NEW s, NEW l, Found(e), Leaves(e, r, s, l), order' # "old",
         r.pc \notin {"idle", "teardown", "tdclear", "tdfree", "tdcount"} => r.e = e,
         s = RESET_RCV_SEQ, l = <<>>, last' = -1,
         r.pc \in {"idle", "decide", "teardown", "tdclear", "tdfree", "tdcount"}
  PROVE  Ordered'
<1>1. Session'
  BY SessionNext
<1>2. BARecWcidArray' = e /\ act'["rx"] = r /\ LastIndSeq'[e] = s /\ list'[e] = l
  BY DEF Found, Leaves
<1>3. Blank'
  BY <1>2 DEF Blank
<1>4. QED
  BY <1>1, <1>3 DEF Ordered

\* The peer does nothing, and the tasklet goes on with its frame.
LEMMA AirSame ==
  ASSUME Air, UNCHANGED <<o, heard>>,
         Pending(act'["rx"]) => /\ Pending(act["rx"]) /\ act'["rx"].n = act["rx"].n
                                /\ ~act'["rx"].v
  PROVE  Air'
BY DEF Air

\* There is nothing to say of contexts that were at work at once.
LEMMA OrderedIf ==
  ASSUME ~raced' /\ ~bypassed' => Ordered'
  PROVE  Ordered'
BY DEF Ordered

-----------------------------------------------------------------------------
(***************************************************************************)
(* The tasklet releases what is in order.                                  *)
(***************************************************************************)

\* The frame LastIndSeq stands for after k frames of l went up, and what is
\* written back: nothing when there were none.
RunEnd(l, p, k) == IF k = 0 THEN p ELSE l[k]
RunSeq(l, k) == IF k = 0 THEN RESET_RCV_SEQ ELSE SeqNo(l[k])

\* A run in order ends at a frame that nothing in the list follows directly.
LEMMA RunInOrder ==
  ASSUME NEW l \in Seq(Nums), NEW p \in Int, NEW m \in Int, Listed(l, p, 1, m),
         NEW k, k = InOrderCount(l, SeqNo(p))
  PROVE  /\ k \in 0..Len(l) /\ RunEnd(l, p, k) \in Int /\ p <= RunEnd(l, p, k)
         /\ RunEnd(l, p, k) = p \/ RunEnd(l, p, k) <= m
         /\ Listed(SubSeq(l, k + 1, Len(l)), RunEnd(l, p, k), 2, m)
         /\ \/ RunSeq(l, k) = RESET_RCV_SEQ /\ RunEnd(l, p, k) = p
            \/ RunSeq(l, k) # RESET_RCV_SEQ /\ RunSeq(l, k) = SeqNo(RunEnd(l, p, k))
<1> DEFINE q == RunEnd(l, p, k)
<1>1. k \in 0..Len(l) /\ \A i \in (k + 1)..Len(l) : q + 2 <= l[i]
  BY InOrderCountIs DEF RunEnd
<1>2. Len(l) \in Nat /\ \A i \in 1..Len(l) : l[i] \in Int
  BY Elements
<1>3. \A i \in 1..Len(l) : p + 1 <= l[i] /\ l[i] <= m
  BY DEF Listed
<1>4. k = 0 \/ k \in 1..Len(l)
  BY <1>1, <1>2
<1>5. k \in 1..Len(l) => k # 0 /\ l[k] \in Int /\ p + 1 <= l[k] /\ l[k] <= m
  BY <1>1, <1>2, <1>3
<1>6. q \in Int /\ p <= q /\ (q = p \/ q <= m)
  <2>1. CASE k = 0
    BY <2>1 DEF RunEnd
  <2>2. CASE k \in 1..Len(l)
    BY <1>5, <2>2 DEF RunEnd
  <2>3. QED
    BY <1>4, <2>1, <2>2
<1>7. \/ RunSeq(l, k) = RESET_RCV_SEQ /\ q = p
      \/ RunSeq(l, k) # RESET_RCV_SEQ /\ RunSeq(l, k) = SeqNo(q)
  <2>1. CASE k = 0
    BY <2>1 DEF RunEnd, RunSeq
  <2>2. CASE k \in 1..Len(l)
    <3>1. k # 0 /\ q = l[k] /\ RunSeq(l, k) = SeqNo(l[k]) /\ l[k] \in Int
      BY <1>5, <2>2 DEF RunEnd, RunSeq
    <3>2. SeqNo(l[k]) # RESET_RCV_SEQ
      BY <3>1, SeqNoOf
    <3>3. QED
      BY <3>1, <3>2
  <2>3. QED
    BY <1>4, <2>1, <2>2
<1>8. Listed(SubSeq(l, k + 1, Len(l)), q, 2, m)
  <2> HIDE DEF q
  <2>1. 2 \in Nat
    OBVIOUS
  <2>2. QED
    BY <1>1, <1>6, <2>1, CutListed
<1>9. QED
  BY <1>1, <1>6, <1>7, <1>8

\* The tasklet at "flushset" or "set" has the number of the run's end to write.
LEMMA RunWritten ==
  ASSUME NEW r, r.pc \in {"flushset", "set"}, NEW p, NEW q,
         \/ r.val = RESET_RCV_SEQ /\ q = p
         \/ r.val # RESET_RCV_SEQ /\ r.val = SeqNo(q)
  PROVE  Written(r, SeqNo(p)) = SeqNo(q) /\ Gap(r) = 2
BY DEF Written, Gap, Moved

\* The missing frame is given up and what follows it goes up.
LEMMA FlushOneOrder ==
  ASSUME OrderInv, FlushOne
  PROVE  Air' /\ Ordered'
<1> DEFINE r == act["rx"]
           l == list[r.e]
           k == InOrderCount(l, r.val)
           x == [r EXCEPT !.pc = "flushset", !.val = RunSeq(l, k)]
           t == SubSeq(l, k + 1, Len(l))
<1>1. /\ IndInv /\ IndInv' /\ Air /\ r.pc = "flushone" /\ Race("rx") /\ bypassed' = bypassed
      /\ o' = o /\ heard' = heard /\ bar' = bar /\ act \in [Actors -> Work] /\ RxWork(r)
  BY FlushOneStep DEF OrderInv, FlushOne, peer, IndInv, ActTypes
<1>2. /\ x.pc = "flushset" /\ x.val = RunSeq(l, k) /\ x.n = r.n /\ x.v = r.v /\ x.e = r.e
      /\ act'["rx"] = x /\ act'["mlme"] = act["mlme"]
  BY <1>1 DEF FlushOne, RunSeq, Actors, Work, RxWork
<1>3. Air'
  BY <1>1, <1>2, AirSame DEF Pending, Air
<1>4. ASSUME ~raced', ~bypassed' PROVE Ordered'
  <2>1. BARecWcidArray # 0 /\ r.e = BARecWcidArray /\ Found(r.e) /\ (Blank \/ \E p \in Frames : Tracks(p))
    BY <1>1, <1>4, RxFinds, RxHasSession
  <2>2. PICK p \in Frames : StandsFor(r, LastIndSeq[r.e], l, p, o, heard, last, bar)
    BY <1>1, <2>1 DEF Blank, Tracks
  <2>3. /\ l \in Seq(Nums) /\ EntryTypes /\ HistTypes /\ order # "old" /\ r.e \in Entries
        /\ HistTypes' /\ p \in Int /\ -1 <= p
    BY <1>1, <2>1, BaReorderAssumption DEF Found, IndInv, Frames
  <2>4. o \in Nat /\ heard \in Nat /\ last \in Int
    BY <2>3, Ints
  <2>5. /\ r.val = SeqNo(p) /\ p <= o + WinSize - 1 /\ Listed(l, p, 1, heard) /\ last <= p
        /\ Reached(r, p, heard) /\ AtHand(r, p, heard)
    BY <1>1, <2>2 DEF StandsFor, Written, Gap, Moved, UpTo
  <2> DEFINE q == RunEnd(l, p, k)
             s == RunSeq(l, k)
  <2>6. Leaves(r.e, x, r.val, t)
    <3>1. list' = Put(list, r.e, t) /\ LastIndSeq' = Put(LastIndSeq, r.e, r.val)
      BY DEF FlushOne, Release, Put, SetLastIndSeq
    <3>2. list \in [Entries -> Seq(Nums)] /\ LastIndSeq \in [Entries -> Seqs \union {RESET_RCV_SEQ}]
      BY <2>3 DEF EntryTypes
    <3>3. UNCHANGED <<BAWinSize, BARecWcidArray>>
      BY DEF FlushOne, table
    <3> HIDE DEF x, t
    <3>4. QED
      BY <1>2, <2>3, <3>1, <3>2, <3>3 DEF Leaves, Put
  <2>7. Indicate(SubSeq(l, 1, k) \o <<>>)
    BY DEF FlushOne, Release
  <2>8. k = InOrderCount(l, SeqNo(p))
    BY <2>5
  <2> HIDE DEF l, k, x, t
  <2>9. /\ k \in 0..Len(l) /\ q \in Int /\ p <= q /\ (q = p \/ q <= heard) /\ Listed(t, q, 2, heard)
        /\ (s = RESET_RCV_SEQ /\ q = p) \/ (s # RESET_RCV_SEQ /\ s = SeqNo(q))
    BY <2>3, <2>4, <2>5, <2>8, RunInOrder DEF t
  <2>10. order' # "old" /\ last' = IF k = 0 THEN last ELSE l[k]
    <3>1. Sorted(l) /\ \A i \in 1..Len(l) : p + 1 <= l[i]
      BY <2>5 DEF Listed
    <3>2. \A i \in 1..Len(l) : l[i] \in Int
      BY <2>3, Elements
    <3>3. \A i \in 1..Len(l) : last < l[i]
      BY <2>3, <2>4, <2>5, <3>1, <3>2
    <3>4. QED
      BY <2>3, <2>7, <2>9, <3>1, <3>3, UpPrefix
  <2>11. last' <= q
    BY <2>3, <2>4, <2>5, <2>9, <2>10 DEF RunEnd
  <2> HIDE DEF q, s
  <2>12. Written(x, r.val) = SeqNo(q) /\ Gap(x) = 2
    BY <1>2, <2>5, <2>9, RunWritten DEF s
  <2>13. q <= o + WinSize - 1 /\ (Pending(x) => q <= x.n + WinSize - 1 /\ x.n <= q + 2 * WinSize + MaxGap - 1)
    <3>1. Pending(x) <=> Pending(r)
      BY <1>1, <1>2 DEF Pending
    <3>2. heard <= o + WinSize - 1 /\ (Pending(r) => heard <= r.n + WinSize - 1)
      BY <1>1 DEF Air
    <3>3. Pending(r) => p <= r.n + WinSize - 1 /\ r.n <= p + 2 * WinSize + MaxGap - 1
      BY <2>5 DEF AtHand
    <3>4. r.n \in Nat
      BY <1>1 DEF RxWork, Work
    <3>5. q \in Int /\ p \in Int /\ p <= q /\ (q = p \/ q <= heard) /\ p <= o + WinSize - 1
      BY <2>3, <2>5, <2>9
    <3>6. x.n = r.n /\ WinSize \in Nat /\ MaxGap \in Nat
      BY <1>2, Sizes
    <3>7. q <= o + WinSize - 1
      BY <2>4, <3>2, <3>5, <3>6
    <3>8. Pending(x) => q <= r.n + WinSize - 1 /\ r.n <= q + 2 * WinSize + MaxGap - 1
      BY <2>4, <3>1, <3>2, <3>3, <3>4, <3>5, <3>6
    <3>9. QED
      BY <3>6, <3>7, <3>8
  <2>14. Reached(x, q, heard)
    <3>1. heard <= p + WinSize \/ (~r.v /\ heard <= r.n)
      BY <1>1, <2>5 DEF Reached, Pending
    <3>2. heard <= q + WinSize \/ (~x.v /\ heard <= x.n)
      BY <1>2, <2>3, <2>4, <2>9, <3>1, Sizes
    <3>3. QED
      BY <1>2, <3>2 DEF Reached, Pending
  <2>15. AtHand(x, q, heard) /\ UpTo(x, q, last', bar)
    BY <1>2, <2>11, <2>13 DEF AtHand, UpTo
  <2>16. StandsFor(x, r.val, t, q, o, heard, last', bar)
    BY <1>2, <2>9, <2>12, <2>13, <2>14, <2>15 DEF StandsFor
  <2>17. StandsFor(x, r.val, t, q, o', heard', last', bar')
    BY <1>1, <2>16
  <2>18. -1 <= q
    BY <2>3, <2>9
  <2>19. QED
    BY <1>2, <2>1, <2>3, <2>6, <2>9, <2>10, <2>17, <2>18, OrderedNext
<1>5. QED
  BY <1>3, <1>4, OrderedIf

\* What is in order after the window has moved goes up.
LEMMA WindowInOrderOrder ==
  ASSUME OrderInv, WindowInOrder
  PROVE  Air' /\ Ordered'
<1> DEFINE r == act["rx"]
           l == list[r.e]
           k == InOrderCount(l, LastIndSeq[r.e])
           x == [r EXCEPT !.pc = "set", !.val = RunSeq(l, k)]
           t == SubSeq(l, k + 1, Len(l))
<1>1. /\ IndInv /\ IndInv' /\ Air /\ r.pc = "order" /\ Race("rx") /\ bypassed' = bypassed
      /\ o' = o /\ heard' = heard /\ bar' = bar /\ act \in [Actors -> Work] /\ RxWork(r)
  BY WindowInOrderStep DEF OrderInv, WindowInOrder, peer, IndInv, ActTypes
<1>2. /\ x.pc = "set" /\ x.val = RunSeq(l, k) /\ x.e = r.e
      /\ act'["rx"] = x /\ act'["mlme"] = act["mlme"]
  BY <1>1 DEF WindowInOrder, RunSeq, Actors, Work, RxWork
<1>3. Air'
  BY <1>1, <1>2, AirSame DEF Pending
<1>4. ASSUME ~raced', ~bypassed' PROVE Ordered'
  <2>1. BARecWcidArray # 0 /\ r.e = BARecWcidArray /\ Found(r.e) /\ (Blank \/ \E p \in Frames : Tracks(p))
    BY <1>1, <1>4, RxFinds, RxHasSession
  <2>2. PICK p \in Frames : StandsFor(r, LastIndSeq[r.e], l, p, o, heard, last, bar)
    BY <1>1, <2>1 DEF Blank, Tracks
  <2>3. /\ l \in Seq(Nums) /\ EntryTypes /\ HistTypes /\ order # "old" /\ r.e \in Entries
        /\ HistTypes' /\ p \in Int /\ -1 <= p
    BY <1>1, <2>1, BaReorderAssumption DEF Found, IndInv, Frames
  <2>4. o \in Nat /\ heard \in Nat /\ last \in Int
    BY <2>3, Ints
  <2>5. /\ LastIndSeq[r.e] = SeqNo(p) /\ p <= o + WinSize - 1 /\ Listed(l, p, 1, heard) /\ last <= p
        /\ heard <= p + WinSize
    BY <1>1, <2>2 DEF StandsFor, Written, Gap, Moved, UpTo, Reached, Pending
  <2> DEFINE q == RunEnd(l, p, k)
             s == RunSeq(l, k)
  <2>6. Leaves(r.e, x, SeqNo(p), t)
    <3>1. list' = Put(list, r.e, t) /\ LastIndSeq' = LastIndSeq
      BY DEF WindowInOrder, Release, Put
    <3>2. list \in [Entries -> Seq(Nums)]
      BY <2>3 DEF EntryTypes
    <3>3. UNCHANGED <<BAWinSize, BARecWcidArray>>
      BY DEF WindowInOrder, table
    <3> HIDE DEF x, t
    <3>4. QED
      BY <1>2, <2>3, <2>5, <3>1, <3>2, <3>3 DEF Leaves, Put
  <2>7. Indicate(SubSeq(l, 1, k) \o <<>>)
    BY DEF WindowInOrder, Release
  <2>8. k = InOrderCount(l, SeqNo(p))
    BY <2>5
  <2> HIDE DEF l, k, x, t
  <2>9. /\ k \in 0..Len(l) /\ q \in Int /\ p <= q /\ (q = p \/ q <= heard) /\ Listed(t, q, 2, heard)
        /\ (s = RESET_RCV_SEQ /\ q = p) \/ (s # RESET_RCV_SEQ /\ s = SeqNo(q))
    BY <2>3, <2>4, <2>5, <2>8, RunInOrder DEF t
  <2>10. order' # "old" /\ last' = IF k = 0 THEN last ELSE l[k]
    <3>1. Sorted(l) /\ \A i \in 1..Len(l) : p + 1 <= l[i]
      BY <2>5 DEF Listed
    <3>2. \A i \in 1..Len(l) : l[i] \in Int
      BY <2>3, Elements
    <3>3. \A i \in 1..Len(l) : last < l[i]
      BY <2>3, <2>4, <2>5, <3>1, <3>2
    <3>4. QED
      BY <2>3, <2>7, <2>9, <3>1, <3>3, UpPrefix
  <2>11. last' <= q
    BY <2>3, <2>4, <2>5, <2>9, <2>10 DEF RunEnd
  <2> HIDE DEF q, s
  <2>12. Written(x, SeqNo(p)) = SeqNo(q) /\ Gap(x) = 2
    BY <1>2, <2>5, <2>9, RunWritten DEF s
  <2>13. q <= o + WinSize - 1 /\ heard <= q + WinSize /\ -1 <= q
    <3>1. heard <= o + WinSize - 1
      BY <1>1 DEF Air
    <3>2. p \in Int /\ -1 <= p /\ p <= o + WinSize - 1 /\ heard <= p + WinSize
      BY <2>3, <2>5
    <3>3. q \in Int /\ p <= q /\ (q = p \/ q <= heard)
      BY <2>9
    <3>4. WinSize \in Nat
      BY Sizes
    <3>5. QED
      BY <2>4, <3>1, <3>2, <3>3, <3>4
  <2>14. AtHand(x, q, heard) /\ UpTo(x, q, last', bar) /\ Reached(x, q, heard)
    BY <1>2, <2>11, <2>13 DEF AtHand, UpTo, Reached, Pending
  <2>15. StandsFor(x, SeqNo(p), t, q, o, heard, last', bar)
    BY <1>2, <2>9, <2>12, <2>13, <2>14 DEF StandsFor
  <2>16. StandsFor(x, SeqNo(p), t, q, o', heard', last', bar')
    BY <1>1, <2>15
  <2>17. QED
    BY <1>2, <2>1, <2>3, <2>6, <2>9, <2>10, <2>13, <2>16, OrderedNext
<1>5. QED
  BY <1>3, <1>4, OrderedIf

\* LastIndSeq against the number of the frame at hand.
LEMMA Compared ==
  ASSUME NEW r, r.pc = "decide", NEW e, LastIndSeq[e] # RESET_RCV_SEQ, NEW l, NEW p \in Int, r.n \in Nat,
         StandsFor(r, LastIndSeq[e], l, p, o, heard, last, bar), BAWinSize[e] = WinSize
  PROVE  /\ LastIndSeq[e] = SeqNo(p) /\ p <= r.n + WinSize - 1 /\ r.n <= p + 2 * WinSize + MaxGap - 1
         /\ SEQ_STEPONE(SeqNo(r.n), LastIndSeq[e]) <=> r.n = p + 1
         /\ IsOld(SeqNo(r.n), e) <=> r.n <= p
         /\ InWindow(SeqNo(r.n), e) <=> r.n <= p + WinSize
<1> DEFINE n == r.n
           b == p + (WinSize + 1)
<1>1. LastIndSeq[e] = SeqNo(p)
  BY DEF StandsFor, Written
<1>2. p <= n + WinSize - 1 /\ n <= p + 2 * WinSize + MaxGap - 1 /\ n \in Int
  BY DEF StandsFor, AtHand, Pending
<1>3. (LastIndSeq[e] + BAWinSize[e] + 1) % ModSeq = SeqNo(b)
  <2>1. SeqNo(p) \in Nat /\ WinSize + 1 \in Int /\ WinSize \in Int
    <3>1. SeqNo(p) \in Seqs
      BY SeqNoOf
    <3>2. SeqNo(p) \in Nat
      BY <3>1, ResetType
    <3>3. WinSize \in Int
      BY Sizes
    <3>4. QED
      BY <3>2, <3>3
  <2>2. (SeqNo(p) + (WinSize + 1)) % ModSeq = SeqNo(b)
    BY <2>1, SeqNoOf
  <2>3. LastIndSeq[e] + BAWinSize[e] + 1 = SeqNo(p) + (WinSize + 1)
    BY <1>1, <2>1
  <2>4. QED
    BY <2>2, <2>3
<1>4. b \in Int /\ b = p + WinSize + 1
  BY Sizes
<1> HIDE DEF n, b
<1>5. n - p < Half /\ p - n < Half /\ n - p <= Half /\ p - n <= Half /\ n - p < ModSeq /\ p - n < ModSeq
      /\ n - b < Half /\ b - n <= Half
  BY <1>2, <1>4, Sizes
<1>6. SEQ_STEPONE(SeqNo(n), SeqNo(p)) <=> n = p + 1
  BY <1>2, <1>5, StepOne
<1>7. SEQ_SMALLER(SeqNo(n), SeqNo(p)) <=> n < p
  BY <1>2, <1>5, Smaller
<1>8. SeqNo(n) = SeqNo(p) <=> n = p
  BY <1>2, <1>5, SameNumber
<1>9. SEQ_SMALLER(SeqNo(n), SeqNo(b)) <=> n < b
  BY <1>2, <1>4, <1>5, Smaller
<1>10. IsOld(SeqNo(n), e) <=> n <= p
  BY <1>1, <1>2, <1>7, <1>8 DEF IsOld
<1>11. InWindow(SeqNo(n), e) <=> n <= p + WinSize
  <2>1. n < b <=> n <= p + WinSize
    BY <1>2, <1>4, Sizes
  <2>2. QED
    BY <1>3, <1>9, <2>1 DEF InWindow
<1>12. QED
  BY <1>1, <1>2, <1>6, <1>10, <1>11 DEF n

-----------------------------------------------------------------------------
(***************************************************************************)
(* The five cases of Indicate_AMPDU_Packet, and the reset before them.     *)
(***************************************************************************)

\* What the tasklet knows of the frame n at hand when LastIndSeq stands for p.
Decides(e, n, p) ==
  /\ p \in Int /\ -1 <= p /\ p <= o + WinSize - 1
  /\ LastIndSeq[e] = SeqNo(p) /\ Listed(list[e], p, 2, heard)
  /\ last <= p \/ (last = p + 1 /\ bar = p + 1)
  /\ heard <= p + WinSize \/ heard <= n
  /\ n \in Nums /\ n <= heard /\ heard <= n + WinSize - 1 /\ heard <= o + WinSize - 1
  /\ n <= p + 2 * WinSize + MaxGap - 1
  /\ SEQ_STEPONE(SeqNo(n), LastIndSeq[e]) <=> n = p + 1
  /\ IsOld(SeqNo(n), e) <=> n <= p
  /\ InWindow(SeqNo(n), e) <=> n <= p + WinSize

\* It knows it in every case but the first.
LEMMA DecideFinds ==
  ASSUME OrderInv, Race("rx"), ~raced', ~bypassed, act["rx"].pc = "decide",
         LastIndSeq[act["rx"].e] # RESET_RCV_SEQ
  PROVE  /\ Found(act["rx"].e) /\ ~act["rx"].v
         /\ \E p \in Int : Decides(act["rx"].e, act["rx"].n, p)
<1> DEFINE r == act["rx"]
           e == r.e
           l == list[e]
<1>1. BARecWcidArray # 0 /\ e = BARecWcidArray /\ Found(e) /\ (Blank \/ \E p \in Frames : Tracks(p))
  BY RxFinds, RxHasSession
<1>2. PICK p \in Frames : StandsFor(r, LastIndSeq[e], l, p, o, heard, last, bar)
  BY <1>1 DEF Blank, Tracks
<1>3. p \in Int /\ -1 <= p
  BY BaReorderAssumption DEF Frames
<1>4. r.n \in Nums /\ r.n \in Nat /\ BAWinSize[e] = WinSize
  BY <1>1, NumsInNat DEF Found, RxWork
<1>5. /\ LastIndSeq[e] = SeqNo(p) /\ r.n <= p + 2 * WinSize + MaxGap - 1
      /\ SEQ_STEPONE(SeqNo(r.n), LastIndSeq[e]) <=> r.n = p + 1
      /\ IsOld(SeqNo(r.n), e) <=> r.n <= p
      /\ InWindow(SeqNo(r.n), e) <=> r.n <= p + WinSize
  <2>1. r.pc = "decide" /\ LastIndSeq[e] # RESET_RCV_SEQ
    OBVIOUS
  <2> HIDE DEF r, e, l
  <2>2. QED
    BY <1>2, <1>3, <1>4, <2>1, Compared
<1>6. /\ p <= o + WinSize - 1 /\ Listed(l, p, 2, heard)
      /\ last <= p \/ (last = p + 1 /\ bar = p + 1)
      /\ heard <= p + WinSize \/ heard <= r.n
  BY <1>2 DEF StandsFor, Gap, Moved, UpTo, Reached
<1>7. r.n <= heard /\ heard <= r.n + WinSize - 1 /\ heard <= o + WinSize - 1 /\ ~r.v
  BY DEF OrderInv, Air, Pending
<1>8. Decides(e, r.n, p)
  BY <1>3, <1>4, <1>5, <1>6, <1>7 DEF Decides
<1>9. QED
  BY <1>1, <1>3, <1>7, <1>8

\* A tasklet that is between two frames.
LEMMA IdleStands ==
  ASSUME NEW s, NEW l, NEW p \in Int, NEW w, NEW h, NEW u, NEW b, NEW r, r.pc \in {"idle", "teardown"},
         s = SeqNo(p), p <= w + WinSize - 1, Listed(l, p, 2, h),
         u <= p \/ (u = p + 1 /\ b = p + 1), h <= p + WinSize
  PROVE  StandsFor(r, s, l, p, w, h, u, b)
BY DEF StandsFor, Written, Gap, Moved, UpTo, Reached, AtHand, Pending

\* The first frame after a reset goes up.
LEMMA FirstFrameOrder ==
  ASSUME OrderInv, FirstFrame
  PROVE  Air' /\ Ordered'
<1> DEFINE r == act["rx"]
           e == r.e
           n == r.n
<1>1. /\ IndInv /\ IndInv' /\ Air /\ r.pc = "decide" /\ Race("rx") /\ bypassed' = bypassed
      /\ o' = o /\ heard' = heard /\ bar' = bar /\ act \in [Actors -> Work] /\ RxWork(r)
      /\ LastIndSeq[e] = RESET_RCV_SEQ
  BY FirstFrameStep DEF OrderInv, FirstFrame, peer, IndInv, ActTypes
<1>2. act'["rx"] = Idle /\ act'["mlme"] = act["mlme"] /\ Idle.pc = "idle"
  BY <1>1 DEF FirstFrame, Done, Actors, Idle
<1>3. Air'
  BY <1>1, <1>2, AirSame DEF Pending
<1>4. ASSUME ~raced', ~bypassed' PROVE Ordered'
  <2>1. BARecWcidArray # 0 /\ e = BARecWcidArray /\ Found(e) /\ (Blank \/ \E p \in Frames : Tracks(p))
    BY <1>1, <1>4, RxFinds, RxHasSession
  <2>2. ~(\E p \in Frames : Tracks(p))
    <3>1. SUFFICES ASSUME NEW p \in Frames, Tracks(p) PROVE FALSE
      OBVIOUS
    <3>2. SeqNo(p) = RESET_RCV_SEQ
      BY <1>1, <2>1, <3>1 DEF Tracks, StandsFor, Written
    <3>3. p \in Int
      BY BaReorderAssumption DEF Frames
    <3>4. QED
      BY <3>2, <3>3, SeqNoOf
  <2>3. list[e] = <<>> /\ last = -1
    BY <2>1, <2>2 DEF Blank
  <2>4. EntryTypes /\ HistTypes /\ HistTypes' /\ order # "old" /\ e \in Entries /\ n \in Nums /\ n \in Nat
    BY <1>1, <2>1, NumsInNat DEF Found, IndInv, RxWork
  <2>5. o \in Nat /\ heard \in Nat /\ last < n /\ -1 <= n /\ n \in Int
    BY <2>3, <2>4, Ints
  <2>6. n <= heard /\ heard <= n + WinSize - 1 /\ heard <= o + WinSize - 1
    BY <1>1 DEF Air, Pending
  <2>7. order' # "old" /\ last' = n
    BY <2>4, <2>5, UpOne DEF FirstFrame
  <2>8. Leaves(e, Idle, SeqNo(n), <<>>)
    <3>1. list' = list /\ LastIndSeq' = Put(LastIndSeq, e, SeqNo(n))
      BY DEF FirstFrame, Put, SetLastIndSeq
    <3>2. LastIndSeq \in [Entries -> Seqs \union {RESET_RCV_SEQ}]
      BY <2>4 DEF EntryTypes
    <3>3. UNCHANGED <<BAWinSize, BARecWcidArray>>
      BY DEF FirstFrame, table
    <3>4. QED
      BY <1>2, <2>3, <2>4, <3>1, <3>2, <3>3 DEF Leaves, Put
  <2>9. Listed(<<>>, n, 2, heard)
    BY DEF Listed, Sorted
  <2>10. n <= o + WinSize - 1 /\ heard <= n + WinSize /\ n <= n
    BY <2>5, <2>6, Sizes
  <2> HIDE DEF n, e, r
  <2>11. StandsFor(Idle, SeqNo(n), <<>>, n, o', heard', last', bar')
    BY <1>1, <1>2, <2>5, <2>7, <2>9, <2>10, IdleStands
  <2>12. QED
    BY <1>2, <2>1, <2>4, <2>5, <2>7, <2>8, <2>11, OrderedNext
<1>5. QED
  BY <1>3, <1>4, OrderedIf

\* The frame that is next in line goes up, and what follows it in the list.
LEMMA InOrderOrder ==
  ASSUME OrderInv, InOrder
  PROVE  Air' /\ Ordered'
<1> DEFINE r == act["rx"]
           e == r.e
           n == r.n
           l == list[e]
           k == InOrderCount(l, SeqNo(n))
           x == [r EXCEPT !.pc = "set", !.val = RunSeq(l, k)]
           t == SubSeq(l, k + 1, Len(l))
<1>1. /\ IndInv /\ IndInv' /\ Air /\ r.pc = "decide" /\ Race("rx") /\ bypassed' = bypassed
      /\ o' = o /\ heard' = heard /\ bar' = bar /\ act \in [Actors -> Work] /\ RxWork(r)
      /\ LastIndSeq[e] # RESET_RCV_SEQ
  BY InOrderStep DEF OrderInv, InOrder, peer, IndInv, ActTypes
<1>2. /\ x.pc = "set" /\ x.val = RunSeq(l, k) /\ x.e = e
      /\ act'["rx"] = x /\ act'["mlme"] = act["mlme"]
  BY <1>1 DEF InOrder, RunSeq, Actors, Work, RxWork
<1>3. Air'
  BY <1>1, <1>2, AirSame DEF Pending
<1>4. ASSUME ~raced', ~bypassed' PROVE Ordered'
  <2>1. Found(e) /\ \E p \in Int : Decides(e, n, p)
    BY <1>1, <1>4, DecideFinds
  <2>2. PICK p \in Int : Decides(e, n, p)
    BY <2>1
  <2>3. l \in Seq(Nums) /\ EntryTypes /\ HistTypes /\ order # "old" /\ e \in Entries /\ HistTypes' /\ n \in Nums
    BY <1>1, <2>1, <2>2 DEF Found, IndInv, Decides
  <2>4. o \in Nat /\ heard \in Nat /\ last \in Int /\ n \in Nat
    BY <2>3, Ints, NumsInNat
  <2>5. /\ n = p + 1 /\ -1 <= p /\ n <= heard /\ heard <= o + WinSize - 1
        /\ last <= p \/ (last = p + 1 /\ bar = p + 1)
        /\ heard <= p + WinSize \/ heard <= n
    BY <2>2 DEF Decides, InOrder
  <2>6. Listed(l, n, 1, heard)
    <3>1. Listed(l, p, 2, heard)
      BY <2>2 DEF Decides
    <3>2. Len(l) \in Nat /\ \A i \in 1..Len(l) : l[i] \in Int
      BY <2>3, Elements
    <3>3. \A i \in 1..Len(l) : p + 2 <= l[i] /\ l[i] <= p + WinSize /\ l[i] <= heard
      BY <3>1 DEF Listed
    <3>4. n = p + 1 /\ WinSize \in Nat
      BY <2>5, Sizes
    <3> HIDE DEF l, n
    <3>5. \A i \in 1..Len(l) : n + 1 <= l[i] /\ l[i] <= n + WinSize /\ l[i] <= heard
      BY <3>2, <3>3, <3>4
    <3>6. QED
      BY <3>1, <3>5 DEF Listed
  <2> DEFINE q == RunEnd(l, n, k)
             s == RunSeq(l, k)
  <2>7. Leaves(e, x, SeqNo(n), t)
    <3>1. list' = Put(list, e, t) /\ LastIndSeq' = Put(LastIndSeq, e, SeqNo(n))
      BY DEF InOrder, Put, SetLastIndSeq
    <3>2. list \in [Entries -> Seq(Nums)] /\ LastIndSeq \in [Entries -> Seqs \union {RESET_RCV_SEQ}]
      BY <2>3 DEF EntryTypes
    <3>3. UNCHANGED <<BAWinSize, BARecWcidArray>>
      BY DEF InOrder, table
    <3> HIDE DEF x, t
    <3>4. QED
      BY <1>2, <2>3, <3>1, <3>2, <3>3 DEF Leaves, Put
  <2>8. Indicate(<<n>> \o SubSeq(l, 1, k))
    BY DEF InOrder
  <2>9. k = InOrderCount(l, SeqNo(n))
    OBVIOUS
  <2> HIDE DEF l, k, x, t, n, e, r
  <2>10. /\ k \in 0..Len(l) /\ q \in Int /\ n <= q /\ (q = n \/ q <= heard) /\ Listed(t, q, 2, heard)
         /\ (s = RESET_RCV_SEQ /\ q = n) \/ (s # RESET_RCV_SEQ /\ s = SeqNo(q))
    BY <2>3, <2>4, <2>6, <2>9, RunInOrder DEF t
  <2>11. order' # "old" /\ last' = IF k = 0 THEN n ELSE l[k]
    <3>1. Sorted(l) /\ \A i \in 1..Len(l) : n + 1 <= l[i]
      BY <2>6 DEF Listed
    <3>2. \A i \in 1..Len(l) : l[i] \in Int
      BY <2>3, Elements
    <3>3. \A i \in 1..Len(l) : n < l[i]
      BY <2>4, <3>1, <3>2
    <3>4. last < n \/ (n = last /\ last = bar)
      BY <2>4, <2>5
    <3>5. QED
      BY <2>3, <2>8, <2>10, <3>1, <3>3, <3>4, UpFrame
  <2>12. last' = q
    BY <2>11 DEF RunEnd
  <2> HIDE DEF q, s
  <2>13. Written(x, SeqNo(n)) = SeqNo(q) /\ Gap(x) = 2
    BY <1>2, <2>10, RunWritten DEF s
  <2>14. q <= o + WinSize - 1 /\ heard <= q + WinSize /\ -1 <= q /\ q <= q
    <3>1. q \in Int /\ n <= q /\ (q = n \/ q <= heard)
      BY <2>10
    <3>2. WinSize \in Nat
      BY Sizes
    <3>3. QED
      BY <2>4, <2>5, <3>1, <3>2
  <2>15. AtHand(x, q, heard) /\ UpTo(x, q, last', bar) /\ Reached(x, q, heard)
    BY <1>2, <2>12, <2>14 DEF AtHand, UpTo, Reached, Pending
  <2>16. StandsFor(x, SeqNo(n), t, q, o, heard, last', bar)
    BY <1>2, <2>10, <2>13, <2>14, <2>15 DEF StandsFor
  <2>17. StandsFor(x, SeqNo(n), t, q, o', heard', last', bar')
    BY <1>1, <2>16
  <2>18. QED
    BY <1>2, <2>1, <2>3, <2>7, <2>10, <2>11, <2>14, <2>17, OrderedNext
<1>5. QED
  BY <1>3, <1>4, OrderedIf

\* A frame that went up, or was given up, before is dropped.
LEMMA DropOldOrder ==
  ASSUME OrderInv, DropOld
  PROVE  Air' /\ Ordered'
<1> DEFINE r == act["rx"]
           e == r.e
           n == r.n
<1>1. /\ IndInv /\ IndInv' /\ Air /\ r.pc = "decide" /\ Race("rx") /\ bypassed' = bypassed
      /\ UNCHANGED <<o, heard, bar, last, order>> /\ act \in [Actors -> Work]
      /\ LastIndSeq[e] # RESET_RCV_SEQ /\ IsOld(SeqNo(n), e)
  BY DropOldStep DEF OrderInv, DropOld, peer, up, IndInv, ActTypes
<1>2. act'["rx"] = Idle /\ act'["mlme"] = act["mlme"] /\ Idle.pc = "idle"
  BY <1>1 DEF DropOld, Done, Actors, Idle
<1>3. Air'
  BY <1>1, <1>2, AirSame DEF Pending
<1>4. ASSUME ~raced', ~bypassed' PROVE Ordered'
  <2>1. Found(e) /\ \E p \in Int : Decides(e, n, p)
    BY <1>1, <1>4, DecideFinds
  <2>2. PICK p \in Int : Decides(e, n, p)
    BY <2>1
  <2>3. HistTypes' /\ HistTypes /\ n \in Nums /\ order' # "old"
    BY <1>1, <2>1, <2>2 DEF IndInv, Found, Decides
  <2>4. heard \in Nat /\ n \in Nat
    BY <2>3, Ints, NumsInNat
  <2>5. /\ -1 <= p /\ p <= o + WinSize - 1 /\ LastIndSeq[e] = SeqNo(p) /\ Listed(list[e], p, 2, heard)
        /\ last <= p \/ (last = p + 1 /\ bar = p + 1)
        /\ n <= p /\ heard <= n + WinSize - 1
    BY <1>1, <2>2 DEF Decides
  <2>6. Leaves(e, Idle, LastIndSeq[e], list[e])
    BY <1>2 DEF Leaves, DropOld, entry, table
  <2> HIDE DEF n, e, r
  <2>7. heard <= p + WinSize
    BY <2>4, <2>5, Sizes
  <2>8. StandsFor(Idle, LastIndSeq[e], list[e], p, o, heard, last, bar)
    BY <1>2, <2>5, <2>7, IdleStands
  <2>9. StandsFor(Idle, LastIndSeq[e], list[e], p, o', heard', last', bar')
    BY <1>1, <2>8
  <2>10. QED
    BY <1>2, <2>1, <2>3, <2>5, <2>6, <2>9, OrderedNext
<1>5. QED
  BY <1>3, <1>4, OrderedIf

\* A frame ahead of its turn, in the window, is to be queued.
LEMMA QueueOrder ==
  ASSUME OrderInv, Queue
  PROVE  Air' /\ Ordered'
<1> DEFINE r == act["rx"]
           e == r.e
           n == r.n
           x == [r EXCEPT !.pc = "enqueue"]
<1>1. /\ IndInv /\ IndInv' /\ Air /\ r.pc = "decide" /\ Race("rx") /\ bypassed' = bypassed
      /\ UNCHANGED <<o, heard, bar, last, order>> /\ act \in [Actors -> Work] /\ r \in Work
      /\ LastIndSeq[e] # RESET_RCV_SEQ /\ ~IsOld(SeqNo(n), e) /\ InWindow(SeqNo(n), e)
      /\ ~SEQ_STEPONE(SeqNo(n), LastIndSeq[e])
  BY QueueStep DEF OrderInv, Queue, Ahead, peer, up, IndInv, ActTypes, RxWork
<1>2. /\ act'["rx"] = x /\ act'["mlme"] = act["mlme"]
      /\ x.pc = "enqueue" /\ x.n = n /\ x.e = e /\ x.v = r.v
  BY <1>1 DEF Queue, Go, Actors, Work
<1>3. Air'
  BY <1>1, <1>2, AirSame DEF Pending
<1>4. ASSUME ~raced', ~bypassed' PROVE Ordered'
  <2>1. Found(e) /\ ~r.v /\ \E p \in Int : Decides(e, n, p)
    BY <1>1, <1>4, DecideFinds
  <2>2. PICK p \in Int : Decides(e, n, p)
    BY <2>1
  <2>3. HistTypes' /\ HistTypes /\ n \in Nums /\ order' # "old"
    BY <1>1, <2>1, <2>2 DEF IndInv, Found, Decides
  <2>4. heard \in Nat /\ n \in Nat
    BY <2>3, Ints, NumsInNat
  <2>5. /\ -1 <= p /\ p <= o + WinSize - 1 /\ LastIndSeq[e] = SeqNo(p) /\ Listed(list[e], p, 2, heard)
        /\ last <= p \/ (last = p + 1 /\ bar = p + 1)
        /\ heard <= p + WinSize \/ heard <= n
        /\ n # p + 1 /\ ~(n <= p) /\ n <= p + WinSize /\ n <= heard
    BY <1>1, <2>2 DEF Decides
  <2>6. Leaves(e, x, LastIndSeq[e], list[e])
    BY <1>2 DEF Leaves, Queue, entry, table
  <2> HIDE DEF n, e, r, x
  <2>7. heard <= p + WinSize /\ p + 2 <= n
    BY <2>4, <2>5, Sizes
  <2>8. Gap(x) = 2 /\ ~Moved(x) /\ Written(x, LastIndSeq[e]) = LastIndSeq[e] /\ ~Pending(x)
    BY <1>2, <2>1 DEF Gap, Moved, Written, Pending
  <2>9. AtHand(x, p, heard) /\ UpTo(x, p, last, bar) /\ Reached(x, p, heard)
    BY <1>2, <2>5, <2>7, <2>8 DEF AtHand, UpTo, Reached
  <2>10. StandsFor(x, LastIndSeq[e], list[e], p, o, heard, last, bar)
    BY <1>2, <2>5, <2>8, <2>9 DEF StandsFor
  <2>11. StandsFor(x, LastIndSeq[e], list[e], p, o', heard', last', bar')
    BY <1>1, <2>10
  <2>12. QED
    BY <1>2, <2>1, <2>3, <2>5, <2>6, <2>11, OrderedNext
<1>5. QED
  BY <1>3, <1>4, OrderedIf

\* A frame beyond the window moves it: what falls out goes up.
LEMMA MoveWindowOrder ==
  ASSUME OrderInv, MoveWindow
  PROVE  Air' /\ Ordered'
<1> DEFINE r == act["rx"]
           e == r.e
           n == r.n
           l == list[e]
           s == (n - BAWinSize[e]) % ModSeq
           k == LeCount(l, s)
           x == [r EXCEPT !.pc = "winset", !.val = s]
           t == SubSeq(l, k + 1, Len(l))
<1>1. /\ IndInv /\ IndInv' /\ Air /\ r.pc = "decide" /\ Race("rx") /\ bypassed' = bypassed
      /\ UNCHANGED <<o, heard, bar>> /\ act \in [Actors -> Work] /\ r \in Work
      /\ LastIndSeq[e] # RESET_RCV_SEQ /\ ~InWindow(SeqNo(n), e)
  BY MoveWindowStep DEF OrderInv, MoveWindow, Ahead, peer, IndInv, ActTypes, RxWork
<1>2. /\ act'["rx"] = x /\ act'["mlme"] = act["mlme"]
      /\ x.pc = "winset" /\ x.n = n /\ x.e = e /\ x.val = s
  BY <1>1 DEF MoveWindow, Actors, Work
<1>3. Air'
  BY <1>1, <1>2, AirSame DEF Pending
<1>4. ASSUME ~raced', ~bypassed' PROVE Ordered'
  <2>1. Found(e) /\ \E p \in Int : Decides(e, n, p)
    BY <1>1, <1>4, DecideFinds
  <2>2. PICK p \in Int : Decides(e, n, p)
    BY <2>1
  <2>3. /\ HistTypes' /\ HistTypes /\ EntryTypes /\ n \in Nums /\ order # "old" /\ l \in Seq(Nums)
        /\ e \in Entries /\ BAWinSize[e] = WinSize
    BY <1>1, <2>1, <2>2 DEF IndInv, Found, Decides
  <2>4. o \in Nat /\ heard \in Nat /\ n \in Nat /\ last \in Int
    BY <2>3, Ints, NumsInNat
  <2>5. /\ -1 <= p /\ Listed(l, p, 2, heard)
        /\ last <= p \/ (last = p + 1 /\ bar = p + 1)
        /\ heard <= p + WinSize \/ heard <= n
        /\ ~(n <= p + WinSize) /\ n <= heard /\ heard <= o + WinSize - 1
        /\ n <= p + 2 * WinSize + MaxGap - 1
    BY <1>1, <2>2 DEF Decides
  <2> DEFINE q == n - WinSize
  <2>6. s = SeqNo(q)
    BY <2>3 DEF SeqNo
  <2>7. Leaves(e, x, LastIndSeq[e], t)
    <3>1. list' = Put(list, e, t) /\ LastIndSeq' = LastIndSeq
      BY DEF MoveWindow, Release, Put
    <3>2. list \in [Entries -> Seq(Nums)]
      BY <2>3 DEF EntryTypes
    <3>3. UNCHANGED <<BAWinSize, BARecWcidArray>>
      BY DEF MoveWindow, table
    <3> HIDE DEF x, t
    <3>4. QED
      BY <1>2, <2>3, <3>1, <3>2, <3>3 DEF Leaves, Put
  <2>8. Indicate(SubSeq(l, 1, k) \o <<>>)
    BY DEF MoveWindow, Release
  <2>9. k = LeCount(l, SeqNo(q))
    BY <2>6
  <2> HIDE DEF l, k, x, t, n, e, r, s
  <2>10. q \in Int /\ p + 1 <= q /\ q <= p + WinSize + MaxGap - 1 /\ n = q + WinSize /\ WinSize \in Nat /\ MaxGap \in Nat
    BY <2>4, <2>5, Sizes
  <2> HIDE DEF q
  <2>11. Sorted(l) /\ \A i \in 1..Len(l) : l[i] \in Int /\ p + 2 <= l[i] /\ l[i] <= p + WinSize
    BY <2>3, <2>5, Elements DEF Listed
  <2>12. /\ k \in 0..Len(l) /\ \A i \in 1..k : l[i] <= q
         /\ \A i \in (k + 1)..Len(l) : q + 1 <= l[i]
    <3>1. Half = MaxGap + 2 * WinSize /\ WinSize >= 1
      BY Sizes
    <3>2. \A i \in 1..Len(l) : l[i] - q < Half /\ q - l[i] <= Half
      BY <2>10, <2>11, <3>1
    <3>3. QED
      BY <2>3, <2>9, <2>10, <2>11, <3>2, LeCountIs
  <2>13. Listed(t, q, 1, heard)
    <3>1. p <= q /\ 1 \in Nat
      BY <2>10
    <3>2. QED
      BY <2>3, <2>5, <2>10, <2>12, <3>1, CutListed DEF t
  <2>14. order' # "old" /\ last' = IF k = 0 THEN last ELSE l[k]
    <3>1. \A i \in 1..Len(l) : last < l[i]
      BY <2>4, <2>5, <2>11
    <3>2. QED
      BY <2>3, <2>8, <2>11, <2>12, <3>1, UpPrefix
  <2>15. last' <= q
    <3>1. CASE k = 0
      BY <2>4, <2>5, <2>10, <2>14, <3>1
    <3>2. CASE k # 0
      <4>1. k \in 1..k
        BY <2>12, <3>2
      <4>2. QED
        BY <2>12, <2>14, <3>2, <4>1
    <3>3. QED
      BY <3>1, <3>2
  <2>16. /\ q <= o + WinSize - 1 /\ heard <= q + WinSize /\ -1 <= q
         /\ q + 1 <= n /\ n <= q + WinSize /\ n <= heard
    <3>1. WinSize >= 1
      BY Sizes
    <3>2. QED
      BY <2>4, <2>5, <2>10, <3>1
  <2>17. Gap(x) = 1 /\ Moved(x) /\ Written(x, LastIndSeq[e]) = SeqNo(q) /\ ~Pending(x)
    BY <1>2, <2>6 DEF Gap, Moved, Written, Pending
  <2>18. AtHand(x, q, heard) /\ UpTo(x, q, last', bar) /\ Reached(x, q, heard)
    BY <1>2, <2>15, <2>16, <2>17 DEF AtHand, UpTo, Reached
  <2>19. StandsFor(x, LastIndSeq[e], t, q, o, heard, last', bar)
    BY <1>2, <2>13, <2>16, <2>17, <2>18 DEF StandsFor
  <2>20. StandsFor(x, LastIndSeq[e], t, q, o', heard', last', bar')
    BY <1>1, <2>19
  <2>21. QED
    BY <1>2, <2>1, <2>3, <2>7, <2>10, <2>14, <2>16, <2>20, OrderedNext
<1>5. QED
  BY <1>3, <1>4, OrderedIf

-----------------------------------------------------------------------------
(***************************************************************************)
(* The frame is queued, or goes up for want of a block.                    *)
(***************************************************************************)

\* Beyond the comparison of numbers LastIndSeq stands for a frame.
LEMMA MidFinds ==
  ASSUME OrderInv, Race("rx"), ~raced', ~bypassed,
         act["rx"].pc \notin {"idle", "decide", "teardown", "tdclear", "tdfree", "tdcount"}
  PROVE  /\ Found(act["rx"].e)
         /\ \E p \in Int : /\ -1 <= p
                           /\ StandsFor(act["rx"], LastIndSeq[act["rx"].e], list[act["rx"].e],
                                        p, o, heard, last, bar)
<1> DEFINE e == act["rx"].e
<1>1. e = BARecWcidArray /\ Found(e) /\ (Blank \/ \E p \in Frames : Tracks(p))
  BY RxFinds, RxHasSession
<1>2. PICK p \in Frames : StandsFor(act["rx"], LastIndSeq[e], list[e], p, o, heard, last, bar)
  BY <1>1 DEF Blank, Tracks
<1>3. p \in Int /\ -1 <= p
  BY BaReorderAssumption DEF Frames
<1>4. QED
  BY <1>1, <1>2, <1>3

\* The window's new start is written.
LEMMA WindowSetOrder ==
  ASSUME OrderInv, WindowSet
  PROVE  Air' /\ Ordered'
<1> DEFINE r == act["rx"]
           e == r.e
           x == [r EXCEPT !.pc = "enqueue", !.v = TRUE]
<1>1. /\ IndInv /\ IndInv' /\ Air /\ r.pc = "winset" /\ Race("rx") /\ bypassed' = bypassed
      /\ UNCHANGED <<o, heard, bar, last, order>> /\ act \in [Actors -> Work] /\ r \in Work
  BY WindowSetStep DEF OrderInv, WindowSet, peer, up, IndInv, ActTypes, RxWork
<1>2. /\ act'["rx"] = x /\ act'["mlme"] = act["mlme"]
      /\ x.pc = "enqueue" /\ x.n = r.n /\ x.e = e /\ x.v
  BY <1>1 DEF WindowSet, Actors, Work
<1>3. Air'
  BY <1>1, <1>2, AirSame DEF Pending
<1>4. ASSUME ~raced', ~bypassed' PROVE Ordered'
  <2>1. Found(e) /\ \E p \in Int : -1 <= p /\ StandsFor(r, LastIndSeq[e], list[e], p, o, heard, last, bar)
    BY <1>1, <1>4, MidFinds
  <2>2. PICK p \in Int : -1 <= p /\ StandsFor(r, LastIndSeq[e], list[e], p, o, heard, last, bar)
    BY <2>1
  <2>3. HistTypes' /\ order' # "old" /\ EntryTypes /\ e \in Entries
    BY <1>1, <2>1 DEF IndInv, Found
  <2>4. Leaves(e, x, r.val, list[e])
    <3>1. list' = list /\ LastIndSeq' = Put(LastIndSeq, e, r.val)
      BY DEF WindowSet, Put, SetLastIndSeq
    <3>2. LastIndSeq \in [Entries -> Seqs \union {RESET_RCV_SEQ}]
      BY <2>3 DEF EntryTypes
    <3>3. UNCHANGED <<BAWinSize, BARecWcidArray>>
      BY DEF WindowSet, table
    <3> HIDE DEF x
    <3>4. QED
      BY <1>2, <2>3, <3>1, <3>2, <3>3 DEF Leaves, Put
  <2> HIDE DEF e, r, x
  <2>5. /\ Written(r, LastIndSeq[e]) = r.val /\ Gap(r) = 1 /\ Moved(r) /\ ~Pending(r)
        /\ Written(x, r.val) = r.val /\ Gap(x) = 1 /\ Moved(x) /\ ~Pending(x)
    BY <1>1, <1>2 DEF Written, Gap, Moved, Pending
  <2>6. /\ r.val = SeqNo(p) /\ p <= o + WinSize - 1 /\ Listed(list[e], p, 1, heard) /\ last <= p
        /\ heard <= p + WinSize /\ p + 1 <= r.n /\ r.n <= p + WinSize /\ r.n <= heard
    BY <1>1, <2>2, <2>5 DEF StandsFor, UpTo, Reached, AtHand
  <2>7. UpTo(x, p, last, bar) /\ Reached(x, p, heard) /\ AtHand(x, p, heard)
    BY <1>2, <2>5, <2>6 DEF UpTo, Reached, AtHand
  <2>8. StandsFor(x, r.val, list[e], p, o, heard, last, bar)
    BY <1>2, <2>5, <2>6, <2>7 DEF StandsFor
  <2>9. StandsFor(x, r.val, list[e], p, o', heard', last', bar')
    BY <1>1, <2>8
  <2>10. QED
    BY <1>2, <2>1, <2>2, <2>3, <2>4, <2>9, OrderedNext
<1>5. QED
  BY <1>3, <1>4, OrderedIf

\* Where the tasklet goes after a frame was queued, or went up instead.
Onward(r) == IF r.v THEN [r EXCEPT !.pc = "order"] ELSE Idle

\* It has moved the window before if it has to release what is in order.
LEMMA OnwardIs ==
  ASSUME NEW r \in Work, r.pc \in {"enqueue", "enqset"}
  PROVE  LET x == Onward(r)
         IN /\ x.pc \in {"idle", "order"} /\ (x.pc = "idle" \/ x.e = r.e)
            /\ Gap(x) = Gap(r) /\ (Moved(x) <=> Moved(r)) /\ ~Pending(x)
            /\ \A s : Written(x, s) = s
<1>1. CASE r.v
  BY <1>1 DEF Onward, Work, Gap, Moved, Pending, Written
<1>2. CASE ~r.v
  BY <1>2 DEF Onward, Idle, Gap, Moved, Pending, Written
<1>3. QED
  BY <1>1, <1>2

\* ba_enqueue_reordering_packet finds a block.
LEMMA EnqueueOrder ==
  ASSUME OrderInv, ba_enqueue_reordering_packet
  PROVE  Air' /\ Ordered'
<1> DEFINE r == act["rx"]
           e == r.e
           n == r.n
           l == list[e]
           x == Onward(r)
           t == IF IsListed(l, n) THEN l ELSE ba_reordering_mpdu_insertsorted(l, n)
<1>1. /\ IndInv /\ IndInv' /\ Air /\ r.pc = "enqueue" /\ Race("rx") /\ bypassed' = bypassed
      /\ UNCHANGED <<o, heard, bar, last, order>> /\ act \in [Actors -> Work] /\ r \in Work /\ n \in Nums
  BY EnqueueStep DEF OrderInv, ba_enqueue_reordering_packet, peer, up, IndInv, ActTypes, RxWork
<1>2. act'["rx"] = x /\ act'["mlme"] = act["mlme"]
  BY <1>1 DEF ba_enqueue_reordering_packet, AfterEnqueue, Onward, Go, Done, Actors
<1>3. /\ x.pc \in {"idle", "order"} /\ (x.pc = "idle" \/ x.e = e)
      /\ Gap(x) = Gap(r) /\ (Moved(x) <=> Moved(r)) /\ ~Pending(x)
      /\ \A s : Written(x, s) = s
  BY <1>1, OnwardIs
<1> HIDE DEF x
<1>4. Air'
  BY <1>1, <1>2, <1>3, AirSame
<1>5. ASSUME ~raced', ~bypassed' PROVE Ordered'
  <2>1. Found(e) /\ \E p \in Int : -1 <= p /\ StandsFor(r, LastIndSeq[e], list[e], p, o, heard, last, bar)
    BY <1>1, <1>5, MidFinds
  <2>2. PICK p \in Int : -1 <= p /\ StandsFor(r, LastIndSeq[e], list[e], p, o, heard, last, bar)
    BY <2>1
  <2>3. HistTypes' /\ order' # "old" /\ EntryTypes /\ e \in Entries /\ l \in Seq(Nums)
    BY <1>1, <2>1 DEF IndInv, Found
  <2>4. Leaves(e, x, LastIndSeq[e], t)
    <3>1. list' = Put(list, e, t) /\ LastIndSeq' = LastIndSeq
      BY DEF ba_enqueue_reordering_packet, Put
    <3>2. list \in [Entries -> Seq(Nums)]
      BY <2>3 DEF EntryTypes
    <3>3. UNCHANGED <<BAWinSize, BARecWcidArray>>
      BY DEF ba_enqueue_reordering_packet, table
    <3> HIDE DEF t
    <3>4. QED
      BY <1>2, <2>3, <3>1, <3>2, <3>3 DEF Leaves, Put
  <2> HIDE DEF e, r, n, l
  <2>5. Written(r, LastIndSeq[e]) = LastIndSeq[e] /\ ~Pending(r) /\ Gap(r) \in 1..2
    BY <1>1 DEF Written, Gap, Pending
  <2>6. /\ LastIndSeq[e] = SeqNo(p) /\ p <= o + WinSize - 1 /\ Listed(l, p, Gap(r), heard)
        /\ last <= p \/ (~Moved(r) /\ last = p + 1 /\ bar = p + 1)
        /\ heard <= p + WinSize /\ p + Gap(r) <= n /\ n <= p + WinSize /\ n <= heard
    BY <1>1, <2>2, <2>5 DEF StandsFor, UpTo, Reached, AtHand, n, l
  <2>7. Listed(t, p, Gap(r), heard)
    BY <1>1, <2>3, <2>5, <2>6, Enqueued
  <2> HIDE DEF t
  <2>8. UpTo(x, p, last, bar) /\ Reached(x, p, heard) /\ AtHand(x, p, heard)
    BY <1>3, <2>6 DEF UpTo, Reached, AtHand
  <2>9. Written(x, LastIndSeq[e]) = SeqNo(p) /\ Listed(t, p, Gap(x), heard) /\ x.pc \notin {"tdclear", "tdfree", "tdcount"}
    BY <1>3, <2>6, <2>7
  <2>10. StandsFor(x, LastIndSeq[e], t, p, o, heard, last, bar)
    BY <2>6, <2>8, <2>9 DEF StandsFor
  <2>11. StandsFor(x, LastIndSeq[e], t, p, o', heard', last', bar')
    BY <1>1, <2>10
  <2>12. QED
    BY <1>3, <2>1, <2>2, <2>3, <2>4, <2>11, OrderedNext
<1>6. QED
  BY <1>4, <1>5, OrderedIf

\* There is no block, or the frame is an EAP frame: what precedes it goes up.
LEMMA NoBlockOrder ==
  ASSUME OrderInv, NoBlock
  PROVE  Air' /\ Ordered'
<1> DEFINE r == act["rx"]
           e == r.e
           n == r.n
           l == list[e]
           k == LeCount(l, SeqNo(n))
           x == [r EXCEPT !.pc = "enqset"]
           t == SubSeq(l, k + 1, Len(l))
<1>1. /\ IndInv /\ IndInv' /\ Air /\ r.pc = "enqueue" /\ Race("rx")
      /\ UNCHANGED <<o, heard, bar>> /\ act \in [Actors -> Work] /\ r \in Work /\ n \in Nums
  BY NoBlockStep DEF OrderInv, NoBlock, peer, IndInv, ActTypes, RxWork
<1>2. /\ act'["rx"] = x /\ act'["mlme"] = act["mlme"]
      /\ x.pc = "enqset" /\ x.n = n /\ x.e = e /\ x.v = r.v
  BY <1>1 DEF NoBlock, Go, Actors, Work
<1>3. Air'
  BY <1>1, <1>2, AirSame DEF Pending
<1>4. ASSUME ~raced', ~bypassed' PROVE Ordered'
  <2>1. ~bypassed /\ (r.v \/ ~(k < Len(l)))
    BY <1>4 DEF NoBlock
  <2>2. Found(e) /\ \E p \in Int : -1 <= p /\ StandsFor(r, LastIndSeq[e], list[e], p, o, heard, last, bar)
    BY <1>1, <1>4, <2>1, MidFinds
  <2>3. PICK p \in Int : -1 <= p /\ StandsFor(r, LastIndSeq[e], list[e], p, o, heard, last, bar)
    BY <2>2
  <2>4. HistTypes /\ HistTypes' /\ order # "old" /\ EntryTypes /\ e \in Entries /\ l \in Seq(Nums)
    BY <1>1, <2>2 DEF IndInv, Found
  <2>5. o \in Nat /\ heard \in Nat /\ n \in Nat /\ last \in Int
    BY <1>1, <2>4, Ints, NumsInNat
  <2>6. Leaves(e, x, LastIndSeq[e], t)
    <3>1. list' = Put(list, e, t) /\ LastIndSeq' = LastIndSeq
      BY DEF NoBlock, Put
    <3>2. list \in [Entries -> Seq(Nums)]
      BY <2>4 DEF EntryTypes
    <3>3. UNCHANGED <<BAWinSize, BARecWcidArray>>
      BY DEF NoBlock, table
    <3> HIDE DEF t, x
    <3>4. QED
      BY <1>2, <2>4, <3>1, <3>2, <3>3 DEF Leaves, Put
  <2>7. Indicate(SubSeq(l, 1, k))
    BY DEF NoBlock
  <2>8. k = LeCount(l, SeqNo(n))
    OBVIOUS
  <2> HIDE DEF e, r, n, l, k, t, x
  <2>9. ~Pending(r) /\ Gap(r) = (IF r.v THEN 1 ELSE 2) /\ (Moved(r) <=> r.v = TRUE)
    BY <1>1 DEF Gap, Pending, Moved, Work
  <2>10. /\ p <= o + WinSize - 1 /\ Listed(l, p, Gap(r), heard)
         /\ last <= p \/ (~Moved(r) /\ last = p + 1)
         /\ heard <= p + WinSize /\ p + Gap(r) <= n /\ n <= p + WinSize /\ n <= heard
    BY <1>1, <2>3, <2>9 DEF StandsFor, UpTo, Reached, AtHand, n, l
  <2>11. last < p + Gap(r) /\ p + 1 <= n /\ Gap(r) \in 1..2
    BY <2>5, <2>9, <2>10
  <2>12. Sorted(l) /\ \A i \in 1..Len(l) : l[i] \in Int /\ p + Gap(r) <= l[i] /\ l[i] <= p + WinSize
    BY <2>4, <2>10, Elements DEF Listed
  <2>13. /\ k \in 0..Len(l) /\ \A i \in 1..k : l[i] <= n
         /\ \A i \in (k + 1)..Len(l) : n + 1 <= l[i]
    <3>1. Half = MaxGap + 2 * WinSize /\ WinSize >= 1 /\ MaxGap \in Nat /\ WinSize \in Nat
      BY Sizes
    <3>2. \A i \in 1..Len(l) : l[i] - n < Half /\ n - l[i] <= Half
      BY <2>5, <2>10, <2>11, <2>12, <3>1
    <3>3. n \in Int
      BY <2>5
    <3>4. QED
      BY <2>4, <2>8, <2>12, <3>2, <3>3, LeCountIs
  <2>14. Gap(x) = Gap(r) /\ (Moved(x) <=> Moved(r)) /\ ~Pending(x) /\ Written(x, LastIndSeq[e]) = SeqNo(n)
    BY <1>1, <1>2 DEF Gap, Moved, Pending, Written
  <2>15. Listed(t, n, Gap(x), heard)
    <3>1. p <= n /\ Gap(r) \in Nat /\ n \in Int
      BY <2>5, <2>11
    <3>2. \A i \in (k + 1)..Len(l) : n + Gap(r) <= l[i]
      <4>1. CASE r.v
        BY <2>9, <2>13, <4>1
      <4>2. CASE ~r.v
        <5>1. k \in Nat /\ Len(l) \in Nat /\ ~(k < Len(l))
          BY <2>1, <2>4, <2>13, <4>2, Elements
        <5>2. QED
          BY <5>1
      <4>3. QED
        BY <4>1, <4>2
    <3>3. Listed(t, n, Gap(r), heard)
      BY <2>4, <2>10, <2>13, <3>1, <3>2, CutListed DEF t
    <3>4. QED
      BY <2>14, <3>3
  <2>16. order' # "old" /\ last' = IF k = 0 THEN last ELSE l[k]
    <3>1. \A i \in 1..Len(l) : last < l[i]
      BY <2>5, <2>11, <2>12
    <3>2. QED
      BY <2>4, <2>7, <2>12, <2>13, <3>1, UpPrefix
  <2>17. last' <= n
    <3>1. CASE k = 0
      BY <2>5, <2>10, <2>11, <2>16, <3>1
    <3>2. CASE k # 0
      <4>1. k \in 1..k
        BY <2>13, <3>2
      <4>2. QED
        BY <2>13, <2>16, <3>2, <4>1
    <3>3. QED
      BY <3>1, <3>2
  <2>18. n <= o + WinSize - 1 /\ heard <= n + WinSize /\ -1 <= n /\ n \in Int
    <3>1. heard <= o + WinSize - 1 /\ WinSize \in Nat
      BY <1>1, Sizes DEF Air
    <3>2. QED
      BY <2>5, <2>10, <2>11, <3>1
  <2>19. AtHand(x, n, heard) /\ UpTo(x, n, last', bar) /\ Reached(x, n, heard)
    BY <1>2, <2>14, <2>17, <2>18 DEF AtHand, UpTo, Reached
  <2>20. StandsFor(x, LastIndSeq[e], t, n, o, heard, last', bar)
    BY <1>2, <2>14, <2>15, <2>18, <2>19 DEF StandsFor
  <2>21. StandsFor(x, LastIndSeq[e], t, n, o', heard', last', bar')
    BY <1>1, <2>20
  <2>22. QED
    BY <1>2, <2>2, <2>4, <2>6, <2>16, <2>18, <2>21, OrderedNext
<1>5. QED
  BY <1>3, <1>4, OrderedIf

\* The frame that could not be queued goes up.
LEMMA NoBlockSetOrder ==
  ASSUME OrderInv, NoBlockSet
  PROVE  Air' /\ Ordered'
<1> DEFINE r == act["rx"]
           e == r.e
           n == r.n
           l == list[e]
           x == Onward(r)
<1>1. /\ IndInv /\ IndInv' /\ Air /\ r.pc = "enqset" /\ Race("rx") /\ bypassed' = bypassed
      /\ UNCHANGED <<o, heard, bar>> /\ act \in [Actors -> Work] /\ r \in Work /\ n \in Nums
  BY NoBlockSetStep DEF OrderInv, NoBlockSet, peer, IndInv, ActTypes, RxWork
<1>2. act'["rx"] = x /\ act'["mlme"] = act["mlme"]
  BY <1>1 DEF NoBlockSet, AfterEnqueue, Onward, Go, Done, Actors
<1>3. /\ x.pc \in {"idle", "order"} /\ (x.pc = "idle" \/ x.e = e)
      /\ Gap(x) = Gap(r) /\ ~Pending(x) /\ \A s : Written(x, s) = s
  BY <1>1, OnwardIs
<1> HIDE DEF x
<1>4. Air'
  BY <1>1, <1>2, <1>3, AirSame
<1>5. ASSUME ~raced', ~bypassed' PROVE Ordered'
  <2>1. Found(e) /\ \E p \in Int : -1 <= p /\ StandsFor(r, LastIndSeq[e], list[e], p, o, heard, last, bar)
    BY <1>1, <1>5, MidFinds
  <2>2. PICK p \in Int : -1 <= p /\ StandsFor(r, LastIndSeq[e], list[e], p, o, heard, last, bar)
    BY <2>1
  <2>3. HistTypes /\ HistTypes' /\ order # "old" /\ EntryTypes /\ e \in Entries
    BY <1>1, <2>1 DEF IndInv, Found
  <2>4. last \in Int /\ n \in Int
    <3>1. last \in Int
      BY <2>3, Ints
    <3>2. n \in Nat
      BY <1>1, NumsInNat
    <3>3. QED
      BY <3>1, <3>2
  <2>5. /\ p = n /\ -1 <= n /\ n <= o + WinSize - 1 /\ Listed(l, n, Gap(r), heard)
        /\ last <= n /\ heard <= n + WinSize
    BY <1>1, <2>2 DEF StandsFor, UpTo, Reached, AtHand, Pending
  <2>6. order' # "old" /\ last' = n
    <3>1. last < n \/ (n = last /\ act["rx"].pc = "enqset")
      BY <1>1, <2>4, <2>5
    <3>2. QED
      BY <1>1, <2>3, <3>1, UpOne DEF NoBlockSet
  <2>7. Leaves(e, x, SeqNo(n), l)
    <3>1. list' = list /\ LastIndSeq' = Put(LastIndSeq, e, SeqNo(n))
      BY DEF NoBlockSet, Put, SetLastIndSeq
    <3>2. LastIndSeq \in [Entries -> Seqs \union {RESET_RCV_SEQ}]
      BY <2>3 DEF EntryTypes
    <3>3. UNCHANGED <<BAWinSize, BARecWcidArray>>
      BY DEF NoBlockSet, table
    <3>4. QED
      BY <1>2, <2>3, <3>1, <3>2, <3>3 DEF Leaves, Put
  <2> HIDE DEF e, r, n, l
  <2>8. n <= n
    BY <2>4
  <2>9. UpTo(x, n, last', bar) /\ Reached(x, n, heard) /\ AtHand(x, n, heard)
    BY <1>3, <2>5, <2>6, <2>8 DEF UpTo, Reached, AtHand
  <2>10. Written(x, SeqNo(n)) = SeqNo(n) /\ Listed(l, n, Gap(x), heard) /\ x.pc \notin {"tdclear", "tdfree", "tdcount"}
    BY <1>3, <2>5
  <2>11. StandsFor(x, SeqNo(n), l, n, o, heard, last', bar)
    BY <2>5, <2>9, <2>10 DEF StandsFor
  <2>12. StandsFor(x, SeqNo(n), l, n, o', heard', last', bar')
    BY <1>1, <2>11
  <2>13. QED
    BY <1>3, <2>1, <2>3, <2>4, <2>5, <2>6, <2>7, <2>12, OrderedNext
<1>6. QED
  BY <1>4, <1>5, OrderedIf

-----------------------------------------------------------------------------
(***************************************************************************)
(* LastIndSeq is written back after the unlock.                            *)
(***************************************************************************)

\* Where LastIndSeq becomes what the tasklet meant to write, it stands for the
\* same frame as before.
LEMMA WriteStands ==
  ASSUME NEW r, NEW x, NEW s, NEW l, NEW p, NEW w, NEW h, NEW u, NEW b,
         StandsFor(r, s, l, p, w, h, u, b), r.pc \in {"flushset", "set", "barset"},
         x.pc \in {"idle", "decide", "teardown"},
         Pending(x) <=> Pending(r), Pending(r) => x.n = r.n
  PROVE  StandsFor(x, Written(r, s), l, p, w, h, u, b)
<1>1. Gap(r) = 2 /\ Gap(x) = 2 /\ ~Moved(r) /\ ~Moved(x)
  BY DEF Gap, Moved
<1>2. /\ Written(r, s) = SeqNo(p) /\ p <= w + WinSize - 1 /\ Listed(l, p, 2, h)
      /\ UpTo(r, p, u, b) /\ Reached(r, p, h) /\ AtHand(r, p, h)
  BY <1>1 DEF StandsFor
<1>3. Written(x, Written(r, s)) = Written(r, s)
  BY DEF Written
<1>4. UpTo(x, p, u, b)
  BY <1>1, <1>2 DEF UpTo
<1>5. Reached(x, p, h) /\ AtHand(x, p, h)
  BY <1>2 DEF Reached, AtHand
<1>6. QED
  BY <1>1, <1>2, <1>3, <1>4, <1>5 DEF StandsFor

\* The three steps that write it back.
LEMMA WriteOrder ==
  ASSUME OrderInv, IndInv', Race("rx"), bypassed' = bypassed,
         UNCHANGED <<o, heard, bar, last, order, list, BAWinSize, BARecWcidArray>>,
         NEW x, act' = [act EXCEPT !["rx"] = x],
         act["rx"].pc \in {"flushset", "set", "barset"}, x.pc \in {"idle", "decide", "teardown"},
         x.pc = "decide" => x.e = act["rx"].e /\ ~x.v,
         Pending(x) <=> Pending(act["rx"]), Pending(act["rx"]) => x.n = act["rx"].n,
         LastIndSeq' = Put(LastIndSeq, act["rx"].e, Written(act["rx"], LastIndSeq[act["rx"].e]))
  PROVE  Air' /\ Ordered'
<1> DEFINE r == act["rx"]
           e == r.e
           s == Written(r, LastIndSeq[e])
<1>1. IndInv /\ Air /\ act \in [Actors -> Work] /\ HistTypes'
  BY DEF OrderInv, IndInv, ActTypes
<1>2. act'["rx"] = x /\ act'["mlme"] = act["mlme"]
  BY <1>1 DEF Actors
<1>3. Air'
  BY <1>1, <1>2, AirSame DEF Pending
<1>4. ASSUME ~raced', ~bypassed' PROVE Ordered'
  <2>1. Found(e) /\ \E p \in Int : -1 <= p /\ StandsFor(r, LastIndSeq[e], list[e], p, o, heard, last, bar)
    BY <1>4, MidFinds
  <2>2. PICK p \in Int : -1 <= p /\ StandsFor(r, LastIndSeq[e], list[e], p, o, heard, last, bar)
    BY <2>1
  <2>3. StandsFor(x, s, list[e], p, o, heard, last, bar)
    BY <2>2, WriteStands
  <2>4. StandsFor(x, s, list[e], p, o', heard', last', bar')
    BY <2>3
  <2>5. order' # "old" /\ EntryTypes /\ e \in Entries
    BY <2>1 DEF Found
  <2> HIDE DEF s
  <2>6. Leaves(e, x, s, list[e])
    <3>1. LastIndSeq' = Put(LastIndSeq, e, s)
      BY DEF s
    <3>2. LastIndSeq \in [Entries -> Seqs \union {RESET_RCV_SEQ}]
      BY <2>5 DEF EntryTypes
    <3>3. QED
      BY <1>2, <2>5, <3>1, <3>2 DEF Leaves, Put
  <2>7. x.pc \notin {"idle", "teardown", "tdclear", "tdfree", "tdcount"} => x.e = e
    OBVIOUS
  <2> HIDE DEF e, r
  <2>8. QED
    BY <1>1, <2>1, <2>2, <2>4, <2>5, <2>6, <2>7, OrderedNext
<1>5. QED
  BY <1>3, <1>4, OrderedIf

\* Nothing is written when no frame was released.
LEMMA Unwritten ==
  ASSUME OrderInv, act["rx"].pc \in {"flushset", "set"}, SetUnlessReset(act["rx"])
  PROVE  LastIndSeq' = Put(LastIndSeq, act["rx"].e, Written(act["rx"], LastIndSeq[act["rx"].e]))
<1> DEFINE r == act["rx"]
<1>1. LastIndSeq \in [Entries -> Seqs \union {RESET_RCV_SEQ}] /\ r.e \in Entries
  BY DEF OrderInv, IndInv, EntryTypes, ActTypes, RxWork
<1>2. CASE r.val = RESET_RCV_SEQ
  <2>1. LastIndSeq' = LastIndSeq /\ Written(r, LastIndSeq[r.e]) = LastIndSeq[r.e]
    BY <1>2 DEF SetUnlessReset, Written
  <2>2. Put(LastIndSeq, r.e, LastIndSeq[r.e]) = LastIndSeq
    BY <1>1 DEF Put
  <2>3. QED
    BY <2>1, <2>2
<1>3. CASE r.val # RESET_RCV_SEQ
  <2>1. LastIndSeq' = Put(LastIndSeq, r.e, r.val)
    BY <1>3 DEF SetUnlessReset, SetLastIndSeq, Put
  <2>2. Written(r, LastIndSeq[r.e]) = r.val
    BY <1>3 DEF Written
  <2>3. QED
    BY <2>1, <2>2
<1>4. QED
  BY <1>2, <1>3

\* The time-out has been dealt with.
LEMMA FlushSetOrder ==
  ASSUME OrderInv, FlushSet
  PROVE  Air' /\ Ordered'
<1> DEFINE r == act["rx"]
           x == IF r.v THEN Idle ELSE [r EXCEPT !.pc = "decide", !.val = 0, !.v = FALSE]
<1>1. /\ IndInv' /\ r.pc = "flushset" /\ Race("rx") /\ bypassed' = bypassed
      /\ UNCHANGED <<o, heard, bar, last, order, list, BAWinSize, BARecWcidArray>>
      /\ act \in [Actors -> Work] /\ r \in Work
  BY FlushSetStep DEF OrderInv, FlushSet, peer, up, table, IndInv, ActTypes, RxWork
<1>2. act' = [act EXCEPT !["rx"] = x]
  BY <1>1 DEF FlushSet, Done, Actors, Work
<1>3. IF r.v THEN x.pc = "idle" ELSE x.pc = "decide" /\ x.e = r.e /\ x.n = r.n /\ ~x.v
  BY <1>1 DEF Idle, Work
<1> HIDE DEF x
<1>4. Pending(x) <=> Pending(r)
  BY <1>1, <1>3 DEF Pending
<1>5. Pending(r) => x.n = r.n
  BY <1>1, <1>3 DEF Pending
<1>6. LastIndSeq' = Put(LastIndSeq, r.e, Written(r, LastIndSeq[r.e]))
  BY <1>1, Unwritten DEF FlushSet
<1>7. x.pc \in {"idle", "decide", "teardown"} /\ (x.pc = "decide" => x.e = r.e /\ ~x.v)
  BY <1>3
<1>8. QED
  BY <1>1, <1>2, <1>4, <1>5, <1>6, <1>7, WriteOrder

\* What was in order has gone up.
LEMMA InOrderSetOrder ==
  ASSUME OrderInv, InOrderSet
  PROVE  Air' /\ Ordered'
<1> DEFINE r == act["rx"]
<1>1. /\ IndInv' /\ r.pc = "set" /\ Race("rx") /\ bypassed' = bypassed
      /\ UNCHANGED <<o, heard, bar, last, order, list, BAWinSize, BARecWcidArray>>
  BY InOrderSetStep DEF OrderInv, InOrderSet, peer, up, table
<1>2. act' = [act EXCEPT !["rx"] = Idle] /\ Idle.pc = "idle"
  BY DEF InOrderSet, Done, Idle
<1>3. ~Pending(Idle) /\ ~Pending(r)
  BY <1>1, <1>2 DEF Pending
<1>4. LastIndSeq' = Put(LastIndSeq, r.e, Written(r, LastIndSeq[r.e]))
  BY <1>1, Unwritten DEF InOrderSet
<1>5. QED
  BY <1>1, <1>2, <1>3, <1>4, WriteOrder

\* A BAR's start is written.
LEMMA BarSetOrder ==
  ASSUME OrderInv, BarSet
  PROVE  Air' /\ Ordered'
<1> DEFINE r == act["rx"]
           x == IF r.v THEN [Idle EXCEPT !.pc = "teardown"] ELSE Idle
<1>1. /\ IndInv' /\ r.pc = "barset" /\ Race("rx") /\ bypassed' = bypassed
      /\ UNCHANGED <<o, heard, bar, last, order, list, BAWinSize, BARecWcidArray>>
  BY BarSetStep DEF OrderInv, BarSet, peer, up, table
<1>2. act' = [act EXCEPT !["rx"] = x] /\ x.pc \in {"idle", "teardown"}
  BY DEF BarSet, Done, Idle
<1> HIDE DEF x
<1>3. ~Pending(x) /\ ~Pending(r)
  BY <1>1, <1>2 DEF Pending
<1>4. LastIndSeq' = Put(LastIndSeq, r.e, Written(r, LastIndSeq[r.e]))
  BY <1>1 DEF BarSet, SetLastIndSeq, Put, Written
<1>5. QED
  BY <1>1, <1>2, <1>3, <1>4, WriteOrder

\* An uncompressed BAR finds no session to tear down.
LEMMA TearDownNothingOrder ==
  ASSUME OrderInv, TearDownNothing
  PROVE  Air' /\ Ordered'
<1>1. /\ Air /\ act \in [Actors -> Work] /\ Race("rx") /\ BARecWcidArray' = 0 /\ BARecWcidArray = 0
      /\ UNCHANGED <<o, heard, order, list, bypassed>>
  BY DEF OrderInv, IndInv, ActTypes, TearDownNothing, entry, table, peer, up
<1>2. act'["rx"].pc = "idle"
  BY <1>1 DEF TearDownNothing, Done, Actors, Idle
<1>3. Air'
  BY <1>1, <1>2, AirSame DEF Pending
<1>4. ASSUME ~raced', ~bypassed' PROVE Ordered'
  <2>1. order # "old" /\ Session
    BY <1>1, <1>4 DEF OrderInv, Ordered, Race
  <2>2. Session'
    BY <1>1, <1>2, <2>1 DEF Session
  <2>3. QED
    BY <1>1, <2>1, <2>2 DEF Ordered
<1>5. QED
  BY <1>3, <1>4, OrderedIf

-----------------------------------------------------------------------------
(***************************************************************************)
(* Frames and BARs arrive.                                                 *)
(***************************************************************************)

\* Between two frames, after a reset ...
Clear(e) == LastIndSeq[e] = RESET_RCV_SEQ /\ list[e] = <<>> /\ last = -1

\* ... or with a frame p that LastIndSeq stands for.
Between(e, p) ==
  /\ p \in Int /\ -1 <= p /\ p <= o + WinSize - 1
  /\ LastIndSeq[e] = SeqNo(p) /\ Listed(list[e], p, 2, heard)
  /\ last <= p \/ (last = p + 1 /\ bar = p + 1)
  /\ heard <= p + WinSize

\* It is one or the other.
LEMMA IdleFinds ==
  ASSUME OrderInv, ~raced, ~bypassed, BARecWcidArray # 0, act["mlme"].pc = "idle",
         act["rx"].pc \in {"idle", "teardown"}
  PROVE  /\ Found(BARecWcidArray)
         /\ Clear(BARecWcidArray) \/ \E p \in Int : Between(BARecWcidArray, p)
<1> DEFINE e == BARecWcidArray
           r == act["rx"]
<1>1. EntryTypes /\ TableTypes /\ HistTypes /\ RxWork(r) /\ Ordered
  BY DEF OrderInv, IndInv, ActTypes
<1>2. order # "old" /\ Session /\ (Blank \/ \E p \in Frames : Tracks(p))
  BY <1>1 DEF Ordered
<1>3. e \in Entries
  BY <1>1, BaReorderAssumption DEF TableTypes, Entries
<1>4. BAWinSize[e] = WinSize /\ list[e] \in Seq(Nums)
  BY <1>1, <1>2, <1>3 DEF Session, EntryTypes
<1>5. Found(e)
  BY <1>1, <1>2, <1>3, <1>4 DEF Found
<1>6. CASE Blank
  BY <1>5, <1>6 DEF Blank, Clear
<1>7. CASE \E p \in Frames : Tracks(p)
  <2>1. PICK p \in Frames : StandsFor(r, LastIndSeq[e], list[e], p, o, heard, last, bar)
    BY <1>7 DEF Tracks
  <2>2. p \in Int /\ -1 <= p
    BY BaReorderAssumption DEF Frames
  <2>3. Written(r, LastIndSeq[e]) = LastIndSeq[e] /\ Gap(r) = 2 /\ ~Pending(r)
    BY DEF Written, Gap, Moved, Pending
  <2>4. /\ p <= o + WinSize - 1 /\ LastIndSeq[e] = SeqNo(p) /\ Listed(list[e], p, 2, heard)
        /\ last <= p \/ (last = p + 1 /\ bar = p + 1)
        /\ heard <= p + WinSize
    BY <2>1, <2>3 DEF StandsFor, UpTo, Reached
  <2>5. Between(e, p)
    BY <2>2, <2>4 DEF Between
  <2>6. QED
    BY <1>5, <2>2, <2>5
<1>8. QED
  BY <1>2, <1>6, <1>7

\* The list is newer than what went up.
LEMMA BetweenNewer ==
  ASSUME NEW e, NEW p, Found(e), Between(e, p)
  PROVE  /\ Sorted(list[e])
         /\ \A i \in 1..Len(list[e]) :
              /\ list[e][i] \in Int /\ last < list[e][i]
              /\ p + 2 <= list[e][i] /\ list[e][i] <= p + WinSize /\ list[e][i] <= heard
<1> DEFINE l == list[e]
<1>1. l \in Seq(Nums) /\ last \in Int
  BY Ints DEF Found
<1>2. /\ p \in Int /\ (last <= p \/ last = p + 1) /\ Sorted(l)
      /\ \A i \in 1..Len(l) : p + 2 <= l[i] /\ l[i] <= p + WinSize /\ l[i] <= heard
  BY DEF Between, Listed
<1>3. \A i \in 1..Len(l) : l[i] \in Int
  BY <1>1, Elements
<1> HIDE DEF l
<1>4. \A i \in 1..Len(l) : last < l[i]
  BY <1>1, <1>2, <1>3
<1>5. QED
  BY <1>2, <1>3, <1>4 DEF l

\* The whole list goes up in order.
LEMMA RefreshOrder ==
  ASSUME NEW e, Found(e), Clear(e) \/ \E p \in Int : Between(e, p), Refresh(e)
  PROVE  /\ order' # "old" /\ last' = -1
         /\ LastIndSeq'[e] = RESET_RCV_SEQ /\ list'[e] = <<>>
         /\ \A x \in Entries : x # e => list'[x] = list[x]
<1>1. e \in Entries /\ EntryTypes /\ HistTypes /\ order # "old"
  BY DEF Found
<1>2. Sorted(list[e]) /\ \A i \in 1..Len(list[e]) : last < list[e][i]
  <2>1. CASE Clear(e)
    BY <2>1 DEF Clear, Sorted
  <2>2. CASE \E p \in Int : Between(e, p)
    BY <2>2, BetweenNewer
  <2>3. QED
    BY <2>1, <2>2
<1>3. order' # "old" /\ last' = -1
  BY <1>1, <1>2, UpAll
<1>4. list \in [Entries -> Seq(Nums)] /\ LastIndSeq \in [Entries -> Seqs \union {RESET_RCV_SEQ}]
  BY <1>1 DEF EntryTypes
<1>5. list' = Put(list, e, <<>>) /\ LastIndSeq' = Put(LastIndSeq, e, RESET_RCV_SEQ)
  BY DEF Refresh, Put
<1>6. QED
  BY <1>1, <1>3, <1>4, <1>5 DEF Put

\* A time-out gives one missing frame up: a frame is listed beyond it.
LEMMA GiveUp ==
  ASSUME NEW e, NEW p, Found(e), Between(e, p), HistTypes', Len(list[e]) > 0, Air,
         NEW n \in Nat, NEW v \in BOOLEAN, NEW x,
         x = [pc |-> "flushone", e |-> e, n |-> n, val |-> (LastIndSeq[e] + 1) % ModSeq, v |-> v],
         act'["rx"] = x, act'["mlme"] = act["mlme"],
         Release(e, LeCount(list[e], x.val), <<>>),
         UNCHANGED <<LastIndSeq, BAWinSize, BARecWcidArray, o, bar>>,
         v \/ (o <= n /\ n <= o + WinSize - 1),
         heard' = heard \/ (~v /\ heard' = n), heard <= heard'
  PROVE  Ordered'
<1> DEFINE l == list[e]
           q == p + 1
           k == LeCount(l, x.val)
           t == SubSeq(l, k + 1, Len(l))
           h == heard'
<1>1. /\ l \in Seq(Nums) /\ EntryTypes /\ HistTypes /\ order # "old" /\ e \in Entries
      /\ p \in Int /\ q \in Int
  BY DEF Found, Between
<1>2. o \in Nat /\ heard \in Nat /\ last \in Int /\ h \in Nat
  BY <1>1, Ints, NumsInNat DEF HistTypes
<1>3. /\ Sorted(l)
      /\ \A i \in 1..Len(l) : /\ l[i] \in Int /\ last < l[i]
                              /\ p + 2 <= l[i] /\ l[i] <= p + WinSize /\ l[i] <= heard
  BY BetweenNewer
<1>4. x.pc = "flushone" /\ x.e = e /\ x.n = n /\ x.v = v /\ x.val = SeqNo(q)
  <2>1. (SeqNo(p) + 1) % ModSeq = SeqNo(p + 1)
    BY <1>1, SeqNoOf
  <2>2. QED
    BY <2>1 DEF Between
<1>5. /\ -1 <= p /\ p <= o + WinSize - 1 /\ Listed(l, p, 2, heard)
      /\ (last <= p \/ last = p + 1) /\ heard <= p + WinSize
  BY DEF Between
<1>6. o <= heard + MaxGap /\ heard <= o + WinSize - 1
  BY DEF Air
<1>7. WinSize \in Nat /\ MaxGap \in Nat /\ WinSize >= 1 /\ Half = MaxGap + 2 * WinSize
  BY Sizes
<1>8. Leaves(e, x, LastIndSeq[e], t)
  <2>1. list' = Put(list, e, t)
    BY DEF Release, Put
  <2>2. list \in [Entries -> Seq(Nums)]
    BY <1>1 DEF EntryTypes
  <2> HIDE DEF t
  <2>3. QED
    BY <1>1, <2>1, <2>2 DEF Leaves, Put
<1>9. Indicate(SubSeq(l, 1, k) \o <<>>)
  BY DEF Release
<1>10. k = LeCount(l, SeqNo(q))
  BY <1>4
<1>11. 1 \in 1..Len(l)
  BY <1>1, Elements
<1>12. h = heard \/ (~v /\ h = n)
  OBVIOUS
<1> HIDE DEF l, q, k, t, h
<1>13. /\ k \in 0..Len(l) /\ \A i \in 1..k : l[i] <= q
       /\ \A i \in (k + 1)..Len(l) : q + 1 <= l[i]
  <2>1. \A i \in 1..Len(l) : l[i] - q < Half /\ q - l[i] <= Half
    BY <1>1, <1>3, <1>7 DEF q
  <2>2. QED
    BY <1>1, <1>3, <1>10, <2>1, LeCountIs
<1>14. Listed(t, q, 1, h)
  <2>1. \A i \in 1..Len(l) : l[i] <= h
    <3>1. heard <= h
      BY DEF h
    <3>2. QED
      BY <1>2, <1>3, <3>1
  <2>2. Listed(l, p, 2, h)
    BY <1>5, <2>1 DEF Listed
  <2>3. p <= q /\ 1 \in Nat
    BY <1>1 DEF q
  <2>4. QED
    BY <1>1, <1>13, <2>2, <2>3, CutListed DEF t
<1>15. order' # "old" /\ last' = IF k = 0 THEN last ELSE l[k]
  <2>1. \A i \in 1..Len(l) : last < l[i]
    BY <1>3
  <2>2. QED
    BY <1>1, <1>3, <1>9, <1>13, <2>1, UpPrefix
<1>16. last' <= q
  <2>1. CASE k = 0
    BY <1>1, <1>2, <1>5, <1>15, <2>1 DEF q
  <2>2. CASE k # 0
    <3>1. k \in 1..k
      BY <1>13, <2>2
    <3>2. QED
      BY <1>13, <1>15, <2>2, <3>1
  <2>3. QED
    BY <2>1, <2>2
<1>17. q <= o + WinSize - 1 /\ -1 <= q
  <2>1. l[1] \in Int /\ p + 2 <= l[1] /\ l[1] <= heard
    BY <1>3, <1>11
  <2>2. QED
    BY <1>1, <1>2, <1>5, <1>6, <1>7, <2>1 DEF q
<1>18. h <= q + WinSize \/ (~v /\ h <= n)
  BY <1>1, <1>2, <1>5, <1>7, <1>12 DEF q
<1>19. ~v => q <= n + WinSize - 1 /\ n <= q + 2 * WinSize + MaxGap - 1
  <2>1. SUFFICES ASSUME ~v PROVE q <= n + WinSize - 1 /\ n <= q + 2 * WinSize + MaxGap - 1
    OBVIOUS
  <2>2. o <= n /\ n <= o + WinSize - 1
    BY <2>1
  <2>3. q <= n + WinSize - 1
    BY <1>1, <1>2, <1>7, <1>17, <2>2
  <2>4. n <= q + 2 * WinSize + MaxGap - 1
    BY <1>1, <1>2, <1>5, <1>6, <1>7, <2>2 DEF q
  <2>5. QED
    BY <2>3, <2>4
<1>20. Gap(x) = 1 /\ Written(x, LastIndSeq[e]) = SeqNo(q) /\ (Pending(x) <=> ~v)
  BY <1>4 DEF Gap, Moved, Written, Pending
<1>21. AtHand(x, q, h) /\ UpTo(x, q, last', bar) /\ Reached(x, q, h)
  BY <1>4, <1>16, <1>18, <1>19, <1>20 DEF AtHand, UpTo, Reached
<1>22. StandsFor(x, LastIndSeq[e], t, q, o, h, last', bar)
  BY <1>4, <1>14, <1>17, <1>20, <1>21 DEF StandsFor
<1>23. StandsFor(x, LastIndSeq[e], t, q, o', heard', last', bar')
  BY <1>22 DEF h
<1>24. QED
  BY <1>1, <1>4, <1>8, <1>15, <1>17, <1>23, OrderedNext

\* A frame in time is compared as it is.
LEMMA InTime ==
  ASSUME NEW e, Found(e), Clear(e) \/ \E p \in Int : Between(e, p), HistTypes', Air,
         NEW n \in Nat, NEW next \in {"decide", "idle"}, NEW x,
         x.pc = next, x.e = e, x.n = n,
         act'["rx"] = x, act'["mlme"] = act["mlme"],
         UNCHANGED <<LastIndSeq, list, last, order, BAWinSize, BARecWcidArray, o, bar>>,
         next = "decide" => o <= n /\ n <= o + WinSize - 1,
         heard' = heard \/ (next = "decide" /\ heard' = n), heard <= heard'
  PROVE  Ordered'
<1> DEFINE l == list[e]
           h == heard'
<1>1. Leaves(e, x, LastIndSeq[e], l)
  BY DEF Leaves
<1>2. l \in Seq(Nums) /\ HistTypes /\ order' # "old"
  BY DEF Found
<1>3. CASE Clear(e)
  <2>1. LastIndSeq[e] = RESET_RCV_SEQ /\ l = <<>> /\ last' = -1
    BY <1>3 DEF Clear
  <2>2. QED
    BY <1>1, <1>2, <2>1, BlankNext
<1>4. CASE \E p \in Int : Between(e, p)
  <2>1. PICK p \in Int : Between(e, p)
    BY <1>4
  <2>2. /\ -1 <= p /\ p <= o + WinSize - 1 /\ Listed(l, p, 2, heard) /\ LastIndSeq[e] = SeqNo(p)
        /\ last <= p \/ (last = p + 1 /\ bar = p + 1)
        /\ heard <= p + WinSize
    BY <2>1 DEF Between
  <2>3. o \in Nat /\ heard \in Nat /\ h \in Nat
    BY <1>2, Ints, NumsInNat DEF HistTypes
  <2>4. o <= heard + MaxGap /\ WinSize \in Nat /\ MaxGap \in Nat
    BY Sizes DEF Air
  <2>5. h = heard \/ (next = "decide" /\ h = n)
    OBVIOUS
  <2>6. Listed(l, p, 2, h)
    <3>1. heard <= h
      OBVIOUS
    <3>2. \A i \in 1..Len(l) : l[i] \in Int /\ l[i] <= heard
      BY <1>2, <2>2, Elements DEF Listed
    <3> HIDE DEF l, h
    <3>3. \A i \in 1..Len(l) : l[i] <= h
      BY <2>3, <3>1, <3>2
    <3>4. QED
      BY <2>2, <3>3 DEF Listed
  <2> HIDE DEF l, h
  <2>7. Gap(x) = 2 /\ Written(x, LastIndSeq[e]) = SeqNo(p) /\ (Pending(x) <=> next = "decide") /\ ~Moved(x)
    BY <2>2 DEF Gap, Moved, Written, Pending
  <2>8. next = "decide" => p <= n + WinSize - 1 /\ n <= p + 2 * WinSize + MaxGap - 1
    <3>1. SUFFICES ASSUME next = "decide" PROVE p <= n + WinSize - 1 /\ n <= p + 2 * WinSize + MaxGap - 1
      OBVIOUS
    <3>2. o <= n /\ n <= o + WinSize - 1
      BY <3>1
    <3>3. QED
      BY <2>2, <2>3, <2>4, <3>2
  <2>9. h <= p + WinSize \/ (next = "decide" /\ h <= n)
    BY <2>2, <2>3, <2>5
  <2>10. AtHand(x, p, h) /\ UpTo(x, p, last, bar) /\ Reached(x, p, h)
    BY <2>2, <2>7, <2>8, <2>9 DEF AtHand, UpTo, Reached
  <2>11. StandsFor(x, LastIndSeq[e], l, p, o, h, last, bar)
    BY <2>2, <2>6, <2>7, <2>10 DEF StandsFor
  <2>12. StandsFor(x, LastIndSeq[e], l, p, o', heard', last', bar')
    BY <2>11 DEF h
  <2>13. QED
    BY <1>1, <1>2, <2>2, <2>12, OrderedNext
<1>5. QED
  BY <1>3, <1>4

\* ba_flush_reordering_timeout_mpdus up to its first unlock.
LEMMA FlushOrder ==
  ASSUME OrderInv, IndInv', NEW n \in Nat, NEW t, NEW next \in {"decide", "idle"},
         act["rx"].pc = "idle", Race("rx"), BARecWcidArray # 0,
         Flush(BARecWcidArray, n, t, next), UNCHANGED <<o, bar>>,
         next = "decide" => o <= n /\ n <= o + WinSize - 1,
         heard' = heard \/ (next = "decide" /\ heard' = n), heard <= heard'
  PROVE  Ordered'
<1> DEFINE e == BARecWcidArray
           s == (LastIndSeq[e] + 1) % ModSeq
           x == [Idle EXCEPT !.pc = next, !.e = e, !.n = n]
           y == [pc |-> "flushone", e |-> e, n |-> n, val |-> s, v |-> next = "idle"]
<1>1. SUFFICES ASSUME ~raced', ~bypassed' PROVE Ordered'
  BY OrderedIf
<1>2. ~raced /\ act["mlme"].pc = "idle" /\ bypassed' = bypassed /\ UNCHANGED <<BAWinSize, BARecWcidArray>>
  BY <1>1 DEF Race, Actors, Flush, entry, table
<1>3. Found(e) /\ (Clear(e) \/ \E p \in Int : Between(e, p))
  BY <1>1, <1>2, IdleFinds
<1>4. HistTypes' /\ Air /\ act \in [Actors -> Work]
  BY DEF OrderInv, IndInv, ActTypes
<1>5. x.pc = next /\ x.e = e /\ x.n = n
  BY DEF Idle
<1> HIDE DEF x
<1>6. CASE Refresh(e) /\ act' = [act EXCEPT !["rx"] = x]
  <2>1. act'["rx"] = x /\ act'["mlme"] = act["mlme"]
    BY <1>4, <1>6 DEF Actors
  <2>2. /\ order' # "old" /\ last' = -1
        /\ LastIndSeq'[e] = RESET_RCV_SEQ /\ list'[e] = <<>>
        /\ \A z \in Entries : z # e => list'[z] = list[z]
    BY <1>3, <1>6, RefreshOrder
  <2>3. Leaves(e, x, RESET_RCV_SEQ, <<>>)
    BY <1>2, <2>1, <2>2 DEF Leaves
  <2> HIDE DEF e
  <2>4. QED
    BY <1>3, <1>5, <2>2, <2>3, BlankNext
<1>7. CASE /\ Len(list[e]) > 0 /\ Release(e, LeCount(list[e], s), <<>>)
           /\ act' = [act EXCEPT !["rx"] = y] /\ UNCHANGED LastIndSeq
  <2>1. act'["rx"] = y /\ act'["mlme"] = act["mlme"]
    BY <1>4, <1>7 DEF Actors
  <2>2. ~Clear(e)
    BY <1>7 DEF Clear
  <2>3. PICK p \in Int : Between(e, p)
    BY <1>3, <2>2
  <2> DEFINE v == next = "idle"
  <2>4. y = [pc |-> "flushone", e |-> e, n |-> n, val |-> (LastIndSeq[e] + 1) % ModSeq, v |-> v] /\ y.val = s
    OBVIOUS
  <2>5. v \in BOOLEAN /\ (v \/ (o <= n /\ n <= o + WinSize - 1)) /\ (heard' = heard \/ (~v /\ heard' = n))
    OBVIOUS
  <2> HIDE DEF e, y, s, v
  <2>6. Len(list[e]) > 0 /\ Release(e, LeCount(list[e], y.val), <<>>) /\ UNCHANGED LastIndSeq
    BY <1>7, <2>4
  <2>7. QED
    BY <1>2, <1>3, <1>4, <2>1, <2>3, <2>4, <2>5, <2>6, GiveUp
<1>8. CASE act' = [act EXCEPT !["rx"] = x] /\ UNCHANGED <<LastIndSeq, list, last, order>>
  <2>1. act'["rx"] = x /\ act'["mlme"] = act["mlme"]
    BY <1>4, <1>8 DEF Actors
  <2> HIDE DEF e
  <2>2. QED
    BY <1>2, <1>3, <1>4, <1>5, <1>8, <2>1, InTime
<1>9. QED
  BY <1>6, <1>7, <1>8 DEF Flush, entry, up, x

\* A data frame arrives.
LEMMA AmpduOrder ==
  ASSUME OrderInv, NEW n \in Nums, NEW t, Indicate_AMPDU_Packet(n, t)
  PROVE  Air' /\ Ordered'
<1>1. /\ IndInv /\ IndInv' /\ Air /\ HistTypes /\ act \in [Actors -> Work]
  BY AmpduStep DEF OrderInv, IndInv, ActTypes
<1>2. /\ act["rx"].pc = "idle" /\ n \in o..(o + WinSize - 1) /\ Race("rx")
      /\ heard' = IF n > heard THEN n ELSE heard
      /\ UNCHANGED <<o, bar>>
  BY DEF Indicate_AMPDU_Packet, Receive
<1>3. o \in Nat /\ heard \in Nat /\ n \in Nat /\ WinSize \in Nat /\ MaxGap \in Nat
  BY <1>1, Ints, NumsInNat, Sizes
<1>4. o <= n /\ n <= o + WinSize - 1
  BY <1>2, <1>3
<1>5. (heard' = heard \/ heard' = n) /\ heard <= heard' /\ n <= heard'
  BY <1>2, <1>3
<1>6. o <= heard + MaxGap /\ heard <= o + WinSize - 1
  BY <1>1 DEF Air
<1>7. o <= heard' + MaxGap /\ heard' <= o + WinSize - 1 /\ heard' <= n + WinSize - 1
  BY <1>3, <1>4, <1>5, <1>6
<1>8. Pending(act'["rx"]) => act'["rx"].n = n /\ ~act'["rx"].v
  <2>1. CASE Flush(BARecWcidArray, n, t, "decide")
    <3> DEFINE e == BARecWcidArray
               s == (LastIndSeq[e] + 1) % ModSeq
               x == [Idle EXCEPT !.pc = "decide", !.e = e, !.n = n]
               y == [pc |-> "flushone", e |-> e, n |-> n, val |-> s, v |-> "decide" = "idle"]
    <3>1. act' = [act EXCEPT !["rx"] = x] \/ act' = [act EXCEPT !["rx"] = y]
      BY <2>1 DEF Flush
    <3>2. x.n = n /\ ~x.v /\ y.n = n /\ ~y.v
      BY DEF Idle
    <3> HIDE DEF x, y
    <3>3. act'["rx"] = x \/ act'["rx"] = y
      BY <1>1, <3>1 DEF Actors
    <3>4. QED
      BY <3>2, <3>3
  <2>2. CASE act' = act
    BY <1>2, <2>2 DEF Pending
  <2>3. QED
    BY <2>1, <2>2 DEF Indicate_AMPDU_Packet
<1>9. Air'
  BY <1>2, <1>5, <1>7, <1>8 DEF Air
<1>10. CASE BARecWcidArray # 0 /\ Flush(BARecWcidArray, n, t, "decide")
  BY <1>1, <1>2, <1>3, <1>4, <1>5, <1>9, <1>10, FlushOrder
<1>11. CASE BARecWcidArray = 0 /\ UNCHANGED <<entry, table, free, act, up, eaps, bypassed>>
  <2>1. SUFFICES ASSUME ~raced', ~bypassed' PROVE Ordered'
    BY <1>9, OrderedIf
  <2>2. UNCHANGED <<list, BARecWcidArray, act, order, bypassed>>
    BY <1>11 DEF entry, table, up
  <2>3. order # "old" /\ Session
    BY <1>2, <2>1, <2>2 DEF OrderInv, Ordered, Race
  <2>4. Session' /\ order' # "old" /\ BARecWcidArray' = 0
    BY <1>11, <2>2, <2>3 DEF Session
  <2>5. QED
    BY <2>4 DEF Ordered
<1>12. QED
  BY <1>9, <1>10, <1>11 DEF Indicate_AMPDU_Packet

\* A frame outside any A-MPDU looks at the time-out.
LEMMA LegacyOrder ==
  ASSUME OrderInv, NEW t, Indicate_Legacy_Packet(t)
  PROVE  Air' /\ Ordered'
<1>1. /\ IndInv /\ IndInv' /\ Air /\ HistTypes /\ act \in [Actors -> Work]
  BY LegacyStep DEF OrderInv, IndInv, ActTypes
<1>2. /\ act["rx"].pc = "idle" /\ Race("rx") /\ UNCHANGED <<o, heard, bar>>
      /\ BARecWcidArray # 0 /\ Flush(BARecWcidArray, 0, t, "idle")
  BY DEF Indicate_Legacy_Packet, peer
<1>3. heard <= heard' /\ 0 \in Nat
  BY <1>1, <1>2, Ints
<1>4. Ordered'
  BY <1>1, <1>2, <1>3, FlushOrder
<1>5. ~Pending(act'["rx"])
  <2> DEFINE e == BARecWcidArray
             s == (LastIndSeq[e] + 1) % ModSeq
             x == [Idle EXCEPT !.pc = "idle", !.e = e, !.n = 0]
             y == [pc |-> "flushone", e |-> e, n |-> 0, val |-> s, v |-> "idle" = "idle"]
  <2>1. act' = [act EXCEPT !["rx"] = x] \/ act' = [act EXCEPT !["rx"] = y]
    BY <1>2 DEF Flush
  <2>2. x.pc = "idle" /\ y.pc = "flushone" /\ y.v
    BY DEF Idle
  <2> HIDE DEF x, y
  <2>3. act'["rx"] = x \/ act'["rx"] = y
    BY <1>1, <2>1 DEF Actors
  <2>4. QED
    BY <2>2, <2>3 DEF Pending
<1>6. Air'
  BY <1>1, <1>2, <1>5, AirSame
<1>7. QED
  BY <1>4, <1>6

\* dev_rx_ctrl_frm, CntlEnqueueForRecv: a BAR moves LastIndSeq before the
\* peer's window, or not.
LEMMA BarOrder ==
  ASSUME OrderInv, NEW c \in BOOLEAN, CntlEnqueueForRecv(c)
  PROVE  Air' /\ Ordered'
<1> DEFINE e == BARecWcidArray
           l == list[e]
           k == LeCount(l, SeqNo(o))
           t == SubSeq(l, k + 1, Len(l))
           x == [pc |-> "barset", e |-> e, n |-> 0, val |-> SeqNo(o), v |-> ~c]
           y == [act["rx"] EXCEPT !.pc = "teardown"]
<1>1. /\ IndInv /\ IndInv' /\ Air /\ act \in [Actors -> Work] /\ act["rx"] \in Work /\ HistTypes'
      /\ act["rx"].pc = "idle" /\ e # 0 /\ Race("rx") /\ bypassed' = bypassed
      /\ UNCHANGED <<LastIndSeq, BAWinSize, BARecWcidArray, o, heard>>
  BY BarStep DEF OrderInv, IndInv, ActTypes, RxWork, CntlEnqueueForRecv, table, peer
<1>2. x.pc = "barset" /\ x.e = e /\ x.val = SeqNo(o) /\ y.pc = "teardown"
  BY <1>1 DEF Work
<1>3. \/ /\ SEQ_SMALLER(LastIndSeq[e], SeqNo(o)) /\ bar' = o /\ Release(e, k, <<>>)
         /\ act' = [act EXCEPT !["rx"] = x]
      \/ /\ act' = [act EXCEPT !["rx"] = y]
         /\ UNCHANGED <<list, last, order, bar>>
  BY <1>1 DEF CntlEnqueueForRecv, Go, up, Actors
<1> HIDE DEF x, y
<1>4. (act'["rx"] = x \/ act'["rx"] = y) /\ act'["mlme"] = act["mlme"]
  BY <1>1, <1>3 DEF Actors
<1>5. Air'
  BY <1>1, <1>2, <1>4, AirSame DEF Pending
<1>6. ASSUME ~raced', ~bypassed' PROVE Ordered'
  <2>1. ~raced /\ ~bypassed /\ act["mlme"].pc = "idle"
    BY <1>1, <1>6 DEF Race, Actors
  <2>2. Found(e) /\ (Clear(e) \/ \E p \in Int : Between(e, p))
    BY <1>1, <2>1, IdleFinds
  <2>3. l \in Seq(Nums) /\ EntryTypes /\ HistTypes /\ order # "old" /\ e \in Entries
    BY <2>2 DEF Found
  <2>4. o \in Nat /\ heard \in Nat /\ last \in Int /\ -1 <= last /\ o \in Int
    BY <2>3, Ints
  <2>5. o <= heard + MaxGap /\ heard <= o + WinSize - 1
    BY <1>1 DEF Air
  <2>6. WinSize \in Nat /\ MaxGap \in Nat /\ WinSize >= 1 /\ Half = MaxGap + 2 * WinSize
    BY Sizes
  <2>7. CASE /\ SEQ_SMALLER(LastIndSeq[e], SeqNo(o)) /\ bar' = o /\ Release(e, k, <<>>)
             /\ act' = [act EXCEPT !["rx"] = x]
    <3> DEFINE q == o - 1
    <3>1. Leaves(e, x, LastIndSeq[e], t)
      <4>1. list' = Put(list, e, t)
        BY <2>7 DEF Release, Put
      <4>2. list \in [Entries -> Seq(Nums)]
        BY <2>3 DEF EntryTypes
      <4>3. act'["rx"] = x
        BY <1>1, <2>7 DEF Actors
      <4> HIDE DEF t
      <4>4. QED
        BY <1>1, <1>4, <2>3, <4>1, <4>2, <4>3 DEF Leaves, Put
    <3>2. Indicate(SubSeq(l, 1, k) \o <<>>)
      BY <2>7 DEF Release
    <3>3. /\ Sorted(l) /\ \A i \in 1..Len(l) : l[i] \in Int /\ last < l[i]
          /\ k \in 0..Len(l) /\ \A i \in 1..k : l[i] <= o
          /\ Listed(t, q, 2, heard) /\ heard <= q + WinSize /\ last <= o
      <4>1. CASE Clear(e)
        <5>1. l = <<>> /\ last = -1
          BY <4>1 DEF Clear
        <5>2. Len(l) = 0 /\ k \in 0..Len(l)
          BY <2>3, <5>1, LeCountType
        <5>3. k = 0 /\ t = <<>>
          <6>1. k = 0
            BY <5>2
          <6> HIDE DEF k
          <6>2. QED
            BY <5>1, <6>1
        <5>4. Listed(t, q, 2, heard) /\ Sorted(l)
          BY <5>1, <5>3 DEF Listed, Sorted
        <5>5. heard <= q + WinSize /\ last <= o
          BY <2>4, <2>5, <2>6, <5>1
        <5> HIDE DEF l, k, t, q
        <5>6. QED
          BY <5>2, <5>3, <5>4, <5>5
      <4>2. CASE \E p \in Int : Between(e, p)
        <5>1. PICK p \in Int : Between(e, p)
          BY <4>2
        <5>2. /\ p <= o + WinSize - 1 /\ LastIndSeq[e] = SeqNo(p) /\ Listed(l, p, 2, heard)
              /\ (last <= p \/ last = p + 1) /\ heard <= p + WinSize
          BY <5>1 DEF Between
        <5>3. /\ Sorted(l)
              /\ \A i \in 1..Len(l) : /\ l[i] \in Int /\ last < l[i]
                                      /\ p + 2 <= l[i] /\ l[i] <= p + WinSize /\ l[i] <= heard
          BY <2>2, <5>1, BetweenNewer
        <5>4. k = LeCount(l, SeqNo(o))
          OBVIOUS
        <5> HIDE DEF l, k, t
        <5>5. p < o
          <6>1. p - o < Half /\ o - p <= Half
            BY <2>4, <2>5, <2>6, <5>2
          <6>2. QED
            BY <2>4, <2>7, <5>2, <6>1, Smaller
        <5>6. \A i \in 1..Len(l) : l[i] - o < Half /\ o - l[i] <= Half
          BY <2>4, <2>5, <2>6, <5>2, <5>3
        <5>7. /\ k \in 0..Len(l) /\ \A i \in 1..k : l[i] <= o
              /\ \A i \in (k + 1)..Len(l) : o + 1 <= l[i]
          BY <2>3, <2>4, <5>3, <5>4, <5>6, LeCountIs
        <5>8. p <= q /\ q \in Int /\ 2 \in Nat /\ q + 2 = o + 1 /\ heard <= q + WinSize /\ last <= o
          BY <2>4, <2>6, <5>2, <5>5
        <5> HIDE DEF q
        <5>9. \A i \in (k + 1)..Len(l) : q + 2 <= l[i]
          BY <5>7, <5>8
        <5>10. Listed(t, q, 2, heard)
          BY <2>3, <5>2, <5>7, <5>8, <5>9, CutListed DEF t
        <5>11. QED
          BY <5>3, <5>7, <5>8, <5>10
      <4>3. QED
        BY <2>2, <4>1, <4>2
    <3> HIDE DEF l, k, t
    <3>4. order' # "old" /\ last' = IF k = 0 THEN last ELSE l[k]
      BY <2>3, <3>2, <3>3, UpPrefix
    <3>5. last' <= o /\ last' \in Int
      <4>1. CASE k = 0
        BY <2>4, <3>3, <3>4, <4>1
      <4>2. CASE k # 0
        <5>1. k \in 1..k /\ k \in 1..Len(l)
          BY <3>3, <4>2
        <5>2. QED
          BY <3>3, <3>4, <4>2, <5>1
      <4>3. QED
        BY <4>1, <4>2
    <3>6. q \in Int /\ -1 <= q /\ q <= o + WinSize - 1 /\ q + 1 = o
      BY <2>4, <2>6
    <3> HIDE DEF q
    <3>7. last' <= q \/ (last' = q + 1 /\ bar' = q + 1)
      BY <2>4, <2>7, <3>5, <3>6
    <3>8. Gap(x) = 2 /\ ~Moved(x) /\ ~Pending(x) /\ x.pc \notin {"tdclear", "tdfree", "tdcount", "enqset"}
      BY <1>2 DEF Gap, Moved, Pending
    <3>9. Written(x, LastIndSeq[e]) = SeqNo(q)
      <4>1. BarLast(SeqNo(o)) = SeqNo(o - 1)
        BY <2>4, SeqNoOf
      <4>2. QED
        BY <1>2, <4>1 DEF Written, q
    <3>10. AtHand(x, q, heard) /\ UpTo(x, q, last', bar') /\ Reached(x, q, heard)
      BY <1>2, <3>3, <3>7, <3>8 DEF AtHand, UpTo, Reached
    <3>11. StandsFor(x, LastIndSeq[e], t, q, o, heard, last', bar')
      BY <3>3, <3>6, <3>8, <3>9, <3>10 DEF StandsFor
    <3>12. StandsFor(x, LastIndSeq[e], t, q, o', heard', last', bar')
      BY <1>1, <3>11
    <3>13. QED
      BY <1>1, <1>2, <2>2, <3>1, <3>4, <3>6, <3>12, OrderedNext
  <2>8. CASE act' = [act EXCEPT !["rx"] = y] /\ UNCHANGED <<list, last, order, bar>>
    <3>1. act'["rx"] = y
      BY <1>1, <2>8 DEF Actors
    <3>2. Leaves(e, y, LastIndSeq[e], list[e])
      BY <1>1, <1>4, <2>8, <3>1 DEF Leaves
    <3> HIDE DEF e
    <3>3. CASE Clear(e)
      BY <1>2, <2>2, <2>3, <2>8, <3>2, <3>3, BlankNext DEF Clear
    <3>4. CASE \E p \in Int : Between(e, p)
      <4>1. PICK p \in Int : Between(e, p)
        BY <3>4
      <4>2. -1 <= p /\ StandsFor(y, LastIndSeq[e], list[e], p, o, heard, last, bar)
        BY <1>2, <4>1, IdleStands DEF Between
      <4>3. StandsFor(y, LastIndSeq[e], list[e], p, o', heard', last', bar')
        BY <1>1, <2>8, <4>2
      <4>4. QED
        BY <1>1, <1>2, <2>2, <2>3, <2>8, <3>2, <4>2, <4>3, OrderedNext
    <3>5. QED
      BY <2>2, <3>3, <3>4
  <2>9. QED
    BY <1>3, <2>7, <2>8
<1>7. QED
  BY <1>5, <1>6, OrderedIf

-----------------------------------------------------------------------------
(***************************************************************************)
(* Set-up and teardown.                                                    *)
(***************************************************************************)

\* The session's list has been emptied by a context that stays in the middle
\* of a set-up or teardown, and the tasklet is not in the middle of a frame.
LEMMA EmptiedOrder ==
  ASSUME OrderInv, NEW e, Found(e), Clear(e) \/ \E p \in Int : Between(e, p), Refresh(e),
         UNCHANGED <<BAWinSize, BARecWcidArray>>,
         act'["rx"].pc \in {"idle", "teardown", "tdclear", "tdfree", "tdcount"}
  PROVE  Ordered'
<1>1. /\ order' # "old" /\ last' = -1
      /\ LastIndSeq'[e] = RESET_RCV_SEQ /\ list'[e] = <<>>
      /\ \A x \in Entries : x # e => list'[x] = list[x]
  BY RefreshOrder
<1>2. BARecWcidArray = e /\ Session
  BY DEF Found
<1>3. Session'
  BY <1>1, <1>2 DEF Session
<1>4. Blank'
  BY <1>1, <1>2 DEF Blank
<1>5. QED
  BY <1>1, <1>3, <1>4 DEF Ordered

\* BARecSessionTearDown: the frames in the list go up.
LEMMA TearDownOrder ==
  ASSUME OrderInv, NEW a \in Actors, BARecSessionTearDown(a)
  PROVE  Air' /\ Ordered'
<1> DEFINE e == BARecWcidArray
<1>1. /\ IndInv /\ Air /\ act \in [Actors -> Work] /\ Counted
      /\ CallsTearDown(a) /\ e # 0 /\ Race(a)
      /\ UNCHANGED <<o, heard, bypassed, BAWinSize, BARecWcidArray>>
  BY DEF OrderInv, IndInv, ActTypes, BARecSessionTearDown, table, peer
<1>2. /\ act'[a].pc \in {"tdclear", "tdfree", "tdcount"}
      /\ \A b \in Actors \ {a} : act'[b] = act[b]
  BY <1>1 DEF BARecSessionTearDown, Idle
<1>3. /\ a = "rx" => act["rx"].pc = "teardown"
      /\ a = "mlme" => act["mlme"].pc = "idle"
  BY <1>1 DEF CallsTearDown
<1>4. a = "rx" \/ (a = "mlme" /\ act'["rx"] = act["rx"])
  BY <1>2 DEF Actors
<1>5. Air'
  BY <1>1, <1>2, <1>4, AirSame DEF Pending, Air
<1>6. ASSUME ~raced', ~bypassed' PROVE Ordered'
  <2>1. ~raced /\ ~bypassed /\ act["mlme"].pc = "idle" /\ act["rx"].pc \in {"idle", "teardown"}
    BY <1>1, <1>3, <1>6 DEF Race, Actors
  <2>2. Found(e) /\ (Clear(e) \/ \E p \in Int : Between(e, p))
    BY <1>1, <2>1, IdleFinds
  <2>3. Settled
    BY <1>1, <2>1 DEF Counted
  <2>4. status[e] = "Accept"
    BY <2>2, <2>3 DEF Settled, Table, Found
  <2>5. Refresh(e)
    BY <2>4 DEF BARecSessionTearDown
  <2>6. act'["rx"].pc \in {"idle", "teardown", "tdclear", "tdfree", "tdcount"}
    BY <1>2, <1>4, <2>1
  <2> HIDE DEF e
  <2>7. QED
    BY <1>1, <2>2, <2>5, <2>6, EmptiedOrder
<1>7. QED
  BY <1>5, <1>6, OrderedIf

\* While a session is torn down or set up again its list stays empty.
LEMMA SetupFinds ==
  ASSUME OrderInv, ~raced, ~bypassed, BARecWcidArray # 0,
         act["mlme"].pc # "idle" \/ act["rx"].pc \in {"tdclear", "tdfree", "tdcount"}
  PROVE  list[BARecWcidArray] = <<>>
<1>1. Blank \/ \E p \in Frames : Tracks(p)
  BY DEF OrderInv, Ordered
<1>2. ~(\E p \in Frames : Tracks(p))
  BY DEF Tracks, StandsFor
<1>3. QED
  BY <1>1, <1>2 DEF Blank

\* Without a session there is no list.
LEMMA NoSession ==
  ASSUME order' # "old", BARecWcidArray' = 0, \A x \in Entries : list'[x] = <<>>,
         act'["rx"].pc \in {"idle", "teardown", "tdclear", "tdfree", "tdcount"}
  PROVE  Ordered'
<1>1. Session'
  BY DEF Session
<1>2. QED
  BY <1>1 DEF Ordered

\* The session is taken out.
LEMMA ClearOrder ==
  ASSUME OrderInv, NEW a \in Actors, TearDownClear(a)
  PROVE  Air' /\ Ordered'
<1>1. /\ IndInv /\ Air /\ act \in [Actors -> Work] /\ Race(a) /\ act[a].pc = "tdclear"
      /\ UNCHANGED <<o, heard, bypassed, list, order>> /\ BARecWcidArray' = 0
  BY DEF OrderInv, IndInv, ActTypes, TearDownClear, peer, up
<1>2. act'[a].pc = "tdfree" /\ \A b \in Actors \ {a} : act'[b] = act[b]
  BY <1>1 DEF TearDownClear, Go, Work
<1>3. a = "rx" \/ (a = "mlme" /\ act'["rx"] = act["rx"])
  BY <1>2 DEF Actors
<1>4. Air'
  BY <1>1, <1>2, <1>3, AirSame DEF Pending, Air
<1>5. ASSUME ~raced', ~bypassed' PROVE Ordered'
  <2>1. ~raced /\ ~bypassed /\ (a = "rx" \/ act["rx"].pc = "idle")
    BY <1>1, <1>3, <1>5 DEF Race, Actors
  <2>2. order # "old" /\ Session
    BY <2>1 DEF OrderInv, Ordered
  <2>3. BARecWcidArray # 0 => list[BARecWcidArray] = <<>>
    BY <1>1, <1>3, <2>1, SetupFinds
  <2>4. 0 \notin Entries
    BY BaReorderAssumption DEF Entries
  <2>5. \A x \in Entries : list'[x] = <<>>
    BY <1>1, <2>2, <2>3, <2>4 DEF Session
  <2>6. act'["rx"].pc \in {"idle", "teardown", "tdclear", "tdfree", "tdcount"}
    BY <1>2, <1>3, <2>1
  <2>7. QED
    BY <1>1, <2>2, <2>5, <2>6, NoSession
<1>6. QED
  BY <1>4, <1>5, OrderedIf

\* BATableFreeRecEntry gives the entry back, in its two parts.
LEMMA FreeOrder ==
  ASSUME OrderInv, NEW a \in Actors, BATableFreeRecEntry(a) \/ RecEntryFreed(a)
  PROVE  Air' /\ Ordered'
<1>1. /\ IndInv /\ Air /\ act \in [Actors -> Work] /\ Race(a)
      /\ act[a].pc \in {"tdfree", "tdcount"} /\ Counted
      /\ UNCHANGED <<o, heard, bypassed, list, order>>
      /\ BARecWcidArray' = 0 \/ BARecWcidArray' = BARecWcidArray
  BY DEF OrderInv, IndInv, ActTypes, BATableFreeRecEntry, RecEntryFreed, peer, up, entry
<1>2. act'[a].pc \in {"idle", "tdcount"} /\ \A b \in Actors \ {a} : act'[b] = act[b]
  BY <1>1 DEF BATableFreeRecEntry, RecEntryFreed, Done, Go, Idle, Work
<1>3. a = "rx" \/ (a = "mlme" /\ act'["rx"] = act["rx"])
  BY <1>2 DEF Actors
<1>4. Air'
  BY <1>1, <1>2, <1>3, AirSame DEF Pending, Air
<1>5. ASSUME ~raced', ~bypassed' PROVE Ordered'
  <2>1. ~raced /\ ~bypassed /\ (a = "rx" \/ act["rx"].pc = "idle")
    BY <1>1, <1>3, <1>5 DEF Race, Actors
  <2>2. order # "old" /\ Session
    BY <2>1 DEF OrderInv, Ordered
  <2>3. BARecWcidArray = 0
    BY <1>1, <1>3, <2>1 DEF Counted, Step, Table
  <2>4. 0 \notin Entries
    BY BaReorderAssumption DEF Entries
  <2>5. \A x \in Entries : list'[x] = <<>>
    BY <1>1, <2>2, <2>3, <2>4 DEF Session
  <2>6. act'["rx"].pc \in {"idle", "teardown", "tdclear", "tdfree", "tdcount"}
    BY <1>2, <1>3, <2>1
  <2>7. QED
    BY <1>1, <2>2, <2>3, <2>5, <2>6, NoSession
<1>6. QED
  BY <1>4, <1>5, OrderedIf

\* PeerAddBAReqAction: the entry is found, or its list emptied.
LEMMA AddBAOrder ==
  ASSUME OrderInv, PeerAddBAReqAction
  PROVE  Air' /\ Ordered'
<1> DEFINE e == BARecWcidArray
<1>1. /\ IndInv /\ Air /\ act \in [Actors -> Work] /\ Race("mlme") /\ act["mlme"].pc = "idle"
      /\ UNCHANGED <<o, heard, bar, bypassed, BAWinSize, BARecWcidArray>>
  BY DEF OrderInv, IndInv, ActTypes, PeerAddBAReqAction, peer
<1>2. act'["rx"] = act["rx"]
  BY <1>1 DEF PeerAddBAReqAction, Actors
<1>3. Air'
  BY <1>1, <1>2, AirSame DEF Air
<1>4. ASSUME ~raced', ~bypassed' PROVE Ordered'
  <2>1. ~raced /\ ~bypassed /\ act["rx"].pc = "idle"
    BY <1>1, <1>4 DEF Race, Actors
  <2>2. CASE e = 0 /\ UNCHANGED <<list, order>>
    <3>1. order # "old" /\ Session
      BY <2>1 DEF OrderInv, Ordered
    <3>2. 0 \notin Entries
      BY BaReorderAssumption DEF Entries
    <3>3. \A x \in Entries : list'[x] = <<>>
      BY <2>2, <3>1, <3>2 DEF Session
    <3>4. QED
      BY <1>1, <1>2, <2>1, <2>2, <3>1, <3>3, NoSession
  <2>3. CASE e # 0 /\ Refresh(e)
    <3>1. Found(e) /\ (Clear(e) \/ \E p \in Int : Between(e, p))
      BY <1>1, <2>1, <2>3, IdleFinds
    <3>2. act'["rx"].pc \in {"idle", "teardown", "tdclear", "tdfree", "tdcount"}
      BY <1>2, <2>1
    <3> HIDE DEF e
    <3>3. QED
      BY <1>1, <2>3, <3>1, <3>2, EmptiedOrder
  <2>4. QED
    BY <2>2, <2>3 DEF PeerAddBAReqAction, up
<1>5. QED
  BY <1>3, <1>4, OrderedIf

\* BARecSessionAdd fills the entry in.
LEMMA SessionAddOrder ==
  ASSUME OrderInv, BARecSessionAdd
  PROVE  Air' /\ Ordered'
<1> DEFINE m == act["mlme"]
           e == m.e
<1>1. /\ IndInv /\ EntryTypes /\ Air /\ act \in [Actors -> Work] /\ Race("mlme") /\ m.pc = "setup"
      /\ e \in Entries /\ Counted /\ UNCHANGED <<o, heard, bypassed, list, order>>
      /\ BARecWcidArray' = m.val /\ last' = -1
  BY DEF OrderInv, IndInv, ActTypes, MlmeWork, BARecSessionAdd, peer
<1>2. act'["rx"] = act["rx"]
  BY <1>1 DEF BARecSessionAdd, Done, Actors
<1>3. Air'
  BY <1>1, <1>2, AirSame DEF Air
<1>4. ASSUME ~raced', ~bypassed' PROVE Ordered'
  <2>1. ~raced /\ ~bypassed /\ act["rx"].pc = "idle"
    BY <1>1, <1>4 DEF Race, Actors
  <2>2. order # "old" /\ Session
    BY <2>1 DEF OrderInv, Ordered
  <2>3. m.val = e /\ (BARecWcidArray = 0 \/ BARecWcidArray = e)
    BY <1>1, <2>1 DEF Counted, Step
  <2>4. BARecWcidArray' = e
    BY <1>1, <2>3
  <2>5. 0 \notin Entries
    BY BaReorderAssumption DEF Entries
  <2>6. BARecWcidArray # 0 => list[BARecWcidArray] = <<>>
    BY <1>1, <2>1, SetupFinds
  <2>7. \A x \in Entries : list'[x] = <<>>
    BY <1>1, <2>2, <2>5, <2>6 DEF Session
  <2>8. LastIndSeq'[e] = RESET_RCV_SEQ /\ BAWinSize'[e] = WinSize
    <3>1. LastIndSeq' = Put(LastIndSeq, e, RESET_RCV_SEQ) /\ BAWinSize' = Put(BAWinSize, e, WinSize)
      BY DEF BARecSessionAdd, SetLastIndSeq, Put
    <3>2. /\ LastIndSeq \in [Entries -> Seqs \union {RESET_RCV_SEQ}]
          /\ BAWinSize \in [Entries -> {0, WinSize}]
      BY <1>1 DEF EntryTypes
    <3>3. QED
      BY <1>1, <3>1, <3>2 DEF Put
  <2> HIDE DEF e, m
  <2>9. Session'
    BY <1>1, <1>2, <2>1, <2>4, <2>7, <2>8 DEF Session
  <2>10. Blank'
    BY <1>1, <1>2, <2>1, <2>4, <2>7, <2>8 DEF Blank
  <2>11. QED
    BY <1>1, <2>2, <2>9, <2>10 DEF Ordered
<1>5. QED
  BY <1>3, <1>4, OrderedIf

\* The peer's window moves.
LEMMA AdvanceOrder ==
  ASSUME OrderInv, PeerAdvances
  PROVE  Air' /\ Ordered'
<1>1. /\ Air /\ Ordered /\ HistTypes /\ o < heard + MaxGap /\ o' = o + 1
      /\ UNCHANGED <<LastIndSeq, BAWinSize, list, BARecWcidArray, act, heard, last, order, bar, raced, bypassed>>
  BY DEF OrderInv, IndInv, PeerAdvances, entry, table, up
<1>2. o \in Nat /\ heard \in Nat /\ WinSize \in Nat /\ MaxGap \in Nat
  BY <1>1, Ints, Sizes
<1>3. heard <= o + WinSize - 1
  BY <1>1 DEF Air
<1>4. o' <= heard' + MaxGap /\ heard' <= o' + WinSize - 1
  BY <1>1, <1>2, <1>3
<1>5. Air'
  BY <1>1, <1>4 DEF Air
<1>6. ASSUME NEW p \in Frames, Tracks(p) PROVE Tracks(p)'
  <2> DEFINE e == BARecWcidArray
  <2>1. StandsFor(act["rx"], LastIndSeq[e], list[e], p, o, heard, last, bar) /\ act["mlme"].pc = "idle"
    BY <1>6 DEF Tracks
  <2>2. p \in Int
    BY BaReorderAssumption DEF Frames
  <2>3. p <= o + WinSize - 1
    BY <2>1 DEF StandsFor
  <2>4. p <= o' + WinSize - 1
    BY <1>1, <1>2, <2>2, <2>3
  <2>5. StandsFor(act["rx"], LastIndSeq[e], list[e], p, o', heard, last, bar)
    BY <2>1, <2>4 DEF StandsFor
  <2>6. QED
    BY <1>1, <2>1, <2>5 DEF Tracks
<1>7. Ordered'
  <2>1. SUFFICES ASSUME ~raced', ~bypassed' PROVE Ordered'
    BY OrderedIf
  <2>2. order # "old" /\ Session /\ (BARecWcidArray # 0 => Blank \/ \E p \in Frames : Tracks(p))
    BY <1>1, <2>1 DEF Ordered
  <2>3. Session'
    BY <1>1, <2>2 DEF Session
  <2>4. Blank => Blank'
    BY <1>1 DEF Blank
  <2>5. BARecWcidArray' # 0 => Blank' \/ \E p \in Frames : Tracks(p)'
    BY <1>1, <1>6, <2>2, <2>4
  <2>6. QED
    BY <1>1, <2>2, <2>3, <2>5 DEF Ordered
<1>8. QED
  BY <1>5, <1>7

-----------------------------------------------------------------------------
(***************************************************************************)
(* The theorems.                                                           *)
(***************************************************************************)

\* The first states satisfy the invariant.
LEMMA InitOrder == Init => OrderInv
<1> SUFFICES ASSUME Init PROVE OrderInv
  OBVIOUS
<1>1. IndInv
  BY InitInd
<1>2. act["rx"].pc = "idle"
  BY DEF Init, Actors, Idle
<1>3. o = FirstNum /\ heard = FirstNum /\ FirstNum \in Nat /\ WinSize \in Nat /\ WinSize >= 1 /\ MaxGap \in Nat
  BY Sizes, BaReorderAssumption DEF Init
<1>4. o <= heard + MaxGap /\ heard <= o + WinSize - 1
  BY <1>3
<1>5. Air
  BY <1>2, <1>4 DEF Air, Pending
<1>6. /\ BARecWcidArray = 1 /\ 1 \in Entries /\ order # "old" /\ last = -1
      /\ \A x \in Entries : list[x] = <<>> /\ LastIndSeq[x] = RESET_RCV_SEQ
      /\ BAWinSize[1] = WinSize
  BY BaReorderAssumption DEF Init, Entries
<1>7. Session
  BY <1>2, <1>6 DEF Session
<1>8. Blank
  BY <1>2, <1>6 DEF Blank
<1>9. Ordered
  BY <1>6, <1>7, <1>8 DEF Ordered
<1>10. QED
  BY <1>1, <1>5, <1>9 DEF OrderInv

\* Every step keeps the invariant.
LEMMA NextOrder ==
  ASSUME OrderInv, [Next]_vars
  PROVE  OrderInv'
<1>1. IndInv'
  BY NextInd DEF OrderInv
<1>2. Air' /\ Ordered'
  <2>1. CASE \E n \in FirstNum..LastNum, t \in {"no", "one", "all"} : Indicate_AMPDU_Packet(n, t)
    BY <2>1, AmpduOrder DEF Nums
  <2>2. CASE \E t \in {"one", "all"} : Indicate_Legacy_Packet(t)
    BY <2>2, LegacyOrder
  <2>3. CASE \E c \in BOOLEAN : CntlEnqueueForRecv(c)
    BY <2>3, BarOrder
  <2>4. CASE RxStep
    BY <2>4, FlushOneOrder, FlushSetOrder, FirstFrameOrder, InOrderOrder, DropOldOrder, QueueOrder,
       MoveWindowOrder, WindowSetOrder, EnqueueOrder, NoBlockOrder, NoBlockSetOrder, WindowInOrderOrder,
       InOrderSetOrder, BarSetOrder, TearDownNothingOrder DEF RxStep
  <2>5. CASE \E a \in Actors : BARecSessionTearDown(a) \/ TearDown(a)
    BY <2>5, TearDownOrder, ClearOrder, FreeOrder DEF TearDown
  <2>6. CASE PeerAddBAReqAction \/ BARecSessionAdd \/ PeerAdvances
    BY <2>6, AddBAOrder, SessionAddOrder, AdvanceOrder
  <2>7. CASE UNCHANGED vars
    <3>1. UNCHANGED <<LastIndSeq, BAWinSize, list, BARecWcidArray, act, o, heard, last, order, bar, raced, bypassed>>
      BY <2>7 DEF vars, entry, table, peer, up
    <3>2. Air'
      BY <3>1 DEF OrderInv, Air
    <3>3. Ordered'
      <4>1. (Session <=> Session') /\ (Blank <=> Blank')
        BY <3>1 DEF Session, Blank
      <4>2. ASSUME NEW p \in Frames PROVE Tracks(p) <=> Tracks(p)'
        BY <3>1 DEF Tracks
      <4>3. QED
        BY <3>1, <4>1, <4>2 DEF OrderInv, Ordered
    <3>4. QED
      BY <3>2, <3>3
  <2>8. QED
    BY <2>1, <2>2, <2>3, <2>4, <2>5, <2>6, <2>7 DEF Next
<1>3. QED
  BY <1>1, <1>2 DEF OrderInv

\* So it holds in every behaviour.
LEMMA OrderInductive == Spec => []OrderInv
BY InitOrder, NextOrder, PTL DEF Spec

\* The invariant implies that the list is in the window,
LEMMA InvInWindow == OrderInv => ListInWindow
<1>1. SUFFICES ASSUME OrderInv, act["rx"].pc = "idle", act["mlme"].pc = "idle", ~raced, ~bypassed,
                      NEW e \in Entries
               PROVE  LET l == list[e]
                          ahead(i) == (l[i] - LastIndSeq[e]) % ModSeq
                      IN /\ l # <<>> => LastIndSeq[e] # RESET_RCV_SEQ /\ ahead(1) > 1
                         /\ Len(l) <= BAWinSize[e]
                         /\ \A i \in DOMAIN l : ahead(i) <= BAWinSize[e] /\ (i > 1 => l[i] > l[i - 1])
  BY DEF ListInWindow
<1> DEFINE l == list[e]
           ahead(i) == (l[i] - LastIndSeq[e]) % ModSeq
<1>2. EntryTypes /\ Session
  BY <1>1 DEF OrderInv, IndInv, Ordered
<1>3. l \in Seq(Nums) /\ BAWinSize[e] \in {0, WinSize} /\ WinSize \in Nat
  BY <1>2, Sizes DEF EntryTypes
<1>4. CASE l = <<>>
  <2>1. Len(l) = 0 /\ DOMAIN l = {} /\ 0 <= BAWinSize[e]
    BY <1>3, <1>4
  <2>2. QED
    BY <1>4, <2>1
<1>5. CASE l # <<>>
  <2>1. BARecWcidArray = e /\ e # 0
    BY <1>2, <1>5, BaReorderAssumption DEF Session, Entries
  <2>2. Found(e) /\ (Clear(e) \/ \E p \in Int : Between(e, p))
    BY <1>1, <2>1, IdleFinds
  <2>3. PICK p \in Int : Between(e, p)
    BY <1>5, <2>2 DEF Clear
  <2>4. /\ Sorted(l)
        /\ \A i \in 1..Len(l) : l[i] \in Int /\ p + 2 <= l[i] /\ l[i] <= p + WinSize
    BY <2>2, <2>3, BetweenNewer
  <2>5. LastIndSeq[e] = SeqNo(p) /\ LastIndSeq[e] # RESET_RCV_SEQ /\ BAWinSize[e] = WinSize
    BY <2>2, <2>3, SeqNoOf DEF Between, Found
  <2>6. Len(l) <= WinSize
    <3>1. Listed(l, p, 2, heard)
      BY <2>3 DEF Between
    <3>2. \A i \in 1..Len(l) : p + 1 <= l[i]
      BY <2>4
    <3>3. Listed(l, p, 1, heard)
      BY <3>1, <3>2 DEF Listed
    <3>4. QED
      BY <1>3, <3>3, Fits
  <2>7. Len(l) \in Nat /\ DOMAIN l = 1..Len(l) /\ 1 \in 1..Len(l)
    BY <1>3, <1>5
  <2>8. ASSUME NEW i \in 1..Len(l) PROVE ahead(i) = l[i] - p
    <3> DEFINE d == l[i] - p
    <3>1. (l[i] - (p % ModSeq)) % ModSeq = d % ModSeq
      BY <2>4, Differences
    <3>2. d \in Int /\ 0 <= d /\ d < ModSeq /\ -ModSeq <= d
      <4>1. ModSeq \in Nat /\ WinSize \in Nat /\ WinSize < ModSeq
        BY Sizes
      <4>2. l[i] \in Int /\ p + 2 <= l[i] /\ l[i] <= p + WinSize
        BY <2>4
      <4>3. QED
        BY <4>1, <4>2
    <3> HIDE DEF d
    <3>3. d % ModSeq = d
      BY <3>2, Near
    <3>4. QED
      BY <2>5, <3>1, <3>3 DEF SeqNo, d
  <2> HIDE DEF ahead
  <2>9. ASSUME NEW i \in DOMAIN l PROVE ahead(i) <= WinSize /\ (i > 1 => l[i] > l[i - 1])
    <3>1. i \in 1..Len(l) /\ l[i] \in Int /\ l[i] <= p + WinSize /\ ahead(i) = l[i] - p
      BY <2>4, <2>7, <2>8
    <3>2. ahead(i) <= WinSize
      BY <1>3, <3>1
    <3>3. ASSUME i > 1 PROVE l[i] > l[i - 1]
      <4>1. i - 1 \in 1..Len(l) /\ i - 1 < i
        BY <2>7, <3>1, <3>3
      <4>2. l[i - 1] < l[i] /\ l[i - 1] \in Int
        BY <2>4, <3>1, <4>1 DEF Sorted
      <4>3. QED
        BY <3>1, <4>2
    <3>4. QED
      BY <3>2, <3>3
  <2>10. ahead(1) > 1
    <3>1. l[1] \in Int /\ p + 2 <= l[1] /\ ahead(1) = l[1] - p
      BY <2>4, <2>7, <2>8
    <3>2. QED
      BY <3>1
  <2>11. /\ l # <<>> => LastIndSeq[e] # RESET_RCV_SEQ /\ ahead(1) > 1
         /\ Len(l) <= BAWinSize[e]
         /\ \A i \in DOMAIN l : ahead(i) <= BAWinSize[e] /\ (i > 1 => l[i] > l[i - 1])
    BY <2>5, <2>6, <2>9, <2>10
  <2>12. QED
    BY <2>11 DEF ahead
<1>6. QED
  BY <1>4, <1>5

\* ... and that nothing went up out of order.
LEMMA InvInOrder == OrderInv => DeliveredInOrder
BY DEF OrderInv, Ordered, DeliveredInOrder

\* For every window, sequence space that is at least twice as large as what is
\* on the air, pool and number of frames: between two frames the list of
\* ba_enqueue_reordering_packet holds no more than the window, in order, ahead
\* of LastIndSeq, and nothing that is next in line.
THEOREM InWindowAlways == Spec => []ListInWindow
BY OrderInductive, InvInWindow, PTL

\* Whatever is lost, sent again, comes late or times out, and also where the
\* sequence numbers wrap, Indicate_AMPDU_Packet and CntlEnqueueForRecv hand the
\* peer's frames up in the order they were sent, each once, but for the two
\* repetitions DeliveredInOrder names.
THEOREM UpInOrder == Spec => []DeliveredInOrder
BY OrderInductive, InvInOrder, PTL
=============================================================================
