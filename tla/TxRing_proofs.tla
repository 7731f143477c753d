---------------------------- MODULE TxRing_proofs ----------------------------
(***************************************************************************)
(* Proofs about TxRing, for any sizes of the ring, of its reserves and of  *)
(* the frames, and for any number of frames and errors. First: the         *)
(* dequeuer never writes past TransferBuffer. Then, from the layout of the *)
(* frames in the ring: frames leave it intact and in order, a ring that    *)
(* looks empty is, and a URB on its way is not written to.                 *)
(***************************************************************************)
EXTENDS TxRing, TLAPS, WellFoundedInduction

-----------------------------------------------------------------------------
\* Where a context can be.
Labels == {"idle", "hdr", "body", "next", "fin", "kick", "kick1", "check", "kick2"}

\* The dequeuer has written into the ring and not yet published it.
Writing == pc["W"] \in {"body", "next", "fin"}

\* The dequeuer's TX_BLK.
Blocks == [kind : {"single", "frag", "multi"}, parts : Seq(Nat \ {0}), i : 1..2, Priv : Nat,
           last : BOOLEAN]

\* The dequeuer's block is one of the batches.
Block ==
  /\ pc \in [Contexts -> Labels]
  /\ w \in Blocks
  /\ pc["W"] \in {"hdr", "body", "next", "fin"} =>
       \E b \in Batches : w.kind = b.kind /\ w.parts = b.parts

\* What of the block is written: Priv counts the headers and the parts before
\* the current one, for a frame or a fragment the current one too.
Progress ==
  /\ pc["W"] = "hdr" => w.i = 1
  /\ pc["W"] = "next" => w.i = 1 /\ Len(w.parts) = 2
  /\ pc["W"] = "fin" => w.i = Len(w.parts)
  /\ Writing => w.i <= Len(w.parts)
  /\ Writing /\ w.kind # "multi" =>
       w.Priv = IF w.i = 1 THEN Ovh + w.parts[1] ELSE Ovh + Ovh + w.parts[1] + w.parts[2]
  /\ Writing /\ w.kind = "multi" =>
       w.Priv <= Ovh + Sum(w.parts)
         - (IF pc["W"] = "body" THEN w.parts[w.i] ELSE 0)
         - (IF w.i < Len(w.parts) THEN w.parts[2] ELSE 0)

\* Where the writer is: a frame that would not leave AggReserve free is the last
\* of its round, so the next one starts below it, or one unit further.
Below ==
  /\ CurWritePosition \in Nat
  /\ ~Writing => CurWritePosition + AggReserve <= Limit
  /\ Writing => CurWritePosition + AggReserve <= Limit + 1
  /\ Writing /\ w.kind # "multi" /\ w.i = Len(w.parts) /\ ~w.last =>
       CurWritePosition + w.Priv + AggReserve <= Limit

\* The inductive invariant.
IndInv == Block /\ Progress /\ Below

-----------------------------------------------------------------------------
\* Arithmetic on the sizes of headers and parts.
LEMMA Twice ==
  ASSUME NEW n \in Nat
  PROVE  2 * n = n + n
OBVIOUS

\* What a batch takes beyond its parts is at least one header.
LEMMA Headers ==
  ASSUME NEW o \in Nat, NEW x \in Nat, NEW y \in Nat, o >= 2
  PROVE  (o + o + x + y) - (x + y) >= 2
OBVIOUS

\* A part that is not the last one is the first of two.
LEMMA OneOrTwo ==
  ASSUME NEW i \in 1..2, NEW n \in 1..2, i <= n
  PROVE  (i # n => i = 1 /\ n = 2) /\ (n = 1 => i = 1)
OBVIOUS

\* The constants, without the batches.
LEMMA Constants ==
  /\ LocalTxBuf \in Nat /\ Ovh \in Nat /\ Ovh >= 2
  /\ AggReserve \in Nat /\ AggReserve > 0 /\ Limit \in Nat /\ AggReserve < Limit
BY TxRingAssumption

\* The sizes of a batch, Room as a sum.
LEMMA OfBatch ==
  ASSUME NEW b \in Batches
  PROVE  /\ b.kind \in {"single", "frag", "multi"} /\ b.parts \in Seq(Nat \ {0})
         /\ Len(b.parts) \in 1..2 /\ b.parts[1] \in Nat \ {0}
         /\ Len(b.parts) = 2 => b.parts[2] \in Nat \ {0}
         /\ b.kind = "single" <=> Len(b.parts) = 1
         /\ Sum(b.parts) = IF Len(b.parts) = 1 THEN b.parts[1] ELSE b.parts[1] + b.parts[2]
         /\ b.kind = "frag" => Room(b) = Ovh + Ovh + b.parts[1] + b.parts[2]
         /\ b.kind # "frag" => Room(b) = Ovh + Sum(b.parts)
         /\ Room(b) \in Nat /\ Sum(b.parts) \in Nat /\ Sum(b.parts) + 2 <= Room(b)
         /\ Room(b) <= AggReserve /\ AggReserve + Room(b) < Limit
         /\ AggReserve + Room(b) <= TailReserve
<1>2. /\ b.kind \in {"single", "frag", "multi"} /\ b.parts \in Seq(Nat \ {0})
      /\ Len(b.parts) \in 1..2 /\ (b.kind = "single" <=> Len(b.parts) = 1)
      /\ Room(b) <= AggReserve /\ AggReserve + Room(b) < Limit /\ AggReserve + Room(b) <= TailReserve
  BY TxRingAssumption
<1>3. b.parts[1] \in Nat \ {0} /\ (Len(b.parts) = 2 => b.parts[2] \in Nat \ {0})
  BY <1>2
<1>4. Sum(b.parts) = IF Len(b.parts) = 1 THEN b.parts[1] ELSE b.parts[1] + b.parts[2]
  BY DEF Sum
<1>5. Sum(b.parts) \in Nat
  BY <1>2, <1>3, <1>4
<1>6. Room(b) = IF b.kind = "frag" THEN Len(b.parts) * Ovh + Sum(b.parts) ELSE Ovh + Sum(b.parts)
  BY DEF Room
<1>7. b.kind = "frag" => Len(b.parts) = 2
  BY <1>2
<1>8. b.kind = "frag" => Room(b) = Ovh + Ovh + b.parts[1] + b.parts[2]
  <2>1. SUFFICES ASSUME b.kind = "frag"
                 PROVE  Room(b) = Ovh + Ovh + b.parts[1] + b.parts[2]
    OBVIOUS
  <2>2. Room(b) = 2 * Ovh + Sum(b.parts)
    BY <1>6, <1>7, <2>1
  <2>3. Room(b) = Ovh + Ovh + Sum(b.parts)
    BY <2>2, Twice, Constants
  <2>4. Sum(b.parts) = b.parts[1] + b.parts[2]
    BY <1>4, <1>7, <2>1
  <2>5. b.parts[1] \in Nat /\ b.parts[2] \in Nat
    BY <1>3, <1>7, <2>1
  <2>6. Ovh + Ovh + (b.parts[1] + b.parts[2]) = Ovh + Ovh + b.parts[1] + b.parts[2]
    BY <2>5, Constants
  <2>7. QED
    BY <2>3, <2>4, <2>6
<1>9. b.kind # "frag" => Room(b) = Ovh + Sum(b.parts)
  BY <1>6
<1>10. Room(b) \in Nat /\ Sum(b.parts) + 2 <= Room(b)
  <2> DEFINE s == Sum(b.parts)
             r == Room(b)
  <2>1. CASE b.kind = "frag"
    <3>1. s = b.parts[1] + b.parts[2]
      BY <1>4, <1>7, <2>1
    <3>2. b.parts[1] \in Nat /\ b.parts[2] \in Nat
      BY <1>3, <1>7, <2>1
    <3>3. r = Ovh + Ovh + b.parts[1] + b.parts[2]
      BY <1>8, <2>1
    <3> HIDE DEF s, r
    <3>4. r \in Nat /\ s + 2 <= r
      BY <3>1, <3>2, <3>3, Headers, Constants
    <3>5. QED
      BY <3>4 DEF s, r
  <2>2. CASE b.kind # "frag"
    <3>1. s \in Nat /\ r = Ovh + s
      BY <1>5, <1>9, <2>2
    <3> HIDE DEF s, r
    <3>2. r \in Nat /\ s + 2 <= r
      BY <3>1, Constants
    <3>3. QED
      BY <3>2 DEF s, r
  <2>3. QED
    BY <2>1, <2>2
<1>11. QED
  BY <1>2, <1>3, <1>4, <1>5, <1>8, <1>9, <1>10

\* LOCAL_TXBUF_SIZE covers the headers of a batch and the first fragment of
\* another.
LEMMA Slack ==
  ASSUME NEW b \in Batches, NEW c \in Batches
  PROVE  /\ b.kind = "frag" => Ovh + b.parts[1] + Room(c) + 2 <= LocalTxBuf + Sum(c.parts)
         /\ Room(c) + 2 <= LocalTxBuf + Sum(c.parts)
<1>1. FirstFragment(b) + Room(c) - Sum(c.parts) + 2 <= LocalTxBuf
  BY TxRingAssumption
<1>2. Room(c) \in Nat /\ Sum(c.parts) \in Nat
  BY OfBatch
<1>3. FirstFragment(b) = IF b.kind = "frag" THEN Ovh + b.parts[1] ELSE 0
  BY DEF FirstFragment
<1>4. b.parts[1] \in Nat
  BY OfBatch
<1> DEFINE rc == Room(c)
           sc == Sum(c.parts)
           x == FirstFragment(b)
<1> HIDE DEF rc, sc, x
<1>5. x \in Nat
  BY <1>3, <1>4, Constants DEF x
<1>6. x + rc + 2 <= LocalTxBuf + sc
  BY <1>1, <1>2, <1>5, Constants DEF rc, sc, x
<1>7. rc + 2 <= LocalTxBuf + sc
  BY <1>2, <1>5, <1>6, Constants DEF rc, sc
<1>8. b.kind = "frag" => x = Ovh + b.parts[1]
  BY <1>3 DEF x
<1>9. QED
  BY <1>6, <1>7, <1>8 DEF rc, sc

\* The sizes of a block.
LEMMA Sizes ==
  ASSUME Block, pc["W"] \in {"hdr", "body", "next", "fin"}
  PROVE  /\ Len(w.parts) \in 1..2 /\ w.parts[1] \in Nat \ {0}
         /\ Len(w.parts) = 2 => w.parts[2] \in Nat \ {0}
         /\ w.kind = "single" <=> Len(w.parts) = 1
         /\ w.kind = "frag" => Ovh + Ovh + w.parts[1] + w.parts[2] <= AggReserve
         /\ w.kind # "frag" => Ovh + Sum(w.parts) <= AggReserve
         /\ Sum(w.parts) = IF Len(w.parts) = 1 THEN w.parts[1] ELSE w.parts[1] + w.parts[2]
         /\ LocalTxBuf > 2
<1>1. PICK b \in Batches : w.kind = b.kind /\ w.parts = b.parts
  BY DEF Block
<1>2. Room(b) + 2 <= LocalTxBuf + Sum(b.parts)
  BY Slack
<1>3. Room(b) \in Nat /\ Sum(b.parts) \in Nat /\ Sum(b.parts) + 2 <= Room(b)
  BY OfBatch
<1>4. LocalTxBuf > 2
  BY <1>2, <1>3, Constants
<1>5. QED
  BY <1>1, <1>4, OfBatch

-----------------------------------------------------------------------------
\* The dequeuer rests: it writes nothing and has no block.
LEMMA Rests ==
  ASSUME pc' \in [Contexts -> Labels], w' \in Blocks,
         pc'["W"] \notin {"hdr", "body", "next", "fin"},
         CurWritePosition' \in Nat, CurWritePosition' + AggReserve <= Limit
  PROVE  IndInv'
<1>1. Block'
  BY DEF Block
<1>2. Progress'
  BY DEF Progress, Writing
<1>3. Below'
  BY DEF Below, Writing
<1>4. QED
  BY <1>1, <1>2, <1>3 DEF IndInv

\* The steps of the tasklet, of the command thread, of the reader of the ring
\* and of the host controller.
LEMMA Aside ==
  ASSUME IndInv, pc' \in [Contexts -> Labels], pc'["W"] = pc["W"],
         w' = w, CurWritePosition' = CurWritePosition
  PROVE  IndInv'
<1>1. Block'
  BY DEF IndInv, Block
<1>2. Progress'
  BY DEF IndInv, Progress, Writing
<1>3. Below'
  BY DEF IndInv, Below, Writing
<1>4. QED
  BY <1>1, <1>2, <1>3 DEF IndInv

\* A batch is taken on while the ring has room, or the pipe is kicked.
LEMMA DeQueueStep ==
  ASSUME IndInv, NEW b \in Batches, DeQueuePacket(b)
  PROVE  IndInv'
<1>1. pc["W"] = "idle" /\ CurWritePosition' = CurWritePosition /\ pc \in [Contexts -> Labels]
  BY DEF DeQueuePacket, ring, IndInv, Block
<1>2. CurWritePosition \in Nat /\ CurWritePosition + AggReserve <= Limit /\ w \in Blocks
  BY <1>1 DEF IndInv, Below, Writing, Block
<1>3. CASE FreeDesc(Sum(b.parts))
  <2>1. /\ w' = [kind |-> b.kind, parts |-> b.parts, i |-> 1, Priv |-> 0, last |-> FALSE]
        /\ pc' = [pc EXCEPT !["W"] = "hdr"]
    BY <1>3 DEF DeQueuePacket
  <2>2. b.kind \in {"single", "frag", "multi"} /\ b.parts \in Seq(Nat \ {0})
    BY TxRingAssumption
  <2>3. w' \in Blocks /\ w'.kind = b.kind /\ w'.parts = b.parts /\ w'.i = 1
    BY <2>1, <2>2 DEF Blocks
  <2>4. pc' \in [Contexts -> Labels] /\ pc'["W"] = "hdr"
    BY <1>1, <2>1 DEF Contexts, Labels
  <2>5. Block'
    BY <2>3, <2>4 DEF Block
  <2>6. Progress'
    BY <2>3, <2>4 DEF Progress, Writing
  <2>7. Below'
    BY <1>1, <1>2, <2>4 DEF Below, Writing
  <2>8. QED
    BY <2>5, <2>6, <2>7 DEF IndInv
<1>4. CASE ~FreeDesc(Sum(b.parts))
  <2>1. w' = w /\ pc' = [pc EXCEPT !["W"] = "kick"]
    BY <1>4 DEF DeQueuePacket
  <2>2. pc' \in [Contexts -> Labels] /\ pc'["W"] = "kick"
    BY <1>1, <2>1 DEF Contexts, Labels
  <2>3. QED
    BY <1>1, <1>2, <2>1, <2>2, Rests
<1>5. QED
  BY <1>3, <1>4

\* A header starts where the last frame ended or one unit further.
LEMMA HeaderStep ==
  ASSUME IndInv, WriteHeader
  PROVE  IndInv'
<1>1. pc["W"] = "hdr" /\ pc \in [Contexts -> Labels] /\ w \in Blocks /\ w.i = 1
  BY DEF WriteHeader, IndInv, Block, Progress
<1>2. CurWritePosition \in Nat /\ CurWritePosition + AggReserve <= Limit
  BY <1>1 DEF IndInv, Below, Writing
<1>3. CASE ~CanDoWrite
  <2>1. w' = w /\ pc' = [pc EXCEPT !["W"] = "kick"] /\ CurWritePosition' = CurWritePosition
    BY <1>3 DEF WriteHeader, ring
  <2>2. pc' \in [Contexts -> Labels] /\ pc'["W"] = "kick"
    BY <1>1, <2>1 DEF Contexts, Labels
  <2>3. QED
    BY <1>1, <1>2, <2>1, <2>2, Rests
<1>4. CASE CanDoWrite
  <2> DEFINE skip == IF ENextBulkOutPosition = CurWritePosition THEN 1 ELSE 0
             cw   == CurWritePosition + skip
             n    == Ovh + w.parts[1]
             lst  == w.kind = "single" /\ LastRound(cw, n)
             priv == IF w.kind = "multi" THEN Ovh ELSE n
  <2>1. /\ CurWritePosition' = cw
        /\ w' = [w EXCEPT !.Priv = priv, !.last = lst]
        /\ pc' = [pc EXCEPT !["W"] = "body"]
    BY <1>4 DEF WriteHeader
  <2>2. cw \in Nat /\ cw + AggReserve <= Limit + 1
    BY <1>2, Constants
  <2>3. /\ Len(w.parts) \in 1..2 /\ w.parts[1] \in Nat \ {0}
        /\ Len(w.parts) = 2 => w.parts[2] \in Nat \ {0}
        /\ w.kind = "single" <=> Len(w.parts) = 1
        /\ Sum(w.parts) = IF Len(w.parts) = 1 THEN w.parts[1] ELSE w.parts[1] + w.parts[2]
    BY <1>1, Sizes DEF IndInv
  <2>4. n \in Nat /\ priv \in Nat
    BY <2>3, Constants
  <2>5. pc' \in [Contexts -> Labels] /\ pc'["W"] = "body"
    BY <1>1, <2>1 DEF Contexts, Labels
  <2>6. lst \in BOOLEAN
    BY DEF LastRound
  <2>7. lst <=> w.kind = "single" /\ cw + n + AggReserve > Limit
    BY DEF LastRound
  <2>8. priv = IF w.kind = "multi" THEN Ovh ELSE Ovh + w.parts[1]
    OBVIOUS
  <2> HIDE DEF skip, cw, n, lst, priv
  <2>9. /\ w' \in Blocks /\ w'.kind = w.kind /\ w'.parts = w.parts /\ w'.i = 1
        /\ w'.Priv = priv /\ w'.last = lst
    BY <1>1, <2>1, <2>4, <2>6 DEF Blocks
  <2>10. Block'
    <3>1. \E b \in Batches : w.kind = b.kind /\ w.parts = b.parts
      BY <1>1 DEF IndInv, Block
    <3>2. QED
      BY <2>5, <2>9, <3>1 DEF Block
  <2>11. Progress'
    <3>1. Ovh <= Ovh + Sum(w.parts) - w.parts[1] - (IF 1 < Len(w.parts) THEN w.parts[2] ELSE 0)
      BY <2>3, Constants
    <3>2. QED
      BY <2>3, <2>5, <2>8, <2>9, <3>1 DEF Progress, Writing
  <2>12. Below'
    <3>1. CurWritePosition' \in Nat /\ CurWritePosition' + AggReserve <= Limit + 1
      BY <2>1, <2>2
    <3>2. ASSUME w.kind # "multi", Len(w.parts) = 1, ~lst
          PROVE  cw + priv + AggReserve <= Limit
      <4>1. priv = n /\ w.kind = "single"
        BY <2>3, <3>2 DEF priv
      <4>2. ~(cw + n + AggReserve > Limit)
        BY <2>7, <3>2, <4>1
      <4>3. QED
        BY <2>2, <2>4, <4>1, <4>2, Constants
    <3>3. QED
      BY <2>1, <2>5, <2>9, <3>1, <3>2 DEF Below, Writing
  <2>13. QED
    BY <2>10, <2>11, <2>12 DEF IndInv
<1>5. QED
  BY <1>3, <1>4

\* The payload of a subframe is added to Priv, that of a whole frame was already.
LEMMA BodyStep ==
  ASSUME IndInv, WriteBody
  PROVE  IndInv'
<1>1. /\ pc["W"] = "body" /\ pc \in [Contexts -> Labels] /\ w \in Blocks
      /\ CurWritePosition' = CurWritePosition /\ CurWritePosition \in Nat
      /\ CurWritePosition + AggReserve <= Limit + 1 /\ w.i <= Len(w.parts)
  BY DEF WriteBody, IndInv, Block, Progress, Below, Writing, ring
<1>2. /\ Len(w.parts) \in 1..2 /\ w.parts[1] \in Nat \ {0}
      /\ Len(w.parts) = 2 => w.parts[2] \in Nat \ {0}
      /\ w.kind = "single" <=> Len(w.parts) = 1
      /\ Sum(w.parts) = IF Len(w.parts) = 1 THEN w.parts[1] ELSE w.parts[1] + w.parts[2]
  BY <1>1, Sizes DEF IndInv
<1>3. w.i \in 1..2 /\ w.Priv \in Nat /\ w.last \in BOOLEAN /\ w.kind \in {"single", "frag", "multi"}
  BY <1>1 DEF Blocks
<1>4. w.parts[w.i] \in Nat
  BY <1>1, <1>2, <1>3
<1>5. pc' \in [Contexts -> Labels] /\ pc'["W"] = IF w.i = Len(w.parts) THEN "fin" ELSE "next"
  BY <1>1 DEF WriteBody, Contexts, Labels
<1>6. /\ w' \in Blocks /\ w'.kind = w.kind /\ w'.parts = w.parts /\ w'.i = w.i
      /\ w'.last = w.last
      /\ w'.Priv = IF w.kind # "multi" THEN w.Priv ELSE w.Priv + w.parts[w.i]
  <2>1. CASE w.kind # "multi"
    <3>1. w' = w
      BY <2>1 DEF WriteBody
    <3>2. QED
      BY <1>1, <2>1, <3>1
  <2>2. CASE w.kind = "multi"
    <3>1. w' = [w EXCEPT !.Priv = @ + w.parts[w.i]]
      BY <2>2 DEF WriteBody
    <3>2. w.Priv + w.parts[w.i] \in Nat
      BY <1>3, <1>4
    <3>3. QED
      BY <1>1, <2>2, <3>1, <3>2 DEF Blocks
  <2>3. QED
    BY <2>1, <2>2
<1>7. Block'
  <2>1. \E b \in Batches : w.kind = b.kind /\ w.parts = b.parts
    BY <1>1 DEF IndInv, Block
  <2>2. QED
    BY <1>5, <1>6, <2>1 DEF Block
<1>8. Progress'
  <2>1. w.i # Len(w.parts) => w.i = 1 /\ Len(w.parts) = 2
    BY <1>1, <1>2, <1>3, OneOrTwo, Zenon
  <2>2. pc'["W"] # "hdr" /\ pc'["W"] # "body" /\ Writing'
    BY <1>5 DEF Writing
  <2>3. /\ pc'["W"] = "next" => w'.i = 1 /\ Len(w'.parts) = 2
        /\ pc'["W"] = "fin" => w'.i = Len(w'.parts)
        /\ w'.i <= Len(w'.parts)
    BY <1>1, <1>5, <1>6, <2>1
  <2>4. w'.kind # "multi" =>
          w'.Priv = IF w'.i = 1 THEN Ovh + w'.parts[1] ELSE Ovh + Ovh + w'.parts[1] + w'.parts[2]
    BY <1>1, <1>6 DEF IndInv, Progress, Writing
  <2>5. w'.kind = "multi" =>
          w'.Priv <= Ovh + Sum(w'.parts) - 0 - (IF w'.i < Len(w'.parts) THEN w'.parts[2] ELSE 0)
    <3>1. SUFFICES ASSUME w.kind = "multi"
                   PROVE  w.Priv + w.parts[w.i] <= Ovh + Sum(w.parts) - 0
                            - (IF w.i < Len(w.parts) THEN w.parts[2] ELSE 0)
      BY <1>6
    <3>2. w.Priv <= Ovh + Sum(w.parts) - w.parts[w.i]
                      - (IF w.i < Len(w.parts) THEN w.parts[2] ELSE 0)
      BY <1>1, <3>1 DEF IndInv, Progress, Writing
    <3>3. (IF w.i < Len(w.parts) THEN w.parts[2] ELSE 0) \in Nat
      BY <1>1, <1>2, <1>3
    <3>4. Sum(w.parts) \in Nat
      BY <1>2
    <3> DEFINE now == w.parts[w.i]
               rest == IF w.i < Len(w.parts) THEN w.parts[2] ELSE 0
               s == Sum(w.parts)
    <3>5. w.Priv \in Nat /\ now \in Nat /\ rest \in Nat /\ s \in Nat
      BY <1>3, <1>4, <3>3, <3>4
    <3>6. w.Priv <= Ovh + s - now - rest
      BY <3>2
    <3>7. SUFFICES w.Priv + now <= Ovh + s - 0 - rest
      OBVIOUS
    <3> HIDE DEF now, rest, s
    <3>8. QED
      BY <3>5, <3>6, Constants
  <2>6. QED
    BY <2>2, <2>3, <2>4, <2>5 DEF Progress
<1>9. Below'
  <2>1. Writing /\ Writing'
    BY <1>1, <1>5 DEF Writing
  <2>2. w'.kind # "multi" => w'.Priv = w.Priv
    BY <1>6
  <2>3. QED
    BY <1>1, <1>6, <2>1, <2>2 DEF Below, IndInv
<1>10. QED
  BY <1>7, <1>8, <1>9 DEF IndInv

\* The second fragment brings a header of its own; only it is tested for the end
\* of the round, with all that the batch takes.
LEMMA NextStep ==
  ASSUME IndInv, WriteNext
  PROVE  IndInv'
<1>1. /\ pc["W"] = "next" /\ pc \in [Contexts -> Labels] /\ w \in Blocks
      /\ CurWritePosition' = CurWritePosition /\ CurWritePosition \in Nat
      /\ CurWritePosition + AggReserve <= Limit + 1 /\ w.i = 1 /\ Len(w.parts) = 2
  BY DEF WriteNext, IndInv, Block, Progress, Below, Writing
<1>2. /\ w.parts[1] \in Nat \ {0} /\ w.parts[2] \in Nat \ {0}
      /\ w.kind # "single" /\ Sum(w.parts) = w.parts[1] + w.parts[2]
  BY <1>1, Sizes DEF IndInv
<1>3. w.Priv \in Nat /\ w.kind \in {"single", "frag", "multi"}
  BY <1>1 DEF Blocks
<1>4. pc' \in [Contexts -> Labels] /\ pc'["W"] = "body" /\ Writing' /\ Writing
  BY <1>1 DEF WriteNext, Contexts, Labels, Writing
<1>5. \E b \in Batches : w.kind = b.kind /\ w.parts = b.parts
  BY <1>1 DEF IndInv, Block
<1>6. CASE w.kind = "frag"
  <2> DEFINE n   == Ovh + w.parts[2]
             lst == w.i + 1 = Len(w.parts) /\ LastRound(CurWritePosition, w.Priv + n)
             p   == w.Priv + n
  <2>0. w.i + 1 = 2
    BY <1>1
  <2>1. w' = [w EXCEPT !.i = 2, !.Priv = p, !.last = lst]
    <3>1. w' = [w EXCEPT !.i = w.i + 1, !.Priv = w.Priv + (Ovh + w.parts[w.i + 1]),
                         !.last = w.i + 1 = Len(w.parts) /\
                                    LastRound(CurWritePosition, w.Priv + (Ovh + w.parts[w.i + 1]))]
      BY <1>6 DEF WriteNext
    <3>2. QED
      BY <2>0, <3>1, Zenon
  <2>2. w.Priv = Ovh + w.parts[1]
    BY <1>1, <1>4, <1>6 DEF IndInv, Progress
  <2>3. p \in Nat /\ p = Ovh + Ovh + w.parts[1] + w.parts[2]
    BY <1>2, <1>3, <2>2, Constants
  <2>4. lst \in BOOLEAN /\ (lst <=> CurWritePosition + p + AggReserve > Limit)
    BY <1>1, <2>0 DEF LastRound
  <2> HIDE DEF n, lst, p
  <2>5. /\ w' \in Blocks /\ w'.kind = "frag" /\ w'.parts = w.parts /\ w'.i = 2
        /\ w'.Priv = p /\ w'.last = lst
    <3>0. w \in Blocks /\ p \in Nat /\ lst \in BOOLEAN /\ 2 \in 1..2
      BY <1>1, <2>3, <2>4
    <3>1. w' \in Blocks
      BY <2>1, <3>0 DEF Blocks
    <3>2. QED
      BY <1>1, <1>6, <2>1, <3>1 DEF Blocks
  <2>6. Block'
    BY <1>4, <1>5, <1>6, <2>5 DEF Block
  <2>7. Progress'
    BY <1>1, <1>4, <2>3, <2>5 DEF Progress
  <2>8. Below'
    <3>1. ~lst => CurWritePosition + p + AggReserve <= Limit
      <4>1. ~lst => ~(CurWritePosition + p + AggReserve > Limit)
        BY <2>4
      <4>2. QED
        BY <1>1, <2>3, <4>1, Constants
    <3>2. QED
      BY <1>1, <1>4, <2>5, <3>1 DEF Below
  <2>9. QED
    BY <2>6, <2>7, <2>8 DEF IndInv
<1>7. CASE w.kind = "multi"
  <2>1. w' = [w EXCEPT !.i = 2]
    BY <1>1, <1>7 DEF WriteNext
  <2>2. /\ w' \in Blocks /\ w'.kind = "multi" /\ w'.parts = w.parts /\ w'.i = 2
        /\ w'.Priv = w.Priv
    BY <1>1, <1>7, <2>1 DEF Blocks
  <2>3. Block'
    BY <1>4, <1>5, <1>7, <2>2 DEF Block
  <2>4. w.Priv <= Ovh + Sum(w.parts) - 0 - w.parts[2]
    BY <1>1, <1>4, <1>7 DEF IndInv, Progress
  <2>5. w.Priv <= Ovh + Sum(w.parts) - w.parts[2] - 0
    <3>1. Sum(w.parts) \in Nat
      BY <1>2
    <3>2. QED
      BY <1>2, <1>3, <2>4, <3>1, Constants
  <2>6. Progress'
    <3>1. w'.Priv <= Ovh + Sum(w'.parts) - w'.parts[w'.i]
                      - (IF w'.i < Len(w'.parts) THEN w'.parts[2] ELSE 0)
      <4>0. w'.i = 2 /\ w'.parts = w.parts /\ Len(w.parts) = 2
        BY <1>1, <2>2
      <4>1. ~(w'.i < Len(w'.parts)) /\ w'.parts[w'.i] = w.parts[2]
        BY <4>0
      <4>2. QED
        BY <2>2, <2>5, <4>1
    <3>2. w'.i = Len(w'.parts)
      BY <1>1, <2>2
    <3>3. QED
      BY <1>1, <1>4, <2>2, <3>1, <3>2 DEF Progress
  <2>7. Below'
    BY <1>1, <1>4, <2>2 DEF Below
  <2>8. QED
    BY <2>3, <2>6, <2>7 DEF IndInv
<1>8. QED
  BY <1>2, <1>3, <1>6, <1>7

\* The frame that did not leave AggReserve free was the last of its round.
LEMMA PublishStep ==
  ASSUME IndInv, PublishWrite
  PROVE  IndInv'
<1>1. /\ pc["W"] = "fin" /\ w.kind # "multi" /\ pc \in [Contexts -> Labels] /\ w' = w /\ w \in Blocks
      /\ pc' = [pc EXCEPT !["W"] = "kick"] /\ CurWritePosition \in Nat
      /\ CurWritePosition' = IF w.last THEN 1 ELSE CurWritePosition + w.Priv
  BY DEF PublishWrite, IndInv, Block, Below
<1>2. pc' \in [Contexts -> Labels] /\ pc'["W"] = "kick"
  BY <1>1 DEF Contexts, Labels
<1>3. w.Priv \in Nat
  BY <1>1 DEF Blocks
<1>4. ~w.last => CurWritePosition + w.Priv + AggReserve <= Limit
  BY <1>1 DEF IndInv, Progress, Below, Writing
<1>5. CurWritePosition' \in Nat /\ CurWritePosition' + AggReserve <= Limit
  BY <1>1, <1>3, <1>4, Constants
<1>6. QED
  BY <1>1, <1>2, <1>5, Rests

\* The same for an A-MSDU, tested only when all of it is written.
LEMMA FinalStep ==
  ASSUME IndInv, FinalWriteTxResource
  PROVE  IndInv'
<1>1. /\ pc["W"] = "fin" /\ pc \in [Contexts -> Labels] /\ w' = w /\ w \in Blocks
      /\ pc' = [pc EXCEPT !["W"] = "kick"] /\ CurWritePosition \in Nat
  BY DEF FinalWriteTxResource, IndInv, Block, Below
<1>2. CurWritePosition' = IF LastRound(CurWritePosition, w.Priv) THEN 1 ELSE CurWritePosition + w.Priv
  BY DEF FinalWriteTxResource
<1>3. pc' \in [Contexts -> Labels] /\ pc'["W"] = "kick"
  BY <1>1 DEF Contexts, Labels
<1>4. w.Priv \in Nat
  BY <1>1 DEF Blocks
<1>5. ~LastRound(CurWritePosition, w.Priv) => CurWritePosition + w.Priv + AggReserve <= Limit
  BY <1>1, <1>4, Constants DEF LastRound
<1>6. CurWritePosition' \in Nat /\ CurWritePosition' + AggReserve <= Limit
  BY <1>1, <1>2, <1>4, <1>5, Constants
<1>7. QED
  BY <1>1, <1>3, <1>6, Rests

\* A kick ends the dequeuer's round of work.
LEMMA KickStep ==
  ASSUME IndInv, NEW c \in Contexts, KickBulkOut(c)
  PROVE  IndInv'
<1>1. /\ w' = w /\ CurWritePosition' = CurWritePosition /\ pc \in [Contexts -> Labels]
      /\ pc' = [pc EXCEPT ![c] = Afterwards(c)] /\ pc[c] \in {"kick", "kick1", "kick2"}
      /\ w \in Blocks
  BY DEF KickBulkOut, KickPoint, ring, IndInv, Block
<1>2. Afterwards(c) \in {"check", "idle"}
  BY DEF Afterwards
<1>3. pc' \in [Contexts -> Labels]
  BY <1>1, <1>2 DEF Labels
<1>4. CASE c = "W"
  <2>1. pc'["W"] \in {"check", "idle"} /\ pc["W"] \in {"kick", "kick1", "kick2"}
    BY <1>1, <1>2, <1>4
  <2>2. CurWritePosition \in Nat /\ CurWritePosition + AggReserve <= Limit
    BY <2>1 DEF IndInv, Below, Writing
  <2>3. QED
    BY <1>1, <1>3, <2>1, <2>2, Rests
<1>5. CASE c # "W"
  <2>1. pc'["W"] = pc["W"]
    BY <1>1, <1>5 DEF Contexts
  <2>2. QED
    BY <1>1, <1>3, <2>1, Aside
<1>6. QED
  BY <1>4, <1>5

\* All the steps that leave the dequeuer alone.
LEMMA AsideStep ==
  ASSUME IndInv,
         \/ SeesEmpty \/ GivesUp \/ BuildUrb \/ SubmitOk \/ SubmitFails
         \/ UrbDone \/ UrbFails \/ DataOutComplete \/ TaskletCheck
         \/ OtherPipeQueuesReset \/ ResetBulkOut
  PROVE  IndInv'
<1>1. w' = w
  BY DEF SeesEmpty, GivesUp, BuildUrb, SubmitOk, SubmitFails, UrbDone, UrbFails,
         DataOutComplete, TaskletCheck, OtherPipeQueuesReset, ResetBulkOut
<1>2. CurWritePosition' = CurWritePosition
  BY DEF SeesEmpty, GivesUp, BuildUrb, SubmitOk, SubmitFails, UrbDone, UrbFails,
         DataOutComplete, TaskletCheck, OtherPipeQueuesReset, ResetBulkOut, ring
<1>3. \/ pc' = pc
      \/ \E l \in {"kick1", "idle", "kick2"} : pc' = [pc EXCEPT !["T"] = l]
      \/ pc' = [pc EXCEPT !["C"] = "kick"]
  BY DEF SeesEmpty, GivesUp, BuildUrb, SubmitOk, SubmitFails, UrbDone, UrbFails,
         DataOutComplete, TaskletCheck, OtherPipeQueuesReset, ResetBulkOut
<1>4. pc \in [Contexts -> Labels]
  BY DEF IndInv, Block
<1>5. pc' \in [Contexts -> Labels] /\ pc'["W"] = pc["W"]
  BY <1>3, <1>4 DEF Contexts, Labels
<1>6. QED
  BY <1>1, <1>2, <1>5, Aside

\* The ring starts empty, with AggReserve below the limit.
LEMMA InitInd == Init => IndInv
<1>1. SUFFICES ASSUME Init PROVE IndInv
  OBVIOUS
<1>2. pc \in [Contexts -> Labels] /\ pc["W"] = "idle" /\ CurWritePosition = 0
  BY <1>1 DEF Init, Contexts, Labels
<1>3. w \in Blocks
  <2>1. <<1>> \in Seq(Nat \ {0})
    OBVIOUS
  <2>2. QED
    BY <1>1, <2>1 DEF Init, NoBlk, Blocks
<1>4. Block
  BY <1>2, <1>3 DEF Block
<1>5. Progress
  BY <1>2 DEF Progress, Writing
<1>6. Below
  BY <1>2, Constants DEF Below, Writing
<1>7. QED
  BY <1>4, <1>5, <1>6 DEF IndInv

\* IndInv is inductive.
LEMMA IndStep == IndInv /\ [Next]_vars => IndInv'
<1>1. SUFFICES ASSUME IndInv, [Next]_vars PROVE IndInv'
  OBVIOUS
<1>2. CASE UNCHANGED vars
  <2>1. pc' = pc /\ w' = w /\ CurWritePosition' = CurWritePosition
    BY <1>2 DEF vars, ring
  <2>2. QED
    BY <1>1, <2>1, Aside DEF IndInv, Block
<1>3. ASSUME NEW b \in Batches, DeQueuePacket(b) PROVE IndInv'
  BY <1>1, <1>3, DeQueueStep
<1>4. CASE WriteHeader
  BY <1>1, <1>4, HeaderStep
<1>5. CASE WriteBody
  BY <1>1, <1>5, BodyStep
<1>6. CASE WriteNext
  BY <1>1, <1>6, NextStep
<1>7. CASE PublishWrite
  BY <1>1, <1>7, PublishStep
<1>8. CASE FinalWriteTxResource
  BY <1>1, <1>8, FinalStep
<1>9. ASSUME NEW c \in Contexts, KickBulkOut(c) PROVE IndInv'
  BY <1>1, <1>9, KickStep
<1>10. CASE \/ SeesEmpty \/ GivesUp \/ BuildUrb \/ SubmitOk \/ SubmitFails
            \/ UrbDone \/ UrbFails \/ DataOutComplete \/ TaskletCheck
            \/ OtherPipeQueuesReset \/ ResetBulkOut
  BY <1>1, <1>10, AsideStep
<1>11. QED
  BY <1>1, <1>2, <1>3, <1>4, <1>5, <1>6, <1>7, <1>8, <1>9, <1>10 DEF Next

\* What is written of a batch fits into AggReserve, and one unit behind it into
\* the LOCAL_TXBUF_SIZE bytes the buffer has beyond MAX_TXBULK_LIMIT.
LEMMA IndBounds == IndInv => WritesInBounds
<1>1. SUFFICES ASSUME IndInv, Writing PROVE CurWritePosition + w.Priv + 1 <= BufSize
  BY DEF WritesInBounds, Writing
<1>2. /\ CurWritePosition \in Nat /\ CurWritePosition + AggReserve <= Limit + 1
      /\ w \in Blocks /\ w.i <= Len(w.parts)
  BY <1>1 DEF IndInv, Below, Block, Progress
<1>3. /\ Len(w.parts) \in 1..2 /\ w.parts[1] \in Nat \ {0}
      /\ Len(w.parts) = 2 => w.parts[2] \in Nat \ {0}
      /\ w.kind = "single" <=> Len(w.parts) = 1
      /\ w.kind = "frag" => Ovh + Ovh + w.parts[1] + w.parts[2] <= AggReserve
      /\ w.kind # "frag" => Ovh + Sum(w.parts) <= AggReserve
      /\ Sum(w.parts) = IF Len(w.parts) = 1 THEN w.parts[1] ELSE w.parts[1] + w.parts[2]
      /\ LocalTxBuf > 2
  BY <1>1, Sizes DEF IndInv, Writing
<1>4. w.i \in 1..2 /\ w.Priv \in Nat /\ w.kind \in {"single", "frag", "multi"}
  BY <1>2 DEF Blocks
<1>5. w.Priv <= AggReserve
  <2>1. CASE w.kind = "single"
    <3>1. Len(w.parts) = 1 /\ w.i = 1
      BY <1>2, <1>3, <1>4, <2>1, OneOrTwo, Zenon
    <3>2. w.Priv = Ovh + w.parts[1]
      BY <1>1, <2>1, <3>1 DEF IndInv, Progress
    <3>3. QED
      BY <1>3, <2>1, <3>1, <3>2
  <2>2. CASE w.kind = "frag"
    <3>1. w.parts[2] \in Nat /\ w.parts[1] \in Nat
      BY <1>3, <2>2
    <3>2. w.Priv = IF w.i = 1 THEN Ovh + w.parts[1] ELSE Ovh + Ovh + w.parts[1] + w.parts[2]
      BY <1>1, <2>2 DEF IndInv, Progress
    <3>3. Ovh + w.parts[1] <= Ovh + Ovh + w.parts[1] + w.parts[2]
      BY <3>1, Constants
    <3>4. Ovh + Ovh + w.parts[1] + w.parts[2] <= AggReserve
      BY <1>3, <2>2
    <3> HIDE <1>3
    <3>5. Ovh + w.parts[1] <= AggReserve
      BY <3>1, <3>3, <3>4, Constants
    <3>6. QED
      BY <3>2, <3>4, <3>5
  <2>3. CASE w.kind = "multi"
    <3> DEFINE now == IF pc["W"] = "body" THEN w.parts[w.i] ELSE 0
               rest == IF w.i < Len(w.parts) THEN w.parts[2] ELSE 0
               s == Sum(w.parts)
    <3>1. w.Priv <= Ovh + s - now - rest
      BY <1>1, <2>3 DEF IndInv, Progress
    <3>2. now \in Nat /\ rest \in Nat /\ s \in Nat
      BY <1>2, <1>3, <1>4
    <3>3. Ovh + s <= AggReserve
      BY <1>3, <2>3
    <3> HIDE DEF now, rest, s
    <3>4. QED
      BY <1>4, <3>1, <3>2, <3>3, Constants
  <2>4. QED
    BY <1>4, <2>1, <2>2, <2>3
<1>6. CurWritePosition + w.Priv + 1 <= Limit + LocalTxBuf
  BY <1>2, <1>3, <1>4, <1>5, Constants
<1>7. QED
  BY <1>6 DEF BufSize

\* No frame, nor the zeroed unit behind it, is ever written past TransferBuffer
\* (RtmpUSB_Write*TxResource), whatever the sizes of the ring and of the frames,
\* however the reader of the ring interleaves with the copy, and however often
\* URBs fail.
THEOREM InBounds == Spec => []WritesInBounds
<1>1. Spec => []IndInv
  BY InitInd, IndStep, PTL DEF Spec
<1>2. QED
  BY <1>1, IndBounds, PTL
-----------------------------------------------------------------------------
(***************************************************************************)
(* The layout of the ring.                                                 *)
(*                                                                         *)
(* Frames are counted in the order they are published: frame i starts at   *)
(* P[i], takes N[i] units and has number F[i]. The last URB holds frames   *)
(* u..r-1, the frames r..t-1 wait, and frame t will start at P[t], the     *)
(* write position. Frame z was the last of its round: frame z + 1 starts   *)
(* at 1 again. While z >= u the writer is a round ahead of the last URB.   *)
(***************************************************************************)

\* What the first 8 bytes of a frame hold.
TxInfo(f, n, l, nv) == [f |-> f, k |-> 0, len |-> n, last |-> l, nv |-> nv]

\* The units of a frame behind the first, the final one marked.
Whole(v, p, n, f) ==
  \A k \in 1..(n - 1) : v[p + k].f = f /\ v[p + k].k = k /\ (v[p + k].last <=> k = n - 1)

\* The same for a frame of which m units are written and the final one is not.
Begun(v, p, m, f) ==
  \A k \in 1..(m - 1) : v[p + k].f = f /\ v[p + k].k = k /\ ~v[p + k].last

\* The ring with the parked header in its place.
PutBack(b, c, e, s) == IF c THEN [b EXCEPT ![e] = s] ELSE b
View == PutBack(buf, bCopySavePad, ENextBulkOutPosition, SavedPad)

\* Indices and sizes.
Indexed(u, r, t, z, P, N) ==
  /\ u \in Nat /\ r \in Nat /\ t \in Nat /\ z \in Nat /\ P \in [Nat -> Nat] /\ N \in [Nat -> Nat]
  /\ 1 <= u /\ u <= r /\ r <= t /\ z < t
  /\ \A i \in u..(t - 1) : N[i] > Ovh /\ P[i] >= 1 /\ P[i] + N[i] < BufSize

\* In a round the frames lie one behind the other.
Rising(u, t, z, P, N) ==
  \A i \in u..(t - 1) : \A j \in (i + 1)..t : ~(i <= z /\ z < j) => P[i] + N[i] <= P[j]

\* Nothing lies between the frames of a URB, and between those that wait.
Joined(u, r, t, z, P, N) ==
  /\ \A i \in r..(t - 1) : P[i + 1] = IF i = z THEN 1 ELSE P[i] + N[i]
  /\ \A i \in u..(r - 2) : i # z /\ P[i + 1] = P[i] + N[i]

\* No frame starts so far up that a writer that stays LocalTxBuf below it, one
\* round later, would end its round.
LowEnough(u, t, P) ==
  \A i \in u..(t - 1) : \A c \in Batches :
    P[i] + AggReserve + Room(c) - Sum(c.parts) + 1 <= Limit + LocalTxBuf

\* The positions of the ring. Before the first URB, the writer stays in its first
\* round.
Positions(u, r, t, z, P, N) ==
  /\ ENextBulkOutPosition = P[r] /\ CurWritePosition = P[t]
  /\ u = r => /\ z < u /\ NextBulkOutPosition = 0 /\ P[r] <= 1
              /\ t = r /\ ~Writing => P[r] = 0
  /\ u < r => /\ NextBulkOutPosition = P[u] /\ P[r] >= 1
              /\ NextBulkOutPosition + BulkOutSize = P[r - 1] + N[r - 1]
  /\ P[t] = 0 => u = t /\ ~Writing
  /\ u <= z /\ z = r - 1 /\ r = t /\ ~Writing => P[t] = 1

\* A writer that is a round ahead stays below the last URB.
Behind(u, r, z) ==
  /\ z >= u => /\ pc["W"] = "hdr" => CurWritePosition + Sum(w.parts) + LocalTxBuf <= NextBulkOutPosition
               /\ Writing => CurWritePosition + Room(w) + 1 <= NextBulkOutPosition
               /\ CurWritePosition < NextBulkOutPosition \/ CurWritePosition = 1
  /\ Writing /\ (z >= u \/ u = r) => CurWritePosition + Room(w) + AggReserve <= Limit

\* The header behind the last URB is parked whenever there is one.
Parked(u, r, t, z, P, N) ==
  bCopySavePad <=> /\ u < r /\ z # r - 1 /\ P[r] = P[r - 1] + N[r - 1]
                   /\ r < t \/ Writing

\* The frames of the last URB, and those that wait.
Content(v, u, r, t, z, P, N, F) ==
  /\ \A i \in u..(r - 1) : v[P[i]] = TxInfo(F[i], N[i], FALSE, i # r - 1)
  /\ \A i \in r..(t - 1) : v[P[i]] = TxInfo(F[i], N[i], i = z, FALSE)
  /\ \A i \in u..(t - 1) : Whole(v, P[i], N[i], F[i])

\* The second fragment of a batch is being written.
Second == Writing /\ w.kind = "frag" /\ w.i = 2

\* Where the frame being written starts.
Base == IF Second THEN CurWritePosition + Ovh + w.parts[1] ELSE CurWritePosition

\* The frames being written.
Current(v) ==
  /\ Second => /\ v[CurWritePosition] = TxInfo(next - 1, Ovh + w.parts[1], FALSE, FALSE)
               /\ Whole(v, CurWritePosition, Ovh + w.parts[1], next - 1)
  /\ Writing /\ w.kind # "multi" =>
       v[Base] = TxInfo(next, Ovh + w.parts[w.i], w.last, FALSE)
  /\ Writing /\ w.kind = "multi" => v[Base] = TxInfo(next, Ovh, FALSE, FALSE)
  /\ pc["W"] = "body" /\ w.kind # "multi" => Begun(v, Base, Ovh, next)
  /\ pc["W"] \in {"body", "next"} /\ w.kind = "multi" => Begun(v, Base, w.Priv, next)
  /\ pc["W"] \in {"next", "fin"} /\ w.kind # "multi" => Whole(v, Base, Ovh + w.parts[w.i], next)
  /\ pc["W"] = "fin" /\ w.kind = "multi" => Whole(v, Base, w.Priv, next)

\* The number of the first frame that is not yet published.
Free == IF Second THEN next - 1 ELSE next

\* The frames the device has had or that were given up.
Gone == FramesOf(sent) \union dropped

\* The last URB may still have to be sent (again).
Owed == rd.pc = "built" \/ urb \in {"flying", "failed"} \/ bulkOutReset

\* The numbers of the frames, and what has become of them.
Numbered(u, r, t, F) ==
  /\ F \in [Nat -> Nat] /\ t <= Free /\ 1 <= Free
  /\ \A i \in u..(t - 1) : 1 <= F[i] /\ F[i] < Free
  /\ \A i \in u..(t - 1) : \A j \in (i + 1)..(t - 1) : F[i] < F[j]
  /\ \A f \in 1..(Free - 1) : f \in Gone \/ \E i \in u..(t - 1) : f = F[i]
  /\ ~Owed => \A i \in u..(r - 1) : F[i] \in Gone

\* What has been sent is older than what waits, and is the last URB or older.
SentSoFar(u, r, t, F) ==
  /\ \A i \in DOMAIN sent : sent[i].f < Free /\ \A j \in r..(t - 1) : sent[i].f < F[j]
  /\ \/ \A i \in u..(r - 1) : F[i] \in FramesOf(sent)
     \/ \A i \in DOMAIN sent : \A j \in u..(r - 1) : sent[i].f < F[j]

\* One user of the pipe at a time, and none while a reset is asked for; a reset
\* is asked for only after a URB.
OneUser ==
  /\ BulkOutPending <=> (rd.pc # "idle" \/ urb # "none")
  /\ ~(rd.pc # "idle" /\ urb # "none")
  /\ bulkOutReset => ~BulkOutPending

HasUrb(u, r) == rd.pc = "built" \/ urb # "none" \/ bulkOutReset \/ resetCmds > 0 => u < r

\* All about one layout.
Layout(u, r, t, z, P, N, F) ==
  /\ Indexed(u, r, t, z, P, N) /\ Rising(u, t, z, P, N) /\ Joined(u, r, t, z, P, N)
  /\ LowEnough(u, t, P) /\ Positions(u, r, t, z, P, N) /\ Behind(u, r, z)
  /\ Parked(u, r, t, z, P, N) /\ Content(View, u, r, t, z, P, N, F)
  /\ Numbered(u, r, t, F) /\ SentSoFar(u, r, t, F) /\ HasUrb(u, r)

\* How far a block has been written, and the writer's own state.
Written ==
  /\ pc["W"] \in {"hdr", "body", "next", "fin"} => next + Len(w.parts) - w.i <= MaxFrames
  /\ bCurWriting <=> Writing
  /\ CurWriteRealPos \in Nat
  /\ ~Writing => CurWriteRealPos = CurWritePosition
  /\ Writing => CurWriteRealPos > CurWritePosition /\ CurWriteRealPos <= CurWritePosition + w.Priv
  /\ Writing /\ w.kind = "multi" =>
       w.Priv = Ovh + (IF w.i = 1 /\ pc["W"] = "body" THEN 0
                       ELSE IF pc["W"] = "fin" THEN w.parts[1] + w.parts[2] ELSE w.parts[1])
  /\ Writing /\ w.kind # "multi" =>
       (w.last <=> w.i = Len(w.parts) /\ LastRound(CurWritePosition, w.Priv))

\* The types.
Typed ==
  /\ buf \in [Pos -> Cells] /\ SavedPad \in Cells
  /\ {bCurWriting, bCopySavePad, BulkOutPending, dataFlag, bulkOutReset, bForcePrintTX} \subseteq BOOLEAN
  /\ BulkOutSize \in 0..BufSize /\ NextBulkOutPosition \in Pos
  /\ rd \in [pc : {"idle", "claimed", "empty", "built"}, by : Contexts]
  /\ urb \in {"none", "flying", "done", "failed"} /\ resetCmds \in Nat
  /\ next \in 1..(MaxFrames + 1) /\ sent \in Seq([f : Nat, ok : BOOLEAN, cnt : BOOLEAN])

\* All that does not depend on the layout.
Plain ==
  /\ IndInv /\ Typed /\ Written /\ OneUser /\ Current(View)
  /\ NoZeroLengthFrame /\ SentIntact /\ FirstSentInOrder

Laid == \E u, r, t, z \in Nat : \E P, N, F \in [Nat -> Nat] : Layout(u, r, t, z, P, N, F)

\* The inductive invariant.
RingInv == Plain /\ Laid
-----------------------------------------------------------------------------
(***************************************************************************)
(* Positions.                                                              *)
(***************************************************************************)

\* The sizes of the block being written.
LEMMA OfBlock ==
  ASSUME Block, pc["W"] \in {"hdr", "body", "next", "fin"}
  PROVE  \E b \in Batches :
           /\ w.kind = b.kind /\ w.parts = b.parts
           /\ Room(w) = Room(b) /\ Sum(w.parts) = Sum(b.parts)
<1>1. PICK b \in Batches : w.kind = b.kind /\ w.parts = b.parts
  BY DEF Block
<1>2. Room(w) = Room(b)
  BY <1>1 DEF Room
<1>3. QED
  BY <1>1, <1>2

\* A published frame ends below the write position, or the writer is a round
\* ahead and the frame is not below the last URB.
LEMMA Outside ==
  ASSUME NEW u, NEW r, NEW t, NEW z, NEW P, NEW N, NEW i \in u..(t - 1),
         Indexed(u, r, t, z, P, N), Rising(u, t, z, P, N), Positions(u, r, t, z, P, N)
  PROVE  P[i] + N[i] <= CurWritePosition \/ (u <= z /\ NextBulkOutPosition <= P[i])
<1>1. /\ u \in Nat /\ r \in Nat /\ t \in Nat /\ z \in Nat /\ 1 <= u /\ u <= r /\ r <= t /\ z < t
      /\ P \in [Nat -> Nat] /\ N \in [Nat -> Nat]
  BY DEF Indexed
<1>2. i \in Nat /\ u <= i /\ i < t /\ t \in (i + 1)..t
  BY <1>1
<1>3. CASE ~(i <= z)
  <2>1. P[i] + N[i] <= P[t]
    BY <1>2, <1>3 DEF Rising
  <2>2. QED
    BY <2>1 DEF Positions
<1>4. CASE i <= z
  <2>1. u <= z /\ u < r
    <3>1. u <= z
      BY <1>1, <1>2, <1>4
    <3>2. u # r
      BY <1>1, <3>1 DEF Positions
    <3>3. QED
      BY <1>1, <3>1, <3>2
  <2>2. NextBulkOutPosition = P[u]
    BY <2>1 DEF Positions
  <2>3. CASE i = u
    <3>1. P[u] <= P[u]
      BY <1>1
    <3>2. QED
      BY <2>1, <2>2, <2>3, <3>1
  <2>4. CASE i # u
    <3>1. u \in u..(t - 1) /\ i \in (u + 1)..t /\ ~(u <= z /\ z < i)
      BY <1>1, <1>2, <1>4, <2>4
    <3>2. P[u] + N[u] <= P[i]
      BY <3>1 DEF Rising
    <3>3. P[u] \in Nat /\ N[u] \in Nat /\ P[i] \in Nat
      BY <1>1, <1>2
    <3>4. QED
      BY <2>1, <2>2, <3>2, <3>3
  <2>5. QED
    BY <2>3, <2>4
<1>5. QED
  BY <1>3, <1>4

\* While frames wait, the ring does not look empty.
LEMMA Waiting ==
  ASSUME NEW u, NEW r, NEW t, NEW z, NEW P, NEW N,
         Indexed(u, r, t, z, P, N), Rising(u, t, z, P, N), Positions(u, r, t, z, P, N),
         Behind(u, r, z), r < t
  PROVE  /\ ENextBulkOutPosition # CurWritePosition /\ ENextBulkOutPosition # CurWritePosition + 1
         /\ ENextBulkOutPosition < CurWritePosition \/ r <= z
<1>1. /\ u \in Nat /\ r \in Nat /\ t \in Nat /\ z \in Nat /\ 1 <= u /\ u <= r /\ r <= t /\ z < t
      /\ P \in [Nat -> Nat] /\ N \in [Nat -> Nat]
      /\ \A i \in u..(t - 1) : N[i] > Ovh /\ P[i] >= 1 /\ P[i] + N[i] < BufSize
  BY DEF Indexed
<1>2. ENextBulkOutPosition = P[r] /\ CurWritePosition = P[t]
  BY DEF Positions
<1>3. P[r] \in Nat /\ P[t] \in Nat /\ N[r] \in Nat /\ P[u] \in Nat /\ N[u] \in Nat
  BY <1>1
<1>4. CASE ~(r <= z)
  <2>1. r \in u..(t - 1) /\ t \in (r + 1)..t
    BY <1>1
  <2>2. P[r] + N[r] <= P[t]
    BY <1>4, <2>1 DEF Rising
  <2>3. N[r] > Ovh
    BY <1>1, <2>1
  <2>4. P[r] < P[t]
    BY <1>3, <2>2, <2>3, Constants
  <2>5. QED
    BY <1>2, <1>3, <2>4
<1>5. CASE r <= z
  <2>1. u <= z /\ u < r
    <3>1. u <= z
      BY <1>1, <1>5
    <3>2. u # r
      BY <1>1, <3>1 DEF Positions
    <3>3. QED
      BY <1>1, <3>1, <3>2
  <2>2. NextBulkOutPosition = P[u]
    BY <2>1 DEF Positions
  <2>3. P[u] + N[u] <= P[r]
    <3>1. u \in u..(t - 1) /\ r \in (u + 1)..t /\ ~(u <= z /\ z < r)
      BY <1>1, <1>5, <2>1
    <3>2. QED
      BY <3>1 DEF Rising
  <2>4. N[u] > Ovh /\ P[u] >= 1
    BY <1>1, <2>1
  <2>5. P[t] < P[u] \/ P[t] = 1
    BY <1>1, <1>2, <2>1, <2>2 DEF Behind
  <2>6. P[r] > P[t] + 1
    BY <1>3, <2>3, <2>4, <2>5, Constants
  <2>7. QED
    BY <1>2, <1>3, <1>5, <2>6
<1>6. QED
  BY <1>4, <1>5
-----------------------------------------------------------------------------
(***************************************************************************)
(* Cells.                                                                  *)
(***************************************************************************)

\* A cell of the view.
LEMMA ViewCell ==
  ASSUME NEW b \in [Pos -> Cells], NEW c, NEW e, NEW s, NEW q \in Pos
  PROVE  PutBack(b, c, e, s)[q] = IF c /\ q = e THEN s ELSE b[q]
BY DEF PutBack

\* The ring with the parked header is a ring.
LEMMA ViewType ==
  ASSUME NEW b \in [Pos -> Cells], NEW c, NEW e, NEW s \in Cells
  PROVE  PutBack(b, c, e, s) \in [Pos -> Cells]
BY DEF PutBack

\* The buffer.
LEMMA BufferSize ==
  /\ BufSize \in Nat /\ BufSize > 0 /\ BufSize = Limit + LocalTxBuf
  /\ Pos = 0..(BufSize - 1) /\ AggReserve < BufSize /\ Limit < BufSize /\ Ovh >= 2
<1>1. LocalTxBuf \in Nat \ {0}
  BY TxRingAssumption
<1>2. QED
  BY <1>1, Constants DEF BufSize, Pos

\* The kinds of cells.
LEMMA CellKinds ==
  ASSUME NEW f \in 0..MaxFrames, NEW n \in 0..BufSize, NEW l \in BOOLEAN
  PROVE  /\ Zero \in Cells /\ Hdr(f, n, l) \in Cells /\ Cnt(f, n) \in Cells /\ Body(f, n, l) \in Cells
         /\ Hdr(f, n, l) = TxInfo(f, n, l, FALSE)
<1>1. 0 \in 0..MaxFrames /\ 0 \in 0..BufSize /\ 1 \in 0..BufSize
  BY BufferSize, TxRingAssumption
<1>2. QED
  BY <1>1 DEF Cells, Zero, Hdr, Cnt, Body, TxInfo

\* A write that misses the published frames leaves their content.
LEMMA ContentKept ==
  ASSUME NEW u, NEW r, NEW t, NEW z, NEW P, NEW N, NEW F, NEW v, NEW v2,
         NEW lo \in Nat, NEW hi \in Nat,
         Indexed(u, r, t, z, P, N), Content(v, u, r, t, z, P, N, F),
         \A i \in u..(t - 1) : P[i] + N[i] <= lo \/ hi < P[i],
         \A q \in Pos : q < lo \/ hi < q => v2[q] = v[q]
  PROVE  Content(v2, u, r, t, z, P, N, F)
<1>1. /\ u \in Nat /\ r \in Nat /\ t \in Nat /\ u <= r /\ r <= t
      /\ P \in [Nat -> Nat] /\ N \in [Nat -> Nat]
      /\ \A i \in u..(t - 1) : N[i] > Ovh /\ P[i] >= 1 /\ P[i] + N[i] < BufSize
  BY DEF Indexed
<1>2. ASSUME NEW i \in u..(t - 1), NEW k \in 0..(N[i] - 1)
      PROVE  v2[P[i] + k] = v[P[i] + k]
  <2>1. i \in Nat /\ P[i] \in Nat /\ N[i] \in Nat
    BY <1>1
  <2>2. P[i] + N[i] < BufSize
    BY <1>1
  <2>3. P[i] + k \in Pos
    BY <2>1, <2>2, BufferSize
  <2>4. P[i] + k < lo \/ hi < P[i] + k
    <3>1. P[i] + N[i] <= lo \/ hi < P[i]
      OBVIOUS
    <3>2. QED
      BY <2>1, <3>1
  <2>5. QED
    BY <2>3, <2>4
<1>3. ASSUME NEW i \in u..(t - 1)
      PROVE  v2[P[i]] = v[P[i]] /\ (Whole(v, P[i], N[i], F[i]) => Whole(v2, P[i], N[i], F[i]))
  <2>0. i \in Nat /\ P[i] \in Nat /\ N[i] \in Nat /\ N[i] > Ovh
    BY <1>1
  <2>1. N[i] > 0
    BY <2>0, Constants
  <2>2. 0 \in 0..(N[i] - 1) /\ P[i] + 0 = P[i] /\ 1..(N[i] - 1) \subseteq 0..(N[i] - 1)
    BY <2>0, <2>1
  <2>3. v2[P[i]] = v[P[i]]
    BY <1>2, <2>2
  <2>4. \A k \in 1..(N[i] - 1) : v2[P[i] + k] = v[P[i] + k]
    BY <1>2, <2>2
  <2>5. QED
    BY <2>3, <2>4 DEF Whole
<1>4. u..(r - 1) \subseteq u..(t - 1) /\ r..(t - 1) \subseteq u..(t - 1)
  BY <1>1
<1>5. \A i \in u..(r - 1) : v2[P[i]] = TxInfo(F[i], N[i], FALSE, i # r - 1)
  BY <1>3, <1>4 DEF Content
<1>6. \A i \in r..(t - 1) : v2[P[i]] = TxInfo(F[i], N[i], i = z, FALSE)
  BY <1>3, <1>4 DEF Content
<1>7. \A i \in u..(t - 1) : Whole(v2, P[i], N[i], F[i])
  BY <1>3 DEF Content
<1>8. QED
  BY <1>5, <1>6, <1>7 DEF Content
-----------------------------------------------------------------------------
(***************************************************************************)
(* WriteHeader.                                                            *)
(***************************************************************************)

\* The unit that is skipped behind a URB that ends at the write position.
Skip == IF ENextBulkOutPosition = CurWritePosition THEN 1 ELSE 0

\* Unit k of the header of a frame.
HeaderCell(f, k, len, l, n) ==
  IF k = 0 THEN Hdr(f, len, l) ELSE IF k = 1 THEN Cnt(f, n) ELSE Body(f, k, FALSE)

\* A header is written at p.
PutHeader(b, p, f, len, l, n) ==
  [q \in Pos |-> IF q \in p..(p + Ovh - 1) THEN HeaderCell(f, q - p, len, l, n) ELSE b[q]]

\* What the action does when it is not refused.
LEMMA HeaderDoes ==
  ASSUME WriteHeader, CanDoWrite
  PROVE  /\ CurWritePosition' = CurWritePosition + Skip
         /\ ENextBulkOutPosition' = ENextBulkOutPosition + Skip
         /\ CurWriteRealPos' = CurWritePosition' + Ovh /\ bCurWriting' = TRUE
         /\ pc["W"] = "hdr" /\ pc' = [pc EXCEPT !["W"] = "body"]
         /\ w' = [w EXCEPT !.Priv = IF w.kind = "multi" THEN Ovh ELSE Ovh + w.parts[1],
                           !.last = w.kind = "single" /\ LastRound(CurWritePosition', Ovh + w.parts[1])]
         /\ buf' = PutHeader(buf, CurWritePosition', next,
                             IF w.kind = "multi" THEN Ovh ELSE Ovh + w.parts[1],
                             w.kind = "single" /\ LastRound(CurWritePosition', Ovh + w.parts[1]),
                             w.parts[1])
         /\ UNCHANGED <<NextBulkOutPosition, bCopySavePad, SavedPad, next, dropped, dataFlag,
                        BulkOutPending, bulkOutReset, bForcePrintTX, BulkOutSize, rd, urb, resetCmds,
                        sent>>
<1>1. pc["W"] = "hdr" /\ pc' = [pc EXCEPT !["W"] = "body"] /\ bCurWriting' = TRUE
  BY DEF WriteHeader
<1>2. CurWritePosition' = CurWritePosition + Skip /\ ENextBulkOutPosition' = ENextBulkOutPosition + Skip
  BY DEF WriteHeader, Skip
<1>3. CurWriteRealPos' = CurWritePosition' + Ovh
  BY DEF WriteHeader
<1>4. w' = [w EXCEPT !.Priv = IF w.kind = "multi" THEN Ovh ELSE Ovh + w.parts[1],
                     !.last = w.kind = "single" /\ LastRound(CurWritePosition', Ovh + w.parts[1])]
  BY DEF WriteHeader
<1>5. buf' = PutHeader(buf, CurWritePosition', next,
                       IF w.kind = "multi" THEN Ovh ELSE Ovh + w.parts[1],
                       w.kind = "single" /\ LastRound(CurWritePosition', Ovh + w.parts[1]),
                       w.parts[1])
  BY ZenonT(30) DEF WriteHeader, Put, PutHeader, HeaderCell
<1>6. UNCHANGED <<NextBulkOutPosition, bCopySavePad, SavedPad, next, dropped, dataFlag,
                  BulkOutPending, bulkOutReset, bForcePrintTX, BulkOutSize, rd, urb, resetCmds, sent>>
  BY DEF WriteHeader
<1>7. QED
  BY <1>1, <1>2, <1>3, <1>4, <1>5, <1>6

\* Where the header goes.
LEMMA HeaderBelow ==
  ASSUME NEW u, NEW r, NEW t, NEW z, NEW P, NEW N, IndInv, WriteHeader, CanDoWrite,
         Indexed(u, r, t, z, P, N), Rising(u, t, z, P, N), LowEnough(u, t, P),
         Positions(u, r, t, z, P, N), Behind(u, r, z)
  PROVE  /\ Skip \in {0, 1} /\ (Skip = 1 => r = t) /\ (r = t => Skip = 1)
         /\ CurWritePosition' >= 1
         /\ u <= z => CurWritePosition' + Room(w) + 1 <= NextBulkOutPosition
         /\ u <= z \/ u = r => CurWritePosition' + Room(w) + AggReserve <= Limit
<1>1. /\ u \in Nat /\ r \in Nat /\ t \in Nat /\ z \in Nat /\ 1 <= u /\ u <= r /\ r <= t /\ z < t
      /\ P \in [Nat -> Nat] /\ N \in [Nat -> Nat]
      /\ \A i \in u..(t - 1) : N[i] > Ovh /\ P[i] >= 1 /\ P[i] + N[i] < BufSize
  BY DEF Indexed
<1>2. /\ CurWritePosition' = CurWritePosition + Skip /\ pc["W"] = "hdr"
  BY HeaderDoes
<1>3. ENextBulkOutPosition = P[r] /\ CurWritePosition = P[t] /\ P[r] \in Nat /\ P[t] \in Nat
  BY <1>1 DEF Positions
<1>4. ~Writing
  BY <1>2 DEF Writing
<1>5. Skip \in {0, 1} /\ (Skip = 1 <=> P[r] = P[t])
  BY <1>3 DEF Skip
<1>6. r < t => P[r] # P[t] /\ P[r] >= 1
  BY <1>1, <1>3, Waiting
<1>7. (Skip = 1 => r = t) /\ (r = t => Skip = 1)
  BY <1>1, <1>5, <1>6
<1>8. CurWritePosition' >= 1
  <2>1. P[t] = 0 => u = t
    BY DEF Positions
  <2>2. P[t] = 0 => Skip = 1
    BY <1>1, <1>7, <2>1
  <2>3. QED
    BY <1>2, <1>3, <1>5, <2>2
<1>9. PICK b \in Batches : /\ w.kind = b.kind /\ w.parts = b.parts
                           /\ Room(w) = Room(b) /\ Sum(w.parts) = Sum(b.parts)
  BY <1>2, OfBlock DEF IndInv
<1> DEFINE rm == Room(w)
           sm == Sum(w.parts)
<1>10. rm \in Nat /\ sm \in Nat /\ sm + 2 <= rm /\ rm + 2 <= LocalTxBuf + sm
  BY <1>9, OfBatch, Slack
<1>11. AggReserve + rm < Limit /\ AggReserve + rm <= TailReserve
  BY <1>9, OfBatch
<1>12. u <= z => P[t] + sm + LocalTxBuf <= NextBulkOutPosition
  BY <1>1, <1>2, <1>3 DEF Behind
<1>13. NextBulkOutPosition \in Nat
  <2>1. u = r \/ u < r
    BY <1>1
  <2>2. QED
    BY <1>1, <2>1 DEF Positions
<1>14. u <= z => u < r /\ NextBulkOutPosition = P[u] /\ P[u] + AggReserve + rm + 1 <= Limit + LocalTxBuf + sm
  <2>1. SUFFICES ASSUME u <= z
                 PROVE u < r /\ NextBulkOutPosition = P[u] /\ P[u] + AggReserve + rm + 1 <= Limit + LocalTxBuf + sm
    OBVIOUS
  <2>2. u # r
    BY <1>1, <2>1 DEF Positions
  <2>3. u < r /\ NextBulkOutPosition = P[u] /\ u \in u..(t - 1)
    BY <1>1, <2>1, <2>2 DEF Positions
  <2>4. P[u] + AggReserve + Room(b) - Sum(b.parts) + 1 <= Limit + LocalTxBuf
    BY <2>3 DEF LowEnough
  <2>5. P[u] + AggReserve + rm - sm + 1 <= Limit + LocalTxBuf
    BY <1>9, <2>4
  <2>6. P[u] \in Nat
    BY <1>1
  <2> HIDE DEF rm, sm
  <2>7. P[u] + AggReserve + rm + 1 <= Limit + LocalTxBuf + sm
    BY <1>10, <2>5, <2>6, Constants
  <2>8. QED
    BY <2>3, <2>7
<1> HIDE DEF rm, sm
<1>15. u <= z => CurWritePosition' + rm + 1 <= NextBulkOutPosition
  BY <1>2, <1>3, <1>5, <1>10, <1>12, <1>13, Constants
<1>16. u <= z => CurWritePosition' + rm + AggReserve <= Limit
  <2>1. SUFFICES ASSUME u <= z PROVE P[t] + Skip + rm + AggReserve <= Limit
    BY <1>2, <1>3
  <2>2. P[u] \in Nat /\ P[t] + sm + LocalTxBuf <= P[u] /\ P[u] + AggReserve + rm + 1 <= Limit + LocalTxBuf + sm
    BY <1>1, <1>12, <1>14, <2>1
  <2>3. QED
    BY <1>3, <1>5, <1>10, <2>2, Constants
<1>17. u = r => CurWritePosition' + rm + AggReserve <= Limit
  <2>1. SUFFICES ASSUME u = r PROVE P[t] + Skip + rm + AggReserve <= Limit
    BY <1>2, <1>3
  <2>2. P[r] <= 1 /\ (t = r => P[r] = 0)
    BY <1>4, <2>1 DEF Positions
  <2>3. CASE r = t
    <3>1. P[t] = 0 /\ Skip = 1
      BY <1>7, <2>2, <2>3
    <3>2. QED
      BY <1>10, <1>11, <3>1, Constants
  <2>4. CASE r # t
    <3>1. P[r] = 1 /\ Skip = 0
      BY <1>1, <1>3, <1>5, <1>6, <1>7, <2>2, <2>4
    <3>2. ~(CurWritePosition + TailReserve > Limit)
      BY <1>3, <3>1 DEF CanDoWrite
    <3>3. TailReserve \in Nat
      BY TxRingAssumption
    <3>4. QED
      BY <1>3, <1>10, <1>11, <3>1, <3>2, <3>3, Constants
  <2>5. QED
    BY <2>3, <2>4
<1>18. QED
  BY <1>5, <1>7, <1>8, <1>15, <1>16, <1>17 DEF rm

\* The layout with the next frame at the header.
LEMMA HeaderPlace ==
  ASSUME NEW u, NEW r, NEW t, NEW z, NEW P, NEW N, NEW Q, IndInv, WriteHeader, CanDoWrite,
         Indexed(u, r, t, z, P, N), Rising(u, t, z, P, N), Joined(u, r, t, z, P, N),
         LowEnough(u, t, P), Positions(u, r, t, z, P, N), Behind(u, r, z), Parked(u, r, t, z, P, N),
         Q = [P EXCEPT ![t] = CurWritePosition']
  PROVE  /\ Indexed(u, r, t, z, Q, N) /\ Rising(u, t, z, Q, N) /\ Joined(u, r, t, z, Q, N)
         /\ LowEnough(u, t, Q) /\ Positions(u, r, t, z, Q, N)' /\ Behind(u, r, z)'
         /\ Parked(u, r, t, z, Q, N)' /\ (\A i \in u..(t - 1) : Q[i] = P[i])
<1>1. /\ u \in Nat /\ r \in Nat /\ t \in Nat /\ z \in Nat /\ 1 <= u /\ u <= r /\ r <= t /\ z < t
      /\ P \in [Nat -> Nat] /\ N \in [Nat -> Nat]
      /\ \A i \in u..(t - 1) : N[i] > Ovh /\ P[i] >= 1 /\ P[i] + N[i] < BufSize
  BY DEF Indexed
<1>2. /\ CurWritePosition' = CurWritePosition + Skip /\ pc["W"] = "hdr"
      /\ ENextBulkOutPosition' = ENextBulkOutPosition + Skip
      /\ NextBulkOutPosition' = NextBulkOutPosition /\ BulkOutSize' = BulkOutSize
      /\ bCopySavePad' = bCopySavePad
      /\ pc' = [pc EXCEPT !["W"] = "body"]
  BY HeaderDoes
<1>3. ENextBulkOutPosition = P[r] /\ CurWritePosition = P[t] /\ P[r] \in Nat /\ P[t] \in Nat
  BY <1>1 DEF Positions
<1>4. /\ Skip \in {0, 1} /\ (Skip = 1 => r = t) /\ (r = t => Skip = 1)
      /\ CurWritePosition' >= 1
      /\ u <= z => CurWritePosition' + Room(w) + 1 <= NextBulkOutPosition
      /\ u <= z \/ u = r => CurWritePosition' + Room(w) + AggReserve <= Limit
  BY HeaderBelow
<1>5. ~Writing /\ Writing' /\ pc'["W"] = "body"
  BY <1>2 DEF Writing, IndInv, Block, Contexts
<1>6. CurWritePosition' \in Nat /\ CurWritePosition' >= P[t]
  BY <1>2, <1>3, <1>4
<1>7. /\ Q \in [Nat -> Nat] /\ Q[t] = CurWritePosition'
      /\ \A i \in Nat : i # t => Q[i] = P[i]
  BY <1>1, <1>6
<1>8. \A i \in u..(t - 1) : Q[i] = P[i] /\ i \in Nat /\ i < t
  BY <1>1, <1>7
<1>9. Indexed(u, r, t, z, Q, N)
  BY <1>1, <1>7, <1>8 DEF Indexed
<1>10. Rising(u, t, z, Q, N)
  <2>1. SUFFICES ASSUME NEW i \in u..(t - 1), NEW j \in (i + 1)..t, ~(i <= z /\ z < j)
                 PROVE  Q[i] + N[i] <= Q[j]
    BY DEF Rising
  <2>2. P[i] + N[i] <= P[j]
    BY <2>1 DEF Rising
  <2>3. i \in Nat /\ j \in Nat /\ Q[i] = P[i] /\ P[i] \in Nat /\ N[i] \in Nat /\ P[j] \in Nat
    BY <1>1, <1>8
  <2>4. Q[j] >= P[j] /\ Q[j] \in Nat
    BY <1>3, <1>6, <1>7, <2>3
  <2>5. QED
    BY <2>2, <2>3, <2>4
<1>11. Joined(u, r, t, z, Q, N)
  <2>1. ASSUME NEW i \in r..(t - 1) PROVE Q[i + 1] = IF i = z THEN 1 ELSE Q[i] + N[i]
    <3>1. P[i + 1] = IF i = z THEN 1 ELSE P[i] + N[i]
      BY DEF Joined
    <3>2. Skip = 0 /\ i \in u..(t - 1)
      BY <1>1, <1>4
    <3>3. CurWritePosition' = P[t]
      BY <1>2, <1>3, <3>2
    <3>4. i + 1 \in Nat /\ Q[i] = P[i]
      BY <1>1, <1>8, <3>2
    <3>5. Q[i + 1] = P[i + 1]
      BY <1>7, <3>3, <3>4
    <3>6. QED
      BY <3>1, <3>4, <3>5
  <2>2. ASSUME NEW i \in u..(r - 2) PROVE i # z /\ Q[i + 1] = Q[i] + N[i]
    <3>1. i # z /\ P[i + 1] = P[i] + N[i]
      BY DEF Joined
    <3>2. i \in Nat /\ i + 1 \in Nat /\ i # t /\ i + 1 # t
      BY <1>1
    <3>3. QED
      BY <1>7, <3>1, <3>2
  <2>3. QED
    BY <2>1, <2>2 DEF Joined
<1>12. LowEnough(u, t, Q)
  BY <1>8 DEF LowEnough
<1>13. Q[r] = P[r] + Skip
  <2>1. CASE r = t
    BY <1>2, <1>3, <1>7, <2>1
  <2>2. CASE r # t
    <3>1. Skip = 0 /\ Q[r] = P[r]
      BY <1>1, <1>4, <1>7, <2>2
    <3>2. QED
      BY <1>3, <3>1
  <2>3. QED
    BY <2>1, <2>2
<1>14. Positions(u, r, t, z, Q, N)'
  <2>1. ENextBulkOutPosition' = Q[r] /\ CurWritePosition' = Q[t]
    BY <1>2, <1>3, <1>7, <1>13
  <2>2. u = r => z < u /\ NextBulkOutPosition' = 0 /\ Q[r] <= 1
    <3>1. SUFFICES ASSUME u = r PROVE z < u /\ NextBulkOutPosition = 0 /\ Q[r] <= 1
      BY <1>2
    <3>2. z < u /\ NextBulkOutPosition = 0 /\ P[r] <= 1 /\ (t = r => P[r] = 0)
      BY <1>5, <3>1 DEF Positions
    <3>3. QED
      BY <1>3, <1>4, <1>13, <3>2
  <2>3. u < r => /\ NextBulkOutPosition' = Q[u] /\ Q[r] >= 1
                 /\ NextBulkOutPosition' + BulkOutSize' = Q[r - 1] + N[r - 1]
    <3>1. SUFFICES ASSUME u < r
                   PROVE  /\ NextBulkOutPosition = Q[u] /\ Q[r] >= 1
                          /\ NextBulkOutPosition + BulkOutSize = Q[r - 1] + N[r - 1]
      BY <1>2
    <3>2. /\ NextBulkOutPosition = P[u] /\ P[r] >= 1
          /\ NextBulkOutPosition + BulkOutSize = P[r - 1] + N[r - 1]
      BY <3>1 DEF Positions
    <3>3. u # t /\ r - 1 # t /\ r - 1 \in Nat
      BY <1>1, <3>1
    <3>4. QED
      BY <1>1, <1>3, <1>4, <1>7, <1>13, <3>2, <3>3
  <2>4. Q[t] # 0
    BY <1>4, <1>6, <1>7
  <2>5. QED
    BY <1>5, <2>1, <2>2, <2>3, <2>4 DEF Positions
<1>15. Behind(u, r, z)'
  <2>1. Room(w') = Room(w)
    BY HeaderDoes, <1>5 DEF Room, IndInv, Block, Blocks
  <2>2. NextBulkOutPosition \in Nat
    <3>1. u = r \/ u < r
      BY <1>1
    <3>2. QED
      BY <1>1, <3>1 DEF Positions
  <2>3. Room(w) \in Nat
    BY <1>2, OfBlock, OfBatch DEF IndInv
  <2>4. u <= z => CurWritePosition' < NextBulkOutPosition
    BY <1>4, <1>6, <2>2, <2>3
  <2>5. z >= u <=> u <= z
    BY <1>1
  <2>6. QED
    BY <1>2, <1>4, <1>5, <2>1, <2>4, <2>5 DEF Behind
<1>16. Parked(u, r, t, z, Q, N)'
  <2> DEFINE e == P[r - 1] + N[r - 1]
  <2>1. bCopySavePad <=> u < r /\ z # r - 1 /\ P[r] = e /\ r < t
    BY <1>5 DEF Parked
  <2>2. r < t => Q[r] = P[r]
    BY <1>1, <1>7
  <2>3. u < r /\ z # r - 1 /\ r = t => Q[r] # e
    <3>1. SUFFICES ASSUME u < r, z # r - 1, r = t PROVE P[r] + Skip # e
      BY <1>13
    <3>2. r - 1 \in u..(t - 1) /\ r \in (r - 1 + 1)..t /\ ~(r - 1 <= z /\ z < r)
      BY <1>1, <3>1
    <3>3. e <= P[r]
      BY <3>2 DEF Rising
    <3>4. e \in Nat /\ Skip = 1
      BY <1>1, <1>4, <3>1, <3>2
    <3> HIDE DEF e
    <3>5. QED
      BY <1>3, <3>3, <3>4
  <2>4. u < r => Q[r - 1] + N[r - 1] = e
    BY <1>1, <1>7
  <2> HIDE DEF e
  <2>5. r < t \/ r = t
    BY <1>1
  <2>6. bCopySavePad <=> (u < r /\ z # r - 1 /\ Q[r] = e)
    BY <2>1, <2>2, <2>3, <2>5
  <2>7. bCopySavePad' <=> (u < r /\ z # r - 1 /\ Q[r] = Q[r - 1] + N[r - 1])
    BY <1>2, <2>4, <2>6
  <2>8. QED
    BY <1>5, <2>7 DEF Parked
<1>17. QED
  BY <1>8, <1>9, <1>10, <1>11, <1>12, <1>14, <1>15, <1>16

\* Nothing becomes of the frames.
LEMMA NumbersKept ==
  ASSUME NEW u, NEW r, NEW t, NEW F, Numbered(u, r, t, F), SentSoFar(u, r, t, F),
         Free' = Free, sent' = sent, dropped' = dropped, Owed => Owed'
  PROVE  Numbered(u, r, t, F)' /\ SentSoFar(u, r, t, F)'
<1>1. Gone' = Gone /\ FramesOf(sent)' = FramesOf(sent)
  BY DEF Gone, FramesOf
<1>2. Numbered(u, r, t, F)'
  BY <1>1 DEF Numbered
<1>3. SentSoFar(u, r, t, F)'
  BY <1>1 DEF SentSoFar
<1>4. QED
  BY <1>2, <1>3

\* The cells of a header.
LEMMA HeaderCells ==
  ASSUME NEW b, NEW p \in Nat, NEW f, NEW len, NEW l, NEW n, NEW k \in 0..(Ovh - 1), p + Ovh <= BufSize
  PROVE  p + k \in Pos /\ PutHeader(b, p, f, len, l, n)[p + k] = HeaderCell(f, k, len, l, n)
<1>1. \A q \in Pos : PutHeader(b, p, f, len, l, n)[q] =
                       IF q \in p..(p + Ovh - 1) THEN HeaderCell(f, q - p, len, l, n) ELSE b[q]
  BY DEF PutHeader
<1>2. p + k \in Pos /\ p + k \in p..(p + Ovh - 1) /\ (p + k) - p = k
  BY Constants, BufferSize
<1>3. QED
  BY <1>1, <1>2

\* The first of them.
LEMMA HeaderFirst ==
  ASSUME NEW b, NEW p \in Nat, NEW f, NEW len, NEW l, NEW n, p + Ovh <= BufSize
  PROVE  PutHeader(b, p, f, len, l, n)[p] = Hdr(f, len, l)
<1>1. 0 \in 0..(Ovh - 1) /\ p + 0 = p
  BY Constants
<1>2. PutHeader(b, p, f, len, l, n)[p] = HeaderCell(f, 0, len, l, n)
  BY <1>1, HeaderCells
<1>3. QED
  BY <1>2 DEF HeaderCell

\* The others.
LEMMA HeaderRest ==
  ASSUME NEW b, NEW p \in Nat, NEW f, NEW len, NEW l, NEW n, p + Ovh <= BufSize
  PROVE  Begun(PutHeader(b, p, f, len, l, n), p, Ovh, f)
<1> DEFINE c == PutHeader(b, p, f, len, l, n)
<1>1. ASSUME NEW k \in 1..(Ovh - 1)
      PROVE  c[p + k].f = f /\ c[p + k].k = k /\ ~c[p + k].last
  <2>1. k \in 0..(Ovh - 1) /\ k # 0
    BY Constants
  <2>2. c[p + k] = HeaderCell(f, k, len, l, n)
    BY <2>1, HeaderCells
  <2> HIDE DEF c
  <2>3. QED
    BY <2>1, <2>2 DEF HeaderCell, Cnt, Body
<1> HIDE DEF c
<1>2. Begun(c, p, Ovh, f)
  BY <1>1 DEF Begun
<1>3. QED
  BY <1>2 DEF c

\* The rest of the ring is as it was.
LEMMA HeaderElse ==
  ASSUME NEW b, NEW p \in Nat, NEW f, NEW len, NEW l, NEW n
  PROVE  \A q \in Pos : q < p \/ p + Ovh - 1 < q => PutHeader(b, p, f, len, l, n)[q] = b[q]
<1>1. \A q \in Pos : PutHeader(b, p, f, len, l, n)[q] =
                       IF q \in p..(p + Ovh - 1) THEN HeaderCell(f, q - p, len, l, n) ELSE b[q]
  BY DEF PutHeader
<1>2. ASSUME NEW q \in Pos, q < p \/ p + Ovh - 1 < q PROVE q \notin p..(p + Ovh - 1)
  BY <1>2, Constants
<1>3. QED
  BY <1>1, <1>2

\* Its cells have their type.
LEMMA HeaderType ==
  ASSUME NEW b \in [Pos -> Cells], NEW p \in Nat, NEW f \in 0..MaxFrames, NEW len \in 0..BufSize,
         NEW l \in BOOLEAN, NEW n \in 0..BufSize
  PROVE  PutHeader(b, p, f, len, l, n) \in [Pos -> Cells]
<1>1. ASSUME NEW q \in Pos, q \in p..(p + Ovh - 1) PROVE HeaderCell(f, q - p, len, l, n) \in Cells
  <2>1. q - p \in 0..BufSize
    BY <1>1, BufferSize
  <2>2. Hdr(f, len, l) \in Cells /\ Cnt(f, n) \in Cells /\ Body(f, q - p, FALSE) \in Cells
    BY <2>1, CellKinds
  <2>3. QED
    BY <2>2 DEF HeaderCell
<1>2. QED
  BY <1>1 DEF PutHeader

\* The header misses the published frames.
LEMMA HeaderMisses ==
  ASSUME NEW u, NEW r, NEW t, NEW z, NEW P, NEW N, IndInv, WriteHeader, CanDoWrite,
         Indexed(u, r, t, z, P, N), Rising(u, t, z, P, N), LowEnough(u, t, P),
         Positions(u, r, t, z, P, N), Behind(u, r, z), NEW i \in u..(t - 1)
  PROVE  P[i] + N[i] <= CurWritePosition' \/ CurWritePosition' + Ovh - 1 < P[i]
<1>1. P[i] + N[i] <= CurWritePosition \/ (u <= z /\ NextBulkOutPosition <= P[i])
  BY Outside
<1>2. P[i] \in Nat /\ N[i] \in Nat /\ CurWritePosition \in Nat
  <2>1. u \in Nat /\ t \in Nat /\ P \in [Nat -> Nat] /\ N \in [Nat -> Nat]
    BY DEF Indexed
  <2>2. i \in Nat
    BY <2>1
  <2>3. QED
    BY <2>1, <2>2 DEF IndInv, Below
<1>3. CurWritePosition' = CurWritePosition + Skip /\ Skip \in {0, 1} /\ pc["W"] = "hdr"
  BY HeaderDoes, HeaderBelow
<1>4. CASE P[i] + N[i] <= CurWritePosition
  BY <1>2, <1>3, <1>4
<1>5. CASE u <= z /\ NextBulkOutPosition <= P[i]
  <2>1. CurWritePosition' + Room(w) + 1 <= NextBulkOutPosition
    BY <1>5, HeaderBelow
  <2>2. PICK b \in Batches : Room(w) = Room(b)
    BY <1>3, OfBlock DEF IndInv
  <2>3. Room(w) \in Nat /\ Room(w) >= Ovh
    <3>1. /\ Room(b) \in Nat /\ Sum(b.parts) \in Nat /\ b.parts[1] \in Nat \ {0}
          /\ b.kind = "frag" => b.parts[2] \in Nat
          /\ b.kind = "frag" => Room(b) = Ovh + Ovh + b.parts[1] + b.parts[2]
          /\ b.kind # "frag" => Room(b) = Ovh + Sum(b.parts)
      BY OfBatch
    <3>2. Room(b) >= Ovh
      <4>1. CASE b.kind = "frag"
        <5>1. Ovh + Ovh + b.parts[1] + b.parts[2] >= Ovh /\ b.parts[1] \in Nat
          BY <3>1, <4>1, Constants
        <5>2. QED
          BY <3>1, <4>1, <5>1
      <4>2. CASE b.kind # "frag"
        BY <3>1, <4>2, Constants
      <4>3. QED
        BY <4>1, <4>2
    <3>3. QED
      BY <2>2, <3>1, <3>2
  <2>4. NextBulkOutPosition \in Nat
    <3>1. u \in Nat /\ r \in Nat /\ u <= r /\ P \in [Nat -> Nat]
      BY DEF Indexed
    <3>2. u = r \/ u < r
      BY <3>1
    <3>3. QED
      BY <3>1, <3>2 DEF Positions
  <2>5. QED
    BY <1>2, <1>3, <1>5, <2>1, <2>3, <2>4, Constants
<1>6. QED
  BY <1>1, <1>4, <1>5

\* A write that misses the parked header shows in the view.
LEMMA ViewWritten ==
  ASSUME buf \in [Pos -> Cells], buf' \in [Pos -> Cells], bCopySavePad' = bCopySavePad,
         SavedPad' = SavedPad, NEW lo \in Nat, NEW hi \in Nat,
         bCopySavePad => ENextBulkOutPosition' = ENextBulkOutPosition,
         bCopySavePad => ENextBulkOutPosition \in Nat /\ (ENextBulkOutPosition < lo \/ hi < ENextBulkOutPosition),
         \A q \in Pos : q < lo \/ hi < q => buf'[q] = buf[q]
  PROVE  /\ \A q \in Pos : q < lo \/ hi < q => View'[q] = View[q]
         /\ \A q \in Pos : lo <= q /\ q <= hi => View'[q] = buf'[q]
<1>1. \A q \in Pos : View[q] = IF bCopySavePad /\ q = ENextBulkOutPosition THEN SavedPad ELSE buf[q]
  BY ViewCell DEF View
<1>2. \A q \in Pos : View'[q] = IF bCopySavePad' /\ q = ENextBulkOutPosition' THEN SavedPad' ELSE buf'[q]
  BY ViewCell DEF View
<1>3. ASSUME NEW q \in Pos, q < lo \/ hi < q PROVE View'[q] = View[q]
  BY <1>1, <1>2, <1>3
<1>4. ASSUME NEW q \in Pos, lo <= q, q <= hi PROVE View'[q] = buf'[q]
  <2>1. q \in Nat
    BY BufferSize
  <2>2. ~(bCopySavePad /\ q = ENextBulkOutPosition)
    BY <1>4, <2>1
  <2>3. QED
    BY <1>2, <2>2
<1>5. QED
  BY <1>3, <1>4

\* The header in the ring: types, the writer's state and the frames.
LEMMA HeaderRing ==
  ASSUME NEW u, NEW r, NEW t, NEW z, NEW P, NEW N, NEW F, NEW Q, Plain, Layout(u, r, t, z, P, N, F),
         WriteHeader, CanDoWrite, Q = [P EXCEPT ![t] = CurWritePosition']
  PROVE  Typed' /\ Written' /\ Current(View)' /\ Content(View, u, r, t, z, Q, N, F)'
<1>1. /\ Indexed(u, r, t, z, P, N) /\ Rising(u, t, z, P, N) /\ Joined(u, r, t, z, P, N)
      /\ LowEnough(u, t, P) /\ Positions(u, r, t, z, P, N) /\ Behind(u, r, z)
      /\ Parked(u, r, t, z, P, N) /\ Content(View, u, r, t, z, P, N, F)
  BY DEF Layout
<1>2. IndInv /\ Typed /\ Written /\ IndInv'
  BY HeaderStep DEF Plain
<1>0. PICK cw, len, lst :
        /\ cw = CurWritePosition'
        /\ len = IF w.kind = "multi" THEN Ovh ELSE Ovh + w.parts[1]
        /\ lst = (w.kind = "single" /\ LastRound(CurWritePosition', Ovh + w.parts[1]))
  OBVIOUS
<1>3. /\ CurWritePosition' = CurWritePosition + Skip
      /\ ENextBulkOutPosition' = ENextBulkOutPosition + Skip
      /\ CurWriteRealPos' = cw + Ovh /\ bCurWriting' = TRUE
      /\ pc["W"] = "hdr" /\ pc' = [pc EXCEPT !["W"] = "body"]
      /\ w' = [w EXCEPT !.Priv = len, !.last = lst]
      /\ buf' = PutHeader(buf, cw, next, len, lst, w.parts[1])
      /\ UNCHANGED <<NextBulkOutPosition, bCopySavePad, SavedPad, next, dropped, dataFlag,
                     BulkOutPending, bulkOutReset, bForcePrintTX, BulkOutSize, rd, urb, resetCmds,
                     sent>>
  BY <1>0, HeaderDoes
<1>a. buf' = PutHeader(buf, cw, next, len, lst, w.parts[1])
  BY <1>3
<1>b. next' = next /\ bCopySavePad' = bCopySavePad /\ SavedPad' = SavedPad
  BY <1>3
<1>4. pc'["W"] = "body" /\ Writing' /\ ~Writing
  BY <1>2, <1>3 DEF Writing, IndInv, Block, Contexts
<1>5. /\ Len(w.parts) \in 1..2 /\ w.parts[1] \in Nat \ {0} /\ w.i = 1 /\ w \in Blocks
      /\ w.kind = "single" <=> Len(w.parts) = 1
  BY <1>2, <1>3, Sizes DEF IndInv, Progress, Block
<1>6. w'.kind = w.kind /\ w'.parts = w.parts /\ w'.i = 1 /\ w'.Priv = len /\ w'.last = lst
  BY <1>3, <1>5 DEF Blocks
<1>7. CurWritePosition \in Nat /\ cw \in Nat /\ Skip \in {0, 1}
  BY <1>1, <1>2, <1>3, <1>0, HeaderBelow DEF IndInv, Below
<1>8. cw + len + 1 <= BufSize /\ len \in Nat /\ len >= Ovh
  <2>0. WritesInBounds'
    BY <1>2, IndBounds, PTL
  <2>1. CurWritePosition' + w'.Priv + 1 <= BufSize
    BY <1>4, <2>0 DEF WritesInBounds, Writing
  <2>2. len \in Nat /\ len >= Ovh
    BY <1>0, <1>5, Constants
  <2>3. QED
    BY <1>0, <1>6, <2>1, <2>2
<1>9. lst \in BOOLEAN
  BY <1>0 DEF LastRound
<1>10. next \in 1..MaxFrames /\ MaxFrames \in Nat
  <2>1. next \in Nat /\ next >= 1 /\ MaxFrames \in Nat
    BY <1>2, TxRingAssumption DEF Typed
  <2>2. next + Len(w.parts) - w.i <= MaxFrames
    BY <1>2, <1>3 DEF Written
  <2>3. QED
    BY <1>5, <2>1, <2>2
<1>11. len \in 0..BufSize /\ w.parts[1] \in 0..BufSize
  <2>1. Ovh + w.parts[1] <= AggReserve
    <3>1. PICK b \in Batches : w.kind = b.kind /\ w.parts = b.parts /\ Room(w) = Room(b)
      BY <1>2, <1>3, OfBlock DEF IndInv
    <3>2. /\ b.parts[1] \in Nat \ {0} /\ Room(b) <= AggReserve
          /\ Len(b.parts) \in 1..2 /\ (Len(b.parts) = 2 => b.parts[2] \in Nat)
          /\ (b.kind = "single" <=> Len(b.parts) = 1)
          /\ Sum(b.parts) = IF Len(b.parts) = 1 THEN b.parts[1] ELSE b.parts[1] + b.parts[2]
          /\ b.kind = "frag" => Room(b) = Ovh + Ovh + b.parts[1] + b.parts[2]
          /\ b.kind # "frag" => Room(b) = Ovh + Sum(b.parts)
      BY OfBatch
    <3>3. Room(b) >= Ovh + b.parts[1]
      <4>1. CASE b.kind = "frag"
        <5>1. b.parts[1] \in Nat /\ b.parts[2] \in Nat /\ Room(b) = Ovh + Ovh + b.parts[1] + b.parts[2]
          BY <3>2, <4>1
        <5> HIDE <3>2
        <5>2. QED
          BY <5>1, Constants
      <4>2. CASE b.kind # "frag"
        <5>1. b.parts[1] \in Nat /\ Room(b) = Ovh + Sum(b.parts) /\ Sum(b.parts) >= b.parts[1] /\ Sum(b.parts) \in Nat
          BY <3>2, <4>2
        <5> HIDE <3>2
        <5>2. QED
          BY <5>1, Constants
      <4>3. QED
        BY <4>1, <4>2
    <3>4. Room(b) \in Nat
      BY OfBatch
    <3>5. QED
      BY <1>5, <3>1, <3>2, <3>3, <3>4, Constants
  <2>2. QED
    BY <1>5, <1>7, <1>8, <2>1, BufferSize, Constants
<1>12. buf' \in [Pos -> Cells]
  <2>1. buf \in [Pos -> Cells] /\ next \in 0..MaxFrames
    BY <1>2, <1>10 DEF Typed
  <2>2. cw \in Nat
    BY <1>7
  <2>3. QED
    BY <1>3, <1>9, <1>11, <2>1, <2>2, HeaderType
<1>13. Typed'
  <2>1. /\ SavedPad' \in Cells /\ BulkOutSize' \in 0..BufSize /\ NextBulkOutPosition' \in Pos
        /\ rd' \in [pc : {"idle", "claimed", "empty", "built"}, by : Contexts]
        /\ urb' \in {"none", "flying", "done", "failed"} /\ resetCmds' \in Nat
        /\ next' \in 1..(MaxFrames + 1) /\ sent' \in Seq([f : Nat, ok : BOOLEAN, cnt : BOOLEAN])
    BY <1>2, <1>3 DEF Typed
  <2>2. {bCurWriting', bCopySavePad', BulkOutPending', dataFlag', bulkOutReset', bForcePrintTX'} \subseteq BOOLEAN
    BY <1>2, <1>3 DEF Typed
  <2>3. QED
    BY <1>12, <2>1, <2>2 DEF Typed
<1>14. Written'
  <2>1. next' + Len(w'.parts) - w'.i <= MaxFrames
    BY <1>2, <1>3, <1>5, <1>6 DEF Written
  <2>2. CurWriteRealPos' > CurWritePosition' /\ CurWriteRealPos' <= CurWritePosition' + w'.Priv
    <3>1. cw + Ovh > cw /\ cw + Ovh <= cw + len
      BY <1>7, <1>8, Constants
    <3>2. QED
      BY <1>0, <1>3, <1>6, <3>1
  <2>a. CurWriteRealPos' \in Nat
    BY <1>3, <1>7, Constants
  <2>3. w'.kind = "multi" => w'.Priv = Ovh + 0
    BY <1>0, <1>6, Constants
  <2>4. w'.kind # "multi" => (w'.last <=> w'.i = Len(w'.parts) /\ LastRound(CurWritePosition', w'.Priv))
    BY <1>0, <1>5, <1>6, <1>9 DEF Blocks
  <2>5. QED
    BY <1>3, <1>4, <1>6, <2>1, <2>2, <2>a, <2>3, <2>4 DEF Written
<1>15. /\ \A q \in Pos : q < cw \/ cw + Ovh - 1 < q => View'[q] = View[q]
       /\ \A q \in Pos : cw <= q /\ q <= cw + Ovh - 1 => View'[q] = buf'[q]
  <2>1. cw \in Nat /\ cw + Ovh - 1 \in Nat /\ cw + Ovh <= BufSize
    <3>1. QED
      BY <1>7, <1>8, Constants, BufferSize
  <2>2. \A q \in Pos : q < cw \/ cw + Ovh - 1 < q => buf'[q] = buf[q]
    <3>1. QED
      <4> DEFINE c == PutHeader(buf, cw, next, len, lst, w.parts[1])
      <4>1. \A q \in Pos : q < cw \/ cw + Ovh - 1 < q => c[q] = buf[q]
        BY <2>1, HeaderElse
      <4>2. buf' = c
        BY <1>a
      <4> HIDE DEF c
      <4>3. QED
        BY <4>1, <4>2
  <2>3. bCopySavePad => /\ ENextBulkOutPosition' = ENextBulkOutPosition
                        /\ ENextBulkOutPosition \in Nat
                        /\ (ENextBulkOutPosition < cw \/ cw + Ovh - 1 < ENextBulkOutPosition)
    <3>1. SUFFICES ASSUME bCopySavePad
                   PROVE  /\ ENextBulkOutPosition' = ENextBulkOutPosition
                          /\ ENextBulkOutPosition \in Nat
                          /\ (ENextBulkOutPosition < cw \/ cw + Ovh - 1 < ENextBulkOutPosition)
      OBVIOUS
    <3>2. r < t
      BY <1>1, <1>4, <3>1 DEF Parked
    <3>3. /\ u \in Nat /\ r \in Nat /\ t \in Nat /\ u <= r /\ P \in [Nat -> Nat] /\ N \in [Nat -> Nat]
          /\ \A i \in u..(t - 1) : N[i] > Ovh
      BY <1>1 DEF Indexed
    <3>4. r \in u..(t - 1)
      BY <3>2, <3>3
    <3>5. P[r] + N[r] <= cw \/ cw + Ovh - 1 < P[r]
      BY <1>0, <1>1, <1>2, <3>4, HeaderMisses
    <3>6. P[r] \in Nat /\ N[r] \in Nat /\ N[r] > Ovh /\ ENextBulkOutPosition = P[r]
      BY <1>1, <3>3, <3>4 DEF Positions
    <3>7. Skip = 0
      BY <1>1, <1>2, <3>2, <3>3, HeaderBelow
    <3>8. ENextBulkOutPosition' = ENextBulkOutPosition
      BY <1>3, <3>6, <3>7
    <3>9. P[r] < cw \/ cw + Ovh - 1 < P[r]
      BY <2>1, <3>5, <3>6, Constants
    <3>10. QED
      BY <3>6, <3>8, <3>9
  <2>4. buf \in [Pos -> Cells] /\ bCopySavePad' = bCopySavePad /\ SavedPad' = SavedPad
    BY <1>2, <1>3 DEF Typed
  <2>5. QED
    BY <1>12, <2>1, <2>2, <2>3, <2>4, ViewWritten
<1>16. Current(View)'
  <2>1. cw \in Nat /\ cw + Ovh <= BufSize /\ cw \in Pos
    BY <1>7, <1>8, Constants, BufferSize
  <2>2. buf'[cw] = TxInfo(next, len, lst, FALSE) /\ Begun(buf', cw, Ovh, next)
    <3> DEFINE c == PutHeader(buf, cw, next, len, lst, w.parts[1])
    <3>0. c[cw] = Hdr(next, len, lst)
      BY <2>1, HeaderFirst
    <3>1. Begun(c, cw, Ovh, next)
      BY <2>1, HeaderRest
    <3>2. buf' = c
      BY <1>a
    <3> HIDE DEF c
    <3>3. Hdr(next, len, lst) = TxInfo(next, len, lst, FALSE)
      BY DEF Hdr, TxInfo
    <3>4. QED
      BY <3>0, <3>1, <3>2, <3>3
  <2>3. View'[cw] = TxInfo(next, len, lst, FALSE)
    <3>1. cw <= cw /\ cw <= cw + Ovh - 1
      BY <2>1, Constants
    <3>2. QED
      BY <1>15, <2>1, <2>2, <3>1, Zenon
  <2>4. Begun(View', cw, Ovh, next)
    <3>1. ASSUME NEW k \in 1..(Ovh - 1) PROVE View'[cw + k] = buf'[cw + k]
      <4>1. cw + k \in Pos /\ cw <= cw + k /\ cw + k <= cw + Ovh - 1
        BY <2>1, Constants, BufferSize
      <4>2. QED
        BY <1>15, <4>1
    <3>2. QED
      BY <2>2, <3>1 DEF Begun
  <2>5. ~Second' /\ Base' = cw
    BY <1>0, <1>6 DEF Second, Base
  <2>6. next' = next
    BY <1>3
  <2>7. w'.kind # "multi" => View'[Base'] = TxInfo(next', Ovh + w'.parts[w'.i], w'.last, FALSE)
    BY <1>0, <1>6, <2>3, <2>5, <2>6
  <2>8. w'.kind = "multi" => View'[Base'] = TxInfo(next', Ovh, FALSE, FALSE)
    BY <1>0, <1>6, <2>3, <2>5, <2>6
  <2>9. w'.kind = "multi" => w'.Priv = Ovh
    BY <1>0, <1>6
  <2>10. QED
    BY <1>4, <2>4, <2>5, <2>6, <2>7, <2>8, <2>9 DEF Current
<1>17. Content(View, u, r, t, z, Q, N, F)'
  <2>1. \A i \in u..(t - 1) : Q[i] = P[i]
    BY <1>1, <1>2, HeaderPlace
  <2>2. \A i \in u..(t - 1) : P[i] + N[i] <= cw \/ cw + Ovh - 1 < P[i]
    BY <1>0, <1>1, <1>2, HeaderMisses
  <2>3. cw \in Nat /\ cw + Ovh - 1 \in Nat
    BY <1>7, Constants
  <2>4. Content(View', u, r, t, z, P, N, F)
    BY <1>1, <1>15, <2>2, <2>3, ContentKept
  <2>5. u..(r - 1) \subseteq u..(t - 1) /\ r..(t - 1) \subseteq u..(t - 1)
    BY <1>1 DEF Indexed
  <2>6. Content(View', u, r, t, z, Q, N, F)
    BY <2>1, <2>4, <2>5, ZenonT(30) DEF Content
  <2>7. QED
    BY <2>6 DEF Content
<1>18. QED
  BY <1>13, <1>14, <1>16, <1>17
-----------------------------------------------------------------------------
(***************************************************************************)
(* Steps that leave the ring, the writer or the history alone.             *)
(***************************************************************************)

\* The dequeuer has a block.
Active == pc["W"] \in {"hdr", "body", "next", "fin"}

\* What has been sent stays right, and what is given up only grows.
LEMMA HistoryKept ==
  ASSUME Plain, sent' = sent, bForcePrintTX' = bForcePrintTX, dropped \subseteq dropped'
  PROVE  NoZeroLengthFrame' /\ SentIntact' /\ FirstSentInOrder'
<1>1. NoZeroLengthFrame'
  BY DEF Plain, NoZeroLengthFrame
<1>2. SentIntact'
  BY DEF Plain, SentIntact
<1>3. FirstSentInOrder'
  <2>1. FirstSentInOrder
    BY DEF Plain
  <2>2. QED
    BY <2>1 DEF FirstSentInOrder
<1>4. QED
  BY <1>1, <1>2, <1>3

\* The users of the pipe do not change.
LEMMA UsersKept ==
  ASSUME NEW u, NEW r, OneUser, HasUrb(u, r), rd'.pc = rd.pc,
         UNCHANGED <<urb, BulkOutPending, bulkOutReset, resetCmds>>
  PROVE  OneUser' /\ HasUrb(u, r)' /\ (Owed => Owed')
BY DEF OneUser, HasUrb, Owed

\* The frames that are not yet published.
LEMMA FreeKept ==
  ASSUME next' = next, w' = w, pc'["W"] = pc["W"] \/ (~Active /\ ~Active')
  PROVE  Free' = Free /\ (Second' <=> Second) /\ (Writing' <=> Writing)
<1>1. Writing' <=> Writing
  BY DEF Writing, Active
<1>2. Second' <=> Second
  BY <1>1 DEF Second
<1>3. QED
  BY <1>1, <1>2 DEF Free

\* The dequeuer and the ring do not change.
LEMMA RingKept ==
  ASSUME NEW u, NEW r, NEW t, NEW z, NEW P, NEW N, NEW F, Plain, Layout(u, r, t, z, P, N, F),
         UNCHANGED <<buf, ring, BulkOutSize, next, w>>,
         pc'["W"] = pc["W"] \/ (~Active /\ ~Active')
  PROVE  /\ Positions(u, r, t, z, P, N)' /\ Behind(u, r, z)' /\ Parked(u, r, t, z, P, N)'
         /\ Content(View, u, r, t, z, P, N, F)' /\ Current(View)' /\ Written'
<1>1. /\ CurWritePosition' = CurWritePosition /\ CurWriteRealPos' = CurWriteRealPos
      /\ NextBulkOutPosition' = NextBulkOutPosition /\ ENextBulkOutPosition' = ENextBulkOutPosition
      /\ bCurWriting' = bCurWriting /\ bCopySavePad' = bCopySavePad /\ SavedPad' = SavedPad
  BY DEF ring
<1>2. View' = View
  BY <1>1 DEF View
<1>3. Free' = Free /\ (Second' <=> Second) /\ (Writing' <=> Writing)
  BY FreeKept
<1>4. Base' = Base
  BY <1>1, <1>3 DEF Base
<1>5. Positions(u, r, t, z, P, N)'
  BY <1>1, <1>3 DEF Layout, Positions
<1>6. Behind(u, r, z)'
  BY <1>1, <1>3 DEF Layout, Behind, Active
<1>7. Parked(u, r, t, z, P, N)'
  BY <1>1, <1>3 DEF Layout, Parked
<1>8. Content(View, u, r, t, z, P, N, F)'
  <2>1. Content(View, u, r, t, z, P, N, F)
    BY DEF Layout
  <2>2. QED
    BY <1>2, <2>1 DEF Content
<1>9. Current(View)'
  <2>1. Current(View)
    BY DEF Plain
  <2>2. pc'["W"] = pc["W"] \/ (~Active /\ ~Active' /\ ~Second' /\ ~Writing')
    BY <1>3 DEF Active, Second, Writing
  <2>3. CASE pc'["W"] = pc["W"]
    BY <1>1, <1>2, <1>3, <1>4, <2>1, <2>3 DEF Current
  <2>4. CASE ~Active /\ ~Active' /\ ~Second' /\ ~Writing'
    BY <2>4 DEF Current, Active
  <2>5. QED
    BY <2>2, <2>3, <2>4
<1>10. Written'
  <2>1. Written
    BY DEF Plain
  <2>2. CASE pc'["W"] = pc["W"]
    BY <1>1, <1>3, <2>1, <2>2 DEF Written
  <2>3. CASE ~Active /\ ~Active'
    <3>1. ~Writing /\ ~Writing'
      BY <2>3 DEF Active, Writing
    <3>2. QED
      BY <1>1, <2>1, <2>3, <3>1 DEF Written, Active
  <2>4. QED
    BY <2>2, <2>3
<1>11. QED
  BY <1>5, <1>6, <1>7, <1>8, <1>9, <1>10

\* A layout after a step is enough.
LEMMA LaidAgain ==
  ASSUME NEW u, NEW r, NEW t, NEW z, NEW P, NEW N, NEW F,
         Indexed(u, r, t, z, P, N), Rising(u, t, z, P, N), Joined(u, r, t, z, P, N),
         LowEnough(u, t, P), Positions(u, r, t, z, P, N)', Behind(u, r, z)',
         Parked(u, r, t, z, P, N)', Content(View, u, r, t, z, P, N, F)', Numbered(u, r, t, F)',
         SentSoFar(u, r, t, F)', HasUrb(u, r)'
  PROVE  Laid'
<1>1. /\ u \in Nat /\ r \in Nat /\ t \in Nat /\ z \in Nat /\ P \in [Nat -> Nat] /\ N \in [Nat -> Nat]
  BY DEF Indexed
<1>2. F \in [Nat -> Nat]
  BY DEF Numbered
<1>3. Layout(u, r, t, z, P, N, F)'
  BY DEF Layout
<1>4. QED
  BY <1>1, <1>2, <1>3 DEF Laid

\* The header of a frame is written.
LEMMA HeaderKept ==
  ASSUME RingInv, WriteHeader, CanDoWrite
  PROVE  RingInv'
<1>1. PICK u \in Nat, r \in Nat, t \in Nat, z \in Nat, P \in [Nat -> Nat], N \in [Nat -> Nat],
           F \in [Nat -> Nat] : Layout(u, r, t, z, P, N, F)
  BY DEF RingInv, Laid
<1>2. Plain /\ IndInv /\ IndInv'
  BY HeaderStep DEF RingInv, Plain
<1>3. /\ Indexed(u, r, t, z, P, N) /\ Rising(u, t, z, P, N) /\ Joined(u, r, t, z, P, N)
      /\ LowEnough(u, t, P) /\ Positions(u, r, t, z, P, N) /\ Behind(u, r, z)
      /\ Parked(u, r, t, z, P, N) /\ Numbered(u, r, t, F) /\ SentSoFar(u, r, t, F) /\ HasUrb(u, r)
  BY <1>1 DEF Layout
<1>4. PICK Q : Q = [P EXCEPT ![t] = CurWritePosition']
  OBVIOUS
<1>5. /\ Indexed(u, r, t, z, Q, N) /\ Rising(u, t, z, Q, N) /\ Joined(u, r, t, z, Q, N)
      /\ LowEnough(u, t, Q) /\ Positions(u, r, t, z, Q, N)' /\ Behind(u, r, z)'
      /\ Parked(u, r, t, z, Q, N)'
  BY <1>2, <1>3, <1>4, HeaderPlace
<1>6. Typed' /\ Written' /\ Current(View)' /\ Content(View, u, r, t, z, Q, N, F)'
  BY <1>1, <1>2, <1>4, HeaderRing
<1>7. /\ UNCHANGED <<next, dropped, bForcePrintTX, rd, urb, resetCmds, sent, BulkOutPending, bulkOutReset>>
      /\ pc["W"] = "hdr" /\ pc' = [pc EXCEPT !["W"] = "body"]
      /\ w' = [w EXCEPT !.Priv = IF w.kind = "multi" THEN Ovh ELSE Ovh + w.parts[1],
                        !.last = w.kind = "single" /\ LastRound(CurWritePosition', Ovh + w.parts[1])]
  BY HeaderDoes
<1>8. NoZeroLengthFrame' /\ SentIntact' /\ FirstSentInOrder'
  BY <1>2, <1>7, HistoryKept
<1>9. OneUser' /\ HasUrb(u, r)' /\ (Owed => Owed')
  <2>1. OneUser
    BY <1>2 DEF Plain
  <2>2. QED
    BY <1>3, <1>7, <2>1, UsersKept
<1>10. Free' = Free
  <2>1. w \in Blocks /\ w.i = 1
    BY <1>2, <1>7 DEF IndInv, Block, Progress
  <2>2. w'.i = 1
    BY <1>7, <2>1 DEF Blocks
  <2>3. ~Second /\ ~Second'
    BY <2>1, <2>2 DEF Second
  <2>4. QED
    BY <1>7, <2>3 DEF Free
<1>11. Numbered(u, r, t, F)' /\ SentSoFar(u, r, t, F)'
  BY <1>3, <1>7, <1>9, <1>10, NumbersKept
<1>12. Laid'
  BY <1>5, <1>6, <1>9, <1>11, LaidAgain
<1>13. Plain'
  BY <1>2, <1>6, <1>8, <1>9 DEF Plain
<1>14. QED
  BY <1>12, <1>13 DEF RingInv

\* A reset is asked for, or the URB of the pipe is in use.
InUse == rd.pc = "built" \/ urb # "none" \/ bulkOutReset \/ resetCmds > 0

\* A step of the users of the pipe that sends nothing and gives up nothing.
LEMMA QuietStep ==
  ASSUME RingInv, UNCHANGED <<buf, ring, BulkOutSize, w, hist, bForcePrintTX>>,
         pc'["W"] = pc["W"] \/ (~Active /\ ~Active'),
         IndInv', Typed', OneUser', InUse' => InUse, Owed => Owed'
  PROVE  RingInv'
<1>1. PICK u \in Nat, r \in Nat, t \in Nat, z \in Nat, P \in [Nat -> Nat], N \in [Nat -> Nat],
           F \in [Nat -> Nat] : Layout(u, r, t, z, P, N, F)
  BY DEF RingInv, Laid
<1>2. Plain
  BY DEF RingInv
<1>3. next' = next /\ sent' = sent /\ dropped' = dropped
  BY DEF hist
<1>4. /\ Positions(u, r, t, z, P, N)' /\ Behind(u, r, z)' /\ Parked(u, r, t, z, P, N)'
      /\ Content(View, u, r, t, z, P, N, F)' /\ Current(View)' /\ Written'
  BY <1>1, <1>2, <1>3, RingKept
<1>5. NoZeroLengthFrame' /\ SentIntact' /\ FirstSentInOrder'
  BY <1>2, <1>3, HistoryKept
<1>6. HasUrb(u, r)'
  <2>1. HasUrb(u, r)
    BY <1>1 DEF Layout
  <2>2. QED
    BY <2>1 DEF HasUrb, InUse
<1>7. Numbered(u, r, t, F)' /\ SentSoFar(u, r, t, F)'
  <2>1. Free' = Free
    BY <1>3, FreeKept
  <2>2. Numbered(u, r, t, F) /\ SentSoFar(u, r, t, F)
    BY <1>1 DEF Layout
  <2>3. QED
    BY <1>3, <2>1, <2>2, NumbersKept
<1>8. Laid'
  <2>1. Indexed(u, r, t, z, P, N) /\ Rising(u, t, z, P, N) /\ Joined(u, r, t, z, P, N) /\ LowEnough(u, t, P)
    BY <1>1 DEF Layout
  <2>2. QED
    BY <1>4, <1>6, <1>7, <2>1, LaidAgain
<1>9. Plain'
  BY <1>4, <1>5 DEF Plain
<1>10. QED
  BY <1>8, <1>9 DEF RingInv

\* The types of what such a step leaves alone.
LEMMA TypedQuiet ==
  ASSUME Typed, UNCHANGED <<buf, ring, BulkOutSize, w, hist, bForcePrintTX>>,
         {BulkOutPending', dataFlag', bulkOutReset'} \subseteq BOOLEAN,
         rd' \in [pc : {"idle", "claimed", "empty", "built"}, by : Contexts],
         urb' \in {"none", "flying", "done", "failed"}, resetCmds' \in Nat
  PROVE  Typed'
<1>1. buf' \in [Pos -> Cells] /\ SavedPad' \in Cells
  BY DEF Typed, ring
<1>2. {bCurWriting', bCopySavePad', BulkOutPending', dataFlag', bulkOutReset', bForcePrintTX'} \subseteq BOOLEAN
  BY DEF Typed, ring
<1>3. BulkOutSize' \in 0..BufSize /\ NextBulkOutPosition' \in Pos
  BY DEF Typed, ring
<1>4. next' \in 1..(MaxFrames + 1) /\ sent' \in Seq([f : Nat, ok : BOOLEAN, cnt : BOOLEAN])
  BY DEF Typed, hist
<1>5. QED
  BY <1>1, <1>2, <1>3, <1>4 DEF Typed

\* The parts of RingInv the users of the pipe depend on.
LEMMA OfRingInv ==
  ASSUME RingInv
  PROVE  /\ IndInv /\ Typed /\ OneUser /\ pc \in [Contexts -> Labels]
         /\ {BulkOutPending, dataFlag, bulkOutReset} \subseteq BOOLEAN
         /\ rd \in [pc : {"idle", "claimed", "empty", "built"}, by : Contexts]
         /\ urb \in {"none", "flying", "done", "failed"} /\ resetCmds \in Nat
<1>1. IndInv /\ Typed /\ OneUser
  BY DEF RingInv, Plain
<1>2. pc \in [Contexts -> Labels]
  BY <1>1 DEF IndInv, Block
<1>3. QED
  BY <1>1, <1>2 DEF Typed

\* RTUSBKickBulkOut.
LEMMA KickKept ==
  ASSUME RingInv, NEW c \in Contexts, KickBulkOut(c)
  PROVE  RingInv'
<1>1. /\ IndInv /\ Typed /\ OneUser /\ pc \in [Contexts -> Labels]
      /\ {BulkOutPending, dataFlag, bulkOutReset} \subseteq BOOLEAN
      /\ rd \in [pc : {"idle", "claimed", "empty", "built"}, by : Contexts]
      /\ urb \in {"none", "flying", "done", "failed"} /\ resetCmds \in Nat
  BY OfRingInv
<1>2. UNCHANGED <<buf, ring, BulkOutSize, w, hist, bForcePrintTX>>
  BY DEF KickBulkOut
<1>3. UNCHANGED <<bulkOutReset, urb, resetCmds>>
  BY DEF KickBulkOut
<1>4. dataFlag' \in BOOLEAN
  BY <1>1 DEF KickBulkOut, RaisesFlag
<1>5. \/ ~BulkOutPending /\ ~bulkOutReset /\ BulkOutPending' = TRUE /\ rd' = [pc |-> "claimed", by |-> c]
      \/ BulkOutPending' = BulkOutPending /\ rd' = rd
  BY DEF KickBulkOut
<1>6. IndInv'
  BY <1>1, KickStep
<1>7. Typed'
  <2>1. rd' \in [pc : {"idle", "claimed", "empty", "built"}, by : Contexts]
    BY <1>1, <1>5
  <2>2. {BulkOutPending', dataFlag', bulkOutReset'} \subseteq BOOLEAN
    BY <1>1, <1>3, <1>4, <1>5
  <2>3. QED
    BY <1>1, <1>2, <1>3, <2>1, <2>2, TypedQuiet
<1>8. pc'["W"] = pc["W"] \/ (~Active /\ ~Active')
  <2>1. pc' = [pc EXCEPT ![c] = Afterwards(c)] /\ pc[c] \in {"kick", "kick1", "kick2"}
    BY DEF KickBulkOut, KickPoint
  <2>2. Afterwards(c) \in {"check", "idle"}
    BY DEF Afterwards
  <2>3. QED
    BY <1>1, <2>1, <2>2 DEF Active, Contexts
<1>9. OneUser' /\ (InUse' => InUse) /\ (Owed => Owed')
  <2>1. CASE ~BulkOutPending /\ ~bulkOutReset /\ BulkOutPending' = TRUE /\ rd' = [pc |-> "claimed", by |-> c]
    <3>1. rd'.pc = "claimed"
      BY <2>1
    <3>2. rd.pc = "idle" /\ urb = "none"
      BY <1>1, <2>1 DEF OneUser
    <3>3. QED
      BY <1>3, <2>1, <3>1, <3>2 DEF OneUser, InUse, Owed
  <2>2. CASE BulkOutPending' = BulkOutPending /\ rd' = rd
    BY <1>1, <1>3, <2>2 DEF OneUser, InUse, Owed
  <2>3. QED
    BY <1>5, <2>1, <2>2
<1>10. QED
  BY <1>2, <1>6, <1>7, <1>8, <1>9, QuietStep

\* The steps of RTUSBBulkOutDataPacket that find the ring empty or submit the URB.
LEMMA ReaderKept ==
  ASSUME RingInv, SeesEmpty \/ GivesUp \/ SubmitOk
  PROVE  RingInv'
<1>1. /\ IndInv /\ Typed /\ OneUser /\ pc \in [Contexts -> Labels]
      /\ {BulkOutPending, dataFlag, bulkOutReset} \subseteq BOOLEAN
      /\ rd \in [pc : {"idle", "claimed", "empty", "built"}, by : Contexts]
      /\ urb \in {"none", "flying", "done", "failed"} /\ resetCmds \in Nat
  BY OfRingInv
<1>2. UNCHANGED <<buf, ring, BulkOutSize, w, hist, bForcePrintTX, bulkOutReset, resetCmds, pc>>
  BY DEF SeesEmpty, GivesUp, SubmitOk, flags
<1>3. IndInv'
  BY <1>1, AsideStep
<1>4. CASE SeesEmpty
  <2>1. /\ rd.pc = "claimed" /\ rd' = [rd EXCEPT !.pc = "empty"]
        /\ UNCHANGED <<BulkOutPending, dataFlag, bulkOutReset, urb, resetCmds>>
    BY <1>4 DEF SeesEmpty, flags
  <2>2. rd'.pc = "empty" /\ rd' \in [pc : {"idle", "claimed", "empty", "built"}, by : Contexts]
    BY <1>1, <2>1
  <2>3. OneUser' /\ (InUse' => InUse) /\ (Owed => Owed')
    BY <1>1, <2>1, <2>2 DEF OneUser, InUse, Owed
  <2>4. Typed'
    BY <1>1, <1>2, <2>1, <2>2, TypedQuiet
  <2>5. QED
    BY <1>2, <1>3, <2>3, <2>4, QuietStep
<1>5. CASE GivesUp
  <2>1. /\ rd.pc = "empty" /\ rd' = [rd EXCEPT !.pc = "idle"] /\ BulkOutPending' = FALSE
        /\ dataFlag' = FALSE /\ UNCHANGED <<bulkOutReset, urb, resetCmds>>
    BY <1>5 DEF GivesUp
  <2>2. rd'.pc = "idle" /\ rd' \in [pc : {"idle", "claimed", "empty", "built"}, by : Contexts]
    BY <1>1, <2>1
  <2>3. OneUser' /\ (InUse' => InUse) /\ (Owed => Owed')
    BY <1>1, <2>1, <2>2 DEF OneUser, InUse, Owed
  <2>4. Typed'
    BY <1>1, <1>2, <2>1, <2>2, TypedQuiet
  <2>5. QED
    BY <1>2, <1>3, <2>3, <2>4, QuietStep
<1>6. CASE SubmitOk
  <2>1. /\ rd.pc = "built" /\ rd' = [rd EXCEPT !.pc = "idle"] /\ urb' = "flying"
        /\ UNCHANGED <<BulkOutPending, dataFlag, bulkOutReset, resetCmds>>
    BY <1>6 DEF SubmitOk, flags
  <2>2. rd'.pc = "idle" /\ rd' \in [pc : {"idle", "claimed", "empty", "built"}, by : Contexts]
    BY <1>1, <2>1
  <2>3. OneUser' /\ (InUse' => InUse) /\ (Owed => Owed')
    BY <1>1, <2>1, <2>2 DEF OneUser, InUse, Owed
  <2>4. Typed'
    BY <1>1, <1>2, <2>1, <2>2, TypedQuiet
  <2>5. QED
    BY <1>2, <1>3, <2>3, <2>4, QuietStep
<1>7. QED
  BY <1>4, <1>5, <1>6

\* The completion tasklet, a failed URB and the reset command.
LEMMA CompletionKept ==
  ASSUME RingInv, UrbFails \/ DataOutComplete \/ TaskletCheck \/ OtherPipeQueuesReset \/ ResetBulkOut
  PROVE  RingInv'
<1>1. /\ IndInv /\ Typed /\ OneUser /\ pc \in [Contexts -> Labels]
      /\ {BulkOutPending, dataFlag, bulkOutReset} \subseteq BOOLEAN
      /\ rd \in [pc : {"idle", "claimed", "empty", "built"}, by : Contexts]
      /\ urb \in {"none", "flying", "done", "failed"} /\ resetCmds \in Nat
  BY OfRingInv
<1>2. UNCHANGED <<buf, ring, BulkOutSize, w, hist, bForcePrintTX>>
  BY DEF UrbFails, DataOutComplete, TaskletCheck, OtherPipeQueuesReset, ResetBulkOut, flags
<1>3. IndInv'
  BY <1>1, AsideStep
<1>4. pc'["W"] = pc["W"]
  <2>1. \/ pc' = pc
        \/ \E l \in {"kick1", "idle", "kick2"} : pc' = [pc EXCEPT !["T"] = l]
        \/ pc' = [pc EXCEPT !["C"] = "kick"]
    BY DEF UrbFails, DataOutComplete, TaskletCheck, OtherPipeQueuesReset, ResetBulkOut
  <2>2. QED
    BY <1>1, <2>1 DEF Contexts
<1>5. CASE UrbFails
  <2>1. /\ urb = "flying" /\ urb' = "failed"
        /\ UNCHANGED <<BulkOutPending, dataFlag, bulkOutReset, rd, resetCmds>>
    BY <1>5 DEF UrbFails, flags
  <2>2. OneUser' /\ (InUse' => InUse) /\ (Owed => Owed')
    BY <1>1, <2>1 DEF OneUser, InUse, Owed
  <2>3. Typed'
    BY <1>1, <1>2, <2>1, TypedQuiet
  <2>4. QED
    BY <1>2, <1>3, <1>4, <2>2, <2>3, QuietStep
<1>6. CASE DataOutComplete
  <2>1. /\ urb \in {"done", "failed"} /\ urb' = "none" /\ BulkOutPending' = FALSE
        /\ bulkOutReset' = (bulkOutReset \/ urb = "failed") /\ dataFlag' \in BOOLEAN
        /\ UNCHANGED <<rd, resetCmds>>
    BY <1>1, <1>6 DEF DataOutComplete
  <2>2. OneUser' /\ (InUse' => InUse) /\ (Owed => Owed')
    BY <1>1, <2>1 DEF OneUser, InUse, Owed
  <2>3. Typed'
    BY <1>1, <1>2, <2>1, TypedQuiet
  <2>4. QED
    BY <1>2, <1>3, <1>4, <2>2, <2>3, QuietStep
<1>7. CASE TaskletCheck
  <2>1. /\ resetCmds' \in {resetCmds, resetCmds + 1} /\ (resetCmds' # resetCmds => bulkOutReset)
        /\ UNCHANGED <<BulkOutPending, dataFlag, bulkOutReset, rd, urb>>
    BY <1>1, <1>7 DEF TaskletCheck, flags
  <2>2. OneUser' /\ (InUse' => InUse) /\ (Owed => Owed')
    BY <1>1, <2>1 DEF OneUser, InUse, Owed
  <2>3. Typed'
    BY <1>1, <1>2, <2>1, TypedQuiet
  <2>4. QED
    BY <1>2, <1>3, <1>4, <2>2, <2>3, QuietStep
<1>8. CASE OtherPipeQueuesReset
  <2>1. /\ resetCmds' = resetCmds + 1 /\ bulkOutReset
        /\ UNCHANGED <<BulkOutPending, dataFlag, bulkOutReset, rd, urb>>
    BY <1>1, <1>8 DEF OtherPipeQueuesReset, flags
  <2>2. OneUser' /\ (InUse' => InUse) /\ (Owed => Owed')
    BY <1>1, <2>1 DEF OneUser, InUse, Owed
  <2>3. Typed'
    BY <1>1, <1>2, <2>1, TypedQuiet
  <2>4. QED
    BY <1>2, <1>3, <1>4, <2>2, <2>3, QuietStep
<1>9. CASE ResetBulkOut
  <2>1. resetCmds > 0 /\ resetCmds' = resetCmds - 1 /\ bulkOutReset' = FALSE /\ urb' = urb
    BY <1>9 DEF ResetBulkOut
  <2>2. CASE BulkOutPending
    <3>1. dataFlag' = TRUE /\ UNCHANGED <<BulkOutPending, rd>>
      BY <1>9, <2>2 DEF ResetBulkOut
    <3>2. OneUser' /\ (InUse' => InUse) /\ (Owed => Owed')
      BY <1>1, <2>1, <2>2, <3>1 DEF OneUser, InUse, Owed
    <3>3. Typed'
      <4>1. resetCmds' \in Nat
        BY <1>1, <2>1
      <4>2. {BulkOutPending', dataFlag', bulkOutReset'} \subseteq BOOLEAN
        BY <1>1, <2>1, <3>1
      <4>3. QED
        BY <1>1, <1>2, <2>1, <3>1, <4>1, <4>2, TypedQuiet
    <3>4. QED
      BY <1>2, <1>3, <1>4, <3>2, <3>3, QuietStep
  <2>3. CASE ~BulkOutPending
    <3>1. dataFlag' = dataFlag /\ BulkOutPending' = TRUE /\ rd' = [pc |-> "built", by |-> "C"]
      BY <1>9, <2>3 DEF ResetBulkOut
    <3>2. rd'.pc = "built" /\ rd' \in [pc : {"idle", "claimed", "empty", "built"}, by : Contexts]
      BY <3>1 DEF Contexts
    <3>3. OneUser' /\ (InUse' => InUse) /\ (Owed => Owed')
      BY <1>1, <2>1, <2>3, <3>1, <3>2 DEF OneUser, InUse, Owed
    <3>4. Typed'
      <4>1. resetCmds' \in Nat
        BY <1>1, <2>1
      <4>2. {BulkOutPending', dataFlag', bulkOutReset'} \subseteq BOOLEAN
        BY <1>1, <2>1, <3>1
      <4>3. QED
        BY <1>1, <1>2, <2>1, <3>2, <4>1, <4>2, TypedQuiet
    <3>5. QED
      BY <1>2, <1>3, <1>4, <3>3, <3>4, QuietStep
  <2>4. QED
    BY <2>2, <2>3
<1>10. QED
  BY <1>5, <1>6, <1>7, <1>8, <1>9
-----------------------------------------------------------------------------
(***************************************************************************)
(* A batch is taken on, or its first frame is refused.                     *)
(***************************************************************************)

\* What has been sent.
LEMMA SentCell ==
  ASSUME Typed, NEW i \in DOMAIN sent
  PROVE  sent[i] \in [f : Nat, ok : BOOLEAN, cnt : BOOLEAN] /\ sent[i].f \in Nat /\ i \in Nat
<1>1. sent \in Seq([f : Nat, ok : BOOLEAN, cnt : BOOLEAN])
  BY DEF Typed
<1> DEFINE R == [f : Nat, ok : BOOLEAN, cnt : BOOLEAN]
<1>2. sent[i] \in R /\ i \in Nat
  <2>1. sent \in Seq(R)
    BY <1>1
  <2> HIDE DEF R
  <2>2. Len(sent) \in Nat /\ DOMAIN sent = 1..Len(sent)
    BY <2>1
  <2>3. i \in 1..Len(sent)
    BY <2>2
  <2>4. QED
    BY <2>1, <2>2, <2>3
<1>3. QED
  BY <1>2

\* The room RTUSBFreeDescRequest finds below the last URB.
LEMMA RoomBelow ==
  ASSUME NEW u, NEW r, NEW z, NEW req \in Nat, FreeDesc(req), Behind(u, r, z), z >= u,
         CurWritePosition \in Nat, NextBulkOutPosition \in Nat, LocalTxBuf > 2
  PROVE  CurWritePosition + req + LocalTxBuf <= NextBulkOutPosition
<1>1. CurWritePosition < NextBulkOutPosition \/ CurWritePosition = 1
  BY DEF Behind
<1>2. /\ ~(CurWritePosition < NextBulkOutPosition /\ CurWritePosition + req + LocalTxBuf > NextBulkOutPosition)
      /\ ~(CurWritePosition = 1 /\ NextBulkOutPosition < req + LocalTxBuf)
  BY DEF FreeDesc
<1>3. QED
  BY <1>1, <1>2, Constants

\* The last URB starts in the buffer.
LEMMA UrbStart ==
  ASSUME NEW u, NEW r, NEW t, NEW z, NEW P, NEW N, Indexed(u, r, t, z, P, N), Positions(u, r, t, z, P, N)
  PROVE  /\ NextBulkOutPosition \in Nat /\ CurWritePosition \in Nat /\ ENextBulkOutPosition \in Nat
<1>1. u \in Nat /\ r \in Nat /\ t \in Nat /\ u <= r /\ P \in [Nat -> Nat]
  BY DEF Indexed
<1>2. u = r \/ u < r
  BY <1>1
<1>3. QED
  BY <1>1, <1>2 DEF Positions

\* RTMPDeQueuePacket.
LEMMA DeQueueKept ==
  ASSUME RingInv, NEW b \in Batches, DeQueuePacket(b)
  PROVE  RingInv'
<1>1. /\ IndInv /\ Typed /\ OneUser /\ pc \in [Contexts -> Labels]
      /\ {BulkOutPending, dataFlag, bulkOutReset} \subseteq BOOLEAN
      /\ rd \in [pc : {"idle", "claimed", "empty", "built"}, by : Contexts]
      /\ urb \in {"none", "flying", "done", "failed"} /\ resetCmds \in Nat
  BY OfRingInv
<1>2. /\ UNCHANGED <<buf, ring, BulkOutPending, bulkOutReset, bForcePrintTX, BulkOutSize, rd, urb,
                     resetCmds, hist>>
      /\ pc["W"] = "idle"
  BY DEF DeQueuePacket
<1>3. IndInv'
  BY <1>1, DeQueueStep
<1>4. CASE ~FreeDesc(Sum(b.parts))
  <2>1. w' = w /\ dataFlag' = TRUE /\ pc' = [pc EXCEPT !["W"] = "kick"]
    BY <1>4 DEF DeQueuePacket
  <2>2. ~Active /\ ~Active'
    BY <1>1, <1>2, <2>1 DEF Active, Contexts
  <2>3. OneUser' /\ (InUse' => InUse) /\ (Owed => Owed')
    BY <1>1, <1>2 DEF OneUser, InUse, Owed
  <2>4. Typed'
    <3>1. {BulkOutPending', dataFlag', bulkOutReset'} \subseteq BOOLEAN
      BY <1>1, <1>2, <2>1
    <3>2. QED
      BY <1>1, <1>2, <2>1, <3>1, TypedQuiet
  <2>5. QED
    BY <1>2, <1>3, <2>1, <2>2, <2>3, <2>4, QuietStep
<1>5. CASE FreeDesc(Sum(b.parts))
  <2>1. /\ w' = [kind |-> b.kind, parts |-> b.parts, i |-> 1, Priv |-> 0, last |-> FALSE]
        /\ pc' = [pc EXCEPT !["W"] = "hdr"] /\ dataFlag' = dataFlag
        /\ next + Len(b.parts) - 1 <= MaxFrames
    BY <1>5 DEF DeQueuePacket
  <2>2. w'.kind = b.kind /\ w'.parts = b.parts /\ w'.i = 1 /\ pc'["W"] = "hdr"
    BY <1>1, <2>1 DEF Contexts
  <2>3. ~Writing /\ ~Writing' /\ ~Second /\ ~Second'
    BY <1>2, <2>2 DEF Writing, Second
  <2>4. PICK u \in Nat, r \in Nat, t \in Nat, z \in Nat, P \in [Nat -> Nat], N \in [Nat -> Nat],
             F \in [Nat -> Nat] : Layout(u, r, t, z, P, N, F)
    BY DEF RingInv, Laid
  <2>5. /\ Indexed(u, r, t, z, P, N) /\ Rising(u, t, z, P, N) /\ Joined(u, r, t, z, P, N)
        /\ LowEnough(u, t, P) /\ Positions(u, r, t, z, P, N) /\ Behind(u, r, z)
        /\ Parked(u, r, t, z, P, N) /\ Content(View, u, r, t, z, P, N, F)
        /\ Numbered(u, r, t, F) /\ SentSoFar(u, r, t, F) /\ HasUrb(u, r)
    BY <2>4 DEF Layout
  <2>6. /\ CurWritePosition' = CurWritePosition /\ CurWriteRealPos' = CurWriteRealPos
        /\ NextBulkOutPosition' = NextBulkOutPosition /\ ENextBulkOutPosition' = ENextBulkOutPosition
        /\ bCurWriting' = bCurWriting /\ bCopySavePad' = bCopySavePad /\ SavedPad' = SavedPad
        /\ next' = next /\ sent' = sent /\ dropped' = dropped /\ BulkOutSize' = BulkOutSize
    BY <1>2 DEF ring, hist
  <2>7. View' = View
    BY <1>2, <2>6 DEF View
  <2>8. Positions(u, r, t, z, P, N)'
    BY <2>3, <2>5, <2>6 DEF Positions
  <2>9. Parked(u, r, t, z, P, N)'
    BY <2>3, <2>5, <2>6 DEF Parked
  <2>10. Content(View, u, r, t, z, P, N, F)'
    BY <2>5, <2>7 DEF Content
  <2>11. Behind(u, r, z)'
    <3>1. Sum(b.parts) \in Nat
      BY OfBatch
    <3>2. NextBulkOutPosition \in Nat /\ CurWritePosition \in Nat
      BY <2>5, UrbStart
    <3>3. LocalTxBuf > 2
      <4>1. Room(b) + 2 <= LocalTxBuf + Sum(b.parts)
        BY Slack
      <4>2. Room(b) \in Nat /\ Sum(b.parts) \in Nat /\ Sum(b.parts) + 2 <= Room(b)
        BY OfBatch
      <4>3. QED
        BY <4>1, <4>2, Constants
    <3>4. z >= u => CurWritePosition + Sum(b.parts) + LocalTxBuf <= NextBulkOutPosition
      BY <1>5, <2>5, <3>1, <3>2, <3>3, RoomBelow
    <3>5. z >= u => CurWritePosition < NextBulkOutPosition \/ CurWritePosition = 1
      BY <2>5 DEF Behind
    <3>6. QED
      BY <2>2, <2>3, <2>6, <3>4, <3>5 DEF Behind
  <2>12. Current(View)'
    BY <2>2, <2>3 DEF Current, Writing
  <2>13. Written'
    <3>1. Written
      BY DEF RingInv, Plain
    <3>2. next' + Len(w'.parts) - w'.i <= MaxFrames
      BY <2>1, <2>2, <2>6
    <3>3. QED
      BY <2>2, <2>3, <2>6, <3>1, <3>2 DEF Written
  <2>14. Typed'
    <3>1. buf' \in [Pos -> Cells] /\ SavedPad' \in Cells
      BY <1>1, <1>2, <2>6 DEF Typed
    <3>2. {bCurWriting', bCopySavePad', BulkOutPending', dataFlag', bulkOutReset', bForcePrintTX'} \subseteq BOOLEAN
      BY <1>1, <1>2, <2>1, <2>6 DEF Typed
    <3>3. /\ BulkOutSize' \in 0..BufSize /\ NextBulkOutPosition' \in Pos
          /\ rd' \in [pc : {"idle", "claimed", "empty", "built"}, by : Contexts]
          /\ urb' \in {"none", "flying", "done", "failed"} /\ resetCmds' \in Nat
          /\ next' \in 1..(MaxFrames + 1) /\ sent' \in Seq([f : Nat, ok : BOOLEAN, cnt : BOOLEAN])
      BY <1>1, <1>2, <2>6 DEF Typed
    <3>4. QED
      BY <3>1, <3>2, <3>3 DEF Typed
  <2>15. OneUser' /\ HasUrb(u, r)' /\ (Owed => Owed')
    BY <1>1, <1>2, <2>5, UsersKept
  <2>16. Numbered(u, r, t, F)' /\ SentSoFar(u, r, t, F)'
    <3>1. Free' = Free
      BY <2>3, <2>6 DEF Free
    <3>2. QED
      BY <2>5, <2>6, <2>15, <3>1, NumbersKept
  <2>17. NoZeroLengthFrame' /\ SentIntact' /\ FirstSentInOrder'
    <3>1. Plain
      BY DEF RingInv
    <3>2. QED
      BY <1>2, <2>6, <3>1, HistoryKept
  <2>18. Laid'
    BY <2>5, <2>8, <2>9, <2>10, <2>11, <2>15, <2>16, LaidAgain
  <2>19. Plain'
    BY <1>3, <2>12, <2>13, <2>14, <2>15, <2>17 DEF Plain
  <2>20. QED
    BY <2>18, <2>19 DEF RingInv
<1>6. QED
  BY <1>4, <1>5

\* A refused frame is given up.
LEMMA RefusedKept ==
  ASSUME RingInv, WriteHeader, ~CanDoWrite
  PROVE  RingInv'
<1>1. /\ IndInv /\ Typed /\ OneUser /\ pc \in [Contexts -> Labels]
      /\ {BulkOutPending, dataFlag, bulkOutReset} \subseteq BOOLEAN
      /\ rd \in [pc : {"idle", "claimed", "empty", "built"}, by : Contexts]
      /\ urb \in {"none", "flying", "done", "failed"} /\ resetCmds \in Nat
  BY OfRingInv
<1>2. /\ UNCHANGED <<buf, ring, w, BulkOutPending, bulkOutReset, bForcePrintTX, BulkOutSize, rd, urb,
                     resetCmds, sent>>
      /\ pc["W"] = "hdr" /\ dataFlag' = TRUE /\ dropped' = dropped \union {next} /\ next' = next + 1
      /\ pc' = [pc EXCEPT !["W"] = "kick"]
  BY DEF WriteHeader
<1>3. IndInv'
  BY <1>1, HeaderStep
<1>4. ~Writing /\ ~Writing' /\ ~Second /\ ~Second' /\ pc'["W"] = "kick"
  BY <1>1, <1>2 DEF Writing, Second, Contexts
<1>5. PICK u \in Nat, r \in Nat, t \in Nat, z \in Nat, P \in [Nat -> Nat], N \in [Nat -> Nat],
           F \in [Nat -> Nat] : Layout(u, r, t, z, P, N, F)
  BY DEF RingInv, Laid
<1>6. /\ Indexed(u, r, t, z, P, N) /\ Rising(u, t, z, P, N) /\ Joined(u, r, t, z, P, N)
      /\ LowEnough(u, t, P) /\ Positions(u, r, t, z, P, N) /\ Behind(u, r, z)
      /\ Parked(u, r, t, z, P, N) /\ Content(View, u, r, t, z, P, N, F)
      /\ Numbered(u, r, t, F) /\ SentSoFar(u, r, t, F) /\ HasUrb(u, r)
  BY <1>5 DEF Layout
<1>7. /\ CurWritePosition' = CurWritePosition /\ CurWriteRealPos' = CurWriteRealPos
      /\ NextBulkOutPosition' = NextBulkOutPosition /\ ENextBulkOutPosition' = ENextBulkOutPosition
      /\ bCurWriting' = bCurWriting /\ bCopySavePad' = bCopySavePad /\ SavedPad' = SavedPad
  BY <1>2 DEF ring
<1>8. View' = View
  BY <1>2, <1>7 DEF View
<1>9. Positions(u, r, t, z, P, N)'
  BY <1>2, <1>4, <1>6, <1>7 DEF Positions
<1>10. Parked(u, r, t, z, P, N)'
  BY <1>4, <1>6, <1>7 DEF Parked
<1>11. Content(View, u, r, t, z, P, N, F)'
  BY <1>6, <1>8 DEF Content
<1>12. Behind(u, r, z)'
  <2>1. z >= u => CurWritePosition < NextBulkOutPosition \/ CurWritePosition = 1
    BY <1>6 DEF Behind
  <2>2. QED
    BY <1>4, <1>7, <2>1 DEF Behind
<1>13. Current(View)'
  BY <1>4 DEF Current, Writing
<1>14. next \in 1..MaxFrames /\ MaxFrames \in Nat
  <2>1. next \in Nat /\ next >= 1 /\ MaxFrames \in Nat
    BY <1>1, TxRingAssumption DEF Typed
  <2>2. Written
    BY DEF RingInv, Plain
  <2>3. next + Len(w.parts) - w.i <= MaxFrames
    BY <1>2, <2>2 DEF Written
  <2>4. Len(w.parts) \in 1..2 /\ w.i = 1
    BY <1>1, <1>2, Sizes DEF IndInv, Progress
  <2> DEFINE n == Len(w.parts)
  <2>5. n \in 1..2 /\ next + n - w.i <= MaxFrames /\ w.i = 1
    BY <2>3, <2>4
  <2> HIDE DEF n
  <2>6. next + n - 1 <= MaxFrames
    BY <2>5
  <2>7. QED
    BY <2>1, <2>5, <2>6
<1>15. Written'
  <2>1. Written
    BY DEF RingInv, Plain
  <2>2. QED
    BY <1>4, <1>7, <2>1 DEF Written
<1>16. Typed'
  <2>1. buf' \in [Pos -> Cells] /\ SavedPad' \in Cells
    BY <1>1, <1>2, <1>7 DEF Typed
  <2>2. {bCurWriting', bCopySavePad', BulkOutPending', dataFlag', bulkOutReset', bForcePrintTX'} \subseteq BOOLEAN
    BY <1>1, <1>2, <1>7 DEF Typed
  <2>3. next' \in 1..(MaxFrames + 1)
    BY <1>2, <1>14
  <2>4. /\ BulkOutSize' \in 0..BufSize /\ NextBulkOutPosition' \in Pos
        /\ rd' \in [pc : {"idle", "claimed", "empty", "built"}, by : Contexts]
        /\ urb' \in {"none", "flying", "done", "failed"} /\ resetCmds' \in Nat
        /\ sent' \in Seq([f : Nat, ok : BOOLEAN, cnt : BOOLEAN])
    BY <1>1, <1>2, <1>7 DEF Typed
  <2>5. QED
    BY <2>1, <2>2, <2>3, <2>4 DEF Typed
<1>17. OneUser' /\ HasUrb(u, r)' /\ (Owed => Owed')
  BY <1>1, <1>2, <1>6, UsersKept
<1>18. Free = next /\ Free' = next + 1 /\ Gone' = Gone \union {next}
  BY <1>2, <1>4 DEF Free, Gone, FramesOf
<1>19. Numbered(u, r, t, F)'
  <2>1. /\ F \in [Nat -> Nat] /\ t <= next /\ 1 <= next
        /\ \A i \in u..(t - 1) : 1 <= F[i] /\ F[i] < next
        /\ \A i \in u..(t - 1) : \A j \in (i + 1)..(t - 1) : F[i] < F[j]
        /\ \A f \in 1..(next - 1) : f \in Gone \/ \E i \in u..(t - 1) : f = F[i]
        /\ ~Owed => \A i \in u..(r - 1) : F[i] \in Gone
    BY <1>6, <1>18 DEF Numbered
  <2>2. \A i \in u..(t - 1) : 1 <= F[i] /\ F[i] < next + 1
    <3>1. SUFFICES ASSUME NEW i \in u..(t - 1) PROVE 1 <= F[i] /\ F[i] < next + 1
      OBVIOUS
    <3>2. i \in Nat
      BY <1>5
    <3>3. F[i] \in Nat /\ 1 <= F[i] /\ F[i] < next
      BY <2>1, <3>2
    <3>4. QED
      BY <1>14, <3>3
  <2>3. \A f \in 1..(Free' - 1) : f \in Gone' \/ \E i \in u..(t - 1) : f = F[i]
    <3>1. SUFFICES ASSUME NEW f \in 1..(Free' - 1), f \notin Gone' PROVE \E i \in u..(t - 1) : f = F[i]
      OBVIOUS
    <3>2. f \in 1..(next - 1)
      BY <1>14, <1>18, <3>1
    <3>3. QED
      BY <1>18, <2>1, <3>1, <3>2
  <2>4. t <= next + 1 /\ 1 <= next + 1
    BY <1>14, <2>1
  <2>5. ~Owed' => \A i \in u..(r - 1) : F[i] \in Gone'
    BY <1>17, <1>18, <2>1
  <2>7. t <= Free' /\ 1 <= Free' /\ \A i \in u..(t - 1) : 1 <= F[i] /\ F[i] < Free'
    BY <1>18, <2>2, <2>4
  <2>8. QED
    BY <2>1, <2>3, <2>5, <2>7, Zenon DEF Numbered
<1>20. SentSoFar(u, r, t, F)'
  <2>1. FramesOf(sent)' = FramesOf(sent)
    BY <1>2 DEF FramesOf
  <2>2. \A i \in DOMAIN sent : sent[i].f < next + 1
    <3>1. SUFFICES ASSUME NEW i \in DOMAIN sent PROVE sent[i].f < next + 1
      OBVIOUS
    <3>2. sent[i].f < next
      BY <1>6, <1>18 DEF SentSoFar
    <3>3. sent[i].f \in Nat
      BY <1>1, SentCell
    <3>4. QED
      BY <1>14, <3>2, <3>3
  <2>3. QED
    BY <1>2, <1>6, <1>18, <2>1, <2>2 DEF SentSoFar
<1>21. NoZeroLengthFrame' /\ SentIntact' /\ FirstSentInOrder'
  <2>1. Plain
    BY DEF RingInv
  <2>2. QED
    BY <1>2, <2>1, HistoryKept
<1>22. Laid'
  BY <1>6, <1>9, <1>10, <1>11, <1>12, <1>17, <1>19, <1>20, LaidAgain
<1>23. Plain'
  BY <1>3, <1>13, <1>15, <1>16, <1>17, <1>21 DEF Plain
<1>24. QED
  BY <1>22, <1>23 DEF RingInv
-----------------------------------------------------------------------------
(***************************************************************************)
(* Writing behind the first unit of the batch.                             *)
(***************************************************************************)

\* What the writer may touch misses the published frames.
LEMMA WriterMisses ==
  ASSUME NEW u, NEW r, NEW t, NEW z, NEW P, NEW N, NEW lo \in Nat, NEW hi \in Nat, NEW i \in u..(t - 1),
         Indexed(u, r, t, z, P, N), Rising(u, t, z, P, N), Positions(u, r, t, z, P, N), Behind(u, r, z),
         Writing, CurWritePosition <= lo, hi <= CurWritePosition + Room(w), Room(w) \in Nat
  PROVE  P[i] + N[i] <= lo \/ hi < P[i]
<1>1. P[i] + N[i] <= CurWritePosition \/ (u <= z /\ NextBulkOutPosition <= P[i])
  BY Outside
<1>2. u \in Nat /\ t \in Nat /\ z \in Nat /\ P \in [Nat -> Nat] /\ N \in [Nat -> Nat]
  BY DEF Indexed
<1>3. i \in Nat
  BY <1>2
<1>4. P[i] \in Nat /\ N[i] \in Nat /\ CurWritePosition \in Nat /\ NextBulkOutPosition \in Nat
  BY <1>2, <1>3, UrbStart
<1>5. u <= z => CurWritePosition + Room(w) + 1 <= NextBulkOutPosition
  BY <1>2 DEF Behind
<1> DEFINE rm == Room(w)
<1>6. rm \in Nat /\ hi <= CurWritePosition + rm /\ (u <= z => CurWritePosition + rm + 1 <= NextBulkOutPosition)
  BY <1>5
<1> HIDE DEF rm
<1>7. QED
  BY <1>1, <1>4, <1>6

\* It also misses the parked header.
LEMMA WriterSpares ==
  ASSUME NEW u, NEW r, NEW t, NEW z, NEW P, NEW N, NEW lo \in Nat, NEW hi \in Nat,
         Indexed(u, r, t, z, P, N), Rising(u, t, z, P, N), Positions(u, r, t, z, P, N), Behind(u, r, z),
         Writing, CurWritePosition < lo, hi <= CurWritePosition + Room(w), Room(w) \in Nat
  PROVE  ENextBulkOutPosition \in Nat /\ (ENextBulkOutPosition < lo \/ hi < ENextBulkOutPosition)
<1>1. /\ u \in Nat /\ r \in Nat /\ t \in Nat /\ u <= r /\ r <= t /\ P \in [Nat -> Nat] /\ N \in [Nat -> Nat]
      /\ \A i \in u..(t - 1) : N[i] > Ovh
  BY DEF Indexed
<1>2. ENextBulkOutPosition = P[r] /\ CurWritePosition = P[t] /\ P[r] \in Nat /\ P[t] \in Nat
  BY <1>1 DEF Positions
<1>3. ENextBulkOutPosition < lo \/ hi < ENextBulkOutPosition
  <2>1. CASE r = t
    BY <1>2, <2>1
  <2>2. CASE r # t
    <3>1. r \in u..(t - 1)
      BY <1>1, <2>2
    <3>2. CurWritePosition <= lo
      BY <1>2
    <3>3. P[r] + N[r] <= lo \/ hi < P[r]
      BY <3>1, <3>2, WriterMisses
    <3>4. N[r] \in Nat /\ N[r] > Ovh
      BY <1>1, <3>1
    <3>5. N[r] > 0
      BY <3>4, Constants
    <3>6. QED
      BY <1>2, <3>3, <3>4, <3>5
  <2>3. QED
    BY <2>1, <2>2
<1>4. QED
  BY <1>2, <1>3

\* So what is written shows in the view, and nothing else changes there.
LEMMA WriterView ==
  ASSUME NEW u, NEW r, NEW t, NEW z, NEW P, NEW N, NEW lo \in Nat, NEW hi \in Nat,
         Indexed(u, r, t, z, P, N), Rising(u, t, z, P, N), Positions(u, r, t, z, P, N), Behind(u, r, z),
         Parked(u, r, t, z, P, N),
         Writing, CurWritePosition < lo, hi <= CurWritePosition + Room(w), Room(w) \in Nat,
         buf \in [Pos -> Cells], buf' \in [Pos -> Cells],
         UNCHANGED <<bCopySavePad, SavedPad, ENextBulkOutPosition>>,
         \A q \in Pos : q < lo \/ hi < q => buf'[q] = buf[q]
  PROVE  /\ \A q \in Pos : q < lo \/ hi < q => View'[q] = View[q]
         /\ \A q \in Pos : lo <= q /\ q <= hi => View'[q] = buf'[q]
<1>1. ENextBulkOutPosition \in Nat /\ (ENextBulkOutPosition < lo \/ hi < ENextBulkOutPosition)
  BY WriterSpares
<1>2. QED
  BY <1>1, ViewWritten

\* The layout stays while the writer writes.
LEMMA WriterLaid ==
  ASSUME NEW u, NEW r, NEW t, NEW z, NEW P, NEW N, NEW F, Plain, Layout(u, r, t, z, P, N, F),
         NEW lo \in Nat, NEW hi \in Nat, Writing, Writing', Room(w') = Room(w), Free' = Free,
         CurWritePosition < lo, hi <= CurWritePosition + Room(w), Room(w) \in Nat, buf' \in [Pos -> Cells],
         UNCHANGED <<CurWritePosition, NextBulkOutPosition, ENextBulkOutPosition, bCopySavePad, SavedPad,
                     BulkOutSize, sent, dropped, rd, urb, resetCmds, BulkOutPending, bulkOutReset>>,
         \A q \in Pos : q < lo \/ hi < q => buf'[q] = buf[q]
  PROVE  Laid' /\ OneUser'
<1>1. /\ Indexed(u, r, t, z, P, N) /\ Rising(u, t, z, P, N) /\ Joined(u, r, t, z, P, N)
      /\ LowEnough(u, t, P) /\ Positions(u, r, t, z, P, N) /\ Behind(u, r, z)
      /\ Parked(u, r, t, z, P, N) /\ Content(View, u, r, t, z, P, N, F)
      /\ Numbered(u, r, t, F) /\ SentSoFar(u, r, t, F) /\ HasUrb(u, r)
  BY DEF Layout
<1>2. Positions(u, r, t, z, P, N)'
  BY <1>1 DEF Positions
<1>3. Parked(u, r, t, z, P, N)'
  BY <1>1 DEF Parked
<1>4. Behind(u, r, z)'
  <2>1. pc'["W"] # "hdr"
    BY DEF Writing
  <2>2. QED
    BY <1>1, <2>1 DEF Behind
<1>5. buf \in [Pos -> Cells] /\ OneUser
  BY DEF Plain, Typed
<1>6. \A q \in Pos : q < lo \/ hi < q => View'[q] = View[q]
  BY <1>1, <1>5, WriterView
<1>7. \A i \in u..(t - 1) : P[i] + N[i] <= lo \/ hi < P[i]
  <2>1. CurWritePosition <= lo
    BY <1>1, UrbStart
  <2>2. QED
    BY <1>1, <2>1, WriterMisses
<1>8. Content(View', u, r, t, z, P, N, F)
  BY <1>1, <1>6, <1>7, ContentKept
<1>9. Content(View, u, r, t, z, P, N, F)'
  BY <1>8 DEF Content
<1>10. OneUser' /\ HasUrb(u, r)' /\ (Owed => Owed')
  BY <1>1, <1>5, UsersKept
<1>11. Numbered(u, r, t, F)' /\ SentSoFar(u, r, t, F)'
  BY <1>1, <1>10, NumbersKept
<1>12. QED
  BY <1>1, <1>2, <1>3, <1>4, <1>9, <1>10, <1>11, LaidAgain

\* The room of the block being written.
LEMMA BlockRoom ==
  ASSUME Block, Active
  PROVE  /\ Room(w) \in Nat /\ Room(w) <= AggReserve /\ w.parts[1] \in Nat /\ w.parts[1] > 0
         /\ w.kind \in {"single", "frag", "multi"}
         /\ w.kind = "single" => Len(w.parts) = 1 /\ Room(w) = Ovh + w.parts[1]
         /\ w.kind = "frag" => /\ Len(w.parts) = 2 /\ Room(w) = Ovh + Ovh + w.parts[1] + w.parts[2]
                               /\ w.parts[2] \in Nat /\ w.parts[2] > 0
         /\ w.kind = "multi" => /\ Len(w.parts) = 2 /\ Room(w) = Ovh + w.parts[1] + w.parts[2]
                                /\ w.parts[2] \in Nat /\ w.parts[2] > 0
         /\ LocalTxBuf > 2
<1>1. PICK b \in Batches : /\ w.kind = b.kind /\ w.parts = b.parts
                           /\ Room(w) = Room(b) /\ Sum(w.parts) = Sum(b.parts)
  BY OfBlock DEF Active
<1>2. /\ b.kind \in {"single", "frag", "multi"}
      /\ Len(b.parts) \in 1..2 /\ b.parts[1] \in Nat \ {0}
      /\ Len(b.parts) = 2 => b.parts[2] \in Nat \ {0}
      /\ b.kind = "single" <=> Len(b.parts) = 1
      /\ Sum(b.parts) = IF Len(b.parts) = 1 THEN b.parts[1] ELSE b.parts[1] + b.parts[2]
      /\ b.kind = "frag" => Room(b) = Ovh + Ovh + b.parts[1] + b.parts[2]
      /\ b.kind # "frag" => Room(b) = Ovh + Sum(b.parts)
      /\ Room(b) \in Nat /\ Room(b) <= AggReserve
  BY OfBatch
<1>3. LocalTxBuf > 2
  BY Sizes DEF Active
<1>4. b.parts[1] \in Nat /\ b.parts[1] > 0
  BY <1>2
<1>5. b.kind = "single" => Len(b.parts) = 1 /\ Room(b) = Ovh + b.parts[1]
  BY <1>2
<1>6. b.kind # "single" => Len(b.parts) = 2 /\ b.parts[2] \in Nat /\ b.parts[2] > 0
  BY <1>2
<1>7. b.kind = "multi" => Room(b) = Ovh + b.parts[1] + b.parts[2]
  <2>1. SUFFICES ASSUME b.kind = "multi" PROVE Room(b) = Ovh + b.parts[1] + b.parts[2]
    OBVIOUS
  <2>2. Room(b) = Ovh + Sum(b.parts) /\ Sum(b.parts) = b.parts[1] + b.parts[2]
    BY <1>2, <1>6, <2>1
  <2>3. b.parts[1] \in Nat /\ b.parts[2] \in Nat
    BY <1>4, <1>6, <2>1
  <2>4. Ovh + (b.parts[1] + b.parts[2]) = Ovh + b.parts[1] + b.parts[2]
    BY <2>3, Constants
  <2>5. QED
    BY <2>2, <2>4
<1>8. QED
  BY <1>1, <1>2, <1>3, <1>4, <1>5, <1>6, <1>7

\* Where the payload goes.
BodyFrom == IF w.kind # "multi" THEN CurWritePosition + w.Priv - w.parts[w.i] ELSE CurWritePosition + w.Priv
BodyUnit == IF w.kind # "multi" THEN Ovh ELSE w.Priv

\* The frame being written lies in the room of the block.
LEMMA BodyPlace ==
  ASSUME IndInv, Written, pc["W"] = "body"
  PROVE  /\ CurWritePosition \in Nat /\ Base \in Nat /\ Base >= CurWritePosition /\ BodyUnit \in Nat /\ BodyUnit >= Ovh
         /\ w.parts[w.i] \in Nat /\ w.parts[w.i] > 0 /\ w.Priv \in Nat
         /\ BodyFrom = Base + BodyUnit /\ BodyFrom \in Nat
         /\ BodyFrom + w.parts[w.i] <= CurWritePosition + Room(w) /\ Room(w) \in Nat
         /\ BodyFrom + w.parts[w.i] + 1 <= BufSize
<1>1. Writing /\ Active
  BY DEF Writing, Active
<1>2. /\ CurWritePosition \in Nat /\ CurWritePosition + AggReserve <= Limit + 1
      /\ w \in Blocks /\ w.i <= Len(w.parts)
  BY <1>1 DEF IndInv, Below, Block, Progress
<1>3. w.i \in 1..2 /\ w.Priv \in Nat
  BY <1>2 DEF Blocks
<1>4. /\ Room(w) \in Nat /\ Room(w) <= AggReserve /\ w.parts[1] \in Nat /\ w.parts[1] > 0
      /\ w.kind \in {"single", "frag", "multi"}
      /\ w.kind = "single" => Len(w.parts) = 1 /\ Room(w) = Ovh + w.parts[1]
      /\ w.kind = "frag" => /\ Len(w.parts) = 2 /\ Room(w) = Ovh + Ovh + w.parts[1] + w.parts[2]
                            /\ w.parts[2] \in Nat /\ w.parts[2] > 0
      /\ w.kind = "multi" => /\ Len(w.parts) = 2 /\ Room(w) = Ovh + w.parts[1] + w.parts[2]
                             /\ w.parts[2] \in Nat /\ w.parts[2] > 0
      /\ LocalTxBuf > 2
  BY <1>1, BlockRoom DEF IndInv
<1>5. w.kind # "multi" => w.Priv = IF w.i = 1 THEN Ovh + w.parts[1] ELSE Ovh + Ovh + w.parts[1] + w.parts[2]
  BY <1>1 DEF IndInv, Progress
<1>6. w.kind = "multi" => w.Priv = Ovh + (IF w.i = 1 THEN 0 ELSE w.parts[1])
  BY <1>1 DEF Written
<1>7. Second <=> w.kind = "frag" /\ w.i = 2
  BY <1>1 DEF Second
<1> DEFINE p1 == w.parts[1]
           p2 == w.parts[2]
           rm == Room(w)
           cw == CurWritePosition
<1>8. /\ rm \in Nat /\ rm <= AggReserve /\ LocalTxBuf > 2 /\ cw \in Nat /\ cw + AggReserve <= Limit + 1
      /\ p1 \in Nat /\ p1 > 0 /\ BufSize = Limit + LocalTxBuf
  BY <1>2, <1>4, BufferSize
<1>9. CASE w.kind # "multi" /\ w.i = 1
  <2>1. Base = cw /\ BodyUnit = Ovh /\ BodyFrom = cw + w.Priv - p1 /\ w.Priv = Ovh + p1 /\ w.parts[w.i] = p1
    BY <1>5, <1>7, <1>9 DEF Base, BodyUnit, BodyFrom
  <2>2. Ovh + p1 <= rm
    <3>1. CASE w.kind = "single"
      <4>1. rm = Ovh + p1
        BY <1>4, <3>1
      <4> HIDE DEF rm, p1
      <4>2. QED
        BY <1>8, <4>1, Constants
    <3>2. CASE w.kind = "frag"
      <4>1. p2 \in Nat /\ rm = Ovh + Ovh + p1 + p2
        BY <1>4, <3>2
      <4> HIDE DEF rm, p1, p2
      <4>2. QED
        BY <1>8, <4>1, Constants
    <3>3. QED
      BY <1>4, <1>9, <3>1, <3>2
  <2>3. SUFFICES /\ cw \in Nat /\ cw >= cw /\ Ovh \in Nat /\ Ovh >= Ovh /\ p1 \in Nat /\ p1 > 0 /\ w.Priv \in Nat
                 /\ cw + w.Priv - p1 = cw + Ovh /\ cw + w.Priv - p1 \in Nat
                 /\ cw + w.Priv - p1 + p1 <= cw + rm /\ rm \in Nat
                 /\ cw + w.Priv - p1 + p1 + 1 <= BufSize
    BY <2>1
  <2> HIDE DEF p1, p2, rm, cw
  <2>4. QED
    BY <1>3, <1>8, <2>1, <2>2, Constants
<1>10. CASE w.kind # "multi" /\ w.i # 1
  <2>1. w.kind = "frag" /\ w.i = 2
    <3>1. w.i = 2
      BY <1>3, <1>10
    <3>2. Len(w.parts) # 1
      <4>1. w.i <= Len(w.parts)
        BY <1>2
      <4> DEFINE n == Len(w.parts)
      <4>2. 2 <= n
        BY <3>1, <4>1, Zenon
      <4> HIDE DEF n
      <4>3. n # 1
        BY <4>2
      <4>4. QED
        BY <4>3 DEF n
    <3>3. QED
      BY <1>4, <1>10, <3>1, <3>2
  <2>2. /\ Base = cw + Ovh + p1 /\ BodyUnit = Ovh /\ BodyFrom = cw + w.Priv - p2
        /\ w.Priv = Ovh + Ovh + p1 + p2 /\ w.parts[w.i] = p2 /\ p2 \in Nat /\ p2 > 0
        /\ rm = Ovh + Ovh + p1 + p2
    BY <1>4, <1>5, <1>7, <2>1 DEF Base, BodyUnit, BodyFrom
  <2>3. SUFFICES /\ cw \in Nat /\ cw + Ovh + p1 \in Nat /\ cw + Ovh + p1 >= cw /\ Ovh \in Nat /\ Ovh >= Ovh
                 /\ p2 \in Nat /\ p2 > 0 /\ w.Priv \in Nat
                 /\ cw + w.Priv - p2 = cw + Ovh + p1 + Ovh /\ cw + w.Priv - p2 \in Nat
                 /\ cw + w.Priv - p2 + p2 <= cw + rm /\ rm \in Nat
                 /\ cw + w.Priv - p2 + p2 + 1 <= BufSize
    BY <2>2
  <2> HIDE DEF p1, p2, rm, cw
  <2>4. QED
    BY <1>3, <1>8, <2>2, Constants
<1>11. CASE w.kind = "multi" /\ w.i = 1
  <2>1. /\ Base = cw /\ BodyUnit = w.Priv /\ BodyFrom = cw + w.Priv /\ w.Priv = Ovh + 0 /\ w.parts[w.i] = p1
        /\ p2 \in Nat /\ rm = Ovh + p1 + p2
    BY <1>4, <1>6, <1>7, <1>11 DEF Base, BodyUnit, BodyFrom
  <2>2. SUFFICES /\ cw \in Nat /\ cw >= cw /\ w.Priv \in Nat /\ w.Priv >= Ovh /\ p1 \in Nat /\ p1 > 0
                 /\ cw + w.Priv \in Nat
                 /\ cw + w.Priv + p1 <= cw + rm /\ rm \in Nat
                 /\ cw + w.Priv + p1 + 1 <= BufSize
    BY <2>1
  <2> HIDE DEF p1, p2, rm, cw
  <2>3. QED
    BY <1>3, <1>8, <2>1, Constants
<1>12. CASE w.kind = "multi" /\ w.i # 1
  <2>1. w.i = 2
    BY <1>3, <1>12
  <2>2. /\ Base = cw /\ BodyUnit = w.Priv /\ BodyFrom = cw + w.Priv /\ w.Priv = Ovh + p1 /\ w.parts[w.i] = p2
        /\ p2 \in Nat /\ p2 > 0 /\ rm = Ovh + p1 + p2
    BY <1>4, <1>6, <1>7, <1>12, <2>1 DEF Base, BodyUnit, BodyFrom
  <2>3. SUFFICES /\ cw \in Nat /\ cw >= cw /\ w.Priv \in Nat /\ w.Priv >= Ovh /\ p2 \in Nat /\ p2 > 0
                 /\ cw + w.Priv \in Nat
                 /\ cw + w.Priv + p2 <= cw + rm /\ rm \in Nat
                 /\ cw + w.Priv + p2 + 1 <= BufSize
    BY <2>2
  <2> HIDE DEF p1, p2, rm, cw
  <2>4. QED
    BY <1>3, <1>8, <2>2, Constants
<1>13. QED
  BY <1>9, <1>10, <1>11, <1>12

\* Unit k of the payload of frame f, which starts at unit o of the frame: n units,
\* and a zeroed one behind.
BodyCell(f, k, n, o, end) == IF k = n THEN Zero ELSE Body(f, o + k, end /\ k = n - 1)

\* The payload is written at p, m units.
PutBody(b, p, m, f, n, o, end) ==
  [q \in Pos |-> IF q \in p..(p + m - 1) THEN BodyCell(f, q - p, n, o, end) ELSE b[q]]

\* The units the action writes, and whether the frame ends with them.
BodySize == IF w.kind # "multi" THEN w.parts[w.i] + 1 ELSE w.parts[w.i]
BodyEnd == w.kind # "multi" \/ w.i = Len(w.parts)

\* What the action does.
LEMMA BodyDoes ==
  ASSUME WriteBody
  PROVE  /\ buf' = PutBody(buf, BodyFrom, BodySize, next, w.parts[w.i], BodyUnit, BodyEnd)
         /\ w' = IF w.kind # "multi" THEN w ELSE [w EXCEPT !.Priv = w.Priv + w.parts[w.i]]
         /\ pc["W"] = "body" /\ pc' = [pc EXCEPT !["W"] = IF w.i = Len(w.parts) THEN "fin" ELSE "next"]
         /\ UNCHANGED <<CurWritePosition, CurWriteRealPos, NextBulkOutPosition, ENextBulkOutPosition,
                        bCurWriting, bCopySavePad, SavedPad, flags, BulkOutSize, rd, urb, resetCmds, hist>>
<1>1. buf' = PutBody(buf, BodyFrom, BodySize, next, w.parts[w.i], BodyUnit, BodyEnd)
  BY DEF WriteBody, Put, PutBody, BodyCell, BodyFrom, BodySize, BodyUnit, BodyEnd
<1>2. /\ pc["W"] = "body" /\ pc' = [pc EXCEPT !["W"] = IF w.i = Len(w.parts) THEN "fin" ELSE "next"]
      /\ w' = IF w.kind # "multi" THEN w ELSE [w EXCEPT !.Priv = w.Priv + w.parts[w.i]]
  BY DEF WriteBody
<1>3. UNCHANGED <<CurWritePosition, CurWriteRealPos, NextBulkOutPosition, ENextBulkOutPosition,
                  bCurWriting, bCopySavePad, SavedPad, flags, BulkOutSize, rd, urb, resetCmds, hist>>
  BY DEF WriteBody, ring
<1>4. QED
  BY <1>1, <1>2, <1>3

\* The cells of the payload.
LEMMA BodyCells ==
  ASSUME NEW b, NEW p \in Nat, NEW m \in Nat, NEW f, NEW n, NEW o, NEW end, NEW k \in 0..(m - 1),
         p + m <= BufSize
  PROVE  p + k \in Pos /\ PutBody(b, p, m, f, n, o, end)[p + k] = BodyCell(f, k, n, o, end)
<1>1. \A q \in Pos : PutBody(b, p, m, f, n, o, end)[q] =
                       IF q \in p..(p + m - 1) THEN BodyCell(f, q - p, n, o, end) ELSE b[q]
  BY DEF PutBody
<1>2. p + k \in Pos /\ p + k \in p..(p + m - 1) /\ (p + k) - p = k
  BY BufferSize
<1>3. QED
  BY <1>1, <1>2

\* The rest of the ring is as it was.
LEMMA BodyElse ==
  ASSUME NEW b, NEW p \in Nat, NEW m \in Nat, NEW f, NEW n, NEW o, NEW end
  PROVE  \A q \in Pos : q < p \/ p + m - 1 < q => PutBody(b, p, m, f, n, o, end)[q] = b[q]
<1>1. \A q \in Pos : PutBody(b, p, m, f, n, o, end)[q] =
                       IF q \in p..(p + m - 1) THEN BodyCell(f, q - p, n, o, end) ELSE b[q]
  BY DEF PutBody
<1>2. ASSUME NEW q \in Pos, q < p \/ p + m - 1 < q PROVE q \notin p..(p + m - 1)
  BY <1>2
<1>3. QED
  BY <1>1, <1>2

\* The cells have their type.
LEMMA BodyType ==
  ASSUME NEW b \in [Pos -> Cells], NEW p \in Nat, NEW m \in Nat, NEW f \in 0..MaxFrames, NEW n \in Nat,
         NEW o \in Nat, NEW end \in BOOLEAN, o <= p
  PROVE  PutBody(b, p, m, f, n, o, end) \in [Pos -> Cells]
<1>1. ASSUME NEW q \in Pos, q \in p..(p + m - 1) PROVE BodyCell(f, q - p, n, o, end) \in Cells
  <2>1. o + (q - p) \in 0..BufSize /\ 0 \in 0..BufSize
    BY <1>1, BufferSize
  <2>2. (end /\ q - p = n - 1) \in BOOLEAN
    OBVIOUS
  <2>3. Zero \in Cells /\ Body(f, o + (q - p), end /\ q - p = n - 1) \in Cells
    BY <2>1, <2>2, CellKinds
  <2>4. QED
    BY <2>3 DEF BodyCell
<1>2. QED
  BY <1>1 DEF PutBody

\* A frame grows by n units behind its first o.
LEMMA Grown ==
  ASSUME NEW v, NEW v2, NEW c, NEW base \in Nat, NEW o \in Nat, NEW n \in Nat, NEW f, NEW end \in BOOLEAN,
         o >= 1, n >= 1, base + o + n <= BufSize, Begun(v, base, o, f),
         \A q \in Pos : q < base + o => v2[q] = v[q],
         \A k \in 0..(n - 1) : v2[base + o + k] = Body(f, o + k, end /\ k = n - 1)
  PROVE  IF end THEN Whole(v2, base, o + n, f) ELSE Begun(v2, base, o + n, f)
<1>1. ASSUME NEW k \in 1..(o + n - 1)
      PROVE  v2[base + k].f = f /\ v2[base + k].k = k /\ (v2[base + k].last <=> end /\ k = o + n - 1)
  <2>1. CASE k < o
    <3>1. k \in 1..(o - 1) /\ base + k \in Pos /\ base + k < base + o /\ k # o + n - 1
      BY <2>1, BufferSize
    <3>2. v[base + k].f = f /\ v[base + k].k = k /\ ~v[base + k].last
      BY <3>1 DEF Begun
    <3>3. v2[base + k] = v[base + k]
      BY <3>1
    <3>4. QED
      BY <3>1, <3>2, <3>3
  <2>2. CASE ~(k < o)
    <3>1. k - o \in 0..(n - 1) /\ base + o + (k - o) = base + k /\ o + (k - o) = k
      BY <2>2
    <3>2. v2[base + k] = Body(f, k, end /\ k - o = n - 1)
      BY <3>1
    <3>3. (k - o = n - 1) <=> (k = o + n - 1)
      BY <2>2
    <3> DEFINE l == end /\ k - o = n - 1
    <3>4. l <=> end /\ k = o + n - 1
      BY <3>3
    <3>5. v2[base + k] = Body(f, k, l)
      BY <3>2
    <3> HIDE DEF l
    <3>6. v2[base + k].f = f /\ v2[base + k].k = k /\ v2[base + k].last = l
      BY <3>5 DEF Body
    <3>7. QED
      BY <3>4, <3>6
  <2>3. QED
    BY <2>1, <2>2
<1>2. CASE end
  BY <1>1, <1>2 DEF Whole
<1>3. CASE ~end
  BY <1>1, <1>3 DEF Begun
<1>4. QED
  BY <1>2, <1>3

\* The payload in the ring: types and what the writer has written.
LEMMA BodyRing ==
  ASSUME NEW u, NEW r, NEW t, NEW z, NEW P, NEW N, NEW F, Plain, Layout(u, r, t, z, P, N, F), WriteBody
  PROVE  /\ buf' \in [Pos -> Cells] /\ BodyFrom \in Nat /\ BodyFrom + BodySize - 1 \in Nat
         /\ CurWritePosition < BodyFrom /\ BodyFrom + BodySize - 1 <= CurWritePosition + Room(w)
         /\ \A q \in Pos : q < BodyFrom \/ BodyFrom + BodySize - 1 < q => buf'[q] = buf[q]
         /\ \A q \in Pos : q < BodyFrom => View'[q] = View[q]
         /\ IF BodyEnd THEN Whole(View', Base, BodyUnit + w.parts[w.i], next)
                       ELSE Begun(View', Base, BodyUnit + w.parts[w.i], next)
<1>1. /\ Indexed(u, r, t, z, P, N) /\ Rising(u, t, z, P, N)
      /\ Positions(u, r, t, z, P, N) /\ Behind(u, r, z) /\ Parked(u, r, t, z, P, N)
  BY DEF Layout
<1>2. IndInv /\ Typed /\ Written /\ Current(View)
  BY DEF Plain
<1>3. PICK p, m, n, o, end, cw, rm, base :
        /\ p = BodyFrom /\ m = BodySize /\ n = w.parts[w.i] /\ o = BodyUnit /\ end = BodyEnd
        /\ cw = CurWritePosition /\ rm = Room(w) /\ base = Base
  OBVIOUS
<1>4. /\ buf' = PutBody(buf, p, m, next, n, o, end) /\ pc["W"] = "body"
  BY <1>3, BodyDoes
<1>5. UNCHANGED <<bCopySavePad, SavedPad, ENextBulkOutPosition>>
  BY BodyDoes
<1>6. /\ cw \in Nat /\ base \in Nat /\ base >= cw /\ o \in Nat /\ o >= Ovh
      /\ n \in Nat /\ n > 0 /\ p = base + o /\ p \in Nat
      /\ p + n <= cw + rm /\ rm \in Nat /\ p + n + 1 <= BufSize
  BY <1>2, <1>3, <1>4, BodyPlace
<1>7. m \in {n, n + 1} /\ end \in BOOLEAN
  BY <1>3 DEF BodySize, BodyEnd
<1>8. m \in Nat /\ m >= n /\ p + m <= BufSize /\ p + m - 1 \in Nat /\ p + m - 1 <= cw + rm /\ cw < p /\ o <= p /\ o >= 1
  BY <1>6, <1>7, Constants, BufferSize
<1>9. buf \in [Pos -> Cells] /\ next \in 0..MaxFrames
  <2>1. next \in Nat /\ next >= 1 /\ MaxFrames \in Nat
    BY <1>2, TxRingAssumption DEF Typed
  <2>2. next + Len(w.parts) - w.i <= MaxFrames
    BY <1>2, <1>4 DEF Written
  <2>3. w.i <= Len(w.parts) /\ w.i \in Nat /\ Len(w.parts) \in Nat
    <3>1. Writing /\ pc["W"] \in {"hdr", "body", "next", "fin"} /\ Block
      BY <1>2, <1>4 DEF Writing, IndInv
    <3>2. Len(w.parts) \in 1..2
      BY <3>1, Sizes
    <3>3. w \in Blocks
      BY <3>1 DEF Block
    <3>4. w.i \in 1..2
      BY <3>3 DEF Blocks
    <3>5. QED
      BY <1>2, <3>1, <3>2, <3>4 DEF IndInv, Progress
  <2> DEFINE l == Len(w.parts)
             i == w.i
  <2>4. i <= l /\ i \in Nat /\ l \in Nat /\ next + l - i <= MaxFrames
    BY <2>2, <2>3
  <2> HIDE DEF l, i
  <2>5. next \in 0..MaxFrames
    BY <2>1, <2>4
  <2>6. QED
    BY <1>2, <2>5 DEF Typed
<1>10. buf' \in [Pos -> Cells]
  BY <1>4, <1>6, <1>7, <1>8, <1>9, BodyType
<1>a. p \in Nat /\ m \in Nat /\ p + m <= BufSize
  BY <1>6, <1>8
<1>11. \A q \in Pos : q < p \/ p + m - 1 < q => buf'[q] = buf[q]
  <2> DEFINE c == PutBody(buf, p, m, next, n, o, end)
  <2>1. \A q \in Pos : q < p \/ p + m - 1 < q => c[q] = buf[q]
    BY <1>a, BodyElse
  <2>2. buf' = c
    BY <1>4
  <2> HIDE DEF c
  <2>3. QED
    BY <2>1, <2>2
<1>12. /\ \A q \in Pos : q < p \/ p + m - 1 < q => View'[q] = View[q]
       /\ \A q \in Pos : p <= q /\ q <= p + m - 1 => View'[q] = buf'[q]
  <2>1. Writing
    BY <1>4 DEF Writing
  <2>2. CurWritePosition < p /\ p + m - 1 <= CurWritePosition + Room(w) /\ Room(w) \in Nat
    BY <1>3, <1>6, <1>8
  <2>3. QED
    BY <1>1, <1>5, <1>6, <1>8, <1>9, <1>10, <1>11, <2>1, <2>2, WriterView
<1>13. Begun(View, base, o, next)
  BY <1>2, <1>3, <1>4 DEF Current, BodyUnit, Writing
<1>14. ASSUME NEW k \in 0..(n - 1)
       PROVE  View'[base + o + k] = Body(next, o + k, end /\ k = n - 1)
  <2>1. k \in 0..(m - 1) /\ k # n /\ p <= p + k /\ p + k <= p + m - 1
    BY <1>6, <1>8
  <2>2. p + k \in Pos /\ PutBody(buf, p, m, next, n, o, end)[p + k] = BodyCell(next, k, n, o, end)
    <3>1. k \in 0..(m - 1)
      BY <2>1
    <3>2. QED
      BY <1>a, <3>1, BodyCells
  <2>3. BodyCell(next, k, n, o, end) = Body(next, o + k, end /\ k = n - 1)
    BY <2>1 DEF BodyCell
  <2>4. buf'[p + k] = Body(next, o + k, end /\ k = n - 1)
    BY <1>4, <2>2, <2>3
  <2>5. View'[p + k] = buf'[p + k]
    BY <1>12, <2>1, <2>2
  <2>6. QED
    BY <1>6, <2>4, <2>5
<1>15. \A q \in Pos : q < base + o => View'[q] = View[q]
  BY <1>6, <1>12
<1>16. IF end THEN Whole(View', base, o + n, next) ELSE Begun(View', base, o + n, next)
  <2>1. base + o + n <= BufSize /\ n >= 1
    BY <1>6, BufferSize
  <2>2. QED
    BY <1>6, <1>7, <1>8, <1>13, <1>14, <1>15, <2>1, Grown
<1>17. \A q \in Pos : q < p => View'[q] = View[q]
  BY <1>12
<1>18. QED
  BY <1>3, <1>6, <1>8, <1>10, <1>11, <1>16, <1>17

\* A frame that is not touched stays whole, or begun.
LEMMA WholeKept ==
  ASSUME NEW v, NEW v2, NEW p, NEW n, NEW f, Whole(v, p, n, f),
         \A k \in 1..(n - 1) : v2[p + k] = v[p + k]
  PROVE  Whole(v2, p, n, f)
BY DEF Whole

\* The same for a frame that is only begun.
LEMMA BegunKept ==
  ASSUME NEW v, NEW v2, NEW p, NEW n, NEW f, Begun(v, p, n, f),
         \A k \in 1..(n - 1) : v2[p + k] = v[p + k]
  PROVE  Begun(v2, p, n, f)
BY DEF Begun

\* Types that do not change while the writer writes.
LEMMA TypedWriter ==
  ASSUME Typed, buf' \in [Pos -> Cells], next' \in 1..(MaxFrames + 1),
         UNCHANGED <<SavedPad, bCurWriting, bCopySavePad, flags, BulkOutSize, NextBulkOutPosition, rd, urb,
                     resetCmds, sent>>
  PROVE  Typed'
<1>1. {bCurWriting', bCopySavePad', BulkOutPending', dataFlag', bulkOutReset', bForcePrintTX'} \subseteq BOOLEAN
  BY DEF Typed, flags
<1>2. /\ SavedPad' \in Cells /\ BulkOutSize' \in 0..BufSize /\ NextBulkOutPosition' \in Pos
      /\ rd' \in [pc : {"idle", "claimed", "empty", "built"}, by : Contexts]
      /\ urb' \in {"none", "flying", "done", "failed"} /\ resetCmds' \in Nat
      /\ sent' \in Seq([f : Nat, ok : BOOLEAN, cnt : BOOLEAN])
  BY DEF Typed
<1>3. QED
  BY <1>1, <1>2 DEF Typed

\* The payload of a part is written.
LEMMA BodyKept ==
  ASSUME RingInv, WriteBody
  PROVE  RingInv'
<1>1. PICK u \in Nat, r \in Nat, t \in Nat, z \in Nat, P \in [Nat -> Nat], N \in [Nat -> Nat],
           F \in [Nat -> Nat] : Layout(u, r, t, z, P, N, F)
  BY DEF RingInv, Laid
<1>2. Plain /\ IndInv /\ IndInv' /\ Typed /\ Written /\ Current(View)
  BY BodyStep DEF RingInv, Plain
<1>3. /\ buf' \in [Pos -> Cells] /\ BodyFrom \in Nat /\ BodyFrom + BodySize - 1 \in Nat
      /\ CurWritePosition < BodyFrom /\ BodyFrom + BodySize - 1 <= CurWritePosition + Room(w)
      /\ \A q \in Pos : q < BodyFrom \/ BodyFrom + BodySize - 1 < q => buf'[q] = buf[q]
      /\ \A q \in Pos : q < BodyFrom => View'[q] = View[q]
      /\ IF BodyEnd THEN Whole(View', Base, BodyUnit + w.parts[w.i], next)
                    ELSE Begun(View', Base, BodyUnit + w.parts[w.i], next)
  BY <1>1, <1>2, BodyRing
<1>4. /\ w' = IF w.kind # "multi" THEN w ELSE [w EXCEPT !.Priv = w.Priv + w.parts[w.i]]
      /\ pc["W"] = "body" /\ pc' = [pc EXCEPT !["W"] = IF w.i = Len(w.parts) THEN "fin" ELSE "next"]
      /\ UNCHANGED <<CurWritePosition, CurWriteRealPos, NextBulkOutPosition, ENextBulkOutPosition,
                     bCurWriting, bCopySavePad, SavedPad, flags, BulkOutSize, rd, urb, resetCmds, hist>>
  BY BodyDoes
<1>5. UNCHANGED <<BulkOutPending, bulkOutReset, bForcePrintTX, next, sent, dropped>>
  BY <1>4 DEF flags, hist
<1>6. w \in Blocks /\ pc \in [Contexts -> Labels]
  BY <1>2 DEF IndInv, Block
<1>7. /\ w'.kind = w.kind /\ w'.parts = w.parts /\ w'.i = w.i /\ w'.last = w.last
      /\ w'.Priv = IF w.kind # "multi" THEN w.Priv ELSE w.Priv + w.parts[w.i]
  BY <1>4, <1>6 DEF Blocks
<1>8. Writing /\ Writing' /\ pc'["W"] = IF w.i = Len(w.parts) THEN "fin" ELSE "next"
  BY <1>4, <1>6 DEF Writing, Contexts
<1>9. Room(w') = Room(w) /\ (Second' <=> Second) /\ Free' = Free /\ Base' = Base
  <2>1. Room(w') = Room(w)
    BY <1>7 DEF Room
  <2>2. Second' <=> Second
    BY <1>7, <1>8 DEF Second
  <2>3. QED
    BY <1>4, <1>5, <1>7, <2>1, <2>2 DEF Free, Base
<1>10. /\ CurWritePosition \in Nat /\ Base \in Nat /\ Base >= CurWritePosition /\ BodyUnit \in Nat /\ BodyUnit >= Ovh
       /\ w.parts[w.i] \in Nat /\ w.parts[w.i] > 0 /\ w.Priv \in Nat
       /\ BodyFrom = Base + BodyUnit /\ BodyFrom \in Nat /\ Room(w) \in Nat
       /\ BodyFrom + w.parts[w.i] + 1 <= BufSize
  BY <1>2, <1>4, BodyPlace
<1>11. Laid' /\ OneUser'
  BY <1>1, <1>2, <1>3, <1>4, <1>5, <1>8, <1>9, <1>10, WriterLaid
<1>12. NoZeroLengthFrame' /\ SentIntact' /\ FirstSentInOrder'
  BY <1>2, <1>5, HistoryKept
<1>13. Typed'
  <2>1. next' \in 1..(MaxFrames + 1)
    BY <1>2, <1>5 DEF Typed
  <2>2. QED
    BY <1>2, <1>3, <1>4, <1>5, <2>1, TypedWriter
<1>14. /\ w.parts[1] \in Nat /\ w.parts[1] > 0
       /\ w.kind = "frag" => Len(w.parts) = 2 /\ w.parts[2] \in Nat
       /\ w.kind = "multi" => Len(w.parts) = 2 /\ w.parts[2] \in Nat
  <2>1. Active
    BY <1>4 DEF Active
  <2>2. QED
    BY <1>2, <2>1, BlockRoom DEF IndInv
<1>15. w.i \in 1..2
  BY <1>6 DEF Blocks
<1>16. Written'
  <2>1. next' + Len(w'.parts) - w'.i <= MaxFrames
    BY <1>2, <1>4, <1>5, <1>7 DEF Written
  <2>2. (bCurWriting' <=> Writing') /\ CurWriteRealPos' > CurWritePosition' /\ CurWriteRealPos' \in Nat
    BY <1>2, <1>4, <1>8 DEF Written
  <2>3. CurWriteRealPos' <= CurWritePosition' + w'.Priv
    <3>1. CurWriteRealPos <= CurWritePosition + w.Priv /\ CurWriteRealPos > CurWritePosition
      BY <1>2, <1>8 DEF Written
    <3>2. CASE w.kind # "multi"
      BY <1>4, <1>7, <3>1, <3>2
    <3>3. CASE w.kind = "multi"
      <4>1. w'.Priv = w.Priv + w.parts[w.i]
        BY <1>7, <3>3
      <4> DEFINE n == w.parts[w.i]
                 p == w.Priv
                 cw == CurWritePosition
                 cr == CurWriteRealPos
      <4>2. n \in Nat /\ p \in Nat /\ cw \in Nat /\ cr <= cw + p
        BY <1>10, <3>1
      <4>3. SUFFICES cr <= cw + (p + n)
        BY <1>4, <4>1
      <4>4. cr \in Nat
        BY <1>2 DEF Written
      <4> HIDE DEF n, p, cw, cr
      <4>5. QED
        BY <4>2, <4>4
    <3>4. QED
      BY <3>2, <3>3
  <2>4. w'.kind = "multi" =>
          w'.Priv = Ovh + (IF w'.i = 1 /\ pc'["W"] = "body" THEN 0
                           ELSE IF pc'["W"] = "fin" THEN w'.parts[1] + w'.parts[2] ELSE w'.parts[1])
    <3>1. SUFFICES ASSUME w.kind = "multi"
                   PROVE  w.Priv + w.parts[w.i] = Ovh + (IF w.i = Len(w.parts) THEN w.parts[1] + w.parts[2] ELSE w.parts[1])
      BY <1>7, <1>8
    <3>2. w.Priv = Ovh + (IF w.i = 1 THEN 0 ELSE w.parts[1])
      BY <1>2, <1>4, <1>8, <3>1 DEF Written
    <3>3. CASE w.i = 1
      BY <1>14, <3>1, <3>2, <3>3, Constants
    <3>4. CASE w.i = 2
      <4>1. w.i = Len(w.parts) /\ w.parts[w.i] = w.parts[2] /\ w.Priv = Ovh + w.parts[1]
        BY <1>14, <3>1, <3>2, <3>4
      <4>2. Ovh + w.parts[1] + w.parts[2] = Ovh + (w.parts[1] + w.parts[2])
        BY <1>14, <3>1, Constants
      <4>3. QED
        BY <4>1, <4>2
    <3>5. QED
      BY <1>15, <3>3, <3>4
  <2>5. w'.kind # "multi" => (w'.last <=> w'.i = Len(w'.parts) /\ LastRound(CurWritePosition', w'.Priv))
    BY <1>2, <1>4, <1>7, <1>8 DEF Written
  <2>6. QED
    BY <1>8, <2>1, <2>2, <2>3, <2>4, <2>5 DEF Written
<1>17. ASSUME NEW q \in Nat, q < BodyFrom PROVE q \in Pos /\ View'[q] = View[q]
  <2>1. q \in Pos
    <3> DEFINE n == w.parts[w.i]
    <3>1. n \in Nat /\ BodyFrom \in Nat /\ BodyFrom + n + 1 <= BufSize
      BY <1>10
    <3> HIDE DEF n
    <3>2. QED
      BY <1>17, <3>1, BufferSize
  <2>2. QED
    BY <1>3, <1>17, <2>1
<1>18. Base < BodyFrom
  BY <1>10, Constants
<1>19. Current(View)'
  <2>1. Second => /\ View'[CurWritePosition] = TxInfo(next - 1, Ovh + w.parts[1], FALSE, FALSE)
                  /\ Whole(View', CurWritePosition, Ovh + w.parts[1], next - 1)
    <3>1. SUFFICES ASSUME Second
                   PROVE  /\ View'[CurWritePosition] = TxInfo(next - 1, Ovh + w.parts[1], FALSE, FALSE)
                          /\ Whole(View', CurWritePosition, Ovh + w.parts[1], next - 1)
      OBVIOUS
    <3>2. /\ View[CurWritePosition] = TxInfo(next - 1, Ovh + w.parts[1], FALSE, FALSE)
          /\ Whole(View, CurWritePosition, Ovh + w.parts[1], next - 1)
      BY <1>2, <3>1 DEF Current
    <3>3. Base = CurWritePosition + Ovh + w.parts[1]
      BY <3>1 DEF Base
    <3>4. View'[CurWritePosition] = View[CurWritePosition]
      <4>1. CurWritePosition < BodyFrom
        BY <1>3
      <4>2. QED
        BY <1>10, <1>17, <4>1
    <3>5. ASSUME NEW k \in 1..(Ovh + w.parts[1] - 1) PROVE View'[CurWritePosition + k] = View[CurWritePosition + k]
      <4>1. CurWritePosition + k \in Nat /\ CurWritePosition + k < BodyFrom
        BY <1>10, <1>14, <1>18, <3>3, Constants
      <4>2. QED
        BY <1>17, <4>1
    <3>6. Whole(View', CurWritePosition, Ovh + w.parts[1], next - 1)
      <4>1. Whole(View, CurWritePosition, Ovh + w.parts[1], next - 1)
        BY <3>2
      <4>2. PICK a, f : a = Ovh + w.parts[1] /\ f = next - 1
        OBVIOUS
      <4>3. Whole(View, CurWritePosition, a, f) /\ \A k \in 1..(a - 1) : View'[CurWritePosition + k] = View[CurWritePosition + k]
        BY <1>14, <3>5, <4>1, <4>2, Constants
      <4>4. Whole(View', CurWritePosition, a, f)
        BY <4>3, WholeKept
      <4>5. QED
        BY <4>2, <4>4
    <3>7. QED
      BY <3>2, <3>4, <3>6
  <2>2. View'[Base] = View[Base]
    BY <1>10, <1>17, <1>18
  <2>3. w.kind # "multi" => View'[Base] = TxInfo(next, Ovh + w.parts[w.i], w.last, FALSE)
    BY <1>2, <1>8, <2>2 DEF Current
  <2>4. w.kind = "multi" => View'[Base] = TxInfo(next, Ovh, FALSE, FALSE)
    BY <1>2, <1>8, <2>2 DEF Current
  <2>5. w.kind # "multi" => Whole(View', Base, Ovh + w.parts[w.i], next)
    BY <1>3 DEF BodyEnd, BodyUnit
  <2>6. w.kind = "multi" /\ w.i # Len(w.parts) => Begun(View', Base, w.Priv + w.parts[w.i], next)
    BY <1>3 DEF BodyEnd, BodyUnit
  <2>7. w.kind = "multi" /\ w.i = Len(w.parts) => Whole(View', Base, w.Priv + w.parts[w.i], next)
    BY <1>3 DEF BodyEnd, BodyUnit
  <2>8. Second' => /\ View'[CurWritePosition'] = TxInfo(next' - 1, Ovh + w'.parts[1], FALSE, FALSE)
                   /\ Whole(View', CurWritePosition', Ovh + w'.parts[1], next' - 1)
    BY <1>4, <1>5, <1>7, <1>9, <2>1
  <2>9. w'.kind # "multi" => View'[Base'] = TxInfo(next', Ovh + w'.parts[w'.i], w'.last, FALSE)
    BY <1>5, <1>7, <1>9, <2>3
  <2>10. w'.kind = "multi" => View'[Base'] = TxInfo(next', Ovh, FALSE, FALSE)
    BY <1>5, <1>7, <1>9, <2>4
  <2>11. w'.kind # "multi" => Whole(View', Base', Ovh + w'.parts[w'.i], next')
    BY <1>5, <1>7, <1>9, <2>5
  <2>12. pc'["W"] = "next" /\ w'.kind = "multi" => Begun(View', Base', w'.Priv, next')
    BY <1>5, <1>7, <1>8, <1>9, <2>6
  <2>13. pc'["W"] = "fin" /\ w'.kind = "multi" => Whole(View', Base', w'.Priv, next')
    BY <1>5, <1>7, <1>8, <1>9, <2>7
  <2>14. pc'["W"] # "body"
    BY <1>8
  <2>15. QED
    BY <1>8, <2>8, <2>9, <2>10, <2>11, <2>12, <2>13, <2>14 DEF Current
<1>20. Plain'
  BY <1>2, <1>11, <1>12, <1>13, <1>16, <1>19 DEF Plain
<1>21. QED
  BY <1>11, <1>20 DEF RingInv
-----------------------------------------------------------------------------
(***************************************************************************)
(* WriteNext.                                                              *)
(***************************************************************************)

\* What the action does with the second fragment.
LEMMA NextDoes ==
  ASSUME WriteNext, w.kind = "frag", w.i = 1, Len(w.parts) = 2
  PROVE  /\ buf' = PutHeader(buf, CurWritePosition + w.Priv, next + 1, Ovh + w.parts[2],
                             LastRound(CurWritePosition, w.Priv + (Ovh + w.parts[2])), w.parts[2])
         /\ w' = [w EXCEPT !.i = 2, !.Priv = w.Priv + (Ovh + w.parts[2]),
                           !.last = LastRound(CurWritePosition, w.Priv + (Ovh + w.parts[2]))]
         /\ CurWriteRealPos' = CurWriteRealPos + Ovh /\ next' = next + 1
<1>1. w.i + 1 = 2
  OBVIOUS
<1>2. CurWriteRealPos' = CurWriteRealPos + Ovh /\ next' = next + 1
  BY DEF WriteNext
<1>3. (w.i + 1 = Len(w.parts) /\ LastRound(CurWritePosition, w.Priv + (Ovh + w.parts[2])))
        = LastRound(CurWritePosition, w.Priv + (Ovh + w.parts[2]))
  BY <1>1 DEF LastRound
<1>4. w' = [w EXCEPT !.i = w.i + 1, !.Priv = w.Priv + (Ovh + w.parts[w.i + 1]),
                     !.last = w.i + 1 = Len(w.parts) /\
                                LastRound(CurWritePosition, w.Priv + (Ovh + w.parts[w.i + 1]))]
  BY DEF WriteNext
<1>5. w' = [w EXCEPT !.i = 2, !.Priv = w.Priv + (Ovh + w.parts[2]),
                     !.last = LastRound(CurWritePosition, w.Priv + (Ovh + w.parts[2]))]
  BY <1>1, <1>3, <1>4, Zenon
<1>6. buf' = PutHeader(buf, CurWritePosition + w.Priv, next + 1, Ovh + w.parts[w.i + 1],
                       w.i + 1 = Len(w.parts) /\ LastRound(CurWritePosition, w.Priv + (Ovh + w.parts[w.i + 1])),
                       w.parts[w.i + 1])
  BY DEF WriteNext, Put, PutHeader, HeaderCell
<1>7. buf' = PutHeader(buf, CurWritePosition + w.Priv, next + 1, Ovh + w.parts[2],
                       LastRound(CurWritePosition, w.Priv + (Ovh + w.parts[2])), w.parts[2])
  BY <1>1, <1>3, <1>6, Zenon
<1>8. QED
  BY <1>2, <1>5, <1>7

\* What it leaves alone.
LEMMA NextLeaves ==
  ASSUME WriteNext
  PROVE  /\ UNCHANGED <<CurWritePosition, NextBulkOutPosition, ENextBulkOutPosition, bCurWriting,
                        bCopySavePad, SavedPad, flags, BulkOutSize, rd, urb, resetCmds, sent, dropped>>
         /\ pc["W"] = "next" /\ pc' = [pc EXCEPT !["W"] = "body"]
BY DEF WriteNext

\* The next subframe of an A-MSDU.
LEMMA NextPartKept ==
  ASSUME RingInv, WriteNext, w.kind = "multi"
  PROVE  RingInv'
<1>1. PICK u \in Nat, r \in Nat, t \in Nat, z \in Nat, P \in [Nat -> Nat], N \in [Nat -> Nat],
           F \in [Nat -> Nat] : Layout(u, r, t, z, P, N, F)
  BY DEF RingInv, Laid
<1>2. Plain /\ IndInv /\ IndInv' /\ Typed /\ Written /\ Current(View)
  BY NextStep DEF RingInv, Plain
<1>3. /\ UNCHANGED <<CurWritePosition, NextBulkOutPosition, ENextBulkOutPosition, bCurWriting,
                     bCopySavePad, SavedPad, flags, BulkOutSize, rd, urb, resetCmds, sent, dropped>>
      /\ pc["W"] = "next" /\ pc' = [pc EXCEPT !["W"] = "body"]
  BY NextLeaves
<1>4. w' = [w EXCEPT !.i = w.i + 1] /\ UNCHANGED <<buf, CurWriteRealPos, next>>
  BY DEF WriteNext
<1>5. w \in Blocks /\ pc \in [Contexts -> Labels] /\ w.i = 1 /\ Len(w.parts) = 2
  BY <1>2, <1>3 DEF IndInv, Block, Progress
<1>6. w'.kind = "multi" /\ w'.parts = w.parts /\ w'.i = 2 /\ w'.Priv = w.Priv
  BY <1>4, <1>5 DEF Blocks
<1>7. Writing /\ Writing' /\ pc'["W"] = "body"
  BY <1>3, <1>5 DEF Writing, Contexts
<1>8. Room(w') = Room(w) /\ ~Second' /\ ~Second /\ Free' = Free /\ Base' = Base
  <2>1. Room(w') = Room(w)
    BY <1>6 DEF Room
  <2>2. ~Second' /\ ~Second
    BY <1>6 DEF Second
  <2>3. QED
    BY <1>3, <1>4, <2>1, <2>2 DEF Free, Base
<1>9. UNCHANGED <<BulkOutPending, bulkOutReset, bForcePrintTX>>
  BY <1>3 DEF flags
<1>10. CurWritePosition \in Nat /\ Room(w) \in Nat /\ Room(w) > 0
  <2>1. Active
    BY <1>3 DEF Active
  <2>2. /\ Room(w) \in Nat /\ w.parts[1] \in Nat /\ Room(w) = Ovh + w.parts[1] + w.parts[2] /\ w.parts[2] \in Nat
    BY <1>2, <2>1, BlockRoom DEF IndInv
  <2> DEFINE rm == Room(w)
             p1 == w.parts[1]
             p2 == w.parts[2]
  <2>3. rm \in Nat /\ p1 \in Nat /\ p2 \in Nat /\ rm = Ovh + p1 + p2
    BY <2>2
  <2>4. CurWritePosition \in Nat
    BY <1>2 DEF IndInv, Below
  <2> HIDE DEF rm, p1, p2
  <2>5. rm > 0
    BY <2>3, Constants
  <2>6. QED
    BY <2>3, <2>4, <2>5 DEF rm
<1>11. Laid' /\ OneUser'
  <2>1. /\ buf' \in [Pos -> Cells] /\ CurWritePosition + 1 \in Nat /\ CurWritePosition < CurWritePosition + 1
        /\ CurWritePosition + 1 <= CurWritePosition + Room(w)
    <3> DEFINE rm == Room(w)
    <3>1. CurWritePosition \in Nat /\ rm \in Nat /\ rm > 0
      BY <1>10
    <3> HIDE DEF rm
    <3>2. CurWritePosition + 1 <= CurWritePosition + rm
      BY <3>1
    <3>3. CurWritePosition + 1 \in Nat /\ CurWritePosition < CurWritePosition + 1
      BY <3>1
    <3>4. buf' \in [Pos -> Cells]
      BY <1>2, <1>4 DEF Typed
    <3>5. QED
      BY <3>2, <3>3, <3>4 DEF rm
  <2>2. \A q \in Pos : q < CurWritePosition + 1 \/ CurWritePosition + 1 < q => buf'[q] = buf[q]
    BY <1>4
  <2>3. QED
    BY <1>1, <1>2, <1>3, <1>7, <1>8, <1>9, <1>10, <2>1, <2>2, WriterLaid
<1>12. NoZeroLengthFrame' /\ SentIntact' /\ FirstSentInOrder'
  BY <1>2, <1>3, <1>9, HistoryKept
<1>13. Typed'
  <2>1. next' \in 1..(MaxFrames + 1) /\ buf' \in [Pos -> Cells]
    BY <1>2, <1>4 DEF Typed
  <2>2. QED
    BY <1>2, <1>3, <2>1, TypedWriter
<1>14. Written'
  <2>1. next' + Len(w'.parts) - w'.i <= MaxFrames
    <3>1. next + Len(w.parts) - w.i <= MaxFrames /\ next \in Nat /\ MaxFrames \in Nat
      BY <1>2, <1>3, TxRingAssumption DEF Written, Typed
    <3>2. next + 2 - 1 <= MaxFrames
      BY <1>5, <3>1
    <3>3. next + 2 - 2 <= MaxFrames
      BY <3>1, <3>2
    <3>4. QED
      BY <1>4, <1>5, <1>6, <3>3
  <2>2. (bCurWriting' <=> Writing') /\ CurWriteRealPos' > CurWritePosition' /\ CurWriteRealPos' \in Nat
    BY <1>2, <1>3, <1>4, <1>7 DEF Written
  <2>3. CurWriteRealPos' <= CurWritePosition' + w'.Priv
    BY <1>2, <1>3, <1>4, <1>6, <1>7 DEF Written
  <2>4. w'.Priv = Ovh + (IF w'.i = 1 /\ pc'["W"] = "body" THEN 0
                         ELSE IF pc'["W"] = "fin" THEN w'.parts[1] + w'.parts[2] ELSE w'.parts[1])
    <3>1. w.Priv = Ovh + w.parts[1]
      BY <1>2, <1>3, <1>7 DEF Written
    <3>2. QED
      BY <1>6, <1>7, <3>1
  <2>5. QED
    BY <1>6, <1>7, <2>1, <2>2, <2>3, <2>4 DEF Written
<1>15. Current(View)'
  <2>1. View' = View
    BY <1>3, <1>4 DEF View
  <2>2. View[Base] = TxInfo(next, Ovh, FALSE, FALSE) /\ Begun(View, Base, w.Priv, next)
    BY <1>2, <1>3, <1>7 DEF Current
  <2>3. View'[Base'] = TxInfo(next', Ovh, FALSE, FALSE) /\ Begun(View', Base', w'.Priv, next')
    BY <1>4, <1>6, <1>8, <2>1, <2>2
  <2>4. QED
    BY <1>6, <1>7, <1>8, <2>3 DEF Current
<1>16. Plain'
  BY <1>2, <1>11, <1>12, <1>13, <1>14, <1>15 DEF Plain
<1>17. QED
  BY <1>11, <1>16 DEF RingInv

\* The header of the second fragment.
LEMMA NextFragmentKept ==
  ASSUME RingInv, WriteNext, w.kind = "frag"
  PROVE  RingInv'
<1>1. PICK u \in Nat, r \in Nat, t \in Nat, z \in Nat, P \in [Nat -> Nat], N \in [Nat -> Nat],
           F \in [Nat -> Nat] : Layout(u, r, t, z, P, N, F)
  BY DEF RingInv, Laid
<1>2. Plain /\ IndInv /\ IndInv' /\ Typed /\ Written /\ Current(View)
  BY NextStep DEF RingInv, Plain
<1>3. /\ UNCHANGED <<CurWritePosition, NextBulkOutPosition, ENextBulkOutPosition, bCurWriting,
                     bCopySavePad, SavedPad, flags, BulkOutSize, rd, urb, resetCmds, sent, dropped>>
      /\ pc["W"] = "next" /\ pc' = [pc EXCEPT !["W"] = "body"]
  BY NextLeaves
<1>4. UNCHANGED <<BulkOutPending, bulkOutReset, bForcePrintTX>>
  BY <1>3 DEF flags
<1>5. w \in Blocks /\ pc \in [Contexts -> Labels] /\ w.i = 1 /\ Len(w.parts) = 2
  BY <1>2, <1>3 DEF IndInv, Block, Progress
<1>6. PICK cw, a, b, l, rm, cr : /\ cw = CurWritePosition /\ a = Ovh + w.parts[1] /\ b = Ovh + w.parts[2]
                                /\ l = LastRound(CurWritePosition, w.Priv + (Ovh + w.parts[2]))
                                /\ rm = Room(w) /\ cr = CurWriteRealPos
  OBVIOUS
<1>7. /\ cw \in Nat /\ cw + AggReserve <= Limit + 1 /\ rm \in Nat /\ rm <= AggReserve
      /\ w.parts[1] \in Nat /\ w.parts[1] > 0 /\ w.parts[2] \in Nat /\ w.parts[2] > 0
      /\ rm = Ovh + Ovh + w.parts[1] + w.parts[2] /\ LocalTxBuf > 2
  <2>1. Active /\ Writing
    BY <1>3 DEF Active, Writing
  <2>2. CurWritePosition \in Nat /\ CurWritePosition + AggReserve <= Limit + 1
    BY <1>2, <2>1 DEF IndInv, Below
  <2>3. /\ Room(w) \in Nat /\ Room(w) <= AggReserve
        /\ w.parts[1] \in Nat /\ w.parts[1] > 0 /\ w.parts[2] \in Nat /\ w.parts[2] > 0
        /\ Room(w) = Ovh + Ovh + w.parts[1] + w.parts[2] /\ LocalTxBuf > 2
    BY <1>2, <2>1, BlockRoom DEF IndInv
  <2>4. QED
    BY <1>6, <2>2, <2>3
<1>8. a \in Nat /\ b \in Nat /\ rm = a + b /\ a > Ovh /\ b > Ovh
  BY <1>6, <1>7, Constants
<1>9. w.Priv = a
  BY <1>2, <1>3, <1>5, <1>6 DEF IndInv, Progress, Writing
<1>10. /\ cw + a \in Nat /\ cw + a + Ovh - 1 \in Nat /\ cw < cw + a /\ cw + a + Ovh - 1 <= cw + rm
       /\ cw + a + Ovh <= BufSize /\ cw + a + b + 1 <= BufSize
  <2>1. cw \in Nat /\ cw + AggReserve <= Limit + 1 /\ rm <= AggReserve /\ LocalTxBuf > 2
    BY <1>7
  <2>2. PICK o, g, m, x : o = Ovh /\ g = AggReserve /\ m = Limit /\ x = LocalTxBuf
    OBVIOUS
  <2>3. /\ o \in Nat /\ o >= 2 /\ g \in Nat /\ m \in Nat /\ x \in Nat /\ x > 2 /\ BufSize = m + x
        /\ cw + g <= m + 1 /\ rm <= g /\ a > o /\ b > o
    BY <1>8, <2>1, <2>2, Constants, BufferSize
  <2>4. cw + a + o <= m + x /\ cw + a + b + 1 <= m + x
    BY <1>8, <2>1, <2>3
  <2>5. cw + a \in Nat /\ cw + a + o - 1 \in Nat /\ cw < cw + a /\ cw + a + o - 1 <= cw + rm
    BY <1>8, <2>1, <2>3
  <2>6. QED
    BY <2>2, <2>3, <2>4, <2>5
<1>11. /\ buf' = PutHeader(buf, cw + a, next + 1, b, l, w.parts[2])
       /\ w' = [w EXCEPT !.i = 2, !.Priv = a + b, !.last = l]
       /\ CurWriteRealPos' = CurWriteRealPos + Ovh /\ next' = next + 1
  BY <1>5, <1>6, <1>9, NextDoes
<1>12. l \in BOOLEAN /\ (l <=> LastRound(cw, a + b))
  <2>1. l = LastRound(cw, a + b)
    BY <1>6, <1>9
  <2>2. LastRound(cw, a + b) \in BOOLEAN
    BY DEF LastRound
  <2>3. QED
    BY <2>1, <2>2, Zenon
<1>13. w'.kind = "frag" /\ w'.parts = w.parts /\ w'.i = 2 /\ w'.Priv = a + b /\ w'.last = l
  BY <1>5, <1>11 DEF Blocks
<1>14. Writing /\ Writing' /\ pc'["W"] = "body" /\ ~Second /\ Second'
  BY <1>3, <1>5, <1>13 DEF Writing, Contexts, Second
<1>15. next \in Nat /\ next >= 1 /\ MaxFrames \in Nat /\ next + 1 <= MaxFrames
  <2>1. next \in Nat /\ next >= 1 /\ MaxFrames \in Nat
    BY <1>2, TxRingAssumption DEF Typed
  <2>2. next + Len(w.parts) - w.i <= MaxFrames
    BY <1>2, <1>3 DEF Written
  <2>3. next + 2 - 1 <= MaxFrames
    BY <1>5, <2>2
  <2>4. QED
    BY <2>1, <2>3
<1>16. Room(w') = Room(w) /\ Free' = Free /\ Base = cw /\ Base' = cw + a
  <2>1. Room(w') = Room(w)
    BY <1>13 DEF Room
  <2>2. Free = next /\ Free' = next
    <3>1. next' = next + 1
      BY <1>11
    <3>2. Free' = next' - 1
      BY <1>14 DEF Free
    <3>3. Free = next
      BY <1>14 DEF Free
    <3>4. next' - 1 = next
      BY <1>15, <3>1
    <3>5. Free' = next
      BY <3>2, <3>4
    <3>6. QED
      BY <3>3, <3>5
  <2>3. Base = cw
    BY <1>6, <1>14 DEF Base
  <2>4. Base' = cw + Ovh + w.parts[1]
    BY <1>3, <1>6, <1>13, <1>14 DEF Base
  <2>5. cw + Ovh + w.parts[1] = cw + a
    BY <1>6, <1>7, Constants
  <2>6. QED
    BY <1>15, <2>1, <2>2, <2>3, <2>4, <2>5
<1>17. buf' \in [Pos -> Cells]
  <2>0. buf \in [Pos -> Cells]
    BY <1>2 DEF Typed
  <2>1. next + 1 \in 0..MaxFrames
    BY <1>15
  <2>2. b \in 0..BufSize /\ w.parts[2] \in 0..BufSize
    <3>1. PICK p2 : p2 = w.parts[2]
      OBVIOUS
    <3>2. p2 \in Nat /\ b = Ovh + p2
      BY <1>6, <1>7, <3>1
    <3>3. b \in Nat /\ cw + a + b + 1 <= BufSize /\ cw \in Nat /\ a \in Nat
      BY <1>7, <1>8, <1>10
    <3>4. b \in 0..BufSize /\ p2 \in 0..BufSize
      BY <3>2, <3>3, Constants, BufferSize
    <3>5. QED
      BY <3>1, <3>4
  <2>3. cw + a \in Nat
    BY <1>10
  <2>4. QED
    BY <1>11, <1>12, <2>0, <2>1, <2>2, <2>3, HeaderType
<1>18. \A q \in Pos : q < cw + a \/ cw + a + Ovh - 1 < q => buf'[q] = buf[q]
  <2> DEFINE c == PutHeader(buf, cw + a, next + 1, b, l, w.parts[2])
  <2>1. cw + a \in Nat
    BY <1>10
  <2>2. \A q \in Pos : q < cw + a \/ cw + a + Ovh - 1 < q => c[q] = buf[q]
    BY <2>1, HeaderElse
  <2>3. buf' = c
    BY <1>11
  <2> HIDE DEF c
  <2>4. QED
    BY <2>2, <2>3
<1>19. CurWritePosition < cw + a /\ cw + a + Ovh - 1 <= CurWritePosition + Room(w) /\ Room(w) \in Nat
  BY <1>6, <1>7, <1>10
<1>20. Laid' /\ OneUser'
  <2>1. cw + a \in Nat /\ cw + a + Ovh - 1 \in Nat
    BY <1>10
  <2>2. QED
    BY <1>1, <1>2, <1>3, <1>4, <1>14, <1>16, <1>17, <1>18, <1>19, <2>1, WriterLaid
<1>21. /\ \A q \in Pos : q < cw + a \/ cw + a + Ovh - 1 < q => View'[q] = View[q]
       /\ \A q \in Pos : cw + a <= q /\ q <= cw + a + Ovh - 1 => View'[q] = buf'[q]
  <2>1. cw + a \in Nat /\ cw + a + Ovh - 1 \in Nat
    BY <1>10
  <2>2. buf \in [Pos -> Cells]
    BY <1>2 DEF Typed
  <2>3. /\ Indexed(u, r, t, z, P, N) /\ Rising(u, t, z, P, N)
        /\ Positions(u, r, t, z, P, N) /\ Behind(u, r, z) /\ Parked(u, r, t, z, P, N)
    BY <1>1 DEF Layout
  <2>4. PICK lo, hi : lo = cw + a /\ hi = cw + a + Ovh - 1
    OBVIOUS
  <2>5. /\ lo \in Nat /\ hi \in Nat /\ CurWritePosition < lo /\ hi <= CurWritePosition + Room(w)
        /\ \A q \in Pos : q < lo \/ hi < q => buf'[q] = buf[q]
    BY <1>18, <1>19, <2>1, <2>4
  <2>6. bCopySavePad' = bCopySavePad /\ SavedPad' = SavedPad /\ ENextBulkOutPosition' = ENextBulkOutPosition
    BY <1>3
  <2>7. ENextBulkOutPosition \in Nat /\ (ENextBulkOutPosition < lo \/ hi < ENextBulkOutPosition)
    BY <1>14, <1>19, <2>3, <2>5, WriterSpares
  <2>8. /\ \A q \in Pos : q < lo \/ hi < q => View'[q] = View[q]
        /\ \A q \in Pos : lo <= q /\ q <= hi => View'[q] = buf'[q]
    BY <1>17, <2>2, <2>5, <2>6, <2>7, ViewWritten
  <2>9. QED
    BY <2>4, <2>8
<1>22. NoZeroLengthFrame' /\ SentIntact' /\ FirstSentInOrder'
  BY <1>2, <1>3, <1>4, HistoryKept
<1>23. Typed'
  <2>1. next' \in 1..(MaxFrames + 1)
    BY <1>11, <1>15
  <2>2. QED
    BY <1>2, <1>3, <1>17, <2>1, TypedWriter
<1>24. Written'
  <2>1. next' + Len(w'.parts) - w'.i <= MaxFrames
    <3>1. next + 1 + 2 - 2 <= MaxFrames
      BY <1>15
    <3>2. QED
      BY <1>5, <1>11, <1>13, <3>1
  <2>2. cr \in Nat /\ cr > cw /\ cr <= cw + a
    BY <1>2, <1>6, <1>9, <1>14 DEF Written
  <2>3. CurWriteRealPos' = cr + Ovh /\ CurWritePosition' = cw
    BY <1>3, <1>6, <1>11
  <2>4. cr + Ovh > cw /\ cr + Ovh \in Nat /\ cr + Ovh <= cw + (a + b)
    BY <1>7, <1>8, <2>2, Constants
  <2>5. CurWriteRealPos' > CurWritePosition' /\ CurWriteRealPos' \in Nat /\ CurWriteRealPos' <= CurWritePosition' + w'.Priv
    BY <1>13, <2>3, <2>4
  <2>6. bCurWriting' <=> Writing'
    BY <1>2, <1>3, <1>14 DEF Written
  <2>7. w'.last <=> w'.i = Len(w'.parts) /\ LastRound(CurWritePosition', w'.Priv)
    BY <1>5, <1>12, <1>13, <2>3
  <2>8. QED
    BY <1>13, <1>14, <2>1, <2>5, <2>6, <2>7 DEF Written
<1>25. Current(View)'
  <2>1. /\ View[cw] = TxInfo(next, a, w.last, FALSE) /\ Whole(View, cw, a, next)
    <3>1. /\ View[Base] = TxInfo(next, Ovh + w.parts[w.i], w.last, FALSE)
          /\ Whole(View, Base, Ovh + w.parts[w.i], next)
      BY <1>2, <1>3, <1>14 DEF Current
    <3>2. QED
      BY <1>5, <1>6, <1>16, <3>1
  <2>2. w.last = FALSE
    <3>1. w.last <=> w.i = Len(w.parts) /\ LastRound(CurWritePosition, w.Priv)
      BY <1>2, <1>14 DEF Written
    <3>2. w.last \in BOOLEAN
      BY <1>5 DEF Blocks
    <3>3. QED
      BY <1>5, <3>1, <3>2
  <2>3. ASSUME NEW k \in 0..(a - 1) PROVE View'[cw + k] = View[cw + k]
    <3>1. cw + k \in Pos /\ cw + k < cw + a
      BY <1>7, <1>8, <1>10, BufferSize
    <3>2. QED
      BY <1>21, <3>1
  <2>4. View'[cw] = TxInfo(next, a, FALSE, FALSE)
    <3>1. 0 \in 0..(a - 1) /\ cw + 0 = cw
      BY <1>7, <1>8, Constants
    <3>2. View'[cw] = View[cw]
      BY <2>3, <3>1
    <3>3. QED
      BY <2>1, <2>2, <3>2
  <2>5. Whole(View', cw, a, next)
    <3>1. Whole(View, cw, a, next)
      BY <2>1
    <3>2. \A k \in 1..(a - 1) : View'[cw + k] = View[cw + k]
      BY <1>8, <2>3
    <3>3. QED
      BY <3>1, <3>2, WholeKept
  <2>6. View'[cw + a] = TxInfo(next + 1, b, l, FALSE)
    <3> DEFINE c == PutHeader(buf, cw + a, next + 1, b, l, w.parts[2])
    <3>1. c[cw + a] = Hdr(next + 1, b, l)
      BY <1>10, HeaderFirst
    <3>2. Hdr(next + 1, b, l) = TxInfo(next + 1, b, l, FALSE)
      BY DEF Hdr, TxInfo
    <3>3. cw + a \in Pos /\ cw + a <= cw + a /\ cw + a <= cw + a + Ovh - 1
      BY <1>7, <1>8, <1>10, Constants, BufferSize
    <3>4. View'[cw + a] = buf'[cw + a]
      BY <1>21, <3>3
    <3>5. buf' = c
      BY <1>11
    <3> HIDE DEF c
    <3>6. QED
      BY <3>1, <3>2, <3>4, <3>5
  <2>7. Begun(View', cw + a, Ovh, next + 1)
    <3> DEFINE c == PutHeader(buf, cw + a, next + 1, b, l, w.parts[2])
    <3>1. Begun(c, cw + a, Ovh, next + 1)
      BY <1>10, HeaderRest
    <3>2. ASSUME NEW k \in 1..(Ovh - 1) PROVE View'[cw + a + k] = buf'[cw + a + k]
      <4>1. cw + a + k \in Pos /\ cw + a <= cw + a + k /\ cw + a + k <= cw + a + Ovh - 1
        BY <1>7, <1>8, <1>10, Constants, BufferSize
      <4>2. QED
        BY <1>21, <4>1
    <3>3. buf' = c
      BY <1>11
    <3> HIDE DEF c
    <3>4. \A k \in 1..(Ovh - 1) : View'[cw + a + k] = c[cw + a + k]
      BY <3>2, <3>3
    <3>5. QED
      BY <3>1, <3>4, BegunKept
  <2>8. next' - 1 = next /\ next' = next + 1 /\ CurWritePosition' = cw
    BY <1>3, <1>6, <1>11, <1>15
  <2>9. Ovh + w'.parts[1] = a /\ Ovh + w'.parts[w'.i] = b
    BY <1>6, <1>13
  <2>10. /\ View'[CurWritePosition'] = TxInfo(next' - 1, Ovh + w'.parts[1], FALSE, FALSE)
         /\ Whole(View', CurWritePosition', Ovh + w'.parts[1], next' - 1)
    BY <2>4, <2>5, <2>8, <2>9
  <2>11. /\ View'[Base'] = TxInfo(next', Ovh + w'.parts[w'.i], w'.last, FALSE)
         /\ Begun(View', Base', Ovh, next')
    BY <1>13, <1>16, <2>6, <2>7, <2>8, <2>9
  <2>12. QED
    BY <1>13, <1>14, <2>10, <2>11 DEF Current
<1>26. Plain'
  BY <1>2, <1>20, <1>22, <1>23, <1>24, <1>25 DEF Plain
<1>27. QED
  BY <1>20, <1>26 DEF RingInv

\* A later part of the batch.
LEMMA NextKept ==
  ASSUME RingInv, WriteNext
  PROVE  RingInv'
<1>1. IndInv /\ Active
  BY NextLeaves DEF RingInv, Plain, Active
<1>2. w.kind = "frag" \/ w.kind = "multi"
  <2>1. w.kind \in {"single", "frag", "multi"} /\ (w.kind = "single" => Len(w.parts) = 1)
    BY <1>1, BlockRoom DEF IndInv
  <2>2. Len(w.parts) = 2
    BY <1>1, NextLeaves DEF IndInv, Progress
  <2>3. QED
    BY <2>1, <2>2
<1>3. QED
  BY <1>2, NextFragmentKept, NextPartKept
-----------------------------------------------------------------------------
(***************************************************************************)
(* A frame is published.                                                   *)
(***************************************************************************)

\* One more frame of n units; l tells whether it is the last of its round.
Extended(t, n, l, z, P, N, t2, z2, P2, N2) ==
  /\ t2 = t + 1 /\ z2 = (IF l THEN t ELSE z) /\ N2 = [N EXCEPT ![t] = n]
  /\ P2 = [P EXCEPT ![t + 1] = IF l THEN 1 ELSE P[t] + n]

\* A frame that starts at p does not start too far up.
LowStart(p) ==
  \A c \in Batches : p + AggReserve + Room(c) - Sum(c.parts) + 1 <= Limit + LocalTxBuf

\* The frames are laid out as before.
LEMMA Longer ==
  ASSUME NEW u, NEW r, NEW t, NEW z, NEW P, NEW N, NEW n \in Nat, NEW l \in BOOLEAN, NEW t2, NEW z2, NEW P2, NEW N2,
         Indexed(u, r, t, z, P, N), Rising(u, t, z, P, N), Joined(u, r, t, z, P, N), LowEnough(u, t, P),
         n > Ovh, P[t] >= 1, P[t] + n < BufSize, l => z < u,
         LowStart(P[t]), Extended(t, n, l, z, P, N, t2, z2, P2, N2)
  PROVE  /\ Indexed(u, r, t2, z2, P2, N2) /\ Rising(u, t2, z2, P2, N2)
         /\ Joined(u, r, t2, z2, P2, N2) /\ LowEnough(u, t2, P2)
<1> USE DEF Extended, LowStart
<1>1. /\ u \in Nat /\ r \in Nat /\ t \in Nat /\ z \in Nat /\ 1 <= u /\ u <= r /\ r <= t /\ z < t
      /\ P \in [Nat -> Nat] /\ N \in [Nat -> Nat]
      /\ \A i \in u..(t - 1) : N[i] > Ovh /\ P[i] >= 1 /\ P[i] + N[i] < BufSize
  BY DEF Indexed
<1>2. /\ P2 \in [Nat -> Nat] /\ N2 \in [Nat -> Nat] /\ P2[t + 1] = IF l THEN 1 ELSE P[t] + n
      /\ N2[t] = n /\ \A i \in Nat : (i # t + 1 => P2[i] = P[i]) /\ (i # t => N2[i] = N[i])
  <2>1. t \in Nat /\ t + 1 \in Nat /\ P[t] \in Nat
    BY <1>1
  <2>2. (IF l THEN 1 ELSE P[t] + n) \in Nat
    BY <2>1
  <2>3. QED
    BY <1>1, <2>1, <2>2
<1>3. P2[t] = P[t] /\ P[t] \in Nat
  BY <1>1, <1>2
<1>4. z2 \in Nat /\ z2 < t + 1 /\ (l => z2 = t) /\ (~l => z2 = z)
  BY <1>1
<1>5. Indexed(u, r, t2, z2, P2, N2)
  <2>1. ASSUME NEW i \in u..(t2 - 1) PROVE N2[i] > Ovh /\ P2[i] >= 1 /\ P2[i] + N2[i] < BufSize
    <3>1. i \in Nat /\ i # t + 1 /\ (i = t \/ i \in u..(t - 1))
      BY <1>1
    <3>2. CASE i = t
      BY <1>2, <1>3, <3>2
    <3>3. CASE i # t
      BY <1>1, <1>2, <3>1, <3>3
    <3>4. QED
      BY <3>2, <3>3
  <2>2. t2 \in Nat /\ r <= t2 /\ z2 < t2
    BY <1>1, <1>4
  <2>3. QED
    BY <1>1, <1>2, <1>4, <2>1, <2>2 DEF Indexed
<1>6. Rising(u, t2, z2, P2, N2)
  <2>1. SUFFICES ASSUME NEW i \in u..(t2 - 1), NEW j \in (i + 1)..t2, ~(i <= z2 /\ z2 < j)
                 PROVE  P2[i] + N2[i] <= P2[j]
    BY DEF Rising
  <2>2. i \in Nat /\ j \in Nat /\ u <= i /\ i <= t /\ i < j /\ j <= t + 1
    BY <1>1
  <2>3. CASE j <= t
    <3>1. ~(i <= z /\ z < j)
      BY <1>1, <1>4, <2>1, <2>2
    <3>2. i \in u..(t - 1) /\ j \in (i + 1)..t
      BY <1>1, <2>2, <2>3
    <3>3. P[i] + N[i] <= P[j]
      BY <3>1, <3>2 DEF Rising
    <3>4. P2[i] = P[i] /\ N2[i] = N[i] /\ P2[j] = P[j]
      BY <1>1, <1>2, <2>2, <2>3
    <3>5. QED
      BY <3>3, <3>4
  <2>4. CASE j = t + 1
    <3>1. ~l /\ ~(i <= z)
      BY <1>1, <1>4, <2>1, <2>2, <2>4
    <3>2. P2[j] = P[t] + n
      BY <1>2, <2>4, <3>1
    <3>3. CASE i = t
      BY <1>2, <1>3, <3>2, <3>3
    <3>4. CASE i # t
      <4>1. i \in u..(t - 1) /\ t \in (i + 1)..t
        BY <1>1, <2>2, <3>4
      <4>2. P[i] + N[i] <= P[t]
        BY <3>1, <4>1 DEF Rising
      <4>3. P2[i] = P[i] /\ N2[i] = N[i] /\ P[i] \in Nat /\ N[i] \in Nat
        BY <1>1, <1>2, <2>2, <3>4
      <4>4. QED
        BY <1>3, <3>2, <4>2, <4>3
    <3>5. QED
      BY <3>3, <3>4
  <2>5. QED
    BY <1>1, <2>2, <2>3, <2>4
<1>7. Joined(u, r, t2, z2, P2, N2)
  <2>1. ASSUME NEW i \in r..(t2 - 1) PROVE P2[i + 1] = IF i = z2 THEN 1 ELSE P2[i] + N2[i]
    <3>1. i \in Nat /\ i >= r /\ i <= t
      BY <1>1
    <3>2. CASE i = t
      <4>1. l <=> i = z2
        BY <1>1, <1>4, <3>2
      <4>2. QED
        BY <1>2, <1>3, <3>2, <4>1
    <3>3. CASE i # t
      <4>1. i \in r..(t - 1)
        BY <1>1, <3>1, <3>3
      <4>2. P[i + 1] = IF i = z THEN 1 ELSE P[i] + N[i]
        BY <4>1 DEF Joined
      <4>3. i = z2 <=> i = z
        BY <1>1, <1>4, <3>1, <3>3
      <4>4. i + 1 \in Nat /\ i + 1 # t + 1 /\ i # t + 1
        BY <1>1, <3>1, <3>3
      <4>5. P2[i + 1] = P[i + 1] /\ P2[i] = P[i] /\ N2[i] = N[i]
        BY <1>2, <3>1, <3>3, <4>4
      <4>6. QED
        BY <4>2, <4>3, <4>5
    <3>4. QED
      BY <3>2, <3>3
  <2>2. ASSUME NEW i \in u..(r - 2) PROVE i # z2 /\ P2[i + 1] = P2[i] + N2[i]
    <3>1. i # z /\ P[i + 1] = P[i] + N[i]
      BY DEF Joined
    <3>2. i \in Nat /\ i < t /\ i + 1 \in Nat /\ i + 1 # t + 1 /\ i # t + 1
      BY <1>1
    <3>3. QED
      BY <1>2, <1>4, <3>1, <3>2
  <2>3. QED
    BY <2>1, <2>2 DEF Joined
<1>8. LowEnough(u, t2, P2)
  <2>1. SUFFICES ASSUME NEW i \in u..(t2 - 1), NEW c \in Batches
                 PROVE  P2[i] + AggReserve + Room(c) - Sum(c.parts) + 1 <= Limit + LocalTxBuf
    BY DEF LowEnough
  <2>2. i \in Nat /\ i # t + 1 /\ (i = t \/ i \in u..(t - 1))
    BY <1>1
  <2>3. P2[i] = P[i]
    BY <1>2, <2>2
  <2>4. P[i] + AggReserve + Room(c) - Sum(c.parts) + 1 <= Limit + LocalTxBuf
    BY <2>2 DEF LowEnough
  <2>5. QED
    BY <2>3, <2>4
<1>9. QED
  BY <1>5, <1>6, <1>7, <1>8

\* Its content.
LEMMA LongerContent ==
  ASSUME NEW v, NEW u, NEW r, NEW t, NEW z, NEW P, NEW N, NEW F, NEW n, NEW f \in Nat, NEW l \in BOOLEAN,
         NEW t2, NEW z2, NEW P2, NEW N2, NEW F2,
         Indexed(u, r, t, z, P, N), F \in [Nat -> Nat], Content(v, u, r, t, z, P, N, F), l => z < u,
         v[P[t]] = TxInfo(f, n, l, FALSE), Whole(v, P[t], n, f),
         Extended(t, n, l, z, P, N, t2, z2, P2, N2), F2 = [F EXCEPT ![t] = f]
  PROVE  Content(v, u, r, t2, z2, P2, N2, F2)
<1> USE DEF Extended
<1>1. /\ u \in Nat /\ r \in Nat /\ t \in Nat /\ z \in Nat /\ u <= r /\ r <= t /\ z < t
      /\ P \in [Nat -> Nat] /\ N \in [Nat -> Nat]
  BY DEF Indexed
<1>2. /\ N2[t] = n /\ F2[t] = f /\ P2[t] = P[t]
      /\ \A i \in Nat : i < t => P2[i] = P[i] /\ N2[i] = N[i] /\ F2[i] = F[i]
  BY <1>1
<1>3. ASSUME NEW i \in u..(r - 1) PROVE v[P2[i]] = TxInfo(F2[i], N2[i], FALSE, i # r - 1)
  <2>1. i \in Nat /\ i < t
    BY <1>1
  <2>2. v[P[i]] = TxInfo(F[i], N[i], FALSE, i # r - 1)
    BY DEF Content
  <2>3. QED
    BY <1>2, <2>1, <2>2
<1>4. ASSUME NEW i \in r..(t2 - 1) PROVE v[P2[i]] = TxInfo(F2[i], N2[i], i = z2, FALSE)
  <2>1. i \in Nat /\ i <= t /\ i >= u
    BY <1>1
  <2>2. CASE i = t
    <3>1. (i = z2) = l
      BY <1>1, <2>2
    <3>2. QED
      BY <1>2, <2>2, <3>1
  <2>3. CASE i # t
    <3>1. i \in r..(t - 1) /\ i < t
      BY <1>1, <2>1, <2>3
    <3>2. v[P[i]] = TxInfo(F[i], N[i], i = z, FALSE)
      BY <3>1 DEF Content
    <3>3. (i = z2) = (i = z)
      BY <1>1, <2>1, <2>3
    <3>4. QED
      BY <1>2, <2>1, <3>1, <3>2, <3>3
  <2>4. QED
    BY <2>2, <2>3
<1>5. ASSUME NEW i \in u..(t2 - 1) PROVE Whole(v, P2[i], N2[i], F2[i])
  <2>1. i \in Nat /\ (i = t \/ (i < t /\ i \in u..(t - 1)))
    BY <1>1
  <2>2. CASE i = t
    BY <1>2, <2>2
  <2>3. CASE i < t /\ i \in u..(t - 1)
    BY <1>2, <2>1, <2>3 DEF Content
  <2>4. QED
    BY <2>1, <2>2, <2>3
<1>6. QED
  BY <1>3, <1>4, <1>5 DEF Content

\* The numbers of the frames below g, and what has been sent of them.
Counted(g, u, r, t, F) ==
  /\ F \in [Nat -> Nat] /\ t <= g /\ 1 <= g
  /\ \A i \in u..(t - 1) : 1 <= F[i] /\ F[i] < g
  /\ \A i \in u..(t - 1) : \A j \in (i + 1)..(t - 1) : F[i] < F[j]
  /\ \A f \in 1..(g - 1) : f \in Gone \/ \E i \in u..(t - 1) : f = F[i]
  /\ \A i \in DOMAIN sent : sent[i].f < g /\ \A j \in r..(t - 1) : sent[i].f < F[j]

\* The next number goes to the next frame.
LEMMA LongerNumbers ==
  ASSUME NEW u \in Nat, NEW r \in Nat, NEW t \in Nat, NEW F, NEW t2, NEW F2, NEW g \in Nat, NEW g2, Typed,
         u <= r, r <= t, Counted(g, u, r, t, F), t2 = t + 1, F2 = [F EXCEPT ![t] = g], g2 = g + 1
  PROVE  Counted(g2, u, r, t2, F2)
<1>1. /\ F \in [Nat -> Nat] /\ t <= g /\ 1 <= g
      /\ \A i \in u..(t - 1) : 1 <= F[i] /\ F[i] < g
      /\ \A i \in u..(t - 1) : \A j \in (i + 1)..(t - 1) : F[i] < F[j]
      /\ \A f \in 1..(g - 1) : f \in Gone \/ \E i \in u..(t - 1) : f = F[i]
      /\ \A i \in DOMAIN sent : sent[i].f < g /\ \A j \in r..(t - 1) : sent[i].f < F[j]
  BY DEF Counted
<1>2. F2 \in [Nat -> Nat] /\ F2[t] = g /\ \A i \in Nat : i # t => F2[i] = F[i]
  BY <1>1
<1>3. \A i \in Nat : i < t => F2[i] = F[i]
  BY <1>2
<1>4. t2 <= g2 /\ 1 <= g2
  BY <1>1
<1>5. ASSUME NEW i \in u..(t2 - 1) PROVE 1 <= F2[i] /\ F2[i] < g2
  <2>1. i \in Nat /\ (i = t \/ (i \in u..(t - 1) /\ i < t))
    OBVIOUS
  <2>2. CASE i = t
    BY <1>1, <1>2, <2>2
  <2>3. CASE i \in u..(t - 1) /\ i < t
    <3>1. F2[i] = F[i] /\ 1 <= F[i] /\ F[i] < g /\ F[i] \in Nat
      BY <1>1, <1>3, <2>1, <2>3
    <3>2. QED
      BY <3>1
  <2>4. QED
    BY <2>1, <2>2, <2>3
<1>6. ASSUME NEW i \in u..(t2 - 1), NEW j \in (i + 1)..(t2 - 1) PROVE F2[i] < F2[j]
  <2>1. i \in Nat /\ j \in Nat /\ i < t /\ i \in u..(t - 1) /\ (j = t \/ (j \in (i + 1)..(t - 1) /\ j < t))
    OBVIOUS
  <2>2. F2[i] = F[i]
    BY <1>3, <2>1
  <2>3. CASE j = t
    BY <1>1, <1>2, <2>1, <2>2, <2>3
  <2>4. CASE j \in (i + 1)..(t - 1) /\ j < t
    BY <1>1, <1>3, <2>1, <2>2, <2>4
  <2>5. QED
    BY <2>1, <2>3, <2>4
<1>7. ASSUME NEW f \in 1..(g2 - 1) PROVE f \in Gone \/ \E i \in u..(t2 - 1) : f = F2[i]
  <2>1. f = g \/ f \in 1..(g - 1)
    OBVIOUS
  <2>2. CASE f = g
    <3>1. t \in u..(t2 - 1)
      OBVIOUS
    <3>2. QED
      BY <1>2, <2>2, <3>1
  <2>3. CASE f \in 1..(g - 1)
    <3>1. CASE f \in Gone
      BY <3>1
    <3>2. CASE \E i \in u..(t - 1) : f = F[i]
      <4>1. PICK i \in u..(t - 1) : f = F[i]
        BY <3>2
      <4>2. i \in u..(t2 - 1) /\ i \in Nat /\ i < t
        OBVIOUS
      <4>3. f = F2[i]
        BY <1>3, <4>1, <4>2
      <4>4. QED
        BY <4>2, <4>3
    <3>3. QED
      BY <1>1, <2>3, <3>1, <3>2
  <2>4. QED
    BY <2>1, <2>2, <2>3
<1>8. ASSUME NEW i \in DOMAIN sent PROVE sent[i].f < g2 /\ \A j \in r..(t2 - 1) : sent[i].f < F2[j]
  <2>1. sent[i].f \in Nat
    BY SentCell
  <2>2. sent[i].f < g /\ \A j \in r..(t - 1) : sent[i].f < F[j]
    BY <1>1
  <2> DEFINE f == sent[i].f
  <2>3. f \in Nat /\ f < g /\ \A j \in r..(t - 1) : f < F[j]
    BY <2>1, <2>2
  <2> HIDE DEF f
  <2>4. ASSUME NEW j \in r..(t2 - 1) PROVE f < F2[j]
    <3>1. j \in Nat /\ (j = t \/ (j \in r..(t - 1) /\ j < t))
      OBVIOUS
    <3>2. QED
      BY <1>2, <1>3, <2>3, <3>1
  <2>5. f < g2
    BY <2>3
  <2>6. QED
    BY <2>4, <2>5 DEF f
<1>9. QED
  BY <1>2, <1>3, <1>4, <1>5, <1>6, <1>7, <1>8 DEF Counted

\* From a layout to the numbers of its frames ...
LEMMA OfNumbered ==
  ASSUME NEW u, NEW r, NEW t, NEW F, Numbered(u, r, t, F), SentSoFar(u, r, t, F)
  PROVE  Counted(Free, u, r, t, F)
BY DEF Numbered, SentSoFar, Counted

\* ... and back, when the frames before r are the same.
LEMMA ToNumbered ==
  ASSUME NEW u \in Nat, NEW r \in Nat, NEW t \in Nat, NEW F, NEW t2, NEW F2, r <= t,
         Numbered(u, r, t, F), SentSoFar(u, r, t, F), Counted(Free', u, r, t2, F2),
         \A i \in Nat : i < t => F2[i] = F[i], UNCHANGED <<sent, dropped>>, Owed => Owed'
  PROVE  Numbered(u, r, t2, F2)' /\ SentSoFar(u, r, t2, F2)'
<1>1. Gone' = Gone
  BY DEF Gone, FramesOf
<1>2. \A i \in u..(r - 1) : F2[i] = F[i]
  OBVIOUS
<1>3. ~Owed' => \A i \in u..(r - 1) : F2[i] \in Gone'
  <2>1. ~Owed => \A i \in u..(r - 1) : F[i] \in Gone
    BY DEF Numbered
  <2>2. QED
    BY <1>1, <1>2, <2>1
<1>4. /\ F2 \in [Nat -> Nat] /\ t2 <= Free' /\ 1 <= Free'
      /\ \A i \in u..(t2 - 1) : 1 <= F2[i] /\ F2[i] < Free'
      /\ \A i \in u..(t2 - 1) : \A j \in (i + 1)..(t2 - 1) : F2[i] < F2[j]
      /\ \A i \in DOMAIN sent : sent[i].f < Free' /\ \A j \in r..(t2 - 1) : sent[i].f < F2[j]
  BY DEF Counted
<1>5. \A f \in 1..(Free' - 1) : f \in Gone' \/ \E i \in u..(t2 - 1) : f = F2[i]
  BY <1>1 DEF Counted
<1>6. Numbered(u, r, t2, F2)'
  BY <1>3, <1>4, <1>5 DEF Numbered
<1>7. FramesOf(sent)' = FramesOf(sent)
  BY DEF FramesOf
<1>8. \/ \A i \in u..(r - 1) : F[i] \in FramesOf(sent)
      \/ \A i \in DOMAIN sent : \A j \in u..(r - 1) : sent[i].f < F[j]
  BY DEF SentSoFar
<1>9. \/ \A i \in u..(r - 1) : F2[i] \in FramesOf(sent)'
      \/ \A i \in DOMAIN sent' : \A j \in u..(r - 1) : sent'[i].f < F2[j]
  BY <1>2, <1>7, <1>8
<1>10. \A i \in DOMAIN sent' : sent'[i].f < Free' /\ \A j \in r..(t2 - 1) : sent'[i].f < F2[j]
  BY <1>4
<1>11. SentSoFar(u, r, t2, F2)'
  BY <1>9, <1>10 DEF SentSoFar
<1>12. QED
  BY <1>6, <1>11

\* The positions behind the new frames.
LEMMA LongerPlace ==
  ASSUME NEW u, NEW r, NEW t, NEW z, NEW P, NEW N, NEW t2, NEW z2, NEW P2, NEW N2,
         Indexed(u, r, t, z, P, N), Positions(u, r, t, z, P, N), Behind(u, r, z), Parked(u, r, t, z, P, N),
         Writing, ~Writing', pc'["W"] = "kick", Room(w) \in Nat,
         UNCHANGED <<NextBulkOutPosition, ENextBulkOutPosition, bCopySavePad, BulkOutSize>>,
         t2 \in Nat, t < t2, z2 \in Nat, \A i \in Nat : i <= t => P2[i] = P[i],
         \A i \in Nat : i < t => N2[i] = N[i],
         z2 = z \/ (z < u /\ u < r /\ t <= z2 /\ CurWritePosition' = 1),
         CurWritePosition' = P2[t2], CurWritePosition' \in Nat, CurWritePosition' >= 1,
         z2 = z => CurWritePosition' <= CurWritePosition + Room(w)
  PROVE  Positions(u, r, t2, z2, P2, N2)' /\ Behind(u, r, z2)' /\ Parked(u, r, t2, z2, P2, N2)'
<1>1. /\ u \in Nat /\ r \in Nat /\ t \in Nat /\ z \in Nat /\ 1 <= u /\ u <= r /\ r <= t /\ z < t
      /\ P \in [Nat -> Nat] /\ N \in [Nat -> Nat]
  BY DEF Indexed
<1>2. P2[r] = P[r] /\ P2[u] = P[u]
  BY <1>1
<1>3. u < r => P2[r - 1] = P[r - 1] /\ N2[r - 1] = N[r - 1]
  <2>1. SUFFICES ASSUME u < r PROVE P2[r - 1] = P[r - 1] /\ N2[r - 1] = N[r - 1]
    OBVIOUS
  <2>2. r - 1 \in Nat /\ r - 1 < t /\ r - 1 <= t
    BY <1>1, <2>1
  <2>3. QED
    BY <2>2
<1>4. Positions(u, r, t2, z2, P2, N2)'
  <2>1. ENextBulkOutPosition' = P2[r] /\ CurWritePosition' = P2[t2]
    BY <1>2 DEF Positions
  <2>2. u = r => z2 < u /\ NextBulkOutPosition' = 0 /\ P2[r] <= 1 /\ t2 # r
    BY <1>1, <1>2 DEF Positions
  <2>3. u < r => /\ NextBulkOutPosition' = P2[u] /\ P2[r] >= 1
                 /\ NextBulkOutPosition' + BulkOutSize' = P2[r - 1] + N2[r - 1]
    BY <1>2, <1>3 DEF Positions
  <2>4. P2[t2] # 0 /\ r # t2
    BY <1>1
  <2>5. QED
    BY <2>1, <2>2, <2>3, <2>4 DEF Positions
<1>5. Behind(u, r, z2)'
  <2>1. z2 >= u => CurWritePosition' < NextBulkOutPosition' \/ CurWritePosition' = 1
    <3>1. CASE z2 = z
      <4>1. z >= u => CurWritePosition + Room(w) + 1 <= NextBulkOutPosition
        BY DEF Behind
      <4>2. NextBulkOutPosition \in Nat /\ CurWritePosition \in Nat
        BY UrbStart
      <4>3. PICK rm, a, b, nb : rm = Room(w) /\ a = CurWritePosition /\ b = CurWritePosition' /\ nb = NextBulkOutPosition
        OBVIOUS
      <4>4. /\ rm \in Nat /\ a \in Nat /\ b \in Nat /\ nb \in Nat /\ b <= a + rm
            /\ z >= u => a + rm + 1 <= nb
        BY <3>1, <4>1, <4>2, <4>3
      <4>5. z >= u => b < nb
        BY <4>4
      <4>6. QED
        BY <3>1, <4>3, <4>5
    <3>2. CASE z2 # z
      BY <3>2
    <3>3. QED
      BY <3>1, <3>2
  <2>2. QED
    BY <2>1 DEF Behind
<1>6. Parked(u, r, t2, z2, P2, N2)'
  <2>1. bCopySavePad <=> u < r /\ z # r - 1 /\ P[r] = P[r - 1] + N[r - 1]
    BY DEF Parked
  <2>2. u < r => (z # r - 1 <=> z2 # r - 1)
    BY <1>1
  <2>3. r < t2
    BY <1>1
  <2>4. bCopySavePad' <=> u < r /\ z2 # r - 1 /\ P2[r] = P2[r - 1] + N2[r - 1]
    BY <1>2, <1>3, <2>1, <2>2
  <2>5. QED
    BY <2>3, <2>4 DEF Parked
<1>7. QED
  BY <1>4, <1>5, <1>6

\* The writer ends: the whole block is written.
LEMMA FinPlace ==
  ASSUME Plain, pc["W"] = "fin"
  PROVE  /\ w.Priv = Room(w) /\ Room(w) \in Nat /\ CurWritePosition \in Nat
         /\ CurWritePosition + Room(w) < BufSize /\ CurWritePosition + AggReserve <= Limit + 1
         /\ next \in Nat /\ next >= 1 /\ next <= MaxFrames /\ MaxFrames \in Nat
         /\ w.parts[1] \in Nat /\ w.parts[1] > 0 /\ w.kind \in {"single", "frag", "multi"}
         /\ w.kind = "single" => w.i = 1 /\ Len(w.parts) = 1 /\ Room(w) = Ovh + w.parts[1]
         /\ w.kind # "single" => w.i = 2 /\ Len(w.parts) = 2 /\ w.parts[2] \in Nat /\ w.parts[2] > 0
         /\ w.kind = "frag" => Room(w) = Ovh + Ovh + w.parts[1] + w.parts[2]
         /\ w.kind = "multi" => Room(w) = Ovh + w.parts[1] + w.parts[2]
<1>1. IndInv /\ Written /\ Typed
  BY DEF Plain
<1>2. Active /\ Writing
  BY DEF Active, Writing
<1>3. /\ Room(w) \in Nat /\ Room(w) <= AggReserve /\ w.parts[1] \in Nat /\ w.parts[1] > 0
      /\ w.kind \in {"single", "frag", "multi"}
      /\ w.kind = "single" => Len(w.parts) = 1 /\ Room(w) = Ovh + w.parts[1]
      /\ w.kind = "frag" => /\ Len(w.parts) = 2 /\ Room(w) = Ovh + Ovh + w.parts[1] + w.parts[2]
                            /\ w.parts[2] \in Nat /\ w.parts[2] > 0
      /\ w.kind = "multi" => /\ Len(w.parts) = 2 /\ Room(w) = Ovh + w.parts[1] + w.parts[2]
                             /\ w.parts[2] \in Nat /\ w.parts[2] > 0
      /\ LocalTxBuf > 2
  BY <1>1, <1>2, BlockRoom DEF IndInv
<1>4. w.i = Len(w.parts)
  BY <1>1 DEF IndInv, Progress
<1>5. CurWritePosition \in Nat /\ CurWritePosition + AggReserve <= Limit + 1
  BY <1>1, <1>2 DEF IndInv, Below
<1>6. CurWritePosition + Room(w) < BufSize
  <2> DEFINE rm == Room(w)
  <2>1. rm \in Nat /\ rm <= AggReserve /\ LocalTxBuf > 2
    BY <1>3
  <2> HIDE DEF rm
  <2>2. CurWritePosition + rm < BufSize
    BY <1>5, <2>1, Constants, BufferSize
  <2>3. QED
    BY <2>2 DEF rm
<1>7. w.Priv = Room(w)
  <2>1. CASE w.kind = "single"
    <3>1. w.Priv = Ovh + w.parts[1]
      BY <1>1, <1>2, <1>3, <1>4, <2>1 DEF IndInv, Progress
    <3>2. QED
      BY <1>3, <2>1, <3>1
  <2>2. CASE w.kind = "frag"
    <3>1. w.Priv = Ovh + Ovh + w.parts[1] + w.parts[2]
      BY <1>1, <1>2, <1>3, <1>4, <2>2 DEF IndInv, Progress
    <3>2. QED
      BY <1>3, <2>2, <3>1
  <2>3. CASE w.kind = "multi"
    <3>1. w.Priv = Ovh + (w.parts[1] + w.parts[2])
      BY <1>1, <1>2, <2>3 DEF Written
    <3>2. Ovh + (w.parts[1] + w.parts[2]) = Ovh + w.parts[1] + w.parts[2]
      BY <1>3, <2>3, Constants
    <3>3. QED
      BY <1>3, <2>3, <3>1, <3>2
  <2>4. QED
    BY <1>3, <2>1, <2>2, <2>3
<1>8. next \in Nat /\ next >= 1 /\ MaxFrames \in Nat
  BY <1>1, TxRingAssumption DEF Typed
<1>9. next <= MaxFrames
  <2>1. next + Len(w.parts) - w.i <= MaxFrames
    BY <1>1 DEF Written
  <2>2. Len(w.parts) \in Nat
    BY <1>3
  <2>3. PICK n : n = Len(w.parts)
    OBVIOUS
  <2>4. n \in Nat /\ next + n - n <= MaxFrames
    BY <1>4, <2>1, <2>2, <2>3
  <2>5. QED
    BY <1>8, <2>4
<1>10. w.kind # "single" => w.i = 2 /\ Len(w.parts) = 2 /\ w.parts[2] \in Nat /\ w.parts[2] > 0
  BY <1>3, <1>4
<1>11. w.kind = "single" => w.i = 1 /\ Len(w.parts) = 1 /\ Room(w) = Ovh + w.parts[1]
  BY <1>3, <1>4
<1>12. QED
  BY <1>3, <1>5, <1>6, <1>7, <1>8, <1>9, <1>10, <1>11

\* No frame of the block starts too far up.
LEMMA FinLow ==
  ASSUME Plain, pc["W"] = "fin", NEW c \in Batches
  PROVE  /\ CurWritePosition + AggReserve + Room(c) - Sum(c.parts) + 1 <= Limit + LocalTxBuf
         /\ w.kind = "frag" =>
              CurWritePosition + (Ovh + w.parts[1]) + AggReserve + Room(c) - Sum(c.parts) + 1 <= Limit + LocalTxBuf
<1>1. PICK b \in Batches : w.kind = b.kind /\ w.parts = b.parts
  BY DEF Plain, IndInv, Block
<1>2. /\ w.kind = "frag" => Ovh + w.parts[1] + Room(c) + 2 <= LocalTxBuf + Sum(c.parts)
      /\ Room(c) + 2 <= LocalTxBuf + Sum(c.parts)
  BY <1>1, Slack
<1>3. Room(c) \in Nat /\ Sum(c.parts) \in Nat
  BY OfBatch
<1>4. CurWritePosition \in Nat /\ CurWritePosition + AggReserve <= Limit + 1 /\ w.parts[1] \in Nat
  BY FinPlace
<1>5. PICK rc, sc, cw, p1 : rc = Room(c) /\ sc = Sum(c.parts) /\ cw = CurWritePosition /\ p1 = w.parts[1]
  OBVIOUS
<1>6. /\ rc \in Nat /\ sc \in Nat /\ cw \in Nat /\ cw + AggReserve <= Limit + 1 /\ p1 \in Nat
      /\ w.kind = "frag" => Ovh + p1 + rc + 2 <= LocalTxBuf + sc
      /\ rc + 2 <= LocalTxBuf + sc
  BY <1>2, <1>3, <1>4, <1>5
<1>7. cw + AggReserve + rc - sc + 1 <= Limit + LocalTxBuf
  BY <1>6, Constants
<1>8. w.kind = "frag" => cw + (Ovh + p1) + AggReserve + rc - sc + 1 <= Limit + LocalTxBuf
  BY <1>6, Constants
<1>9. QED
  BY <1>5, <1>7, <1>8

\* A writer that is a round ahead, or before the first URB, does not end its round.
LEMMA FinRound ==
  ASSUME NEW u \in Nat, NEW r \in Nat, NEW z \in Nat, u <= r, Plain, Behind(u, r, z), pc["W"] = "fin",
         LastRound(CurWritePosition, w.Priv)
  PROVE  z < u /\ u < r
<1>1. w.Priv = Room(w) /\ Room(w) \in Nat /\ CurWritePosition \in Nat
  BY FinPlace
<1>2. Writing
  BY DEF Writing
<1>3. z >= u \/ u = r => CurWritePosition + Room(w) + AggReserve <= Limit
  BY <1>2 DEF Behind
<1>4. CurWritePosition + Room(w) + AggReserve > Limit
  BY <1>1 DEF LastRound
<1>5. PICK rm, cw : rm = Room(w) /\ cw = CurWritePosition
  OBVIOUS
<1>6. rm \in Nat /\ cw \in Nat /\ cw + rm + AggReserve > Limit /\ (z >= u \/ u = r => cw + rm + AggReserve <= Limit)
  BY <1>1, <1>3, <1>4, <1>5
<1>7. QED
  BY <1>6, Constants

\* The frames before frame t have the same numbers.
SameBelow(t, F, F2) == \A i \in Nat : i < t => F2[i] = F[i]

\* The block is published: the layout with the new frames.
LEMMA Finished ==
  ASSUME NEW u, NEW r, NEW t, NEW z, NEW P, NEW N, NEW F, Plain, Layout(u, r, t, z, P, N, F),
         NEW t2, NEW z2, NEW P2, NEW N2, NEW F2, IndInv', Typed', pc'["W"] = "kick",
         Indexed(u, r, t2, z2, P2, N2), Rising(u, t2, z2, P2, N2), Joined(u, r, t2, z2, P2, N2),
         LowEnough(u, t2, P2), Content(View', u, r, t2, z2, P2, N2, F2),
         Positions(u, r, t2, z2, P2, N2)', Behind(u, r, z2)', Parked(u, r, t2, z2, P2, N2)',
         Counted(Free', u, r, t2, F2), SameBelow(t, F, F2),
         CurWriteRealPos' = CurWritePosition', bCurWriting' = FALSE,
         UNCHANGED <<sent, dropped, rd, urb, resetCmds, BulkOutPending, bulkOutReset, bForcePrintTX>>
  PROVE  RingInv'
<1>1. /\ Indexed(u, r, t, z, P, N) /\ Numbered(u, r, t, F) /\ SentSoFar(u, r, t, F) /\ HasUrb(u, r)
  BY DEF Layout
<1>2. u \in Nat /\ r \in Nat /\ t \in Nat /\ r <= t
  BY <1>1 DEF Indexed
<1>3. ~Writing' /\ ~Second'
  BY DEF Writing, Second
<1>4. OneUser' /\ HasUrb(u, r)' /\ (Owed => Owed')
  <2>1. OneUser
    BY DEF Plain
  <2>2. QED
    BY <1>1, <2>1, UsersKept
<1>5. Numbered(u, r, t2, F2)' /\ SentSoFar(u, r, t2, F2)'
  BY <1>1, <1>2, <1>4, ToNumbered DEF SameBelow
<1>6. Content(View, u, r, t2, z2, P2, N2, F2)'
  BY DEF Content
<1>7. Laid'
  BY <1>4, <1>5, <1>6, LaidAgain
<1>8. NoZeroLengthFrame' /\ SentIntact' /\ FirstSentInOrder'
  BY HistoryKept
<1>9. Current(View)'
  BY <1>3 DEF Current, Writing
<1>10. Written'
  <2>1. CurWritePosition' \in Nat
    BY DEF IndInv, Below
  <2>2. QED
    BY <1>3, <2>1 DEF Written
<1>11. Plain'
  BY <1>4, <1>8, <1>9, <1>10 DEF Plain
<1>12. QED
  BY <1>7, <1>11 DEF RingInv

\* The published frames.
Frames(v, g, u, r, t, z, P, N, F) ==
  /\ Indexed(u, r, t, z, P, N) /\ Rising(u, t, z, P, N) /\ Joined(u, r, t, z, P, N)
  /\ LowEnough(u, t, P) /\ Content(v, u, r, t, z, P, N, F) /\ Counted(g, u, r, t, F)

\* A frame of n units is written at P[t].
Fits(v, g, u, t, z, P, n, l) ==
  /\ n > Ovh /\ P[t] >= 1 /\ P[t] + n < BufSize /\ (l => z < u) /\ LowStart(P[t])
  /\ v[P[t]] = TxInfo(g, n, l, FALSE) /\ Whole(v, P[t], n, g)

\* The published frames with this one.
More(v, g2, u, r, t, z, P, N, F, n, l, t2) ==
  \E z2, P2, N2, F2 :
    /\ Frames(v, g2, u, r, t2, z2, P2, N2, F2)
    /\ z2 = (IF l THEN t ELSE z) /\ P2[t2] = (IF l THEN 1 ELSE P[t] + n)
    /\ \A i \in Nat : i <= t => P2[i] = P[i]
    /\ \A i \in Nat : i < t => N2[i] = N[i]
    /\ \A i \in Nat : i < t => F2[i] = F[i]

\* One frame more.
LEMMA OneMore ==
  ASSUME NEW v, NEW g \in Nat, NEW u, NEW r, NEW t, NEW z, NEW P, NEW N, NEW F, NEW n \in Nat, NEW l \in BOOLEAN,
         NEW t2, NEW g2, Typed, Frames(v, g, u, r, t, z, P, N, F), Fits(v, g, u, t, z, P, n, l),
         t2 = t + 1, g2 = g + 1
  PROVE  More(v, g2, u, r, t, z, P, N, F, n, l, t2)
<1>1. /\ Indexed(u, r, t, z, P, N) /\ Rising(u, t, z, P, N) /\ Joined(u, r, t, z, P, N)
      /\ LowEnough(u, t, P) /\ Content(v, u, r, t, z, P, N, F) /\ Counted(g, u, r, t, F)
  BY DEF Frames
<1>2. /\ u \in Nat /\ r \in Nat /\ t \in Nat /\ u <= r /\ r <= t /\ P \in [Nat -> Nat] /\ N \in [Nat -> Nat]
  BY <1>1 DEF Indexed
<1>3. F \in [Nat -> Nat]
  BY <1>1 DEF Counted
<1>4. PICK z2, P2, N2, F2 :
        /\ z2 = (IF l THEN t ELSE z) /\ P2 = [P EXCEPT ![t + 1] = IF l THEN 1 ELSE P[t] + n]
        /\ N2 = [N EXCEPT ![t] = n] /\ F2 = [F EXCEPT ![t] = g]
  OBVIOUS
<1>5. Extended(t, n, l, z, P, N, t2, z2, P2, N2)
  BY <1>4 DEF Extended
<1>6. P2[t2] = (IF l THEN 1 ELSE P[t] + n) /\ \A i \in Nat : i <= t => P2[i] = P[i]
  BY <1>2, <1>4
<1>7. \A i \in Nat : i < t => N2[i] = N[i]
  BY <1>2, <1>4
<1>8. Counted(g2, u, r, t2, F2) /\ \A i \in Nat : i < t => F2[i] = F[i]
  <2>1. F2 = [F EXCEPT ![t] = g]
    BY <1>4
  <2>2. Counted(g, u, r, t, F)
    BY <1>1
  <2>3. Counted(g2, u, r, t2, F2)
    BY <1>2, <2>1, <2>2, LongerNumbers
  <2>4. \A i \in Nat : i < t => F2[i] = F[i]
    BY <1>2, <1>3, <2>1
  <2>5. QED
    BY <2>3, <2>4
<1>9. /\ n > Ovh /\ P[t] >= 1 /\ P[t] + n < BufSize /\ (l => z < u) /\ LowStart(P[t])
      /\ v[P[t]] = TxInfo(g, n, l, FALSE) /\ Whole(v, P[t], n, g)
  BY DEF Fits
<1>10. /\ Indexed(u, r, t2, z2, P2, N2) /\ Rising(u, t2, z2, P2, N2)
       /\ Joined(u, r, t2, z2, P2, N2) /\ LowEnough(u, t2, P2)
  BY <1>1, <1>5, <1>9, Longer
<1>11. Content(v, u, r, t2, z2, P2, N2, F2)
  <2>1. F2 = [F EXCEPT ![t] = g]
    BY <1>4
  <2>2. QED
    BY <1>1, <1>3, <1>5, <1>9, <2>1, LongerContent
<1>12. Frames(v, g2, u, r, t2, z2, P2, N2, F2)
  BY <1>8, <1>10, <1>11 DEF Frames
<1>13. z2 = (IF l THEN t ELSE z)
  BY <1>4
<1>14. QED
  BY <1>6, <1>7, <1>8, <1>12, <1>13 DEF More

\* What the ring holds of a block that is written whole.
BlockIn(v, l) ==
  /\ w.kind # "frag" => /\ v[CurWritePosition] = TxInfo(next, w.Priv, l, FALSE)
                        /\ Whole(v, CurWritePosition, w.Priv, next)
  /\ w.kind = "frag" => /\ v[CurWritePosition] = TxInfo(next - 1, Ovh + w.parts[1], FALSE, FALSE)
                        /\ Whole(v, CurWritePosition, Ovh + w.parts[1], next - 1)
                        /\ v[CurWritePosition + (Ovh + w.parts[1])] = TxInfo(next, Ovh + w.parts[2], l, FALSE)
                        /\ Whole(v, CurWritePosition + (Ovh + w.parts[1]), Ovh + w.parts[2], next)

\* The published frames with those of the block.
Published(v, u, r, t, z, P, N, F, l) ==
  \E t2 \in Nat : \E z2, P2, N2, F2 :
    /\ Frames(v, next + 1, u, r, t2, z2, P2, N2, F2) /\ t < t2 /\ z2 \in Nat
    /\ z2 = z \/ (z < u /\ u < r /\ t <= z2 /\ l)
    /\ z2 = z => ~l
    /\ P2[t2] = (IF l THEN 1 ELSE CurWritePosition + w.Priv)
    /\ \A i \in Nat : i <= t => P2[i] = P[i]
    /\ \A i \in Nat : i < t => N2[i] = N[i]
    /\ SameBelow(t, F, F2)

\* The frames of a block that is written whole.
LEMMA BlockFrames ==
  ASSUME NEW u, NEW r, NEW t, NEW z, NEW P, NEW N, NEW F, NEW v, Plain, pc["W"] = "fin",
         Frames(v, Free, u, r, t, z, P, N, F), Positions(u, r, t, z, P, N), Behind(u, r, z),
         NEW l \in BOOLEAN, l <=> LastRound(CurWritePosition, w.Priv),
         BlockIn(v, l)
  PROVE  Published(v, u, r, t, z, P, N, F, l)
<1>1. Indexed(u, r, t, z, P, N)
  BY DEF Frames
<1>2. /\ u \in Nat /\ r \in Nat /\ t \in Nat /\ z \in Nat /\ u <= r /\ r <= t /\ P \in [Nat -> Nat] /\ N \in [Nat -> Nat]
      /\ z < t
  BY <1>1 DEF Indexed
<1>3. Typed
  BY DEF Plain
<1>4. P[t] = CurWritePosition /\ P[t] \in Nat /\ P[t] >= 1
  <2>1. P[t] = CurWritePosition /\ P[t] \in Nat
    BY <1>2 DEF Positions
  <2>2. P[t] # 0
    BY DEF Positions, Writing
  <2>3. QED
    BY <2>1, <2>2
<1>5. l => z < u /\ u < r
  BY <1>2, FinRound
<1>6. /\ w.Priv = Room(w) /\ Room(w) \in Nat /\ CurWritePosition + Room(w) < BufSize
      /\ next \in Nat /\ next >= 1 /\ w.parts[1] \in Nat /\ w.parts[1] > 0 /\ w.kind \in {"single", "frag", "multi"}
      /\ w.kind = "single" => w.i = 1 /\ Room(w) = Ovh + w.parts[1]
      /\ w.kind # "single" => w.i = 2 /\ w.parts[2] \in Nat /\ w.parts[2] > 0
      /\ w.kind = "frag" => Room(w) = Ovh + Ovh + w.parts[1] + w.parts[2]
      /\ w.kind = "multi" => Room(w) = Ovh + w.parts[1] + w.parts[2]
  BY FinPlace
<1>7. Free = IF w.kind = "frag" THEN next - 1 ELSE next
  BY <1>6 DEF Free, Second, Writing
<1>8. CASE w.kind # "frag"
  <2>1. PICK n, g, t2, g2 : n = w.Priv /\ g = next /\ t2 = t + 1 /\ g2 = next + 1
    OBVIOUS
  <2>2. n \in Nat /\ n > Ovh /\ P[t] + n < BufSize
    <3>1. PICK p1, p2 : p1 = w.parts[1] /\ p2 = w.parts[2]
      OBVIOUS
    <3>2. p1 \in Nat /\ p1 > 0 /\ (n = Ovh + p1 \/ (p2 \in Nat /\ p2 > 0 /\ n = Ovh + p1 + p2))
      BY <1>6, <1>8, <2>1, <3>1
    <3>3. n \in Nat /\ n > Ovh
      BY <3>2, Constants
    <3>4. QED
      BY <1>4, <1>6, <2>1, <3>3
  <2>3. LowStart(P[t])
    BY <1>4, FinLow DEF LowStart
  <2>4. Frames(v, g, u, r, t, z, P, N, F)
    BY <1>7, <1>8, <2>1
  <2>5. v[P[t]] = TxInfo(g, n, l, FALSE) /\ Whole(v, P[t], n, g)
    BY <1>4, <1>8, <2>1 DEF BlockIn
  <2>6. g \in Nat /\ t2 = t + 1 /\ g2 = g + 1 /\ (l => z < u)
    BY <1>5, <1>6, <2>1
  <2>11. Fits(v, g, u, t, z, P, n, l)
    BY <1>4, <2>2, <2>3, <2>5, <2>6 DEF Fits
  <2>12. More(v, g2, u, r, t, z, P, N, F, n, l, t2)
    BY <1>3, <2>2, <2>4, <2>6, <2>11, OneMore
  <2>7. PICK z2, P2, N2, F2 :
           /\ Frames(v, g2, u, r, t2, z2, P2, N2, F2)
           /\ z2 = (IF l THEN t ELSE z) /\ P2[t2] = (IF l THEN 1 ELSE P[t] + n)
           /\ \A i \in Nat : i <= t => P2[i] = P[i]
           /\ \A i \in Nat : i < t => N2[i] = N[i]
           /\ \A i \in Nat : i < t => F2[i] = F[i]
    BY <2>12 DEF More
  <2>8. Frames(v, next + 1, u, r, t2, z2, P2, N2, F2) /\ P2[t2] = (IF l THEN 1 ELSE CurWritePosition + w.Priv)
    BY <1>4, <2>1, <2>7
  <2>9. t2 \in Nat /\ t < t2 /\ z2 \in Nat /\ (z2 = z \/ (z < u /\ u < r /\ t <= z2 /\ l)) /\ (z2 = z => ~l)
    BY <1>2, <1>5, <2>1, <2>7
  <2>10. QED
    BY <2>7, <2>8, <2>9 DEF Published, SameBelow
<1>9. CASE w.kind = "frag"
  <2>1. PICK n, m, g, t1, t2, g1, g2, l1 :
          /\ n = Ovh + w.parts[1] /\ m = Ovh + w.parts[2] /\ g = next - 1 /\ g1 = next /\ g2 = next + 1
          /\ t1 = t + 1 /\ t2 = t + 2 /\ l1 = FALSE
    OBVIOUS
  <2>2. n \in Nat /\ n > Ovh /\ m \in Nat /\ m > Ovh /\ w.Priv = n + m /\ P[t] + (n + m) < BufSize
    <3>1. PICK p1, p2 : p1 = w.parts[1] /\ p2 = w.parts[2]
      OBVIOUS
    <3>2. p1 \in Nat /\ p1 > 0 /\ p2 \in Nat /\ p2 > 0 /\ w.Priv = Ovh + Ovh + p1 + p2 /\ n = Ovh + p1 /\ m = Ovh + p2
      BY <1>6, <1>9, <2>1, <3>1
    <3>3. n \in Nat /\ n > Ovh /\ m \in Nat /\ m > Ovh /\ Ovh + Ovh + p1 + p2 = n + m
      BY <3>2, Constants
    <3>4. w.Priv = n + m
      BY <3>2, <3>3
    <3>5. QED
      BY <1>4, <1>6, <3>3, <3>4
  <2>3. P[t] + n < BufSize /\ P[t] + n + m < BufSize /\ P[t] + n \in Nat /\ P[t] + n >= 1
    BY <1>4, <2>2, Constants, BufferSize
  <2>4. LowStart(P[t]) /\ LowStart(P[t] + n)
    <3>1. LowStart(P[t])
      BY <1>4, FinLow DEF LowStart
    <3>2. LowStart(P[t] + n)
      BY <1>4, <1>9, <2>1, FinLow DEF LowStart
    <3>3. QED
      BY <3>1, <3>2
  <2>5. Frames(v, g, u, r, t, z, P, N, F)
    BY <1>7, <1>9, <2>1
  <2>6. /\ v[P[t]] = TxInfo(g, n, l1, FALSE) /\ Whole(v, P[t], n, g)
        /\ v[P[t] + n] = TxInfo(g1, m, l, FALSE) /\ Whole(v, P[t] + n, m, g1)
    BY <1>4, <1>9, <2>1 DEF BlockIn
  <2>7. /\ g \in Nat /\ g1 = g + 1 /\ g1 \in Nat /\ g2 = g1 + 1 /\ t2 = t1 + 1 /\ t1 \in Nat /\ t2 \in Nat
        /\ t1 = t + 1 /\ t2 = t + 2
    BY <1>2, <1>6, <2>1
  <2>8. l1 \in BOOLEAN /\ (l1 => z < u) /\ ~l1
    BY <2>1
  <2>9. More(v, g1, u, r, t, z, P, N, F, n, l1, t1)
    <3>1. Fits(v, g, u, t, z, P, n, l1)
      BY <1>4, <2>2, <2>3, <2>4, <2>6, <2>8 DEF Fits
    <3>2. QED
      BY <1>3, <2>2, <2>5, <2>7, <2>8, <3>1, OneMore
  <2>10. PICK z1, P1, N1, F1 :
           /\ Frames(v, g1, u, r, t1, z1, P1, N1, F1)
           /\ z1 = (IF l1 THEN t ELSE z) /\ P1[t1] = (IF l1 THEN 1 ELSE P[t] + n)
           /\ \A i \in Nat : i <= t => P1[i] = P[i]
           /\ \A i \in Nat : i < t => N1[i] = N[i]
           /\ \A i \in Nat : i < t => F1[i] = F[i]
    BY <2>9 DEF More
  <2>11. z1 = z /\ P1[t1] = P[t] + n
    BY <2>8, <2>10
  <2>12. More(v, g2, u, r, t1, z1, P1, N1, F1, m, l, t2)
    <3>1. /\ m \in Nat /\ m > Ovh /\ P1[t1] + m < BufSize /\ P1[t1] >= 1
      BY <2>2, <2>3, <2>11
    <3>2. v[P1[t1]] = TxInfo(g1, m, l, FALSE) /\ Whole(v, P1[t1], m, g1)
      BY <2>6, <2>11
    <3>3. LowStart(P1[t1])
      BY <2>4, <2>11
    <3>4. Frames(v, g1, u, r, t1, z1, P1, N1, F1) /\ (l => z1 < u)
      BY <1>5, <2>10, <2>11
    <3>5. Fits(v, g1, u, t1, z1, P1, m, l)
      BY <3>1, <3>2, <3>3, <3>4 DEF Fits
    <3>6. QED
      BY <1>3, <2>7, <3>1, <3>4, <3>5, OneMore
  <2>13. PICK z2, P2, N2, F2 :
           /\ Frames(v, g2, u, r, t2, z2, P2, N2, F2)
           /\ z2 = (IF l THEN t1 ELSE z1) /\ P2[t2] = (IF l THEN 1 ELSE P1[t1] + m)
           /\ \A i \in Nat : i <= t1 => P2[i] = P1[i]
           /\ \A i \in Nat : i < t1 => N2[i] = N1[i]
           /\ \A i \in Nat : i < t1 => F2[i] = F1[i]
    BY <2>12 DEF More
  <2>14. P2[t2] = (IF l THEN 1 ELSE CurWritePosition + w.Priv)
    <3>1. P[t] + n + m = CurWritePosition + w.Priv
      BY <1>4, <2>2
    <3>2. QED
      BY <2>11, <2>13, <3>1
  <2>15. /\ \A i \in Nat : i <= t => P2[i] = P[i]
         /\ \A i \in Nat : i < t => N2[i] = N[i]
         /\ \A i \in Nat : i < t => F2[i] = F[i]
    <3>1. \A i \in Nat : (i <= t => i <= t1) /\ (i < t => i < t1)
      BY <1>2, <2>1
    <3>2. QED
      BY <2>10, <2>13, <3>1
  <2>16. t < t2 /\ z2 \in Nat /\ (z2 = z \/ (z < u /\ u < r /\ t <= z2 /\ l)) /\ (z2 = z => ~l)
    BY <1>2, <1>5, <2>1, <2>7, <2>11, <2>13
  <2>17. Frames(v, next + 1, u, r, t2, z2, P2, N2, F2)
    BY <2>1, <2>13
  <2>18. QED
    BY <2>7, <2>14, <2>15, <2>16, <2>17 DEF Published, SameBelow
<1>10. QED
  BY <1>8, <1>9

\* The end of PublishWrite and of FinalWriteTxResource.
LEMMA BlockPublished ==
  ASSUME NEW u, NEW r, NEW t, NEW z, NEW P, NEW N, NEW F, Plain, Layout(u, r, t, z, P, N, F),
         pc["W"] = "fin", pc'["W"] = "kick", NEW l \in BOOLEAN, l <=> LastRound(CurWritePosition, w.Priv),
         Content(View', u, r, t, z, P, N, F), BlockIn(View', l), IndInv', Typed',
         CurWritePosition' = IF l THEN 1 ELSE CurWritePosition + w.Priv,
         CurWriteRealPos' = CurWritePosition', bCurWriting' = FALSE, next' = next + 1,
         UNCHANGED <<NextBulkOutPosition, ENextBulkOutPosition, bCopySavePad, BulkOutSize>>,
         UNCHANGED <<sent, dropped, rd, urb, resetCmds, BulkOutPending, bulkOutReset, bForcePrintTX>>
  PROVE  RingInv'
<1>1. /\ Indexed(u, r, t, z, P, N) /\ Rising(u, t, z, P, N) /\ Joined(u, r, t, z, P, N)
      /\ LowEnough(u, t, P) /\ Positions(u, r, t, z, P, N) /\ Behind(u, r, z)
      /\ Parked(u, r, t, z, P, N) /\ Numbered(u, r, t, F) /\ SentSoFar(u, r, t, F)
  BY DEF Layout
<1>2. Counted(Free, u, r, t, F)
  BY <1>1, OfNumbered
<1>3. PICK v : v = View'
  OBVIOUS
<1>4. Frames(v, Free, u, r, t, z, P, N, F)
  BY <1>1, <1>2, <1>3 DEF Frames
<1>5. BlockIn(v, l)
  BY <1>3
<1>6. Published(v, u, r, t, z, P, N, F, l)
  BY <1>1, <1>4, <1>5, BlockFrames
<1>7. PICK t2 \in Nat : \E z2, P2, N2, F2 :
           /\ Frames(v, next + 1, u, r, t2, z2, P2, N2, F2) /\ t < t2 /\ z2 \in Nat
           /\ z2 = z \/ (z < u /\ u < r /\ t <= z2 /\ l)
           /\ z2 = z => ~l
           /\ P2[t2] = (IF l THEN 1 ELSE CurWritePosition + w.Priv)
           /\ \A i \in Nat : i <= t => P2[i] = P[i]
           /\ \A i \in Nat : i < t => N2[i] = N[i]
           /\ SameBelow(t, F, F2)
  BY <1>6 DEF Published
<1>8. PICK z2, P2, N2, F2 :
           /\ Frames(v, next + 1, u, r, t2, z2, P2, N2, F2) /\ t < t2 /\ z2 \in Nat
           /\ z2 = z \/ (z < u /\ u < r /\ t <= z2 /\ l)
           /\ z2 = z => ~l
           /\ P2[t2] = (IF l THEN 1 ELSE CurWritePosition + w.Priv)
           /\ \A i \in Nat : i <= t => P2[i] = P[i]
           /\ \A i \in Nat : i < t => N2[i] = N[i]
           /\ SameBelow(t, F, F2)
  BY <1>7, Zenon
<1>9. /\ Indexed(u, r, t2, z2, P2, N2) /\ Rising(u, t2, z2, P2, N2) /\ Joined(u, r, t2, z2, P2, N2)
      /\ LowEnough(u, t2, P2) /\ Content(v, u, r, t2, z2, P2, N2, F2) /\ Counted(next + 1, u, r, t2, F2)
  BY <1>8 DEF Frames
<1>10. Writing /\ ~Writing' /\ ~Second'
  BY DEF Writing, Second
<1>11. Free' = next + 1
  BY <1>10 DEF Free
<1>12. w.Priv = Room(w) /\ Room(w) \in Nat /\ CurWritePosition \in Nat
  BY FinPlace
<1>13. CurWritePosition >= 1
  <2>1. P[t] = CurWritePosition /\ P[t] # 0
    BY <1>1, <1>10 DEF Positions
  <2>2. QED
    BY <1>12, <2>1
<1>14. CurWritePosition' = P2[t2] /\ CurWritePosition' \in Nat /\ CurWritePosition' >= 1
  BY <1>8, <1>12, <1>13
<1>15. z2 = z => CurWritePosition' <= CurWritePosition + Room(w)
  BY <1>8, <1>12
<1>16. z2 = z \/ (z < u /\ u < r /\ t <= z2 /\ CurWritePosition' = 1)
  BY <1>8
<1>17. Positions(u, r, t2, z2, P2, N2)' /\ Behind(u, r, z2)' /\ Parked(u, r, t2, z2, P2, N2)'
  <2>1. /\ t2 \in Nat /\ t < t2 /\ z2 \in Nat /\ \A i \in Nat : i <= t => P2[i] = P[i]
        /\ \A i \in Nat : i < t => N2[i] = N[i]
    BY <1>8
  <2>2. QED
    BY <1>1, <1>10, <1>12, <1>14, <1>15, <1>16, <2>1, LongerPlace
<1>18. Counted(Free', u, r, t2, F2) /\ Content(View', u, r, t2, z2, P2, N2, F2)
  BY <1>3, <1>9, <1>11
<1>19. SameBelow(t, F, F2)
  BY <1>8
<1>20. QED
  BY <1>9, <1>17, <1>18, <1>19, Finished

\* PublishWrite.
LEMMA PublishKept ==
  ASSUME RingInv, PublishWrite
  PROVE  RingInv'
<1>1. PICK u \in Nat, r \in Nat, t \in Nat, z \in Nat, P \in [Nat -> Nat], N \in [Nat -> Nat],
           F \in [Nat -> Nat] : Layout(u, r, t, z, P, N, F)
  BY DEF RingInv, Laid
<1>2. Plain /\ IndInv /\ IndInv' /\ Typed /\ Written /\ Current(View)
  BY PublishStep DEF RingInv, Plain
<1>3. /\ pc["W"] = "fin" /\ w.kind # "multi" /\ pc' = [pc EXCEPT !["W"] = "kick"]
      /\ CurWritePosition' = IF w.last THEN 1 ELSE CurWritePosition + w.Priv
      /\ CurWriteRealPos' = CurWritePosition' /\ bCurWriting' = FALSE /\ next' = next + 1
      /\ UNCHANGED <<buf, NextBulkOutPosition, ENextBulkOutPosition, bCopySavePad, SavedPad, flags,
                     BulkOutSize, w, rd, urb, resetCmds, sent, dropped>>
  BY DEF PublishWrite
<1>4. UNCHANGED <<BulkOutPending, dataFlag, bulkOutReset, bForcePrintTX>>
  BY <1>3 DEF flags
<1>5. w \in Blocks /\ pc \in [Contexts -> Labels]
  BY <1>2 DEF IndInv, Block
<1>6. w.last \in BOOLEAN /\ pc'["W"] = "kick" /\ Writing
  BY <1>3, <1>5 DEF Blocks, Contexts, Writing
<1>7. /\ next \in Nat /\ next >= 1 /\ next <= MaxFrames /\ MaxFrames \in Nat
      /\ w.Priv = Room(w) /\ w.kind \in {"single", "frag", "multi"} /\ w.parts[1] \in Nat /\ CurWritePosition \in Nat
      /\ w.kind = "single" => w.i = 1 /\ Len(w.parts) = 1 /\ Room(w) = Ovh + w.parts[1]
      /\ w.kind # "single" => w.i = 2 /\ Len(w.parts) = 2
  BY <1>2, <1>3, FinPlace
<1>8. w.last <=> LastRound(CurWritePosition, w.Priv)
  <2>1. w.last <=> w.i = Len(w.parts) /\ LastRound(CurWritePosition, w.Priv)
    BY <1>2, <1>3, <1>6 DEF Written
  <2>2. w.i = Len(w.parts)
    BY <1>3, <1>7
  <2>3. QED
    BY <2>1, <2>2
<1>9. View' = View
  BY <1>3 DEF View
<1>10. Content(View', u, r, t, z, P, N, F)
  <2>1. Content(View, u, r, t, z, P, N, F)
    BY <1>1 DEF Layout
  <2>2. QED
    BY <1>9, <2>1
<1>11. BlockIn(View', w.last)
  <2>1. /\ View[Base] = TxInfo(next, Ovh + w.parts[w.i], w.last, FALSE)
        /\ Whole(View, Base, Ovh + w.parts[w.i], next)
    BY <1>2, <1>3, <1>6 DEF Current
  <2>2. CASE w.kind = "single"
    <3>1. ~Second /\ w.Priv = Ovh + w.parts[w.i]
      BY <1>7, <2>2 DEF Second
    <3>2. Base = CurWritePosition
      BY <3>1 DEF Base
    <3>3. View'[CurWritePosition] = TxInfo(next, w.Priv, w.last, FALSE) /\ Whole(View', CurWritePosition, w.Priv, next)
      BY <1>9, <2>1, <3>1, <3>2
    <3>4. QED
      BY <2>2, <3>3 DEF BlockIn
  <2>3. CASE w.kind = "frag"
    <3>1. Second
      BY <1>6, <1>7, <2>3 DEF Second
    <3>2. Base = CurWritePosition + (Ovh + w.parts[1])
      <4>1. Base = CurWritePosition + Ovh + w.parts[1]
        BY <3>1 DEF Base
      <4>2. CurWritePosition + Ovh + w.parts[1] = CurWritePosition + (Ovh + w.parts[1])
        BY <1>7, Constants
      <4>3. QED
        BY <4>1, <4>2
    <3>3. /\ View[CurWritePosition] = TxInfo(next - 1, Ovh + w.parts[1], FALSE, FALSE)
          /\ Whole(View, CurWritePosition, Ovh + w.parts[1], next - 1)
      BY <1>2, <3>1 DEF Current
    <3>4. w.parts[w.i] = w.parts[2]
      BY <1>7, <2>3
    <3>5. /\ View'[CurWritePosition + (Ovh + w.parts[1])] = TxInfo(next, Ovh + w.parts[2], w.last, FALSE)
          /\ Whole(View', CurWritePosition + (Ovh + w.parts[1]), Ovh + w.parts[2], next)
      BY <1>9, <2>1, <3>2, <3>4
    <3>6. /\ View'[CurWritePosition] = TxInfo(next - 1, Ovh + w.parts[1], FALSE, FALSE)
          /\ Whole(View', CurWritePosition, Ovh + w.parts[1], next - 1)
      BY <1>9, <3>3
    <3>7. QED
      BY <2>3, <3>5, <3>6 DEF BlockIn
  <2>4. QED
    BY <1>3, <1>7, <2>2, <2>3
<1>12. Typed'
  <2>1. next' \in 1..(MaxFrames + 1)
    BY <1>3, <1>7
  <2>2. /\ SavedPad' \in Cells /\ BulkOutSize' \in 0..BufSize /\ NextBulkOutPosition' \in Pos
        /\ rd' \in [pc : {"idle", "claimed", "empty", "built"}, by : Contexts]
        /\ urb' \in {"none", "flying", "done", "failed"} /\ resetCmds' \in Nat
        /\ sent' \in Seq([f : Nat, ok : BOOLEAN, cnt : BOOLEAN]) /\ buf' \in [Pos -> Cells]
    BY <1>2, <1>3 DEF Typed
  <2>3. {bCurWriting', bCopySavePad', BulkOutPending', dataFlag', bulkOutReset', bForcePrintTX'} \subseteq BOOLEAN
    BY <1>2, <1>3, <1>4 DEF Typed
  <2>4. QED
    BY <2>1, <2>2, <2>3 DEF Typed
<1>13. PICK l : l = w.last
  OBVIOUS
<1>14. /\ l \in BOOLEAN /\ (l <=> LastRound(CurWritePosition, w.Priv)) /\ BlockIn(View', l)
       /\ CurWritePosition' = IF l THEN 1 ELSE CurWritePosition + w.Priv
  BY <1>3, <1>6, <1>8, <1>11, <1>13
<1>15. QED
  BY <1>1, <1>2, <1>3, <1>4, <1>6, <1>10, <1>12, <1>14, BlockPublished

\* What FinalWriteTxResource does to the header of an A-MSDU.
Fixed(h, n, l) == [h EXCEPT !.len = n, !.last = @ \/ l]

\* What FinalWriteTxResource does to the ring.
LEMMA FinalDoes ==
  ASSUME FinalWriteTxResource
  PROVE  /\ pc["W"] = "fin" /\ w.kind = "multi" /\ pc' = [pc EXCEPT !["W"] = "kick"]
         /\ CurWritePosition' = IF LastRound(CurWritePosition, w.Priv) THEN 1 ELSE CurWritePosition + w.Priv
         /\ CurWriteRealPos' = CurWritePosition' /\ bCurWriting' = FALSE /\ next' = next + 1
         /\ UNCHANGED <<NextBulkOutPosition, ENextBulkOutPosition, bCopySavePad, flags,
                        BulkOutSize, w, rd, urb, resetCmds, sent, dropped>>
BY DEF FinalWriteTxResource

\* The cells it writes.
LEMMA FinalCells ==
  ASSUME FinalWriteTxResource, buf \in [Pos -> Cells], NEW cw, cw = CurWritePosition, cw \in Nat,
         NEW n, n = w.Priv, n \in Nat, NEW l, l = LastRound(CurWritePosition, w.Priv), n > 1, cw + n < BufSize
  PROVE  /\ HeaderParked => SavedPad' = Fixed(SavedPad, n, l)
         /\ ~HeaderParked => SavedPad' = SavedPad
         /\ buf' = [q \in Pos |-> IF q = cw + n THEN Zero
                                  ELSE IF ~HeaderParked /\ q = cw THEN Fixed(buf[q], n, l)
                                  ELSE IF ~HeaderParked /\ q = cw + 1 THEN [buf[q] EXCEPT !.len = Sum(w.parts)]
                                  ELSE buf[q]]
<1>1. (HeaderParked => SavedPad' = Fixed(SavedPad, n, l)) /\ (~HeaderParked => SavedPad' = SavedPad)
  BY DEF FinalWriteTxResource, Fixed
<1>2. cw + n \in Pos /\ cw \in Pos /\ cw + 1 \in Pos /\ cw # cw + 1
  BY BufferSize
<1>3. (cw + n)..(cw + n + 1 - 1) = {cw + n}
  OBVIOUS
<1>4. CASE HeaderParked
  <2>1. buf' = [q \in Pos |-> IF q \in (cw + n)..(cw + n + 1 - 1) THEN Zero ELSE buf[q]]
    BY <1>4 DEF FinalWriteTxResource, Put
  <2>2. QED
    BY <1>1, <1>3, <1>4, <2>1
<1>5. CASE ~HeaderParked
  <2> DEFINE b1 == [buf EXCEPT ![cw] = Fixed(buf[cw], n, l), ![cw + 1].len = Sum(w.parts)]
  <2>1. buf' = [q \in Pos |-> IF q \in (cw + n)..(cw + n + 1 - 1) THEN Zero ELSE b1[q]]
    BY <1>5 DEF FinalWriteTxResource, Put, Fixed
  <2>2. \A q \in Pos : b1[q] = IF q = cw THEN Fixed(buf[q], n, l)
                               ELSE IF q = cw + 1 THEN [buf[q] EXCEPT !.len = Sum(w.parts)] ELSE buf[q]
    BY <1>2
  <2> HIDE DEF b1
  <2>3. QED
    BY <1>1, <1>3, <1>5, <2>1, <2>2
<1>6. QED
  BY <1>4, <1>5

\* The header is parked where it is, or it is in the ring.
LEMMA FinalView ==
  ASSUME NEW u, NEW r, NEW t, NEW z, NEW P, NEW N, Plain, FinalWriteTxResource,
         Indexed(u, r, t, z, P, N), Rising(u, t, z, P, N), Positions(u, r, t, z, P, N), Behind(u, r, z),
         NEW cw, cw = CurWritePosition, NEW n, n = w.Priv, NEW l, l = LastRound(CurWritePosition, w.Priv)
  PROVE  /\ buf' \in [Pos -> Cells] /\ SavedPad' \in Cells
         /\ View'[cw] = Fixed(View[cw], n, l)
         /\ \A q \in Pos : q < cw \/ cw + n < q => View'[q] = View[q]
         /\ \A q \in Pos : cw < q /\ q < cw + n =>
              View'[q].f = View[q].f /\ View'[q].k = View[q].k /\ View'[q].last = View[q].last
<1>1. Typed /\ buf \in [Pos -> Cells] /\ SavedPad \in Cells
  BY DEF Plain, Typed
<1>2. /\ pc["W"] = "fin" /\ w.kind = "multi" /\ bCopySavePad' = bCopySavePad
      /\ ENextBulkOutPosition' = ENextBulkOutPosition
  BY FinalDoes
<1>3. /\ w.Priv = Room(w) /\ Room(w) \in Nat /\ CurWritePosition \in Nat
      /\ CurWritePosition + Room(w) < BufSize /\ Room(w) = Ovh + w.parts[1] + w.parts[2]
      /\ w.parts[1] \in Nat /\ w.parts[1] > 0 /\ w.parts[2] \in Nat /\ w.parts[2] > 0 /\ Len(w.parts) = 2
  BY <1>2, FinPlace
<1>4. cw \in Nat /\ n \in Nat /\ n > 1 /\ cw + n < BufSize /\ Sum(w.parts) \in 0..BufSize
  <2>1. PICK p1, p2 : p1 = w.parts[1] /\ p2 = w.parts[2]
    OBVIOUS
  <2>2. p1 \in Nat /\ p1 > 0 /\ p2 \in Nat /\ n \in Nat /\ n = Ovh + p1 + p2 /\ cw \in Nat /\ cw + n < BufSize
    BY <1>3, <2>1
  <2>3. n > 1 /\ p1 + p2 \in 0..BufSize
    BY <2>2, Constants, BufferSize
  <2>4. Sum(w.parts) = p1 + p2
    BY <1>3, <2>1 DEF Sum
  <2>5. QED
    BY <2>2, <2>3, <2>4
<1>5. l \in BOOLEAN
  BY DEF LastRound
<1>6. /\ HeaderParked => SavedPad' = Fixed(SavedPad, n, l)
      /\ ~HeaderParked => SavedPad' = SavedPad
      /\ buf' = [q \in Pos |-> IF q = cw + n THEN Zero
                               ELSE IF ~HeaderParked /\ q = cw THEN Fixed(buf[q], n, l)
                               ELSE IF ~HeaderParked /\ q = cw + 1 THEN [buf[q] EXCEPT !.len = Sum(w.parts)]
                               ELSE buf[q]]
  BY <1>1, <1>4, FinalCells
<1>7. ASSUME NEW c \in Cells
      PROVE  /\ Fixed(c, n, l) \in Cells /\ [c EXCEPT !.len = Sum(w.parts)] \in Cells
             /\ [c EXCEPT !.len = Sum(w.parts)].f = c.f /\ [c EXCEPT !.len = Sum(w.parts)].k = c.k
             /\ [c EXCEPT !.len = Sum(w.parts)].last = c.last
  <2>1. n \in 0..BufSize
    BY <1>4, BufferSize
  <2>2. c.last \/ l \in BOOLEAN
    BY <1>5, <1>7 DEF Cells
  <2>3. Fixed(c, n, l) \in Cells
    BY <1>7, <2>1, <2>2 DEF Fixed, Cells
  <2>4. QED
    BY <1>4, <1>7, <2>3 DEF Cells
<1>8. Zero \in Cells
  <2>1. 0 \in 0..MaxFrames /\ 0 \in 0..BufSize
    BY BufferSize, TxRingAssumption
  <2>2. QED
    BY <2>1 DEF Zero, Cells
<1>9. buf' \in [Pos -> Cells] /\ SavedPad' \in Cells
  BY <1>1, <1>6, <1>7, <1>8
<1>10. ENextBulkOutPosition \in Nat /\ (ENextBulkOutPosition < cw + 1 \/ cw + n < ENextBulkOutPosition)
  <2>1. Writing
    BY <1>2 DEF Writing
  <2>2. PICK lo, hi : lo = cw + 1 /\ hi = cw + n
    OBVIOUS
  <2>3. lo \in Nat /\ hi \in Nat /\ CurWritePosition < lo /\ hi <= CurWritePosition + Room(w) /\ Room(w) \in Nat
    BY <1>3, <1>4, <2>2
  <2>4. ENextBulkOutPosition \in Nat /\ (ENextBulkOutPosition < lo \/ hi < ENextBulkOutPosition)
    BY <2>1, <2>3, WriterSpares
  <2>5. QED
    BY <2>2, <2>4
<1>11. HeaderParked <=> bCopySavePad /\ ENextBulkOutPosition = cw
  <2>1. ENextBulkOutPosition - 1 # cw
    BY <1>4, <1>10
  <2>2. QED
    BY <2>1 DEF HeaderParked
<1>12. \A q \in Pos : View[q] = IF bCopySavePad /\ q = ENextBulkOutPosition THEN SavedPad ELSE buf[q]
  BY <1>1, ViewCell DEF View
<1>13. \A q \in Pos : View'[q] = IF bCopySavePad /\ q = ENextBulkOutPosition THEN SavedPad' ELSE buf'[q]
  <2>1. \A q \in Pos : View'[q] = IF bCopySavePad' /\ q = ENextBulkOutPosition' THEN SavedPad' ELSE buf'[q]
    BY <1>9, ViewCell DEF View
  <2>2. QED
    BY <1>2, <2>1
<1>14. cw \in Pos /\ cw # cw + n /\ cw # cw + 1
  BY <1>4, BufferSize
<1>15. View'[cw] = Fixed(View[cw], n, l)
  <2>1. CASE HeaderParked
    BY <1>6, <1>11, <1>12, <1>13, <1>14, <2>1
  <2>2. CASE ~HeaderParked
    <3>1. buf'[cw] = Fixed(buf[cw], n, l)
      BY <1>6, <1>14, <2>2
    <3>2. QED
      BY <1>11, <1>12, <1>13, <1>14, <2>2, <3>1
  <2>3. QED
    BY <2>1, <2>2
<1>16. ASSUME NEW q \in Pos, q < cw \/ cw + n < q PROVE View'[q] = View[q]
  <2>1. q # cw /\ q # cw + 1 /\ q # cw + n
    BY <1>4, <1>16, BufferSize
  <2>2. buf'[q] = buf[q]
    BY <1>6, <2>1
  <2>3. q = ENextBulkOutPosition /\ bCopySavePad => SavedPad' = SavedPad
    BY <1>6, <1>11, <2>1
  <2>4. QED
    BY <1>12, <1>13, <2>2, <2>3
<1>17. ASSUME NEW q \in Pos, cw < q, q < cw + n
       PROVE  View'[q].f = View[q].f /\ View'[q].k = View[q].k /\ View'[q].last = View[q].last
  <2>1. q # cw /\ q # cw + n /\ q # ENextBulkOutPosition
    BY <1>4, <1>10, <1>17, BufferSize
  <2>2. View'[q] = buf'[q] /\ View[q] = buf[q]
    BY <1>12, <1>13, <2>1
  <2>3. buf'[q] = buf[q] \/ buf'[q] = [buf[q] EXCEPT !.len = Sum(w.parts)]
    BY <1>6, <2>1
  <2>4. buf[q] \in Cells
    BY <1>1
  <2>5. QED
    BY <1>7, <2>2, <2>3, <2>4, ZenonT(30)
<1>18. QED
  BY <1>9, <1>15, <1>16, <1>17

\* Records of this form are equal when their fields are.
LEMMA SameRecord ==
  ASSUME NEW S, NEW B, NEW x \in [f : S, k : S, len : S, last : B, nv : B],
         NEW y \in [f : S, k : S, len : S, last : B, nv : B],
         x.f = y.f, x.k = y.k, x.len = y.len, x.last = y.last, x.nv = y.nv
  PROVE  x = y
OBVIOUS

\* Two fields of such a record replaced.
LEMMA TwoFields ==
  ASSUME NEW S, NEW B, NEW h \in [f : S, k : S, len : S, last : B, nv : B], NEW n \in S, NEW l \in B
  PROVE  /\ [h EXCEPT !.len = n, !.last = l] \in [f : S, k : S, len : S, last : B, nv : B]
         /\ [h EXCEPT !.len = n, !.last = l].f = h.f /\ [h EXCEPT !.len = n, !.last = l].k = h.k
         /\ [h EXCEPT !.len = n, !.last = l].len = n /\ [h EXCEPT !.len = n, !.last = l].last = l
         /\ [h EXCEPT !.len = n, !.last = l].nv = h.nv
OBVIOUS

\* The header of an A-MSDU, fixed.
LEMMA FixedInfo ==
  ASSUME NEW f, NEW n, NEW m, NEW l \in BOOLEAN
  PROVE  Fixed(TxInfo(f, m, FALSE, FALSE), n, l) = TxInfo(f, n, l, FALSE)
<1> DEFINE S == {0, f, n, m}
           R == [f : S, k : S, len : S, last : BOOLEAN, nv : BOOLEAN]
<1>1. PICK h : h = TxInfo(f, m, FALSE, FALSE)
  OBVIOUS
<1>2. PICK e : e = (h.last \/ l)
  OBVIOUS
<1>3. Fixed(h, n, l) = [h EXCEPT !.len = n, !.last = e]
  BY <1>2, Zenon DEF Fixed
<1>4. h \in R /\ h.f = f /\ h.k = 0 /\ h.last = FALSE /\ h.nv = FALSE
  BY <1>1 DEF TxInfo
<1>5. e = l
  BY <1>2, <1>4
<1>6. PICK g : g = TxInfo(f, n, l, FALSE)
  OBVIOUS
<1>7. g \in R /\ g.f = f /\ g.k = 0 /\ g.len = n /\ g.last = l /\ g.nv = FALSE
  BY <1>6 DEF TxInfo
<1>8. n \in S
  OBVIOUS
<1>9. PICK x : x = [h EXCEPT !.len = n, !.last = l]
  OBVIOUS
<1>10. x \in R /\ x.f = h.f /\ x.k = h.k /\ x.len = n /\ x.last = l /\ x.nv = h.nv
  <2> HIDE DEF S
  <2>1. QED
    BY <1>4, <1>8, <1>9, TwoFields
<1>11. x = g
  <2> HIDE DEF S
  <2>1. x.f = g.f /\ x.k = g.k /\ x.len = g.len /\ x.last = g.last /\ x.nv = g.nv
    BY <1>4, <1>7, <1>10, Zenon
  <2>2. QED
    BY <1>7, <1>10, <2>1, SameRecord
<1>12. QED
  BY <1>1, <1>3, <1>5, <1>6, <1>9, <1>11

\* FinalWriteTxResource.
LEMMA FinalKept ==
  ASSUME RingInv, FinalWriteTxResource
  PROVE  RingInv'
<1>1. PICK u \in Nat, r \in Nat, t \in Nat, z \in Nat, P \in [Nat -> Nat], N \in [Nat -> Nat],
           F \in [Nat -> Nat] : Layout(u, r, t, z, P, N, F)
  BY DEF RingInv, Laid
<1>2. Plain /\ IndInv /\ IndInv' /\ Typed /\ Current(View)
  BY FinalStep DEF RingInv, Plain
<1>3. /\ pc["W"] = "fin" /\ w.kind = "multi" /\ pc' = [pc EXCEPT !["W"] = "kick"]
      /\ CurWritePosition' = IF LastRound(CurWritePosition, w.Priv) THEN 1 ELSE CurWritePosition + w.Priv
      /\ CurWriteRealPos' = CurWritePosition' /\ bCurWriting' = FALSE /\ next' = next + 1
      /\ UNCHANGED <<NextBulkOutPosition, ENextBulkOutPosition, bCopySavePad, flags,
                     BulkOutSize, w, rd, urb, resetCmds, sent, dropped>>
  BY FinalDoes
<1>4. UNCHANGED <<BulkOutPending, dataFlag, bulkOutReset, bForcePrintTX>>
  BY <1>3 DEF flags
<1>5. pc \in [Contexts -> Labels]
  BY <1>2 DEF IndInv, Block
<1>6. pc'["W"] = "kick" /\ Writing
  BY <1>3, <1>5 DEF Contexts, Writing
<1>7. /\ Indexed(u, r, t, z, P, N) /\ Rising(u, t, z, P, N) /\ Positions(u, r, t, z, P, N)
      /\ Behind(u, r, z) /\ Content(View, u, r, t, z, P, N, F)
  BY <1>1 DEF Layout
<1>8. PICK cw, n, l : cw = CurWritePosition /\ n = w.Priv /\ l = LastRound(CurWritePosition, w.Priv)
  OBVIOUS
<1>9. buf' \in [Pos -> Cells] /\ SavedPad' \in Cells
  BY <1>2, <1>7, <1>8, FinalView
<1>10. View'[cw] = Fixed(View[cw], n, l)
  BY <1>2, <1>7, <1>8, FinalView
<1>11. \A q \in Pos : q < cw \/ cw + n < q => View'[q] = View[q]
  BY <1>2, <1>7, <1>8, FinalView
<1>12. \A q \in Pos : cw < q /\ q < cw + n =>
              View'[q].f = View[q].f /\ View'[q].k = View[q].k /\ View'[q].last = View[q].last
  BY <1>2, <1>7, <1>8, FinalView
<1>13. /\ cw \in Nat /\ n \in Nat /\ cw + n < BufSize /\ n = Room(w)
       /\ next \in Nat /\ next >= 1 /\ next <= MaxFrames /\ MaxFrames \in Nat
  BY <1>2, <1>3, <1>8, FinPlace
<1>14. l \in BOOLEAN
  BY <1>8 DEF LastRound
<1>15. Content(View', u, r, t, z, P, N, F)
  <2>1. PICK hi : hi = cw + n
    OBVIOUS
  <2>2. hi \in Nat /\ hi <= CurWritePosition + Room(w) /\ Room(w) \in Nat /\ CurWritePosition <= cw
    BY <1>8, <1>13, <2>1
  <2>3. \A i \in u..(t - 1) : P[i] + N[i] <= cw \/ hi < P[i]
    BY <1>6, <1>7, <1>13, <2>2, WriterMisses
  <2>4. \A q \in Pos : q < cw \/ hi < q => View'[q] = View[q]
    BY <1>11, <2>1
  <2>5. QED
    BY <1>7, <1>13, <2>2, <2>3, <2>4, ContentKept
<1>16. BlockIn(View', l)
  <2>1. ~Second
    BY <1>3 DEF Second
  <2>2. Base = cw
    BY <1>8, <2>1 DEF Base
  <2>3. View[cw] = TxInfo(next, Ovh, FALSE, FALSE) /\ Whole(View, cw, n, next)
    BY <1>2, <1>3, <1>6, <1>8, <2>2 DEF Current
  <2>4. Fixed(TxInfo(next, Ovh, FALSE, FALSE), n, l) = TxInfo(next, n, l, FALSE)
    BY <1>14, FixedInfo
  <2>5. View'[cw] = TxInfo(next, n, l, FALSE)
    BY <1>10, <2>3, <2>4
  <2>6. Whole(View', cw, n, next)
    <3>1. ASSUME NEW k \in 1..(n - 1)
          PROVE  View'[cw + k].f = next /\ View'[cw + k].k = k /\ (View'[cw + k].last <=> k = n - 1)
      <4>a. cw \in Nat /\ n \in Nat /\ cw + n < BufSize
        BY <1>13
      <4>b. k \in Nat /\ 1 <= k /\ k < n
        BY <4>a
      <4>1. cw + k \in Pos /\ cw < cw + k /\ cw + k < cw + n
        BY <4>a, <4>b, BufferSize
      <4>2. View'[cw + k].f = View[cw + k].f /\ View'[cw + k].k = View[cw + k].k /\ View'[cw + k].last = View[cw + k].last
        BY <1>12, <4>1
      <4>3. View[cw + k].f = next /\ View[cw + k].k = k /\ (View[cw + k].last <=> k = n - 1)
        BY <2>3 DEF Whole
      <4>4. QED
        BY <4>2, <4>3
    <3>2. QED
      BY <3>1 DEF Whole
  <2>7. QED
    BY <1>3, <1>8, <2>5, <2>6 DEF BlockIn
<1>17. Typed'
  <2>1. next' \in 1..(MaxFrames + 1)
    BY <1>3, <1>13
  <2>2. /\ BulkOutSize' \in 0..BufSize /\ NextBulkOutPosition' \in Pos
        /\ rd' \in [pc : {"idle", "claimed", "empty", "built"}, by : Contexts]
        /\ urb' \in {"none", "flying", "done", "failed"} /\ resetCmds' \in Nat
        /\ sent' \in Seq([f : Nat, ok : BOOLEAN, cnt : BOOLEAN])
    BY <1>2, <1>3 DEF Typed
  <2>3. {bCurWriting', bCopySavePad', BulkOutPending', dataFlag', bulkOutReset', bForcePrintTX'} \subseteq BOOLEAN
    BY <1>2, <1>3, <1>4 DEF Typed
  <2>4. QED
    BY <1>9, <2>1, <2>2, <2>3 DEF Typed
<1>18. /\ l <=> LastRound(CurWritePosition, w.Priv)
       /\ CurWritePosition' = IF l THEN 1 ELSE CurWritePosition + w.Priv
  BY <1>3, <1>8
<1>19. QED
  BY <1>1, <1>2, <1>3, <1>4, <1>6, <1>14, <1>15, <1>16, <1>17, <1>18, BlockPublished
-----------------------------------------------------------------------------
(***************************************************************************)
(* Loops over the ring.                                                    *)
(***************************************************************************)

\* A set of numbers has a least one.
LEMMA Least ==
  ASSUME NEW T, T \subseteq Nat, T # {}
  PROVE  \E x \in T : \A y \in T : x <= y
<1> DEFINE R == OpToRel(<, Nat)
<1>1. IsWellFoundedOn(R, Nat)
  BY NatLessThanWellFounded, Zenon
<1>2. \A x, y \in Nat : x < y => <<x, y>> \in R
  BY DEF OpToRel
<1> HIDE DEF R
<1>3. PICK x \in T : \A y \in T : ~ (<<y, x>> \in R)
  BY <1>1, WFMin
<1>4. \A y \in T : ~ (y < x)
  BY <1>2, <1>3
<1>5. QED
  BY <1>3, <1>4

\* Induction.
LEMMA Ind ==
  ASSUME NEW T, 0 \in T, \A n \in Nat : n \in T => n + 1 \in T
  PROVE  Nat \subseteq T
<1> SUFFICES ASSUME Nat \ T # {} PROVE FALSE
  OBVIOUS
<1> DEFINE U == Nat \ T
<1>1. PICK x \in U : \A y \in U : x <= y
  <2>1. U \subseteq Nat /\ U # {}
    OBVIOUS
  <2> HIDE DEF U
  <2>2. QED
    BY <2>1, Least
<1>2. x # 0 /\ x \in Nat
  OBVIOUS
<1>3. x - 1 \in Nat /\ ~(x <= x - 1)
  BY <1>2
<1>4. x - 1 \notin U
  BY <1>1, <1>3
<1>5. x - 1 \in T
  BY <1>3, <1>4
<1>6. (x - 1) + 1 = x
  BY <1>2
<1>7. QED
  BY <1>3, <1>5, <1>6

\* The states of the walk over the frames on the wire.
WireStart(from) == [pos |-> from, stop |-> FALSE, out |-> <<>>]

WireTo(g, m, b, from) == g = [n \in 0..m |-> IF n = 0 THEN WireStart(from) ELSE WireStep(b, g[n - 1])]

\* There are such states.
LEMMA WireExists ==
  ASSUME NEW b, NEW from, NEW m \in Nat
  PROVE  \E g : WireTo(g, m, b, from)
<1> DEFINE G(g, k) == g = [n \in 0..k |-> IF n = 0 THEN WireStart(from) ELSE WireStep(b, g[n - 1])]
           T == {k \in Nat : \E g : G(g, k)}
<1>1. 0 \in T
  <2>1. PICK g : g = [n \in 0..0 |-> WireStart(from)]
    OBVIOUS
  <2>2. G(g, 0)
    BY <2>1
  <2>3. QED
    BY <2>2
<1>2. ASSUME NEW k \in Nat, k \in T PROVE k + 1 \in T
  <2>1. PICK g : G(g, k)
    BY <1>2
  <2>2. PICK j : j = k + 1
    OBVIOUS
  <2>3. PICK h : h = [n \in 0..j |-> IF n = j THEN WireStep(b, g[k]) ELSE g[n]]
    OBVIOUS
  <2>4. j \in Nat /\ j # 0 /\ j - 1 = k /\ k # j
    BY <2>2
  <2>5. ASSUME NEW n \in 0..j
        PROVE  h[n] = IF n = 0 THEN WireStart(from) ELSE WireStep(b, h[n - 1])
    <3>1. CASE n = 0
      <4>1. h[n] = g[n] /\ n \in 0..k
        BY <2>3, <2>4, <3>1
      <4>2. g[n] = WireStart(from)
        BY <2>1, <3>1, <4>1
      <4>3. QED
        BY <3>1, <4>1, <4>2
    <3>2. CASE n = j
      <4>1. h[n] = WireStep(b, g[k])
        BY <2>3, <3>2
      <4>2. h[n - 1] = g[k]
        BY <2>3, <2>4, <3>2
      <4>3. QED
        BY <2>4, <3>2, <4>1, <4>2
    <3>3. CASE n # 0 /\ n # j
      <4>1. n \in 0..k /\ n - 1 \in 0..j /\ n - 1 # j
        BY <2>4, <3>3
      <4>2. h[n] = g[n] /\ h[n - 1] = g[n - 1]
        BY <2>3, <3>3, <4>1
      <4>3. g[n] = WireStep(b, g[n - 1])
        BY <2>1, <3>3, <4>1
      <4>4. QED
        BY <3>3, <4>2, <4>3
    <3>4. QED
      BY <3>1, <3>2, <3>3
  <2>6. G(h, j)
    <3>1. PICK e : e = [n \in 0..j |-> IF n = 0 THEN WireStart(from) ELSE WireStep(b, h[n - 1])]
      OBVIOUS
    <3>2. h = e
      BY <2>3, <2>5, <3>1
    <3>3. QED
      BY <3>1, <3>2
  <2>7. QED
    BY <2>2, <2>6
<1>3. Nat \subseteq T
  <2> HIDE DEF T
  <2>1. QED
    BY <1>1, <1>2, Ind
<1>4. PICK g : G(g, m)
  BY <1>3
<1>5. QED
  BY <1>4, Zenon DEF WireTo

\* What is on the wire is the result of Turns such steps.
LEMMA WireRuns ==
  ASSUME NEW b, NEW from
  PROVE  \E g : /\ g[0] = WireStart(from) /\ \A n \in 1..Turns : g[n] = WireStep(b, g[n - 1])
                /\ OnWire(b, from) = g[Turns].out
<1>1. Turns \in Nat
  BY TxRingAssumption DEF Turns
<1> DEFINE f == CHOOSE f : f = [n \in 0..Turns |-> IF n = 0 THEN WireStart(from) ELSE WireStep(b, f[n - 1])]
<1>2. f = [n \in 0..Turns |-> IF n = 0 THEN WireStart(from) ELSE WireStep(b, f[n - 1])]
  <2>1. \E g : WireTo(g, Turns, b, from)
    BY <1>1, WireExists
  <2>2. QED
    BY <2>1, Zenon DEF WireTo
<1>3. OnWire(b, from) = f[Turns].out
  BY Zenon DEF OnWire, WireStart
<1> HIDE DEF f
<1>4. f[0] = WireStart(from)
  BY <1>1, <1>2
<1>5. ASSUME NEW n \in 1..Turns PROVE f[n] = WireStep(b, f[n - 1])
  <2>1. n \in 0..Turns /\ n # 0
    BY <1>1
  <2>2. QED
    BY <1>2, <2>1
<1>6. QED
  BY <1>3, <1>4, <1>5

\* The same for the frame loop of RTUSBBulkOutDataPacket.
ScanTo(g, m) == g = [n \in 0..m |-> IF n = 0 THEN ScanStart ELSE ScanStep(g[n - 1])]

\* There are such states.
LEMMA ScanExists ==
  ASSUME NEW m \in Nat
  PROVE  \E g : ScanTo(g, m)
<1> DEFINE G(g, k) == g = [n \in 0..k |-> IF n = 0 THEN ScanStart ELSE ScanStep(g[n - 1])]
           T == {k \in Nat : \E g : G(g, k)}
<1>1. 0 \in T
  <2>1. PICK g : g = [n \in 0..0 |-> ScanStart]
    OBVIOUS
  <2>2. G(g, 0)
    BY <2>1
  <2>3. QED
    BY <2>2
<1>2. ASSUME NEW k \in Nat, k \in T PROVE k + 1 \in T
  <2>1. PICK g : G(g, k)
    BY <1>2
  <2>2. PICK j : j = k + 1
    OBVIOUS
  <2>3. PICK h : h = [n \in 0..j |-> IF n = j THEN ScanStep(g[k]) ELSE g[n]]
    OBVIOUS
  <2>4. j \in Nat /\ j # 0 /\ j - 1 = k /\ k # j
    BY <2>2
  <2>5. ASSUME NEW n \in 0..j
        PROVE  h[n] = IF n = 0 THEN ScanStart ELSE ScanStep(h[n - 1])
    <3>1. CASE n = 0
      <4>1. h[n] = g[n] /\ n \in 0..k
        BY <2>3, <2>4, <3>1
      <4>2. g[n] = ScanStart
        BY <2>1, <3>1, <4>1
      <4>3. QED
        BY <3>1, <4>1, <4>2
    <3>2. CASE n = j
      <4>1. h[n] = ScanStep(g[k])
        BY <2>3, <3>2
      <4>2. h[n - 1] = g[k]
        BY <2>3, <2>4, <3>2
      <4>3. QED
        BY <2>4, <3>2, <4>1, <4>2
    <3>3. CASE n # 0 /\ n # j
      <4>1. n \in 0..k /\ n - 1 \in 0..j /\ n - 1 # j
        BY <2>4, <3>3
      <4>2. h[n] = g[n] /\ h[n - 1] = g[n - 1]
        BY <2>3, <3>3, <4>1
      <4>3. g[n] = ScanStep(g[n - 1])
        BY <2>1, <3>3, <4>1
      <4>4. QED
        BY <3>3, <4>2, <4>3
    <3>4. QED
      BY <3>1, <3>2, <3>3
  <2>6. G(h, j)
    <3>1. PICK e : e = [n \in 0..j |-> IF n = 0 THEN ScanStart ELSE ScanStep(h[n - 1])]
      OBVIOUS
    <3>2. h = e
      BY <2>3, <2>5, <3>1
    <3>3. QED
      BY <3>1, <3>2
  <2>7. QED
    BY <2>2, <2>6
<1>3. Nat \subseteq T
  <2> HIDE DEF T
  <2>1. QED
    BY <1>1, <1>2, Ind
<1>4. PICK g : G(g, m)
  BY <1>3
<1>5. QED
  BY <1>4, Zenon DEF ScanTo

\* The scan is the result of Turns such steps.
LEMMA ScanRuns ==
  \E g : /\ g[0] = ScanStart /\ \A n \in 1..Turns : g[n] = ScanStep(g[n - 1])
         /\ Scan = g[Turns]
<1>1. Turns \in Nat
  BY TxRingAssumption DEF Turns
<1> DEFINE f == CHOOSE f : f = [n \in 0..Turns |-> IF n = 0 THEN ScanStart ELSE ScanStep(f[n - 1])]
<1>2. f = [n \in 0..Turns |-> IF n = 0 THEN ScanStart ELSE ScanStep(f[n - 1])]
  <2>1. \E g : ScanTo(g, Turns)
    BY <1>1, ScanExists
  <2>2. QED
    BY <2>1, Zenon DEF ScanTo
<1>3. Scan = f[Turns]
  BY Zenon DEF Scan
<1> HIDE DEF f
<1>4. f[0] = ScanStart
  BY <1>1, <1>2
<1>5. ASSUME NEW n \in 1..Turns PROVE f[n] = ScanStep(f[n - 1])
  <2>1. n \in 0..Turns /\ n # 0
    BY <1>1
  <2>2. QED
    BY <1>2, <2>1
<1>6. QED
  BY <1>3, <1>4, <1>5
-----------------------------------------------------------------------------
(***************************************************************************)
(* What the device finds.                                                  *)
(***************************************************************************)

\* The frames of the URB lie below the parked header.
LEMMA BelowParked ==
  ASSUME NEW u, NEW r, NEW t, NEW z, NEW P, NEW N, Indexed(u, r, t, z, P, N), Rising(u, t, z, P, N),
         Joined(u, r, t, z, P, N), z # r - 1, NEW i \in u..(r - 1)
  PROVE  P[i] + N[i] <= P[r]
<1>1. u \in Nat /\ r \in Nat /\ t \in Nat /\ z \in Nat /\ 1 <= u /\ u <= r /\ r <= t
  BY DEF Indexed
<1>2. i \in u..(t - 1) /\ r \in (i + 1)..t
  BY <1>1
<1>3. \A j \in u..(r - 2) : j # z
  BY DEF Joined
<1>4. ~(i <= z /\ z < r)
  <2>1. SUFFICES ASSUME i <= z, z < r PROVE FALSE
    OBVIOUS
  <2>2. z \in u..(r - 2)
    BY <1>1, <2>1
  <2>3. QED
    BY <1>3, <2>2
<1>5. QED
  BY <1>2, <1>4 DEF Rising

\* So they are in the ring itself as they are in the view.
LEMMA UrbCells ==
  ASSUME NEW u, NEW r, NEW t, NEW z, NEW P, NEW N, NEW F, Typed, Layout(u, r, t, z, P, N, F),
         NEW i \in u..(r - 1)
  PROVE  buf[P[i]] = TxInfo(F[i], N[i], FALSE, i # r - 1) /\ Whole(buf, P[i], N[i], F[i])
<1>1. /\ Indexed(u, r, t, z, P, N) /\ Rising(u, t, z, P, N) /\ Joined(u, r, t, z, P, N)
      /\ Positions(u, r, t, z, P, N) /\ Parked(u, r, t, z, P, N) /\ Content(View, u, r, t, z, P, N, F)
  BY DEF Layout
<1>2. u \in Nat /\ r \in Nat /\ t \in Nat /\ u <= r /\ r <= t /\ P \in [Nat -> Nat] /\ N \in [Nat -> Nat]
  BY <1>1 DEF Indexed
<1>3. i \in Nat /\ i \in u..(t - 1)
  BY <1>2
<1>4. P[i] \in Nat /\ N[i] \in Nat /\ N[i] > Ovh /\ P[i] + N[i] < BufSize
  BY <1>1, <1>2, <1>3 DEF Indexed
<1>5. ASSUME NEW k \in 0..(N[i] - 1) PROVE View[P[i] + k] = buf[P[i] + k]
  <2>1. PICK q : q = P[i] + k
    OBVIOUS
  <2>2. q \in Pos /\ q < P[i] + N[i]
    BY <1>4, <2>1, BufferSize, SMTT(20)
  <2>3. bCopySavePad => q # ENextBulkOutPosition
    <3>1. SUFFICES ASSUME bCopySavePad PROVE q # P[r]
      BY <1>1 DEF Positions
    <3>2. z # r - 1
      BY <1>1, <3>1 DEF Parked
    <3>3. P[i] + N[i] <= P[r]
      BY <1>1, <3>2, BelowParked
    <3>4. P[r] \in Nat /\ q \in Nat
      BY <1>2, <1>4, <2>1
    <3>5. QED
      BY <1>4, <2>2, <3>3, <3>4
  <2>4. buf \in [Pos -> Cells]
    BY DEF Typed
  <2>5. View[q] = buf[q]
    BY <2>2, <2>3, <2>4, ViewCell DEF View
  <2>6. QED
    BY <2>1, <2>5
<1>6. N[i] > 0
  BY <1>4, Constants
<1>7. 0 \in 0..(N[i] - 1) /\ P[i] + 0 = P[i] /\ 1..(N[i] - 1) \subseteq 0..(N[i] - 1)
  BY <1>4, <1>6
<1>8. View[P[i]] = buf[P[i]]
  BY <1>5, <1>7
<1>9. \A k \in 1..(N[i] - 1) : View[P[i] + k] = buf[P[i] + k]
  BY <1>5, <1>7
<1>10. View[P[i]] = TxInfo(F[i], N[i], FALSE, i # r - 1) /\ Whole(View, P[i], N[i], F[i])
  BY <1>1, <1>3 DEF Content
<1>11. QED
  BY <1>8, <1>9, <1>10 DEF Whole

\* What is recorded of a frame on the wire.
Report == [f : Nat, ok : BOOLEAN, cnt : BOOLEAN]

\* The device finds a frame of the URB intact.
LEMMA FrameIntact ==
  ASSUME NEW u, NEW r, NEW t, NEW z, NEW P, NEW N, NEW F, Typed, Layout(u, r, t, z, P, N, F),
         NEW i \in u..(r - 1)
  PROVE  /\ Intact(buf, P[i]) /\ At(buf, P[i]) = TxInfo(F[i], N[i], FALSE, i # r - 1)
         /\ P[i] \in Nat /\ N[i] \in Nat /\ N[i] > 0 /\ F[i] \in Nat
<1>1. buf[P[i]] = TxInfo(F[i], N[i], FALSE, i # r - 1) /\ Whole(buf, P[i], N[i], F[i])
  BY UrbCells
<1>2. Indexed(u, r, t, z, P, N) /\ Numbered(u, r, t, F)
  BY DEF Layout
<1>3. u \in Nat /\ r \in Nat /\ t \in Nat /\ u <= r /\ r <= t /\ P \in [Nat -> Nat] /\ N \in [Nat -> Nat]
  BY <1>2 DEF Indexed
<1>4. i \in Nat /\ i \in u..(t - 1)
  BY <1>3
<1>5. P[i] \in Nat /\ N[i] \in Nat /\ N[i] > Ovh /\ P[i] + N[i] < BufSize
  BY <1>2, <1>3, <1>4 DEF Indexed
<1>6. F[i] \in Nat /\ F[i] # 0
  <2>1. F[i] \in Nat /\ 1 <= F[i]
    BY <1>2, <1>4 DEF Numbered
  <2>2. QED
    BY <2>1
<1>7. N[i] > 0
  BY <1>5, Constants
<1>8. ASSUME NEW k \in 0..(N[i] - 1) PROVE At(buf, P[i] + k) = buf[P[i] + k]
  <2>1. P[i] + k \in Pos
    BY <1>5, BufferSize
  <2>2. QED
    BY <2>1 DEF At
<1>9. At(buf, P[i]) = TxInfo(F[i], N[i], FALSE, i # r - 1)
  <2>1. 0 \in 0..(N[i] - 1) /\ P[i] + 0 = P[i]
    BY <1>5, <1>7
  <2>2. QED
    BY <1>1, <1>8, <2>1
<1>10. PICK h : h = At(buf, P[i])
  OBVIOUS
<1>11. h.f = F[i] /\ h.k = 0 /\ h.len = N[i]
  BY <1>9, <1>10 DEF TxInfo
<1>12. ASSUME NEW k \in 1..(N[i] - 1)
       PROVE  LET c == At(buf, P[i] + k) IN c.f = F[i] /\ c.k = k /\ (c.last <=> k = N[i] - 1)
  <2>1. k \in 0..(N[i] - 1)
    BY <1>5
  <2>2. QED
    BY <1>1, <1>8, <2>1 DEF Whole
<1>13. Intact(buf, P[i])
  BY <1>5, <1>6, <1>10, <1>11, <1>12 DEF Intact
<1>14. QED
  BY <1>5, <1>6, <1>7, <1>9, <1>13

\* One step of the device.
LEMMA OneFrame ==
  ASSUME NEW u, NEW r, NEW t, NEW z, NEW P, NEW N, NEW F, Typed, Layout(u, r, t, z, P, N, F),
         NEW i \in u..(r - 1), NEW x, ~x.stop, x.pos = P[i]
  PROVE  /\ WireStep(buf, x).pos = P[i] + N[i] /\ (WireStep(buf, x).stop <=> i = r - 1)
         /\ \E e \in Report : e.f = F[i] /\ e.ok /\ WireStep(buf, x).out = Append(x.out, e)
<1>1. /\ Intact(buf, P[i]) /\ At(buf, P[i]) = TxInfo(F[i], N[i], FALSE, i # r - 1)
      /\ P[i] \in Nat /\ N[i] \in Nat /\ N[i] > 0 /\ F[i] \in Nat
  BY FrameIntact
<1>2. PICK h : h = At(buf, x.pos)
  OBVIOUS
<1>3. h.f = F[i] /\ h.len = N[i] /\ (h.nv <=> i # r - 1)
  <2>1. PICK v : v = (i # r - 1)
    OBVIOUS
  <2>2. h = TxInfo(F[i], N[i], FALSE, v)
    BY <1>1, <1>2, <2>1
  <2>3. h.f = F[i] /\ h.len = N[i] /\ h.nv = v
    BY <2>2 DEF TxInfo
  <2>4. QED
    BY <2>1, <2>3
<1>4. PICK c : c = (At(buf, x.pos + 1).len = h.len - Ovh)
  OBVIOUS
<1>5. c \in BOOLEAN
  BY <1>4
<1>6. PICK k : k = Intact(buf, x.pos)
  OBVIOUS
<1>7. k \in BOOLEAN /\ k
  BY <1>1, <1>6, ZenonT(30) DEF Intact
<1>8. PICK e : e = [f |-> h.f, ok |-> k, cnt |-> c]
  OBVIOUS
<1>p. PICK s : s = (~h.nv \/ h.len = 0)
  OBVIOUS
<1>9. WireStep(buf, x) = [pos |-> x.pos + h.len, stop |-> s, out |-> Append(x.out, e)]
  BY <1>2, <1>4, <1>6, <1>8, <1>p, Zenon DEF WireStep
<1>10. e \in Report /\ e.f = F[i] /\ e.ok
  BY <1>1, <1>3, <1>5, <1>7, <1>8 DEF Report
<1>11. WireStep(buf, x).pos = x.pos + h.len /\ WireStep(buf, x).out = Append(x.out, e)
  BY <1>9
<1>12. WireStep(buf, x).stop <=> i = r - 1
  <2>1. WireStep(buf, x).stop = s
    BY <1>9
  <2>2. h.len # 0
    BY <1>1, <1>3
  <2>3. QED
    BY <1>3, <1>p, <2>1, <2>2
<1>13. QED
  BY <1>3, <1>10, <1>11, <1>12

\* The device has followed next_vld over the first m frames of the URB.
Walked(x, m, u, r, P, F) ==
  /\ x.out \in Seq(Report) /\ Len(x.out) = m
  /\ \A k \in 1..m : x.out[k].f = F[u + k - 1] /\ x.out[k].ok
  /\ x.stop <=> m = r - u
  /\ m < r - u => x.pos = P[u + m]

\* It finds the next frame.
LEMMA WalkOn ==
  ASSUME NEW u, NEW r, NEW t, NEW z, NEW P, NEW N, NEW F, Typed, Layout(u, r, t, z, P, N, F),
         NEW x, NEW m \in Nat, NEW m2, m2 = m + 1, m2 <= r - u, Walked(x, m, u, r, P, F)
  PROVE  Walked(WireStep(buf, x), m2, u, r, P, F)
<1>1. Indexed(u, r, t, z, P, N) /\ Joined(u, r, t, z, P, N)
  BY DEF Layout
<1>2. u \in Nat /\ r \in Nat /\ t \in Nat /\ u <= r /\ r <= t /\ P \in [Nat -> Nat] /\ N \in [Nat -> Nat]
  BY <1>1 DEF Indexed
<1>3. PICK i : i = u + m
  OBVIOUS
<1>4. i \in u..(r - 1) /\ m # r - u /\ m < r - u /\ m2 \in Nat /\ i = u + m2 - 1
  BY <1>2, <1>3
<1>5. ~x.stop /\ x.pos = P[i]
  BY <1>3, <1>4 DEF Walked
<1>6. /\ WireStep(buf, x).pos = P[i] + N[i] /\ (WireStep(buf, x).stop <=> i = r - 1)
      /\ \E e \in Report : e.f = F[i] /\ e.ok /\ WireStep(buf, x).out = Append(x.out, e)
  BY <1>4, <1>5, OneFrame
<1>7. PICK e \in Report : e.f = F[i] /\ e.ok /\ WireStep(buf, x).out = Append(x.out, e)
  BY <1>6
<1>8. PICK y, o, q : y = WireStep(buf, x) /\ o = x.out /\ q = y.out
  OBVIOUS
<1>9. o \in Seq(Report) /\ Len(o) = m /\ q = Append(o, e)
  BY <1>7, <1>8 DEF Walked
<1>10. q \in Seq(Report) /\ Len(q) = m2 /\ q[m2] = e /\ \A k \in 1..m : q[k] = o[k]
  BY <1>9
<1>11. ASSUME NEW k \in 1..m2 PROVE q[k].f = F[u + k - 1] /\ q[k].ok
  <2>1. CASE k = m2
    BY <1>4, <1>7, <1>10, <2>1
  <2>2. CASE k # m2
    <3>1. k \in 1..m
      BY <1>4, <2>2
    <3>2. o[k].f = F[u + k - 1] /\ o[k].ok
      BY <1>8, <3>1 DEF Walked
    <3>3. q[k] = o[k]
      BY <1>10, <3>1
    <3>4. QED
      BY <3>2, <3>3
  <2>3. QED
    BY <2>1, <2>2
<1>12. y.stop <=> m2 = r - u
  <2>1. i = r - 1 <=> m2 = r - u
    BY <1>2, <1>4
  <2>2. QED
    BY <1>6, <1>8, <2>1
<1>13. m2 < r - u => y.pos = P[u + m2]
  <2>1. SUFFICES ASSUME m2 < r - u PROVE y.pos = P[u + m2]
    OBVIOUS
  <2>2. i \in u..(r - 2) /\ i + 1 = u + m2
    BY <1>2, <1>4, <2>1
  <2>3. P[i + 1] = P[i] + N[i]
    BY <1>1, <2>2 DEF Joined
  <2>4. QED
    BY <1>6, <1>8, <2>2, <2>3
<1>14. QED
  BY <1>8, <1>10, <1>11, <1>12, <1>13 DEF Walked

\* The loop's bound is enough: there are no more frames than MaxFrames.
LEMMA Few ==
  ASSUME NEW u, NEW r, NEW t, NEW z, NEW P, NEW N, NEW F, Typed, Layout(u, r, t, z, P, N, F)
  PROVE  /\ u \in Nat /\ r \in Nat /\ t \in Nat /\ 1 <= u /\ u <= r /\ r <= t /\ t <= MaxFrames + 1
         /\ MaxFrames \in Nat /\ Turns = MaxFrames + 2
<1>1. u \in Nat /\ r \in Nat /\ t \in Nat /\ 1 <= u /\ u <= r /\ r <= t
  BY DEF Layout, Indexed
<1>2. next \in 1..(MaxFrames + 1) /\ MaxFrames \in Nat
  BY TxRingAssumption DEF Typed
<1>3. Free <= next /\ Free \in Int
  BY <1>2 DEF Free
<1>4. t <= Free
  BY DEF Layout, Numbered
<1>5. QED
  BY <1>1, <1>2, <1>3, <1>4 DEF Turns

\* Frames u..r-1 in the device's hands, all of them intact and in order.
Wired(o, u, r, F) ==
  /\ o \in Seq(Report) /\ Len(o) = r - u
  /\ \A k \in 1..(r - u) : o[k].f = F[u + k - 1] /\ o[k].ok

\* The device gets the frames of the last URB, all of them intact and in order.
LEMMA Delivered ==
  ASSUME NEW u, NEW r, NEW t, NEW z, NEW P, NEW N, NEW F, Typed, Layout(u, r, t, z, P, N, F), u < r,
         NEW o, o = OnWire(buf, NextBulkOutPosition)
  PROVE  Wired(o, u, r, F)
<1>1. NextBulkOutPosition = P[u]
  BY DEF Layout, Positions
<1>2. /\ u \in Nat /\ r \in Nat /\ t \in Nat /\ 1 <= u /\ u <= r /\ r <= t /\ t <= MaxFrames + 1
      /\ MaxFrames \in Nat /\ Turns = MaxFrames + 2
  BY Few
<1>3. PICK g : /\ g[0] = WireStart(P[u]) /\ \A n \in 1..Turns : g[n] = WireStep(buf, g[n - 1])
               /\ OnWire(buf, P[u]) = g[Turns].out
  BY WireRuns
<1>4. PICK d : d = r - u
  OBVIOUS
<1>5. d \in Nat /\ d > 0 /\ d <= Turns
  BY <1>2, <1>4
<1> DEFINE W(n) == n <= Turns => (n <= d => Walked(g[n], n, u, r, P, F)) /\ (d <= n => Walked(g[n], d, u, r, P, F))
           T == {n \in Nat : W(n)}
<1>6. 0 \in T
  <2>1. PICK x : x = WireStart(P[u])
    OBVIOUS
  <2>2. x.pos = P[u] /\ x.stop = FALSE /\ x.out = <<>>
    BY <2>1 DEF WireStart
  <2>3. x.out \in Seq(Report) /\ Len(x.out) = 0
    BY <2>2
  <2>4. u + 0 = u /\ 0 # r - u
    BY <1>2, <1>4, <1>5
  <2>5. Walked(x, 0, u, r, P, F)
    BY <2>2, <2>3, <2>4 DEF Walked
  <2>6. ~(d <= 0)
    BY <1>5
  <2>7. QED
    BY <1>3, <2>1, <2>5, <2>6
<1>7. ASSUME NEW n \in Nat, n \in T PROVE n + 1 \in T
  <2>1. PICK n2 : n2 = n + 1
    OBVIOUS
  <2>2. n2 \in Nat /\ n2 - 1 = n
    BY <2>1
  <2>3. SUFFICES ASSUME n2 <= Turns
                 PROVE  (n2 <= d => Walked(g[n2], n2, u, r, P, F)) /\ (d <= n2 => Walked(g[n2], d, u, r, P, F))
    BY <2>1, <2>2
  <2>4. n <= Turns /\ n2 \in 1..Turns
    BY <1>2, <2>1, <2>3
  <2>5. g[n2] = WireStep(buf, g[n])
    BY <1>3, <2>2, <2>4
  <2>6. CASE n2 <= d
    <3>1. n <= d
      BY <1>5, <2>1, <2>6
    <3>2. Walked(g[n], n, u, r, P, F)
      BY <1>7, <2>4, <3>1
    <3>3. n2 <= r - u
      BY <1>4, <2>6
    <3>4. Walked(g[n2], n2, u, r, P, F)
      BY <2>1, <2>5, <3>2, <3>3, WalkOn
    <3>5. d <= n2 => n2 = d
      BY <1>5, <2>2, <2>6
    <3>6. QED
      BY <3>4, <3>5
  <2>7. CASE ~(n2 <= d)
    <3>1. d <= n
      BY <1>5, <2>1, <2>7
    <3>2. Walked(g[n], d, u, r, P, F)
      BY <1>7, <2>4, <3>1
    <3>3. g[n].stop
      BY <1>4, <3>2 DEF Walked
    <3>4. WireStep(buf, g[n]) = g[n]
      BY <3>3 DEF WireStep
    <3>5. QED
      BY <2>5, <2>7, <3>2, <3>4
  <2>8. QED
    BY <2>6, <2>7
<1>8. Nat \subseteq T
  <2> HIDE DEF T
  <2>1. QED
    BY <1>6, <1>7, Ind
<1>9. Turns \in T /\ Turns <= Turns
  BY <1>2, <1>8
<1>10. Walked(g[Turns], d, u, r, P, F)
  BY <1>5, <1>9
<1>11. QED
  BY <1>1, <1>3, <1>4, <1>10 DEF Walked, Wired

\* The numbers on the wire.
LEMMA DeliveredNumbers ==
  ASSUME NEW u \in Nat, NEW r \in Nat, u <= r, NEW F, NEW o, Wired(o, u, r, F)
  PROVE  \A i \in u..(r - 1) : F[i] \in FramesOf(o)
<1>1. DOMAIN o = 1..(r - u) /\ \A k \in 1..(r - u) : o[k].f = F[u + k - 1]
  BY DEF Wired
<1>3. ASSUME NEW i \in u..(r - 1) PROVE \E k \in 1..(r - u) : F[i] = o[k].f
  <2>1. PICK k : k = i - u + 1
    OBVIOUS
  <2>2. k \in 1..(r - u) /\ u + k - 1 = i
    BY <2>1
  <2>3. QED
    BY <1>1, <2>2
<1>4. FramesOf(o) = {o[k].f : k \in 1..(r - u)}
  BY <1>1 DEF FramesOf
<1>5. QED
  BY <1>3, <1>4

\* usb_submit_urb refuses the URB.
LEMMA SubmitFailsKept ==
  ASSUME RingInv, SubmitFails
  PROVE  RingInv'
<1>1. PICK u \in Nat, r \in Nat, t \in Nat, z \in Nat, P \in [Nat -> Nat], N \in [Nat -> Nat],
           F \in [Nat -> Nat] : Layout(u, r, t, z, P, N, F)
  BY DEF RingInv, Laid
<1>2. Plain /\ Typed /\ OneUser /\ IndInv /\ IndInv'
  BY AsideStep DEF RingInv, Plain
<1>3. /\ rd.pc = "built" /\ BulkOutPending' = FALSE /\ rd' = [rd EXCEPT !.pc = "idle"]
      /\ dropped' = dropped \union FramesOf(OnWire(buf, NextBulkOutPosition))
      /\ UNCHANGED <<buf, ring, dataFlag, bulkOutReset, bForcePrintTX, BulkOutSize, pc, w, urb, resetCmds, next, sent>>
  BY DEF SubmitFails
<1>4. rd' \in [pc : {"idle", "claimed", "empty", "built"}, by : Contexts] /\ rd'.pc = "idle"
  BY <1>2, <1>3 DEF Typed
<1>5. Typed'
  <2>1. buf' \in [Pos -> Cells] /\ SavedPad' \in Cells /\ BulkOutSize' \in 0..BufSize /\ NextBulkOutPosition' \in Pos
    BY <1>2, <1>3 DEF Typed, ring
  <2>2. {bCurWriting', bCopySavePad', BulkOutPending', dataFlag', bulkOutReset', bForcePrintTX'} \subseteq BOOLEAN
    BY <1>2, <1>3 DEF Typed, ring
  <2>3. /\ urb' \in {"none", "flying", "done", "failed"} /\ resetCmds' \in Nat
        /\ next' \in 1..(MaxFrames + 1) /\ sent' \in Seq([f : Nat, ok : BOOLEAN, cnt : BOOLEAN])
    BY <1>2, <1>3 DEF Typed
  <2>4. QED
    BY <1>4, <2>1, <2>2, <2>3 DEF Typed
<1>6. OneUser' /\ HasUrb(u, r)' /\ u < r
  <2>1. HasUrb(u, r)
    BY <1>1 DEF Layout
  <2>2. u < r
    BY <1>3, <2>1 DEF HasUrb
  <2>3. QED
    BY <1>2, <1>3, <1>4, <2>2 DEF OneUser, HasUrb
<1>7. pc'["W"] = pc["W"]
  BY <1>3
<1>8. /\ Positions(u, r, t, z, P, N)' /\ Behind(u, r, z)' /\ Parked(u, r, t, z, P, N)'
      /\ Content(View, u, r, t, z, P, N, F)' /\ Current(View)' /\ Written'
  BY <1>1, <1>2, <1>3, <1>7, RingKept
<1>9. NoZeroLengthFrame' /\ SentIntact' /\ FirstSentInOrder'
  <2>1. dropped \subseteq dropped'
    BY <1>3
  <2>2. QED
    BY <1>2, <1>3, <2>1, HistoryKept
<1>10. Free' = Free
  BY <1>3, <1>7, FreeKept
<1>11. \A i \in u..(r - 1) : F[i] \in dropped'
  <2>1. PICK o : o = OnWire(buf, NextBulkOutPosition)
    OBVIOUS
  <2>2. Wired(o, u, r, F)
    BY <1>1, <1>2, <1>6, <2>1, Delivered
  <2>3. u <= r
    BY <1>6
  <2>4. \A i \in u..(r - 1) : F[i] \in FramesOf(o)
    BY <2>2, <2>3, DeliveredNumbers
  <2>5. QED
    BY <1>3, <2>1, <2>4
<1>12. Numbered(u, r, t, F)'
  <2>1. Numbered(u, r, t, F)
    BY <1>1 DEF Layout
  <2>2. Gone \subseteq Gone' /\ dropped' \subseteq Gone'
    BY <1>3 DEF Gone, FramesOf
  <2>3. QED
    BY <1>10, <1>11, <2>1, <2>2 DEF Numbered
<1>13. SentSoFar(u, r, t, F)'
  <2>1. SentSoFar(u, r, t, F)
    BY <1>1 DEF Layout
  <2>2. QED
    BY <1>3, <1>10, <2>1 DEF SentSoFar, FramesOf
<1>14. Laid'
  <2>1. Indexed(u, r, t, z, P, N) /\ Rising(u, t, z, P, N) /\ Joined(u, r, t, z, P, N) /\ LowEnough(u, t, P)
    BY <1>1 DEF Layout
  <2>2. QED
    BY <1>6, <1>8, <1>12, <1>13, <2>1, LaidAgain
<1>15. Plain'
  BY <1>2, <1>5, <1>6, <1>8, <1>9 DEF Plain
<1>16. QED
  BY <1>14, <1>15 DEF RingInv

\* Frame f is not out of turn behind the frames B.
Turn(f, B) ==
  f \in B \/ \A g \in Nat : g >= 1 => (g > f => g \notin B) /\ (g < f => g \in B \union dropped)

\* B is what has been sent, and frames u..i-1.
Earlier(B, u, i, F) ==
  /\ FramesOf(sent) \subseteq B /\ \A j \in u..(i - 1) : F[j] \in B
  /\ \A f \in B : f \in FramesOf(sent) \/ \E j \in u..(i - 1) : f = F[j]

\* A frame of the URB, now sent, is in its turn.
LEMMA InTurn ==
  ASSUME NEW u, NEW r, NEW t, NEW F, NEW i \in u..(r - 1), u \in Nat, r \in Nat, t \in Nat, r <= t, Free \in Int,
         Numbered(u, r, t, F), SentSoFar(u, r, t, F), NEW B, Earlier(B, u, i, F)
  PROVE  Turn(F[i], B)
<1>0. /\ FramesOf(sent) \subseteq B /\ \A j \in u..(i - 1) : F[j] \in B
      /\ \A f \in B : f \in FramesOf(sent) \/ \E j \in u..(i - 1) : f = F[j]
  BY DEF Earlier
<1>1. CASE \A j \in u..(r - 1) : F[j] \in FramesOf(sent)
  BY <1>0, <1>1 DEF Turn
<1>2. CASE \A k \in DOMAIN sent : \A j \in u..(r - 1) : sent[k].f < F[j]
  <2>1. /\ F \in [Nat -> Nat] /\ Free \in Int
        /\ \A j \in u..(t - 1) : 1 <= F[j] /\ F[j] < Free
        /\ \A j \in u..(t - 1) : \A k \in (j + 1)..(t - 1) : F[j] < F[k]
        /\ \A f \in 1..(Free - 1) : f \in Gone \/ \E j \in u..(t - 1) : f = F[j]
    BY DEF Numbered
  <2>2. i \in Nat /\ i \in u..(t - 1) /\ F[i] \in Nat
    BY <2>1
  <2>3. ASSUME NEW f \in Nat, f > F[i], f \in B PROVE FALSE
    <3>1. CASE f \in FramesOf(sent)
      <4>1. PICK k \in DOMAIN sent : f = sent[k].f
        BY <3>1 DEF FramesOf
      <4>2. f < F[i]
        BY <1>2, <4>1
      <4>3. QED
        BY <2>2, <2>3, <4>2
    <3>2. CASE \E j \in u..(i - 1) : f = F[j]
      <4>1. PICK j \in u..(i - 1) : f = F[j]
        BY <3>2
      <4>2. j \in u..(t - 1) /\ i \in (j + 1)..(t - 1)
        BY <2>2
      <4>3. F[j] < F[i]
        BY <2>1, <4>2
      <4>4. QED
        BY <2>2, <2>3, <4>1, <4>3
    <3>3. QED
      BY <1>0, <2>3, <3>1, <3>2
  <2>4. ASSUME NEW f \in Nat, f >= 1, f < F[i] PROVE f \in B \union dropped
    <3>1. F[i] < Free
      BY <2>1, <2>2
    <3>2. f \in 1..(Free - 1)
      BY <2>1, <2>2, <2>4, <3>1
    <3>3. f \in Gone \/ \E j \in u..(t - 1) : f = F[j]
      BY <2>1, <3>2
    <3>4. CASE f \in Gone
      BY <1>0, <3>4 DEF Gone
    <3>5. CASE \E j \in u..(t - 1) : f = F[j]
      <4>1. PICK j \in u..(t - 1) : f = F[j]
        BY <3>5
      <4>2. j \in Nat /\ F[j] \in Nat
        BY <2>1
      <4>3. j < i
        <5>1. SUFFICES ASSUME i <= j PROVE FALSE
          BY <2>2, <4>2
        <5>2. CASE i = j
          BY <2>2, <2>4, <4>1, <5>2
        <5>3. CASE i # j
          <6>1. j \in (i + 1)..(t - 1)
            BY <2>2, <4>2, <5>1, <5>3
          <6>2. F[i] < F[j]
            BY <2>1, <2>2, <6>1
          <6>3. QED
            BY <2>2, <2>4, <4>1, <4>2, <6>2
        <5>4. QED
          BY <5>2, <5>3
      <4>4. j \in u..(i - 1)
        BY <2>2, <4>2, <4>3
      <4>5. QED
        BY <1>0, <4>1, <4>4
    <3>6. QED
      BY <3>3, <3>4, <3>5
  <2>5. QED
    BY <2>3, <2>4 DEF Turn
<1>3. QED
  BY <1>1, <1>2 DEF SentSoFar

\* The frames of two histories.
LEMMA JoinedFrames ==
  ASSUME NEW s \in Seq(Report), NEW o \in Seq(Report)
  PROVE  /\ FramesOf(s \o o) = FramesOf(s) \union FramesOf(o)
         /\ DOMAIN (s \o o) = 1..(Len(s) + Len(o)) /\ s \o o \in Seq(Report)
         /\ Len(s) \in Nat /\ Len(o) \in Nat
<1>1. Len(s) \in Nat /\ Len(o) \in Nat /\ DOMAIN s = 1..Len(s) /\ DOMAIN o = 1..Len(o)
  OBVIOUS
<1>2. s \o o \in Seq(Report) /\ DOMAIN (s \o o) = 1..(Len(s) + Len(o))
  BY <1>1
<1>3. \A k \in 1..Len(s) : (s \o o)[k] = s[k] /\ k \in 1..(Len(s) + Len(o))
  BY <1>1
<1>4. \A k \in 1..Len(o) : (s \o o)[Len(s) + k] = o[k] /\ Len(s) + k \in 1..(Len(s) + Len(o))
  BY <1>1
<1>5. \A k \in 1..(Len(s) + Len(o)) : k \in 1..Len(s) \/ (k - Len(s) \in 1..Len(o) /\ k = Len(s) + (k - Len(s)))
  BY <1>1
<1>6. FramesOf(s) \subseteq FramesOf(s \o o)
  BY <1>1, <1>2, <1>3 DEF FramesOf
<1>7. FramesOf(o) \subseteq FramesOf(s \o o)
  BY <1>1, <1>2, <1>4 DEF FramesOf
<1>8. FramesOf(s \o o) \subseteq FramesOf(s) \union FramesOf(o)
  <2>1. SUFFICES ASSUME NEW k \in 1..(Len(s) + Len(o))
                 PROVE  (s \o o)[k].f \in FramesOf(s) \union FramesOf(o)
    BY <1>2 DEF FramesOf
  <2>2. CASE k \in 1..Len(s)
    BY <1>1, <1>3, <2>2 DEF FramesOf
  <2>3. CASE k - Len(s) \in 1..Len(o) /\ k = Len(s) + (k - Len(s))
    BY <1>1, <1>4, <2>3 DEF FramesOf
  <2>4. QED
    BY <1>5, <2>2, <2>3
<1>9. QED
  BY <1>1, <1>2, <1>6, <1>7, <1>8

\* What FirstSentInOrder says of frame i of a history.
InOrder(s, i) ==
  \/ s[i].f \in {s[j].f : j \in 1..(i - 1)}
  \/ \A f \in 1..(MaxFrames + 1) :
       /\ f > s[i].f => f \notin {s[j].f : j \in 1..(i - 1)}
       /\ f < s[i].f => f \in {s[j].f : j \in 1..(i - 1)} \union dropped

\* The frames of a URB, sent behind a history that is in order.
LEMMA OrderKept ==
  ASSUME NEW u, NEW r, NEW t, NEW F, u \in Nat, r \in Nat, t \in Nat, r <= t, u <= r, Free \in Int,
         Numbered(u, r, t, F), SentSoFar(u, r, t, F), sent \in Seq(Report), NEW o, Wired(o, u, r, F),
         FirstSentInOrder, NEW s, s = sent \o o, NEW i \in DOMAIN s
  PROVE  InOrder(s, i)
<1>1. o \in Seq(Report) /\ Len(o) = r - u /\ \A k \in 1..(r - u) : o[k].f = F[u + k - 1]
  BY DEF Wired
<1>2. PICK n : n = Len(sent)
  OBVIOUS
<1>3. n \in Nat /\ DOMAIN sent = 1..n /\ DOMAIN s = 1..(n + (r - u))
  <2>1. DOMAIN (sent \o o) = 1..(Len(sent) + Len(o)) /\ Len(sent) \in Nat
    BY <1>1, JoinedFrames
  <2>2. QED
    BY <1>1, <1>2, <2>1
<1>4. \A k \in 1..n : s[k] = sent[k]
  BY <1>1, <1>2
<1>5. \A k \in 1..(r - u) : s[n + k] = o[k]
  BY <1>1, <1>2
<1>6. CASE i \in 1..n
  <2>1. {s[j].f : j \in 1..(i - 1)} = {sent[j].f : j \in 1..(i - 1)}
    <3>1. \A j \in 1..(i - 1) : s[j] = sent[j]
      BY <1>3, <1>4, <1>6
    <3>2. QED
      BY <3>1
  <2>2. s[i] = sent[i]
    BY <1>4, <1>6
  <2>3. InOrder(sent, i)
    BY <1>3, <1>6 DEF FirstSentInOrder, InOrder
  <2>4. QED
    BY <2>1, <2>2, <2>3 DEF InOrder
<1>7. CASE i \notin 1..n
  <2>1. PICK k : k = i - n
    OBVIOUS
  <2>2. PICK m : m = u + k - 1
    OBVIOUS
  <2>a. i \in Nat /\ n < i /\ i <= n + (r - u)
    BY <1>3, <1>7
  <2>3. k \in 1..(r - u) /\ i = n + k /\ m \in u..(r - 1) /\ k - 1 = m - u
    BY <1>3, <2>a, <2>1, <2>2, SMTT(20)
  <2>4. s[i].f = F[m]
    BY <1>1, <1>5, <2>2, <2>3
  <2>5. PICK B : B = {s[j].f : j \in 1..(i - 1)}
    OBVIOUS
  <2>6. Turn(F[m], B)
    <3>1. ASSUME NEW j \in 1..(i - 1) PROVE s[j].f \in FramesOf(sent) \/ \E l \in u..(m - 1) : s[j].f = F[l]
      <4>1. CASE j \in 1..n
        BY <1>3, <1>4, <4>1 DEF FramesOf
      <4>2. CASE j \notin 1..n
        <5>1. PICK l : l = j - n
          OBVIOUS
        <5>2. l \in 1..(r - u) /\ j = n + l /\ u + l - 1 \in u..(m - 1)
          BY <1>3, <2>3, <4>2, <5>1
        <5>3. s[j].f = F[u + l - 1]
          BY <1>1, <1>5, <5>2
        <5>4. QED
          BY <5>2, <5>3
      <4>3. QED
        BY <4>1, <4>2
    <3>2. ASSUME NEW f \in FramesOf(sent) PROVE f \in B
      <4>1. PICK j \in 1..n : f = sent[j].f
        BY <1>3 DEF FramesOf
      <4>2. j \in 1..(i - 1) /\ s[j] = sent[j]
        BY <1>3, <1>4, <2>3
      <4>3. QED
        BY <2>5, <4>1, <4>2
    <3>3. ASSUME NEW l \in u..(m - 1) PROVE F[l] \in B
      <4>1. PICK j : j = l - u + 1
        OBVIOUS
      <4>2. j \in 1..(r - u) /\ u + j - 1 = l /\ n + j \in 1..(i - 1)
        BY <1>3, <2>3, <4>1
      <4>3. s[n + j].f = F[l]
        BY <1>1, <1>5, <4>2
      <4>4. QED
        BY <2>5, <4>2, <4>3
    <3>4. \A f \in B : f \in FramesOf(sent) \/ \E l \in u..(m - 1) : f = F[l]
      BY <2>5, <3>1
    <3>5. FramesOf(sent) \subseteq B /\ \A l \in u..(m - 1) : F[l] \in B
      BY <3>2, <3>3
    <3>6. Earlier(B, u, m, F)
      BY <3>4, <3>5 DEF Earlier
    <3>7. QED
      BY <2>3, <3>6, InTurn
  <2>7. F[m] \in B \/ \A f \in Nat : f >= 1 => (f > F[m] => f \notin B) /\ (f < F[m] => f \in B \union dropped)
    BY <2>6 DEF Turn
  <2>8. MaxFrames \in Nat
    BY TxRingAssumption
  <2>9. \A f \in 1..(MaxFrames + 1) : f \in Nat /\ f >= 1
    BY <2>8
  <2>10. F[m] \in B \/ \A f \in 1..(MaxFrames + 1) : (f > F[m] => f \notin B) /\ (f < F[m] => f \in B \union dropped)
    BY <2>7, <2>9
  <2>11. QED
    BY <2>4, <2>5, <2>10 DEF InOrder
<1>8. QED
  BY <1>6, <1>7

\* Entry i of s is one of h's or of o's.
OfEither(s, i, h, o) == (i \in DOMAIN h /\ s[i] = h[i]) \/ \E k \in DOMAIN o : s[i] = o[k]

\* A history, continued.
LEMMA Appended ==
  ASSUME NEW h \in Seq(Report), NEW o \in Seq(Report), NEW s, s = h \o o, NEW i \in DOMAIN s
  PROVE  OfEither(s, i, h, o)
<1>1. PICK n, m : n = Len(h) /\ m = Len(o)
  OBVIOUS
<1>2. n \in Nat /\ m \in Nat /\ DOMAIN h = 1..n /\ DOMAIN o = 1..m
  BY <1>1
<1>3. DOMAIN s = 1..(n + m)
  BY <1>1, JoinedFrames
<1>4. (\A k \in 1..n : s[k] = h[k]) /\ (\A k \in 1..m : s[n + k] = o[k])
  BY <1>1, <1>2
<1>5. CASE i \in 1..n
  BY <1>2, <1>4, <1>5 DEF OfEither
<1>6. CASE i \notin 1..n
  <2>1. PICK k : k = i - n
    OBVIOUS
  <2>2. k \in 1..m /\ i = n + k
    BY <1>2, <1>3, <1>6, <2>1
  <2>3. QED
    BY <1>2, <1>4, <2>2 DEF OfEither
<1>7. QED
  BY <1>5, <1>6

\* The controller has sent the URB.
LEMMA UrbDoneKept ==
  ASSUME RingInv, UrbDone
  PROVE  RingInv'
<1>1. PICK u \in Nat, r \in Nat, t \in Nat, z \in Nat, P \in [Nat -> Nat], N \in [Nat -> Nat],
           F \in [Nat -> Nat] : Layout(u, r, t, z, P, N, F)
  BY DEF RingInv, Laid
<1>2. Plain /\ Typed /\ OneUser /\ IndInv /\ IndInv'
  BY AsideStep DEF RingInv, Plain
<1>3. PICK o : o = OnWire(buf, NextBulkOutPosition)
  OBVIOUS
<1>4. /\ urb = "flying" /\ urb' = "done" /\ sent' = sent \o o
      /\ UNCHANGED <<buf, ring, flags, BulkOutSize, pc, w, rd, resetCmds, next, dropped>>
  BY <1>3 DEF UrbDone
<1>5. UNCHANGED <<BulkOutPending, dataFlag, bulkOutReset, bForcePrintTX>>
  BY <1>4 DEF flags
<1>6. u < r
  BY <1>1, <1>4 DEF Layout, HasUrb
<1>7. Wired(o, u, r, F)
  BY <1>1, <1>2, <1>3, <1>6, Delivered
<1>8. /\ Indexed(u, r, t, z, P, N) /\ Rising(u, t, z, P, N) /\ Joined(u, r, t, z, P, N) /\ LowEnough(u, t, P)
      /\ Numbered(u, r, t, F) /\ SentSoFar(u, r, t, F)
  BY <1>1 DEF Layout
<1>9. u <= r /\ r <= t
  BY <1>8 DEF Indexed
<1>10. sent \in Seq(Report) /\ o \in Seq(Report)
  BY <1>2, <1>7 DEF Typed, Report, Wired
<1>11. FramesOf(sent') = FramesOf(sent) \union FramesOf(o) /\ sent' \in Seq(Report)
  BY <1>4, <1>10, JoinedFrames
<1>12. \A i \in u..(r - 1) : F[i] \in FramesOf(o)
  BY <1>7, <1>9, DeliveredNumbers
<1>13. Free \in Int
  <2>1. next \in Int
    BY <1>2, TxRingAssumption DEF Typed
  <2>2. QED
    BY <2>1 DEF Free
<1>14. pc'["W"] = pc["W"] /\ Free' = Free
  BY <1>4, FreeKept
<1>15. Typed'
  <2>1. buf' \in [Pos -> Cells] /\ SavedPad' \in Cells /\ BulkOutSize' \in 0..BufSize /\ NextBulkOutPosition' \in Pos
    BY <1>2, <1>4 DEF Typed, ring
  <2>2. {bCurWriting', bCopySavePad', BulkOutPending', dataFlag', bulkOutReset', bForcePrintTX'} \subseteq BOOLEAN
    BY <1>2, <1>4, <1>5 DEF Typed, ring
  <2>3. /\ urb' \in {"none", "flying", "done", "failed"} /\ resetCmds' \in Nat /\ next' \in 1..(MaxFrames + 1)
        /\ rd' \in [pc : {"idle", "claimed", "empty", "built"}, by : Contexts]
    BY <1>2, <1>4 DEF Typed
  <2>4. sent' \in Seq([f : Nat, ok : BOOLEAN, cnt : BOOLEAN])
    BY <1>11 DEF Report
  <2>5. QED
    BY <2>1, <2>2, <2>3, <2>4 DEF Typed
<1>16. OneUser' /\ HasUrb(u, r)'
  BY <1>2, <1>4, <1>5, <1>6 DEF OneUser, HasUrb
<1>17. /\ Positions(u, r, t, z, P, N)' /\ Behind(u, r, z)' /\ Parked(u, r, t, z, P, N)'
       /\ Content(View, u, r, t, z, P, N, F)' /\ Current(View)' /\ Written'
  BY <1>1, <1>2, <1>4, <1>14, RingKept
<1>18. PICK s : s = sent \o o
  OBVIOUS
<1>19. sent' = s /\ \A k \in DOMAIN o : o[k].ok /\ \E i \in u..(r - 1) : o[k].f = F[i]
  <2>1. DOMAIN o = 1..(r - u)
    BY <1>7 DEF Wired
  <2>2. ASSUME NEW k \in 1..(r - u) PROVE o[k].ok /\ \E i \in u..(r - 1) : o[k].f = F[i]
    <3>1. u + k - 1 \in u..(r - 1)
      OBVIOUS
    <3>2. QED
      BY <1>7, <3>1 DEF Wired
  <2>3. QED
    BY <1>4, <1>18, <2>1, <2>2
<1>20. \A i \in DOMAIN s : (i \in DOMAIN sent /\ s[i] = sent[i]) \/ \E k \in DOMAIN o : s[i] = o[k]
  <2>1. \A i \in DOMAIN s : OfEither(s, i, sent, o)
    BY <1>10, <1>18, Appended
  <2>2. QED
    BY <2>1 DEF OfEither
<1>22. SentIntact'
  <2>1. SentIntact
    BY <1>2 DEF Plain
  <2>2. \A i \in DOMAIN s : s[i].ok
    BY <1>19, <1>20, <2>1 DEF SentIntact
  <2>3. QED
    BY <1>19, <2>2 DEF SentIntact
<1>23. FirstSentInOrder'
  <2>1. FirstSentInOrder
    BY <1>2 DEF Plain
  <2>2. \A i \in DOMAIN s : InOrder(s, i)
    BY <1>7, <1>8, <1>9, <1>10, <1>13, <1>18, <2>1, OrderKept
  <2>3. dropped' = dropped
    BY <1>4
  <2>4. QED
    BY <1>19, <2>2, <2>3 DEF FirstSentInOrder, InOrder
<1>24. NoZeroLengthFrame'
  BY <1>2, <1>5 DEF Plain, NoZeroLengthFrame
<1>25. Numbered(u, r, t, F)'
  <2>1. Gone \subseteq Gone' /\ \A i \in u..(r - 1) : F[i] \in Gone'
    BY <1>4, <1>11, <1>12 DEF Gone
  <2>2. QED
    BY <1>8, <1>14, <2>1 DEF Numbered
<1>26. SentSoFar(u, r, t, F)'
  <2>1. ASSUME NEW i \in u..(r - 1) PROVE F[i] < Free /\ \A j \in r..(t - 1) : F[i] < F[j]
    <3>1. i \in u..(t - 1) /\ \A j \in r..(t - 1) : j \in (i + 1)..(t - 1)
      BY <1>9
    <3>2. QED
      BY <1>8, <3>1 DEF Numbered
  <2>2. \A i \in DOMAIN sent : sent[i].f < Free /\ \A j \in r..(t - 1) : sent[i].f < F[j]
    BY <1>8 DEF SentSoFar
  <2>3. \A i \in DOMAIN s : s[i].f < Free /\ \A j \in r..(t - 1) : s[i].f < F[j]
    <3>1. SUFFICES ASSUME NEW i \in DOMAIN s PROVE s[i].f < Free /\ \A j \in r..(t - 1) : s[i].f < F[j]
      OBVIOUS
    <3>2. CASE i \in DOMAIN sent /\ s[i] = sent[i]
      BY <2>2, <3>2
    <3>3. CASE \E k \in DOMAIN o : s[i] = o[k]
      <4>1. PICK l \in u..(r - 1) : s[i].f = F[l]
        BY <1>19, <3>3
      <4>2. QED
        BY <2>1, <4>1
    <3>4. QED
      BY <1>20, <3>2, <3>3
  <2>4. \A i \in u..(r - 1) : F[i] \in FramesOf(sent')
    BY <1>11, <1>12
  <2>5. QED
    BY <1>14, <1>19, <2>3, <2>4 DEF SentSoFar
<1>27. Laid'
  BY <1>8, <1>16, <1>17, <1>25, <1>26, LaidAgain
<1>28. Plain'
  BY <1>2, <1>15, <1>16, <1>17, <1>22, <1>23, <1>24 DEF Plain
<1>29. QED
  BY <1>27, <1>28 DEF RingInv
-----------------------------------------------------------------------------
(***************************************************************************)
(* The frame loop of RTUSBBulkOutDataPacket.                               *)
(***************************************************************************)

\* The states of the loop.
ScanStates == [b : [Pos -> Cells], pos : Nat, size : Nat, stop : BOOLEAN, enext : Nat,
               round : BOOLEAN, err : BOOLEAN, hdr : Nat]

\* A header whose two flags are set, and a ring in which they are.
SetFlags(c, v) == [[c EXCEPT !.nv = v] EXCEPT !.last = FALSE]
PutAt(b, p, d) == [b EXCEPT ![p] = d]
SetIn(b, p, v) == [b EXCEPT ![p].nv = @ \/ v, ![p].last = FALSE]

\* The header.
LEMMA FlagsSet ==
  ASSUME NEW c \in Cells, NEW v \in BOOLEAN, NEW y, y = SetFlags(c, v)
  PROVE  y \in Cells /\ y.f = c.f /\ y.k = c.k /\ y.len = c.len /\ y.last = FALSE /\ y.nv = v
<1>1. PICK d : d = [c EXCEPT !.nv = v]
  OBVIOUS
<1>2. d \in Cells /\ d.f = c.f /\ d.k = c.k /\ d.len = c.len /\ d.nv = v
  BY <1>1 DEF Cells
<1>3. y = [d EXCEPT !.last = FALSE]
  BY <1>1 DEF SetFlags
<1>4. y \in Cells /\ y.f = d.f /\ y.k = d.k /\ y.len = d.len /\ y.nv = d.nv /\ y.last = FALSE
  BY <1>2, <1>3 DEF Cells
<1>5. QED
  BY <1>2, <1>4

\* The ring.
LEMMA FlagsIn ==
  ASSUME NEW b \in [Pos -> Cells], NEW p \in Pos, NEW v \in BOOLEAN, b[p].nv = FALSE
  PROVE  SetIn(b, p, v) = PutAt(b, p, SetFlags(b[p], v))
<1>1. PICK e : e = (b[p].nv \/ v)
  OBVIOUS
<1>2. e = v
  BY <1>1
<1>3. SetIn(b, p, v) = [b EXCEPT ![p] = [[b[p] EXCEPT !.nv = e] EXCEPT !.last = FALSE]]
  BY <1>1 DEF SetIn
<1>4. QED
  BY <1>2, <1>3 DEF SetFlags, PutAt

\* The header of frame f, which takes n units and is not marked, ...
Headed(c, f, n) == c.f = f /\ c.k = 0 /\ c.len = n /\ ~c.nv

\* ... and marked: does another frame follow at e?
Flagged(c, f, n, e) ==
  c.f = f /\ c.k = 0 /\ c.len = n /\ ~c.last /\ (c.nv <=> e # CurWritePosition)

\* y is x with frame f, n units at p, in the URB.
Joins(x, y, p, f, n) ==
  /\ y \in ScanStates /\ y.pos = p + n /\ y.size = x.size + n /\ y.hdr = p
  /\ y.stop = x.stop /\ y.enext = x.enext /\ y.round = x.round /\ y.err = x.err
  /\ Flagged(y.b[p], f, n, p + n)
  /\ \A q \in Pos : q # p => y.b[q] = x.b[q]

\* A frame joins the URB.
LEMMA FrameJoins ==
  ASSUME NEW x \in ScanStates, NEW p \in Pos, p = x.pos, NEW f, NEW n \in Nat, Headed(x.b[p], f, n),
         NEW y, y = ScanFrame(x)
  PROVE  Joins(x, y, p, f, n)
<1>1. x.b \in [Pos -> Cells] /\ p \in Nat /\ x.size \in Nat
  BY BufferSize DEF ScanStates
<1>2. PICK h : h = At(x.b, x.pos)
  OBVIOUS
<1>3. h.len = n
  <2>1. h = x.b[p]
    BY <1>2 DEF At
  <2>2. QED
    BY <2>1 DEF Headed
<1>4. PICK v \in BOOLEAN : v = (p + n # CurWritePosition)
  OBVIOUS
<1>5. PICK b, b1 : b = x.b /\ b1 = SetIn(b, p, v)
  OBVIOUS
<1>6. PICK c : c = b[p]
  OBVIOUS
<1>7. b \in [Pos -> Cells] /\ c \in Cells /\ Headed(c, f, n)
  BY <1>1, <1>5, <1>6
<1>8. PICK d : d = SetFlags(c, v)
  OBVIOUS
<1>9. d \in Cells /\ d.f = c.f /\ d.k = c.k /\ d.len = c.len /\ d.last = FALSE /\ d.nv = v
  BY <1>7, <1>8, FlagsSet
<1>10. c.nv = FALSE
  BY <1>7 DEF Headed, Cells
<1>11. SetIn(b, p, v) = PutAt(b, p, SetFlags(b[p], v))
  BY <1>6, <1>7, <1>10, FlagsIn
<1>12. b1 = [b EXCEPT ![p] = d]
  BY <1>5, <1>6, <1>8, <1>11 DEF PutAt
<1>13. b1 \in [Pos -> Cells] /\ b1[p] = d /\ \A q \in Pos : q # p => b1[q] = b[q]
  BY <1>7, <1>9, <1>12
<1>14. Flagged(d, f, n, p + n)
  BY <1>4, <1>7, <1>9 DEF Flagged, Headed
<1>15. y = [x EXCEPT !.b = b1, !.pos = p + n, !.size = x.size + n, !.hdr = p]
  BY <1>2, <1>3, <1>4, <1>5 DEF ScanFrame, SetIn
<1>16. p + n \in Nat /\ x.size + n \in Nat
  BY <1>1
<1>17. /\ y \in ScanStates /\ y.pos = p + n /\ y.size = x.size + n /\ y.hdr = p /\ y.b = b1
       /\ y.stop = x.stop /\ y.enext = x.enext /\ y.round = x.round /\ y.err = x.err
  BY <1>1, <1>13, <1>15, <1>16 DEF ScanStates
<1>18. QED
  BY <1>5, <1>13, <1>14, <1>17 DEF Joins

\* The headers of frames r..m-1 are marked, and nothing else has changed.
Marked(b, r, m, P, N, F) ==
  /\ \A i \in r..(m - 1) : Flagged(b[P[i]], F[i], N[i], P[i] + N[i])
  /\ \A q \in Pos : (\A i \in r..(m - 1) : q # P[i]) => b[q] = View[q]

\* The loop has taken frames r..m-1 and goes on.
Running(x, m, r, z, P, N, F) ==
  /\ x \in ScanStates /\ Marked(x.b, r, m, P, N, F)
  /\ ~x.stop /\ ~x.err /\ ~x.round
  /\ x.pos = P[m] /\ x.size = P[m] - P[r] /\ (m > r => x.hdr = P[m - 1])
  /\ \A i \in r..(m - 1) : i # z

\* The loop has ended with frames r..m-1.
Ended(x, m, r, z, P, N, F) ==
  /\ x \in ScanStates /\ Marked(x.b, r, m, P, N, F)
  /\ x.stop /\ ~x.err /\ (x.round <=> z = m - 1)
  /\ x.pos = P[m - 1] + N[m - 1] /\ x.size = P[m - 1] + N[m - 1] - P[r] /\ x.hdr = P[m - 1]
  /\ x.enext = P[m]
  /\ \A i \in r..(m - 2) : i # z

\* A frame that waits does not start at the write position.
LEMMA Ahead ==
  ASSUME NEW u, NEW r, NEW t, NEW z, NEW P, NEW N, NEW j \in r..(t - 1),
         Indexed(u, r, t, z, P, N), Rising(u, t, z, P, N), Positions(u, r, t, z, P, N), Behind(u, r, z)
  PROVE  P[j] # CurWritePosition
<1>1. /\ u \in Nat /\ r \in Nat /\ t \in Nat /\ z \in Nat /\ 1 <= u /\ u <= r /\ r <= t /\ z < t
      /\ P \in [Nat -> Nat] /\ N \in [Nat -> Nat]
      /\ \A i \in u..(t - 1) : N[i] > Ovh /\ P[i] >= 1 /\ P[i] + N[i] < BufSize
  BY DEF Indexed
<1>2. CurWritePosition = P[t] /\ j \in Nat /\ j \in u..(t - 1) /\ t \in (j + 1)..t
  BY <1>1 DEF Positions
<1>3. P[j] \in Nat /\ P[t] \in Nat /\ N[j] \in Nat /\ P[u] \in Nat /\ N[u] \in Nat
  BY <1>1, <1>2
<1>4. N[j] > 0
  <2>1. N[j] > Ovh
    BY <1>1, <1>2
  <2>2. QED
    BY <1>3, <2>1, Constants
<1>5. CASE ~(j <= z)
  <2>1. P[j] + N[j] <= P[t]
    BY <1>2, <1>5 DEF Rising
  <2>2. QED
    BY <1>2, <1>3, <1>4, <2>1
<1>6. CASE j <= z
  <2>1. u <= z /\ u < r
    <3>1. u <= z
      BY <1>1, <1>2, <1>6
    <3>2. u # r
      BY <1>1, <3>1 DEF Positions
    <3>3. QED
      BY <1>1, <3>1, <3>2
  <2>2. NextBulkOutPosition = P[u]
    BY <2>1 DEF Positions
  <2>3. P[u] + N[u] <= P[j]
    <3>1. u \in u..(t - 1) /\ j \in (u + 1)..t /\ ~(u <= z /\ z < j)
      BY <1>1, <1>2, <1>6, <2>1
    <3>2. QED
      BY <3>1 DEF Rising
  <2>4. N[u] > Ovh /\ P[u] >= 1
    BY <1>1, <2>1
  <2>5. P[t] < P[u] \/ P[t] = 1
    BY <1>1, <1>2, <2>1, <2>2 DEF Behind
  <2>6. P[j] > P[t]
    BY <1>3, <2>3, <2>4, <2>5, Constants
  <2>7. QED
    BY <1>2, <1>3, <2>6
<1>7. QED
  BY <1>5, <1>6

\* The loop stops behind the frames it has taken.
LEMMA StopHere ==
  ASSUME NEW u, NEW r, NEW t, NEW z, NEW P, NEW N, NEW F, NEW x, NEW m \in Nat, NEW y,
         Indexed(u, r, t, z, P, N), Joined(u, r, t, z, P, N), r < m, m <= t,
         Running(x, m, r, z, P, N, F), y = [x EXCEPT !.stop = TRUE, !.enext = ScanEnd(x)]
  PROVE  Ended(y, m, r, z, P, N, F)
<1>1. r \in Nat /\ t \in Nat /\ z \in Nat /\ P \in [Nat -> Nat] /\ N \in [Nat -> Nat]
  BY DEF Indexed
<1>2. m - 1 \in r..(t - 1) /\ m - 1 \in r..(m - 1) /\ m - 1 \in Nat /\ (m - 1) + 1 = m
  BY <1>1
<1>3. z # m - 1
  BY <1>2 DEF Running
<1>4. P[m] = P[m - 1] + N[m - 1]
  BY <1>2, <1>3 DEF Joined
<1>5. P[m] \in Nat
  BY <1>1
<1>6. x \in ScanStates /\ ScanEnd(x) = P[m]
  BY DEF Running, ScanEnd
<1>7. /\ y \in ScanStates /\ y.b = x.b /\ y.stop = TRUE /\ y.err = x.err /\ y.round = x.round
      /\ y.pos = x.pos /\ y.size = x.size /\ y.hdr = x.hdr /\ y.enext = P[m]
  BY <1>5, <1>6 DEF ScanStates
<1>8. r..(m - 2) \subseteq r..(m - 1)
  BY <1>1
<1>9. y.pos = P[m - 1] + N[m - 1] /\ y.size = P[m - 1] + N[m - 1] - P[r] /\ y.hdr = P[m - 1]
  <2>1. x.pos = P[m] /\ x.size = P[m] - P[r] /\ x.hdr = P[m - 1]
    BY <1>1 DEF Running
  <2>2. P[m - 1] \in Nat /\ N[m - 1] \in Nat /\ P[r] \in Nat
    BY <1>1, <1>2
  <2>3. y.pos = P[m] /\ y.size = P[m] - P[r] /\ y.hdr = P[m - 1]
    BY <1>7, <2>1
  <2>4. QED
    BY <1>4, <1>5, <2>2, <2>3
<1>10. ~y.err /\ (y.round <=> z = m - 1) /\ Marked(y.b, r, m, P, N, F)
  BY <1>3, <1>7 DEF Running
<1>11. \A i \in r..(m - 2) : i # z
  BY <1>8 DEF Running
<1>12. QED
  BY <1>7, <1>9, <1>10, <1>11 DEF Ended

\* The header the loop comes to.
LEMMA NextHeader ==
  ASSUME NEW u, NEW r, NEW t, NEW z, NEW P, NEW N, NEW F, NEW x, NEW m \in r..(t - 1),
         Layout(u, r, t, z, P, N, F), Running(x, m, r, z, P, N, F)
  PROVE  /\ P[m] \in Pos /\ Headed(x.b[P[m]], F[m], N[m]) /\ (x.b[P[m]].last <=> m = z)
         /\ At(x.b, x.pos) = x.b[P[m]]
         /\ \A i \in r..(m - 1) : P[i] # P[m]
<1>1. Indexed(u, r, t, z, P, N) /\ Rising(u, t, z, P, N) /\ Content(View, u, r, t, z, P, N, F)
  BY DEF Layout
<1>2. /\ u \in Nat /\ r \in Nat /\ t \in Nat /\ z \in Nat /\ u <= r /\ r <= t
      /\ P \in [Nat -> Nat] /\ N \in [Nat -> Nat] /\ m \in Nat /\ m \in u..(t - 1)
  BY <1>1 DEF Indexed
<1>3. P[m] \in Nat /\ N[m] \in Nat /\ P[m] + N[m] < BufSize
  BY <1>1, <1>2 DEF Indexed
<1>4. P[m] \in Pos
  BY <1>3, BufferSize
<1>5. ASSUME NEW i \in r..(m - 1) PROVE P[i] # P[m]
  <2>1. \A k \in r..(m - 1) : k # z
    BY DEF Running
  <2>2. i \in Nat /\ i \in u..(t - 1) /\ m \in (i + 1)..t
    BY <1>2
  <2>3. ~(i <= z /\ z < m)
    <3>1. SUFFICES ASSUME i <= z, z < m PROVE FALSE
      OBVIOUS
    <3>2. z \in r..(m - 1)
      BY <1>2, <2>2, <3>1
    <3>3. QED
      BY <2>1, <3>2
  <2>4. P[i] + N[i] <= P[m]
    BY <1>1, <2>2, <2>3 DEF Rising
  <2>5. P[i] \in Nat /\ N[i] \in Nat /\ N[i] > Ovh
    BY <1>1, <1>2, <2>2 DEF Indexed
  <2>6. N[i] > 0
    BY <2>5, Constants
  <2>7. QED
    BY <1>3, <2>4, <2>5, <2>6
<1>6. x.b[P[m]] = View[P[m]]
  BY <1>4, <1>5 DEF Running, Marked
<1>7. Headed(View[P[m]], F[m], N[m]) /\ (View[P[m]].last <=> m = z)
  <2>1. PICK c, l : c = View[P[m]] /\ l = (m = z)
    OBVIOUS
  <2>2. c = TxInfo(F[m], N[m], l, FALSE)
    BY <1>1, <2>1 DEF Content
  <2>3. c.f = F[m] /\ c.k = 0 /\ c.len = N[m] /\ c.last = l /\ c.nv = FALSE
    BY <2>2 DEF TxInfo
  <2>4. QED
    BY <2>1, <2>3 DEF Headed
<1>8. x.pos = P[m]
  BY DEF Running
<1>9. At(x.b, x.pos) = x.b[P[m]]
  BY <1>4, <1>8 DEF At
<1>10. QED
  BY <1>4, <1>5, <1>6, <1>7, <1>9

\* The loop takes it.
LEMMA Taken ==
  ASSUME NEW u, NEW r, NEW t, NEW z, NEW P, NEW N, NEW F, NEW x, NEW m \in r..(t - 1),
         Layout(u, r, t, z, P, N, F), Running(x, m, r, z, P, N, F), NEW y, y = ScanFrame(x),
         NEW m2, m2 = m + 1
  PROVE  /\ y \in ScanStates /\ Marked(y.b, r, m2, P, N, F)
         /\ y.pos = P[m] + N[m] /\ y.size = P[m] + N[m] - P[r] /\ y.hdr = P[m]
         /\ y.stop = x.stop /\ y.round = x.round /\ y.err = x.err
<1>1. Indexed(u, r, t, z, P, N)
  BY DEF Layout
<1>2. r \in Nat /\ t \in Nat /\ m \in Nat /\ P \in [Nat -> Nat] /\ N \in [Nat -> Nat]
  BY <1>1 DEF Indexed
<1>3. P[m] \in Nat /\ N[m] \in Nat /\ P[r] \in Nat
  BY <1>2
<1>4. P[m] \in Pos /\ Headed(x.b[P[m]], F[m], N[m])
  BY NextHeader
<1>5. \A i \in r..(m - 1) : P[i] # P[m]
  BY NextHeader
<1>6. PICK p \in Pos, n \in Nat : p = P[m] /\ n = N[m]
  BY <1>3, <1>4
<1>7. x \in ScanStates /\ p = x.pos /\ Headed(x.b[p], F[m], n)
  BY <1>4, <1>6 DEF Running
<1>8. /\ y \in ScanStates /\ y.pos = p + n /\ y.size = x.size + n /\ y.hdr = p
      /\ y.stop = x.stop /\ y.round = x.round /\ y.err = x.err
      /\ Flagged(y.b[p], F[m], n, p + n)
      /\ \A q \in Pos : q # p => y.b[q] = x.b[q]
  <2>1. PICK f : f = F[m]
    OBVIOUS
  <2>2. Headed(x.b[p], f, n)
    BY <1>7, <2>1
  <2>3. Joins(x, y, p, f, n)
    BY <1>7, <2>2, FrameJoins
  <2>4. QED
    BY <2>1, <2>3 DEF Joins
<1>9. \A q \in Pos : q # p => y.b[q] = x.b[q]
  BY <1>8
<1>10. ASSUME NEW i \in r..(m2 - 1)
       PROVE  Flagged(y.b[P[i]], F[i], N[i], P[i] + N[i])
  <2>1. CASE i = m
    BY <1>6, <1>8, <2>1
  <2>2. CASE i # m
    <3>1. i \in r..(m - 1) /\ i \in Nat /\ i < t
      BY <1>2, <2>2
    <3>2. P[i] # p
      BY <1>5, <1>6, <3>1
    <3>3. P[i] \in Pos
      <4>1. u \in Nat /\ u <= r
        BY <1>1 DEF Indexed
      <4>2. i \in u..(t - 1)
        BY <1>2, <3>1, <4>1
      <4>3. P[i] \in Nat /\ N[i] \in Nat /\ P[i] + N[i] < BufSize
        BY <1>1, <1>2, <3>1, <4>2 DEF Indexed
      <4>4. QED
        BY <4>3, BufferSize
    <3>4. y.b[P[i]] = x.b[P[i]]
      BY <1>9, <3>2, <3>3
    <3>5. Flagged(x.b[P[i]], F[i], N[i], P[i] + N[i])
      BY <3>1 DEF Running, Marked
    <3>6. QED
      BY <3>4, <3>5
  <2>3. QED
    BY <2>1, <2>2
<1>11. ASSUME NEW q \in Pos, \A i \in r..(m2 - 1) : q # P[i] PROVE y.b[q] = View[q]
  <2>1. m \in r..(m2 - 1) /\ r..(m - 1) \subseteq r..(m2 - 1)
    BY <1>2
  <2>2. q # p /\ \A i \in r..(m - 1) : q # P[i]
    BY <1>6, <1>11, <2>1
  <2>3. x.b[q] = View[q]
    BY <2>2 DEF Running, Marked
  <2>4. QED
    BY <1>9, <2>2, <2>3
<1>12. Marked(y.b, r, m2, P, N, F)
  BY <1>10, <1>11 DEF Marked
<1>13. y.size = P[m] + N[m] - P[r]
  <2>1. x.size = P[m] - P[r]
    BY DEF Running
  <2>2. QED
    BY <1>3, <1>6, <1>8, <2>1
<1>14. QED
  BY <1>6, <1>8, <1>12, <1>13

\* How a turn can end the loop.
Stopped(x, e) == [x EXCEPT !.stop = TRUE, !.enext = e]
Wrapped(x) == [x EXCEPT !.stop = TRUE, !.enext = 1, !.round = TRUE]

\* A turn of the loop that meets no frame of zero length.
LEMMA TurnCases ==
  ASSUME NEW x, ~x.stop, NEW h, h = At(x.b, x.pos), NEW on, on = ScanFrame(x)
  PROVE  /\ x.size >= BulkCap \/ x.pos = CurWritePosition => ScanStep(x) = Stopped(x, ScanEnd(x))
         /\ ~(x.size >= BulkCap \/ x.pos = CurWritePosition) /\ h.len # 0 =>
              /\ h.last => ScanStep(x) = Wrapped(on)
              /\ ~h.last /\ ~Aggregation => ScanStep(x) = Stopped(on, on.pos)
              /\ ~h.last /\ Aggregation => ScanStep(x) = on
BY DEF ScanStep, Stopped, Wrapped

\* The fields of such a state.
LEMMA StoppedFields ==
  ASSUME NEW x \in ScanStates, NEW e \in Nat, NEW y, y = Stopped(x, e)
  PROVE  /\ y \in ScanStates /\ y.b = x.b /\ y.stop = TRUE /\ y.err = x.err /\ y.round = x.round
         /\ y.pos = x.pos /\ y.size = x.size /\ y.hdr = x.hdr /\ y.enext = e
BY DEF Stopped, ScanStates

\* The same at the end of a round.
LEMMA WrappedFields ==
  ASSUME NEW x \in ScanStates, NEW y, y = Wrapped(x)
  PROVE  /\ y \in ScanStates /\ y.b = x.b /\ y.stop = TRUE /\ y.err = x.err /\ y.round = TRUE
         /\ y.pos = x.pos /\ y.size = x.size /\ y.hdr = x.hdr /\ y.enext = 1
BY DEF Wrapped, ScanStates

\* A turn that takes a frame.
LEMMA TakesFrame ==
  ASSUME NEW u, NEW r, NEW t, NEW z, NEW P, NEW N, NEW F, NEW x, NEW m \in r..(t - 1),
         Layout(u, r, t, z, P, N, F), Running(x, m, r, z, P, N, F),
         ~(x.size >= BulkCap \/ x.pos = CurWritePosition), NEW y, y = ScanStep(x), NEW m2, m2 = m + 1
  PROVE  Running(y, m2, r, z, P, N, F) \/ Ended(y, m2, r, z, P, N, F)
<1>1. Indexed(u, r, t, z, P, N) /\ Joined(u, r, t, z, P, N)
  BY DEF Layout
<1>2. /\ u \in Nat /\ r \in Nat /\ t \in Nat /\ z \in Nat /\ m \in Nat /\ P \in [Nat -> Nat]
      /\ N \in [Nat -> Nat] /\ u <= r /\ r <= m /\ m < t
  BY <1>1 DEF Indexed
<1>3. P[m] \in Nat /\ N[m] \in Nat /\ P[r] \in Nat /\ N[m] > Ovh
  <2>1. m \in u..(t - 1)
    BY <1>2
  <2>2. QED
    BY <1>1, <1>2, <2>1 DEF Indexed
<1>4. PICK h, on : h = At(x.b, x.pos) /\ on = ScanFrame(x)
  OBVIOUS
<1>5. h.len = N[m] /\ (h.last <=> m = z)
  <2>1. Headed(x.b[P[m]], F[m], N[m]) /\ (x.b[P[m]].last <=> m = z) /\ At(x.b, x.pos) = x.b[P[m]]
    BY NextHeader
  <2>2. QED
    BY <1>4, <2>1 DEF Headed
<1>6. h.len # 0
  BY <1>3, <1>5, Constants
<1>7. /\ on \in ScanStates /\ Marked(on.b, r, m2, P, N, F)
      /\ on.pos = P[m] + N[m] /\ on.size = P[m] + N[m] - P[r] /\ on.hdr = P[m]
      /\ on.stop = x.stop /\ on.round = x.round /\ on.err = x.err
  BY <1>4, Taken
<1>8. ~x.stop /\ ~x.err /\ ~x.round /\ \A i \in r..(m - 1) : i # z
  BY DEF Running
<1>9. /\ h.last => ScanStep(x) = Wrapped(on)
      /\ ~h.last /\ ~Aggregation => ScanStep(x) = Stopped(on, on.pos)
      /\ ~h.last /\ Aggregation => ScanStep(x) = on
  BY <1>4, <1>6, <1>8, TurnCases
<1>10. m2 - 1 = m /\ m2 - 2 = m - 1 /\ m2 > r /\ m2 \in Nat
  BY <1>2
<1>11. P[m2] = IF m = z THEN 1 ELSE P[m] + N[m]
  BY <1>1 DEF Joined
<1>12. CASE m = z
  <2>1. y = Wrapped(on)
    BY <1>5, <1>9, <1>12
  <2>2. /\ y \in ScanStates /\ y.b = on.b /\ y.stop = TRUE /\ y.err = on.err /\ y.round = TRUE
        /\ y.pos = on.pos /\ y.size = on.size /\ y.hdr = on.hdr /\ y.enext = 1
    BY <1>7, <2>1, WrappedFields
  <2>3. y.enext = P[m2]
    BY <1>11, <1>12, <2>2
  <2>4. \A i \in r..(m2 - 2) : i # z
    BY <1>8, <1>10
  <2>5. y.round <=> z = m2 - 1
    BY <1>10, <1>12, <2>2
  <2>6. y.stop /\ ~y.err
    BY <1>7, <1>8, <2>2
  <2>7. Ended(y, m2, r, z, P, N, F)
    BY <1>7, <1>10, <2>2, <2>3, <2>4, <2>5, <2>6 DEF Ended
  <2>8. QED
    BY <2>7
<1>13. CASE m # z /\ ~Aggregation
  <2>1. y = Stopped(on, on.pos)
    BY <1>5, <1>9, <1>13
  <2>2. on.pos \in Nat
    BY <1>7 DEF ScanStates
  <2>3. /\ y \in ScanStates /\ y.b = on.b /\ y.stop = TRUE /\ y.err = on.err /\ y.round = on.round
        /\ y.pos = on.pos /\ y.size = on.size /\ y.hdr = on.hdr /\ y.enext = on.pos
    BY <1>7, <2>1, <2>2, StoppedFields, ZenonT(30)
  <2>4. y.enext = P[m2]
    BY <1>7, <1>11, <1>13, <2>3
  <2>5. \A i \in r..(m2 - 2) : i # z
    BY <1>8, <1>10
  <2>6. y.round <=> z = m2 - 1
    BY <1>7, <1>8, <1>10, <1>13, <2>3
  <2>7. y.stop /\ ~y.err
    BY <1>7, <1>8, <2>3
  <2>8. Ended(y, m2, r, z, P, N, F)
    BY <1>7, <1>10, <2>3, <2>4, <2>5, <2>6, <2>7 DEF Ended
  <2>9. QED
    BY <2>8
<1>14. CASE m # z /\ Aggregation
  <2>1. y = on
    BY <1>5, <1>9, <1>14
  <2>2. \A i \in r..(m2 - 1) : i # z
    <3>1. SUFFICES ASSUME NEW i \in r..m, i = z PROVE FALSE
      BY <1>10
    <3>2. i \in r..(m - 1)
      BY <1>2, <1>14, <3>1
    <3>3. QED
      BY <1>8, <3>1, <3>2
  <2>3. y.pos = P[m2] /\ y.size = P[m2] - P[r] /\ y.hdr = P[m2 - 1]
    <3>1. P[m2] = P[m] + N[m]
      BY <1>11, <1>14
    <3>2. y.pos = P[m] + N[m] /\ y.size = P[m] + N[m] - P[r] /\ y.hdr = P[m]
      BY <1>7, <2>1
    <3>3. y.hdr = P[m2 - 1]
      BY <1>10, <3>2
    <3>4. P[m] + N[m] \in Nat
      BY <1>3
    <3>5. QED
      BY <1>3, <3>1, <3>2, <3>3, <3>4
  <2>4. ~y.stop /\ ~y.err /\ ~y.round
    BY <1>7, <1>8, <2>1
  <2>5. Running(y, m2, r, z, P, N, F)
    BY <1>7, <2>1, <2>2, <2>3, <2>4 DEF Running
  <2>6. QED
    BY <2>5
<1>15. QED
  BY <1>12, <1>13, <1>14

\* Some number of frames ends the loop.
EndsWith(x, r, t, z, P, N, F) == \E m \in Nat : r < m /\ m <= t /\ Ended(x, m, r, z, P, N, F)

\* A turn of the loop.
LEMMA ScanOn ==
  ASSUME NEW u, NEW r, NEW t, NEW z, NEW P, NEW N, NEW F, NEW x, NEW m \in Nat, r <= m, m <= t, r < t,
         Layout(u, r, t, z, P, N, F), Running(x, m, r, z, P, N, F), NEW y, y = ScanStep(x),
         NEW m2, m2 = m + 1
  PROVE  (m2 <= t /\ Running(y, m2, r, z, P, N, F)) \/ EndsWith(y, r, t, z, P, N, F)
<1>1. /\ Indexed(u, r, t, z, P, N) /\ Joined(u, r, t, z, P, N) /\ Rising(u, t, z, P, N)
      /\ Positions(u, r, t, z, P, N) /\ Behind(u, r, z)
  BY DEF Layout
<1>2. r \in Nat /\ t \in Nat /\ P \in [Nat -> Nat]
  BY <1>1 DEF Indexed
<1>3. CASE x.size >= BulkCap \/ x.pos = CurWritePosition
  <2>1. r < m
    <3>1. SUFFICES ASSUME m = r PROVE FALSE
      BY <1>2
    <3>2. x.size = P[r] - P[r] /\ x.pos = P[r]
      BY <3>1 DEF Running
    <3>3. x.size = 0
      BY <1>2, <3>2
    <3>4. BulkCap \in Nat /\ BulkCap > 0
      BY TxRingAssumption
    <3>5. r \in r..(t - 1)
      BY <1>2
    <3>6. P[r] # CurWritePosition
      BY <1>1, <3>5, Ahead
    <3>7. QED
      BY <1>3, <3>2, <3>3, <3>4, <3>6
  <2>2. ~x.stop
    BY DEF Running
  <2>3. PICK h, on : h = At(x.b, x.pos) /\ on = ScanFrame(x)
    OBVIOUS
  <2>4. y = Stopped(x, ScanEnd(x))
    BY <1>3, <2>2, <2>3, TurnCases
  <2>5. Ended(y, m, r, z, P, N, F)
    BY <1>1, <2>1, <2>4, StopHere DEF Stopped
  <2>6. QED
    BY <2>1, <2>5 DEF EndsWith
<1>4. CASE ~(x.size >= BulkCap \/ x.pos = CurWritePosition)
  <2>1. m < t
    <3>1. SUFFICES ASSUME m = t PROVE FALSE
      BY <1>2
    <3>2. x.pos = P[t]
      BY <3>1 DEF Running
    <3>3. QED
      BY <1>1, <1>4, <3>2 DEF Positions
  <2>2. m \in r..(t - 1) /\ m2 \in Nat /\ r < m2 /\ m2 <= t
    BY <1>2, <2>1
  <2>3. Running(y, m2, r, z, P, N, F) \/ Ended(y, m2, r, z, P, N, F)
    BY <1>4, <2>2, TakesFrame
  <2>4. QED
    BY <2>2, <2>3 DEF EndsWith
<1>5. QED
  BY <1>3, <1>4

\* The loop ends within its bound, with at least one frame.
LEMMA ScanEnds ==
  ASSUME NEW u, NEW r, NEW t, NEW z, NEW P, NEW N, NEW F, Typed, Layout(u, r, t, z, P, N, F), r < t
  PROVE  EndsWith(Scan, r, t, z, P, N, F)
<1>1. /\ u \in Nat /\ r \in Nat /\ t \in Nat /\ 1 <= u /\ u <= r /\ r <= t /\ t <= MaxFrames + 1
      /\ MaxFrames \in Nat /\ Turns = MaxFrames + 2
  BY Few
<1>2. PICK g : g[0] = ScanStart /\ (\A n \in 1..Turns : g[n] = ScanStep(g[n - 1])) /\ Scan = g[Turns]
  BY ScanRuns
<1> DEFINE W(n) == n <= Turns => \/ r + n <= t /\ Running(g[n], r + n, r, z, P, N, F)
                                \/ EndsWith(g[n], r, t, z, P, N, F)
           T == {n \in Nat : W(n)}
<1>3. 0 \in T
  <2>1. P \in [Nat -> Nat] /\ ENextBulkOutPosition = P[r]
    BY DEF Layout, Indexed, Positions
  <2>2. P[r] \in Nat /\ P[r] - P[r] = 0 /\ r + 0 = r /\ r..(r - 1) = {} /\ ~(r > r)
    BY <1>1, <2>1
  <2>3. View \in [Pos -> Cells]
    BY ViewType DEF View, Typed
  <2>4. PICK x : x = ScanStart
    OBVIOUS
  <2>5. x = [b |-> View, pos |-> P[r], size |-> 0, stop |-> FALSE, enext |-> P[r],
             round |-> FALSE, err |-> FALSE, hdr |-> P[r]]
    BY <2>1, <2>4, Zenon DEF ScanStart, View, PutBack
  <2>6. x \in ScanStates /\ x.b = View /\ x.pos = P[r] /\ x.size = 0 /\ ~x.stop /\ ~x.err /\ ~x.round
    BY <2>2, <2>3, <2>5 DEF ScanStates
  <2>7. Marked(x.b, r, r, P, N, F)
    BY <2>2, <2>6 DEF Marked
  <2>8. Running(x, r, r, z, P, N, F)
    BY <2>2, <2>6, <2>7 DEF Running
  <2>9. QED
    BY <1>1, <1>2, <2>2, <2>4, <2>8
<1>4. ASSUME NEW n \in Nat, n \in T PROVE n + 1 \in T
  <2>1. PICK k, m, m2, x, y : k = n + 1 /\ m = r + n /\ m2 = m + 1 /\ x = g[n] /\ y = g[k]
    OBVIOUS
  <2>2. k \in Nat /\ k - 1 = n /\ r + k = m2 /\ m \in Nat /\ r <= m
    BY <1>1, <2>1
  <2>3. SUFFICES ASSUME k <= Turns
                 PROVE  (m2 <= t /\ Running(y, m2, r, z, P, N, F)) \/ EndsWith(y, r, t, z, P, N, F)
    BY <2>1, <2>2
  <2>4. n <= Turns /\ k \in 1..Turns
    BY <1>1, <2>1, <2>3
  <2>5. y = ScanStep(x)
    BY <1>2, <2>1, <2>2, <2>4
  <2>6. CASE m <= t /\ Running(x, m, r, z, P, N, F)
    BY <2>1, <2>2, <2>5, <2>6, ScanOn
  <2>7. CASE EndsWith(x, r, t, z, P, N, F)
    <3>1. x.stop
      BY <2>7 DEF EndsWith, Ended
    <3>2. ScanStep(x) = x
      BY <3>1 DEF ScanStep
    <3>3. QED
      BY <2>5, <2>7, <3>2
  <2>8. QED
    BY <1>4, <2>1, <2>4, <2>6, <2>7
<1>5. Nat \subseteq T
  <2> HIDE DEF T
  <2>1. QED
    BY <1>3, <1>4, Ind
<1>6. Turns \in T /\ Turns <= Turns /\ ~(r + Turns <= t)
  BY <1>1, <1>5
<1>7. QED
  BY <1>2, <1>6
-----------------------------------------------------------------------------
(***************************************************************************)
(* The URB is built.                                                       *)
(***************************************************************************)

\* A header that is not the last of its URB, and one that is.
LEMMA InfoFollowed ==
  ASSUME NEW c \in Cells, NEW f, NEW n, c.f = f, c.k = 0, c.len = n, ~c.last, c.nv
  PROVE  c = TxInfo(f, n, FALSE, TRUE)
<1>1. PICK g : g = TxInfo(f, n, FALSE, TRUE)
  OBVIOUS
<1>2. c.last = FALSE /\ c.nv = TRUE
  BY DEF Cells
<1>3. f \in 0..MaxFrames /\ n \in 0..BufSize /\ 0 \in 0..BufSize
  BY DEF Cells
<1>4. g \in Cells /\ g.f = f /\ g.k = 0 /\ g.len = n /\ g.last = FALSE /\ g.nv = TRUE
  BY <1>1, <1>3 DEF TxInfo, Cells
<1>5. c.f = g.f /\ c.k = g.k /\ c.len = g.len /\ c.last = g.last /\ c.nv = g.nv
  BY <1>2, <1>4, Zenon
<1>6. c = g
  BY <1>4, <1>5 DEF Cells
<1>7. QED
  BY <1>1, <1>6

\* The last one.
LEMMA InfoLast ==
  ASSUME NEW c \in Cells, NEW f, NEW n, c.f = f, c.k = 0, c.len = n, ~c.last, ~c.nv
  PROVE  c = TxInfo(f, n, FALSE, FALSE)
<1>1. PICK g : g = TxInfo(f, n, FALSE, FALSE)
  OBVIOUS
<1>2. c.last = FALSE /\ c.nv = FALSE
  BY DEF Cells
<1>3. f \in 0..MaxFrames /\ n \in 0..BufSize /\ 0 \in 0..BufSize
  BY DEF Cells
<1>4. g \in Cells /\ g.f = f /\ g.k = 0 /\ g.len = n /\ g.last = FALSE /\ g.nv = FALSE
  BY <1>1, <1>3 DEF TxInfo, Cells
<1>5. c.f = g.f /\ c.k = g.k /\ c.len = g.len /\ c.last = g.last /\ c.nv = g.nv
  BY <1>2, <1>4, Zenon
<1>6. c = g
  BY <1>4, <1>5 DEF Cells
<1>7. QED
  BY <1>1, <1>6

\* The ring whose last header is marked.
SealIn(b, p) == [b EXCEPT ![p].nv = FALSE]

\* The ring when frames r..m-1 are ready to be sent.
Sealed(b, r, m, P, N, F) ==
  /\ b \in [Pos -> Cells]
  /\ \A i \in r..(m - 1) : b[P[i]] = TxInfo(F[i], N[i], FALSE, i # m - 1)
  /\ \A q \in Pos : (\A i \in r..(m - 1) : q # P[i]) => b[q] = View[q]

\* Frames without the end of a round between them do not overlap.
LEMMA InRound ==
  ASSUME NEW u, NEW r, NEW t, NEW z, NEW P, NEW N, Indexed(u, r, t, z, P, N), Rising(u, t, z, P, N),
         NEW m \in Nat, m <= t, \A k \in r..(m - 2) : k # z, NEW i \in r..(m - 1), NEW j \in (i + 1)..(m - 1)
  PROVE  /\ P[i] \in Nat /\ N[i] \in Nat /\ N[i] > 0 /\ P[j] \in Nat /\ N[j] \in Nat /\ N[j] > 0
         /\ P[i] + N[i] <= P[j] /\ P[i] < P[j]
<1>1. /\ u \in Nat /\ r \in Nat /\ t \in Nat /\ z \in Nat /\ u <= r /\ r <= t
      /\ P \in [Nat -> Nat] /\ N \in [Nat -> Nat]
  BY DEF Indexed
<1>2. i \in Nat /\ j \in Nat /\ i \in u..(t - 1) /\ j \in (i + 1)..t /\ j \in u..(t - 1) /\ i < j /\ j < m /\ r <= i
  BY <1>1
<1>3. ~(i <= z /\ z < j)
  <2>1. SUFFICES ASSUME i <= z, z < j PROVE FALSE
    OBVIOUS
  <2>2. z \in r..(m - 2)
    BY <1>1, <1>2, <2>1
  <2>3. QED
    BY <2>2
<1>4. P[i] + N[i] <= P[j]
  BY <1>2, <1>3 DEF Rising
<1>5. P[i] \in Nat /\ N[i] \in Nat /\ P[j] \in Nat /\ N[j] \in Nat
  BY <1>1, <1>2
<1>6. N[i] > Ovh /\ N[j] > Ovh
  BY <1>2 DEF Indexed
<1>7. N[i] > 0 /\ N[j] > 0
  BY <1>5, <1>6, Constants
<1>8. P[i] < P[j]
  BY <1>4, <1>5, <1>7
<1>9. QED
  BY <1>4, <1>5, <1>7, <1>8

\* The scan's ring, its last header marked.
LEMMA SealedScan ==
  ASSUME NEW u, NEW r, NEW t, NEW z, NEW P, NEW N, NEW F, Layout(u, r, t, z, P, N, F),
         NEW m \in Nat, r < m, m <= t, NEW x, Ended(x, m, r, z, P, N, F), NEW b, b = SealIn(x.b, x.hdr)
  PROVE  Sealed(b, r, m, P, N, F)
<1>1. /\ Indexed(u, r, t, z, P, N) /\ Rising(u, t, z, P, N) /\ Joined(u, r, t, z, P, N)
      /\ Positions(u, r, t, z, P, N) /\ Behind(u, r, z)
  BY DEF Layout
<1>2. /\ u \in Nat /\ r \in Nat /\ t \in Nat /\ z \in Nat /\ u <= r /\ r <= t
      /\ P \in [Nat -> Nat] /\ N \in [Nat -> Nat]
  BY <1>1 DEF Indexed
<1>3. /\ x.b \in [Pos -> Cells] /\ Marked(x.b, r, m, P, N, F) /\ x.hdr = P[m - 1]
      /\ \A i \in r..(m - 2) : i # z
  BY DEF Ended, ScanStates
<1>4. ASSUME NEW i \in r..(m - 1) PROVE i \in Nat /\ i \in u..(t - 1) /\ P[i] \in Nat /\ N[i] \in Nat /\ P[i] \in Pos
  <2>1. i \in Nat /\ i \in u..(t - 1)
    BY <1>2
  <2>2. P[i] \in Nat /\ N[i] \in Nat /\ P[i] + N[i] < BufSize
    BY <1>1, <1>2, <2>1 DEF Indexed
  <2>3. QED
    BY <2>1, <2>2, BufferSize
<1>5. PICK p : p = P[m - 1]
  OBVIOUS
<1>6. m - 1 \in r..(m - 1) /\ p \in Pos
  <2>1. m - 1 \in r..(m - 1)
    BY <1>2
  <2>2. QED
    BY <1>4, <1>5, <2>1
<1>7. PICK a, d : a = x.b /\ d = [a[p] EXCEPT !.nv = FALSE]
  OBVIOUS
<1>8. a[p] \in Cells
  BY <1>3, <1>6, <1>7
<1>9. /\ d \in Cells /\ d.f = a[p].f /\ d.k = a[p].k /\ d.len = a[p].len /\ d.last = a[p].last /\ d.nv = FALSE
  BY <1>7, <1>8 DEF Cells
<1>10. b = [a EXCEPT ![p] = d]
  BY <1>3, <1>5, <1>7 DEF SealIn
<1>11. b \in [Pos -> Cells] /\ b[p] = d /\ \A q \in Pos : q # p => b[q] = a[q]
  BY <1>3, <1>6, <1>7, <1>9, <1>10
<1>12. ASSUME NEW i \in r..(m - 1) PROVE b[P[i]] = TxInfo(F[i], N[i], FALSE, i # m - 1)
  <2>1. Flagged(a[P[i]], F[i], N[i], P[i] + N[i])
    BY <1>3, <1>7 DEF Marked
  <2>2. CASE i = m - 1
    <3>1. Flagged(a[p], F[i], N[i], P[i] + N[i])
      BY <1>5, <2>1, <2>2
    <3>2. d.f = F[i] /\ d.k = 0 /\ d.len = N[i] /\ ~d.last /\ ~d.nv
      BY <1>9, <3>1 DEF Flagged
    <3>3. d = TxInfo(F[i], N[i], FALSE, FALSE)
      BY <1>9, <3>2, InfoLast
    <3>4. (i # m - 1) = FALSE
      BY <2>2
    <3>5. QED
      BY <1>5, <1>11, <2>2, <3>3, <3>4
  <2>3. CASE i # m - 1
    <3>1. i \in r..(m - 2) /\ i + 1 \in r..(t - 1) /\ i \in r..(t - 1) /\ m - 1 \in (i + 1)..(m - 1)
      BY <1>2, <1>4, <2>3
    <3>2. P[i + 1] = P[i] + N[i]
      <4>1. i # z
        BY <1>3, <3>1
      <4>2. QED
        BY <1>1, <3>1, <4>1 DEF Joined
    <3>3. P[i + 1] # CurWritePosition
      BY <1>1, <3>1, Ahead
    <3>4. P[i] < P[m - 1]
      BY <1>1, <1>3, <3>1, InRound
    <3>5. P[i] # p
      BY <1>4, <1>5, <1>6, <3>4
    <3>6. PICK c : c = a[P[i]]
      OBVIOUS
    <3>7. b[P[i]] = c /\ c \in Cells
      BY <1>3, <1>4, <1>7, <1>11, <3>5, <3>6
    <3>8. c.f = F[i] /\ c.k = 0 /\ c.len = N[i] /\ ~c.last /\ c.nv
      BY <2>1, <3>2, <3>3, <3>6 DEF Flagged
    <3>9. c = TxInfo(F[i], N[i], FALSE, TRUE)
      BY <3>7, <3>8, InfoFollowed
    <3>10. (i # m - 1) = TRUE
      BY <2>3
    <3>11. QED
      BY <3>7, <3>9, <3>10
  <2>4. QED
    BY <2>2, <2>3
<1>13. ASSUME NEW q \in Pos, \A i \in r..(m - 1) : q # P[i] PROVE b[q] = View[q]
  <2>1. q # p
    BY <1>5, <1>6, <1>13
  <2>2. a[q] = View[q]
    BY <1>3, <1>7, <1>13 DEF Marked
  <2>3. QED
    BY <1>11, <2>1, <2>2
<1>14. QED
  BY <1>11, <1>12, <1>13 DEF Sealed

\* The URB holds frames r..m-1, and the header behind it is parked when it must be.
Built(b, r, m, z, P, N) ==
  /\ NextBulkOutPosition' = P[r] /\ ENextBulkOutPosition' = P[m]
  /\ bCopySavePad' <=> z # m - 1 /\ (P[m] = CurWritePosition => CurWriteRealPos > CurWritePosition)
  /\ bCopySavePad' \in BOOLEAN
  /\ SavedPad' = IF bCopySavePad' THEN At(b, P[m]) ELSE SavedPad
  /\ buf' = Put(b, P[m - 1] + N[m - 1], 1, LAMBDA k : Zero)
  /\ BulkOutSize' = P[m - 1] + N[m - 1] - P[r]
  /\ rd' = [rd EXCEPT !.pc = "built"]

\* What BuildUrb does.
LEMMA BuildDoes ==
  ASSUME NEW u, NEW r, NEW t, NEW z, NEW P, NEW N, NEW F, Typed, Layout(u, r, t, z, P, N, F), BuildUrb
  PROVE  /\ r < t
         /\ \E m \in Nat : \E b : /\ r < m /\ m <= t /\ Sealed(b, r, m, P, N, F) /\ Built(b, r, m, z, P, N)
                                  /\ \A i \in r..(m - 2) : i # z
<1>1. Indexed(u, r, t, z, P, N) /\ ENextBulkOutPosition = P[r] /\ CurWritePosition = P[t]
  BY DEF Layout, Positions
<1>2. r \in Nat /\ t \in Nat /\ r <= t
  BY <1>1 DEF Indexed
<1>3. r < t
  <2>1. r # t
    BY <1>1 DEF BuildUrb, NothingToSend
  <2>2. QED
    BY <1>2, <2>1
<1>4. EndsWith(Scan, r, t, z, P, N, F)
  BY <1>3, ScanEnds
<1>5. PICK m \in Nat : r < m /\ m <= t /\ Ended(Scan, m, r, z, P, N, F)
  BY <1>4 DEF EndsWith
<1>6. PICK x, b : x = Scan /\ b = SealIn(x.b, x.hdr)
  OBVIOUS
<1>7. Sealed(b, r, m, P, N, F)
  BY <1>5, <1>6, SealedScan
<1>8. /\ ~x.err /\ (x.round <=> z = m - 1) /\ x.pos = P[m - 1] + N[m - 1]
      /\ x.size = P[m - 1] + N[m - 1] - P[r] /\ x.enext = P[m] /\ \A i \in r..(m - 2) : i # z
  BY <1>5, <1>6 DEF Ended
<1>9. /\ NextBulkOutPosition' = ENextBulkOutPosition /\ ENextBulkOutPosition' = x.enext
      /\ bCopySavePad' = ParkHeader(x) /\ SavedPad' = IF ParkHeader(x) THEN At(b, x.enext) ELSE SavedPad
      /\ buf' = Put(b, x.pos, 1, LAMBDA k : Zero) /\ BulkOutSize' = x.size /\ rd' = [rd EXCEPT !.pc = "built"]
  BY <1>6, <1>8 DEF BuildUrb, SealIn
<1>10. ParkHeader(x) <=> z # m - 1 /\ (P[m] = CurWritePosition => CurWriteRealPos > CurWritePosition)
  BY <1>8 DEF ParkHeader
<1>11. ParkHeader(x) \in BOOLEAN
  BY DEF ParkHeader
<1>12. Built(b, r, m, z, P, N)
  BY <1>1, <1>8, <1>9, <1>10, <1>11 DEF Built
<1>13. QED
  BY <1>3, <1>5, <1>7, <1>8, <1>12

\* What it leaves alone.
LEMMA BuildLeaves ==
  ASSUME NEW u, NEW r, NEW t, NEW z, NEW P, NEW N, NEW F, Typed, Layout(u, r, t, z, P, N, F), BuildUrb
  PROVE  /\ rd.pc = "claimed" /\ dataFlag' = FALSE
         /\ UNCHANGED <<CurWritePosition, CurWriteRealPos, bCurWriting, bulkOutReset, bForcePrintTX,
                        BulkOutPending, pc, w, urb, resetCmds, hist>>
<1>1. r < t
  BY BuildDoes
<1>2. EndsWith(Scan, r, t, z, P, N, F)
  BY <1>1, ScanEnds
<1>3. ~Scan.err
  BY <1>2 DEF EndsWith, Ended
<1>4. QED
  BY <1>3 DEF BuildUrb

\* Where everything is then.
LEMMA BuildPlace ==
  ASSUME NEW u, NEW r, NEW t, NEW z, NEW P, NEW N, NEW F, Plain, Layout(u, r, t, z, P, N, F), BuildUrb,
         NEW m \in Nat, NEW b, r < m, m <= t, Built(b, r, m, z, P, N), \A i \in r..(m - 2) : i # z
  PROVE  /\ Indexed(r, m, t, z, P, N) /\ Rising(r, t, z, P, N) /\ Joined(r, m, t, z, P, N)
         /\ LowEnough(r, t, P) /\ Positions(r, m, t, z, P, N)' /\ Behind(r, m, z)'
         /\ Parked(r, m, t, z, P, N)'
<1>1. /\ Indexed(u, r, t, z, P, N) /\ Rising(u, t, z, P, N) /\ Joined(u, r, t, z, P, N)
      /\ LowEnough(u, t, P) /\ Positions(u, r, t, z, P, N) /\ Behind(u, r, z)
  BY DEF Layout
<1>2. /\ u \in Nat /\ r \in Nat /\ t \in Nat /\ z \in Nat /\ 1 <= u /\ u <= r /\ r <= t /\ z < t
      /\ P \in [Nat -> Nat] /\ N \in [Nat -> Nat]
      /\ \A i \in u..(t - 1) : N[i] > Ovh /\ P[i] >= 1 /\ P[i] + N[i] < BufSize
  BY <1>1 DEF Indexed
<1>3. r..(t - 1) \subseteq u..(t - 1) /\ m..(t - 1) \subseteq r..(t - 1) /\ r..(m - 2) \subseteq r..(t - 1)
  BY <1>2
<1>4. Typed /\ Written
  BY DEF Plain
<1>5. /\ UNCHANGED <<CurWritePosition, CurWriteRealPos, pc, w>>
  BY <1>4, BuildLeaves
<1>6. (Writing' <=> Writing) /\ pc' = pc /\ w' = w /\ CurWritePosition' = CurWritePosition
  BY <1>5 DEF Writing
<1>7. CurWritePosition = P[t] /\ (P[t] = 0 => u = t)
  BY <1>1 DEF Positions
<1>8. Indexed(r, m, t, z, P, N)
  BY <1>2, <1>3 DEF Indexed
<1>9. Rising(r, t, z, P, N)
  BY <1>1, <1>3 DEF Rising
<1>10. Joined(r, m, t, z, P, N)
  <2>1. \A i \in r..(t - 1) : P[i + 1] = IF i = z THEN 1 ELSE P[i] + N[i]
    BY <1>1 DEF Joined
  <2>2. QED
    BY <1>3, <2>1 DEF Joined
<1>11. LowEnough(r, t, P)
  BY <1>1, <1>3 DEF LowEnough
<1>12. P[t] >= 1 /\ P[m] >= 1
  <2>1. P[t] \in Nat /\ u # t
    BY <1>2
  <2>2. P[t] # 0
    BY <1>7, <2>1
  <2>3. m # t => m \in u..(t - 1)
    BY <1>2
  <2>4. P[t] >= 1
    BY <2>1, <2>2
  <2>5. QED
    BY <1>2, <2>3, <2>4
<1>13. /\ NextBulkOutPosition' = P[r] /\ ENextBulkOutPosition' = P[m]
       /\ BulkOutSize' = P[m - 1] + N[m - 1] - P[r]
       /\ bCopySavePad' <=> z # m - 1 /\ (P[m] = CurWritePosition => CurWriteRealPos > CurWritePosition)
  BY DEF Built
<1>14. m - 1 \in Nat /\ m - 1 \in r..(t - 1) /\ (m - 1) + 1 = m
  BY <1>2
<1>15. P[m] = IF m - 1 = z THEN 1 ELSE P[m - 1] + N[m - 1]
  BY <1>1, <1>14 DEF Joined
<1>16. Positions(r, m, t, z, P, N)'
  <2>1. r # m /\ r # t /\ ~(P[t] = 0)
    BY <1>2, <1>12
  <2>2. P[r] \in Nat /\ P[m - 1] \in Nat /\ N[m - 1] \in Nat
    BY <1>2, <1>14
  <2>3. P[r] + (P[m - 1] + N[m - 1] - P[r]) = P[m - 1] + N[m - 1]
    BY <2>2
  <2>4. z = m - 1 /\ m = t => P[t] = 1
    BY <1>15
  <2>5. QED
    BY <1>6, <1>7, <1>12, <1>13, <2>1, <2>3, <2>4 DEF Positions
<1>17. z >= r => z >= u /\ NextBulkOutPosition \in Nat /\ P[r] \in Nat /\ NextBulkOutPosition < P[r]
  <2>1. SUFFICES ASSUME z >= r PROVE z >= u /\ NextBulkOutPosition \in Nat /\ P[r] \in Nat /\ NextBulkOutPosition < P[r]
    OBVIOUS
  <2>2. z >= u
    BY <1>2, <2>1
  <2>3. u # r
    BY <1>1, <1>2, <2>2 DEF Positions
  <2>4. u < r /\ NextBulkOutPosition = P[u]
    <3>1. u < r
      BY <1>2, <2>3
    <3>2. QED
      BY <1>1, <3>1 DEF Positions
  <2>5. u \in u..(t - 1) /\ r \in (u + 1)..t /\ ~(u <= z /\ z < r)
    BY <1>2, <2>1, <2>4
  <2>6. P[u] + N[u] <= P[r]
    BY <1>1, <2>5 DEF Rising
  <2>7. N[u] > Ovh /\ P[u] \in Nat /\ N[u] \in Nat /\ P[r] \in Nat
    BY <1>2, <2>5
  <2>8. P[u] < P[r]
    BY <2>6, <2>7, Constants
  <2>9. QED
    BY <2>2, <2>4, <2>7, <2>8
<1>18. Behind(r, m, z)'
  <2>1. CASE ~(z >= r)
    <3>1. r # m
      BY <1>2
    <3>2. QED
      BY <2>1, <3>1 DEF Behind
  <2>2. CASE z >= r
    <3>1. z >= u /\ NextBulkOutPosition \in Nat /\ P[r] \in Nat /\ NextBulkOutPosition < P[r]
      BY <1>17, <2>2
    <3>2. IndInv /\ CurWritePosition \in Nat
      BY <1>2, <1>7 DEF Plain
    <3>3. pc["W"] = "hdr" => CurWritePosition + Sum(w.parts) + LocalTxBuf <= P[r]
      <4>1. SUFFICES ASSUME pc["W"] = "hdr" PROVE CurWritePosition + Sum(w.parts) + LocalTxBuf <= P[r]
        OBVIOUS
      <4>2. CurWritePosition + Sum(w.parts) + LocalTxBuf <= NextBulkOutPosition
        BY <1>1, <3>1, <4>1 DEF Behind
      <4>3. PICK c \in Batches : Sum(w.parts) = Sum(c.parts)
        BY <3>2, <4>1, OfBlock DEF IndInv
      <4>4. Sum(w.parts) \in Nat
        BY <4>3, OfBatch DEF Sum
      <4>5. QED
        BY <3>1, <3>2, <4>2, <4>4, Constants
    <3>4. Writing => CurWritePosition + Room(w) + 1 <= P[r]
      <4>1. SUFFICES ASSUME Writing PROVE CurWritePosition + Room(w) + 1 <= P[r]
        OBVIOUS
      <4>2. CurWritePosition + Room(w) + 1 <= NextBulkOutPosition
        BY <1>1, <3>1, <4>1 DEF Behind
      <4>3. Room(w) \in Nat
        <5>1. Block /\ Active
          BY <3>2, <4>1 DEF IndInv, Writing, Active
        <5>2. QED
          BY <5>1, BlockRoom
      <4>4. QED
        BY <3>1, <3>2, <4>2, <4>3
    <3>5. CurWritePosition < P[r] \/ CurWritePosition = 1
      <4>1. CurWritePosition < NextBulkOutPosition \/ CurWritePosition = 1
        BY <1>1, <3>1 DEF Behind
      <4>2. QED
        BY <3>1, <3>2, <4>1
    <3>6. Writing => CurWritePosition + Room(w) + AggReserve <= Limit
      BY <1>1, <3>1 DEF Behind
    <3>7. QED
      BY <1>6, <1>13, <3>3, <3>4, <3>5, <3>6 DEF Behind
  <2>3. QED
    BY <2>1, <2>2
<1>19. Parked(r, m, t, z, P, N)'
  <2>1. P[m] = CurWritePosition <=> m = t
    <3>1. CASE m = t
      BY <1>7, <3>1
    <3>2. CASE m # t
      <4>1. m \in r..(t - 1)
        BY <1>2, <3>2
      <4>2. QED
        BY <1>1, <3>2, <4>1, Ahead
    <3>3. QED
      BY <3>1, <3>2
  <2>2. CurWriteRealPos > CurWritePosition <=> Writing
    <3>1. CurWritePosition \in Nat
      BY <1>2, <1>7
    <3>2. QED
      BY <1>4, <3>1 DEF Written
  <2>3. m = t <=> ~(m < t)
    BY <1>2
  <2>4. bCopySavePad' <=> z # m - 1 /\ (m < t \/ Writing)
    BY <1>13, <2>1, <2>2, <2>3
  <2>5. z # m - 1 => P[m] = P[m - 1] + N[m - 1]
    BY <1>15
  <2>6. QED
    BY <1>6, <2>4, <2>5 DEF Parked
<1>20. QED
  BY <1>8, <1>9, <1>10, <1>11, <1>16, <1>18, <1>19

\* The frames being written lie in what is written of the block.
LEMMA WrittenPlace ==
  ASSUME IndInv, Written, Writing
  PROVE  /\ CurWritePosition \in Nat /\ Base \in Nat /\ Base >= CurWritePosition /\ w.Priv \in Nat
         /\ Room(w) \in Nat /\ w.Priv <= Room(w) /\ CurWritePosition + w.Priv < BufSize /\ w.Priv >= Ovh
         /\ w.kind # "multi" => /\ w.parts[w.i] \in Nat /\ w.parts[w.i] > 0
                                /\ Base + Ovh + w.parts[w.i] <= CurWritePosition + w.Priv
         /\ w.kind = "multi" => Base = CurWritePosition
         /\ w.parts[1] \in Nat /\ w.parts[1] > 0
         /\ Second => Base = CurWritePosition + Ovh + w.parts[1]
<1>1. Active /\ Block
  BY DEF Writing, Active, IndInv
<1>2. /\ CurWritePosition \in Nat /\ w \in Blocks /\ w.i <= Len(w.parts)
  BY DEF IndInv, Below, Block, Progress
<1>3. w.i \in 1..2 /\ w.Priv \in Nat
  BY <1>2 DEF Blocks
<1>4. /\ Room(w) \in Nat /\ w.parts[1] \in Nat /\ w.parts[1] > 0
      /\ w.kind \in {"single", "frag", "multi"}
      /\ w.kind = "single" => Len(w.parts) = 1 /\ Room(w) = Ovh + w.parts[1]
      /\ w.kind = "frag" => /\ Len(w.parts) = 2 /\ Room(w) = Ovh + Ovh + w.parts[1] + w.parts[2]
                            /\ w.parts[2] \in Nat /\ w.parts[2] > 0
      /\ w.kind = "multi" => /\ Len(w.parts) = 2 /\ Room(w) = Ovh + w.parts[1] + w.parts[2]
                             /\ w.parts[2] \in Nat /\ w.parts[2] > 0
  BY <1>1, BlockRoom
<1>5. w.kind # "multi" => w.Priv = IF w.i = 1 THEN Ovh + w.parts[1] ELSE Ovh + Ovh + w.parts[1] + w.parts[2]
  BY DEF IndInv, Progress
<1>6. w.kind = "multi" =>
        w.Priv = Ovh + (IF w.i = 1 /\ pc["W"] = "body" THEN 0
                        ELSE IF pc["W"] = "fin" THEN w.parts[1] + w.parts[2] ELSE w.parts[1])
  BY DEF Written
<1>7. Second <=> w.kind = "frag" /\ w.i = 2
  BY DEF Second
<1>8. CurWritePosition + w.Priv < BufSize
  <2>1. CurWritePosition + w.Priv + 1 <= BufSize
    BY IndBounds DEF WritesInBounds, Writing
  <2>2. QED
    BY <1>2, <1>3, <2>1, BufferSize
<1>9. PICK p1, rm, cw, pv : p1 = w.parts[1] /\ rm = Room(w) /\ cw = CurWritePosition /\ pv = w.Priv
  OBVIOUS
<1>10. /\ p1 \in Nat /\ p1 > 0 /\ rm \in Nat /\ cw \in Nat /\ pv \in Nat
  BY <1>2, <1>3, <1>4, <1>9
<1>11. CASE w.kind # "multi" /\ w.i = 1
  <2>1. Base = cw /\ pv = Ovh + p1 /\ w.parts[w.i] = p1 /\ ~Second
    BY <1>5, <1>7, <1>9, <1>11 DEF Base
  <2>2. pv <= rm
    <3>1. CASE w.kind = "single"
      <4>1. rm = Ovh + p1
        BY <1>4, <1>9, <3>1
      <4>2. QED
        BY <1>10, <2>1, <4>1, Constants
    <3>2. CASE w.kind = "frag"
      <4>1. PICK p2 : p2 = w.parts[2]
        OBVIOUS
      <4>2. p2 \in Nat /\ rm = Ovh + Ovh + p1 + p2
        BY <1>4, <1>9, <3>2, <4>1
      <4>3. QED
        BY <1>10, <2>1, <4>2, Constants
    <3>3. QED
      BY <1>4, <1>11, <3>1, <3>2
  <2>3. cw >= cw /\ pv >= Ovh /\ cw + Ovh + p1 <= cw + pv
    BY <1>10, <2>1, Constants
  <2>4. QED
    BY <1>4, <1>8, <1>9, <1>10, <1>11, <2>1, <2>2, <2>3
<1>12. CASE w.kind # "multi" /\ w.i # 1
  <2>1. w.kind = "frag" /\ w.i = 2
    <3>1. w.i = 2
      BY <1>3, <1>12
    <3>2. PICK n : n = Len(w.parts)
      OBVIOUS
    <3>3. 2 <= n
      BY <1>2, <3>1, <3>2
    <3>4. n # 1
      BY <3>3
    <3>5. QED
      BY <1>4, <1>12, <3>1, <3>2, <3>4
  <2>2. PICK p2 : p2 = w.parts[2]
    OBVIOUS
  <2>3. /\ Base = cw + Ovh + p1 /\ pv = Ovh + Ovh + p1 + p2 /\ w.parts[w.i] = p2 /\ p2 \in Nat /\ p2 > 0
        /\ rm = Ovh + Ovh + p1 + p2
    BY <1>4, <1>5, <1>7, <1>9, <2>1, <2>2 DEF Base
  <2>4. /\ cw + Ovh + p1 \in Nat /\ cw + Ovh + p1 >= cw /\ pv <= rm /\ pv >= Ovh
        /\ cw + Ovh + p1 + Ovh + p2 <= cw + pv
    BY <1>10, <2>3, Constants
  <2>5. QED
    BY <1>4, <1>8, <1>9, <1>10, <1>12, <2>3, <2>4
<1>13. CASE w.kind = "multi"
  <2>1. PICK p2 : p2 = w.parts[2]
    OBVIOUS
  <2>2. Base = cw /\ ~Second /\ p2 \in Nat /\ rm = Ovh + p1 + p2
    BY <1>4, <1>7, <1>9, <1>13, <2>1 DEF Base
  <2>3. pv = Ovh + 0 \/ pv = Ovh + (p1 + p2) \/ pv = Ovh + p1
    BY <1>6, <1>9, <1>13, <2>1
  <2>4. pv <= rm /\ pv >= Ovh /\ cw >= cw
    BY <1>10, <2>2, <2>3, Constants
  <2>5. QED
    BY <1>4, <1>8, <1>9, <1>10, <1>13, <2>2, <2>4
<1>14. QED
  BY <1>11, <1>12, <1>13

\* Nothing the writer has written of its block changes.
Untouched(v, v2) == \A q \in Pos : CurWritePosition <= q /\ q < CurWritePosition + w.Priv => v2[q] = v[q]

\* So it stays as it was.
LEMMA CurrentKept ==
  ASSUME NEW v, NEW v2, IndInv, Written, Current(v), Writing => Untouched(v, v2)
  PROVE  Current(v2)
<1>1. CASE ~Writing
  <2>1. ~Second /\ pc["W"] \notin {"body", "next", "fin"}
    BY <1>1 DEF Second, Writing
  <2>2. QED
    BY <1>1, <2>1 DEF Current
<1>2. CASE Writing
  <2>1. /\ CurWritePosition \in Nat /\ Base \in Nat /\ Base >= CurWritePosition /\ w.Priv \in Nat
        /\ CurWritePosition + w.Priv < BufSize /\ w.Priv >= Ovh
        /\ w.kind # "multi" => /\ w.parts[w.i] \in Nat /\ w.parts[w.i] > 0
                               /\ Base + Ovh + w.parts[w.i] <= CurWritePosition + w.Priv
        /\ w.kind = "multi" => Base = CurWritePosition
        /\ w.parts[1] \in Nat /\ w.parts[1] > 0
        /\ Second => Base = CurWritePosition + Ovh + w.parts[1]
    BY <1>2, WrittenPlace
  <2>2. PICK p1, pi, cw, pv : p1 = w.parts[1] /\ pi = w.parts[w.i] /\ cw = CurWritePosition /\ pv = w.Priv
    OBVIOUS
  <2>3. /\ p1 \in Nat /\ cw \in Nat /\ Base \in Nat /\ Base >= cw /\ pv \in Nat /\ cw + pv < BufSize /\ pv >= Ovh
        /\ w.kind # "multi" => pi \in Nat /\ pi > 0 /\ Base + Ovh + pi <= cw + pv
        /\ w.kind = "multi" => Base = cw
        /\ Second => Base = cw + Ovh + p1
    BY <2>1, <2>2
  <2>4. ASSUME NEW q \in Nat, cw <= q, q < cw + pv PROVE v2[q] = v[q]
    <3>1. q \in Pos
      BY <2>3, <2>4, BufferSize
    <3>2. QED
      BY <1>2, <2>2, <2>4, <3>1 DEF Untouched
  <2>5. Base < cw + pv
    <3>1. CASE w.kind = "multi"
      BY <2>3, <3>1, Constants
    <3>2. CASE w.kind # "multi"
      BY <2>3, <3>2, Constants
    <3>3. QED
      BY <3>1, <3>2
  <2>6. v2[Base] = v[Base]
    BY <2>3, <2>4, <2>5
  <2>7. Second => Base < cw + pv /\ v2[cw] = v[cw] /\ \A k \in 1..(Ovh + p1 - 1) : v2[cw + k] = v[cw + k]
    <3>1. SUFFICES ASSUME Second PROVE v2[cw] = v[cw] /\ \A k \in 1..(Ovh + p1 - 1) : v2[cw + k] = v[cw + k]
      BY <2>5
    <3>2. cw <= cw /\ cw < cw + pv
      BY <2>3, Constants
    <3>3. v2[cw] = v[cw]
      BY <2>3, <2>4, <3>2
    <3>4. ASSUME NEW k \in 1..(Ovh + p1 - 1) PROVE v2[cw + k] = v[cw + k]
      <4>1. cw + k \in Nat /\ cw <= cw + k /\ cw + k < cw + pv
        BY <2>3, <2>5, <3>1, Constants
      <4>2. QED
        BY <2>4, <4>1
    <3>5. QED
      BY <3>3, <3>4
  <2>8. w.kind # "multi" => \A k \in 1..(Ovh + pi - 1) : v2[Base + k] = v[Base + k]
    <3>1. SUFFICES ASSUME w.kind # "multi", NEW k \in 1..(Ovh + pi - 1) PROVE v2[Base + k] = v[Base + k]
      OBVIOUS
    <3>2. Base + k \in Nat /\ cw <= Base + k /\ Base + k < cw + pv
      BY <2>3, <3>1, Constants
    <3>3. QED
      BY <2>4, <3>2
  <2>9. w.kind = "multi" => \A k \in 1..(pv - 1) : v2[Base + k] = v[Base + k]
    <3>1. SUFFICES ASSUME w.kind = "multi", NEW k \in 1..(pv - 1) PROVE v2[Base + k] = v[Base + k]
      OBVIOUS
    <3>2. Base + k \in Nat /\ cw <= Base + k /\ Base + k < cw + pv
      BY <2>3, <3>1
    <3>3. QED
      BY <2>4, <3>2
  <2>10. Second => /\ v2[cw] = TxInfo(next - 1, Ovh + p1, FALSE, FALSE) /\ Whole(v2, cw, Ovh + p1, next - 1)
    <3>1. SUFFICES ASSUME Second
                   PROVE  v2[cw] = TxInfo(next - 1, Ovh + p1, FALSE, FALSE) /\ Whole(v2, cw, Ovh + p1, next - 1)
      OBVIOUS
    <3>2. v[cw] = TxInfo(next - 1, Ovh + p1, FALSE, FALSE) /\ Whole(v, cw, Ovh + p1, next - 1)
      BY <2>2, <3>1 DEF Current
    <3>3. Whole(v2, cw, Ovh + p1, next - 1)
      <4>1. PICK a, f : a = Ovh + p1 /\ f = next - 1
        OBVIOUS
      <4>2. Whole(v, cw, a, f) /\ \A k \in 1..(a - 1) : v2[cw + k] = v[cw + k]
        BY <2>3, <2>7, <3>1, <3>2, <4>1, Constants
      <4>3. Whole(v2, cw, a, f)
        BY <4>2, WholeKept
      <4>4. QED
        BY <4>1, <4>3
    <3>4. QED
      BY <2>7, <3>1, <3>2, <3>3
  <2>11. w.kind # "multi" => v2[Base] = TxInfo(next, Ovh + pi, w.last, FALSE)
    BY <1>2, <2>2, <2>6 DEF Current
  <2>12. w.kind = "multi" => v2[Base] = TxInfo(next, Ovh, FALSE, FALSE)
    BY <1>2, <2>6 DEF Current
  <2>13. pc["W"] = "body" /\ w.kind # "multi" => Begun(v2, Base, Ovh, next)
    <3>1. SUFFICES ASSUME pc["W"] = "body", w.kind # "multi" PROVE Begun(v2, Base, Ovh, next)
      OBVIOUS
    <3>2. Begun(v, Base, Ovh, next)
      BY <3>1 DEF Current
    <3>3. 1..(Ovh - 1) \subseteq 1..(Ovh + pi - 1)
      BY <2>3, <3>1, Constants
    <3>4. \A k \in 1..(Ovh - 1) : v2[Base + k] = v[Base + k]
      BY <2>8, <3>1, <3>3
    <3>5. QED
      BY <3>2, <3>4, BegunKept
  <2>14. pc["W"] \in {"body", "next"} /\ w.kind = "multi" => Begun(v2, Base, pv, next)
    <3>1. SUFFICES ASSUME pc["W"] \in {"body", "next"}, w.kind = "multi" PROVE Begun(v2, Base, pv, next)
      OBVIOUS
    <3>2. Begun(v, Base, pv, next)
      BY <2>2, <3>1 DEF Current
    <3>3. QED
      BY <2>9, <3>1, <3>2, BegunKept
  <2>15. pc["W"] \in {"next", "fin"} /\ w.kind # "multi" => Whole(v2, Base, Ovh + pi, next)
    <3>1. SUFFICES ASSUME pc["W"] \in {"next", "fin"}, w.kind # "multi" PROVE Whole(v2, Base, Ovh + pi, next)
      OBVIOUS
    <3>2. Whole(v, Base, Ovh + pi, next)
      BY <2>2, <3>1 DEF Current
    <3>3. PICK a : a = Ovh + pi
      OBVIOUS
    <3>4. Whole(v, Base, a, next) /\ \A k \in 1..(a - 1) : v2[Base + k] = v[Base + k]
      BY <2>3, <2>8, <3>1, <3>2, <3>3, Constants
    <3>5. Whole(v2, Base, a, next)
      BY <3>4, WholeKept
    <3>6. QED
      BY <3>3, <3>5
  <2>16. pc["W"] = "fin" /\ w.kind = "multi" => Whole(v2, Base, pv, next)
    <3>1. SUFFICES ASSUME pc["W"] = "fin", w.kind = "multi" PROVE Whole(v2, Base, pv, next)
      OBVIOUS
    <3>2. Whole(v, Base, pv, next)
      BY <2>2, <3>1 DEF Current
    <3>3. QED
      BY <2>9, <3>1, <3>2, WholeKept
  <2>17. QED
    BY <2>2, <2>10, <2>11, <2>12, <2>13, <2>14, <2>15, <2>16 DEF Current
<1>3. QED
  BY <1>1, <1>2

\* Two published frames do not overlap.
LEMMA Disjoint ==
  ASSUME NEW u, NEW r, NEW t, NEW z, NEW P, NEW N, NEW i \in u..(t - 1), NEW j \in (i + 1)..(t - 1),
         Indexed(u, r, t, z, P, N), Rising(u, t, z, P, N), Positions(u, r, t, z, P, N), Behind(u, r, z)
  PROVE  P[i] + N[i] <= P[j] \/ P[j] + N[j] <= P[i]
<1>1. /\ u \in Nat /\ r \in Nat /\ t \in Nat /\ z \in Nat /\ 1 <= u /\ u <= r /\ r <= t /\ z < t
      /\ P \in [Nat -> Nat] /\ N \in [Nat -> Nat]
      /\ \A k \in u..(t - 1) : N[k] > Ovh /\ P[k] >= 1 /\ P[k] + N[k] < BufSize
  BY DEF Indexed
<1>2. i \in Nat /\ j \in Nat /\ i < j /\ j \in u..(t - 1) /\ j \in (i + 1)..t /\ t \in (j + 1)..t /\ u <= i /\ j < t
  BY <1>1
<1>3. P[i] \in Nat /\ N[i] \in Nat /\ P[j] \in Nat /\ N[j] \in Nat /\ P[t] \in Nat /\ P[u] \in Nat
  BY <1>1, <1>2
<1>4. CASE ~(i <= z /\ z < j)
  BY <1>2, <1>4 DEF Rising
<1>5. CASE i <= z /\ z < j
  <2>1. ~(j <= z /\ z < t)
    BY <1>1, <1>2, <1>5
  <2>2. P[j] + N[j] <= P[t]
    BY <1>2, <2>1 DEF Rising
  <2>3. N[j] > Ovh /\ P[j] >= 1
    BY <1>1, <1>2
  <2>4. P[t] > 1
    BY <1>3, <2>2, <2>3, Constants
  <2>5. P[i] + N[i] <= P[t] \/ (u <= z /\ NextBulkOutPosition <= P[i])
    BY Outside DEF Positions
  <2>6. z >= u
    BY <1>1, <1>2, <1>5
  <2>7. u # r
    BY <1>1, <2>6 DEF Positions
  <2>8. u < r
    BY <1>1, <2>7
  <2>9. NextBulkOutPosition = P[u] /\ CurWritePosition = P[t]
    BY <2>8 DEF Positions
  <2>10. P[t] < P[u] \/ P[t] = 1
    BY <2>6, <2>9 DEF Behind
  <2>11. P[t] < P[u]
    BY <1>3, <2>4, <2>10
  <2>12. P[u] <= P[i]
    <3>1. CASE i = u
      BY <1>3, <3>1
    <3>2. CASE i # u
      <4>1. u \in u..(t - 1) /\ i \in (u + 1)..t /\ ~(u <= z /\ z < i)
        BY <1>1, <1>2, <1>5, <3>2
      <4>2. P[u] + N[u] <= P[i] /\ N[u] \in Nat
        BY <1>1, <4>1 DEF Rising
      <4>3. QED
        BY <1>3, <4>2
    <3>3. QED
      BY <3>1, <3>2
  <2>13. QED
    BY <1>3, <2>2, <2>11, <2>12
<1>6. QED
  BY <1>4, <1>5

\* The view of the ring after BuildUrb: the URB's frames as they are sealed, and the
\* unit behind them zeroed unless it is parked.
BuiltView(v, b, e, c) == \A q \in Pos : v[q] = IF ~c /\ q = e THEN Zero ELSE b[q]

\* The end of the URB.
EndOf(m, P, N) == P[m - 1] + N[m - 1]

\* The ring and SavedPad hold cells, and the view is that one.
LEMMA BuildView ==
  ASSUME NEW u, NEW r, NEW t, NEW z, NEW P, NEW N, NEW F, Typed, Layout(u, r, t, z, P, N, F),
         NEW m \in Nat, NEW b, r < m, m <= t, Sealed(b, r, m, P, N, F), Built(b, r, m, z, P, N)
  PROVE  /\ buf' \in [Pos -> Cells] /\ SavedPad' \in Cells /\ EndOf(m, P, N) \in Pos
         /\ BuiltView(View', b, EndOf(m, P, N), bCopySavePad')
<1>1. Indexed(u, r, t, z, P, N) /\ Joined(u, r, t, z, P, N)
  BY DEF Layout
<1>2. /\ u \in Nat /\ r \in Nat /\ t \in Nat /\ z \in Nat /\ u <= r /\ r <= t
      /\ P \in [Nat -> Nat] /\ N \in [Nat -> Nat]
  BY <1>1 DEF Indexed
<1>3. m - 1 \in Nat /\ m - 1 \in u..(t - 1) /\ m - 1 \in r..(t - 1) /\ (m - 1) + 1 = m
  BY <1>2
<1>4. PICK e : e = P[m - 1] + N[m - 1]
  OBVIOUS
<1>5. e \in Nat /\ e < BufSize /\ e \in Pos
  <2>1. P[m - 1] \in Nat /\ N[m - 1] \in Nat /\ P[m - 1] + N[m - 1] < BufSize
    BY <1>1, <1>2, <1>3 DEF Indexed
  <2>2. QED
    BY <1>4, <2>1, BufferSize
<1>6. b \in [Pos -> Cells]
  BY DEF Sealed
<1>7. Zero \in Cells
  <2>1. 0 \in 0..MaxFrames /\ 0 \in 0..BufSize
    BY BufferSize, TxRingAssumption
  <2>2. QED
    BY <2>1 DEF Zero, Cells
<1>8. buf' = [q \in Pos |-> IF q \in e..(e + 1 - 1) THEN Zero ELSE b[q]]
  BY <1>4 DEF Built, Put
<1>9. \A q \in Pos : q \in e..(e + 1 - 1) <=> q = e
  BY <1>5, BufferSize
<1>10. \A q \in Pos : buf'[q] = IF q = e THEN Zero ELSE b[q]
  BY <1>8, <1>9
<1>11. buf' \in [Pos -> Cells]
  BY <1>6, <1>7, <1>8
<1>12. bCopySavePad' => P[m] = e
  <2>1. bCopySavePad' => z # m - 1
    BY DEF Built
  <2>2. z # m - 1 => P[m] = P[m - 1] + N[m - 1]
    BY <1>1, <1>3 DEF Joined
  <2>3. QED
    BY <1>4, <2>1, <2>2
<1>13. bCopySavePad' => SavedPad' = b[e] /\ ENextBulkOutPosition' = e
  BY <1>5, <1>12 DEF Built, At
<1>14. SavedPad' \in Cells
  <2>1. SavedPad' = IF bCopySavePad' THEN At(b, P[m]) ELSE SavedPad
    BY DEF Built
  <2>2. CASE bCopySavePad'
    BY <1>5, <1>6, <1>13, <2>2
  <2>3. CASE ~bCopySavePad'
    BY <2>1, <2>3 DEF Typed
  <2>4. QED
    BY <2>2, <2>3
<1>15. ASSUME NEW q \in Pos PROVE View'[q] = IF ~bCopySavePad' /\ q = e THEN Zero ELSE b[q]
  <2>1. View' = PutBack(buf', bCopySavePad', ENextBulkOutPosition', SavedPad')
    BY DEF View
  <2>2. View'[q] = IF bCopySavePad' /\ q = ENextBulkOutPosition' THEN SavedPad' ELSE buf'[q]
    BY <1>11, <2>1, ViewCell
  <2>3. CASE bCopySavePad'
    BY <1>10, <1>13, <2>2, <2>3
  <2>4. CASE ~bCopySavePad'
    BY <1>10, <2>2, <2>4
  <2>5. QED
    BY <2>3, <2>4
<1>16. BuiltView(View', b, e, bCopySavePad')
  BY <1>15 DEF BuiltView
<1>17. EndOf(m, P, N) = e
  BY <1>4 DEF EndOf
<1>18. QED
  BY <1>5, <1>11, <1>14, <1>16, <1>17

\* The frames of a URB end below its end.
LEMMA UrbEnds ==
  ASSUME NEW u, NEW r, NEW t, NEW z, NEW P, NEW N, Indexed(u, r, t, z, P, N), Rising(u, t, z, P, N),
         NEW m \in Nat, r < m, m <= t, \A k \in r..(m - 2) : k # z, NEW i \in r..(m - 1)
  PROVE  P[i] + N[i] <= EndOf(m, P, N) /\ P[i] < EndOf(m, P, N) /\ P[i] \in Nat /\ N[i] \in Nat /\ EndOf(m, P, N) \in Nat
<1>1. /\ u \in Nat /\ r \in Nat /\ t \in Nat /\ u <= r /\ r <= t
      /\ P \in [Nat -> Nat] /\ N \in [Nat -> Nat]
      /\ \A k \in u..(t - 1) : N[k] > Ovh
  BY DEF Indexed
<1>2. i \in Nat /\ m - 1 \in Nat /\ i \in u..(t - 1) /\ m - 1 \in r..(m - 1)
  BY <1>1
<1>3. P[i] \in Nat /\ N[i] \in Nat /\ P[m - 1] \in Nat /\ N[m - 1] \in Nat /\ N[i] > Ovh
  BY <1>1, <1>2
<1>4. PICK e : e = P[m - 1] + N[m - 1]
  OBVIOUS
<1>5. P[i] + N[i] <= e
  <2>1. CASE i = m - 1
    BY <1>3, <1>4, <2>1
  <2>2. CASE i # m - 1
    <3>1. m - 1 \in (i + 1)..(m - 1)
      BY <1>1, <1>2, <2>2
    <3>2. P[i] + N[i] <= P[m - 1]
      BY <3>1, InRound
    <3>3. QED
      BY <1>3, <1>4, <3>2
  <2>3. QED
    BY <2>1, <2>2
<1>6. e \in Nat /\ P[i] < e
  BY <1>3, <1>4, <1>5, Constants
<1>7. QED
  BY <1>3, <1>4, <1>5, <1>6 DEF EndOf

\* A writer that is a round ahead is below the URB that is built.
LEMMA WriterBelow ==
  ASSUME NEW u, NEW r, NEW t, NEW z, NEW P, NEW N, Indexed(u, r, t, z, P, N), Rising(u, t, z, P, N),
         Positions(u, r, t, z, P, N), Behind(u, r, z), z >= r
  PROVE  /\ P[t] < P[r] \/ P[t] = 1
         /\ Writing /\ Room(w) \in Nat => P[t] + Room(w) + 1 <= P[r]
<1>1. /\ u \in Nat /\ r \in Nat /\ t \in Nat /\ z \in Nat /\ u <= r /\ r <= t /\ z < t
      /\ P \in [Nat -> Nat] /\ N \in [Nat -> Nat]
  BY DEF Indexed
<1>2. z >= u
  BY <1>1
<1>3. u # r
  BY <1>1, <1>2 DEF Positions
<1>4. u < r
  BY <1>1, <1>3
<1>5. NextBulkOutPosition = P[u] /\ CurWritePosition = P[t]
  BY <1>4 DEF Positions
<1>6. u \in u..(t - 1) /\ r \in (u + 1)..t /\ ~(u <= z /\ z < r)
  BY <1>1, <1>4
<1>7. P[u] + N[u] <= P[r]
  BY <1>6 DEF Rising
<1>8. P[u] \in Nat /\ N[u] \in Nat /\ P[r] \in Nat /\ P[t] \in Nat
  BY <1>1
<1>9. P[t] < P[u] \/ P[t] = 1
  BY <1>2, <1>5 DEF Behind
<1>10. P[t] < P[r] \/ P[t] = 1
  BY <1>7, <1>8, <1>9
<1>11. ASSUME Writing, Room(w) \in Nat PROVE P[t] + Room(w) + 1 <= P[r]
  <2>1. PICK rm \in Nat : rm = Room(w)
    BY <1>11
  <2>2. P[t] + rm + 1 <= P[u]
    BY <1>2, <1>5, <1>11, <2>1 DEF Behind
  <2>3. P[t] + rm + 1 <= P[r]
    BY <1>7, <1>8, <2>2
  <2>4. QED
    BY <2>1, <2>3
<1>12. QED
  BY <1>10, <1>11

\* A unit that is zeroed and not parked belongs to no frame.
LEMMA ZeroedFree ==
  ASSUME NEW u, NEW r, NEW t, NEW z, NEW P, NEW N, Indexed(u, r, t, z, P, N), Rising(u, t, z, P, N),
         Joined(u, r, t, z, P, N), Positions(u, r, t, z, P, N), Behind(u, r, z),
         NEW m \in Nat, r < m, m <= t, \A k \in r..(m - 2) : k # z, z = m - 1 \/ m = t,
         NEW i \in r..(t - 1)
  PROVE  P[i] + N[i] <= EndOf(m, P, N) \/ EndOf(m, P, N) < P[i]
<1>1. /\ u \in Nat /\ r \in Nat /\ t \in Nat /\ z \in Nat /\ u <= r /\ r <= t /\ z < t
      /\ P \in [Nat -> Nat] /\ N \in [Nat -> Nat]
      /\ \A k \in u..(t - 1) : N[k] > Ovh /\ P[k] >= 1
  BY DEF Indexed
<1>2. CASE i \in r..(m - 1)
  BY <1>2, UrbEnds
<1>3. CASE i \notin r..(m - 1)
  <2>1. i \in Nat /\ m <= i /\ m < t /\ z = m - 1 /\ i \in u..(t - 1) /\ t \in (i + 1)..t
    BY <1>1, <1>3
  <2>2. z >= r /\ ~(i <= z /\ z < t) /\ r \in r..(m - 1)
    BY <1>1, <2>1
  <2>3. P[i] + N[i] <= P[t]
    BY <2>1, <2>2 DEF Rising
  <2>4. P[i] \in Nat /\ N[i] \in Nat /\ P[t] \in Nat /\ P[r] \in Nat /\ N[i] > Ovh /\ P[i] >= 1
    BY <1>1, <2>1
  <2>5. P[t] < P[r] \/ P[t] = 1
    BY <2>2, WriterBelow
  <2>6. PICK e : e = EndOf(m, P, N)
    OBVIOUS
  <2>7. P[r] < e /\ e \in Nat
    BY <2>2, <2>6, UrbEnds
  <2>8. P[i] + N[i] <= e
    BY <2>3, <2>4, <2>5, <2>7, Constants
  <2>9. QED
    BY <2>6, <2>8
<1>4. QED
  BY <1>2, <1>3

\* A unit of a waiting frame is the first of no other.
LEMMA OnlyOwn ==
  ASSUME NEW u, NEW r, NEW t, NEW z, NEW P, NEW N, Indexed(u, r, t, z, P, N), Rising(u, t, z, P, N),
         Positions(u, r, t, z, P, N), Behind(u, r, z), NEW i \in u..(t - 1), NEW j \in u..(t - 1),
         NEW k \in Nat, k < N[i], i # j \/ k # 0
  PROVE  P[i] + k # P[j]
<1>1. /\ u \in Nat /\ t \in Nat /\ P \in [Nat -> Nat] /\ N \in [Nat -> Nat]
      /\ \A h \in u..(t - 1) : N[h] > Ovh
  BY DEF Indexed
<1>2. i \in Nat /\ j \in Nat /\ P[i] \in Nat /\ N[i] \in Nat /\ P[j] \in Nat /\ N[j] \in Nat /\ N[j] > Ovh
  BY <1>1
<1>3. CASE i = j
  BY <1>2, <1>3
<1>4. CASE i < j
  <2>1. j \in (i + 1)..(t - 1)
    BY <1>1, <1>2, <1>4
  <2>2. P[i] + N[i] <= P[j] \/ P[j] + N[j] <= P[i]
    BY <2>1, Disjoint
  <2>3. QED
    BY <1>2, <2>2, Constants
<1>5. CASE j < i
  <2>1. i \in (j + 1)..(t - 1)
    BY <1>1, <1>2, <1>5
  <2>2. P[j] + N[j] <= P[i] \/ P[i] + N[i] <= P[j]
    BY <2>1, Disjoint
  <2>3. QED
    BY <1>2, <2>2, Constants
<1>6. QED
  BY <1>2, <1>3, <1>4, <1>5

\* The frames of the URB and those that still wait, once the URB is built.
LEMMA BuiltContent ==
  ASSUME NEW u, NEW r, NEW t, NEW z, NEW P, NEW N, NEW F, Layout(u, r, t, z, P, N, F),
         NEW m \in Nat, NEW b, NEW v, NEW c, r < m, m <= t, Sealed(b, r, m, P, N, F),
         BuiltView(v, b, EndOf(m, P, N), c), \A k \in r..(m - 2) : k # z, ~c => z = m - 1 \/ m = t
  PROVE  Content(v, r, m, t, z, P, N, F)
<1>1. /\ Indexed(u, r, t, z, P, N) /\ Rising(u, t, z, P, N) /\ Joined(u, r, t, z, P, N)
      /\ Positions(u, r, t, z, P, N) /\ Behind(u, r, z) /\ Content(View, u, r, t, z, P, N, F)
  BY DEF Layout
<1>2. /\ u \in Nat /\ r \in Nat /\ t \in Nat /\ z \in Nat /\ u <= r /\ r <= t
      /\ P \in [Nat -> Nat] /\ N \in [Nat -> Nat]
      /\ \A i \in u..(t - 1) : N[i] > Ovh /\ P[i] + N[i] < BufSize
  BY <1>1 DEF Indexed
<1>3. r..(t - 1) \subseteq u..(t - 1) /\ r..(m - 1) \subseteq r..(t - 1) /\ m..(t - 1) \subseteq r..(t - 1)
  BY <1>2
<1>4. PICK e : e = EndOf(m, P, N)
  OBVIOUS
<1>5. m - 1 \in r..(m - 1) /\ e \in Nat
  <2>1. m - 1 \in r..(m - 1)
    BY <1>2
  <2>2. QED
    BY <1>1, <1>4, <2>1, UrbEnds
<1>6. ASSUME NEW i \in r..(t - 1), NEW k \in Nat, k < N[i]
      PROVE  P[i] + k \in Pos /\ v[P[i] + k] = b[P[i] + k]
  <2>1. i \in Nat /\ i \in u..(t - 1) /\ P[i] \in Nat /\ N[i] \in Nat
    BY <1>2
  <2>2. P[i] + N[i] < BufSize
    BY <1>2, <2>1
  <2>3. P[i] + k \in Pos
    BY <1>6, <2>1, <2>2, BufferSize
  <2>4. ~c => P[i] + k # e
    <3>1. SUFFICES ASSUME ~c PROVE P[i] + k # e
      OBVIOUS
    <3>2. P[i] + N[i] <= e \/ e < P[i]
      BY <1>1, <1>4, <3>1, ZeroedFree
    <3>3. QED
      BY <1>5, <1>6, <2>1, <3>2
  <2>5. v[P[i] + k] = IF ~c /\ P[i] + k = e THEN Zero ELSE b[P[i] + k]
    BY <1>4, <2>3 DEF BuiltView
  <2>6. QED
    BY <2>3, <2>4, <2>5
<1>7. ASSUME NEW i \in r..(t - 1), NEW k \in Nat, k < N[i], k # 0 \/ m <= i
      PROVE  v[P[i] + k] = View[P[i] + k]
  <2>1. P[i] + k \in Pos /\ v[P[i] + k] = b[P[i] + k]
    BY <1>6, <1>7
  <2>2. ASSUME NEW j \in r..(m - 1) PROVE P[i] + k # P[j]
    <3>1. i \in u..(t - 1) /\ j \in u..(t - 1) /\ i \in Nat /\ j \in Nat
      BY <1>2, <1>3
    <3>2. i # j \/ k # 0
      BY <1>2, <1>7, <3>1
    <3>3. QED
      BY <1>1, <1>7, <3>1, <3>2, OnlyOwn
  <2>3. b[P[i] + k] = View[P[i] + k]
    BY <2>1, <2>2 DEF Sealed
  <2>4. QED
    BY <2>1, <2>3
<1>8. ASSUME NEW i \in r..(t - 1) PROVE i \in u..(t - 1) /\ P[i] \in Nat /\ N[i] \in Nat /\ 0 < N[i] /\ P[i] + 0 = P[i]
  <2>1. i \in Nat /\ i \in u..(t - 1) /\ N[i] > Ovh
    BY <1>2
  <2>2. QED
    BY <1>2, <2>1, Constants
<1>9. ASSUME NEW i \in r..(m - 1) PROVE v[P[i]] = TxInfo(F[i], N[i], FALSE, i # m - 1)
  <2>1. v[P[i]] = b[P[i]]
    BY <1>3, <1>6, <1>8
  <2>2. QED
    BY <2>1 DEF Sealed
<1>10. ASSUME NEW i \in m..(t - 1) PROVE v[P[i]] = TxInfo(F[i], N[i], i = z, FALSE)
  <2>1. i \in r..(t - 1) /\ m <= i
    BY <1>2
  <2>2. v[P[i]] = View[P[i]]
    BY <1>7, <1>8, <2>1
  <2>3. View[P[i]] = TxInfo(F[i], N[i], i = z, FALSE)
    BY <1>1, <2>1 DEF Content
  <2>4. QED
    BY <2>2, <2>3
<1>11. ASSUME NEW i \in r..(t - 1) PROVE Whole(v, P[i], N[i], F[i])
  <2>1. i \in u..(t - 1) /\ P[i] \in Nat /\ N[i] \in Nat
    BY <1>8
  <2>2. Whole(View, P[i], N[i], F[i])
    BY <1>1, <2>1 DEF Content
  <2>3. ASSUME NEW k \in 1..(N[i] - 1) PROVE v[P[i] + k] = View[P[i] + k]
    <3>1. k \in Nat /\ k < N[i] /\ k # 0
      BY <2>1
    <3>2. QED
      BY <1>7, <3>1
  <2>4. QED
    BY <2>2, <2>3, WholeKept
<1>12. QED
  BY <1>9, <1>10, <1>11 DEF Content

\* What the writer has written of its block stays.
LEMMA BuiltCurrent ==
  ASSUME NEW u, NEW r, NEW t, NEW z, NEW P, NEW N, NEW F, Plain, Layout(u, r, t, z, P, N, F),
         NEW m \in Nat, NEW b, NEW v, NEW c, r < m, m <= t, Sealed(b, r, m, P, N, F),
         BuiltView(v, b, EndOf(m, P, N), c), \A k \in r..(m - 2) : k # z, ~c /\ Writing => z = m - 1
  PROVE  Current(v)
<1>1. /\ Indexed(u, r, t, z, P, N) /\ Rising(u, t, z, P, N)
      /\ Positions(u, r, t, z, P, N) /\ Behind(u, r, z)
  BY DEF Layout
<1>2. IndInv /\ Written /\ Current(View)
  BY DEF Plain
<1>3. /\ u \in Nat /\ r \in Nat /\ t \in Nat /\ z \in Nat /\ u <= r /\ r <= t
      /\ P \in [Nat -> Nat] /\ N \in [Nat -> Nat]
      /\ \A i \in u..(t - 1) : N[i] > Ovh
  BY <1>1 DEF Indexed
<1>4. ASSUME Writing PROVE Untouched(View, v)
  <2>1. CurWritePosition \in Nat /\ w.Priv \in Nat /\ Room(w) \in Nat /\ w.Priv <= Room(w)
    BY <1>2, <1>4, WrittenPlace
  <2>2. PICK cw, pv, rm : cw = CurWritePosition /\ pv = w.Priv /\ rm = Room(w)
    OBVIOUS
  <2>3. cw \in Nat /\ pv \in Nat /\ rm \in Nat /\ pv <= rm /\ cw = P[t]
    BY <1>1, <2>1, <2>2 DEF Positions
  <2>4. ASSUME NEW q \in Pos, cw <= q, q < cw + pv PROVE v[q] = View[q]
    <3>1. q \in Nat
      BY BufferSize
    <3>2. ASSUME NEW j \in r..(m - 1) PROVE q # P[j]
      <4>1. j \in Nat /\ j \in u..(t - 1)
        BY <1>3
      <4>2. PICK hi \in Nat : hi = cw + rm
        BY <2>3
      <4>3. CurWritePosition <= cw /\ hi <= CurWritePosition + Room(w)
        BY <2>2, <2>3, <4>2
      <4>4. P[j] + N[j] <= cw \/ hi < P[j]
        BY <1>1, <1>4, <2>1, <2>3, <4>1, <4>3, WriterMisses
      <4>5. P[j] \in Nat /\ N[j] \in Nat /\ N[j] > Ovh
        BY <1>3, <4>1
      <4>6. QED
        BY <2>3, <2>4, <3>1, <4>2, <4>4, <4>5, Constants
    <3>3. b[q] = View[q]
      BY <3>2 DEF Sealed
    <3>4. ~c => q # EndOf(m, P, N)
      <4>1. SUFFICES ASSUME ~c PROVE q # EndOf(m, P, N)
        OBVIOUS
      <4>2. PICK e : e = EndOf(m, P, N)
        OBVIOUS
      <4>3. z >= r /\ r \in r..(m - 1)
        BY <1>3, <1>4, <4>1
      <4>4. P[t] + rm + 1 <= P[r]
        BY <1>1, <1>4, <2>1, <2>2, <4>3, WriterBelow
      <4>5. P[r] < e /\ e \in Nat /\ P[r] \in Nat
        BY <1>1, <4>2, <4>3, UrbEnds
      <4>6. q # e
        BY <2>3, <2>4, <3>1, <4>4, <4>5
      <4>7. QED
        BY <4>2, <4>6
    <3>5. QED
      BY <3>3, <3>4 DEF BuiltView
  <2>5. QED
    BY <2>2, <2>4 DEF Untouched
<1>5. QED
  BY <1>2, <1>4, CurrentKept

\* The numbers of the frames, once the URB before is done with.
LEMMA BuildNumbers ==
  ASSUME NEW u, NEW r, NEW t, NEW z, NEW P, NEW N, NEW F, OneUser, Layout(u, r, t, z, P, N, F),
         NEW m \in Nat, r < m, m <= t, rd.pc = "claimed", Owed', Free' = Free,
         sent' = sent, dropped' = dropped
  PROVE  Numbered(r, m, t, F)' /\ SentSoFar(r, m, t, F)'
<1>1. Indexed(u, r, t, z, P, N) /\ Numbered(u, r, t, F) /\ SentSoFar(u, r, t, F)
  BY DEF Layout
<1>2. u \in Nat /\ r \in Nat /\ t \in Nat /\ u <= r /\ r <= t
  BY <1>1 DEF Indexed
<1>3. r..(t - 1) \subseteq u..(t - 1) /\ m..(t - 1) \subseteq r..(t - 1) /\ r..(m - 1) \subseteq r..(t - 1)
  BY <1>2
<1>4. ~Owed
  BY DEF Owed, OneUser
<1>5. /\ F \in [Nat -> Nat] /\ t <= Free /\ 1 <= Free
      /\ \A i \in u..(t - 1) : 1 <= F[i] /\ F[i] < Free
      /\ \A i \in u..(t - 1) : \A j \in (i + 1)..(t - 1) : F[i] < F[j]
      /\ \A f \in 1..(Free - 1) : f \in Gone \/ \E i \in u..(t - 1) : f = F[i]
      /\ \A i \in u..(r - 1) : F[i] \in Gone
  BY <1>1, <1>4 DEF Numbered
<1>6. ASSUME NEW f \in 1..(Free - 1), f \notin Gone PROVE \E i \in r..(t - 1) : f = F[i]
  <2>1. PICK i \in u..(t - 1) : f = F[i]
    BY <1>5, <1>6
  <2>2. i \notin u..(r - 1)
    BY <1>5, <1>6, <2>1
  <2>3. i \in r..(t - 1)
    BY <1>2, <2>2
  <2>4. QED
    BY <2>1, <2>3
<1>7. Gone' = Gone
  BY DEF Gone, FramesOf
<1>8. Numbered(r, m, t, F)'
  <2>1. /\ \A i \in r..(t - 1) : 1 <= F[i] /\ F[i] < Free
        /\ \A i \in r..(t - 1) : \A j \in (i + 1)..(t - 1) : F[i] < F[j]
    BY <1>3, <1>5
  <2>2. \A f \in 1..(Free - 1) : f \in Gone \/ \E i \in r..(t - 1) : f = F[i]
    BY <1>6
  <2>3. QED
    BY <1>5, <1>7, <2>1, <2>2, Zenon DEF Numbered
<1>9. SentSoFar(r, m, t, F)'
  <2>1. \A i \in DOMAIN sent : sent[i].f < Free /\ \A j \in r..(t - 1) : sent[i].f < F[j]
    BY <1>1 DEF SentSoFar
  <2>2. \A i \in DOMAIN sent : sent[i].f < Free /\ \A j \in m..(t - 1) : sent[i].f < F[j]
    BY <1>3, <2>1
  <2>3. \A i \in DOMAIN sent : \A j \in r..(m - 1) : sent[i].f < F[j]
    BY <1>3, <2>1
  <2>4. QED
    BY <2>2, <2>3 DEF SentSoFar
<1>10. QED
  BY <1>8, <1>9

\* The URB lies in the buffer.
LEMMA BuiltSize ==
  ASSUME NEW u, NEW r, NEW t, NEW z, NEW P, NEW N, Indexed(u, r, t, z, P, N), Rising(u, t, z, P, N),
         NEW m \in Nat, NEW b, r < m, m <= t, \A k \in r..(m - 2) : k # z, Built(b, r, m, z, P, N),
         EndOf(m, P, N) \in Pos
  PROVE  BulkOutSize' \in 0..BufSize /\ NextBulkOutPosition' \in Pos
<1>1. PICK e : e = EndOf(m, P, N)
  OBVIOUS
<1>2. NextBulkOutPosition' = P[r] /\ BulkOutSize' = e - P[r]
  <2>1. NextBulkOutPosition' = P[r] /\ BulkOutSize' = P[m - 1] + N[m - 1] - P[r]
    BY DEF Built
  <2>2. e = P[m - 1] + N[m - 1]
    BY <1>1 DEF EndOf
  <2>3. m - 1 \in Nat /\ r \in Nat /\ P \in [Nat -> Nat] /\ N \in [Nat -> Nat]
    BY DEF Indexed
  <2>4. P[m - 1] \in Nat /\ N[m - 1] \in Nat /\ P[r] \in Nat
    BY <2>3
  <2>5. QED
    BY <2>1, <2>2, <2>4
<1>3. r \in r..(m - 1)
  BY DEF Indexed
<1>4. P[r] < e /\ P[r] \in Nat
  BY <1>1, <1>3, UrbEnds
<1>5. e \in Nat /\ e < BufSize
  BY <1>1, BufferSize
<1>6. e - P[r] \in 0..BufSize /\ P[r] \in 0..(BufSize - 1)
  BY <1>4, <1>5, BufferSize
<1>7. QED
  BY <1>2, <1>6, BufferSize

\* RTUSBBulkOutDataPacket builds a URB.
LEMMA BuildKept ==
  ASSUME RingInv, BuildUrb
  PROVE  RingInv'
<1>1. PICK u \in Nat, r \in Nat, t \in Nat, z \in Nat, P \in [Nat -> Nat], N \in [Nat -> Nat],
           F \in [Nat -> Nat] : Layout(u, r, t, z, P, N, F)
  BY DEF RingInv, Laid
<1>2. Plain /\ IndInv /\ Typed /\ Written /\ OneUser
  BY DEF RingInv, Plain
<1>3. PICK m, b : /\ m \in Nat /\ r < m /\ m <= t
                  /\ Sealed(b, r, m, P, N, F) /\ Built(b, r, m, z, P, N)
                  /\ \A i \in r..(m - 2) : i # z
  BY <1>1, <1>2, BuildDoes
<1>4. /\ rd.pc = "claimed" /\ dataFlag' = FALSE
      /\ UNCHANGED <<CurWritePosition, CurWriteRealPos, bCurWriting, bulkOutReset, bForcePrintTX,
                     BulkOutPending, pc, w, urb, resetCmds, hist>>
  BY <1>1, <1>2, BuildLeaves
<1>5. next' = next /\ sent' = sent /\ dropped' = dropped
  BY <1>4 DEF hist
<1>6. Free' = Free /\ (Second' <=> Second) /\ (Writing' <=> Writing)
  BY <1>4, <1>5, FreeKept
<1>7. /\ Indexed(r, m, t, z, P, N) /\ Rising(r, t, z, P, N) /\ Joined(r, m, t, z, P, N)
      /\ LowEnough(r, t, P) /\ Positions(r, m, t, z, P, N)' /\ Behind(r, m, z)'
      /\ Parked(r, m, t, z, P, N)'
  BY <1>1, <1>2, <1>3, BuildPlace
<1>8. /\ buf' \in [Pos -> Cells] /\ SavedPad' \in Cells /\ EndOf(m, P, N) \in Pos
      /\ BuiltView(View', b, EndOf(m, P, N), bCopySavePad')
  BY <1>1, <1>2, <1>3, BuildView
<1>9. Indexed(u, r, t, z, P, N) /\ Rising(u, t, z, P, N) /\ Joined(u, r, t, z, P, N)
  BY <1>1 DEF Layout
<1>10. ~bCopySavePad' => z = m - 1 \/ (m = t /\ ~Writing)
  <2>1. SUFFICES ASSUME ~bCopySavePad', z # m - 1 PROVE m = t /\ ~Writing
    OBVIOUS
  <2>2. m - 1 \in r..(t - 1) /\ (m - 1) + 1 = m
    BY <1>3
  <2>3. P[m] = P[m - 1] + N[m - 1]
    BY <1>9, <2>1, <2>2 DEF Joined
  <2>4. ~(m < t \/ Writing')
    BY <1>3, <1>7, <2>1, <2>3 DEF Parked
  <2>5. QED
    BY <1>3, <1>6, <2>4
<1>11. Content(View, r, m, t, z, P, N, F)'
  <2>1. PICK v, c : v = View' /\ c = bCopySavePad'
    OBVIOUS
  <2>2. Content(v, r, m, t, z, P, N, F)
    BY <1>1, <1>3, <1>8, <1>10, <2>1, BuiltContent
  <2>3. QED
    BY <2>1, <2>2 DEF Content
<1>12. Current(View)'
  <2>1. PICK v, c : v = View' /\ c = bCopySavePad'
    OBVIOUS
  <2>2. Current(v)
    BY <1>1, <1>2, <1>3, <1>8, <1>10, <2>1, BuiltCurrent, ZenonT(30)
  <2>3. Base' = Base
    BY <1>4, <1>6 DEF Base
  <2>4. QED
    BY <1>4, <1>5, <1>6, <2>1, <2>2, <2>3 DEF Current
<1>13. Written'
  BY <1>2, <1>4, <1>5, <1>6 DEF Written
<1>14. /\ rd'.pc = "built" /\ rd' \in [pc : {"idle", "claimed", "empty", "built"}, by : Contexts]
  <2>1. rd' = [rd EXCEPT !.pc = "built"]
    BY <1>3 DEF Built
  <2>2. QED
    BY <1>2, <2>1 DEF Typed
<1>15. OneUser' /\ HasUrb(r, m)' /\ Owed'
  BY <1>2, <1>3, <1>4, <1>14 DEF OneUser, HasUrb, Owed
<1>16. Numbered(r, m, t, F)' /\ SentSoFar(r, m, t, F)'
  BY <1>1, <1>2, <1>3, <1>4, <1>5, <1>6, <1>15, BuildNumbers
<1>17. Typed'
  <2>1. bCopySavePad' \in BOOLEAN
    BY <1>3 DEF Built
  <2>2. {bCurWriting', bCopySavePad', BulkOutPending', dataFlag', bulkOutReset', bForcePrintTX'} \subseteq BOOLEAN
    BY <1>2, <1>4, <2>1 DEF Typed
  <2>3. BulkOutSize' \in 0..BufSize /\ NextBulkOutPosition' \in Pos
    BY <1>3, <1>8, <1>9, BuiltSize
  <2>4. /\ urb' \in {"none", "flying", "done", "failed"} /\ resetCmds' \in Nat
        /\ next' \in 1..(MaxFrames + 1) /\ sent' \in Seq([f : Nat, ok : BOOLEAN, cnt : BOOLEAN])
    BY <1>2, <1>4, <1>5 DEF Typed
  <2>5. QED
    BY <1>8, <1>14, <2>2, <2>3, <2>4 DEF Typed
<1>18. NoZeroLengthFrame' /\ SentIntact' /\ FirstSentInOrder'
  BY <1>2, <1>4, <1>5, HistoryKept
<1>19. IndInv'
  BY <1>2, AsideStep
<1>20. Laid'
  BY <1>7, <1>11, <1>15, <1>16, LaidAgain
<1>21. Plain'
  BY <1>12, <1>13, <1>15, <1>17, <1>18, <1>19 DEF Plain
<1>22. QED
  BY <1>20, <1>21 DEF RingInv
-----------------------------------------------------------------------------
(***************************************************************************)
(* The invariant of the ring.                                              *)
(***************************************************************************)

\* The empty ring.
LEMMA InitRing == Init => RingInv
<1>1. SUFFICES ASSUME Init PROVE RingInv
  OBVIOUS
<1>2. IndInv
  BY <1>1, InitInd
<1>3. pc["W"] = "idle" /\ ~Writing /\ ~Second
  BY <1>1 DEF Init, Contexts, Writing, Second
<1>4. MaxFrames \in Nat
  BY TxRingAssumption
<1>5. Typed
  <2>1. Zero \in Cells
    <3>1. 0 \in 0..MaxFrames /\ 0 \in 0..BufSize
      BY <1>4, BufferSize
    <3>2. QED
      BY <3>1 DEF Zero, Cells
  <2>2. buf \in [Pos -> Cells] /\ SavedPad \in Cells
    BY <1>1, <2>1 DEF Init
  <2>3. BulkOutSize \in 0..BufSize /\ NextBulkOutPosition \in Pos /\ next \in 1..(MaxFrames + 1)
    BY <1>1, <1>4, BufferSize DEF Init
  <2>4. rd \in [pc : {"idle", "claimed", "empty", "built"}, by : Contexts]
    BY <1>1 DEF Init, Contexts
  <2>5. sent \in Seq([f : Nat, ok : BOOLEAN, cnt : BOOLEAN])
    BY <1>1 DEF Init
  <2>6. QED
    BY <1>1, <2>2, <2>3, <2>4, <2>5 DEF Init, Typed
<1>6. Written
  BY <1>1, <1>3 DEF Init, Written
<1>7. OneUser
  BY <1>1 DEF Init, OneUser
<1>8. Current(View)
  BY <1>3 DEF Current
<1>9. sent = <<>> /\ DOMAIN sent = {}
  BY <1>1 DEF Init
<1>10. NoZeroLengthFrame /\ SentIntact /\ FirstSentInOrder
  BY <1>1, <1>9 DEF Init, NoZeroLengthFrame, SentIntact, FirstSentInOrder
<1>11. PICK P : P = [i \in Nat |-> 0]
  OBVIOUS
<1>12. P \in [Nat -> Nat] /\ P[1] = 0
  BY <1>11
<1>13. \A i \in 1..(1 - 1) : FALSE
  OBVIOUS
<1>14. \A i \in 1..(1 - 2) : FALSE
  OBVIOUS
<1>15. Indexed(1, 1, 1, 0, P, P) /\ Rising(1, 1, 0, P, P) /\ Joined(1, 1, 1, 0, P, P) /\ LowEnough(1, 1, P)
  BY <1>12, <1>13, <1>14 DEF Indexed, Rising, Joined, LowEnough
<1>16. Positions(1, 1, 1, 0, P, P)
  BY <1>1, <1>3, <1>12 DEF Init, Positions
<1>17. Behind(1, 1, 0)
  BY <1>3 DEF Behind
<1>18. Parked(1, 1, 1, 0, P, P)
  BY <1>1 DEF Init, Parked
<1>19. Content(View, 1, 1, 1, 0, P, P, P)
  BY <1>13 DEF Content
<1>20. Free = 1 /\ next = 1
  BY <1>1, <1>3 DEF Init, Free
<1>21. Numbered(1, 1, 1, P)
  BY <1>12, <1>13, <1>20 DEF Numbered
<1>22. SentSoFar(1, 1, 1, P)
  BY <1>9 DEF SentSoFar
<1>23. HasUrb(1, 1)
  BY <1>1 DEF Init, HasUrb
<1>24. Layout(1, 1, 1, 0, P, P, P)
  BY <1>15, <1>16, <1>17, <1>18, <1>19, <1>21, <1>22, <1>23 DEF Layout
<1>25. Laid
  BY <1>12, <1>24 DEF Laid
<1>26. Plain
  BY <1>2, <1>5, <1>6, <1>7, <1>8, <1>10 DEF Plain
<1>27. QED
  BY <1>25, <1>26 DEF RingInv

\* Every step keeps the invariant.
LEMMA RingStep == RingInv /\ [Next]_vars => RingInv'
<1>1. SUFFICES ASSUME RingInv, [Next]_vars PROVE RingInv'
  OBVIOUS
<1>2. CASE UNCHANGED vars
  <2>1. UNCHANGED <<buf, ring, BulkOutSize, w, hist, bForcePrintTX>>
    BY <1>2 DEF vars, flags
  <2>2. UNCHANGED <<pc, BulkOutPending, dataFlag, bulkOutReset, rd, urb, resetCmds>>
    BY <1>2 DEF vars, flags
  <2>3. /\ IndInv /\ Typed /\ OneUser
        /\ {BulkOutPending, dataFlag, bulkOutReset} \subseteq BOOLEAN
        /\ rd \in [pc : {"idle", "claimed", "empty", "built"}, by : Contexts]
        /\ urb \in {"none", "flying", "done", "failed"} /\ resetCmds \in Nat
    BY <1>1, OfRingInv
  <2>4. OneUser' /\ (InUse' => InUse) /\ (Owed => Owed')
    BY <2>2, <2>3 DEF OneUser, InUse, Owed
  <2>5. Typed'
    BY <2>1, <2>2, <2>3, TypedQuiet
  <2>6. IndInv'
    BY <1>1, <2>3, IndStep
  <2>7. QED
    BY <1>1, <2>1, <2>2, <2>4, <2>5, <2>6, QuietStep
<1>3. ASSUME NEW b \in Batches, DeQueuePacket(b) PROVE RingInv'
  BY <1>1, <1>3, DeQueueKept
<1>4. CASE WriteHeader
  BY <1>1, <1>4, HeaderKept, RefusedKept
<1>5. CASE WriteBody
  BY <1>1, <1>5, BodyKept
<1>6. CASE WriteNext
  BY <1>1, <1>6, NextKept
<1>7. CASE PublishWrite
  BY <1>1, <1>7, PublishKept
<1>8. CASE FinalWriteTxResource
  BY <1>1, <1>8, FinalKept
<1>9. ASSUME NEW c \in Contexts, KickBulkOut(c) PROVE RingInv'
  BY <1>1, <1>9, KickKept
<1>10. CASE SeesEmpty \/ GivesUp \/ SubmitOk
  BY <1>1, <1>10, ReaderKept
<1>11. CASE BuildUrb
  BY <1>1, <1>11, BuildKept
<1>12. CASE SubmitFails
  BY <1>1, <1>12, SubmitFailsKept
<1>13. CASE UrbDone
  BY <1>1, <1>13, UrbDoneKept
<1>14. CASE UrbFails \/ DataOutComplete \/ TaskletCheck \/ OtherPipeQueuesReset \/ ResetBulkOut
  BY <1>1, <1>14, CompletionKept
<1>15. QED
  BY <1>1, <1>2, <1>3, <1>4, <1>5, <1>6, <1>7, <1>8, <1>9, <1>10, <1>11, <1>12, <1>13, <1>14 DEF Next

\* It holds always.
LEMMA RingAlways == Spec => []RingInv
BY InitRing, RingStep, PTL DEF Spec

\* Its types.
LEMMA RingTypes == RingInv => TypeOK
<1>1. SUFFICES ASSUME RingInv PROVE TypeOK
  OBVIOUS
<1>2. Plain /\ IndInv /\ Typed /\ Written
  BY <1>1 DEF RingInv, Plain
<1>3. PICK u \in Nat, r \in Nat, t \in Nat, z \in Nat, P \in [Nat -> Nat], N \in [Nat -> Nat],
           F \in [Nat -> Nat] : Layout(u, r, t, z, P, N, F)
  BY <1>1 DEF RingInv, Laid
<1>4. CurWritePosition \in Nat /\ CurWritePosition + AggReserve <= Limit + 1
  <2>1. Below
    BY <1>2 DEF IndInv
  <2>2. CurWritePosition \in Nat
    BY <2>1 DEF Below
  <2>3. QED
    BY <2>1, <2>2, Constants DEF Below
<1>5. CurWritePosition \in Pos
  BY <1>4, BufferSize, Constants
<1>6. CurWriteRealPos \in Pos
  <2>1. CASE ~Writing
    BY <1>2, <1>5, <2>1 DEF Written
  <2>2. CASE Writing
    <3>1. w.Priv \in Nat /\ CurWritePosition + w.Priv < BufSize
      BY <1>2, <2>2, WrittenPlace
    <3>2. CurWriteRealPos \in Nat /\ CurWriteRealPos <= CurWritePosition + w.Priv
      BY <1>2, <2>2 DEF Written
    <3>3. PICK pv : pv = w.Priv
      OBVIOUS
    <3>4. pv \in Nat /\ CurWritePosition + pv < BufSize /\ CurWriteRealPos <= CurWritePosition + pv
      BY <3>1, <3>2, <3>3
    <3>5. QED
      BY <1>4, <3>2, <3>4, BufferSize
  <2>3. QED
    BY <2>1, <2>2
<1>7. ENextBulkOutPosition \in Pos
  <2>1. Indexed(u, r, t, z, P, N) /\ ENextBulkOutPosition = P[r] /\ CurWritePosition = P[t]
    BY <1>3 DEF Layout, Positions
  <2>2. CASE r = t
    BY <1>5, <2>1, <2>2
  <2>3. CASE r # t
    <3>1. r \in u..(t - 1)
      BY <2>1, <2>3 DEF Indexed
    <3>2. P[r] + N[r] < BufSize /\ P[r] \in Nat /\ N[r] \in Nat
      BY <2>1, <3>1 DEF Indexed
    <3>3. PICK p, n : p = P[r] /\ n = N[r]
      OBVIOUS
    <3>4. p \in Nat /\ n \in Nat /\ p + n < BufSize /\ ENextBulkOutPosition = p
      BY <2>1, <3>2, <3>3
    <3>5. p \in Pos
      BY <3>4, BufferSize
    <3>6. QED
      BY <3>4, <3>5
  <2>4. QED
    BY <2>2, <2>3
<1>8. pc \in [Contexts -> Labels]
  BY <1>2 DEF IndInv, Block
<1>9. \A p \in Pos : buf[p] \in Cells
  BY <1>2 DEF Typed
<1>10. rd.pc \in {"idle", "claimed", "empty", "built"} /\ rd.by \in Contexts
  BY <1>2 DEF Typed
<1>11. QED
  BY <1>2, <1>5, <1>6, <1>7, <1>8, <1>9, <1>10 DEF TypeOK, Typed, Labels

\* When no frame waits and the last URB is done with, nothing is left.
LEMMA RingDrained == RingInv => EmptyMeansDrained
<1>1. SUFFICES ASSUME RingInv, NothingToSend, rd.pc \notin {"built"}, urb = "none", ~bulkOutReset,
                      NEW f \in 1..(next - 1)
               PROVE  f \in FramesOf(sent) \union dropped \/ (bCurWriting /\ w.kind = "frag" /\ f = next - 1)
  BY DEF EmptyMeansDrained
<1>2. Plain /\ Typed /\ Written
  BY <1>1 DEF RingInv, Plain
<1>3. PICK u \in Nat, r \in Nat, t \in Nat, z \in Nat, P \in [Nat -> Nat], N \in [Nat -> Nat],
           F \in [Nat -> Nat] : Layout(u, r, t, z, P, N, F)
  BY <1>1 DEF RingInv, Laid
<1>4. /\ Indexed(u, r, t, z, P, N) /\ Rising(u, t, z, P, N) /\ Positions(u, r, t, z, P, N)
      /\ Behind(u, r, z) /\ Numbered(u, r, t, F)
  BY <1>3 DEF Layout
<1>5. r = t
  <2>1. SUFFICES ASSUME r # t PROVE FALSE
    OBVIOUS
  <2>2. r < t
    BY <1>4, <2>1 DEF Indexed
  <2>3. ENextBulkOutPosition # CurWritePosition /\ ENextBulkOutPosition # CurWritePosition + 1
    BY <1>4, <2>2, Waiting
  <2>4. ENextBulkOutPosition \in Nat /\ CurWritePosition \in Nat
    BY <1>4, UrbStart
  <2>5. ENextBulkOutPosition = CurWritePosition \/ ENextBulkOutPosition - 1 = CurWritePosition
    BY <1>1 DEF NothingToSend
  <2>6. QED
    BY <2>3, <2>4, <2>5
<1>6. ~Owed
  BY <1>1 DEF Owed
<1>7. ASSUME f \in 1..(Free - 1) PROVE f \in Gone
  <2>1. f \in Gone \/ \E i \in u..(t - 1) : f = F[i]
    BY <1>4, <1>7 DEF Numbered
  <2>2. \A i \in u..(t - 1) : F[i] \in Gone
    BY <1>4, <1>5, <1>6 DEF Numbered
  <2>3. QED
    BY <2>1, <2>2
<1>8. next \in Nat /\ f \in Nat /\ 1 <= f /\ f <= next - 1
  <2>1. next \in Nat
    BY <1>2, TxRingAssumption DEF Typed
  <2>2. QED
    BY <1>1, <2>1
<1>9. CASE f \in 1..(Free - 1)
  BY <1>7, <1>9 DEF Gone
<1>10. CASE f \notin 1..(Free - 1)
  <2>1. Second
    <3>1. SUFFICES ASSUME ~Second PROVE FALSE
      OBVIOUS
    <3>2. Free = next
      BY <3>1 DEF Free
    <3>3. QED
      BY <1>1, <1>10, <3>2
  <2>2. Free = next - 1
    BY <2>1 DEF Free
  <2>3. f = next - 1
    BY <1>8, <1>10, <2>2
  <2>4. bCurWriting /\ w.kind = "frag"
    BY <1>2, <2>1 DEF Second, Written
  <2>5. QED
    BY <2>3, <2>4
<1>11. QED
  BY <1>9, <1>10
-----------------------------------------------------------------------------
(***************************************************************************)
(* The last URB is not written to.                                         *)
(***************************************************************************)

\* The frames of the last URB and the unit behind them do not change.
UrbKept == \A p \in NextBulkOutPosition..(NextBulkOutPosition + BulkOutSize) : buf'[p] = buf[p]

\* Unless the writer is a round ahead, it is behind the last URB.
LEMMA UrbBefore ==
  ASSUME NEW u, NEW r, NEW t, NEW z, NEW P, NEW N, Indexed(u, r, t, z, P, N), Rising(u, t, z, P, N),
         Positions(u, r, t, z, P, N), u < r, z < u
  PROVE  /\ EndOf(r, P, N) \in Nat /\ CurWritePosition \in Nat /\ EndOf(r, P, N) <= CurWritePosition
         /\ EndOf(r, P, N) = CurWritePosition => r = t
<1>1. /\ u \in Nat /\ r \in Nat /\ t \in Nat /\ z \in Nat /\ u <= r /\ r <= t
      /\ P \in [Nat -> Nat] /\ N \in [Nat -> Nat]
      /\ \A i \in u..(t - 1) : N[i] > Ovh
  BY DEF Indexed
<1>2. r - 1 \in Nat /\ r - 1 \in u..(t - 1) /\ t \in ((r - 1) + 1)..t /\ r \in ((r - 1) + 1)..t /\ ~(r - 1 <= z)
  BY <1>1
<1>3. PICK e : e = P[r - 1] + N[r - 1]
  OBVIOUS
<1>4. P[r - 1] \in Nat /\ N[r - 1] \in Nat /\ P[r] \in Nat /\ N[r] \in Nat /\ P[t] \in Nat /\ e \in Nat
  BY <1>1, <1>2, <1>3
<1>5. e <= P[t] /\ e <= P[r]
  BY <1>2, <1>3 DEF Rising
<1>6. CASE r = t
  BY <1>3, <1>4, <1>5, <1>6 DEF Positions, EndOf
<1>7. CASE r # t
  <2>1. r \in u..(t - 1) /\ t \in (r + 1)..t /\ ~(r <= z)
    BY <1>1, <1>7
  <2>2. P[r] + N[r] <= P[t] /\ N[r] > Ovh
    BY <1>1, <2>1 DEF Rising
  <2>3. e < P[t]
    BY <1>4, <1>5, <2>2, Constants
  <2>4. e <= P[t] /\ e # P[t]
    BY <1>4, <2>3
  <2>5. EndOf(r, P, N) = e /\ CurWritePosition = P[t]
    BY <1>3 DEF EndOf, Positions
  <2>6. QED
    BY <1>4, <2>4, <2>5
<1>8. QED
  BY <1>6, <1>7

\* A write that ends below the last URB, or starts behind it, leaves it alone.
LEMMA UrbMissed ==
  ASSUME NEW u, NEW r, NEW t, NEW z, NEW P, NEW N, Indexed(u, r, t, z, P, N),
         Positions(u, r, t, z, P, N), u < r, NEW lo \in Nat, NEW hi \in Nat,
         z >= u => hi < NextBulkOutPosition, z < u => EndOf(r, P, N) < lo,
         \A q \in Pos : q < lo \/ hi < q => buf'[q] = buf[q]
  PROVE  UrbKept
<1>1. /\ u \in Nat /\ r \in Nat /\ t \in Nat /\ z \in Nat /\ r <= t
      /\ P \in [Nat -> Nat] /\ N \in [Nat -> Nat]
      /\ \A i \in u..(t - 1) : P[i] + N[i] < BufSize
  BY DEF Indexed
<1>2. PICK e, nb : e = EndOf(r, P, N) /\ nb = NextBulkOutPosition
  OBVIOUS
<1>3. r - 1 \in Nat /\ r - 1 \in u..(t - 1)
  BY <1>1
<1>4. e \in Nat /\ e < BufSize
  BY <1>1, <1>2, <1>3 DEF EndOf
<1>5. nb + BulkOutSize = e /\ nb \in Nat
  <2>1. NextBulkOutPosition = P[u] /\ NextBulkOutPosition + BulkOutSize = P[r - 1] + N[r - 1]
    BY DEF Positions
  <2>2. nb \in Nat
    BY <1>1, <1>2, <2>1
  <2>3. QED
    BY <1>2, <2>1, <2>2 DEF EndOf
<1>6. ASSUME NEW p \in nb..e PROVE buf'[p] = buf[p]
  <2>1. p \in Nat /\ nb <= p /\ p <= e
    BY <1>4, <1>5
  <2>2. p \in Pos
    BY <1>4, <2>1, BufferSize
  <2>3. z >= u \/ z < u
    BY <1>1
  <2>4. p < lo \/ hi < p
    BY <1>2, <1>4, <1>5, <2>1, <2>3
  <2>5. QED
    BY <2>2, <2>4
<1>7. QED
  BY <1>2, <1>5, <1>6 DEF UrbKept

\* The header of a frame.
LEMMA HeaderLeavesUrb ==
  ASSUME NEW u, NEW r, NEW t, NEW z, NEW P, NEW N, NEW F, Plain, Layout(u, r, t, z, P, N, F), u < r,
         WriteHeader, CanDoWrite
  PROVE  UrbKept
<1>1. /\ Indexed(u, r, t, z, P, N) /\ Rising(u, t, z, P, N) /\ LowEnough(u, t, P)
      /\ Positions(u, r, t, z, P, N) /\ Behind(u, r, z) /\ IndInv
  BY DEF Layout, Plain
<1>2. /\ Skip \in {0, 1} /\ (Skip = 1 => r = t) /\ (r = t => Skip = 1)
      /\ u <= z => CurWritePosition' + Room(w) + 1 <= NextBulkOutPosition
  BY <1>1, HeaderBelow
<1>3. CurWritePosition' = CurWritePosition + Skip /\ pc["W"] = "hdr"
  BY HeaderDoes
<1>4. CurWritePosition \in Nat /\ NextBulkOutPosition \in Nat
  BY <1>1, UrbStart
<1>5. PICK rm \in Nat : rm = Room(w) /\ rm >= Ovh
  <2>1. PICK b \in Batches : Room(w) = Room(b)
    BY <1>1, <1>3, OfBlock DEF IndInv
  <2>2. Room(b) \in Nat /\ Sum(b.parts) \in Nat
    BY OfBatch
  <2>3. Room(b) >= Ovh
    <3>1. Active /\ Block
      BY <1>1, <1>3 DEF Active, IndInv
    <3>2. PICK p1, p2, x : p1 = w.parts[1] /\ p2 = w.parts[2] /\ x = Room(w)
      OBVIOUS
    <3>3. /\ p1 \in Nat /\ w.kind \in {"single", "frag", "multi"}
          /\ w.kind = "single" => x = Ovh + p1
          /\ w.kind = "frag" => x = Ovh + Ovh + p1 + p2 /\ p2 \in Nat
          /\ w.kind = "multi" => x = Ovh + p1 + p2 /\ p2 \in Nat
      BY <3>1, <3>2, BlockRoom
    <3>4. x >= Ovh
      <4>1. CASE w.kind = "single"
        BY <3>3, <4>1, Constants
      <4>2. CASE w.kind = "frag"
        BY <3>3, <4>2, Constants
      <4>3. CASE w.kind = "multi"
        BY <3>3, <4>3, Constants
      <4>4. QED
        BY <3>3, <4>1, <4>2, <4>3
    <3>5. QED
      BY <2>1, <3>2, <3>4
  <2>4. QED
    BY <2>1, <2>2, <2>3
<1>6. PICK lo \in Nat, hi \in Nat : lo = CurWritePosition' /\ hi = lo + Ovh - 1
  <2>1. CurWritePosition' \in Nat
    BY <1>2, <1>3, <1>4
  <2>2. PICK x \in Nat : x = CurWritePosition'
    BY <2>1
  <2>3. x + Ovh - 1 \in Nat
    BY Constants
  <2>4. QED
    BY <2>2, <2>3
<1>7. z >= u => hi < NextBulkOutPosition
  <2>1. SUFFICES ASSUME z >= u PROVE hi < NextBulkOutPosition
    OBVIOUS
  <2>2. u <= z
    BY <1>1, <2>1 DEF Indexed
  <2>3. lo + rm + 1 <= NextBulkOutPosition
    BY <1>2, <1>5, <1>6, <2>2
  <2>4. PICK nb \in Nat : nb = NextBulkOutPosition
    BY <1>4
  <2>5. lo + rm + 1 <= nb /\ hi = lo + Ovh - 1 /\ rm >= Ovh
    BY <1>5, <1>6, <2>3, <2>4
  <2>6. hi < nb
    BY <2>5, Constants
  <2>7. QED
    BY <2>4, <2>6
<1>8. z < u => EndOf(r, P, N) < lo
  <2>1. SUFFICES ASSUME z < u PROVE EndOf(r, P, N) < lo
    OBVIOUS
  <2>2. PICK e : e = EndOf(r, P, N)
    OBVIOUS
  <2>3. e \in Nat /\ e <= CurWritePosition /\ (e = CurWritePosition => r = t)
    BY <1>1, <2>1, <2>2, UrbBefore
  <2>4. e < lo
    <3>1. CASE r = t
      BY <1>2, <1>3, <1>4, <1>6, <2>3, <3>1
    <3>2. CASE r # t
      BY <1>2, <1>3, <1>4, <1>6, <2>3, <3>2
    <3>3. QED
      BY <3>1, <3>2
  <2>5. QED
    BY <2>2, <2>4
<1>9. \A q \in Pos : q < lo \/ hi < q => buf'[q] = buf[q]
  <2>1. PICK len, l, n : buf' = PutHeader(buf, lo, next, len, l, n)
    BY <1>6, HeaderDoes
  <2>2. QED
    BY <1>6, <2>1, HeaderElse
<1>10. QED
  BY <1>1, <1>7, <1>8, <1>9, UrbMissed

\* What is written behind the first unit of the block.
LEMMA WriterLeavesUrb ==
  ASSUME NEW u, NEW r, NEW t, NEW z, NEW P, NEW N, Indexed(u, r, t, z, P, N), Rising(u, t, z, P, N),
         Positions(u, r, t, z, P, N), Behind(u, r, z), u < r, Writing, Room(w) \in Nat,
         NEW lo \in Nat, NEW hi \in Nat, CurWritePosition < lo, hi <= CurWritePosition + Room(w),
         \A q \in Pos : q < lo \/ hi < q => buf'[q] = buf[q]
  PROVE  UrbKept
<1>1. CurWritePosition \in Nat /\ NextBulkOutPosition \in Nat
  BY UrbStart
<1>2. PICK rm \in Nat : rm = Room(w)
  OBVIOUS
<1>3. z >= u => hi < NextBulkOutPosition
  <2>1. SUFFICES ASSUME z >= u PROVE hi < NextBulkOutPosition
    OBVIOUS
  <2>2. CurWritePosition + rm + 1 <= NextBulkOutPosition
    BY <1>2, <2>1 DEF Behind
  <2>3. hi <= CurWritePosition + rm
    BY <1>2
  <2>4. QED
    BY <1>1, <2>2, <2>3
<1>4. z < u => EndOf(r, P, N) < lo
  <2>1. SUFFICES ASSUME z < u PROVE EndOf(r, P, N) < lo
    OBVIOUS
  <2>2. PICK e : e = EndOf(r, P, N)
    OBVIOUS
  <2>3. e \in Nat /\ e <= CurWritePosition
    BY <2>1, <2>2, UrbBefore
  <2>4. e < lo
    BY <1>1, <2>3
  <2>5. QED
    BY <2>2, <2>4
<1>5. QED
  BY <1>3, <1>4, UrbMissed

\* The payload of a part.
LEMMA BodyLeavesUrb ==
  ASSUME NEW u, NEW r, NEW t, NEW z, NEW P, NEW N, NEW F, Plain, Layout(u, r, t, z, P, N, F), u < r, WriteBody
  PROVE  UrbKept
<1>1. /\ Indexed(u, r, t, z, P, N) /\ Rising(u, t, z, P, N)
      /\ Positions(u, r, t, z, P, N) /\ Behind(u, r, z) /\ IndInv /\ Written
  BY DEF Layout, Plain
<1>2. pc["W"] = "body" /\ Writing
  BY BodyDoes DEF Writing
<1>3. /\ CurWritePosition \in Nat /\ Base \in Nat /\ Base >= CurWritePosition /\ BodyUnit \in Nat /\ BodyUnit >= Ovh
      /\ w.parts[w.i] \in Nat /\ w.parts[w.i] > 0 /\ BodyFrom = Base + BodyUnit /\ BodyFrom \in Nat
      /\ BodyFrom + w.parts[w.i] <= CurWritePosition + Room(w) /\ Room(w) \in Nat
  BY <1>1, <1>2, BodyPlace
<1>4. PICK lo \in Nat : lo = BodyFrom
  BY <1>3
<1>5. PICK n \in Nat : n = w.parts[w.i]
  BY <1>3
<1>6. PICK rm \in Nat : rm = Room(w)
  BY <1>3
<1>7. CurWritePosition < lo /\ lo + n <= CurWritePosition + rm /\ n > 0
  BY <1>3, <1>4, <1>5, <1>6, Constants
<1>8. PICK m \in Nat : m = BodySize /\ (m = n \/ m = n + 1)
  BY <1>5 DEF BodySize
<1>9. PICK hi \in Nat : hi = lo + m - 1 /\ hi <= CurWritePosition + rm
  <2>1. lo + m - 1 \in Nat /\ lo + m - 1 <= CurWritePosition + rm
    BY <1>3, <1>7, <1>8
  <2>2. QED
    BY <2>1
<1>10. \A q \in Pos : q < lo \/ hi < q => buf'[q] = buf[q]
  <2>1. PICK f, x, o, end : buf' = PutBody(buf, lo, m, f, x, o, end)
    BY <1>4, <1>8, BodyDoes
  <2>2. QED
    BY <1>9, <2>1, BodyElse
<1>11. QED
  BY <1>1, <1>2, <1>3, <1>6, <1>7, <1>9, <1>10, WriterLeavesUrb

\* The header of a second fragment.
LEMMA NextLeavesUrb ==
  ASSUME NEW u, NEW r, NEW t, NEW z, NEW P, NEW N, NEW F, Plain, Layout(u, r, t, z, P, N, F), u < r, WriteNext,
         w.kind = "frag"
  PROVE  UrbKept
<1>1. /\ Indexed(u, r, t, z, P, N) /\ Rising(u, t, z, P, N)
      /\ Positions(u, r, t, z, P, N) /\ Behind(u, r, z) /\ IndInv /\ Written /\ Block /\ Progress
  BY DEF Layout, Plain, IndInv
<1>2. pc["W"] = "next" /\ Writing /\ Active
  BY NextLeaves DEF Writing, Active
<1>3. w.i = 1 /\ Len(w.parts) = 2 /\ w.Priv = Ovh + w.parts[1]
  BY <1>1, <1>2 DEF Progress
<1>4. /\ Room(w) \in Nat /\ w.parts[1] \in Nat /\ w.parts[2] \in Nat
      /\ Room(w) = Ovh + Ovh + w.parts[1] + w.parts[2]
  BY <1>1, <1>2, BlockRoom
<1>5. PICK cw \in Nat : cw = CurWritePosition
  BY <1>1, UrbStart
<1>6. PICK rm \in Nat, p1 \in Nat, p2 \in Nat : rm = Room(w) /\ p1 = w.parts[1] /\ p2 = w.parts[2]
  BY <1>4
<1>7. rm = Ovh + Ovh + p1 + p2 /\ w.Priv = Ovh + p1
  BY <1>3, <1>4, <1>6
<1>8. PICK lo \in Nat : lo = cw + (Ovh + p1)
  BY Constants
<1>9. PICK hi \in Nat : hi = lo + Ovh - 1
  <2>1. lo + Ovh - 1 \in Nat
    BY Constants
  <2>2. QED
    BY <2>1
<1>10. cw < lo /\ hi <= cw + rm
  BY <1>7, <1>8, <1>9, Constants
<1>11. \A q \in Pos : q < lo \/ hi < q => buf'[q] = buf[q]
  <2>1. PICK f, len, l, n : buf' = PutHeader(buf, CurWritePosition + w.Priv, f, len, l, n)
    BY <1>3, NextDoes
  <2>2. buf' = PutHeader(buf, lo, f, len, l, n)
    BY <1>5, <1>7, <1>8, <2>1
  <2>3. QED
    BY <1>9, <2>2, HeaderElse
<1>12. CurWritePosition < lo /\ hi <= CurWritePosition + Room(w)
  BY <1>5, <1>6, <1>10
<1>13. QED
  BY <1>1, <1>2, <1>4, <1>11, <1>12, WriterLeavesUrb

\* What FinalWriteTxResource leaves alone.
LEMMA FinalElse ==
  ASSUME FinalWriteTxResource, buf \in [Pos -> Cells], NEW cw, cw = CurWritePosition, cw \in Nat,
         NEW n, n = w.Priv, n \in Nat, n > 1, cw + n < BufSize
  PROVE  \A q \in Pos : q # cw + n /\ (HeaderParked \/ (q # cw /\ q # cw + 1)) => buf'[q] = buf[q]
<1>1. PICK l : l = LastRound(CurWritePosition, w.Priv)
  OBVIOUS
<1>2. buf' = [q \in Pos |-> IF q = cw + n THEN Zero
                            ELSE IF ~HeaderParked /\ q = cw THEN Fixed(buf[q], n, l)
                            ELSE IF ~HeaderParked /\ q = cw + 1 THEN [buf[q] EXCEPT !.len = Sum(w.parts)]
                            ELSE buf[q]]
  BY <1>1, FinalCells
<1>3. QED
  BY <1>2

\* The header of an A-MSDU, fixed in the ring only when no URB ends there.
LEMMA FinalLeavesUrb ==
  ASSUME NEW u, NEW r, NEW t, NEW z, NEW P, NEW N, NEW F, Plain, Layout(u, r, t, z, P, N, F), u < r,
         FinalWriteTxResource
  PROVE  UrbKept
<1>1. /\ Indexed(u, r, t, z, P, N) /\ Rising(u, t, z, P, N) /\ Parked(u, r, t, z, P, N)
      /\ Positions(u, r, t, z, P, N) /\ Behind(u, r, z) /\ Typed
  BY DEF Layout, Plain
<1>2. pc["W"] = "fin" /\ Writing
  BY FinalDoes DEF Writing
<1>3. w.Priv = Room(w) /\ Room(w) \in Nat /\ CurWritePosition \in Nat /\ CurWritePosition + Room(w) < BufSize
  BY <1>2, FinPlace
<1>4. PICK cw, n : cw = CurWritePosition /\ n = w.Priv /\ n = Room(w) /\ cw \in Nat /\ n \in Nat
  BY <1>3
<1>5. n > 1
  <2>1. /\ w.kind = "multi" /\ w.parts[1] \in Nat /\ w.parts[2] \in Nat
        /\ Room(w) = Ovh + w.parts[1] + w.parts[2]
    BY <1>2, FinPlace, FinalDoes
  <2>2. PICK p1 \in Nat, p2 \in Nat : p1 = w.parts[1] /\ p2 = w.parts[2]
    BY <2>1
  <2>3. n = Ovh + p1 + p2
    BY <1>4, <2>1, <2>2
  <2>4. QED
    BY <2>3, Constants
<1>7. cw + n < BufSize /\ buf \in [Pos -> Cells]
  BY <1>1, <1>3, <1>4 DEF Typed
<1>8. \A q \in Pos : q # cw + n /\ (HeaderParked \/ (q # cw /\ q # cw + 1)) => buf'[q] = buf[q]
  BY <1>1, <1>4, <1>5, <1>7, FinalElse
<1>9. PICK hi \in Nat : hi = cw + n
  BY <1>4
<1>10. CASE HeaderParked
  <2>1. PICK lo \in Nat : lo = cw + 1
    BY <1>4
  <2>2. \A q \in Pos : q < lo \/ hi < q => buf'[q] = buf[q]
    <3>1. SUFFICES ASSUME NEW q \in Pos, q < lo \/ hi < q PROVE buf'[q] = buf[q]
      OBVIOUS
    <3>2. q # cw + n
      BY <1>4, <1>5, <1>9, <2>1, <3>1, BufferSize
    <3>3. QED
      BY <1>8, <1>10, <3>2
  <2>3. CurWritePosition < lo /\ hi <= CurWritePosition + Room(w)
    BY <1>4, <1>9, <2>1
  <2>4. QED
    BY <1>1, <1>2, <1>3, <2>2, <2>3, WriterLeavesUrb
<1>11. CASE ~HeaderParked
  <2>1. \A q \in Pos : q < cw \/ hi < q => buf'[q] = buf[q]
    <3>1. SUFFICES ASSUME NEW q \in Pos, q < cw \/ hi < q PROVE buf'[q] = buf[q]
      OBVIOUS
    <3>2. q # cw + n /\ q # cw /\ q # cw + 1
      BY <1>4, <1>5, <1>9, <3>1, BufferSize
    <3>3. QED
      BY <1>8, <3>2
  <2>2. z >= u => hi < NextBulkOutPosition
    <3>1. SUFFICES ASSUME z >= u PROVE hi < NextBulkOutPosition
      OBVIOUS
    <3>2. cw + n + 1 <= NextBulkOutPosition
      BY <1>1, <1>2, <1>4, <3>1 DEF Behind
    <3>3. PICK nb \in Nat : nb = NextBulkOutPosition
      BY <1>1, UrbStart
    <3>4. hi < nb
      BY <1>4, <1>9, <3>2, <3>3
    <3>5. QED
      BY <3>3, <3>4
  <2>3. z < u => EndOf(r, P, N) < cw
    <3>1. SUFFICES ASSUME z < u PROVE EndOf(r, P, N) < cw
      OBVIOUS
    <3>2. PICK e : e = EndOf(r, P, N)
      OBVIOUS
    <3>3. e \in Nat /\ e <= cw /\ (e = cw => r = t)
      BY <1>1, <1>4, <3>1, <3>2, UrbBefore
    <3>4. e # cw
      <4>1. SUFFICES ASSUME e = cw PROVE FALSE
        OBVIOUS
      <4>2. r = t
        BY <3>3, <4>1
      <4>3. ENextBulkOutPosition = CurWritePosition /\ P[r] = cw
        BY <1>1, <1>4, <4>2 DEF Positions
      <4>4. z # r - 1
        BY <1>1, <3>1 DEF Indexed
      <4>5. P[r] = P[r - 1] + N[r - 1]
        BY <3>2, <4>1, <4>3 DEF EndOf
      <4>6. bCopySavePad
        BY <1>1, <1>2, <4>4, <4>5 DEF Parked
      <4>7. QED
        BY <1>11, <4>3, <4>6 DEF HeaderParked
    <3>5. e < cw
      BY <1>4, <3>3, <3>4
    <3>6. QED
      BY <3>2, <3>5
  <2>4. QED
    BY <1>1, <1>4, <2>1, <2>2, <2>3, UrbMissed
<1>12. QED
  BY <1>10, <1>11

\* No step writes to a URB on its way.
LEMMA StableStep ==
  ASSUME RingInv, [Next]_vars, urb = "flying", urb' = "flying"
  PROVE  UrbKept
<1>1. PICK u \in Nat, r \in Nat, t \in Nat, z \in Nat, P \in [Nat -> Nat], N \in [Nat -> Nat],
           F \in [Nat -> Nat] : Layout(u, r, t, z, P, N, F)
  BY DEF RingInv, Laid
<1>2. Plain /\ OneUser /\ IndInv
  BY DEF RingInv, Plain
<1>3. u < r
  BY <1>1 DEF Layout, HasUrb
<1>4. buf' = buf => UrbKept
  BY DEF UrbKept
<1>5. CASE UNCHANGED vars
  BY <1>4, <1>5 DEF vars
<1>6. ASSUME NEW b \in Batches, DeQueuePacket(b) PROVE UrbKept
  BY <1>4, <1>6 DEF DeQueuePacket
<1>7. CASE WriteHeader
  <2>1. CASE CanDoWrite
    BY <1>1, <1>2, <1>3, <1>7, <2>1, HeaderLeavesUrb
  <2>2. CASE ~CanDoWrite
    BY <1>4, <1>7, <2>2 DEF WriteHeader
  <2>3. QED
    BY <2>1, <2>2
<1>8. CASE WriteBody
  BY <1>1, <1>2, <1>3, <1>8, BodyLeavesUrb
<1>9. CASE WriteNext
  <2>1. CASE w.kind = "frag"
    BY <1>1, <1>2, <1>3, <1>9, <2>1, NextLeavesUrb
  <2>2. CASE w.kind # "frag"
    BY <1>4, <1>9, <2>2 DEF WriteNext
  <2>3. QED
    BY <2>1, <2>2
<1>10. CASE FinalWriteTxResource
  BY <1>1, <1>2, <1>3, <1>10, FinalLeavesUrb
<1>11. ASSUME NEW c \in Contexts, KickBulkOut(c) PROVE UrbKept
  BY <1>4, <1>11 DEF KickBulkOut
<1>12. CASE BuildUrb
  <2>1. rd.pc = "claimed"
    BY <1>12 DEF BuildUrb
  <2>2. QED
    BY <1>2, <2>1 DEF OneUser
<1>13. CASE \/ PublishWrite \/ SeesEmpty \/ GivesUp \/ SubmitOk \/ SubmitFails \/ UrbDone \/ UrbFails
            \/ DataOutComplete \/ TaskletCheck \/ OtherPipeQueuesReset \/ ResetBulkOut
  BY <1>4, <1>13 DEF PublishWrite, SeesEmpty, GivesUp, SubmitOk, SubmitFails, UrbDone, UrbFails,
     DataOutComplete, TaskletCheck, OtherPipeQueuesReset, ResetBulkOut
<1>14. QED
  BY <1>5, <1>6, <1>7, <1>8, <1>9, <1>10, <1>11, <1>12, <1>13 DEF Next

-----------------------------------------------------------------------------
(***************************************************************************)
(* What the ring promises.                                                 *)
(***************************************************************************)

\* The ring's fields keep their types, and every position lies in the buffer.
THEOREM TypeCorrect == Spec => []TypeOK
BY RingAlways, RingTypes, PTL

\* RTUSBBulkOutDataPacket never meets a frame of length zero ("e2"): a header it
\* zeroed as padding is back in its place whenever it scans the ring.
THEOREM NeverZeroLength == Spec => []NoZeroLengthFrame
<1>1. RingInv => NoZeroLengthFrame
  BY DEF RingInv, Plain
<1>2. QED
  BY <1>1, RingAlways, PTL

\* Every frame reaches the device as it was written, however the copy into the
\* ring, the parking of its header, the wrap of the ring and resubmissions
\* interleave.
THEOREM ArrivesIntact == Spec => []SentIntact
<1>1. RingInv => SentIntact
  BY DEF RingInv, Plain
<1>2. QED
  BY <1>1, RingAlways, PTL

\* Frames leave in the order they were queued, and none is skipped.
THEOREM LeavesInOrder == Spec => []FirstSentInOrder
<1>1. RingInv => FirstSentInOrder
  BY DEF RingInv, Plain
<1>2. QED
  BY <1>1, RingAlways, PTL

\* A ring that looks empty with no URB outstanding is empty: RtmpUSBCanDoWrite
\* keeps the full ring, which has the same positions, from arising.
THEOREM EmptyIsDrained == Spec => []EmptyMeansDrained
BY RingAlways, RingDrained, PTL

\* The dequeuer, which copies without the lock, never touches a URB on its way nor
\* the 8 zero bytes behind it.
THEOREM UrbUntouched == Spec => UrbStable
<1>1. RingInv /\ [Next]_vars =>
        [(urb = "flying" /\ urb' = "flying") =>
           \A p \in NextBulkOutPosition..(NextBulkOutPosition + BulkOutSize) : buf'[p] = buf[p]]_vars
  BY StableStep DEF UrbKept
<1>2. QED
  BY <1>1, RingAlways, PTL DEF Spec, UrbStable
=============================================================================
