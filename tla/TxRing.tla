------------------------------- MODULE TxRing -------------------------------
(***************************************************************************)
(* The aggregation ring of one USB bulk-out data pipe (HT_TX_CONTEXT).     *)
(*                                                                         *)
(* A dequeuing context ("W", one at a time: DeQueueRunning) copies frames  *)
(* into TransferBuffer; whoever kicks the pipe turns the frames between    *)
(* ENextBulkOutPosition and CurWritePosition into one URB; the completion  *)
(* tasklet ("T") and the command thread ("C", pipe reset) kick it again.   *)
(* The USB engine needs zero bytes behind a URB, and those bytes belong to *)
(* the next frame's header, which is parked in SavedPad meanwhile.         *)
(*                                                                         *)
(* One unit of the model is 8 bytes, so the code's "8" is 1 here.          *)
(***************************************************************************)
EXTENDS Integers, Sequences, FiniteSets

CONSTANTS
  LocalTxBuf,   \* LOCAL_TXBUF_SIZE
  AggReserve,   \* the 3906 bytes kept free for a following A-MSDU
  TailReserve,  \* the 7912 bytes of RtmpUSBCanDoWrite's fourth test
  Limit,        \* MAX_TXBULK_LIMIT
  BulkCap,      \* a URB of this size takes no further frame
  Ovh,          \* TXINFO, TXWI and 802.11 header of a frame
  Batches,      \* what the dequeuer may write: records [kind, parts]
  Aggregation,  \* usb_ctl.usb_aggregation
  MaxFrames,    \* bound: frames written in a behaviour
  MaxErrors,    \* bound: failed submissions and completions
  MaxDupReset,  \* bound: reset commands queued by other pipes' tasklets
  MayStop       \* may a kick find the transmitter stopped or scanning?

Sum(parts) == IF Len(parts) = 1 THEN parts[1] ELSE parts[1] + parts[2]

\* Space in the ring a batch takes: every fragment has its own header.
Room(b) == IF b.kind = "frag" THEN Len(b.parts) * Ovh + Sum(b.parts)
           ELSE Ovh + Sum(b.parts)

\* What of a batch lies between its start and the start of its last frame.
FirstFragment(b) == IF b.kind = "frag" THEN Ovh + b.parts[1] ELSE 0

ASSUME TxRingAssumption ==
  /\ {LocalTxBuf, AggReserve, TailReserve, Limit, BulkCap} \subseteq Nat \ {0}
  /\ AggReserve < Limit
  /\ Ovh \in Nat /\ Ovh >= 2
  /\ {MaxFrames, MaxErrors, MaxDupReset} \subseteq Nat
  /\ {Aggregation, MayStop} \subseteq BOOLEAN
  /\ \A b \in Batches : /\ b.kind \in {"single", "frag", "multi"}
                        /\ b.parts \in Seq(Nat \ {0}) /\ Len(b.parts) \in 1..2
                        /\ b.kind = "single" <=> Len(b.parts) = 1
                        /\ Room(b) <= AggReserve
                        /\ AggReserve + Room(b) < Limit
                        /\ AggReserve + Room(b) <= TailReserve
                        /\ \A c \in Batches :
                             FirstFragment(b) + Room(c) - Sum(c.parts) + 2 <= LocalTxBuf

BufSize == Limit + LocalTxBuf            \* MAX_TXBULK_SIZE
Pos == 0..(BufSize - 1)

Zero == [f |-> 0, k |-> 0, len |-> 0, last |-> FALSE, nv |-> FALSE]

\* First 8 bytes of a frame: TXINFO (pkt_len, sw_lst_rnd, next_vld).
Hdr(f, len, last) == [f |-> f, k |-> 0, len |-> len, last |-> last, nv |-> FALSE]

\* Second 8 bytes: TXWI word 1 with MPDUtotalByteCnt = n.
Cnt(f, n) == [f |-> f, k |-> 1, len |-> n, last |-> FALSE, nv |-> FALSE]

\* Any later unit of a frame; "last" marks the frame's final one.
Body(f, k, end) == [f |-> f, k |-> k, len |-> 0, last |-> end, nv |-> FALSE]

VARIABLES
  buf,                  \* TransferBuffer->field.WirelessPacket
  CurWritePosition, CurWriteRealPos, NextBulkOutPosition, ENextBulkOutPosition,
  bCurWriting, bCopySavePad, SavedPad, BulkOutSize,
  BulkOutPending,       \* pAd->BulkOutPending[pipe]
  dataFlag,             \* fRTUSB_BULK_OUT_DATA_NORMAL << pipe
  bulkOutReset,         \* fRTMP_ADAPTER_BULKOUT_RESET, set for this pipe
  bForcePrintTX,        \* set when a frame of zero length is met ("e2")
  pc,                   \* where each context is
  w,                    \* the dequeuer's TX_BLK
  rd,                   \* the context inside RTUSBBulkOutDataPacket, and where
  urb,                  \* "none", "flying", "done" or "failed"
  resetCmds,            \* queued CMDTHREAD_RESET_BULK_OUT
  next, sent, dropped,  \* history: next frame, frames the device got, frames given up
  errors, dups

ring  == <<CurWritePosition, CurWriteRealPos, NextBulkOutPosition,
           ENextBulkOutPosition, bCurWriting, bCopySavePad, SavedPad>>
hist  == <<next, sent, dropped>>
flags == <<BulkOutPending, dataFlag, bulkOutReset, bForcePrintTX>>
vars  == <<buf, ring, flags, BulkOutSize, pc, w, rd, urb, resetCmds, hist,
           errors, dups>>

Contexts == {"W", "T", "C"}

NoBlk == [kind |-> "single", parts |-> <<1>>, i |-> 1, Priv |-> 0, last |-> FALSE]

Init ==
  /\ buf = [p \in Pos |-> Zero]
  /\ CurWritePosition = 0 /\ CurWriteRealPos = 0
  /\ NextBulkOutPosition = 0 /\ ENextBulkOutPosition = 0
  /\ bCurWriting = FALSE /\ bCopySavePad = FALSE /\ SavedPad = Zero
  /\ BulkOutSize = 0
  /\ BulkOutPending = FALSE /\ dataFlag = FALSE
  /\ bulkOutReset = FALSE /\ bForcePrintTX = FALSE
  /\ pc = [c \in Contexts |-> "idle"]
  /\ w = NoBlk
  /\ rd = [pc |-> "idle", by |-> "W"]
  /\ urb = "none" /\ resetCmds = 0
  /\ next = 1 /\ sent = <<>> /\ dropped = {}
  /\ errors = 0 /\ dups = 0

At(b, p) == IF p \in Pos THEN b[p] ELSE Zero

\* Write cells c(0..n-1) at position p; a write past the buffer is ignored here
\* and shows in WritesInBounds.
Put(b, p, n, c(_)) == [q \in Pos |-> IF q \in p..(p + n - 1) THEN c(q - p) ELSE b[q]]

\* A loop over the ring ends within Turns turns.
Turns == MaxFrames + 2

Busy(c) == rd.pc # "idle" /\ rd.by = c

-----------------------------------------------------------------------------
(***************************************************************************)
(* The dequeuer: RTMPDeQueuePacket and RtmpUSB_Write*TxResource.           *)
(***************************************************************************)

\* RTUSBFreeDescRequest: is there room for req units behind the write position?
FreeDesc(req) ==
  /\ ~ (/\ CurWritePosition < NextBulkOutPosition
        /\ CurWritePosition + req + LocalTxBuf > NextBulkOutPosition)
  /\ ~ (CurWritePosition = 1 /\ NextBulkOutPosition < req + LocalTxBuf)
  /\ ~ bCurWriting

\* Mutant of CanDoWrite: the fourth refusal is missing.
CanDoWriteNoTail ==
  /\ ~ (/\ CurWritePosition < NextBulkOutPosition
        /\ CurWritePosition + LocalTxBuf > NextBulkOutPosition)
  /\ ~ (CurWritePosition = 1 /\ NextBulkOutPosition < LocalTxBuf)
  /\ ~ bCurWriting

\* RtmpUSBCanDoWrite, its four refusals.
CanDoWrite ==
  /\ ~ (/\ CurWritePosition < NextBulkOutPosition
        /\ CurWritePosition + LocalTxBuf > NextBulkOutPosition)
  /\ ~ (CurWritePosition = 1 /\ NextBulkOutPosition < LocalTxBuf)
  /\ ~ bCurWriting
  /\ ~ (ENextBulkOutPosition = 1 /\ CurWritePosition + TailReserve > Limit)

\* Mutant of LastRound: the frame itself is not counted.
LastRoundShort(pos, room) == pos + AggReserve > Limit + LocalTxBuf

\* Is this the last frame of the round? The write position then returns to 1.
LastRound(pos, room) == pos + room + AggReserve > Limit

\* RTMPDeQueuePacket takes a batch off TxSwQueue once RTUSBFreeDescRequest
\* agrees; otherwise it raises the data flag and kicks the pipe.
DeQueuePacket(b) ==
  /\ pc["W"] = "idle" /\ ~Busy("W")
  /\ next + Len(b.parts) - 1 <= MaxFrames
  /\ IF FreeDesc(Sum(b.parts))
     THEN /\ w' = [kind |-> b.kind, parts |-> b.parts, i |-> 1, Priv |-> 0, last |-> FALSE]
          /\ pc' = [pc EXCEPT !["W"] = "hdr"]
          /\ UNCHANGED dataFlag
     ELSE /\ dataFlag' = TRUE
          /\ pc' = [pc EXCEPT !["W"] = "kick"]
          /\ UNCHANGED w
  /\ UNCHANGED <<buf, ring, BulkOutPending, bulkOutReset, bForcePrintTX, BulkOutSize,
                 rd, urb, resetCmds, hist, errors, dups>>

\* Header of the batch's first frame, under TxContextQueueLock. The 8 bytes
\* behind a URB that ends at the write position are skipped (ENext = CurWrite).
\* A refused frame is freed; the caller kicks the pipe all the same.
WriteHeader ==
  /\ pc["W"] = "hdr"
  /\ IF ~CanDoWrite
     THEN /\ dataFlag' = TRUE
          /\ dropped' = dropped \union {next}
          /\ next' = next + 1
          /\ pc' = [pc EXCEPT !["W"] = "kick"]
          /\ UNCHANGED <<buf, ring, w>>
     ELSE LET skip == IF ENextBulkOutPosition = CurWritePosition THEN 1 ELSE 0
              cw   == CurWritePosition + skip
              n    == Ovh + w.parts[1]
              lst  == w.kind = "single" /\ LastRound(cw, n)
          IN /\ ENextBulkOutPosition' = ENextBulkOutPosition + skip
             /\ CurWritePosition' = cw
             /\ CurWriteRealPos' = cw + Ovh
             /\ bCurWriting' = TRUE
             /\ buf' = Put(buf, cw, Ovh,
                           LAMBDA k : IF k = 0 THEN Hdr(next, IF w.kind = "multi" THEN Ovh ELSE n, lst)
                                      ELSE IF k = 1 THEN Cnt(next, w.parts[1])
                                      ELSE Body(next, k, FALSE))
             /\ w' = [w EXCEPT !.Priv = IF w.kind = "multi" THEN Ovh ELSE n, !.last = lst]
             /\ pc' = [pc EXCEPT !["W"] = "body"]
             /\ UNCHANGED <<NextBulkOutPosition, bCopySavePad, SavedPad, next, dropped, dataFlag>>
  /\ UNCHANGED <<BulkOutPending, bulkOutReset, bForcePrintTX, BulkOutSize,
                 rd, urb, resetCmds, sent, errors, dups>>

\* Payload of the current part, copied without the lock; for a single frame or
\* a fragment the following 8 bytes are zeroed too.
WriteBody ==
  /\ pc["W"] = "body"
  /\ LET n     == w.parts[w.i]
         whole == w.kind # "multi"
         end   == whole \/ w.i = Len(w.parts)
         first == IF whole THEN CurWritePosition + w.Priv - n ELSE CurWritePosition + w.Priv
         k0    == IF whole THEN Ovh ELSE w.Priv
     IN /\ buf' = Put(buf, first, IF whole THEN n + 1 ELSE n,
                      LAMBDA k : IF k = n THEN Zero
                                 ELSE Body(next, k0 + k, end /\ k = n - 1))
        /\ w' = IF whole THEN w ELSE [w EXCEPT !.Priv = @ + n]
  /\ pc' = [pc EXCEPT !["W"] = IF w.i = Len(w.parts) THEN "fin" ELSE "next"]
  /\ UNCHANGED <<ring, flags, BulkOutSize, rd, urb, resetCmds, hist, errors, dups>>

\* A later part of the batch: a fragment gets a header of its own, a subframe
\* of an A-MSDU just follows.
WriteNext ==
  /\ pc["W"] = "next"
  /\ LET n   == Ovh + w.parts[w.i + 1]
         lst == w.i + 1 = Len(w.parts) /\ LastRound(CurWritePosition, w.Priv + n)
     IN IF w.kind = "frag"
        THEN /\ buf' = Put(buf, CurWritePosition + w.Priv, Ovh,
                           LAMBDA k : IF k = 0 THEN Hdr(next + 1, n, lst)
                                      ELSE IF k = 1 THEN Cnt(next + 1, w.parts[w.i + 1])
                                      ELSE Body(next + 1, k, FALSE))
             /\ w' = [w EXCEPT !.i = @ + 1, !.Priv = @ + n, !.last = lst]
             /\ CurWriteRealPos' = CurWriteRealPos + Ovh
             /\ next' = next + 1
        ELSE /\ w' = [w EXCEPT !.i = @ + 1]
             /\ UNCHANGED <<buf, CurWriteRealPos, next>>
  /\ pc' = [pc EXCEPT !["W"] = "body"]
  /\ UNCHANGED <<CurWritePosition, NextBulkOutPosition, ENextBulkOutPosition, bCurWriting,
                 bCopySavePad, SavedPad, flags, BulkOutSize, rd, urb, resetCmds,
                 sent, dropped, errors, dups>>

\* End of a single frame or of a fragment batch: publish the write position.
PublishWrite ==
  /\ pc["W"] = "fin" /\ w.kind # "multi"
  /\ CurWritePosition' = IF w.last THEN 1 ELSE CurWritePosition + w.Priv
  /\ CurWriteRealPos' = CurWritePosition'
  /\ bCurWriting' = FALSE
  /\ next' = next + 1
  /\ pc' = [pc EXCEPT !["W"] = "kick"]
  /\ UNCHANGED <<buf, NextBulkOutPosition, ENextBulkOutPosition, bCopySavePad, SavedPad, flags,
                 BulkOutSize, w, rd, urb, resetCmds, sent, dropped, errors, dups>>

\* Mutant of HeaderParked: the A-MSDU's header is always fixed in the ring.
HeaderNeverParked == FALSE

\* Is the header of the frame being written parked in SavedPad?
HeaderParked ==
  /\ bCopySavePad
  /\ \/ ENextBulkOutPosition = CurWritePosition
     \/ ENextBulkOutPosition - 1 = CurWritePosition

\* RtmpUSB_FinalWriteTxResource: fix the A-MSDU's header, wherever it is, and
\* publish. TXWI word 1 is not among the 8 bytes SavedPad holds: with the header
\* parked, the store to MPDUtotalByteCnt goes to the field after SavedPad.
FinalWriteTxResource ==
  /\ pc["W"] = "fin" /\ w.kind = "multi"
  /\ LET cw  == CurWritePosition
         wrp == LastRound(cw, w.Priv)
         fix(h) == [h EXCEPT !.len = w.Priv, !.last = @ \/ wrp]
         b1  == IF HeaderParked THEN buf
                ELSE [buf EXCEPT ![cw] = fix(@), ![cw + 1].len = Sum(w.parts)]
     IN /\ SavedPad' = IF HeaderParked THEN fix(SavedPad) ELSE SavedPad
        /\ buf' = Put(b1, cw + w.Priv, 1, LAMBDA k : Zero)
        /\ CurWritePosition' = IF wrp THEN 1 ELSE cw + w.Priv
  /\ CurWriteRealPos' = CurWritePosition'
  /\ bCurWriting' = FALSE
  /\ next' = next + 1
  /\ pc' = [pc EXCEPT !["W"] = "kick"]
  /\ UNCHANGED <<NextBulkOutPosition, ENextBulkOutPosition, bCopySavePad, flags, BulkOutSize,
                 w, rd, urb, resetCmds, sent, dropped, errors, dups>>

-----------------------------------------------------------------------------
(***************************************************************************)
(* RTUSBKickBulkOut and RTUSBBulkOutDataPacket, run by any context.        *)
(***************************************************************************)

\* Where a context is about to call RTUSBKickBulkOut, and where it goes then.
\* RtmpUSBDataKickOut ("W") and the second kick of the tasklet raise the flag.
KickPoint(c) == pc[c] \in {"kick", "kick1", "kick2"}
RaisesFlag(c) == (c = "W") \/ pc[c] = "kick2"
Afterwards(c) == IF pc[c] = "kick1" THEN "check" ELSE "idle"

\* RTUSBKickBulkOut up to the claim of BulkOutPending, under BulkOutLock.
KickBulkOut(c) ==
  /\ KickPoint(c) /\ ~Busy(c)
  /\ pc' = [pc EXCEPT ![c] = Afterwards(c)]
  /\ dataFlag' = (dataFlag \/ RaisesFlag(c))
  /\ \/ /\ dataFlag' /\ ~BulkOutPending /\ ~bulkOutReset
        /\ BulkOutPending' = TRUE
        /\ rd' = [pc |-> "claimed", by |-> c]
     \/ /\ ~dataFlag' \/ BulkOutPending \/ bulkOutReset \/ MayStop
        /\ UNCHANGED <<BulkOutPending, rd>>
  /\ UNCHANGED <<buf, ring, bulkOutReset, bForcePrintTX, BulkOutSize, w, urb, resetCmds,
                 hist, errors, dups>>

NothingToSend ==
  \/ ENextBulkOutPosition = CurWritePosition
  \/ ENextBulkOutPosition - 1 = CurWritePosition

\* The ring looks empty, seen under TxContextQueueLock ...
SeesEmpty ==
  /\ rd.pc = "claimed" /\ NothingToSend
  /\ rd' = [rd EXCEPT !.pc = "empty"]
  /\ UNCHANGED <<buf, ring, flags, BulkOutSize, pc, w, urb, resetCmds, hist, errors, dups>>

\* ... and, after that lock is dropped, the pipe is given up and the data
\* flag cleared under BulkOutLock.
GivesUp ==
  /\ rd.pc = "empty"
  /\ BulkOutPending' = FALSE /\ dataFlag' = FALSE
  /\ rd' = [rd EXCEPT !.pc = "idle"]
  /\ UNCHANGED <<buf, ring, bulkOutReset, bForcePrintTX, BulkOutSize, pc, w, urb, resetCmds,
                 hist, errors, dups>>

\* Mutant of ScanEnd: the position was advanced before the size test.
ScanEndPast(x) == x.pos + At(x.b, x.pos).len

\* Where the next URB starts when this one is full.
ScanEnd(x) == x.pos

\* The frame at x.pos joins the URB of the scan so far, x.
ScanFrame(x) ==
  LET h  == At(x.b, x.pos)
      np == x.pos + h.len
      b1 == IF x.pos \in Pos
            THEN [x.b EXCEPT ![x.pos].nv = @ \/ np # CurWritePosition, ![x.pos].last = FALSE]
            ELSE x.b
  IN [x EXCEPT !.b = b1, !.pos = np, !.size = @ + h.len, !.hdr = x.pos]

\* One turn of the frame loop.
ScanStep(x) ==
  LET h  == At(x.b, x.pos)
      on == ScanFrame(x)
  IN IF x.stop THEN x
     ELSE IF x.size >= BulkCap \/ x.pos = CurWritePosition
          THEN [x EXCEPT !.stop = TRUE, !.enext = ScanEnd(x)]
     ELSE IF h.len = 0    THEN [x EXCEPT !.stop = TRUE, !.err = TRUE]
     ELSE IF h.last       THEN [on EXCEPT !.stop = TRUE, !.enext = 1, !.round = TRUE]
     ELSE IF ~Aggregation THEN [on EXCEPT !.stop = TRUE, !.enext = on.pos]
     ELSE on

\* The scan starts at ENextBulkOutPosition, after the parked header is put back.
ScanStart ==
  [b |-> IF bCopySavePad THEN [buf EXCEPT ![ENextBulkOutPosition] = SavedPad] ELSE buf,
   pos |-> ENextBulkOutPosition, size |-> 0, stop |-> FALSE, enext |-> ENextBulkOutPosition,
   round |-> FALSE, err |-> FALSE, hdr |-> ENextBulkOutPosition]

Scan == LET f[n \in 0..Turns] == IF n = 0 THEN ScanStart ELSE ScanStep(f[n - 1])
        IN f[Turns]

\* Mutant of ParkHeader: a header still being written is not parked.
ParkCompleteOnly(x) == ~x.round /\ x.enext # CurWritePosition

\* Must the 8 bytes at the new end be parked? When another frame's header is
\* there: a complete frame, or one whose header is already written.
ParkHeader(x) ==
  /\ ~x.round
  /\ x.enext = CurWritePosition => CurWriteRealPos > CurWritePosition

\* Build the URB under TxContextQueueLock: mark its last frame, park the header
\* behind it and zero those 8 bytes. A frame of zero length ends the attempt.
BuildUrb ==
  /\ rd.pc = "claimed" /\ ~NothingToSend
  /\ dataFlag' = FALSE
  /\ NextBulkOutPosition' = ENextBulkOutPosition
  /\ LET x  == Scan
         b1 == [x.b EXCEPT ![x.hdr].nv = FALSE]
     IN IF x.err
        THEN /\ buf' = x.b
             /\ bCopySavePad' = FALSE
             /\ bForcePrintTX' = TRUE
             /\ BulkOutPending' = FALSE
             /\ rd' = [rd EXCEPT !.pc = "idle"]
             /\ UNCHANGED <<ENextBulkOutPosition, SavedPad, BulkOutSize>>
        ELSE /\ ENextBulkOutPosition' = x.enext
             /\ bCopySavePad' = ParkHeader(x)
             /\ SavedPad' = IF ParkHeader(x) THEN At(b1, x.enext) ELSE SavedPad
             /\ buf' = Put(b1, x.pos, 1, LAMBDA k : Zero)
             /\ BulkOutSize' = x.size
             /\ rd' = [rd EXCEPT !.pc = "built"]
             /\ UNCHANGED <<bForcePrintTX, BulkOutPending>>
  /\ UNCHANGED <<CurWritePosition, CurWriteRealPos, bCurWriting, bulkOutReset, pc, w, urb,
                 resetCmds, hist, errors, dups>>

\* The frames of the URB as the device finds them: it starts at the URB's first
\* header and follows next_vld.
Intact(b, p) ==
  LET h == At(b, p)
  IN /\ h.f # 0 /\ h.k = 0 /\ h.len > Ovh
     /\ \A k \in 1..(h.len - 1) :
          LET c == At(b, p + k)
          IN c.f = h.f /\ c.k = k /\ (c.last <=> k = h.len - 1)

WireStep(b, x) ==
  LET h == At(b, x.pos)
  IN IF x.stop THEN x
     ELSE [pos |-> x.pos + h.len, stop |-> ~h.nv \/ h.len = 0,
           out |-> Append(x.out, [f |-> h.f, ok |-> Intact(b, x.pos),
                                  cnt |-> At(b, x.pos + 1).len = h.len - Ovh])]

OnWire(b, from) ==
  LET f[n \in 0..Turns] == IF n = 0 THEN [pos |-> from, stop |-> FALSE, out |-> <<>>]
                           ELSE WireStep(b, f[n - 1])
  IN f[Turns].out

FramesOf(s) == {s[i].f : i \in DOMAIN s}

\* usb_submit_urb accepts the URB ...
SubmitOk ==
  /\ rd.pc = "built"
  /\ urb' = "flying"
  /\ rd' = [rd EXCEPT !.pc = "idle"]
  /\ UNCHANGED <<buf, ring, flags, BulkOutSize, pc, w, resetCmds, hist, errors, dups>>

\* ... or not: the pipe is released, the positions stay where they are, and the
\* frames of the URB are gone.
SubmitFails ==
  /\ rd.pc = "built" /\ errors < MaxErrors
  /\ BulkOutPending' = FALSE
  /\ dropped' = dropped \union FramesOf(OnWire(buf, NextBulkOutPosition))
  /\ rd' = [rd EXCEPT !.pc = "idle"]
  /\ errors' = errors + 1
  /\ UNCHANGED <<buf, ring, dataFlag, bulkOutReset, bForcePrintTX, BulkOutSize, pc, w, urb,
                 resetCmds, next, sent, dups>>

-----------------------------------------------------------------------------
(***************************************************************************)
(* The host controller, the completion tasklet and the reset command.      *)
(***************************************************************************)

\* The controller finishes the URB; the completion handler schedules "T".
UrbDone ==
  /\ urb = "flying"
  /\ urb' = "done"
  /\ sent' = sent \o OnWire(buf, NextBulkOutPosition)
  /\ UNCHANGED <<buf, ring, flags, BulkOutSize, pc, w, rd, resetCmds, next, dropped, errors, dups>>

UrbFails ==
  /\ urb = "flying" /\ errors < MaxErrors
  /\ urb' = "failed"
  /\ errors' = errors + 1
  /\ UNCHANGED <<buf, ring, flags, BulkOutSize, pc, w, rd, resetCmds, hist, dups>>

\* rtusb_dataout_complete: release the pipe and, on error, ask for a reset of
\* it, in one critical section; then raise the flag if frames are waiting.
DataOutComplete ==
  /\ urb \in {"done", "failed"} /\ pc["T"] = "idle" /\ ~Busy("T")
  /\ BulkOutPending' = FALSE
  /\ bulkOutReset' = (bulkOutReset \/ urb = "failed")
  /\ dataFlag' = (dataFlag \/ (/\ ENextBulkOutPosition # CurWritePosition
                               /\ ENextBulkOutPosition # CurWritePosition + 1))
  /\ urb' = "none"
  /\ pc' = [pc EXCEPT !["T"] = "kick1"]
  /\ UNCHANGED <<buf, ring, bForcePrintTX, BulkOutSize, w, rd, resetCmds, hist, errors, dups>>

\* The rest of rtusb_acN_dma_done_tasklet: queue the reset, or kick once more.
TaskletCheck ==
  /\ pc["T"] = "check" /\ ~Busy("T")
  /\ IF bulkOutReset
     THEN resetCmds' = resetCmds + 1 /\ pc' = [pc EXCEPT !["T"] = "idle"]
     ELSE pc' = [pc EXCEPT !["T"] = "kick2"] /\ UNCHANGED resetCmds
  /\ UNCHANGED <<buf, ring, flags, BulkOutSize, w, rd, urb, hist, errors, dups>>

\* The tasklet of another pipe sees the reset flag of this one and queues the
\* same command.
OtherPipeQueuesReset ==
  /\ bulkOutReset /\ dups < MaxDupReset
  /\ resetCmds' = resetCmds + 1
  /\ dups' = dups + 1
  /\ UNCHANGED <<buf, ring, flags, BulkOutSize, pc, w, rd, urb, hist, errors>>

\* ResetBulkOutHdlr: send the pipe's last URB again if the pipe is free, else
\* raise the data flag. Then the TxSwQueue is served and the pipe kicked.
ResetBulkOut ==
  /\ resetCmds > 0 /\ pc["C"] = "idle" /\ ~Busy("C")
  /\ resetCmds' = resetCmds - 1
  /\ bulkOutReset' = FALSE
  /\ pc' = [pc EXCEPT !["C"] = "kick"]
  /\ IF BulkOutPending
     THEN dataFlag' = TRUE /\ UNCHANGED <<BulkOutPending, rd>>
     ELSE /\ BulkOutPending' = TRUE
          /\ rd' = [pc |-> "built", by |-> "C"]
          /\ UNCHANGED dataFlag
  /\ UNCHANGED <<buf, ring, bForcePrintTX, BulkOutSize, w, urb, hist, errors, dups>>

-----------------------------------------------------------------------------
Next ==
  \/ \E b \in Batches : DeQueuePacket(b)
  \/ WriteHeader \/ WriteBody \/ WriteNext \/ PublishWrite \/ FinalWriteTxResource
  \/ \E c \in Contexts : KickBulkOut(c)
  \/ SeesEmpty \/ GivesUp \/ BuildUrb \/ SubmitOk \/ SubmitFails
  \/ UrbDone \/ UrbFails \/ DataOutComplete \/ TaskletCheck
  \/ OtherPipeQueuesReset \/ ResetBulkOut

Spec == Init /\ [][Next]_vars

(***************************************************************************)
(* Fairness: contexts that have started run on, the controller finishes    *)
(* every URB one way or the other, and the command thread is served. The   *)
(* stack owes the driver no further packet.                                *)
(***************************************************************************)
Fairness ==
  /\ WF_vars(WriteHeader \/ WriteBody \/ WriteNext \/ PublishWrite \/ FinalWriteTxResource)
  /\ \A c \in Contexts : WF_vars(KickBulkOut(c))
  /\ WF_vars(SeesEmpty \/ GivesUp \/ BuildUrb \/ SubmitOk \/ SubmitFails)
  /\ WF_vars(UrbDone \/ UrbFails)
  /\ WF_vars(DataOutComplete \/ TaskletCheck)
  /\ WF_vars(ResetBulkOut)

FairSpec == Spec /\ Fairness

-----------------------------------------------------------------------------
(***************************************************************************)
(* Properties.                                                             *)
(***************************************************************************)

Cells == [f : 0..MaxFrames, k : 0..BufSize, len : 0..BufSize, last : BOOLEAN, nv : BOOLEAN]

\* The ring's fields keep their types; every position lies inside the buffer.
TypeOK ==
  /\ \A p \in Pos : buf[p] \in Cells
  /\ {CurWritePosition, CurWriteRealPos, NextBulkOutPosition, ENextBulkOutPosition}
        \subseteq Pos
  /\ {bCurWriting, bCopySavePad, BulkOutPending, dataFlag, bulkOutReset, bForcePrintTX}
        \subseteq BOOLEAN
  /\ SavedPad \in Cells /\ BulkOutSize \in 0..BufSize
  /\ pc \in [Contexts -> {"idle", "hdr", "body", "next", "fin", "kick", "kick1", "check", "kick2"}]
  /\ rd.pc \in {"idle", "claimed", "empty", "built"} /\ rd.by \in Contexts
  /\ urb \in {"none", "flying", "done", "failed"}
  /\ resetCmds \in Nat /\ next \in 1..(MaxFrames + 1)

\* No frame, nor the 8 zero bytes behind it, is written past TransferBuffer: the
\* frame that would not leave AggReserve free is the last of its round, so every
\* frame starts, skipped unit included, at most one unit above that mark.
WritesInBounds ==
  pc["W"] \in {"body", "next", "fin"} => CurWritePosition + w.Priv + 1 <= BufSize

\* Every frame reaches the device as it was written, header and payload, however
\* the copy into the ring, the parking of its header in SavedPad, the wrap of the
\* ring and a resubmission interleave (RtmpUSB_Write*TxResource against
\* RTUSBBulkOutDataPacket).
SentIntact == \A i \in DOMAIN sent : sent[i].ok

\* Frames leave in the order they were queued: a frame the device has not had
\* before is newer than all it has had, and every older one was sent or dropped.
FirstSentInOrder ==
  \A i \in DOMAIN sent :
    LET before == {sent[j].f : j \in 1..(i - 1)}
    IN \/ sent[i].f \in before
       \/ \A f \in 1..(MaxFrames + 1) :
            /\ f > sent[i].f => f \notin before
            /\ f < sent[i].f => f \in before \union dropped

\* The ring never looks empty while it holds a frame: when ENextBulkOutPosition
\* meets CurWritePosition with no URB outstanding, every complete frame has been
\* sent or given up. (The full and the empty ring have the same positions; tests
\* two and four of RtmpUSBCanDoWrite must keep the full one from arising.)
EmptyMeansDrained ==
  (NothingToSend /\ rd.pc \notin {"built"} /\ urb = "none" /\ ~bulkOutReset /\ resetCmds = 0
     /\ pc["T"] = "idle")
    => \A f \in 1..(next - 1) :
         f \in FramesOf(sent) \union dropped \/ (bCurWriting /\ w.kind = "frag" /\ f = next - 1)

\* RTUSBBulkOutDataPacket never meets a frame of length zero ("e2"): a header it
\* zeroed as padding is always put back before the frame is scanned.
NoZeroLengthFrame == ~bForcePrintTX

\* The 8 zero bytes behind a URB stay zero, and its frames stay untouched, from
\* submission to completion, although the writer copies without the lock.
UrbStable ==
  [][ (urb = "flying" /\ urb' = "flying") =>
        \A p \in NextBulkOutPosition..(NextBulkOutPosition + BulkOutSize) : buf'[p] = buf[p] ]_vars

\* TXWI->MPDUtotalByteCnt of every frame sent is the length of the frame, as the
\* comments of RtmpUSB_FinalWriteTxResource and STA_AMSDU_Frame_Tx say.
MpduCountRight == \A i \in DOMAIN sent : sent[i].ok => sent[i].cnt

\* A frame that is complete in the ring is eventually sent or given up, with no
\* help from a later packet.
ReadyIsSent ==
  \A f \in 1..MaxFrames : (f < next) ~> (f \in FramesOf(sent) \union dropped)
=============================================================================
