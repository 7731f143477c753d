------------------------------ MODULE BaReorder ------------------------------
(***************************************************************************)
(* The recipient's side of a block-ack agreement (common/ba_action.c):     *)
(* the MPDUs of one peer and TID are put back in order before they go up.  *)
(*                                                                         *)
(* Two contexts work on the same BA_REC_ENTRY. The receive tasklet takes   *)
(* data frames and BARs; it changes the list under RxReRingLock, but reads *)
(* and writes LastIndSeq outside it. The MLME thread sets the agreement up *)
(* again or tears it down; so does the tasklet for an uncompressed BAR.    *)
(* One step of the model is one locked section with the unlocked reads     *)
(* that precede it; every unlocked write that follows one is a step.       *)
(*                                                                         *)
(* The peer is external: frames are numbered without wrapping, the number  *)
(* on the air is the frame's number modulo MAXSEQ + 1, and the peer sends  *)
(* and sends again what is in its window.                                  *)
(***************************************************************************)
EXTENDS Integers, Sequences, FiniteSets, SequencesExt

CONSTANTS
  ModSeq,      \* MAXSEQ + 1
  WinSize,     \* the window agreed on
  Ents,        \* entries 1..Ents of BARecEntry; 0 stands for "no session"
  Blocks,      \* number of blocks of mpdu_blk_pool
  Ulong,       \* numAsRecipient is an unsigned long: it counts modulo Ulong
  FirstNum, LastNum, \* bound: the frames the peer sends
  MaxGap,      \* bound: how far the peer's window runs ahead of what is heard
  MaxOps,      \* bound: ADDBA requests and teardowns
  Eap          \* bound: the frames that carry EAP

ASSUME BaReorderAssumption ==
  /\ {ModSeq, WinSize, Ents, Blocks, Ulong} \subseteq Nat \ {0}
  /\ FirstNum \in Nat /\ LastNum \in Nat /\ FirstNum <= LastNum
  /\ MaxGap \in Nat /\ MaxOps \in Nat
  /\ Ents < Ulong
  /\ 2 * (MaxGap + 2 * WinSize) <= ModSeq   \* numbers are told apart modulo ModSeq
  /\ Eap \subseteq Nat

VARIABLES
  status,                   \* REC_BA_Status of each entry
  LastIndSeq, BAWinSize,
  list,                     \* the reordering list: frames, by number
  BARecWcidArray,           \* the peer's entry for the TID, or 0
  numAsRecipient,
  free,                     \* length of the pool's free list
  act,                      \* where the tasklet and the MLME thread are
  o, heard,                 \* the peer: first frame of its window; newest frame received
  last,                     \* history: last frame indicated since the last reset, or -1
  bar,                      \* history: start of the last BAR
  order,                    \* history: worst indication: "new", "again" or "old"
  raced,                    \* history: have both contexts been at work at once?
  eaps,                     \* history: EAP frames that came to be queued
  bypassed,                 \* history: has a frame in the window gone past a list?
  ops

entry == <<status, LastIndSeq, BAWinSize, list>>
table == <<BARecWcidArray, numAsRecipient>>
peer  == <<o, heard>>
up    == <<last, order>>
vars  == <<entry, table, free, act, peer, up, bar, raced, eaps, bypassed, ops>>

Entries == 1..Ents
RESET_RCV_SEQ == 16 * ModSeq - 1
SeqNo(n) == n % ModSeq
Actors == {"rx", "mlme"}
Idle == [pc |-> "idle", e |-> 0, n |-> 0, val |-> 0, v |-> FALSE]

Init ==
  /\ status = [e \in Entries |-> IF e = 1 THEN "Accept" ELSE "NONE"]
  /\ LastIndSeq = [e \in Entries |-> RESET_RCV_SEQ]
  /\ BAWinSize = [e \in Entries |-> IF e = 1 THEN WinSize ELSE 0]
  /\ list = [e \in Entries |-> <<>>]
  /\ BARecWcidArray = 1 /\ numAsRecipient = 1
  /\ free = Blocks
  /\ act = [a \in Actors |-> Idle]
  /\ o = FirstNum /\ heard = FirstNum
  /\ last = -1 /\ bar = -1 /\ order = "new" /\ raced = FALSE
  /\ eaps = 0 /\ bypassed = FALSE /\ ops = 0

-----------------------------------------------------------------------------
(***************************************************************************)
(* Sequence numbers and the reordering list.                               *)
(***************************************************************************)
SEQ_STEPONE(s, t) == s = (t + 1) % ModSeq
SEQ_SMALLER(s, t) == (s - t) % ModSeq >= ModSeq \div 2

LeSeq(n, s) == SeqNo(n) = s \/ SEQ_SMALLER(SeqNo(n), s)

\* Where the scan for a place of frame n ends: past the smaller ones.
Place(l, n) ==
  LET stop == {i \in DOMAIN l : ~SEQ_SMALLER(SeqNo(l[i]), SeqNo(n))}
  IN IF stop = {} THEN Len(l) + 1 ELSE Min(stop)

IsListed(l, n) == Place(l, n) <= Len(l) /\ SeqNo(l[Place(l, n)]) = SeqNo(n)

ba_reordering_mpdu_insertsorted(l, n) == InsertAt(l, Place(l, n), n)

\* Lengths of the prefixes that the two release functions take off the list.
LeCount(l, s) ==
  CHOOSE k \in 0..Len(l) : /\ \A i \in 1..k : LeSeq(l[i], s)
                           /\ k < Len(l) => ~LeSeq(l[k + 1], s)
InOrderCount(l, s) ==
  LET steps(i) == SEQ_STEPONE(SeqNo(l[i]), IF i = 1 THEN s ELSE SeqNo(l[i - 1]))
  IN CHOOSE k \in 0..Len(l) : /\ \A i \in 1..k : steps(i)
                              /\ k < Len(l) => ~steps(k + 1)

\* Frames handed to the upper layer, in this order; what that says of the
\* order they were sent in is recorded.
Indicate(frames) ==
  LET before(i) == IF i = 1 THEN last ELSE frames[i - 1]
      again(i)  == frames[i] = before(i) /\ (frames[i] = bar \/ act["rx"].pc = "enqset")
  IN /\ last' = IF frames = <<>> THEN last ELSE frames[Len(frames)]
     /\ order' = IF \A i \in DOMAIN frames : frames[i] > before(i) THEN order
                 ELSE IF order # "old" /\ \A i \in DOMAIN frames :
                           frames[i] > before(i) \/ again(i) THEN "again"
                 ELSE "old"

\* The first k frames of e's list are indicated, then `more`.
Release(e, k, more) ==
  /\ list' = [list EXCEPT ![e] = SubSeq(@, k + 1, Len(@))]
  /\ free' = free + k
  /\ Indicate(SubSeq(list[e], 1, k) \o more)

\* ba_refresh_reordering_mpdus: the whole list, and LastIndSeq with it.
Refresh(e) ==
  /\ list' = [list EXCEPT ![e] = <<>>]
  /\ free' = free + Len(list[e])
  /\ LastIndSeq' = [LastIndSeq EXCEPT ![e] = RESET_RCV_SEQ]
  /\ LET old == \E i \in DOMAIN list[e] : list[e][i] <= (IF i = 1 THEN last ELSE list[e][i - 1])
     IN order' = IF old THEN "old" ELSE order
  /\ last' = -1

SetLastIndSeq(e, s) == LastIndSeq' = [LastIndSeq EXCEPT ![e] = s]

Go(a, pc) == act' = [act EXCEPT ![a].pc = pc]
Done(a)   == act' = [act EXCEPT ![a] = Idle]

\* Every step of a context notes whether the other one is in the middle of something.
Race(a) == raced' = (raced \/ \E b \in Actors \ {a} : act[b].pc # "idle")
Operation == ops < MaxOps /\ ops' = ops + 1

-----------------------------------------------------------------------------
(***************************************************************************)
(* Indicate_AMPDU_Packet.                                                  *)
(***************************************************************************)

\* ba_flush_reordering_timeout_mpdus up to its first unlock. t is how long ago
\* the last frame came: "no" time-out, over 100 ms ("one") or over 500 ms ("all").
Flush(e, n, t, next) ==
  LET qlen == Len(list[e])
      s == (LastIndSeq[e] + 1) % ModSeq
  IN \/ /\ t = "all" /\ qlen > 1
        /\ Refresh(e)
        /\ act' = [act EXCEPT !["rx"] = [Idle EXCEPT !.pc = next, !.e = e, !.n = n]]
        /\ UNCHANGED <<status, BAWinSize, table, eaps, bypassed>>
     \/ /\ t # "no" /\ qlen > 0 /\ (t = "one" \/ qlen = 1)
        /\ Release(e, LeCount(list[e], s), <<>>)
        /\ act' = [act EXCEPT !["rx"] = [pc |-> "flushone", e |-> e, n |-> n, val |-> s,
                                         v |-> next = "idle"]]
        /\ UNCHANGED <<LastIndSeq, status, BAWinSize, table, eaps, bypassed>>
     \/ /\ t = "no" \/ qlen = 0
        /\ act' = [act EXCEPT !["rx"] = [Idle EXCEPT !.pc = next, !.e = e, !.n = n]]
        /\ UNCHANGED <<entry, table, free, up, eaps, bypassed>>

\* A data frame arrives. Without a session it goes up at once.
Receive(n) ==
  /\ act["rx"].pc = "idle"
  /\ n \in o..(o + WinSize - 1) /\ n <= LastNum
  /\ heard' = IF n > heard THEN n ELSE heard
  /\ Race("rx")
  /\ UNCHANGED <<o, bar, ops>>

Indicate_AMPDU_Packet(n, t) ==
  /\ Receive(n)
  /\ \/ /\ BARecWcidArray # 0
        /\ Flush(BARecWcidArray, n, t, "decide")
     \/ /\ BARecWcidArray = 0
        /\ UNCHANGED <<entry, table, free, act, up, eaps, bypassed>>

\* Indicate_Legacy_Packet: a frame outside any A-MPDU only looks at the time-out.
Indicate_Legacy_Packet(t) ==
  /\ act["rx"].pc = "idle" /\ BARecWcidArray # 0
  /\ t # "no" /\ list[BARecWcidArray] # <<>>
  /\ Flush(BARecWcidArray, 0, t, "idle")
  /\ Race("rx")
  /\ UNCHANGED <<peer, bar, ops>>

\* Mutant of FlushOne: the gap is not stepped over.
FlushOneStays ==
  LET r == act["rx"]
      k == InOrderCount(list[r.e], r.val)
      s == IF k = 0 THEN RESET_RCV_SEQ ELSE SeqNo(list[r.e][k])
  IN /\ r.pc = "flushone"
     /\ Release(r.e, k, <<>>)
     /\ act' = [act EXCEPT !["rx"].pc = "flushset", !["rx"].val = s]
     /\ Race("rx")
     /\ UNCHANGED <<LastIndSeq, status, BAWinSize, table, peer, bar, eaps, bypassed, ops>>

\* The rest of the time-out: the missing frame is given up, then what follows
\* it in order goes up.
FlushOne ==
  LET r == act["rx"]
      k == InOrderCount(list[r.e], r.val)
      s == IF k = 0 THEN RESET_RCV_SEQ ELSE SeqNo(list[r.e][k])
  IN /\ r.pc = "flushone"
     /\ SetLastIndSeq(r.e, r.val)
     /\ Release(r.e, k, <<>>)
     /\ act' = [act EXCEPT !["rx"].pc = "flushset", !["rx"].val = s]
     /\ Race("rx")
     /\ UNCHANGED <<status, BAWinSize, table, peer, bar, eaps, bypassed, ops>>

\* The number of the last frame released in order is written back after the unlock.
SetUnlessReset(r) ==
  IF r.val = RESET_RCV_SEQ THEN UNCHANGED LastIndSeq ELSE SetLastIndSeq(r.e, r.val)

FlushSet ==
  LET r == act["rx"]
  IN /\ r.pc = "flushset"
     /\ SetUnlessReset(r)
     /\ IF r.v THEN Done("rx")
        ELSE act' = [act EXCEPT !["rx"].pc = "decide", !["rx"].val = 0, !["rx"].v = FALSE]
     /\ Race("rx")
     /\ UNCHANGED <<status, BAWinSize, list, table, free, peer, up, bar, eaps, bypassed, ops>>

\* Mutant of InWindow: one frame more than agreed fits.
InWindowWide(s, e) == SEQ_SMALLER(s, (LastIndSeq[e] + BAWinSize[e] + 2) % ModSeq)

InWindow(s, e) == SEQ_SMALLER(s, (LastIndSeq[e] + BAWinSize[e] + 1) % ModSeq)

\* Mutant of IsOld: what was indicated before is not dropped.
IsOldNever(s, e) == s = LastIndSeq[e]

\* Cases II and III.
IsOld(s, e) == s = LastIndSeq[e] \/ SEQ_SMALLER(s, LastIndSeq[e])

\* The five cases of Indicate_AMPDU_Packet, and the reset before them.
FirstFrame ==
  LET r == act["rx"]
  IN /\ r.pc = "decide" /\ LastIndSeq[r.e] = RESET_RCV_SEQ
     /\ SetLastIndSeq(r.e, SeqNo(r.n))
     /\ Indicate(<<r.n>>)
     /\ Done("rx") /\ Race("rx")
     /\ UNCHANGED <<status, BAWinSize, list, table, free, peer, bar, eaps, bypassed, ops>>

InOrder ==
  LET r == act["rx"]
      k == InOrderCount(list[r.e], SeqNo(r.n))
      s == IF k = 0 THEN RESET_RCV_SEQ ELSE SeqNo(list[r.e][k])
  IN /\ r.pc = "decide" /\ SEQ_STEPONE(SeqNo(r.n), LastIndSeq[r.e])
     /\ LastIndSeq[r.e] # RESET_RCV_SEQ
     /\ SetLastIndSeq(r.e, SeqNo(r.n))
     /\ list' = [list EXCEPT ![r.e] = SubSeq(@, k + 1, Len(@))]
     /\ free' = free + k
     /\ Indicate(<<r.n>> \o SubSeq(list[r.e], 1, k))
     /\ act' = [act EXCEPT !["rx"].pc = "set", !["rx"].val = s]
     /\ Race("rx")
     /\ UNCHANGED <<status, BAWinSize, table, peer, bar, eaps, bypassed, ops>>

DropOld ==
  LET r == act["rx"]
  IN /\ r.pc = "decide" /\ LastIndSeq[r.e] # RESET_RCV_SEQ
     /\ ~SEQ_STEPONE(SeqNo(r.n), LastIndSeq[r.e]) /\ IsOld(SeqNo(r.n), r.e)
     /\ Done("rx") /\ Race("rx")
     /\ UNCHANGED <<entry, table, free, peer, up, bar, eaps, bypassed, ops>>

Ahead(r) ==
  /\ r.pc = "decide" /\ LastIndSeq[r.e] # RESET_RCV_SEQ
  /\ ~SEQ_STEPONE(SeqNo(r.n), LastIndSeq[r.e]) /\ ~IsOld(SeqNo(r.n), r.e)

Queue ==
  LET r == act["rx"]
  IN /\ Ahead(r) /\ InWindow(SeqNo(r.n), r.e)
     /\ Go("rx", "enqueue") /\ Race("rx")
     /\ UNCHANGED <<entry, table, free, peer, up, bar, eaps, bypassed, ops>>

\* The window moves up so that the frame is its last one ...
MoveWindow ==
  LET r == act["rx"]
      WinStartSeq == (r.n - BAWinSize[r.e]) % ModSeq
  IN /\ Ahead(r) /\ ~InWindow(SeqNo(r.n), r.e)
     /\ Release(r.e, LeCount(list[r.e], WinStartSeq), <<>>)
     /\ act' = [act EXCEPT !["rx"].pc = "winset", !["rx"].val = WinStartSeq]
     /\ Race("rx")
     /\ UNCHANGED <<LastIndSeq, status, BAWinSize, table, peer, bar, eaps, bypassed, ops>>

\* ... and the frame is queued.
WindowSet ==
  LET r == act["rx"]
  IN /\ r.pc = "winset"
     /\ SetLastIndSeq(r.e, r.val)
     /\ act' = [act EXCEPT !["rx"].pc = "enqueue", !["rx"].v = TRUE]
     /\ Race("rx")
     /\ UNCHANGED <<status, BAWinSize, list, table, free, peer, up, bar, eaps, bypassed, ops>>

AfterEnqueue(r) == IF r.v THEN Go("rx", "order") ELSE Done("rx")

\* Mutant of BlockTaken: the block of a frame already listed is not given back.
BlockTakenLost(l, n) == 1

\* Blocks that queueing n takes from the pool.
BlockTaken(l, n) == IF IsListed(l, n) THEN 0 ELSE 1

\* ba_enqueue_reordering_packet with a block for the frame.
ba_enqueue_reordering_packet ==
  LET r == act["rx"]
  IN /\ r.pc = "enqueue" /\ free > 0 /\ r.n \notin Eap
     /\ list' = [list EXCEPT ![r.e] = IF IsListed(@, r.n) THEN @
                                      ELSE ba_reordering_mpdu_insertsorted(@, r.n)]
     /\ free' = free - BlockTaken(list[r.e], r.n)
     /\ AfterEnqueue(r) /\ Race("rx")
     /\ UNCHANGED <<LastIndSeq, status, BAWinSize, table, peer, up, bar, eaps, bypassed, ops>>

\* No block, or an EAP frame: everything up to the frame goes up, then the
\* frame. The block that was taken for an EAP frame is not given back.
NoBlock ==
  LET r == act["rx"]
  IN /\ r.pc = "enqueue" /\ (free = 0 \/ r.n \in Eap)
     /\ LET k == LeCount(list[r.e], SeqNo(r.n))
            taken == IF free > 0 THEN 1 ELSE 0
        IN /\ list' = [list EXCEPT ![r.e] = SubSeq(@, k + 1, Len(@))]
           /\ free' = free - taken + k
           /\ eaps' = eaps + taken
           /\ bypassed' = (bypassed \/ (~r.v /\ k < Len(list[r.e])))
           /\ Indicate(SubSeq(list[r.e], 1, k))
     /\ Go("rx", "enqset") /\ Race("rx")
     /\ UNCHANGED <<LastIndSeq, status, BAWinSize, table, peer, bar, ops>>

NoBlockSet ==
  LET r == act["rx"]
  IN /\ r.pc = "enqset"
     /\ SetLastIndSeq(r.e, SeqNo(r.n))
     /\ Indicate(<<r.n>>)
     /\ AfterEnqueue(r) /\ Race("rx")
     /\ UNCHANGED <<status, BAWinSize, list, table, free, peer, bar, eaps, bypassed, ops>>

\* After the window has moved: what is in order goes up.
WindowInOrder ==
  LET r == act["rx"]
      k == InOrderCount(list[r.e], LastIndSeq[r.e])
      s == IF k = 0 THEN RESET_RCV_SEQ ELSE SeqNo(list[r.e][k])
  IN /\ r.pc = "order"
     /\ Release(r.e, k, <<>>)
     /\ act' = [act EXCEPT !["rx"].pc = "set", !["rx"].val = s]
     /\ Race("rx")
     /\ UNCHANGED <<LastIndSeq, status, BAWinSize, table, peer, bar, eaps, bypassed, ops>>

InOrderSet ==
  LET r == act["rx"]
  IN /\ r.pc = "set"
     /\ SetUnlessReset(r)
     /\ Done("rx") /\ Race("rx")
     /\ UNCHANGED <<status, BAWinSize, list, table, free, peer, up, bar, eaps, bypassed, ops>>

-----------------------------------------------------------------------------
(***************************************************************************)
(* BARs, and the agreement's set-up and teardown.                          *)
(***************************************************************************)

\* dev_rx_ctrl_frm for a BAR that starts at the peer's window, CntlEnqueueForRecv
\* up to the unlock.
CntlEnqueueForRecv(compressed) ==
  LET e == BARecWcidArray
  IN /\ act["rx"].pc = "idle" /\ e # 0
     /\ compressed \/ ops < MaxOps
     /\ \/ /\ SEQ_SMALLER(LastIndSeq[e], SeqNo(o))
           /\ bar' = o
           /\ Release(e, LeCount(list[e], SeqNo(o)), <<>>)
           /\ act' = [act EXCEPT !["rx"] = [pc |-> "barset", e |-> e, n |-> 0,
                                            val |-> SeqNo(o), v |-> ~compressed]]
        \/ /\ ~SEQ_SMALLER(LastIndSeq[e], SeqNo(o)) /\ ~compressed
           /\ Go("rx", "teardown")
           /\ UNCHANGED <<list, free, up, bar>>
     /\ Race("rx")
     /\ UNCHANGED <<LastIndSeq, status, BAWinSize, table, peer, eaps, bypassed, ops>>

\* Mutant of BarLast: zero has no predecessor.
BarLastNoWrap(s) == s - 1

BarLast(s) == IF s = 0 THEN ModSeq - 1 ELSE s - 1

BarSet ==
  LET r == act["rx"]
  IN /\ r.pc = "barset"
     /\ SetLastIndSeq(r.e, BarLast(r.val))
     /\ IF r.v THEN act' = [act EXCEPT !["rx"] = [Idle EXCEPT !.pc = "teardown"]] ELSE Done("rx")
     /\ Race("rx")
     /\ UNCHANGED <<status, BAWinSize, list, table, free, peer, up, bar, eaps, bypassed, ops>>

\* A context that may now call BARecSessionTearDown: the MLME thread for a
\* DELBA of the peer or of the user, the tasklet after an uncompressed BAR.
CallsTearDown(a) == act[a].pc = (IF a = "rx" THEN "teardown" ELSE "idle")

\* BARecSessionTearDown: the frames in the list go up ...
BARecSessionTearDown(a) ==
  LET e == BARecWcidArray
  IN /\ CallsTearDown(a) /\ e # 0
     /\ Operation
     /\ \/ /\ status[e] = "Accept"
           /\ Refresh(e)
           /\ act' = [act EXCEPT ![a] = [Idle EXCEPT !.pc = "tdclear", !.e = e]]
        \/ /\ status[e] # "Accept"
           /\ act' = [act EXCEPT ![a] = [Idle EXCEPT !.pc = "tdfree", !.e = e]]
           /\ UNCHANGED <<list, free, LastIndSeq, up>>
     /\ Race(a)
     /\ UNCHANGED <<status, BAWinSize, table, peer, bar, eaps, bypassed>>

TearDownNothing ==
  /\ act["rx"].pc = "teardown" /\ BARecWcidArray = 0
  /\ Done("rx") /\ Race("rx")
  /\ UNCHANGED <<entry, table, free, peer, up, bar, eaps, bypassed, ops>>

\* ... the session is taken out under BATabLock ...
TearDownClear(a) ==
  LET e == act[a].e
  IN /\ act[a].pc = "tdclear"
     /\ SetLastIndSeq(e, RESET_RCV_SEQ)
     /\ BAWinSize' = [BAWinSize EXCEPT ![e] = 0]
     /\ BARecWcidArray' = 0
     /\ Go(a, "tdfree") /\ Race(a)
     /\ UNCHANGED <<status, list, numAsRecipient, free, peer, up, bar, eaps, bypassed, ops>>

\* Mutant of FreedCount: an entry is given back and still counted.
FreedCountKept(n) == n

FreedCount(n) == (n - 1) % Ulong

\* ... and BATableFreeRecEntry gives its entry back: whether it has to is
\* looked at without the lock ...
BATableFreeRecEntry(a) ==
  LET e == act[a].e
  IN /\ act[a].pc = "tdfree"
     /\ \/ status[e] = "NONE" /\ Done(a) /\ UNCHANGED BARecWcidArray
        \/ status[e] # "NONE" /\ Go(a, "tdcount") /\ BARecWcidArray' = 0
     /\ Race(a)
     /\ UNCHANGED <<entry, numAsRecipient, free, peer, up, bar, eaps, bypassed, ops>>

\* ... and it is counted down under BATabLock, whoever gave it back meanwhile.
RecEntryFreed(a) ==
  /\ act[a].pc = "tdcount"
  /\ numAsRecipient' = FreedCount(numAsRecipient)
  /\ status' = [status EXCEPT ![act[a].e] = "NONE"]
  /\ Done(a) /\ Race(a)
  /\ UNCHANGED <<LastIndSeq, BAWinSize, list, BARecWcidArray, free, peer, up, bar, eaps,
                 bypassed, ops>>

TearDown(a) == TearDownClear(a) \/ BATableFreeRecEntry(a) \/ RecEntryFreed(a)

\* BATableAllocRecEntry: a free entry, or the last one looked at when there is none.
NoneFree == \A e \in Entries : status[e] # "NONE"
FoundEntry ==
  IF NoneFree THEN Ents
  ELSE CHOOSE e \in Entries : status[e] = "NONE" /\ \A f \in 1..(e - 1) : status[f] # "NONE"

\* PeerAddBAReqAction and BARecSessionAdd: find the entry or empty it ...
PeerAddBAReqAction ==
  /\ act["mlme"].pc = "idle"
  /\ Operation
  /\ \/ /\ BARecWcidArray = 0 /\ numAsRecipient >= Ents      \* refused
        /\ UNCHANGED <<status, list, free, LastIndSeq, up, numAsRecipient, act>>
     \/ /\ BARecWcidArray = 0 /\ numAsRecipient < Ents
        /\ numAsRecipient' = IF NoneFree THEN numAsRecipient ELSE numAsRecipient + 1
        /\ status' = [status EXCEPT ![FoundEntry] = IF NoneFree THEN @ ELSE "USED"]
        /\ act' = [act EXCEPT !["mlme"] = [Idle EXCEPT !.pc = "setup", !.e = FoundEntry,
                                           !.val = IF NoneFree THEN 0 ELSE FoundEntry]]
        /\ UNCHANGED <<list, free, LastIndSeq, up>>
     \/ /\ BARecWcidArray # 0
        /\ Refresh(BARecWcidArray)
        /\ act' = [act EXCEPT !["mlme"] = [Idle EXCEPT !.pc = "setup", !.e = BARecWcidArray,
                                           !.val = BARecWcidArray]]
        /\ UNCHANGED <<status, numAsRecipient>>
  /\ Race("mlme")
  /\ UNCHANGED <<BAWinSize, BARecWcidArray, peer, bar, eaps, bypassed>>

\* ... and fill it in.
BARecSessionAdd ==
  LET m == act["mlme"]
  IN /\ m.pc = "setup"
     /\ status' = [status EXCEPT ![m.e] = "Accept"]
     /\ BAWinSize' = [BAWinSize EXCEPT ![m.e] = WinSize]
     /\ SetLastIndSeq(m.e, RESET_RCV_SEQ)
     /\ BARecWcidArray' = m.val
     /\ last' = -1
     /\ Done("mlme") /\ Race("mlme")
     /\ UNCHANGED <<list, numAsRecipient, free, peer, order, bar, eaps, bypassed, ops>>

\* The peer (external) moves its window: a frame was acknowledged or given up.
PeerAdvances ==
  /\ o < LastNum /\ o < heard + MaxGap
  /\ o' = o + 1
  /\ UNCHANGED <<entry, table, free, act, heard, up, bar, raced, eaps, bypassed, ops>>

RxStep ==
  \/ FlushOne \/ FlushSet
  \/ FirstFrame \/ InOrder \/ DropOld \/ Queue \/ MoveWindow \/ WindowSet
  \/ ba_enqueue_reordering_packet \/ NoBlock \/ NoBlockSet \/ WindowInOrder \/ InOrderSet
  \/ BarSet \/ TearDownNothing

Next ==
  \/ \E n \in FirstNum..LastNum, t \in {"no", "one", "all"} : Indicate_AMPDU_Packet(n, t)
  \/ \E t \in {"one", "all"} : Indicate_Legacy_Packet(t)
  \/ \E c \in BOOLEAN : CntlEnqueueForRecv(c)
  \/ RxStep
  \/ \E a \in Actors : BARecSessionTearDown(a) \/ TearDown(a)
  \/ PeerAddBAReqAction \/ BARecSessionAdd
  \/ PeerAdvances

Spec == Init /\ [][Next]_vars

\* A tasklet that has begun with a frame ends with it.
FairSpec == Spec /\ WF_vars(RxStep) /\ \A a \in Actors : WF_vars(TearDown(a))

-----------------------------------------------------------------------------
(***************************************************************************)
(* Properties.                                                             *)
(***************************************************************************)

\* Types of the variables.
TypeOK ==
  /\ status \in [Entries -> {"NONE", "USED", "Accept"}]
  /\ LastIndSeq \in [Entries -> 0..(ModSeq - 1) \union {RESET_RCV_SEQ}]
  /\ BAWinSize \in [Entries -> {0, WinSize}]
  /\ list \in [Entries -> Seq(FirstNum..LastNum)]
  /\ BARecWcidArray \in 0..Ents /\ numAsRecipient \in 0..(Ulong - 1)
  /\ free \in 0..Blocks
  /\ o \in FirstNum..LastNum /\ heard \in FirstNum..LastNum
  /\ last \in -1..LastNum /\ bar \in -1..LastNum
  /\ order \in {"new", "again", "old"} /\ raced \in BOOLEAN
  /\ eaps \in 0..Blocks /\ bypassed \in BOOLEAN /\ ops \in 0..MaxOps

\* Frames go up in the order the peer numbered them and none goes up twice,
\* from one reset of LastIndSeq to the next, whatever is lost, sent again,
\* overtakes the window, times out or finds the pool empty, and also where the
\* numbers wrap. Two exceptions are the code's own: the frame a BAR starts at may
\* go up twice in a row (CntlEnqueueForRecv), and so may a frame sent again that
\* finds its first copy listed and the pool empty. Nothing is claimed where the
\* tasklet and the MLME thread were at work on the entry at once, nor where a
\* frame in the window has gone up past frames that are listed after it (an EAP
\* frame, or no block): case IV does not look whether those are next in line.
DeliveredInOrder == ~raced /\ ~bypassed => order # "old"

\* Between two frames the list holds no more than the window, in increasing
\* order, ahead of the last frame indicated and not further than the window,
\* and nothing that is next in line; after a reset it is empty (the two ASSERTs
\* of Indicate_AMPDU_Packet and ba_enqueue_reordering_packet).
ListInWindow ==
  act["rx"].pc = "idle" /\ act["mlme"].pc = "idle" /\ ~raced /\ ~bypassed =>
    \A e \in Entries :
      LET l == list[e]
          ahead(i) == (l[i] - LastIndSeq[e]) % ModSeq
      IN /\ l # <<>> => LastIndSeq[e] # RESET_RCV_SEQ /\ ahead(1) > 1
         /\ Len(l) <= BAWinSize[e]
         /\ \A i \in DOMAIN l : ahead(i) <= BAWinSize[e] /\ (i > 1 => l[i] > l[i - 1])

\* No block of the pool is lost or given back twice, in any interleaving, but
\* for the block each EAP frame that comes to be queued takes with it.
PoolConserved ==
  free + MapThenSumSet(LAMBDA e : Len(list[e]), Entries) + eaps = Blocks

\* Once both contexts are done, and have not been at work at once, exactly the
\* entry the peer's index names is in use and numAsRecipient counts it: no
\* teardown or new set-up loses an entry of the table.
SessionsCounted ==
  (\A a \in Actors : act[a].pc \in {"idle", "teardown"}) /\ ~raced =>
    /\ numAsRecipient = Cardinality({e \in Entries : status[e] # "NONE"})
    /\ \A e \in Entries : status[e] = "Accept" <=> BARecWcidArray = e

\* If frames keep coming after a silence of 100 ms or more, a frame in the
\* session's list does not stay there: one time-out steps over one missing
\* frame. Nothing else moves the list, because BaReOrderingBufferMaintain is
\* not called and RECBATimer is never started.
GapReleased ==
  \A n \in FirstNum..LastNum :
    ([]<><<Indicate_Legacy_Packet("one")>>_vars)
      => ((BARecWcidArray # 0 /\ n \in ToSet(list[BARecWcidArray]))
            ~> ~(BARecWcidArray # 0 /\ n \in ToSet(list[BARecWcidArray])))
=============================================================================
