----------------------------- MODULE Link_proofs -----------------------------
(***************************************************************************)
(* Proofs about Link, for any number of requests and faults, any list of   *)
(* candidates and any number of retries: types, that keys are fresh, that  *)
(* the station installs a key first, and that the two sides end with the   *)
(* same key.                                                               *)
(***************************************************************************)
EXTENDS Link, SequenceTheorems, TLAPS

\* A message that begins or ends nothing of a handshake or of an association.
Plain(m) ==
  /\ m.t \notin KeyFrames /\ m.t # "PEER_ASSOC_RSP"
  /\ m.t = "ASSOC_CONF" => ~m.ok

\* The frames to the station carry drawn nonces, message 3 a key of two of them.
StaFrames ==
  \A i \in 1 .. Len(staQ) : LET m == staQ[i] IN
    /\ m.t \in {"MSG1", "MSG3"} => m.r \in Nat /\ m.n \in 1 .. nonce
    /\ m.t = "MSG3" => m.k \in Keys /\ m.k[1] = m.n /\ m.k[2] > 0

\* So do the frames to the access point: each names the key the station had.
ApFrames ==
  \A i \in 1 .. Len(apQ) : LET m == apQ[i] IN
    /\ m.t \in {"MSG2", "MSG4"} => m.r \in Nat /\ m.k \in Keys /\ m.k[1] > 0 /\ m.k[2] > 0
    /\ m.t = "MSG2" => m.n = m.k[2]

\* The station's keys belong to its association; its port is open only in one.
StaKeys ==
  /\ sta.PTK # NoKey => sta.PTK[1] > 0 /\ sta.PTK[2] > sta.since
  /\ sta.Key # NoKey => sta.Key[2] > sta.since
  /\ sta.PortSecured => sta.Sst = "ASSOC"
  /\ sta.Sst = "NONE" => sta.PTK = NoKey

\* The nonces of a handshake were drawn in its association.
ApKeys ==
  /\ ap.WpaState >= AS_PTKSTART => ap.ANonce > ap.since
  /\ ap.WpaState >= AS_PTKINIT_NEGOTIATING => ap.PTK[1] > ap.since /\ ap.PTK[2] > 0
  /\ ap.PortSecured => ap.WpaState >= AS_PTKSTART /\ ap.Key[1] > ap.since /\ ap.Key[2] > 0
  /\ ap.Sst = "NONE" => ap.WpaState = AS_NOTUSE

\* A handshake that has begun has its retry timer armed or its callback running,
\* and after message 3 the next expiry is the last one: a callback that is about
\* to send message 1 by then has been overtaken and finds the timer armed again.
Guarded ==
  ~overwritten =>
    /\ ap.WpaState = AS_PTKSTART =>
         "retry" \in apTimers \/ apExec \in {"retry", "count", "message1", "deauth", "delete"}
    /\ ap.WpaState = AS_PTKINIT_NEGOTIATING =>
         /\ "retry" \in apTimers \/ apExec \in {"retry", "count", "deauth", "delete"}
         /\ ap.ReTryCounter > PEER_MSG1_RETRIES

\* A key the station's message 4 names, or the access point uses, is the
\* station's current one only when the station has installed it.
Opened ==
  /\ \A i \in 1 .. Len(apQ) :
       apQ[i].t = "MSG4" /\ apQ[i].k = sta.PTK => sta.WpaState = AS_PTKINITDONE
  /\ ap.PortSecured /\ ap.Key = sta.PTK => sta.WpaState = AS_PTKINITDONE
  /\ sta.WpaState = AS_PTKINITDONE => sta.PortSecured

\* The confirmation that closes the port comes before any message 3 that opens it.
Confirmed(j) == staQ[j].t = "ASSOC_CONF" /\ staQ[j].ok
ClosedFirst ==
  \A j \in 1 .. Len(staQ) : Confirmed(j) =>
    /\ sta.WpaState # AS_PTKINITDONE
    /\ \A i \in 1 .. j : staQ[i].t = "MSG3" => staQ[i].k # sta.PTK

\* In an association, and in what authenticating anew leaves of it.
Live == ap.Sst = "ASSOC" \/ ap.WpaState >= AS_PTKINIT_NEGOTIATING

\* The message at j is an association response; there is none at all.
Rsp(j) == staQ[j].t = "PEER_ASSOC_RSP"
NoRsp == \A j \in 1 .. Len(staQ) : ~Rsp(j)

\* The response to the association divides the frames to the station: those of
\* earlier associations are before it, those of this one after it.
Divided ==
  \A i \in 1 .. Len(staQ) : staQ[i].t \in {"MSG1", "MSG3"} =>
    /\ staQ[i].n > ap.since => staQ[i].r <= ap.R_Counter /\ \A j \in i .. Len(staQ) : ~Rsp(j)
    /\ staQ[i].n <= ap.since => \E j \in i .. Len(staQ) : Rsp(j)

\* Nothing of a handshake of this association has come back yet.
Untouched ==
  /\ \A i \in 1 .. Len(apQ) : apQ[i].t \in {"MSG2", "MSG4"} => apQ[i].k[1] <= ap.since
  /\ sta.PTK[1] <= ap.since

\* That is so until the response has been taken, and until message 1 is sent.
Waiting ==
  /\ ~NoRsp => Untouched /\ ap.WpaState <= AS_PTKSTART
  /\ ap.WpaState < AS_PTKSTART =>
       /\ Untouched
       /\ \A i \in 1 .. Len(staQ) : staQ[i].t \in {"MSG1", "MSG3"} => staQ[i].n <= ap.since

\* The station answers what it got: its counter lies between that of the message
\* 4 on its way and the access point's, and equals the former as long as the
\* key of that message is in use.
Answered ==
  /\ sta.PTK[1] > ap.since => sta.R_Counter <= ap.R_Counter
  /\ \A i \in 1 .. Len(apQ) :
       apQ[i].t = "MSG4" /\ apQ[i].k[1] > ap.since /\ sta.Sst = "ASSOC" =>
         /\ sta.PTK[1] > ap.since /\ apQ[i].r <= sta.R_Counter
         /\ apQ[i].r = sta.R_Counter => sta.Key = apQ[i].k

\* A handshake that is done left both with one counter and one key.
Agreed ==
  ap.WpaState = AS_PTKINITDONE =>
    /\ ap.PortSecured
    /\ sta.Sst = "ASSOC" =>
         /\ sta.PTK[1] > ap.since /\ sta.R_Counter = ap.R_Counter /\ sta.Key = ap.Key

\* All of it is about the association the access point is in.
Epoch == Live => Divided /\ Waiting /\ Answered /\ Agreed

\* The inductive invariant.
IndInv ==
  /\ TypeOK /\ StaFrames /\ ApFrames /\ StaKeys /\ ApKeys /\ Guarded
  /\ Opened /\ ClosedFirst /\ Epoch

-----------------------------------------------------------------------------
(***************************************************************************)
(* The queues.                                                             *)
(***************************************************************************)
\* p is q without its first d messages, and more behind them.
Follows(q, p, d) ==
  /\ q \in Seq(Messages) /\ p \in Seq(Messages) /\ d \in 0 .. 1
  /\ Len(q) - d \in 0 .. Len(p)
  /\ \A i \in 1 .. Len(q) - d : p[i] = q[i + d]

\* What the queues may gain without a bearing on the handshake.
Fine(m) ==
  m \in Messages /\ Plain(m) /\ Proper(m)

\* Nothing else in s, nothing else new in p.
FineSeq(s) == s \in Seq(Messages) /\ \A i \in 1 .. Len(s) : Fine(s[i])

\* From q to p at most the head is taken, and only messages that are Fine are added.
Quietly(q, p) ==
  \E d \in 0 .. 1 : Follows(q, p, d) /\ \A i \in Len(q) - d + 1 .. Len(p) : Fine(p[i])

\* The step draws no nonce and sends nothing of a handshake or an association.
NothingNew == nonce' = nonce /\ Quietly(staQ, staQ') /\ Quietly(apQ, apQ')

\* The head is taken and out is put behind the rest.
LEMMA TakeFollows ==
  ASSUME NEW q \in Seq(Messages), q # <<>>, NEW out \in Seq(Messages)
  PROVE  /\ Follows(q, Tail(q) \o out, 1)
         /\ Len(Tail(q) \o out) = Len(q) - 1 + Len(out)
         /\ \A i \in Len(q) .. Len(Tail(q) \o out) : (Tail(q) \o out)[i] = out[i - (Len(q) - 1)]
<1> DEFINE p == Tail(q) \o out
<1>1. /\ Tail(q) \in Seq(Messages) /\ Len(Tail(q)) = Len(q) - 1 /\ Len(q) >= 1
      /\ \A i \in 1 .. Len(q) - 1 : Tail(q)[i] = q[i + 1]
  BY HeadTailProperties, EmptySeq
<1>2. p \in Seq(Messages) /\ Len(p) = Len(q) - 1 + Len(out)
  BY <1>1, ConcatProperties
<1>3. \A i \in 1 .. Len(p) :
        p[i] = IF i <= Len(q) - 1 THEN Tail(q)[i] ELSE out[i - (Len(q) - 1)]
  BY <1>1, ConcatProperties
<1>4. Len(q) \in Nat /\ Len(out) \in Nat
  BY LenProperties
<1>5. \A i \in 1 .. Len(q) - 1 : p[i] = q[i + 1]
  BY <1>1, <1>2, <1>3, <1>4
<1>6. \A i \in Len(q) .. Len(p) : p[i] = out[i - (Len(q) - 1)]
  BY <1>1, <1>2, <1>3, <1>4
<1>7. QED
  BY <1>1, <1>2, <1>4, <1>5, <1>6 DEF Follows

\* out is put behind what is there.
LEMMA SendFollows ==
  ASSUME NEW q \in Seq(Messages), NEW out \in Seq(Messages)
  PROVE  /\ Follows(q, q \o out, 0)
         /\ Len(q \o out) = Len(q) + Len(out)
         /\ \A i \in Len(q) + 1 .. Len(q \o out) : (q \o out)[i] = out[i - Len(q)]
<1> DEFINE p == q \o out
<1>1. p \in Seq(Messages) /\ Len(p) = Len(q) + Len(out)
  BY ConcatProperties
<1>2. \A i \in 1 .. Len(p) : p[i] = IF i <= Len(q) THEN q[i] ELSE out[i - Len(q)]
  BY ConcatProperties
<1>3. Len(q) \in Nat /\ Len(out) \in Nat
  BY LenProperties
<1>4. \A i \in 1 .. Len(q) : p[i] = q[i + 0]
  BY <1>1, <1>2, <1>3
<1>5. \A i \in Len(q) + 1 .. Len(p) : p[i] = out[i - Len(q)]
  BY <1>1, <1>2, <1>3
<1>6. QED
  BY <1>1, <1>3, <1>4, <1>5 DEF Follows

\* Append is the same with one message.
LEMMA AppendFollows ==
  ASSUME NEW q \in Seq(Messages), NEW m \in Messages
  PROVE  /\ Follows(q, Append(q, m), 0)
         /\ Len(Append(q, m)) = Len(q) + 1 /\ Append(q, m)[Len(q) + 1] = m
<1>1. Append(q, m) \in Seq(Messages) /\ Len(Append(q, m)) = Len(q) + 1
      /\ Append(q, m)[Len(q) + 1] = m /\ \A i \in 1 .. Len(q) : Append(q, m)[i] = q[i]
  BY AppendProperties
<1>2. Len(q) \in Nat
  BY LenProperties
<1>3. QED
  BY <1>1, <1>2 DEF Follows

\* Taking the head alone.
LEMMA TailFollows ==
  ASSUME NEW q \in Seq(Messages), q # <<>>
  PROVE  Follows(q, Tail(q), 1) /\ Len(Tail(q)) = Len(q) - 1
<1>1. /\ Tail(q) \in Seq(Messages) /\ Len(Tail(q)) = Len(q) - 1 /\ Len(q) >= 1
      /\ \A i \in 1 .. Len(q) - 1 : Tail(q)[i] = q[i + 1]
  BY HeadTailProperties, EmptySeq
<1>2. Len(q) \in Nat
  BY LenProperties
<1>3. QED
  BY <1>1, <1>2 DEF Follows

\* All of these are quiet when what they add is fine.
LEMMA Quiets ==
  ASSUME NEW q \in Seq(Messages)
  PROVE  /\ \A out : FineSeq(out) => Quietly(q, q \o out)
         /\ \A out : FineSeq(out) /\ q # <<>> => Quietly(q, Tail(q) \o out)
         /\ \A m : Fine(m) => Quietly(q, Append(q, m))
         /\ q # <<>> => Quietly(q, Tail(q))
         /\ Quietly(q, q)
<1>0. Len(q) \in Nat
  BY LenProperties
<1>1. ASSUME NEW out, FineSeq(out) PROVE Quietly(q, q \o out)
  <2>1. out \in Seq(Messages) /\ Len(out) \in Nat
    BY <1>1, LenProperties DEF FineSeq
  <2>2. Follows(q, q \o out, 0) /\ Len(q \o out) = Len(q) + Len(out)
        /\ \A i \in Len(q) + 1 .. Len(q \o out) : (q \o out)[i] = out[i - Len(q)]
    BY <2>1, SendFollows
  <2>3. \A i \in Len(q) - 0 + 1 .. Len(q \o out) : Fine((q \o out)[i])
    <3> TAKE i \in Len(q) - 0 + 1 .. Len(q \o out)
    <3>1. i - Len(q) \in 1 .. Len(out) /\ (q \o out)[i] = out[i - Len(q)]
      BY <2>1, <2>2, <1>0
    <3>2. QED
      BY <3>1, <1>1 DEF FineSeq
  <2>4. QED
    BY <2>2, <2>3 DEF Quietly
<1>2. ASSUME NEW out, FineSeq(out), q # <<>> PROVE Quietly(q, Tail(q) \o out)
  <2>1. out \in Seq(Messages) /\ Len(out) \in Nat
    BY <1>2, LenProperties DEF FineSeq
  <2>2. Follows(q, Tail(q) \o out, 1) /\ Len(Tail(q) \o out) = Len(q) - 1 + Len(out)
        /\ \A i \in Len(q) .. Len(Tail(q) \o out) : (Tail(q) \o out)[i] = out[i - (Len(q) - 1)]
    BY <2>1, <1>2, TakeFollows
  <2>3. \A i \in Len(q) - 1 + 1 .. Len(Tail(q) \o out) : Fine((Tail(q) \o out)[i])
    <3> TAKE i \in Len(q) - 1 + 1 .. Len(Tail(q) \o out)
    <3>1. i - (Len(q) - 1) \in 1 .. Len(out) /\ (Tail(q) \o out)[i] = out[i - (Len(q) - 1)]
      BY <2>1, <2>2, <1>0
    <3>2. QED
      BY <3>1, <1>2 DEF FineSeq
  <2>4. QED
    BY <2>2, <2>3 DEF Quietly
<1>3. ASSUME NEW m, Fine(m) PROVE Quietly(q, Append(q, m))
  <2>1. m \in Messages
    BY <1>3 DEF Fine
  <2>2. Follows(q, Append(q, m), 0) /\ Len(Append(q, m)) = Len(q) + 1
        /\ Append(q, m)[Len(q) + 1] = m
    BY <2>1, AppendFollows
  <2>3. \A i \in Len(q) - 0 + 1 .. Len(Append(q, m)) : Fine(Append(q, m)[i])
    BY <2>2, <1>0, <1>3
  <2>4. QED
    BY <2>2, <2>3 DEF Quietly
<1>4. ASSUME q # <<>> PROVE Quietly(q, Tail(q))
  <2> DEFINE p == Tail(q)
  <2>1. Follows(q, p, 1) /\ Len(p) = Len(q) - 1
    BY <1>4, TailFollows
  <2> HIDE DEF p
  <2>2. \A i \in Len(q) - 1 + 1 .. Len(p) : Fine(p[i])
    BY <2>1, <1>0
  <2>3. Quietly(q, p)
    BY <2>1, <2>2 DEF Quietly
  <2>4. QED
    BY <2>3 DEF p
<1>5. Quietly(q, q)
  <2>1. Follows(q, q, 0)
    BY <1>0 DEF Follows
  <2>2. \A i \in Len(q) - 0 + 1 .. Len(q) : Fine(q[i])
    BY <1>0
  <2>3. QED
    BY <2>1, <2>2 DEF Quietly
<1>6. QED
  BY <1>1, <1>2, <1>3, <1>4, <1>5

\* Sequences of at most two fine messages.
LEMMA FineSeqs ==
  /\ FineSeq(<<>>)
  /\ \A m : Fine(m) => FineSeq(<<m>>)
  /\ \A m1, m2 : Fine(m1) /\ Fine(m2) => FineSeq(<<m1, m2>>)
BY DEF FineSeq, Fine

\* The messages without a field are fine, except those Plain leaves out.
LEMMA FineMsg ==
  ASSUME NEW t \in MsgTypes \ (KeyFrames \union
                               {"PEER_ASSOC_RSP", "ASSOC_CONF", "JOIN_REQ", "AUTH_REQ", "ASSOC_REQ"})
  PROVE  Fine(Msg(t))
BY DEF Fine, Plain, Proper, Msg, Messages, KeyFrames

\* So are the confirmations but one.
LEMMA FineConf ==
  ASSUME NEW ok \in BOOLEAN
  PROVE  /\ Fine(Conf("JOIN_CONF", ok)) /\ Fine(Conf("AUTH_CONF", ok))
         /\ ~ok => Fine(Conf("ASSOC_CONF", ok))
BY DEF Fine, Plain, Proper, Conf, Messages, MsgTypes, KeyFrames

\* So is a request to join a candidate that exists.
LEMMA FineJoin ==
  ASSUME NEW idx \in Nat, idx < Len(SsidBssTab)
  PROVE  Fine([t |-> "JOIN_REQ", idx |-> idx])
<1>1. idx \in 0 .. Len(SsidBssTab) - 1
  BY StaAssumption, LenProperties
<1>2. QED
  BY <1>1 DEF Fine, Plain, Proper, Messages, MsgTypes, KeyFrames

\* So is a request that names a BSS.
LEMMA FineReq ==
  ASSUME Bssid \in {"ap", "gone"}, NEW t \in {"AUTH_REQ", "ASSOC_REQ"}
  PROVE  Fine(Req(t))
BY DEF Fine, Plain, Proper, Req, Messages, MsgTypes, KeyFrames

-----------------------------------------------------------------------------
(***************************************************************************)
(* Steps beside the handshake.                                             *)
(***************************************************************************)
Handshake ==
  StaFrames /\ ApFrames /\ StaKeys /\ ApKeys /\ Opened /\ ClosedFirst /\ Epoch

\* The station's entry stays, goes, or has its port closed before the handshake is over.
StaKept ==
  \/ sta' = sta
  \/ sta' = NoEntry
  \/ sta' = [sta EXCEPT !.PortSecured = FALSE] /\ sta.WpaState # AS_PTKINITDONE

\* The access point's entry goes, or all of it that a handshake uses stays.
ApKept ==
  \/ ap' = NoStation
  \/ /\ ap'.WpaState = ap.WpaState /\ ap'.R_Counter = ap.R_Counter /\ ap'.ANonce = ap.ANonce
     /\ ap'.PTK = ap.PTK /\ ap'.Key = ap.Key /\ ap'.PortSecured = ap.PortSecured
     /\ ap'.since = ap.since /\ ap'.Sst \in {ap.Sst, "AUTH"}

\* The fields of an entry that is cleared.
LEMMA NoEntryFields ==
  /\ NoEntry \in StaEntries
  /\ NoEntry.Sst = "NONE" /\ NoEntry.WpaState = AS_NOTUSE /\ NoEntry.R_Counter = 0
  /\ NoEntry.PTK = NoKey /\ NoEntry.Key = NoKey /\ NoEntry.PortSecured = FALSE
  /\ NoEntry.since = 0
BY DEF NoEntry, StaEntries, NoKey, AS_NOTUSE, AS_PTKINITDONE

\* The same for the access point's.
LEMMA NoStationFields ==
  /\ NoStation \in ApEntries
  /\ NoStation.Sst = "NONE" /\ NoStation.WpaState = AS_NOTUSE /\ NoStation.R_Counter = 0
  /\ NoStation.PTK = NoKey /\ NoStation.Key = NoKey /\ NoStation.PortSecured = FALSE
  /\ NoStation.since = 0 /\ NoStation.ANonce = 0
BY DEF NoStation, ApEntries, NoKey, AS_NOTUSE, AS_PTKINITDONE

\* The fields of the station's entry after such a step.
LEMMA StaKeptFields ==
  ASSUME StaKept, sta \in StaEntries
  PROVE  /\ sta' \in StaEntries
         /\ \/ /\ sta'.Sst = sta.Sst /\ sta'.WpaState = sta.WpaState
               /\ sta'.R_Counter = sta.R_Counter /\ sta'.PTK = sta.PTK /\ sta'.Key = sta.Key
               /\ sta'.since = sta.since /\ (sta'.PortSecured => sta.PortSecured)
               /\ sta.WpaState = AS_PTKINITDONE => sta'.PortSecured = sta.PortSecured
            \/ /\ sta'.Sst = "NONE" /\ sta'.WpaState = AS_NOTUSE
               /\ sta'.PTK = NoKey /\ sta'.Key = NoKey /\ sta'.PortSecured = FALSE
               /\ sta'.since = 0
<1>1. CASE sta' = sta
  BY <1>1
<1>2. CASE sta' = NoEntry
  BY <1>2, NoEntryFields
<1>3. CASE sta' = [sta EXCEPT !.PortSecured = FALSE] /\ sta.WpaState # AS_PTKINITDONE
  BY <1>3 DEF StaEntries
<1>4. QED
  BY <1>1, <1>2, <1>3 DEF StaKept

\* NoKey is no key.
LEMMA NoKeyPair == NoKey \in Nat \X Nat /\ NoKey[1] = 0 /\ NoKey[2] = 0
BY DEF NoKey

\* Where a message that is not plain comes from: the same offset for all of them.
LEMMA QuietOrigin ==
  ASSUME NEW q, NEW p, Quietly(q, p)
  PROVE  \E d \in 0 .. 1 :
           /\ \A i \in 1 .. Len(p) : Fine(p[i]) \/ (i + d \in 1 .. Len(q) /\ p[i] = q[i + d])
           /\ \A j \in d + 1 .. Len(q) : j - d \in 1 .. Len(p) /\ p[j - d] = q[j]
           /\ Len(q) \in Nat /\ Len(p) \in Nat
<1>1. PICK d \in 0 .. 1 : Follows(q, p, d) /\ \A i \in Len(q) - d + 1 .. Len(p) : Fine(p[i])
  BY DEF Quietly
<1>2. Len(q) \in Nat /\ Len(p) \in Nat
  BY <1>1, LenProperties DEF Follows
<1>3. \A i \in 1 .. Len(p) : Fine(p[i]) \/ (i + d \in 1 .. Len(q) /\ p[i] = q[i + d])
  BY <1>1, <1>2 DEF Follows
<1>4. \A j \in d + 1 .. Len(q) : j - d \in 1 .. Len(p) /\ p[j - d] = q[j]
  <2> TAKE j \in d + 1 .. Len(q)
  <2>1. j - d \in 1 .. Len(q) - d /\ (j - d) + d = j
    BY <1>2
  <2>2. p[j - d] = q[(j - d) + d]
    BY <2>1, <1>1 DEF Follows
  <2>3. QED
    BY <2>1, <2>2, <1>1, <1>2 DEF Follows
<1>5. QED
  BY <1>2, <1>3, <1>4

\* The queue loses its head or nothing, and gains at most one frame of the
\* current association: it stays divided.
LEMMA DividedMoves ==
  ASSUME NEW d \in 0 .. 1, Len(staQ) \in Nat, Len(staQ') \in Nat,
         \A i \in 1 .. Len(staQ') : staQ'[i].t \in {"MSG1", "MSG3", "PEER_ASSOC_RSP"} =>
           \/ i + d \in 1 .. Len(staQ) /\ staQ'[i] = staQ[i + d]
           \/ /\ i = Len(staQ') /\ staQ'[i].t # "PEER_ASSOC_RSP"
              /\ staQ'[i].n > ap.since /\ ~(staQ'[i].n <= ap.since)
              /\ staQ'[i].r <= ap'.R_Counter,
         \A j \in d + 1 .. Len(staQ) : j - d \in 1 .. Len(staQ') /\ staQ'[j - d] = staQ[j],
         Divided, ap'.since = ap.since,
         \A i \in 1 .. Len(staQ) :
           staQ[i].t \in {"MSG1", "MSG3"} /\ staQ[i].n > ap.since => staQ[i].r <= ap'.R_Counter
  PROVE  Divided'
<1> SUFFICES ASSUME NEW i \in 1 .. Len(staQ'), staQ'[i].t \in {"MSG1", "MSG3"}
             PROVE  /\ staQ'[i].n > ap.since =>
                         /\ staQ'[i].r <= ap'.R_Counter
                         /\ \A j \in i .. Len(staQ') : staQ'[j].t # "PEER_ASSOC_RSP"
                    /\ staQ'[i].n <= ap.since =>
                         \E j \in i .. Len(staQ') : staQ'[j].t = "PEER_ASSOC_RSP"
  BY DEF Divided, Rsp
<1>1. CASE i + d \in 1 .. Len(staQ) /\ staQ'[i] = staQ[i + d]
  <2>1. /\ staQ[i + d].n > ap.since =>
             \A j \in i + d .. Len(staQ) : staQ[j].t # "PEER_ASSOC_RSP"
        /\ staQ[i + d].n <= ap.since =>
             \E j \in i + d .. Len(staQ) : staQ[j].t = "PEER_ASSOC_RSP"
    BY <1>1 DEF Divided, Rsp
  <2>2. ASSUME staQ'[i].n > ap.since, NEW j \in i .. Len(staQ'), staQ'[j].t = "PEER_ASSOC_RSP"
        PROVE  FALSE
    <3>1. j + d \in i + d .. Len(staQ) /\ staQ[j + d].t = "PEER_ASSOC_RSP"
      BY <2>2
    <3>2. QED
      BY <3>1, <1>1, <2>1, <2>2
  <2>3. ASSUME staQ'[i].n <= ap.since
        PROVE  \E j \in i .. Len(staQ') : staQ'[j].t = "PEER_ASSOC_RSP"
    <3>1. PICK j \in i + d .. Len(staQ) : staQ[j].t = "PEER_ASSOC_RSP"
      BY <1>1, <2>1, <2>3
    <3>2. j - d \in i .. Len(staQ') /\ staQ'[j - d] = staQ[j]
      OBVIOUS
    <3>3. QED
      BY <3>1, <3>2
  <2>4. staQ'[i].n > ap.since => staQ'[i].r <= ap'.R_Counter
    BY <1>1
  <2>5. QED
    BY <2>2, <2>3, <2>4
<1>2. CASE /\ i = Len(staQ') /\ staQ'[i].t # "PEER_ASSOC_RSP"
           /\ staQ'[i].n > ap.since /\ ~(staQ'[i].n <= ap.since)
           /\ staQ'[i].r <= ap'.R_Counter
  BY <1>2
<1>3. QED
  BY <1>1, <1>2

\* Such a step leaves the handshake's invariants alone.
LEMMA BesideInd ==
  ASSUME TypeOK, Handshake, NothingNew, StaKept, ApKept, ap' \in ApEntries
  PROVE  Handshake'
<1> USE DEF AS_NOTUSE, AS_INITPSK, AS_PTKSTART, AS_PTKINIT_NEGOTIATING, AS_PTKINITDONE
<1>0. /\ sta \in StaEntries /\ ap \in ApEntries /\ nonce \in Nat /\ nonce' = nonce
      /\ sta' \in StaEntries /\ Keys' = Keys
  BY StaKeptFields DEF TypeOK, EntryTypes, NothingNew, Keys
<1>a. /\ ap.WpaState \in 0 .. 4 /\ ap'.WpaState \in 0 .. 4 /\ ap.since \in Nat
      /\ ap.R_Counter \in Nat /\ ap.PTK \in Nat \X Nat /\ ap.Key \in Nat \X Nat
      /\ sta.PTK \in Nat \X Nat /\ sta.since \in Nat /\ sta.R_Counter \in Nat
      /\ sta.WpaState \in 0 .. 4 /\ sta.Key \in Nat \X Nat
  BY <1>0 DEF ApEntries, StaEntries
<1>1. PICK d \in 0 .. 1 :
        /\ \A i \in 1 .. Len(staQ') : Fine(staQ'[i]) \/ (i + d \in 1 .. Len(staQ) /\ staQ'[i] = staQ[i + d])
        /\ \A j \in d + 1 .. Len(staQ) : j - d \in 1 .. Len(staQ') /\ staQ'[j - d] = staQ[j]
        /\ Len(staQ) \in Nat /\ Len(staQ') \in Nat
  BY QuietOrigin DEF NothingNew
<1>2. PICK e \in 0 .. 1 :
        /\ \A i \in 1 .. Len(apQ') : Fine(apQ'[i]) \/ (i + e \in 1 .. Len(apQ) /\ apQ'[i] = apQ[i + e])
        /\ Len(apQ) \in Nat /\ Len(apQ') \in Nat
  BY QuietOrigin DEF NothingNew
<1>3. \A i \in 1 .. Len(staQ') :
        staQ'[i].t \in KeyFrames \/ staQ'[i].t = "PEER_ASSOC_RSP" \/ (staQ'[i].t = "ASSOC_CONF" /\ staQ'[i].ok)
          => i + d \in 1 .. Len(staQ) /\ staQ'[i] = staQ[i + d]
  BY <1>1 DEF Fine, Plain
<1>4. \A i \in 1 .. Len(apQ') :
        apQ'[i].t \in KeyFrames => i + e \in 1 .. Len(apQ) /\ apQ'[i] = apQ[i + e]
  BY <1>2 DEF Fine, Plain
<1>5. "MSG1" \in KeyFrames /\ "MSG2" \in KeyFrames /\ "MSG3" \in KeyFrames /\ "MSG4" \in KeyFrames
  BY DEF KeyFrames
<1>6. StaFrames'
  BY <1>0, <1>3, <1>5 DEF Handshake, StaFrames
<1>7. ApFrames'
  BY <1>0, <1>4, <1>5 DEF Handshake, ApFrames
<1>8. StaKeys'
  BY <1>0, <1>a, StaKeptFields, NoKeyPair DEF Handshake, StaKeys
<1>9. ApKeys'
  BY <1>0, <1>a, NoStationFields, NoKeyPair DEF Handshake, ApKeys, ApKept
<1>10. Opened'
  <2>1. \A i \in 1 .. Len(apQ') :
          apQ'[i].t = "MSG4" => apQ'[i].k[2] > 0 /\ (apQ'[i].k = sta.PTK => sta.WpaState = AS_PTKINITDONE)
    BY <1>4, <1>5 DEF Handshake, Opened, ApFrames
  <2>2. ap'.PortSecured => ap.PortSecured /\ ap'.Key = ap.Key /\ ap.Key[2] > 0
    BY NoStationFields DEF ApKept, Handshake, ApKeys
  <2>3. CASE sta'.PTK = sta.PTK /\ sta'.WpaState = sta.WpaState
             /\ (sta.WpaState = AS_PTKINITDONE => sta'.PortSecured = sta.PortSecured)
    BY <2>1, <2>2, <2>3 DEF Handshake, Opened
  <2>4. CASE sta'.PTK = NoKey /\ sta'.WpaState = AS_NOTUSE
    BY <2>1, <2>2, <2>4, NoKeyPair DEF Opened
  <2>5. QED
    BY <1>0, <2>3, <2>4, StaKeptFields
<1>11. ClosedFirst'
  <2> SUFFICES ASSUME NEW j \in 1 .. Len(staQ'), staQ'[j].t = "ASSOC_CONF", staQ'[j].ok
               PROVE  /\ sta'.WpaState # AS_PTKINITDONE
                      /\ \A i \in 1 .. j : staQ'[i].t = "MSG3" => staQ'[i].k # sta'.PTK
    BY DEF ClosedFirst, Confirmed
  <2>1. j + d \in 1 .. Len(staQ) /\ Confirmed(j + d)
    BY <1>3 DEF Confirmed
  <2>2. /\ sta.WpaState # AS_PTKINITDONE
        /\ \A i \in 1 .. j + d : staQ[i].t = "MSG3" => staQ[i].k # sta.PTK
    BY <2>1 DEF Handshake, ClosedFirst
  <2>3. \A i \in 1 .. j : staQ'[i].t = "MSG3" =>
           /\ i + d \in 1 .. j + d /\ staQ'[i].k = staQ[i + d].k /\ staQ[i + d].t = "MSG3"
           /\ staQ'[i].k[2] > 0
    BY <1>1, <1>3, <1>5 DEF Handshake, StaFrames
  <2>4. CASE sta'.PTK = sta.PTK /\ sta'.WpaState = sta.WpaState
    BY <2>2, <2>3, <2>4
  <2>5. CASE sta'.PTK = NoKey /\ sta'.WpaState = AS_NOTUSE
    BY <2>3, <2>5, NoKeyPair
  <2>6. QED
    BY <1>0, <2>4, <2>5, StaKeptFields
<1>12. Epoch'
  <2> SUFFICES ASSUME Live' PROVE Divided' /\ Waiting' /\ Answered' /\ Agreed'
    BY DEF Epoch
  <2>1. /\ ap'.WpaState = ap.WpaState /\ ap'.R_Counter = ap.R_Counter /\ ap'.Key = ap.Key
        /\ ap'.PortSecured = ap.PortSecured /\ ap'.since = ap.since
    BY NoStationFields DEF ApKept, Live
  <2>2. Live
    BY NoStationFields DEF ApKept, Live
  <2>3. Divided /\ Waiting /\ Answered /\ Agreed
    BY <2>2 DEF Handshake, Epoch
  <2>4. \/ /\ sta'.Sst = sta.Sst /\ sta'.R_Counter = sta.R_Counter
           /\ sta'.PTK = sta.PTK /\ sta'.Key = sta.Key
        \/ sta'.Sst = "NONE" /\ sta'.PTK[1] = 0
    BY <1>0, StaKeptFields, NoKeyPair
  <2>5. Divided'
    <3>1. \A i \in 1 .. Len(staQ) :
            staQ[i].t \in {"MSG1", "MSG3"} /\ staQ[i].n > ap.since => staQ[i].r <= ap'.R_Counter
      BY <2>1, <2>3 DEF Divided
    <3>2. QED
      BY <2>1, <2>3, <3>1, <1>1, <1>3, <1>5, DividedMoves
  <2>6. Untouched => Untouched'
    <3>1. ASSUME Untouched, NEW i \in 1 .. Len(apQ'), apQ'[i].t \in {"MSG2", "MSG4"}
          PROVE  apQ'[i].k[1] <= ap.since
      <4>1. i + e \in 1 .. Len(apQ) /\ apQ'[i] = apQ[i + e]
        BY <1>4, <1>5, <3>1
      <4>2. QED
        BY <4>1, <3>1 DEF Untouched
    <3>2. ASSUME Untouched PROVE sta'.PTK[1] <= ap.since
      BY <3>2, <2>4, <1>a DEF Untouched
    <3>3. QED
      BY <3>1, <3>2, <2>1 DEF Untouched
  <2>7. ~NoRsp' => ~NoRsp
    BY <1>3 DEF NoRsp, Rsp
  <2>8. Waiting'
    BY <2>1, <2>3, <2>6, <2>7, <1>3, <1>5 DEF Waiting
  <2>9. Answered'
    <3>1. sta'.PTK[1] > ap.since => sta'.R_Counter <= ap.R_Counter
      BY <2>3, <2>4, <1>a DEF Answered
    <3>2. ASSUME NEW i \in 1 .. Len(apQ'), apQ'[i].t = "MSG4", apQ'[i].k[1] > ap.since,
                 sta'.Sst = "ASSOC"
          PROVE  /\ sta'.PTK[1] > ap.since /\ apQ'[i].r <= sta'.R_Counter
                 /\ apQ'[i].r = sta'.R_Counter => sta'.Key = apQ'[i].k
      <4>1. i + e \in 1 .. Len(apQ) /\ apQ'[i] = apQ[i + e]
        BY <1>4, <1>5, <3>2
      <4>2. /\ sta'.Sst = sta.Sst /\ sta'.R_Counter = sta.R_Counter
            /\ sta'.PTK = sta.PTK /\ sta'.Key = sta.Key
        BY <2>4, <3>2
      <4>3. QED
        BY <4>1, <4>2, <2>3, <3>2 DEF Answered
    <3>3. QED
      BY <3>1, <3>2, <2>1 DEF Answered
  <2>10. Agreed'
    BY <2>1, <2>3, <2>4 DEF Agreed
  <2>11. QED
    BY <2>5, <2>8, <2>9, <2>10
<1>13. QED
  BY <1>6, <1>7, <1>8, <1>9, <1>10, <1>11, <1>12 DEF Handshake

-----------------------------------------------------------------------------
(***************************************************************************)
(* The station's steps of the handshake.                                   *)
(***************************************************************************)
\* One message more, behind what is left.
Gains(q, p, d, m) == Follows(q, p, d) /\ Len(p) = Len(q) - d + 1 /\ p[Len(p)] = m

\* The ways a queue gains one message.
LEMMA Gained ==
  ASSUME NEW q \in Seq(Messages), NEW m \in Messages
  PROVE  /\ Gains(q, Append(q, m), 0, m) /\ Gains(q, q \o <<m>>, 0, m)
         /\ q # <<>> => Gains(q, Tail(q) \o <<m>>, 1, m)
<1>0. Len(q) \in Nat /\ <<m>> \in Seq(Messages) /\ Len(<<m>>) = 1 /\ <<m>>[1] = m
  BY LenProperties
<1>1. Gains(q, Append(q, m), 0, m)
  BY <1>0, AppendFollows DEF Gains
<1>2. Gains(q, q \o <<m>>, 0, m)
  <2> DEFINE p == q \o <<m>>
  <2>1. /\ Follows(q, p, 0) /\ Len(p) = Len(q) + 1
        /\ \A i \in Len(q) + 1 .. Len(p) : p[i] = <<m>>[i - Len(q)]
    BY <1>0, SendFollows
  <2> HIDE DEF p
  <2>2. p[Len(p)] = <<m>>[1]
    BY <2>1, <1>0
  <2>3. Gains(q, p, 0, m)
    BY <2>1, <2>2, <1>0 DEF Gains
  <2>4. QED
    BY <2>3 DEF p
<1>3. ASSUME q # <<>> PROVE Gains(q, Tail(q) \o <<m>>, 1, m)
  <2> DEFINE p == Tail(q) \o <<m>>
  <2>1. /\ Follows(q, p, 1) /\ Len(p) = Len(q) - 1 + 1
        /\ \A i \in Len(q) .. Len(p) : p[i] = <<m>>[i - (Len(q) - 1)]
    BY <1>0, <1>3, TakeFollows
  <2> HIDE DEF p
  <2>2. p[Len(p)] = <<m>>[1]
    BY <2>1, <1>0
  <2>3. Gains(q, p, 1, m)
    BY <2>1, <2>2, <1>0 DEF Gains
  <2>4. QED
    BY <2>3 DEF p
<1>4. QED
  BY <1>1, <1>2, <1>3

\* Where the messages come from then.
Comes(q, p, d, m) ==
  /\ \A i \in 1 .. Len(p) :
       \/ i = Len(p) /\ p[i] = m
       \/ i < Len(p) /\ i + d \in 1 .. Len(q) /\ p[i] = q[i + d]
  /\ \A j \in d + 1 .. Len(q) : j - d \in 1 .. Len(p) - 1 /\ p[j - d] = q[j]
  /\ Len(q) \in Nat /\ Len(p) \in Nat /\ Len(p) > 0

\* Where each message of a queue that gained one comes from.
LEMMA GainOrigin ==
  ASSUME NEW q, NEW p, NEW d \in 0 .. 1, NEW m, Gains(q, p, d, m)
  PROVE  Comes(q, p, d, m)
<1>1. Len(q) \in Nat /\ Len(p) \in Nat /\ Len(p) = Len(q) - d + 1 /\ Len(q) >= d /\ p[Len(p)] = m
      /\ \A i \in 1 .. Len(q) - d : p[i] = q[i + d]
  BY LenProperties DEF Follows, Gains
<1>2. \A i \in 1 .. Len(p) :
        \/ i = Len(p) /\ p[i] = m
        \/ i < Len(p) /\ i + d \in 1 .. Len(q) /\ p[i] = q[i + d]
  BY <1>1
<1>3. \A j \in d + 1 .. Len(q) : j - d \in 1 .. Len(p) - 1 /\ p[j - d] = q[j]
  <2> TAKE j \in d + 1 .. Len(q)
  <2>1. j - d \in 1 .. Len(q) - d /\ (j - d) + d = j
    BY <1>1
  <2>2. p[j - d] = q[(j - d) + d]
    BY <2>1, <1>1
  <2>3. QED
    BY <2>1, <2>2, <1>1
<1>4. QED
  BY <1>1, <1>2, <1>3 DEF Comes

\* And when only the head goes.
Drops(q, p) ==
  /\ p \in Seq(Messages)
  /\ \A i \in 1 .. Len(p) : i + 1 \in 1 .. Len(q) /\ p[i] = q[i + 1]
  /\ \A j \in 1 + 1 .. Len(q) : j - 1 \in 1 .. Len(p) /\ p[j - 1] = q[j]
  /\ Len(q) \in Nat /\ Len(p) \in Nat /\ Len(p) = Len(q) - 1

\* The tail drops the head.
LEMMA Dropped ==
  ASSUME NEW q \in Seq(Messages), q # <<>>
  PROVE  Drops(q, Tail(q)) /\ Drops(q, Tail(q) \o <<>>)
<1>1. ASSUME NEW p, Follows(q, p, 1), Len(p) = Len(q) - 1 PROVE Drops(q, p)
  <2>1. Len(q) \in Nat /\ Len(p) \in Nat /\ \A i \in 1 .. Len(q) - 1 : p[i] = q[i + 1]
    BY <1>1, LenProperties DEF Follows
  <2>2. \A i \in 1 .. Len(p) : i + 1 \in 1 .. Len(q) /\ p[i] = q[i + 1]
    BY <2>1, <1>1
  <2>3. \A j \in 1 + 1 .. Len(q) : j - 1 \in 1 .. Len(p) /\ p[j - 1] = q[j]
    <3> TAKE j \in 1 + 1 .. Len(q)
    <3>1. j - 1 \in 1 .. Len(q) - 1 /\ (j - 1) + 1 = j
      BY <2>1
    <3>2. p[j - 1] = q[(j - 1) + 1]
      BY <3>1, <2>1
    <3>3. QED
      BY <3>1, <3>2, <1>1
  <2>4. QED
    BY <2>1, <2>2, <2>3, <1>1 DEF Drops, Follows
<1>2. Drops(q, Tail(q))
  BY <1>1, TailFollows
<1>3. Drops(q, Tail(q) \o <<>>)
  <2> DEFINE p == Tail(q) \o <<>>
  <2>1. <<>> \in Seq(Messages) /\ Len(<<>>) = 0
    BY EmptySeq
  <2>2. Follows(q, p, 1) /\ Len(p) = Len(q) - 1 + 0
    BY <2>1, TakeFollows
  <2>3. Len(q) \in Nat
    BY LenProperties
  <2> HIDE DEF p
  <2>4. Drops(q, p)
    BY <1>1, <2>2, <2>3
  <2>5. QED
    BY <2>4 DEF p
<1>4. QED
  BY <1>2, <1>3

\* What the invariant says of the frame at the head of the station's queue.
LEMMA HeadDivided ==
  ASSUME TypeOK, Handshake, Live, staQ # <<>>, staQ[1].t \in {"MSG1", "MSG3"}
  PROVE  /\ staQ[1].n \in Nat /\ staQ[1].r \in Nat
         /\ staQ[1].n > ap.since => staQ[1].r <= ap.R_Counter
         /\ staQ[1].n > ap.since <=> NoRsp
         /\ ap.WpaState < AS_PTKSTART => staQ[1].n <= ap.since
<1>1. Len(staQ) \in Nat /\ 1 \in 1 .. Len(staQ) /\ ap.since \in Nat
  BY EmptySeq, LenProperties DEF TypeOK, QueueTypes, EntryTypes, ApEntries
<1>2. staQ[1].n \in Nat /\ staQ[1].r \in Nat
  BY <1>1 DEF Handshake, StaFrames, TypeOK, EntryTypes
<1>3. Divided /\ Waiting
  BY DEF Handshake, Epoch
<1>4. /\ staQ[1].n > ap.since => staQ[1].r <= ap.R_Counter /\ \A j \in 1 .. Len(staQ) : ~Rsp(j)
      /\ staQ[1].n <= ap.since => \E j \in 1 .. Len(staQ) : Rsp(j)
  BY <1>1, <1>3 DEF Divided
<1>5. ap.WpaState < AS_PTKSTART => staQ[1].n <= ap.since
  BY <1>1, <1>3 DEF Waiting
<1>6. QED
  BY <1>1, <1>2, <1>4, <1>5 DEF NoRsp

\* WpaState stays in its enumeration.
LEMMA States ==
  \A w \in {AS_NOTUSE, AS_INITPSK, AS_PTKSTART, AS_PTKINIT_NEGOTIATING, AS_PTKINITDONE} :
    w \in AS_NOTUSE .. AS_PTKINITDONE
BY DEF AS_NOTUSE, AS_INITPSK, AS_PTKSTART, AS_PTKINIT_NEGOTIATING, AS_PTKINITDONE

\* The fields of an entry that starts over.
LEMMA AssociatedFields ==
  ASSUME sta \in StaEntries, nonce \in Nat
  PROVE  LET e == Associated(sta) IN
         /\ e \in StaEntries /\ e.Sst = "ASSOC" /\ e.WpaState = AS_INITPSK /\ e.R_Counter = 0
         /\ e.PTK = NoKey /\ e.Key = NoKey /\ e.PortSecured = sta.PortSecured /\ e.since = nonce
<1>1. /\ sta.PortSecured \in BOOLEAN /\ AS_INITPSK \in AS_NOTUSE .. AS_PTKINITDONE
      /\ NoEntry \in StaEntries
  BY States, NoEntryFields DEF StaEntries
<1> DEFINE f == Associated(sta)
<1>2. f = [NoEntry EXCEPT !.Sst = "ASSOC", !.WpaState = AS_INITPSK,
                          !.PortSecured = sta.PortSecured, !.since = nonce]
  BY DEF Associated
<1> HIDE DEF f
<1>3. f \in StaEntries
  BY <1>1, <1>2 DEF StaEntries
<1>4. /\ f.Sst = "ASSOC" /\ f.WpaState = AS_INITPSK
      /\ f.R_Counter = NoEntry.R_Counter /\ f.PTK = NoEntry.PTK /\ f.Key = NoEntry.Key
      /\ f.PortSecured = sta.PortSecured /\ f.since = nonce
  BY <1>1, <1>2 DEF StaEntries
<1>5. QED
  BY <1>3, <1>4, NoEntryFields DEF f

\* A new association of the station: all keys are gone, none can be in use yet.
LEMMA AssociatedInd ==
  ASSUME TypeOK, Handshake, staQ # <<>>, staQ[1].t = "PEER_ASSOC_RSP",
         Gains(staQ, staQ', 1, Conf("ASSOC_CONF", TRUE)),
         UNCHANGED <<apQ, nonce, ap>>, sta' = Associated(sta)
  PROVE  Handshake' /\ EntryTypes'
<1> USE DEF AS_NOTUSE, AS_INITPSK, AS_PTKSTART, AS_PTKINIT_NEGOTIATING, AS_PTKINITDONE
<1>0. /\ sta \in StaEntries /\ ap \in ApEntries /\ nonce \in Nat /\ nonce' = nonce /\ Keys' = Keys
      /\ apQ' = apQ /\ ap' = ap
  BY DEF TypeOK, EntryTypes, Keys
<1>a. /\ sta' \in StaEntries /\ sta'.Sst = "ASSOC" /\ sta'.WpaState = AS_INITPSK
      /\ sta'.PTK = NoKey /\ sta'.Key = NoKey /\ sta'.PortSecured = sta.PortSecured
      /\ sta'.since = nonce
  BY <1>0, AssociatedFields
<1>b. ap.WpaState \in 0 .. 4 /\ ap.since \in Nat /\ ap.R_Counter \in Nat
  BY <1>0 DEF ApEntries
<1>c. Conf("ASSOC_CONF", TRUE).t = "ASSOC_CONF"
  BY DEF Conf
<1>d. Comes(staQ, staQ', 1, Conf("ASSOC_CONF", TRUE))
  <2>1. 1 \in 0 .. 1
    OBVIOUS
  <2>2. QED
    BY <2>1, GainOrigin, Zenon
<1>1. /\ \A i \in 1 .. Len(staQ') :
           \/ i = Len(staQ') /\ staQ'[i].t = "ASSOC_CONF"
           \/ i < Len(staQ') /\ i + 1 \in 1 .. Len(staQ) /\ staQ'[i] = staQ[i + 1]
      /\ \A j \in 1 + 1 .. Len(staQ) : j - 1 \in 1 .. Len(staQ') - 1 /\ staQ'[j - 1] = staQ[j]
      /\ Len(staQ) \in Nat /\ Len(staQ') \in Nat
  BY <1>c, <1>d DEF Comes
<1>2. EntryTypes'
  BY <1>0, <1>a, NoKeyPair DEF TypeOK, EntryTypes, Keys
<1>3. StaFrames'
  BY <1>0, <1>1, SMTT(30) DEF Handshake, StaFrames
<1>4. ApFrames' /\ ApKeys'
  BY <1>0 DEF Handshake, ApFrames, ApKeys
<1>5. StaKeys'
  BY <1>a DEF StaKeys
<1>6. Opened'
  <2>1. \A i \in 1 .. Len(apQ) : apQ[i].t = "MSG4" => apQ[i].k # NoKey
    BY NoKeyPair DEF Handshake, ApFrames
  <2>2. ap.PortSecured => ap.Key # NoKey
    BY NoKeyPair DEF Handshake, ApKeys
  <2>3. QED
    BY <2>1, <2>2, <1>0, <1>a DEF Opened
<1>7. ClosedFirst'
  <2>1. \A i \in 1 .. Len(staQ') : staQ'[i].t = "MSG3" => staQ'[i].k # NoKey
    <3>1. \A i \in 1 .. Len(staQ) : staQ[i].t = "MSG3" => staQ[i].k # NoKey
      <4> TAKE i \in 1 .. Len(staQ)
      <4>1. staQ[i].t = "MSG3" => staQ[i].k[2] > 0
        BY DEF Handshake, StaFrames
      <4>2. QED
        BY <4>1, NoKeyPair
    <3>2. QED
      BY <1>1, <3>1
  <2>2. \A j \in 1 .. Len(staQ') : \A i \in 1 .. j : i \in 1 .. Len(staQ')
    BY <1>1
  <2>3. QED
    BY <2>1, <2>2, <1>a DEF ClosedFirst
<1>8. Epoch'
  <2> SUFFICES ASSUME Live PROVE Divided' /\ Waiting' /\ Answered' /\ Agreed'
    BY <1>0 DEF Epoch, Live
  <2>1. Divided /\ Waiting /\ ~NoRsp
    BY <1>1, EmptySeq DEF Handshake, Epoch, NoRsp, Rsp, TypeOK, QueueTypes
  <2>2. Untouched /\ ap.WpaState <= AS_PTKSTART
    BY <2>1 DEF Waiting
  <2>3. Divided'
    <3>1. \A i \in 1 .. Len(staQ) :
            staQ[i].t \in {"MSG1", "MSG3"} /\ staQ[i].n > ap.since => staQ[i].r <= ap'.R_Counter
      BY <1>0, <2>1 DEF Divided
    <3>2. \A i \in 1 .. Len(staQ') : staQ'[i].t \in {"MSG1", "MSG3", "PEER_ASSOC_RSP"} =>
            i + 1 \in 1 .. Len(staQ) /\ staQ'[i] = staQ[i + 1]
      BY <1>1
    <3>3. QED
      BY <1>0, <1>1, <2>1, <3>1, <3>2, DividedMoves
  <2>4. Untouched'
    BY <1>0, <1>a, <1>b, <2>2, NoKeyPair DEF Untouched
  <2>5. Waiting'
    BY <1>0, <1>1, <2>1, <2>2, <2>4 DEF Waiting
  <2>6. Answered'
    <3>1. \A i \in 1 .. Len(apQ) : apQ[i].t = "MSG4" => ~(apQ[i].k[1] > ap.since)
      <4> TAKE i \in 1 .. Len(apQ)
      <4>1. apQ[i].t = "MSG4" => apQ[i].k[1] \in Nat /\ apQ[i].k[1] <= ap.since
        BY <2>2, <1>0 DEF Untouched, Handshake, ApFrames, Keys
      <4>2. QED
        BY <4>1, <1>b
    <3>2. ~(NoKey[1] > ap.since)
      BY <1>b, NoKeyPair
    <3>3. QED
      BY <1>0, <1>a, <3>1, <3>2 DEF Answered
  <2>7. Agreed'
    BY <1>0, <1>b, <2>2 DEF Agreed
  <2>8. QED
    BY <2>3, <2>5, <2>6, <2>7
<1>9. QED
  BY <1>2, <1>3, <1>4, <1>5, <1>6, <1>7, <1>8 DEF Handshake

\* The fields of the entry after message 1 and after message 3.
LEMMA Message1Fields ==
  ASSUME sta \in StaEntries, NEW r \in Nat, NEW key \in Nat \X Nat,
         sta' = [sta EXCEPT !.R_Counter = r, !.PTK = key, !.WpaState = AS_PTKINIT_NEGOTIATING]
  PROVE  /\ sta' \in StaEntries /\ sta'.Sst = sta.Sst /\ sta'.WpaState = AS_PTKINIT_NEGOTIATING
         /\ sta'.R_Counter = r /\ sta'.PTK = key /\ sta'.Key = sta.Key
         /\ sta'.PortSecured = sta.PortSecured /\ sta'.since = sta.since
<1>1. AS_PTKINIT_NEGOTIATING \in AS_NOTUSE .. AS_PTKINITDONE
  BY States
<1>2. sta' \in StaEntries
  BY <1>1 DEF StaEntries
<1>3. QED
  BY <1>2 DEF StaEntries

\* The fields once the key is installed.
LEMMA InstalledFields ==
  ASSUME sta \in StaEntries, NEW r \in Nat, sta' = Installed([sta EXCEPT !.R_Counter = r])
  PROVE  /\ sta' \in StaEntries /\ sta'.Sst = sta.Sst /\ sta'.WpaState = AS_PTKINITDONE
         /\ sta'.R_Counter = r /\ sta'.PTK = sta.PTK /\ sta'.Key = sta.PTK
         /\ sta'.PortSecured = TRUE /\ sta'.since = sta.since
<1> DEFINE e == [sta EXCEPT !.R_Counter = r]
<1>1. /\ e \in StaEntries /\ e.Sst = sta.Sst /\ e.PTK = sta.PTK /\ e.since = sta.since
      /\ e.R_Counter = r
  BY DEF StaEntries
<1>2. sta' = [e EXCEPT !.WpaState = AS_PTKINITDONE, !.Key = e.PTK, !.PortSecured = TRUE]
  BY DEF Installed
<1> HIDE DEF e
<1>3. AS_PTKINITDONE \in AS_NOTUSE .. AS_PTKINITDONE
  BY States
<1>4. sta' \in StaEntries
  BY <1>1, <1>2, <1>3 DEF StaEntries
<1>5. /\ sta'.Sst = e.Sst /\ sta'.WpaState = AS_PTKINITDONE
      /\ sta'.R_Counter = e.R_Counter /\ sta'.PTK = e.PTK /\ sta'.Key = e.PTK
      /\ sta'.PortSecured = TRUE /\ sta'.since = e.since
  BY <1>1, <1>2 DEF StaEntries
<1>6. QED
  BY <1>1, <1>4, <1>5

\* Message 1 gives the station a key no frame and no side has yet.
LEMMA Message1Ind ==
  ASSUME TypeOK, Handshake, staQ # <<>>, staQ[1].t = "MSG1", StaSane(staQ[1]),
         Drops(staQ, staQ'), NEW key, key = <<staQ[1].n, nonce + 1>>,
         Gains(apQ, apQ', 0, KeyFrame("MSG2", staQ[1].r, nonce + 1, key)),
         nonce' = nonce + 1, UNCHANGED ap,
         sta' = [sta EXCEPT !.R_Counter = staQ[1].r, !.PTK = key,
                            !.WpaState = AS_PTKINIT_NEGOTIATING]
  PROVE  Handshake' /\ EntryTypes'
<1> USE DEF AS_NOTUSE, AS_INITPSK, AS_PTKSTART, AS_PTKINIT_NEGOTIATING, AS_PTKINITDONE
<1> DEFINE m == staQ[1]
           two == KeyFrame("MSG2", m.r, nonce + 1, key)
<1>0. /\ sta \in StaEntries /\ ap \in ApEntries /\ nonce \in Nat /\ ap' = ap
      /\ sta.since <= nonce /\ sta.since \in Nat /\ ap.since \in Nat /\ sta.R_Counter \in Nat
      /\ ap.WpaState \in 0 .. 4 /\ ap.R_Counter \in Nat /\ ap.ANonce \in Nat
  BY DEF TypeOK, EntryTypes, StaEntries, ApEntries
<1>1. /\ \A i \in 1 .. Len(staQ') : i + 1 \in 1 .. Len(staQ) /\ staQ'[i] = staQ[i + 1]
      /\ \A j \in 1 + 1 .. Len(staQ) : j - 1 \in 1 .. Len(staQ') /\ staQ'[j - 1] = staQ[j]
      /\ Len(staQ) \in Nat /\ Len(staQ') \in Nat /\ Len(staQ') = Len(staQ) - 1
  BY DEF Drops
<1>2. 1 \in 1 .. Len(staQ)
  BY <1>1
<1>3. m.r \in Nat /\ m.n \in 1 .. nonce
  BY <1>2 DEF Handshake, StaFrames
<1>4. key \in Nat \X Nat /\ key[1] = m.n /\ key[2] = nonce + 1
  BY <1>0, <1>3
<1>5. /\ sta' \in StaEntries /\ sta'.Sst = sta.Sst /\ sta'.WpaState = AS_PTKINIT_NEGOTIATING
      /\ sta'.R_Counter = m.r /\ sta'.PTK = key /\ sta'.Key = sta.Key
      /\ sta'.PortSecured = sta.PortSecured /\ sta'.since = sta.since
  BY <1>0, <1>3, <1>4, Message1Fields
<1>6. sta.Sst = "ASSOC" /\ m.r > sta.R_Counter
  BY DEF StaSane
<1>7. Comes(apQ, apQ', 0, two)
  BY GainOrigin
<1>8. two.t = "MSG2" /\ two.r = m.r /\ two.n = nonce + 1 /\ two.k = key
  BY DEF KeyFrame
<1> HIDE DEF two, m
<1>9. \A i \in 1 .. Len(apQ') :
        \/ apQ'[i] = two
        \/ i \in 1 .. Len(apQ) /\ apQ'[i] = apQ[i]
  BY <1>7 DEF Comes
<1>10. \A k \in Keys : k \in Keys' /\ k[1] <= nonce /\ k[2] <= nonce /\ k[1] \in Nat /\ k[2] \in Nat
  BY <1>0 DEF Keys
<1>11. key \in Keys'
  BY <1>0, <1>3 DEF Keys, m
<1>12. EntryTypes'
  BY <1>0, <1>5, <1>10, <1>11 DEF TypeOK, EntryTypes
<1>13. StaFrames'
  BY <1>0, <1>1, <1>10, SMTT(30) DEF Handshake, StaFrames
<1>14. ApFrames'
  <2> SUFFICES ASSUME NEW i \in 1 .. Len(apQ')
               PROVE  /\ apQ'[i].t \in {"MSG2", "MSG4"} =>
                           /\ apQ'[i].r \in Nat /\ apQ'[i].k \in Keys'
                           /\ apQ'[i].k[1] > 0 /\ apQ'[i].k[2] > 0
                      /\ apQ'[i].t = "MSG2" => apQ'[i].n = apQ'[i].k[2]
    BY DEF ApFrames
  <2>1. CASE apQ'[i] = two
    BY <2>1, <1>0, <1>3, <1>4, <1>8, <1>11
  <2>2. CASE i \in 1 .. Len(apQ) /\ apQ'[i] = apQ[i]
    BY <2>2, <1>10 DEF Handshake, ApFrames
  <2>3. QED
    BY <2>1, <2>2, <1>9
<1>15. StaKeys'
  BY <1>0, <1>3, <1>4, <1>5, <1>6 DEF Handshake, StaKeys
<1>16. ApKeys'
  BY <1>0 DEF Handshake, ApKeys
<1>17. Opened'
  <2>1. \A i \in 1 .. Len(apQ') : apQ'[i].t = "MSG4" => apQ'[i].k # key
    <3> SUFFICES ASSUME NEW i \in 1 .. Len(apQ'), apQ'[i].t = "MSG4" PROVE apQ'[i].k # key
      OBVIOUS
    <3>1. i \in 1 .. Len(apQ) /\ apQ'[i] = apQ[i]
      BY <1>8, <1>9
    <3>2. apQ[i].k[2] <= nonce /\ apQ[i].k[2] \in Nat
      BY <3>1, <1>10 DEF Handshake, ApFrames
    <3>3. QED
      BY <3>1, <3>2, <1>0, <1>4
  <2>2. ap.Key # key
    <3>1. ap.Key[2] <= nonce /\ ap.Key[2] \in Nat
      BY <1>10 DEF TypeOK, EntryTypes
    <3>2. QED
      BY <3>1, <1>0, <1>4
  <2>3. QED
    BY <2>1, <2>2, <1>0, <1>5 DEF Opened
<1>18. ClosedFirst'
  <2>1. \A i \in 1 .. Len(staQ') : staQ'[i].t = "MSG3" => staQ'[i].k # key
    <3> SUFFICES ASSUME NEW i \in 1 .. Len(staQ'), staQ'[i].t = "MSG3" PROVE staQ'[i].k # key
      OBVIOUS
    <3>1. i + 1 \in 1 .. Len(staQ) /\ staQ'[i] = staQ[i + 1]
      BY <1>1
    <3>2. staQ[i + 1].k[2] <= nonce /\ staQ[i + 1].k[2] \in Nat
      BY <3>1, <1>10 DEF Handshake, StaFrames
    <3>3. QED
      BY <3>1, <3>2, <1>0, <1>4
  <2>2. \A j \in 1 .. Len(staQ') : \A i \in 1 .. j : i \in 1 .. Len(staQ')
    BY <1>1
  <2>3. QED
    BY <2>1, <2>2, <1>5 DEF ClosedFirst
<1>19. Epoch'
  <2> SUFFICES ASSUME Live PROVE Divided' /\ Waiting' /\ Answered' /\ Agreed'
    BY <1>0 DEF Epoch, Live
  <2>1. Divided /\ Waiting /\ Answered /\ Agreed
    BY DEF Handshake, Epoch
  <2>2. /\ m.n > ap.since => m.r <= ap.R_Counter
        /\ m.n > ap.since <=> NoRsp
        /\ ap.WpaState < AS_PTKSTART => m.n <= ap.since
    BY HeadDivided DEF m
  <2>3. Divided'
    <3>1. \A i \in 1 .. Len(staQ) :
            staQ[i].t \in {"MSG1", "MSG3"} /\ staQ[i].n > ap.since => staQ[i].r <= ap'.R_Counter
      BY <1>0, <2>1 DEF Divided
    <3>2. \A i \in 1 .. Len(staQ') : staQ'[i].t \in {"MSG1", "MSG3", "PEER_ASSOC_RSP"} =>
            i + 1 \in 1 .. Len(staQ) /\ staQ'[i] = staQ[i + 1]
      BY <1>1
    <3>3. QED
      BY <1>0, <1>1, <2>1, <3>1, <3>2, DividedMoves
  <2>4. Untouched /\ m.n <= ap.since => Untouched'
    <3> SUFFICES ASSUME Untouched, m.n <= ap.since PROVE Untouched'
      OBVIOUS
    <3>1. \A i \in 1 .. Len(apQ') : apQ'[i].t \in {"MSG2", "MSG4"} => apQ'[i].k[1] <= ap.since
      BY <1>4, <1>8, <1>9 DEF Untouched
    <3>2. QED
      BY <3>1, <1>0, <1>4, <1>5 DEF Untouched
  <2>5. Waiting'
    <3>1. ~NoRsp' => ~NoRsp
      BY <1>1 DEF NoRsp, Rsp
    <3>2. ~NoRsp' => Untouched' /\ ap.WpaState <= AS_PTKSTART
      BY <3>1, <2>1, <2>2, <2>4, <1>0, <1>3 DEF Waiting
    <3>3. ap.WpaState < AS_PTKSTART =>
            /\ Untouched'
            /\ \A i \in 1 .. Len(staQ') : staQ'[i].t \in {"MSG1", "MSG3"} => staQ'[i].n <= ap.since
      BY <2>1, <2>2, <2>4, <1>1 DEF Waiting
    <3>4. QED
      BY <3>2, <3>3, <1>0 DEF Waiting
  <2>6. Answered'
    <3>1. ASSUME NEW i \in 1 .. Len(apQ'), apQ'[i].t = "MSG4", apQ'[i].k[1] > ap.since
          PROVE  m.n > ap.since /\ apQ'[i].r <= m.r /\ apQ'[i].r # m.r
      <4>1. i \in 1 .. Len(apQ) /\ apQ'[i] = apQ[i]
        BY <1>8, <1>9, <3>1
      <4>2. apQ[i].r \in Nat /\ apQ[i].k[1] \in Nat
        BY <4>1, <3>1, <1>10 DEF Handshake, ApFrames
      <4>3. NoRsp
        BY <4>1, <4>2, <3>1, <2>1, <1>0, SMTT(30) DEF Waiting, Untouched
      <4>4. apQ[i].r <= sta.R_Counter
        BY <4>1, <3>1, <2>1, <1>6 DEF Answered
      <4>5. QED
        BY <4>1, <4>2, <4>3, <4>4, <2>2, <1>0, <1>3, <1>6, SMTT(30)
    <3>2. key[1] > ap.since => m.r <= ap.R_Counter
      BY <2>2, <1>4
    <3>3. QED
      BY <3>1, <3>2, <1>0, <1>4, <1>5 DEF Answered
  <2>7. Agreed'
    <3>1. ap.WpaState # AS_PTKINITDONE
      <4> SUFFICES ASSUME ap.WpaState = AS_PTKINITDONE PROVE FALSE
        OBVIOUS
      <4>1. NoRsp
        BY <2>1 DEF Waiting
      <4>2. m.r <= ap.R_Counter /\ sta.R_Counter = ap.R_Counter
        BY <4>1, <2>1, <2>2, <1>6 DEF Agreed
      <4>3. QED
        BY <4>2, <1>0, <1>3, <1>6
    <3>2. QED
      BY <3>1, <1>0 DEF Agreed
  <2>8. QED
    BY <2>3, <2>5, <2>6, <2>7
<1>20. QED
  BY <1>12, <1>13, <1>14, <1>15, <1>16, <1>17, <1>18, <1>19 DEF Handshake

\* Message 3 has the station install the key it has, and say so.
LEMMA Message3Ind ==
  ASSUME TypeOK, Handshake, staQ # <<>>, staQ[1].t = "MSG3", StaSane(staQ[1]),
         Drops(staQ, staQ'),
         Gains(apQ, apQ', 0, KeyFrame("MSG4", staQ[1].r, 0, sta.PTK)),
         nonce' = nonce, UNCHANGED ap,
         sta' = Installed([sta EXCEPT !.R_Counter = staQ[1].r])
  PROVE  Handshake' /\ EntryTypes'
<1> USE DEF AS_NOTUSE, AS_INITPSK, AS_PTKSTART, AS_PTKINIT_NEGOTIATING, AS_PTKINITDONE
<1> DEFINE m == staQ[1]
           four == KeyFrame("MSG4", m.r, 0, sta.PTK)
<1>0. /\ sta \in StaEntries /\ ap \in ApEntries /\ nonce \in Nat /\ ap' = ap
      /\ sta.since <= nonce /\ sta.since \in Nat /\ ap.since \in Nat /\ sta.R_Counter \in Nat
      /\ ap.WpaState \in 0 .. 4 /\ ap.R_Counter \in Nat /\ ap.ANonce \in Nat /\ Keys' = Keys
  BY DEF TypeOK, EntryTypes, StaEntries, ApEntries, Keys
<1>1. /\ \A i \in 1 .. Len(staQ') : i + 1 \in 1 .. Len(staQ) /\ staQ'[i] = staQ[i + 1]
      /\ \A j \in 1 + 1 .. Len(staQ) : j - 1 \in 1 .. Len(staQ') /\ staQ'[j - 1] = staQ[j]
      /\ Len(staQ) \in Nat /\ Len(staQ') \in Nat /\ Len(staQ') = Len(staQ) - 1
  BY DEF Drops
<1>2. 1 \in 1 .. Len(staQ)
  BY <1>1
<1>3. /\ m.r \in Nat /\ m.n \in 1 .. nonce
      /\ m.k \in Keys /\ m.k[1] = m.n /\ m.k[2] > 0
  BY <1>2 DEF Handshake, StaFrames
<1>4. sta.Sst = "ASSOC" /\ m.r > sta.R_Counter /\ m.k = sta.PTK
  BY DEF StaSane
<1>5. /\ sta' \in StaEntries /\ sta'.Sst = sta.Sst /\ sta'.WpaState = AS_PTKINITDONE
      /\ sta'.R_Counter = m.r /\ sta'.PTK = sta.PTK /\ sta'.Key = sta.PTK
      /\ sta'.PortSecured = TRUE /\ sta'.since = sta.since
  BY <1>0, <1>3, InstalledFields
<1>6. Comes(apQ, apQ', 0, four)
  BY GainOrigin
<1>7. four.t = "MSG4" /\ four.r = m.r /\ four.k = sta.PTK
  BY DEF KeyFrame
<1> HIDE DEF four, m
<1>8. \A i \in 1 .. Len(apQ') :
        \/ apQ'[i] = four
        \/ i \in 1 .. Len(apQ) /\ apQ'[i] = apQ[i]
  BY <1>6 DEF Comes
<1>9. \A k \in Keys : k[1] <= nonce /\ k[2] <= nonce /\ k[1] \in Nat /\ k[2] \in Nat
  BY <1>0 DEF Keys
<1>10. EntryTypes'
  BY <1>0, <1>5 DEF TypeOK, EntryTypes
<1>11. StaFrames'
  BY <1>0, <1>1, SMTT(30) DEF Handshake, StaFrames
<1>12. ApFrames'
  <2> SUFFICES ASSUME NEW i \in 1 .. Len(apQ')
               PROVE  /\ apQ'[i].t \in {"MSG2", "MSG4"} =>
                           /\ apQ'[i].r \in Nat /\ apQ'[i].k \in Keys
                           /\ apQ'[i].k[1] > 0 /\ apQ'[i].k[2] > 0
                      /\ apQ'[i].t = "MSG2" => apQ'[i].n = apQ'[i].k[2]
    BY <1>0 DEF ApFrames
  <2>1. CASE apQ'[i] = four
    BY <2>1, <1>0, <1>3, <1>4, <1>7
  <2>2. CASE i \in 1 .. Len(apQ) /\ apQ'[i] = apQ[i]
    BY <2>2 DEF Handshake, ApFrames
  <2>3. QED
    BY <2>1, <2>2, <1>8
<1>13. StaKeys'
  <2>1. sta.PTK # NoKey
    BY <1>3, <1>4, NoKeyPair
  <2>2. QED
    BY <2>1, <1>4, <1>5 DEF Handshake, StaKeys
<1>14. ApKeys'
  BY <1>0 DEF Handshake, ApKeys
<1>15. Opened'
  BY <1>5 DEF Opened
<1>16. ClosedFirst'
  <2> SUFFICES ASSUME NEW j \in 1 .. Len(staQ'), staQ'[j].t = "ASSOC_CONF", staQ'[j].ok PROVE FALSE
    BY DEF ClosedFirst, Confirmed
  <2>1. j + 1 \in 1 .. Len(staQ) /\ Confirmed(j + 1) /\ 1 \in 1 .. j + 1
    BY <1>1 DEF Confirmed
  <2>2. QED
    BY <2>1, <1>4 DEF Handshake, ClosedFirst, m
<1>17. Epoch'
  <2> SUFFICES ASSUME Live PROVE Divided' /\ Waiting' /\ Answered' /\ Agreed'
    BY <1>0 DEF Epoch, Live
  <2>1. Divided /\ Waiting /\ Answered /\ Agreed
    BY DEF Handshake, Epoch
  <2>2. /\ m.n > ap.since => m.r <= ap.R_Counter
        /\ m.n > ap.since <=> NoRsp
        /\ ap.WpaState < AS_PTKSTART => m.n <= ap.since
    BY HeadDivided DEF m
  <2>3. Divided'
    <3>1. \A i \in 1 .. Len(staQ) :
            staQ[i].t \in {"MSG1", "MSG3"} /\ staQ[i].n > ap.since => staQ[i].r <= ap'.R_Counter
      BY <1>0, <2>1 DEF Divided
    <3>2. \A i \in 1 .. Len(staQ') : staQ'[i].t \in {"MSG1", "MSG3", "PEER_ASSOC_RSP"} =>
            i + 1 \in 1 .. Len(staQ) /\ staQ'[i] = staQ[i + 1]
      BY <1>1
    <3>3. QED
      BY <1>0, <1>1, <2>1, <3>1, <3>2, DividedMoves
  <2>4. Untouched => Untouched'
    <3> SUFFICES ASSUME Untouched PROVE Untouched'
      OBVIOUS
    <3>1. \A i \in 1 .. Len(apQ') : apQ'[i].t \in {"MSG2", "MSG4"} => apQ'[i].k[1] <= ap.since
      BY <1>7, <1>8 DEF Untouched
    <3>2. QED
      BY <3>1, <1>0, <1>5 DEF Untouched
  <2>5. Waiting'
    <3>1. ~NoRsp' => ~NoRsp
      BY <1>1 DEF NoRsp, Rsp
    <3>2. QED
      BY <3>1, <2>1, <2>4, <1>0, <1>1 DEF Waiting
  <2>6. Answered'
    <3>1. ASSUME NEW i \in 1 .. Len(apQ'), apQ'[i].t = "MSG4", apQ'[i].k[1] > ap.since
          PROVE  /\ sta.PTK[1] > ap.since /\ apQ'[i].r <= m.r
                 /\ apQ'[i].r = m.r => sta.PTK = apQ'[i].k
      <4>1. CASE i \in 1 .. Len(apQ) /\ apQ'[i] = apQ[i]
        <5>1. apQ[i].r \in Nat
          BY <4>1, <3>1 DEF Handshake, ApFrames
        <5>2. apQ[i].r <= sta.R_Counter /\ sta.PTK[1] > ap.since
          BY <4>1, <3>1, <2>1, <1>4 DEF Answered
        <5>3. QED
          BY <4>1, <5>1, <5>2, <1>0, <1>3, <1>4, SMTT(30)
      <4>2. CASE apQ'[i] = four
        BY <4>2, <3>1, <1>3, <1>7
      <4>3. QED
        BY <4>1, <4>2, <1>8
    <3>2. sta.PTK[1] > ap.since => m.r <= ap.R_Counter
      BY <2>2, <1>3, <1>4
    <3>3. QED
      BY <3>1, <3>2, <1>0, <1>5 DEF Answered
  <2>7. Agreed'
    <3>1. ap.WpaState # AS_PTKINITDONE
      <4> SUFFICES ASSUME ap.WpaState = AS_PTKINITDONE PROVE FALSE
        OBVIOUS
      <4>1. NoRsp
        BY <2>1 DEF Waiting
      <4>2. m.r <= ap.R_Counter /\ sta.R_Counter = ap.R_Counter
        BY <4>1, <2>1, <2>2, <1>4 DEF Agreed
      <4>3. QED
        BY <4>2, <1>0, <1>3, <1>4
    <3>2. QED
      BY <3>1, <1>0 DEF Agreed
  <2>8. QED
    BY <2>3, <2>5, <2>6, <2>7
<1>18. QED
  BY <1>10, <1>11, <1>12, <1>13, <1>14, <1>15, <1>16, <1>17 DEF Handshake

-----------------------------------------------------------------------------
(***************************************************************************)
(* The access point's steps of the handshake.                              *)
(***************************************************************************)
\* Nothing in p that was not in q.
Older(q, p) == \A i \in 1 .. Len(p) : \E j \in 1 .. Len(q) : p[i] = q[j]

\* The fields of the access point's entry after each of its steps.
LEMMA NewAssociationFields ==
  ASSUME ap \in ApEntries, nonce \in Nat, ap' = NewAssociation(ap)
  PROVE  /\ ap' \in ApEntries /\ ap'.Sst = "ASSOC" /\ ap'.WpaState = AS_INITPSK
         /\ ap'.PortSecured = FALSE /\ ap'.Key = NoKey /\ ap'.since = nonce
         /\ ap'.PTK = ap.PTK /\ ap'.ANonce = ap.ANonce
<1>1. AS_INITPSK \in AS_NOTUSE .. AS_PTKINITDONE /\ NoKey \in Nat \X Nat
  BY States, NoKeyPair
<1>2. ap' \in ApEntries
  BY <1>1 DEF ApEntries, NewAssociation
<1>3. QED
  BY <1>2 DEF ApEntries, NewAssociation

\* After message 1 was sent.
LEMMA SentMessage1Fields ==
  ASSUME NEW e \in ApEntries, nonce \in Nat, ap' = Message1(e)
  PROVE  /\ ap' \in ApEntries /\ ap'.Sst = e.Sst /\ ap'.WpaState = AS_PTKSTART
         /\ ap'.R_Counter = e.R_Counter + 1 /\ ap'.ANonce = nonce + 1
         /\ ap'.PTK = e.PTK /\ ap'.Key = e.Key /\ ap'.PortSecured = e.PortSecured
         /\ ap'.since = e.since /\ ap'.ReTryCounter = e.ReTryCounter
<1>1. AS_PTKSTART \in AS_NOTUSE .. AS_PTKINITDONE /\ e.R_Counter + 1 \in Nat /\ nonce + 1 \in Nat
  BY States DEF ApEntries
<1>2. ap' \in ApEntries
  BY <1>1 DEF ApEntries, Message1
<1>3. QED
  BY <1>2 DEF ApEntries, Message1

\* After message 4 was taken.
LEMMA SecuredFields ==
  ASSUME ap \in ApEntries, ap' = Secured(ap)
  PROVE  /\ ap' \in ApEntries /\ ap'.Sst = ap.Sst /\ ap'.WpaState = AS_PTKINITDONE
         /\ ap'.R_Counter = ap.R_Counter /\ ap'.ANonce = ap.ANonce
         /\ ap'.PTK = ap.PTK /\ ap'.Key = ap.PTK /\ ap'.PortSecured = TRUE
         /\ ap'.since = ap.since
<1>1. AS_PTKINITDONE \in AS_NOTUSE .. AS_PTKINITDONE
  BY States
<1>2. ap' \in ApEntries
  BY <1>1 DEF ApEntries, Secured
<1>3. QED
  BY <1>2 DEF ApEntries, Secured

\* What holds of every entry.
LEMMA EntryFacts ==
  ASSUME TypeOK
  PROVE  /\ sta \in StaEntries /\ ap \in ApEntries /\ nonce \in Nat
         /\ sta.since <= nonce /\ sta.since \in Nat /\ ap.since <= nonce /\ ap.since \in Nat
         /\ sta.R_Counter \in Nat /\ ap.WpaState \in 0 .. 4 /\ ap.R_Counter \in Nat
         /\ ap.ANonce \in Nat /\ ap.ANonce <= nonce
         /\ sta.PTK \in Keys /\ sta.Key \in Keys /\ ap.PTK \in Keys /\ ap.Key \in Keys
         /\ \A k \in Keys : k[1] <= nonce /\ k[2] <= nonce /\ k[1] \in Nat /\ k[2] \in Nat
         /\ NoKey \in Keys
BY DEF TypeOK, EntryTypes, StaEntries, ApEntries, Keys, AS_NOTUSE, AS_PTKINITDONE, NoKey

\* A new association closes the port, and everything before it is old.
LEMMA NewAssociationInd ==
  ASSUME TypeOK, Handshake, Gains(staQ, staQ', 0, Msg("PEER_ASSOC_RSP")), Older(apQ, apQ'),
         UNCHANGED <<nonce, sta>>, ap' = NewAssociation(ap)
  PROVE  Handshake' /\ EntryTypes'
<1> USE DEF AS_NOTUSE, AS_INITPSK, AS_PTKSTART, AS_PTKINIT_NEGOTIATING, AS_PTKINITDONE
<1>0. /\ nonce' = nonce /\ Keys' = Keys /\ sta' = sta
  BY DEF Keys
<1>1. Msg("PEER_ASSOC_RSP").t = "PEER_ASSOC_RSP"
  BY DEF Msg
<1>2. Comes(staQ, staQ', 0, Msg("PEER_ASSOC_RSP"))
  BY GainOrigin
<1>3. /\ \A i \in 1 .. Len(staQ') :
           \/ i = Len(staQ') /\ staQ'[i].t = "PEER_ASSOC_RSP"
           \/ i < Len(staQ') /\ i \in 1 .. Len(staQ) /\ staQ'[i] = staQ[i]
      /\ Len(staQ) \in Nat /\ Len(staQ') \in Nat /\ Len(staQ') \in 1 .. Len(staQ')
  BY <1>1, <1>2 DEF Comes
<1>4. /\ ap' \in ApEntries /\ ap'.Sst = "ASSOC" /\ ap'.WpaState = AS_INITPSK
      /\ ap'.PortSecured = FALSE /\ ap'.Key = NoKey /\ ap'.since = nonce
      /\ ap'.PTK = ap.PTK /\ ap'.ANonce = ap.ANonce
  BY EntryFacts, NewAssociationFields
<1>5. EntryTypes'
  BY <1>0, <1>4, EntryFacts DEF EntryTypes
<1>6. StaFrames'
  BY <1>0, <1>3 DEF Handshake, StaFrames
<1>7. ApFrames'
  BY <1>0 DEF Handshake, ApFrames, Older
<1>8. StaKeys'
  BY <1>0 DEF Handshake, StaKeys
<1>9. ApKeys'
  BY <1>4 DEF ApKeys
<1>10. Opened'
  BY <1>0, <1>4 DEF Handshake, Opened, Older
<1>11. ClosedFirst'
  <2> SUFFICES ASSUME NEW j \in 1 .. Len(staQ'), staQ'[j].t = "ASSOC_CONF", staQ'[j].ok
               PROVE  /\ sta.WpaState # AS_PTKINITDONE
                      /\ \A i \in 1 .. j : staQ'[i].t = "MSG3" => staQ'[i].k # sta.PTK
    BY <1>0 DEF ClosedFirst, Confirmed
  <2>1. j < Len(staQ') /\ j \in 1 .. Len(staQ) /\ Confirmed(j)
    BY <1>3 DEF Confirmed
  <2>2. \A i \in 1 .. j : i \in 1 .. Len(staQ') /\ i < Len(staQ')
    BY <2>1, <1>3
  <2>3. QED
    BY <2>1, <2>2, <1>3 DEF Handshake, ClosedFirst
<1>12. Divided'
  <2> SUFFICES ASSUME NEW i \in 1 .. Len(staQ'), staQ'[i].t \in {"MSG1", "MSG3"}
               PROVE  /\ ~(staQ'[i].n > nonce)
                      /\ \E j \in i .. Len(staQ') : staQ'[j].t = "PEER_ASSOC_RSP"
    BY <1>4 DEF Divided, Rsp
  <2>1. i \in 1 .. Len(staQ) /\ staQ'[i] = staQ[i]
    BY <1>3
  <2>2. staQ[i].n \in 1 .. nonce
    BY <2>1 DEF Handshake, StaFrames
  <2>3. Len(staQ') \in i .. Len(staQ') /\ staQ'[Len(staQ')].t = "PEER_ASSOC_RSP"
    BY <1>3
  <2>4. QED
    BY <2>1, <2>2, <2>3, EntryFacts
<1>13. Untouched'
  <2>1. \A i \in 1 .. Len(apQ') : apQ'[i].t \in {"MSG2", "MSG4"} => apQ'[i].k[1] <= nonce
    BY EntryFacts DEF Handshake, ApFrames, Older
  <2>2. QED
    BY <2>1, <1>0, <1>4, EntryFacts DEF Untouched
<1>14. Waiting'
  <2>1. \A i \in 1 .. Len(staQ') : staQ'[i].t \in {"MSG1", "MSG3"} => staQ'[i].n <= nonce
    BY <1>3, EntryFacts DEF Handshake, StaFrames
  <2>2. QED
    BY <2>1, <1>4, <1>13 DEF Waiting
<1>15. Answered'
  <2>1. ~(sta.PTK[1] > nonce)
    BY EntryFacts
  <2>2. \A i \in 1 .. Len(apQ') : apQ'[i].t = "MSG4" => ~(apQ'[i].k[1] > nonce)
    <3> SUFFICES ASSUME NEW i \in 1 .. Len(apQ'), apQ'[i].t = "MSG4"
                 PROVE  ~(apQ'[i].k[1] > nonce)
      OBVIOUS
    <3>1. apQ'[i].k[1] <= nonce /\ apQ'[i].k[1] \in Nat
      BY EntryFacts DEF Handshake, ApFrames, Older
    <3>2. QED
      BY <3>1, EntryFacts
  <2>3. QED
    BY <2>1, <2>2, <1>0, <1>4 DEF Answered
<1>16. Agreed'
  BY <1>4 DEF Agreed
<1>17. QED
  BY <1>5, <1>6, <1>7, <1>8, <1>9, <1>10, <1>11, <1>12, <1>14, <1>15, <1>16
  DEF Handshake, Epoch

\* Message 1 goes out with a new nonce and a counter no frame of this association
\* has passed.
LEMMA SentMessage1Ind ==
  ASSUME TypeOK, Handshake, NEW e \in ApEntries, ap' = Message1(e), nonce' = nonce + 1, sta' = sta,
         Gains(staQ, staQ', 0, KeyFrame("MSG1", e.R_Counter + 1, nonce + 1, NoKey)),
         Older(apQ, apQ'),
         e.Sst = ap.Sst, e.PTK = ap.PTK, e.Key = ap.Key, e.PortSecured = ap.PortSecured,
         e.since = ap.since, e.Sst # "NONE",
         e.R_Counter = ap.R_Counter \/ ap.WpaState < AS_PTKSTART
  PROVE  Handshake' /\ EntryTypes'
<1> USE DEF AS_NOTUSE, AS_INITPSK, AS_PTKSTART, AS_PTKINIT_NEGOTIATING, AS_PTKINITDONE
<1> DEFINE one == KeyFrame("MSG1", e.R_Counter + 1, nonce + 1, NoKey)
<1>1. one.t = "MSG1" /\ one.r = e.R_Counter + 1 /\ one.n = nonce + 1
  BY DEF KeyFrame
<1>2. Comes(staQ, staQ', 0, one)
  BY GainOrigin
<1> HIDE DEF one
<1>3. /\ \A i \in 1 .. Len(staQ') :
           \/ i = Len(staQ') /\ staQ'[i] = one
           \/ i < Len(staQ') /\ i \in 1 .. Len(staQ) /\ staQ'[i] = staQ[i]
      /\ \A j \in 0 + 1 .. Len(staQ) : j - 0 \in 1 .. Len(staQ') /\ staQ'[j - 0] = staQ[j]
      /\ Len(staQ) \in Nat /\ Len(staQ') \in Nat
  BY <1>2 DEF Comes
<1>4. /\ ap' \in ApEntries /\ ap'.Sst = ap.Sst /\ ap'.WpaState = AS_PTKSTART
      /\ ap'.R_Counter = e.R_Counter + 1 /\ ap'.ANonce = nonce + 1
      /\ ap'.PTK = ap.PTK /\ ap'.Key = ap.Key /\ ap'.PortSecured = ap.PortSecured
      /\ ap'.since = ap.since /\ e.R_Counter \in Nat
  BY EntryFacts, SentMessage1Fields DEF ApEntries
<1>5. Keys \subseteq Keys' /\ nonce \in Nat
  BY EntryFacts DEF Keys
<1>6. EntryTypes'
  BY <1>4, <1>5, EntryFacts DEF EntryTypes
<1>7. StaFrames'
  <2> SUFFICES ASSUME NEW i \in 1 .. Len(staQ')
               PROVE  /\ staQ'[i].t \in {"MSG1", "MSG3"} => staQ'[i].r \in Nat /\ staQ'[i].n \in 1 .. nonce'
                      /\ staQ'[i].t = "MSG3" =>
                           staQ'[i].k \in Keys' /\ staQ'[i].k[1] = staQ'[i].n /\ staQ'[i].k[2] > 0
    BY DEF StaFrames
  <2>1. CASE staQ'[i] = one
    BY <2>1, <1>1, <1>4, <1>5
  <2>2. CASE i \in 1 .. Len(staQ) /\ staQ'[i] = staQ[i]
    BY <2>2, <1>5 DEF Handshake, StaFrames
  <2>3. QED
    BY <2>1, <2>2, <1>3
<1>8. ApFrames'
  BY <1>5 DEF Handshake, ApFrames, Older
<1>9. StaKeys'
  BY DEF Handshake, StaKeys
<1>10. ApKeys'
  BY <1>4, EntryFacts DEF Handshake, ApKeys
<1>11. Opened'
  BY <1>4 DEF Handshake, Opened, Older
<1>12. ClosedFirst'
  <2> SUFFICES ASSUME NEW j \in 1 .. Len(staQ'), staQ'[j].t = "ASSOC_CONF", staQ'[j].ok
               PROVE  /\ sta.WpaState # AS_PTKINITDONE
                      /\ \A i \in 1 .. j : staQ'[i].t = "MSG3" => staQ'[i].k # sta.PTK
    BY DEF ClosedFirst, Confirmed
  <2>1. j < Len(staQ') /\ j \in 1 .. Len(staQ) /\ Confirmed(j)
    BY <1>1, <1>3 DEF Confirmed
  <2>2. \A i \in 1 .. j : i \in 1 .. Len(staQ') /\ i < Len(staQ')
    BY <2>1, <1>3
  <2>3. QED
    BY <2>1, <2>2, <1>3 DEF Handshake, ClosedFirst
<1>13. Epoch'
  <2> SUFFICES ASSUME Live' PROVE Divided' /\ Waiting' /\ Answered' /\ Agreed'
    BY DEF Epoch
  <2>1. Live
    BY <1>4 DEF Live
  <2>2. Divided /\ Waiting /\ Answered /\ Agreed
    BY <2>1 DEF Handshake, Epoch
  <2>3. ~Untouched => e.R_Counter = ap.R_Counter
    BY <2>2 DEF Waiting
  <2>4. Divided'
    <3>1. \A i \in 1 .. Len(staQ) :
            staQ[i].t \in {"MSG1", "MSG3"} /\ staQ[i].n > ap.since => staQ[i].r <= ap'.R_Counter
      <4> SUFFICES ASSUME NEW i \in 1 .. Len(staQ), staQ[i].t \in {"MSG1", "MSG3"}, staQ[i].n > ap.since
                   PROVE  staQ[i].r <= ap'.R_Counter
        OBVIOUS
      <4>1. staQ[i].n \in Nat /\ staQ[i].r \in Nat /\ staQ[i].r <= ap.R_Counter
        BY <2>2, EntryFacts DEF Handshake, StaFrames, Divided
      <4>2. ap.WpaState < AS_PTKSTART => staQ[i].n <= ap.since
        BY <2>2 DEF Waiting
      <4>3. ap.since \in Nat /\ ap.R_Counter \in Nat
        BY EntryFacts
      <4>4. e.R_Counter = ap.R_Counter
        BY <4>1, <4>2, <4>3
      <4>5. QED
        BY <4>1, <4>3, <4>4, <1>4
    <3>2. \A i \in 1 .. Len(staQ') : staQ'[i].t \in {"MSG1", "MSG3", "PEER_ASSOC_RSP"} =>
            \/ i + 0 \in 1 .. Len(staQ) /\ staQ'[i] = staQ[i + 0]
            \/ /\ i = Len(staQ') /\ staQ'[i].t # "PEER_ASSOC_RSP"
               /\ staQ'[i].n > ap.since /\ ~(staQ'[i].n <= ap.since)
               /\ staQ'[i].r <= ap'.R_Counter
      BY <1>1, <1>3, <1>4, EntryFacts, SMTT(30)
    <3>3. 0 \in 0 .. 1
      OBVIOUS
    <3>4. QED
      BY <1>3, <1>4, <2>2, <3>1, <3>2, <3>3, DividedMoves
  <2>5. Untouched => Untouched'
    BY <1>4 DEF Untouched, Older
  <2>6. Waiting'
    <3>1. ~NoRsp' => ~NoRsp
      BY <1>1, <1>3 DEF NoRsp, Rsp
    <3>2. QED
      BY <3>1, <2>2, <2>5, <1>4 DEF Waiting
  <2>7. Answered'
    <3>1. sta.PTK[1] > ap.since => sta.R_Counter <= ap'.R_Counter
      <4> SUFFICES ASSUME sta.PTK[1] > ap.since PROVE sta.R_Counter <= ap'.R_Counter
        OBVIOUS
      <4>1. ~Untouched
        BY EntryFacts DEF Untouched
      <4>2. QED
        BY <4>1, <2>2, <2>3, <1>4, EntryFacts DEF Answered
    <3>2. ASSUME NEW i \in 1 .. Len(apQ'), apQ'[i].t = "MSG4", apQ'[i].k[1] > ap.since,
                 sta.Sst = "ASSOC"
          PROVE  /\ sta.PTK[1] > ap.since /\ apQ'[i].r <= sta.R_Counter
                 /\ apQ'[i].r = sta.R_Counter => sta.Key = apQ'[i].k
      BY <3>2, <2>2 DEF Answered, Older
    <3>3. QED
      BY <3>1, <3>2, <1>4 DEF Answered
  <2>8. Agreed'
    BY <1>4 DEF Agreed
  <2>9. QED
    BY <2>4, <2>6, <2>7, <2>8
<1>14. QED
  BY <1>6, <1>7, <1>8, <1>9, <1>10, <1>11, <1>12, <1>13 DEF Handshake

\* Message 2 that is refused leaves only a key that nothing uses.
LEMMA StoredInd ==
  ASSUME TypeOK, Handshake, apQ # <<>>, apQ[1].t = "MSG2", ap.WpaState >= AS_PTKSTART,
         Older(apQ, apQ'), UNCHANGED <<staQ, nonce, sta>>,
         ap' = [ap EXCEPT !.PTK = <<ap.ANonce, apQ[1].n>>]
  PROVE  Handshake' /\ EntryTypes'
<1> USE DEF AS_NOTUSE, AS_INITPSK, AS_PTKSTART, AS_PTKINIT_NEGOTIATING, AS_PTKINITDONE
<1> DEFINE ptk == <<ap.ANonce, apQ[1].n>>
<1>0. /\ nonce' = nonce /\ Keys' = Keys /\ sta' = sta /\ staQ' = staQ
  BY DEF Keys
<1>1. 1 \in 1 .. Len(apQ)
  BY EmptySeq, LenProperties DEF TypeOK, QueueTypes
<1>2. apQ[1].k \in Keys /\ apQ[1].k[2] > 0 /\ apQ[1].n = apQ[1].k[2]
  BY <1>1 DEF Handshake, ApFrames
<1>3. apQ[1].n \in Nat /\ apQ[1].n <= nonce /\ apQ[1].n > 0
  BY <1>2, EntryFacts
<1>4. ptk \in Keys /\ ptk \in Nat \X Nat /\ ptk[1] = ap.ANonce /\ ptk[2] = apQ[1].n
  <2>1. ap.ANonce \in Nat /\ ap.ANonce <= nonce /\ nonce \in Nat
    BY EntryFacts
  <2>2. ap.ANonce \in 0 .. nonce /\ apQ[1].n \in 0 .. nonce
    BY <1>3, <2>1
  <2>3. QED
    BY <1>3, <2>1, <2>2 DEF Keys
<1>5. ap' = [ap EXCEPT !.PTK = ptk]
  OBVIOUS
<1> HIDE DEF ptk
<1>6. /\ ap' \in ApEntries /\ ap'.Sst = ap.Sst /\ ap'.WpaState = ap.WpaState
      /\ ap'.R_Counter = ap.R_Counter /\ ap'.ANonce = ap.ANonce
      /\ ap'.PTK = ptk /\ ap'.Key = ap.Key /\ ap'.PortSecured = ap.PortSecured
      /\ ap'.since = ap.since
  <2>1. ap' \in ApEntries
    BY <1>4, <1>5, EntryFacts DEF ApEntries
  <2>2. QED
    BY <2>1, <1>5, EntryFacts DEF ApEntries
<1>7. EntryTypes'
  BY <1>0, <1>4, <1>6, EntryFacts DEF EntryTypes
<1>8. StaFrames' /\ StaKeys' /\ ClosedFirst'
  BY <1>0 DEF Handshake, StaFrames, StaKeys, ClosedFirst, Confirmed
<1>9. ApFrames'
  BY <1>0 DEF Handshake, ApFrames, Older
<1>10. ApKeys'
  BY <1>3, <1>4, <1>6 DEF Handshake, ApKeys
<1>11. Opened'
  BY <1>0, <1>6 DEF Handshake, Opened, Older
<1>12. Epoch'
  <2> SUFFICES ASSUME Live PROVE Divided' /\ Waiting' /\ Answered' /\ Agreed'
    BY <1>6 DEF Epoch, Live
  <2>1. Divided /\ Waiting /\ Answered /\ Agreed
    BY DEF Handshake, Epoch
  <2>2. Divided'
    BY <2>1, <1>0, <1>6 DEF Divided, Rsp
  <2>3. Untouched => Untouched'
    BY <1>0, <1>6 DEF Untouched, Older
  <2>4. Waiting'
    BY <2>1, <2>3, <1>0, <1>6 DEF Waiting, NoRsp, Rsp
  <2>5. Answered'
    BY <2>1, <1>0, <1>6 DEF Answered, Older
  <2>6. Agreed'
    BY <2>1, <1>0, <1>6 DEF Agreed
  <2>7. QED
    BY <2>2, <2>4, <2>5, <2>6
<1>13. QED
  BY <1>7, <1>8, <1>9, <1>10, <1>11, <1>12 DEF Handshake

\* Message 2 that is accepted answers message 1 of this association, so the
\* response to the association has been taken.
LEMMA SentMessage3Ind ==
  ASSUME TypeOK, Handshake, apQ # <<>>, apQ[1].t = "MSG2",
         ap.Sst = "ASSOC", ap.WpaState >= AS_PTKSTART,
         NEW ptk, ptk = <<ap.ANonce, apQ[1].n>>, apQ[1].k = ptk,
         Older(apQ, apQ'), UNCHANGED <<nonce, sta>>,
         Gains(staQ, staQ', 0, KeyFrame("MSG3", ap.R_Counter + 1, ap.ANonce, ptk)),
         ap' = [ap EXCEPT !.PTK = ptk, !.R_Counter = ap.R_Counter + 1,
                          !.WpaState = AS_PTKINIT_NEGOTIATING,
                          !.ReTryCounter = PEER_MSG3_RETRY_TIMER_CTR]
  PROVE  Handshake' /\ EntryTypes' /\ ap'.ReTryCounter > PEER_MSG1_RETRIES
<1> DEFINE three == KeyFrame("MSG3", ap.R_Counter + 1, ap.ANonce, ptk)
<1>0. /\ nonce' = nonce /\ Keys' = Keys /\ sta' = sta
  BY DEF Keys
<1>1. 1 \in 1 .. Len(apQ)
  BY EmptySeq, LenProperties DEF TypeOK, QueueTypes
<1>2. ptk \in Keys /\ ptk[2] > 0 /\ ptk[1] = ap.ANonce /\ ptk[2] \in Nat /\ ptk \in Nat \X Nat
  <2>1. ptk \in Keys /\ ptk[2] > 0
    BY <1>1 DEF Handshake, ApFrames
  <2>2. ptk[1] = ap.ANonce
    OBVIOUS
  <2>3. ptk[2] \in Nat
    BY <2>1, EntryFacts
  <2>4. ptk \in Nat \X Nat
    BY <2>1, EntryFacts DEF Keys
  <2>5. QED
    BY <2>1, <2>2, <2>3, <2>4
<1>3. ap.ANonce > ap.since
  BY DEF Handshake, ApKeys
<1>4. three.t = "MSG3" /\ three.r = ap.R_Counter + 1 /\ three.n = ap.ANonce /\ three.k = ptk
  BY DEF KeyFrame
<1>5. Comes(staQ, staQ', 0, three)
  BY GainOrigin
<1> HIDE DEF three
<1>6. /\ \A i \in 1 .. Len(staQ') :
           \/ i = Len(staQ') /\ staQ'[i] = three
           \/ i < Len(staQ') /\ i \in 1 .. Len(staQ) /\ staQ'[i] = staQ[i]
      /\ \A j \in 0 + 1 .. Len(staQ) : j - 0 \in 1 .. Len(staQ') /\ staQ'[j - 0] = staQ[j]
      /\ Len(staQ) \in Nat /\ Len(staQ') \in Nat
  BY <1>5 DEF Comes
<1>7. /\ ap' \in ApEntries /\ ap'.Sst = ap.Sst /\ ap'.WpaState = AS_PTKINIT_NEGOTIATING
      /\ ap'.R_Counter = ap.R_Counter + 1 /\ ap'.ANonce = ap.ANonce
      /\ ap'.PTK = ptk /\ ap'.Key = ap.Key /\ ap'.PortSecured = ap.PortSecured
      /\ ap'.since = ap.since /\ ap'.ReTryCounter = PEER_MSG3_RETRY_TIMER_CTR
  <2>1. /\ AS_PTKINIT_NEGOTIATING \in AS_NOTUSE .. AS_PTKINITDONE
        /\ PEER_MSG3_RETRY_TIMER_CTR \in Nat /\ ap.R_Counter + 1 \in Nat /\ ap \in ApEntries
    BY States, ApAssumption, EntryFacts, SMTT(30) DEF PEER_MSG3_RETRY_TIMER_CTR
  <2>2. ap' \in ApEntries
    BY <1>2, <2>1 DEF ApEntries
  <2>3. QED
    BY <2>1, <2>2 DEF ApEntries
<1> USE DEF AS_NOTUSE, AS_INITPSK, AS_PTKSTART, AS_PTKINIT_NEGOTIATING, AS_PTKINITDONE
<1>8. EntryTypes'
  BY <1>0, <1>2, <1>7, EntryFacts DEF EntryTypes
<1>9. StaFrames'
  <2> SUFFICES ASSUME NEW i \in 1 .. Len(staQ')
               PROVE  /\ staQ'[i].t \in {"MSG1", "MSG3"} => staQ'[i].r \in Nat /\ staQ'[i].n \in 1 .. nonce
                      /\ staQ'[i].t = "MSG3" =>
                           staQ'[i].k \in Keys /\ staQ'[i].k[1] = staQ'[i].n /\ staQ'[i].k[2] > 0
    BY <1>0 DEF StaFrames
  <2>1. CASE staQ'[i] = three
    BY <2>1, <1>2, <1>3, <1>4, EntryFacts, SMTT(30)
  <2>2. CASE i \in 1 .. Len(staQ) /\ staQ'[i] = staQ[i]
    BY <2>2 DEF Handshake, StaFrames
  <2>3. QED
    BY <2>1, <2>2, <1>6
<1>10. ApFrames'
  BY <1>0 DEF Handshake, ApFrames, Older
<1>11. StaKeys'
  BY <1>0 DEF Handshake, StaKeys
<1>12. ApKeys'
  BY <1>2, <1>3, <1>7 DEF Handshake, ApKeys
<1>13. Opened'
  BY <1>0, <1>7 DEF Handshake, Opened, Older
<1>14. ClosedFirst'
  <2> SUFFICES ASSUME NEW j \in 1 .. Len(staQ'), staQ'[j].t = "ASSOC_CONF", staQ'[j].ok
               PROVE  /\ sta.WpaState # AS_PTKINITDONE
                      /\ \A i \in 1 .. j : staQ'[i].t = "MSG3" => staQ'[i].k # sta.PTK
    BY <1>0 DEF ClosedFirst, Confirmed
  <2>1. j < Len(staQ') /\ j \in 1 .. Len(staQ) /\ Confirmed(j)
    BY <1>4, <1>6 DEF Confirmed
  <2>2. \A i \in 1 .. j : i \in 1 .. Len(staQ') /\ i < Len(staQ')
    BY <2>1, <1>6
  <2>3. QED
    BY <2>1, <2>2, <1>6 DEF Handshake, ClosedFirst
<1>15. Epoch'
  <2>1. Divided /\ Waiting /\ Answered /\ Agreed
    BY DEF Handshake, Epoch, Live
  <2>2. ~Untouched
    <3>1. ~(apQ[1].k[1] <= ap.since)
      BY <1>2, <1>3, EntryFacts
    <3>2. QED
      BY <3>1, <1>1 DEF Untouched
  <2>3. NoRsp
    BY <2>1, <2>2 DEF Waiting
  <2>4. Divided'
    <3>1. \A i \in 1 .. Len(staQ) :
            staQ[i].t \in {"MSG1", "MSG3"} /\ staQ[i].n > ap.since => staQ[i].r <= ap'.R_Counter
      <4> SUFFICES ASSUME NEW i \in 1 .. Len(staQ), staQ[i].t \in {"MSG1", "MSG3"}, staQ[i].n > ap.since
                   PROVE  staQ[i].r <= ap'.R_Counter
        OBVIOUS
      <4>1. staQ[i].r \in Nat /\ staQ[i].r <= ap.R_Counter
        BY <2>1, EntryFacts DEF Handshake, StaFrames, Divided
      <4>2. QED
        BY <4>1, <1>7, EntryFacts
    <3>2. \A i \in 1 .. Len(staQ') : staQ'[i].t \in {"MSG1", "MSG3", "PEER_ASSOC_RSP"} =>
            \/ i + 0 \in 1 .. Len(staQ) /\ staQ'[i] = staQ[i + 0]
            \/ /\ i = Len(staQ') /\ staQ'[i].t # "PEER_ASSOC_RSP"
               /\ staQ'[i].n > ap.since /\ ~(staQ'[i].n <= ap.since)
               /\ staQ'[i].r <= ap'.R_Counter
      BY <1>3, <1>4, <1>6, <1>7, EntryFacts
    <3>3. 0 \in 0 .. 1
      OBVIOUS
    <3>4. QED
      BY <1>6, <1>7, <2>1, <3>1, <3>2, <3>3, DividedMoves
  <2>5. Waiting'
    <3>1. NoRsp'
      BY <2>3, <1>4, <1>6 DEF NoRsp, Rsp
    <3>2. QED
      BY <3>1, <1>7 DEF Waiting
  <2>6. Answered'
    <3>1. sta.PTK[1] > ap.since => sta.R_Counter <= ap'.R_Counter
      BY <2>1, <1>7, EntryFacts DEF Answered
    <3>2. ASSUME NEW i \in 1 .. Len(apQ'), apQ'[i].t = "MSG4", apQ'[i].k[1] > ap.since,
                 sta.Sst = "ASSOC"
          PROVE  /\ sta.PTK[1] > ap.since /\ apQ'[i].r <= sta.R_Counter
                 /\ apQ'[i].r = sta.R_Counter => sta.Key = apQ'[i].k
      BY <3>2, <2>1 DEF Answered, Older
    <3>3. QED
      BY <3>1, <3>2, <1>0, <1>7 DEF Answered
  <2>7. Agreed'
    BY <1>7 DEF Agreed
  <2>8. QED
    BY <2>4, <2>5, <2>6, <2>7 DEF Epoch
<1>16. ap'.ReTryCounter > PEER_MSG1_RETRIES
  BY <1>7, ApAssumption DEF PEER_MSG3_RETRY_TIMER_CTR
<1>17. QED
  BY <1>8, <1>9, <1>10, <1>11, <1>12, <1>13, <1>14, <1>15, <1>16 DEF Handshake

\* Message 4 with the current counter: the station has taken nothing since, and
\* uses the key the access point is about to use.
LEMMA SecuredInd ==
  ASSUME TypeOK, Handshake, apQ # <<>>, apQ[1].t = "MSG4",
         ap.WpaState >= AS_PTKINIT_NEGOTIATING, apQ[1].r = ap.R_Counter, apQ[1].k = ap.PTK,
         Older(apQ, apQ'), UNCHANGED <<staQ, nonce, sta>>, ap' = Secured(ap)
  PROVE  Handshake' /\ EntryTypes'
<1> USE DEF AS_NOTUSE, AS_INITPSK, AS_PTKSTART, AS_PTKINIT_NEGOTIATING, AS_PTKINITDONE
<1>0. /\ nonce' = nonce /\ Keys' = Keys /\ sta' = sta /\ staQ' = staQ
  BY DEF Keys
<1>1. 1 \in 1 .. Len(apQ)
  BY EmptySeq, LenProperties DEF TypeOK, QueueTypes
<1>2. /\ ap' \in ApEntries /\ ap'.Sst = ap.Sst /\ ap'.WpaState = AS_PTKINITDONE
      /\ ap'.R_Counter = ap.R_Counter /\ ap'.ANonce = ap.ANonce
      /\ ap'.PTK = ap.PTK /\ ap'.Key = ap.PTK /\ ap'.PortSecured = TRUE
      /\ ap'.since = ap.since
  BY SecuredFields, EntryFacts
<1>3. ap.PTK[1] > ap.since /\ ap.PTK[2] > 0 /\ ap.ANonce > ap.since
  BY EntryFacts DEF Handshake, ApKeys
<1>4. EntryTypes'
  BY <1>0, <1>2, EntryFacts DEF EntryTypes
<1>5. StaFrames' /\ StaKeys' /\ ClosedFirst'
  BY <1>0 DEF Handshake, StaFrames, StaKeys, ClosedFirst, Confirmed
<1>6. ApFrames'
  BY <1>0 DEF Handshake, ApFrames, Older
<1>7. ApKeys'
  <2>1. ap.Sst # "NONE"
    BY DEF Handshake, ApKeys
  <2>2. QED
    BY <2>1, <1>2, <1>3 DEF ApKeys
<1>8. Opened'
  <2>1. ap.PTK = sta.PTK => sta.WpaState = AS_PTKINITDONE
    BY <1>1 DEF Handshake, Opened
  <2>2. QED
    BY <2>1, <1>0, <1>2 DEF Handshake, Opened, Older
<1>9. Epoch'
  <2>1. Divided /\ Waiting /\ Answered /\ Agreed
    BY DEF Handshake, Epoch, Live
  <2>2. ~Untouched
    BY <1>1, <1>3, EntryFacts, SMTT(30) DEF Untouched
  <2>3. NoRsp
    BY <2>1, <2>2 DEF Waiting
  <2>4. Divided'
    BY <2>1, <1>0, <1>2 DEF Divided, Rsp
  <2>5. Waiting'
    BY <2>3, <1>0, <1>2 DEF Waiting, NoRsp, Rsp
  <2>6. Answered'
    BY <2>1, <1>0, <1>2 DEF Answered, Older
  <2>7. Agreed'
    <3> SUFFICES ASSUME sta.Sst = "ASSOC"
                 PROVE  /\ sta.PTK[1] > ap.since /\ sta.R_Counter = ap.R_Counter
                        /\ sta.Key = ap.PTK
      BY <1>0, <1>2 DEF Agreed
    <3>1. /\ sta.PTK[1] > ap.since /\ ap.R_Counter <= sta.R_Counter
          /\ ap.R_Counter = sta.R_Counter => sta.Key = ap.PTK
      BY <1>1, <1>3, <2>1 DEF Answered
    <3>2. sta.R_Counter <= ap.R_Counter
      BY <3>1, <2>1 DEF Answered
    <3>3. QED
      BY <3>1, <3>2, EntryFacts
  <2>8. QED
    BY <2>4, <2>5, <2>6, <2>7 DEF Epoch
<1>10. QED
  BY <1>4, <1>5, <1>6, <1>7, <1>8, <1>9 DEF Handshake

-----------------------------------------------------------------------------
(***************************************************************************)
(* The steps of the station, one by one.                                   *)
(***************************************************************************)
\* The candidates, and with them all of the station's types but its entry's.
Place == BssIdx \in Nat /\ BssNr \in 0 .. Len(SsidBssTab)
Bss == Place /\ Bssid \in {"ap", "gone"}

\* The station's state machines and threads.
StaMachines == MachineTypes /\ ThreadTypes /\ Bss

\* A quiet step keeps the queues' type.
LEMMA QuietTypes ==
  ASSUME TypeOK, NothingNew, Bss'
  PROVE  QueueTypes'
<1>1. PICK d \in 0 .. 1 :
        /\ \A i \in 1 .. Len(staQ') : Fine(staQ'[i]) \/ (i + d \in 1 .. Len(staQ) /\ staQ'[i] = staQ[i + d])
        /\ \A j \in d + 1 .. Len(staQ) : j - d \in 1 .. Len(staQ') /\ staQ'[j - d] = staQ[j]
        /\ Len(staQ) \in Nat /\ Len(staQ') \in Nat
  BY QuietOrigin DEF NothingNew
<1>2. staQ' \in Seq(Messages) /\ apQ' \in Seq(Messages)
  BY DEF NothingNew, Quietly, Follows
<1>3. \A i \in 1 .. Len(staQ') : Proper(staQ'[i])
  BY <1>1 DEF Fine, TypeOK, QueueTypes
<1>4. QED
  BY <1>2, <1>3 DEF QueueTypes, Bss, Place

\* The message is consumed; what is added is fine.
LEMMA StaTakes ==
  ASSUME TypeOK, staQ # <<>>, NEW out, NEW frames, StaTake(out, frames),
         FineSeq(out), FineSeq(frames)
  PROVE  NothingNew /\ UNCHANGED <<exec, asking, requests>>
<1>1. staQ \in Seq(Messages) /\ apQ \in Seq(Messages)
  BY DEF TypeOK, QueueTypes
<1>2. staQ' = Tail(staQ) \o out /\ apQ' = apQ \o frames /\ nonce' = nonce
      /\ UNCHANGED <<exec, asking, requests>>
  BY DEF StaTake
<1>3. Quietly(staQ, Tail(staQ) \o out) /\ Quietly(apQ, apQ \o frames)
  BY <1>1, Quiets
<1>4. QED
  BY <1>2, <1>3 DEF NothingNew

\* The next candidate, or none is left.
LEMMA Iterates ==
  ASSUME TypeOK, staQ # <<>>, NEW idx \in Nat, NEW nr \in 0 .. Len(SsidBssTab),
         IterateOnBssTab(idx, nr)
  PROVE  /\ NothingNew /\ UNCHANGED <<exec, asking, requests>> /\ Place'
         /\ Cntl' \in {"WAIT_JOIN", "IDLE"}
<1>0. Len(SsidBssTab) \in Nat
  BY StaAssumption, LenProperties
<1>1. CASE idx < nr
  <2>1. /\ Cntl' = "WAIT_JOIN" /\ BssIdx' = idx /\ BssNr' = nr
        /\ StaTake(<<[t |-> "JOIN_REQ", idx |-> idx]>>, <<>>)
    BY <1>1 DEF IterateOnBssTab
  <2>2. FineSeq(<<[t |-> "JOIN_REQ", idx |-> idx]>>) /\ FineSeq(<<>>)
    <3>1. idx < Len(SsidBssTab)
      BY <1>0, <1>1
    <3>2. Fine([t |-> "JOIN_REQ", idx |-> idx])
      BY <3>1, FineJoin
    <3>3. QED
      BY <3>2, FineSeqs
  <2>3. NothingNew /\ UNCHANGED <<exec, asking, requests>>
    BY <2>1, <2>2, StaTakes
  <2>4. QED
    BY <2>1, <2>3 DEF Place
<1>2. CASE ~(idx < nr)
  <2>1. Cntl' = "IDLE" /\ BssIdx' = idx /\ BssNr' = 0 /\ StaTake(<<>>, <<>>)
    BY <1>2 DEF IterateOnBssTab
  <2>2. NothingNew /\ UNCHANGED <<exec, asking, requests>>
    BY <2>1, FineSeqs, StaTakes
  <2>3. QED
    BY <2>1, <2>2, <1>0 DEF Place
<1>3. QED
  BY <1>1, <1>2

\* The entry of the AP is cleared.
LEMMA LinkDownKept ==
  ASSUME LinkDown
  PROVE  StaKept /\ INFRA_ON' = FALSE
BY DEF LinkDown, StaKept

\* Fine sequences that the actions send.
LEMMA Sends ==
  /\ FineSeq(<<>>)
  /\ \A t \in {"DISASSOC_REQ", "DISASSOC_CONF", "PEER_AUTH_ODD",
               "PEER_ASSOC_REQ", "PEER_AUTH_EVEN", "PEER_DISASSOC_REQ", "PEER_DEAUTH"} :
       FineSeq(<<Msg(t)>>)
  /\ FineSeq(<<Msg("PEER_DISASSOC_REQ"), Msg("PEER_DEAUTH")>>)
  /\ \A ok \in BOOLEAN : FineSeq(<<Conf("JOIN_CONF", ok)>>) /\ FineSeq(<<Conf("AUTH_CONF", ok)>>)
  /\ FineSeq(<<Conf("ASSOC_CONF", FALSE)>>)
<1>1. \A t \in {"DISASSOC_REQ", "DISASSOC_CONF", "PEER_AUTH_ODD",
                "PEER_ASSOC_REQ", "PEER_AUTH_EVEN", "PEER_DISASSOC_REQ", "PEER_DEAUTH"} : Fine(Msg(t))
  BY FineMsg DEF MsgTypes, KeyFrames, MgmtFrames
<1>2. \A ok \in BOOLEAN : Fine(Conf("JOIN_CONF", ok)) /\ Fine(Conf("AUTH_CONF", ok))
  BY FineConf
<1>3. Fine(Conf("ASSOC_CONF", FALSE))
  BY FineConf
<1>4. QED
  BY <1>1, <1>2, <1>3, FineSeqs, Zenon

\* And a request that names a BSS.
LEMMA SendsReq ==
  ASSUME Bss, NEW t \in {"AUTH_REQ", "ASSOC_REQ"}
  PROVE  FineSeq(<<Req(t)>>)
BY FineReq, FineSeqs DEF Bss

\* What the plain steps of CNTL do.
LEMMA CntlSteps ==
  ASSUME TypeOK, Handshake, UNCHANGED apVars,
         \/ Drop \/ CntlOidSsidProc \/ CntlWaitDisassocProc \/ CntlWaitJoinProc
         \/ CntlWaitAuthProc \/ CntlWaitAssocProc \/ MlmeRestartStateMachine
  PROVE  NothingNew /\ StaKept /\ StaMachines'
<1> USE DEF StaMachines
<1>0. MachineTypes /\ ThreadTypes /\ Bss /\ staQ \in Seq(Messages) /\ Len(SsidBssTab) \in Nat
  BY StaAssumption, LenProperties DEF TypeOK, QueueTypes, Bss, Place
<1>1. CASE Drop
  <2>1. /\ staQ # <<>> /\ StaTake(<<>>, <<>>)
        /\ UNCHANGED <<Cntl, Sync, Auth, Assoc, BssIdx, BssNr, Bssid, INFRA_ON, sta, timers>>
    BY <1>1 DEF Drop, StaGets, machines, bss, link
  <2>2. NothingNew /\ UNCHANGED <<exec, asking, requests>>
    BY <2>1, Sends, StaTakes
  <2>3. QED
    BY <1>0, <2>1, <2>2 DEF StaKept, MachineTypes, ThreadTypes, Bss, Place, apVars, apThread
<1>2. CASE CntlOidSsidProc
  <2>0. staQ # <<>> /\ UNCHANGED <<Sync, Auth, Assoc, Bssid, INFRA_ON, sta, timers>>
    BY <1>2 DEF CntlOidSsidProc, StaGets, machines, link
  <2>1. CASE BssNr' = Len(SsidBssTab) /\ StaTake(<<>>, <<>>) /\ UNCHANGED <<Cntl, BssIdx>>
    <3>1. NothingNew /\ UNCHANGED <<exec, asking, requests>>
      BY <2>0, <2>1, Sends, StaTakes
    <3>2. QED
      BY <1>0, <2>0, <2>1, <3>1 DEF StaKept, MachineTypes, ThreadTypes, Bss, Place, apVars, apThread
  <2>2. CASE /\ BssNr' = Len(SsidBssTab) /\ StaTake(<<Msg("DISASSOC_REQ")>>, <<>>)
             /\ Cntl' = "WAIT_DISASSOC" /\ UNCHANGED BssIdx
    <3>1. NothingNew /\ UNCHANGED <<exec, asking, requests>>
      BY <2>0, <2>2, Sends, StaTakes
    <3>2. QED
      BY <1>0, <2>0, <2>2, <3>1 DEF StaKept, MachineTypes, ThreadTypes, Bss, Place, apVars, apThread
  <2>3. CASE IterateOnBssTab(0, Len(SsidBssTab))
    <3>1. /\ NothingNew /\ UNCHANGED <<exec, asking, requests>> /\ Place'
          /\ Cntl' \in {"WAIT_JOIN", "IDLE"}
      BY <1>0, <2>0, <2>3, Iterates
    <3>2. QED
      BY <1>0, <2>0, <3>1 DEF StaKept, MachineTypes, ThreadTypes, Bss, Attempting, apVars, apThread
  <2>4. QED
    BY <1>2, <2>1, <2>2, <2>3 DEF CntlOidSsidProc
<1>3. CASE CntlWaitDisassocProc
  <2>1. /\ staQ # <<>> /\ LinkDown /\ IterateOnBssTab(BssIdx + 1, BssNr)
        /\ UNCHANGED <<Sync, Auth, Assoc, Bssid, timers>>
    BY <1>3 DEF CntlWaitDisassocProc, StaGets, machines
  <2>2. /\ NothingNew /\ UNCHANGED <<exec, asking, requests>> /\ Place'
        /\ Cntl' \in {"WAIT_JOIN", "IDLE"}
    BY <1>0, <2>1, Iterates DEF Bss, Place
  <2>3. QED
    BY <1>0, <2>1, <2>2, LinkDownKept DEF MachineTypes, ThreadTypes, Bss, Attempting, apVars, apThread
<1>4. CASE CntlWaitJoinProc
  <2>0. staQ # <<>> /\ UNCHANGED <<Sync, Auth, Assoc, Bssid, INFRA_ON, sta, timers>>
    BY <1>4 DEF CntlWaitJoinProc, StaGets, machines, link
  <2>1. CASE StaTake(<<Req("AUTH_REQ")>>, <<>>) /\ Cntl' = "WAIT_AUTH" /\ UNCHANGED <<BssIdx, BssNr>>
    <3>1. NothingNew /\ UNCHANGED <<exec, asking, requests>>
      BY <2>0, <2>1, <1>0, Sends, SendsReq, StaTakes
    <3>2. QED
      BY <1>0, <2>0, <2>1, <3>1 DEF StaKept, MachineTypes, ThreadTypes, Bss, Place, Attempting, apVars, apThread
  <2>2. CASE IterateOnBssTab(BssIdx + 1, BssNr)
    <3>1. /\ NothingNew /\ UNCHANGED <<exec, asking, requests>> /\ Place'
          /\ Cntl' \in {"WAIT_JOIN", "IDLE"}
      BY <1>0, <2>0, <2>2, Iterates DEF Bss, Place
    <3>2. QED
      BY <1>0, <2>0, <3>1 DEF StaKept, MachineTypes, ThreadTypes, Bss, Attempting, apVars, apThread
  <2>3. QED
    BY <1>4, <2>1, <2>2 DEF CntlWaitJoinProc
<1>5. CASE CntlWaitAuthProc
  <2>0. staQ # <<>> /\ UNCHANGED <<Sync, Auth, Assoc, Bssid, INFRA_ON, sta, timers>>
    BY <1>5 DEF CntlWaitAuthProc, StaGets, machines, link
  <2>1. CASE StaTake(<<Req("ASSOC_REQ")>>, <<>>) /\ Cntl' = "WAIT_ASSOC" /\ UNCHANGED <<BssIdx, BssNr>>
    <3>1. NothingNew /\ UNCHANGED <<exec, asking, requests>>
      BY <2>0, <2>1, <1>0, Sends, SendsReq, StaTakes
    <3>2. QED
      BY <1>0, <2>0, <2>1, <3>1 DEF StaKept, MachineTypes, ThreadTypes, Bss, Place, Attempting, apVars, apThread
  <2>2. CASE StaTake(<<Req("AUTH_REQ")>>, <<>>) /\ Cntl' = "WAIT_AUTH2" /\ UNCHANGED <<BssIdx, BssNr>>
    <3>1. NothingNew /\ UNCHANGED <<exec, asking, requests>>
      BY <2>0, <2>2, <1>0, Sends, SendsReq, StaTakes
    <3>2. QED
      BY <1>0, <2>0, <2>2, <3>1 DEF StaKept, MachineTypes, ThreadTypes, Bss, Place, Attempting, apVars, apThread
  <2>3. CASE IterateOnBssTab(BssIdx + 1, BssNr)
    <3>1. /\ NothingNew /\ UNCHANGED <<exec, asking, requests>> /\ Place'
          /\ Cntl' \in {"WAIT_JOIN", "IDLE"}
      BY <1>0, <2>0, <2>3, Iterates DEF Bss, Place
    <3>2. QED
      BY <1>0, <2>0, <3>1 DEF StaKept, MachineTypes, ThreadTypes, Bss, Attempting, apVars, apThread
  <2>4. QED
    BY <1>5, <2>1, <2>2, <2>3 DEF CntlWaitAuthProc
<1>6. CASE CntlWaitAssocProc
  <2>0. staQ # <<>> /\ staQ[1].t = "ASSOC_CONF" /\ UNCHANGED <<Sync, Auth, Assoc, Bssid>>
    BY <1>6 DEF CntlWaitAssocProc, StaGets, machines
  <2>1. CASE staQ[1].ok /\ LinkUp /\ Cntl' = "IDLE" /\ StaTake(<<>>, <<>>) /\ UNCHANGED <<BssIdx, BssNr>>
    <3>1. NothingNew /\ UNCHANGED <<exec, asking, requests>>
      BY <2>0, <2>1, Sends, StaTakes
    <3>2. 1 \in 1 .. Len(staQ)
      BY <1>0, <2>0, EmptySeq
    <3>3. sta.WpaState # AS_PTKINITDONE
      BY <2>0, <2>1, <3>2 DEF Handshake, ClosedFirst, Confirmed
    <3>4. StaKept
      BY <2>1, <3>3 DEF LinkUp, StaKept
    <3>5. QED
      BY <1>0, <2>0, <2>1, <3>1, <3>4 DEF LinkUp, MachineTypes, ThreadTypes, Bss, Place, apVars, apThread
  <2>2. CASE IterateOnBssTab(BssIdx + 1, BssNr) /\ UNCHANGED <<link, timers>>
    <3>1. /\ NothingNew /\ UNCHANGED <<exec, asking, requests>> /\ Place'
          /\ Cntl' \in {"WAIT_JOIN", "IDLE"}
      BY <1>0, <2>0, <2>2, Iterates DEF Bss, Place
    <3>2. QED
      BY <1>0, <2>0, <2>2, <3>1 DEF StaKept, MachineTypes, ThreadTypes, Bss, Attempting, apVars, apThread, link
  <2>3. QED
    BY <1>6, <2>1, <2>2, <1>0 DEF CntlWaitAssocProc
<1>7. CASE MlmeRestartStateMachine
  <2>1. /\ staQ # <<>> /\ StaTake(<<>>, <<>>) /\ Cntl' = "IDLE" /\ Sync' = "IDLE"
        /\ Auth' = "IDLE" /\ Assoc' = "IDLE" /\ timers' = timers \ Timeouts
        /\ UNCHANGED <<BssIdx, BssNr, Bssid, INFRA_ON, sta>>
    BY <1>7 DEF MlmeRestartStateMachine, StaGets, bss, link
  <2>2. NothingNew /\ UNCHANGED <<exec, asking, requests>>
    BY <2>1, Sends, StaTakes
  <2>3. QED
    BY <1>0, <2>1, <2>2 DEF StaKept, MachineTypes, ThreadTypes, Bss, Place, apVars, apThread
<1>8. QED
  BY <1>1, <1>2, <1>3, <1>4, <1>5, <1>6, <1>7

\* What the plain steps of SYNC, AUTH and ASSOC do, and a key frame that is ignored.
LEMMA MachineSteps ==
  ASSUME TypeOK, UNCHANGED apVars,
         \/ MlmeJoinReqAction \/ PeerBeaconAtJoinAction \/ BeaconTimeoutAtJoinAction
         \/ MlmeAuthReqAction \/ PeerAuthRspAtSeq2Action \/ AuthTimeoutAction
         \/ MlmeAssocReqAction \/ AssocTimeoutAction
         \/ MlmeDisassocReqAction \/ DisassocTimeoutAction \/ PeerDisassocAction
         \/ PeerDeauthAction \/ StaIgnored
  PROVE  NothingNew /\ StaKept /\ StaMachines'
<1> USE DEF StaMachines
<1>0. MachineTypes /\ ThreadTypes /\ Bss /\ staQ \in Seq(Messages) /\ apQ \in Seq(Messages)
  BY DEF TypeOK, QueueTypes, Bss, Place
<1>a. \A ok \in BOOLEAN : FineSeq(<<Conf("JOIN_CONF", ok)>>) /\ FineSeq(<<Conf("AUTH_CONF", ok)>>)
  BY Sends, Zenon
<1>b. FineSeq(<<Conf("JOIN_CONF", FALSE)>>) /\ FineSeq(<<Conf("AUTH_CONF", FALSE)>>)
      /\ FineSeq(<<Conf("AUTH_CONF", TRUE)>>) /\ FineSeq(<<Conf("ASSOC_CONF", FALSE)>>)
  BY <1>a, Sends, Zenon
<1>c. staQ # <<>> => Head(staQ) \in Messages /\ Proper(Head(staQ))
  <2>1. ASSUME staQ # <<>> PROVE 1 \in 1 .. Len(staQ) /\ Head(staQ) = staQ[1]
    BY <1>0, <2>1, EmptySeq, HeadTailProperties
  <2>2. QED
    BY <1>0, <2>1 DEF TypeOK, QueueTypes
<1>1. CASE MlmeJoinReqAction
  <2>1. /\ staQ # <<>> /\ StaTake(<<>>, <<>>) /\ Sync' = "JOIN_WAIT_BEACON"
        /\ timers' = timers \union {"BEACON_TIMEOUT"}
        /\ UNCHANGED <<Cntl, Auth, Assoc, BssIdx, BssNr, INFRA_ON, sta>>
        /\ Bssid' = SsidBssTab[Head(staQ).idx + 1] /\ Head(staQ).t = "JOIN_REQ"
    BY <1>1 DEF MlmeJoinReqAction, StaGets, link
  <2>2. NothingNew /\ UNCHANGED <<exec, asking, requests>>
    BY <2>1, Sends, StaTakes
  <2>3. Bssid' \in {"ap", "gone"}
    <3>1. Head(staQ) \in Messages /\ Proper(Head(staQ))
      BY <1>0, <1>c, <2>1
    <3>2. Head(staQ).idx + 1 \in 1 .. Len(SsidBssTab)
      BY <2>1, <3>1, StaAssumption, LenProperties DEF Proper
    <3>3. QED
      BY <2>1, <3>2, StaAssumption
  <2>4. QED
    BY <1>0, <2>1, <2>2, <2>3 DEF StaKept, MachineTypes, ThreadTypes, Bss, Place, apVars, apThread, Timeouts
<1>2. CASE PeerBeaconAtJoinAction
  <2>1. /\ Sync' = "IDLE" /\ timers' = timers \ {"BEACON_TIMEOUT"}
        /\ staQ' = Append(staQ, Conf("JOIN_CONF", TRUE)) /\ apQ' = apQ /\ nonce' = nonce
        /\ UNCHANGED <<exec, asking, Cntl, Auth, Assoc, BssIdx, BssNr, Bssid, INFRA_ON, sta>>
    BY <1>2, Zenon DEF PeerBeaconAtJoinAction, bss, link
  <2>2. Fine(Conf("JOIN_CONF", TRUE))
    BY FineConf, Zenon
  <2>3. Quietly(staQ, Append(staQ, Conf("JOIN_CONF", TRUE))) /\ Quietly(apQ, apQ)
    BY <1>0, <2>2, Quiets, Zenon
  <2>4. NothingNew
    BY <2>1, <2>3, Zenon DEF NothingNew
  <2>5. StaKept
    BY <2>1, Zenon DEF StaKept
  <2>6. MachineTypes' /\ Bss'
    BY <1>0, <2>1 DEF MachineTypes, Bss, Place
  <2>7. ThreadTypes'
    BY <1>0, <2>1 DEF ThreadTypes, apVars, apThread
  <2>8. QED
    BY <2>4, <2>5, <2>6, <2>7
<1>3. CASE BeaconTimeoutAtJoinAction
  <2>1. /\ staQ # <<>> /\ StaTake(<<Conf("JOIN_CONF", FALSE)>>, <<>>) /\ Sync' = "IDLE"
        /\ UNCHANGED <<Cntl, Auth, Assoc, BssIdx, BssNr, Bssid, INFRA_ON, sta, timers>>
    BY <1>3, Zenon DEF BeaconTimeoutAtJoinAction, StaGets, bss, link
  <2>2. NothingNew /\ UNCHANGED <<exec, asking, requests>>
    BY <2>1, <1>b, Sends, StaTakes, Zenon
  <2>3. StaKept /\ MachineTypes' /\ ThreadTypes' /\ Bss'
    BY <1>0, <2>1, <2>2 DEF StaKept, MachineTypes, ThreadTypes, Bss, Place, apVars, apThread
  <2>4. QED
    BY <2>2, <2>3
<1>4. CASE MlmeAuthReqAction
  <2>0. staQ # <<>> /\ UNCHANGED <<Cntl, Sync, Assoc, BssIdx, BssNr, INFRA_ON, sta>>
    BY <1>4 DEF MlmeAuthReqAction, StaGets, link
  <2>1. CASE /\ Auth' = "WAIT_SEQ2" /\ timers' = timers \union {"AUTH_TIMEOUT"}
             /\ Bssid' = Head(staQ).bss
             /\ StaTake(<<>>, IF Bssid' = "ap" THEN <<Msg("PEER_AUTH_ODD")>> ELSE <<>>)
    <3>1. NothingNew /\ UNCHANGED <<exec, asking, requests>>
      BY <2>0, <2>1, Sends, StaTakes
    <3>2. Bssid' \in {"ap", "gone"}
      BY <1>c, <2>0, <2>1, <1>4 DEF MlmeAuthReqAction, StaGets, Proper
    <3>3. QED
      BY <1>0, <2>0, <2>1, <3>1, <3>2 DEF StaKept, MachineTypes, ThreadTypes, Bss, Place, apVars, apThread, Timeouts
  <2>2. CASE Auth' = "IDLE" /\ StaTake(<<Conf("AUTH_CONF", FALSE)>>, <<>>) /\ UNCHANGED <<Bssid, timers>>
    <3>1. NothingNew /\ UNCHANGED <<exec, asking, requests>>
      BY <2>0, <2>2, <1>b, Sends, StaTakes, Zenon
    <3>2. QED
      BY <1>0, <2>0, <2>2, <3>1 DEF StaKept, MachineTypes, ThreadTypes, Bss, Place, apVars, apThread
  <2>3. QED
    BY <1>4, <2>1, <2>2, Zenon DEF MlmeAuthReqAction
<1>5. CASE PeerAuthRspAtSeq2Action
  <2>1. /\ staQ # <<>> /\ StaTake(<<Conf("AUTH_CONF", TRUE)>>, <<>>) /\ Auth' = "IDLE"
        /\ timers' = timers \ {"AUTH_TIMEOUT"}
        /\ UNCHANGED <<Cntl, Sync, Assoc, BssIdx, BssNr, Bssid, INFRA_ON, sta>>
    BY <1>5, Zenon DEF PeerAuthRspAtSeq2Action, StaGets, bss, link
  <2>2. NothingNew /\ UNCHANGED <<exec, asking, requests>>
    BY <2>1, <1>b, Sends, StaTakes, Zenon
  <2>3. StaKept /\ MachineTypes' /\ ThreadTypes' /\ Bss'
    BY <1>0, <2>1, <2>2 DEF StaKept, MachineTypes, ThreadTypes, Bss, Place, apVars, apThread
  <2>4. QED
    BY <2>2, <2>3
<1>6. CASE AuthTimeoutAction
  <2>1. /\ staQ # <<>> /\ StaTake(<<Conf("AUTH_CONF", FALSE)>>, <<>>) /\ Auth' = "IDLE"
        /\ UNCHANGED <<Cntl, Sync, Assoc, BssIdx, BssNr, Bssid, INFRA_ON, sta, timers>>
    BY <1>6, Zenon DEF AuthTimeoutAction, StaGets, bss, link
  <2>2. NothingNew /\ UNCHANGED <<exec, asking, requests>>
    BY <2>1, <1>b, Sends, StaTakes, Zenon
  <2>3. StaKept /\ MachineTypes' /\ ThreadTypes' /\ Bss'
    BY <1>0, <2>1, <2>2 DEF StaKept, MachineTypes, ThreadTypes, Bss, Place, apVars, apThread
  <2>4. QED
    BY <2>2, <2>3
<1>7. CASE MlmeAssocReqAction
  <2>0. staQ # <<>> /\ UNCHANGED <<Cntl, Sync, Auth, BssIdx, BssNr, INFRA_ON, sta>>
    BY <1>7 DEF MlmeAssocReqAction, StaGets, link
  <2>1. CASE /\ Assoc' = "WAIT_RSP" /\ timers' = timers \union {"ASSOC_TIMEOUT"}
             /\ Bssid' = Head(staQ).bss
             /\ StaTake(<<>>, IF Bssid' = "ap" THEN <<Msg("PEER_ASSOC_REQ")>> ELSE <<>>)
    <3>1. NothingNew /\ UNCHANGED <<exec, asking, requests>>
      BY <2>0, <2>1, Sends, StaTakes
    <3>2. Bssid' \in {"ap", "gone"}
      BY <1>c, <2>0, <2>1, <1>7 DEF MlmeAssocReqAction, StaGets, Proper
    <3>3. QED
      BY <1>0, <2>0, <2>1, <3>1, <3>2 DEF StaKept, MachineTypes, ThreadTypes, Bss, Place, apVars, apThread, Timeouts
  <2>2. CASE Assoc' = "IDLE" /\ StaTake(<<Conf("ASSOC_CONF", FALSE)>>, <<>>) /\ UNCHANGED <<Bssid, timers>>
    <3>1. NothingNew /\ UNCHANGED <<exec, asking, requests>>
      BY <2>0, <2>2, <1>b, Sends, StaTakes, Zenon
    <3>2. QED
      BY <1>0, <2>0, <2>2, <3>1 DEF StaKept, MachineTypes, ThreadTypes, Bss, Place, apVars, apThread
  <2>3. QED
    BY <1>7, <2>1, <2>2, Zenon DEF MlmeAssocReqAction
<1>8. CASE AssocTimeoutAction
  <2>1. /\ staQ # <<>> /\ StaTake(<<Conf("ASSOC_CONF", FALSE)>>, <<>>) /\ Assoc' = "IDLE"
        /\ UNCHANGED <<Cntl, Sync, Auth, BssIdx, BssNr, Bssid, INFRA_ON, sta, timers>>
    BY <1>8, Zenon DEF AssocTimeoutAction, StaGets, bss, link
  <2>2. NothingNew /\ UNCHANGED <<exec, asking, requests>>
    BY <2>1, <1>b, Sends, StaTakes, Zenon
  <2>3. StaKept /\ MachineTypes' /\ ThreadTypes' /\ Bss'
    BY <1>0, <2>1, <2>2 DEF StaKept, MachineTypes, ThreadTypes, Bss, Place, apVars, apThread
  <2>4. QED
    BY <2>2, <2>3
<1>9. CASE MlmeDisassocReqAction
  <2>0. staQ # <<>> /\ UNCHANGED <<Cntl, Sync, Auth, BssIdx, BssNr, Bssid, INFRA_ON, sta>>
    BY <1>9 DEF MlmeDisassocReqAction, StaGets, bss, link
  <2>1. CASE /\ Assoc' = "DISASSOC_WAIT_RSP" /\ timers' = timers \union {"DISASSOC_TIMEOUT"}
             /\ StaTake(<<>>, <<Msg("PEER_DISASSOC_REQ"), Msg("PEER_DEAUTH")>>)
    <3>1. NothingNew /\ UNCHANGED <<exec, asking, requests>>
      BY <2>0, <2>1, Sends, StaTakes
    <3>2. QED
      BY <1>0, <2>0, <2>1, <3>1 DEF StaKept, MachineTypes, ThreadTypes, Bss, Place, apVars, apThread, Timeouts
  <2>2. CASE Assoc' = "IDLE" /\ StaTake(<<Msg("DISASSOC_CONF")>>, <<>>) /\ UNCHANGED timers
    <3>1. NothingNew /\ UNCHANGED <<exec, asking, requests>>
      BY <2>0, <2>2, Sends, StaTakes
    <3>2. QED
      BY <1>0, <2>0, <2>2, <3>1 DEF StaKept, MachineTypes, ThreadTypes, Bss, Place, apVars, apThread
  <2>3. QED
    BY <1>9, <2>1, <2>2 DEF MlmeDisassocReqAction
<1>10. CASE DisassocTimeoutAction
  <2>1. /\ staQ # <<>> /\ StaTake(<<Msg("DISASSOC_CONF")>>, <<>>) /\ Assoc' = "IDLE"
        /\ UNCHANGED <<Cntl, Sync, Auth, BssIdx, BssNr, Bssid, INFRA_ON, sta, timers>>
    BY <1>10 DEF DisassocTimeoutAction, StaGets, bss, link
  <2>2. NothingNew /\ UNCHANGED <<exec, asking, requests>>
    BY <2>1, Sends, StaTakes
  <2>3. QED
    BY <1>0, <2>1, <2>2 DEF StaKept, MachineTypes, ThreadTypes, Bss, Place, apVars, apThread
<1>11. CASE PeerDisassocAction
  <2>0. staQ # <<>> /\ UNCHANGED <<Cntl, Sync, Auth, BssIdx, BssNr, Bssid, timers>>
    BY <1>11 DEF PeerDisassocAction, StaGets, bss
  <2>1. CASE StaTake(<<>>, <<>>) /\ UNCHANGED <<Assoc, link>>
    <3>1. NothingNew /\ UNCHANGED <<exec, asking, requests>>
      BY <2>0, <2>1, Sends, StaTakes
    <3>2. QED
      BY <1>0, <2>0, <2>1, <3>1 DEF StaKept, MachineTypes, ThreadTypes, Bss, Place, apVars, apThread, link
  <2>2. CASE Assoc' = "IDLE" /\ StaTake(<<Msg("DISASSOC_CONF")>>, <<>>) /\ UNCHANGED link
    <3>1. NothingNew /\ UNCHANGED <<exec, asking, requests>>
      BY <2>0, <2>2, Sends, StaTakes
    <3>2. QED
      BY <1>0, <2>0, <2>2, <3>1 DEF StaKept, MachineTypes, ThreadTypes, Bss, Place, apVars, apThread, link
  <2>3. CASE Assoc' = "IDLE" /\ StaTake(<<>>, <<>>) /\ LinkDown
    <3>1. NothingNew /\ UNCHANGED <<exec, asking, requests>>
      BY <2>0, <2>3, Sends, StaTakes
    <3>2. QED
      BY <1>0, <2>0, <2>3, <3>1, LinkDownKept DEF MachineTypes, ThreadTypes, Bss, Place, apVars, apThread
  <2>4. QED
    BY <1>11, <2>1, <2>2, <2>3 DEF PeerDisassocAction
<1>12. CASE PeerDeauthAction
  <2>0. staQ # <<>> /\ UNCHANGED <<Sync, Auth, Assoc, Bssid, timers>>
    BY <1>12 DEF PeerDeauthAction, StaGets, machines
  <2>1. StaKept /\ INFRA_ON' \in BOOLEAN
    <3>1. CASE LinkDown
      BY <3>1, LinkDownKept
    <3>2. CASE UNCHANGED <<INFRA_ON, sta>>
      BY <3>2, <1>0 DEF StaKept, MachineTypes
    <3>3. QED
      BY <1>12, <3>1, <3>2 DEF PeerDeauthAction
  <2>2. CASE IterateOnBssTab(BssIdx + 1, BssNr)
    <3>1. /\ NothingNew /\ UNCHANGED <<exec, asking, requests>> /\ Place'
          /\ Cntl' \in {"WAIT_JOIN", "IDLE"}
      BY <1>0, <2>0, <2>2, Iterates DEF Bss, Place
    <3>2. QED
      BY <1>0, <2>0, <2>1, <3>1 DEF MachineTypes, ThreadTypes, Bss, Attempting, apVars, apThread
  <2>3. CASE StaTake(<<>>, <<>>) /\ UNCHANGED <<Cntl, BssIdx, BssNr>>
    <3>1. NothingNew /\ UNCHANGED <<exec, asking, requests>>
      BY <2>0, <2>3, Sends, StaTakes
    <3>2. QED
      BY <1>0, <2>0, <2>1, <2>3, <3>1 DEF MachineTypes, ThreadTypes, Bss, Place, apVars, apThread
  <2>4. QED
    BY <1>12, <2>2, <2>3 DEF PeerDeauthAction
<1>13. CASE StaIgnored
  <2>1. /\ staQ # <<>> /\ StaTake(<<>>, <<>>)
        /\ UNCHANGED <<Cntl, Sync, Auth, Assoc, BssIdx, BssNr, Bssid, INFRA_ON, sta, timers>>
    BY <1>13 DEF StaIgnored, machines, bss, link
  <2>2. NothingNew /\ UNCHANGED <<exec, asking, requests>>
    BY <2>1, Sends, StaTakes
  <2>3. QED
    BY <1>0, <2>1, <2>2 DEF StaKept, MachineTypes, ThreadTypes, Bss, Place, apVars, apThread
<1>14. QED
  BY <1>1, <1>2, <1>3, <1>4, <1>5, <1>6, <1>7, <1>8, <1>9, <1>10, <1>11, <1>12, <1>13

\* What the queues gain from the timer thread, the ioctls and the beacons, and
\* what they lose on the air.
LEMMA Puts ==
  ASSUME NEW q \in Seq(Messages)
  PROVE  /\ \A t \in Timeouts \union {"DISASSOC_REQ", "RESET_CONF", "OID_802_11_SSID", "EAPOL_START",
                                      "PEER_DISASSOC_REQ", "PEER_DEAUTH"} :
              Quietly(q, Append(q, Msg(t)))
         /\ Quietly(q, q)
<1>1. \A t \in Timeouts \union {"DISASSOC_REQ", "RESET_CONF", "OID_802_11_SSID", "EAPOL_START",
                                "PEER_DISASSOC_REQ", "PEER_DEAUTH"} : Fine(Msg(t))
  BY FineMsg DEF MsgTypes, KeyFrames, MgmtFrames, Timeouts
<1>2. QED
  BY <1>1, Quiets

\* What the timer thread does beside the MLME thread.
LEMMA TimerSteps ==
  ASSUME TypeOK, UNCHANGED apVars, Fire \/ StaCallback
  PROVE  NothingNew /\ StaKept /\ StaMachines'
<1> USE DEF StaMachines
<1>0. MachineTypes /\ ThreadTypes /\ Bss /\ staQ \in Seq(Messages) /\ apQ \in Seq(Messages)
  BY DEF TypeOK, QueueTypes, Bss, Place
<1>1. nonce' = nonce /\ UNCHANGED <<Sync, Auth, Assoc, BssIdx, BssNr, Bssid, INFRA_ON, sta, asking>>
  BY DEF Fire, StaCallback, Timeout, AuthTimeout, LinkDownExecTest, LinkDownExecEnqueue,
         LinkDownExecSet, TimerUnchanged, machines, bss, link
<1>2. StaKept /\ Bss'
  BY <1>0, <1>1 DEF StaKept, Bss, Place
<1>3. Cntl' \in {Cntl, "WAIT_DISASSOC"} /\ timers' \subseteq timers
  BY DEF Fire, StaCallback, Timeout, AuthTimeout, LinkDownExecTest, LinkDownExecEnqueue,
         LinkDownExecSet
<1>4. exec' \in timers \union {"none", "cls2err", "enqueue", "set"}
  BY DEF Fire, StaCallback, Timeout, AuthTimeout, LinkDownExecTest, LinkDownExecEnqueue,
         LinkDownExecSet
<1>5. MachineTypes' /\ ThreadTypes'
  BY <1>0, <1>1, <1>3, <1>4 DEF MachineTypes, ThreadTypes, apVars, apThread
<1>6. Quietly(staQ, staQ') /\ Quietly(apQ, apQ')
  <2>1. CASE Fire \/ LinkDownExecTest \/ LinkDownExecSet
    BY <1>0, <2>1, Quiets DEF Fire, LinkDownExecTest, LinkDownExecSet
  <2>2. CASE Timeout
    BY <1>0, <2>2, Puts DEF Timeout
  <2>3. CASE AuthTimeout
    <3>1. CASE UNCHANGED <<staQ, apQ>>
      BY <1>0, <3>1, Puts
    <3>2. CASE /\ apQ' = IF ForMe THEN Append(apQ, Msg("PEER_DEAUTH")) ELSE apQ
               /\ staQ' = Append(staQ, Msg("AUTH_TIMEOUT"))
      BY <1>0, <3>2, Puts DEF Timeouts
    <3>3. QED
      BY <2>3, <3>1, <3>2 DEF AuthTimeout
  <2>4. CASE LinkDownExecEnqueue
    BY <1>0, <2>4, Puts DEF LinkDownExecEnqueue
  <2>5. QED
    BY <2>1, <2>2, <2>3, <2>4 DEF StaCallback
<1>7. QED
  BY <1>1, <1>2, <1>5, <1>6 DEF NothingNew

\* What a request does, and a frame that is lost.
LEMMA RequestSteps ==
  ASSUME TypeOK, UNCHANGED apVars,
         \/ Set_SSID_Proc \/ Set_SSID_ProcEnqueue \/ MlmeAutoReconnectLastSSID
         \/ Lose /\ UNCHANGED staVars
  PROVE  NothingNew /\ StaKept /\ StaMachines'
<1> USE DEF StaMachines
<1>0. MachineTypes /\ ThreadTypes /\ Bss /\ staQ \in Seq(Messages) /\ apQ \in Seq(Messages)
  BY DEF TypeOK, QueueTypes, Bss, Place
<1>1. /\ nonce' = nonce /\ asking' \in BOOLEAN
      /\ UNCHANGED <<Cntl, Sync, Auth, Assoc, BssIdx, BssNr, Bssid, INFRA_ON, sta, timers, exec>>
  BY <1>0 DEF Set_SSID_Proc, Set_SSID_ProcEnqueue, MlmeAutoReconnectLastSSID, Lose, staVars,
         machines, bss, link, MachineTypes
<1>2. StaKept /\ MachineTypes' /\ ThreadTypes' /\ Bss'
  BY <1>0, <1>1 DEF StaKept, Bss, Place, MachineTypes, ThreadTypes, apVars, apThread
<1>3. Quietly(staQ, staQ') /\ Quietly(apQ, apQ')
  <2>1. CASE Set_SSID_Proc
    BY <1>0, <2>1, Puts DEF Set_SSID_Proc
  <2>2. CASE Set_SSID_ProcEnqueue \/ MlmeAutoReconnectLastSSID
    BY <1>0, <2>2, Puts DEF Set_SSID_ProcEnqueue, MlmeAutoReconnectLastSSID
  <2>3. CASE Lose
    BY <1>0, <2>3, Quiets DEF Lose
  <2>4. QED
    BY <2>1, <2>2, <2>3
<1>4. QED
  BY <1>1, <1>2, <1>3 DEF NothingNew

\* The entries keep their types where no key is made.
LEMMA BesideTypes ==
  ASSUME TypeOK, nonce' = nonce, StaKept, ApKept, ap' \in ApEntries
  PROVE  EntryTypes'
<1>1. /\ sta \in StaEntries /\ nonce \in Nat /\ Keys' = Keys /\ NoKey \in Keys
      /\ sta.PTK \in Keys /\ sta.Key \in Keys /\ ap.PTK \in Keys /\ ap.Key \in Keys
      /\ sta.since <= nonce /\ ap.since <= nonce /\ ap.ANonce <= nonce
  BY EntryFacts DEF Keys
<1>2. /\ sta' \in StaEntries /\ sta'.PTK \in {sta.PTK, NoKey} /\ sta'.Key \in {sta.Key, NoKey}
      /\ sta'.since \in {sta.since, 0}
  BY <1>1, StaKeptFields
<1>3. /\ ap'.PTK \in {ap.PTK, NoKey} /\ ap'.Key \in {ap.Key, NoKey}
      /\ ap'.since \in {ap.since, 0} /\ ap'.ANonce \in {ap.ANonce, 0}
  BY NoStationFields DEF ApKept
<1>4. 0 <= nonce
  BY <1>1
<1>5. QED
  BY <1>1, <1>2, <1>3, <1>4 DEF EntryTypes

\* A step of the station, or a loss, that makes no key.
LEMMA StaBeside ==
  ASSUME IndInv, UNCHANGED apVars, NothingNew, StaKept, StaMachines'
  PROVE  IndInv'
<1>1. TypeOK /\ Handshake /\ Guarded
  BY DEF IndInv, Handshake
<1>2. UNCHANGED <<ap, apTimers, apExec, apCount, overwritten>> /\ nonce' = nonce
  BY DEF apVars, apThread, NothingNew
<1>3. ApKept /\ ap' \in ApEntries
  BY <1>1, <1>2, EntryFacts DEF ApKept
<1>4. Handshake' /\ EntryTypes'
  BY <1>1, <1>2, <1>3, BesideInd, BesideTypes
<1>5. MachineTypes' /\ ThreadTypes' /\ Bss'
  BY DEF StaMachines
<1>6. QueueTypes'
  BY <1>1, <1>5, QuietTypes
<1>7. Guarded'
  BY <1>1, <1>2 DEF Guarded
<1>8. QED
  BY <1>4, <1>5, <1>6, <1>7 DEF IndInv, TypeOK, Handshake

\* The queues keep their type when a message of the handshake is taken or sent.
LEMMA StaQueueTypes ==
  ASSUME TypeOK, Bss', apQ' \in Seq(Messages), staQ' \in Seq(Messages),
         \A i \in 1 .. Len(staQ') : \/ Proper(staQ'[i])
                                    \/ \E j \in 1 .. Len(staQ) : staQ'[i] = staQ[j]
  PROVE  QueueTypes'
BY DEF QueueTypes, Bss, Place, TypeOK

\* The messages of a handshake are messages.
LEMMA HandshakeMessages ==
  /\ Msg("PEER_ASSOC_RSP") \in Messages /\ Conf("ASSOC_CONF", TRUE) \in Messages
  /\ \A t \in KeyFrames, r \in Nat, n \in Nat, k \in Nat \X Nat :
       KeyFrame(t, r, n, k) \in Messages /\ KeyFrame(t, r, n, k).t = t
<1>1. "PEER_ASSOC_RSP" \in MsgTypes /\ "ASSOC_CONF" \in MsgTypes /\ KeyFrames \subseteq MsgTypes
  BY DEF MsgTypes, MgmtFrames
<1>2. Msg("PEER_ASSOC_RSP") \in Messages
  BY <1>1 DEF Messages, Msg
<1>3. Conf("ASSOC_CONF", TRUE) \in Messages
  BY <1>1 DEF Messages, Conf
<1>4. \A t \in KeyFrames, r \in Nat, n \in Nat, k \in Nat \X Nat :
        KeyFrame(t, r, n, k) \in Messages /\ KeyFrame(t, r, n, k).t = t
  BY <1>1 DEF Messages, KeyFrame
<1>5. QED
  BY <1>2, <1>3, <1>4, Zenon

\* The association response is taken, and CNTL is told.
LEMMA AssocRspStep ==
  ASSUME IndInv, UNCHANGED apVars, PeerAssocRspAction
  PROVE  IndInv'
<1> DEFINE conf == Conf("ASSOC_CONF", TRUE)
<1>1. TypeOK /\ Handshake /\ Guarded
  BY DEF IndInv, Handshake
<1>2. MachineTypes /\ ThreadTypes /\ Bss /\ staQ \in Seq(Messages) /\ apQ \in Seq(Messages)
  BY <1>1 DEF TypeOK, QueueTypes, Bss, Place
<1>3. /\ staQ # <<>> /\ Head(staQ).t = "PEER_ASSOC_RSP" /\ sta' = Associated(sta)
      /\ staQ' = Tail(staQ) \o <<conf>> /\ apQ' = apQ \o <<>> /\ nonce' = nonce
      /\ UNCHANGED <<exec, asking, requests>>
      /\ Assoc' = "IDLE" /\ timers' = timers \ {"ASSOC_TIMEOUT"}
      /\ UNCHANGED <<Cntl, Sync, Auth, BssIdx, BssNr, Bssid, INFRA_ON>>
      /\ UNCHANGED <<ap, apTimers, apExec, apCount, overwritten>>
  BY Zenon DEF PeerAssocRspAction, StaTake, StaGets, bss, apVars, apThread
<1>4. conf \in Messages
  BY HandshakeMessages, Zenon
<1>5. conf.t = "ASSOC_CONF" /\ Proper(conf)
  BY DEF Conf, Proper
<1> HIDE DEF conf
<1>6. staQ[1].t = "PEER_ASSOC_RSP" /\ apQ' = apQ
  BY <1>2, <1>3, ConcatEmptySeq, HeadTailProperties
<1>7. Gains(staQ, staQ', 1, conf)
  BY <1>2, <1>3, <1>4, Gained
<1>8. Handshake' /\ EntryTypes'
  BY <1>1, <1>3, <1>6, <1>7, AssociatedInd, Zenon DEF conf
<1>9. MachineTypes' /\ ThreadTypes' /\ Bss'
  BY <1>2, <1>3 DEF MachineTypes, ThreadTypes, Bss, Place
<1>10. QueueTypes'
  <2>1. staQ' \in Seq(Messages) /\ apQ' \in Seq(Messages)
    BY <1>2, <1>6, <1>7 DEF Gains, Follows
  <2>2. Comes(staQ, staQ', 1, conf)
    BY <1>7, GainOrigin
  <2>3. \A i \in 1 .. Len(staQ') : \/ Proper(staQ'[i])
                                   \/ \E j \in 1 .. Len(staQ) : staQ'[i] = staQ[j]
    BY <2>2, <1>5 DEF Comes
  <2>4. QED
    BY <1>1, <1>9, <2>1, <2>3, StaQueueTypes
<1>11. Guarded'
  BY <1>1, <1>3 DEF Guarded
<1>12. QED
  BY <1>8, <1>9, <1>10, <1>11 DEF IndInv, TypeOK, Handshake

\* What a key frame at the head of the station's queue carries.
LEMMA StaHead ==
  ASSUME TypeOK, Handshake, staQ # <<>>, staQ[1].t \in {"MSG1", "MSG3"}
  PROVE  staQ[1].r \in Nat /\ staQ[1].n \in Nat /\ nonce + 1 \in Nat
<1>1. 1 \in 1 .. Len(staQ) /\ nonce \in Nat
  BY EntryFacts, EmptySeq DEF TypeOK, QueueTypes
<1>2. QED
  BY <1>1 DEF Handshake, StaFrames

\* Message 1 is answered with message 2.
LEMMA Message1Step ==
  ASSUME IndInv, UNCHANGED apVars, PeerPairMsg1Action
  PROVE  IndInv'
<1> DEFINE m == staQ[1]
           key == <<m.n, nonce + 1>>
           two == KeyFrame("MSG2", m.r, nonce + 1, key)
<1>1. TypeOK /\ Handshake /\ Guarded
  BY DEF IndInv, Handshake
<1>2. MachineTypes /\ ThreadTypes /\ Bss /\ staQ \in Seq(Messages) /\ apQ \in Seq(Messages)
  BY <1>1 DEF TypeOK, QueueTypes, Bss, Place
<1>3. staQ # <<>> /\ Head(staQ) = staQ[1]
  BY <1>2, HeadTailProperties DEF PeerPairMsg1Action, StaGets
<1>4. /\ m.t = "MSG1" /\ StaSane(m) /\ staQ' = Tail(staQ) /\ apQ' = Append(apQ, two)
      /\ nonce' = nonce + 1
      /\ sta' = [sta EXCEPT !.R_Counter = m.r, !.PTK = key, !.WpaState = AS_PTKINIT_NEGOTIATING]
      /\ UNCHANGED <<exec, asking, Cntl, Sync, Auth, Assoc, BssIdx, BssNr, Bssid, INFRA_ON, timers>>
      /\ UNCHANGED <<ap, apTimers, apExec, apCount, overwritten>>
  BY <1>3 DEF PeerPairMsg1Action, StaGets, machines, bss, apVars, apThread
<1>5. m.r \in Nat /\ m.n \in Nat /\ nonce + 1 \in Nat
  BY <1>1, <1>3, <1>4, StaHead
<1>6. two \in Messages
  BY <1>5, HandshakeMessages DEF KeyFrames
<1>7. Gains(apQ, apQ', 0, two) /\ Drops(staQ, staQ')
  <2> HIDE DEF two
  <2>1. QED
    BY <1>2, <1>3, <1>4, <1>6, Gained, Dropped
<1>8. Handshake' /\ EntryTypes'
  BY <1>1, <1>3, <1>4, <1>7, Message1Ind
<1>9. MachineTypes' /\ ThreadTypes' /\ Bss'
  BY <1>2, <1>4 DEF MachineTypes, ThreadTypes, Bss, Place
<1>10. QueueTypes'
  <2>1. staQ' \in Seq(Messages) /\ apQ' \in Seq(Messages)
    BY <1>7 DEF Gains, Follows, Drops
  <2>2. \A i \in 1 .. Len(staQ') : \E j \in 1 .. Len(staQ) : staQ'[i] = staQ[j]
    BY <1>7 DEF Drops
  <2>3. QED
    BY <1>1, <1>9, <2>1, <2>2, StaQueueTypes
<1>11. Guarded'
  BY <1>1, <1>4 DEF Guarded
<1>12. QED
  BY <1>8, <1>9, <1>10, <1>11 DEF IndInv, TypeOK, Handshake

\* Message 3 installs the key and is answered with message 4.
LEMMA Message3Step ==
  ASSUME IndInv, UNCHANGED apVars, PeerPairMsg3Action
  PROVE  IndInv'
<1> DEFINE m == staQ[1]
           four == KeyFrame("MSG4", m.r, 0, sta.PTK)
<1>1. TypeOK /\ Handshake /\ Guarded
  BY DEF IndInv, Handshake
<1>2. MachineTypes /\ ThreadTypes /\ Bss /\ staQ \in Seq(Messages) /\ apQ \in Seq(Messages)
  BY <1>1 DEF TypeOK, QueueTypes, Bss, Place
<1>3. staQ # <<>> /\ Head(staQ) = staQ[1]
  BY <1>2, HeadTailProperties DEF PeerPairMsg3Action, StaGets
<1>4. /\ m.t = "MSG3" /\ StaSane(m) /\ staQ' = Tail(staQ) \o <<>> /\ apQ' = apQ \o <<four>>
      /\ nonce' = nonce /\ sta' = Installed([sta EXCEPT !.R_Counter = m.r])
      /\ timers' = timers \ {"LINK_DOWN"}
      /\ UNCHANGED <<exec, asking, Cntl, Sync, Auth, Assoc, BssIdx, BssNr, Bssid, INFRA_ON>>
      /\ UNCHANGED <<ap, apTimers, apExec, apCount, overwritten>>
  BY <1>3 DEF PeerPairMsg3Action, StaGets, StaTake, machines, bss, apVars, apThread
<1>5. m.r \in Nat /\ sta.PTK \in Nat \X Nat
  BY <1>1, <1>3, <1>4, StaHead, EntryFacts DEF StaEntries
<1>6. four \in Messages
  BY <1>5, HandshakeMessages DEF KeyFrames
<1>7. Gains(apQ, apQ', 0, four) /\ Drops(staQ, staQ')
  <2> HIDE DEF four
  <2>1. QED
    BY <1>2, <1>3, <1>4, <1>6, Gained, Dropped
<1>8. Handshake' /\ EntryTypes'
  BY <1>1, <1>3, <1>4, <1>7, Message3Ind
<1>9. MachineTypes' /\ ThreadTypes' /\ Bss'
  BY <1>2, <1>4 DEF MachineTypes, ThreadTypes, Bss, Place
<1>10. QueueTypes'
  <2>1. staQ' \in Seq(Messages) /\ apQ' \in Seq(Messages)
    BY <1>7 DEF Gains, Follows, Drops
  <2>2. \A i \in 1 .. Len(staQ') : \E j \in 1 .. Len(staQ) : staQ'[i] = staQ[j]
    BY <1>7 DEF Drops
  <2>3. QED
    BY <1>1, <1>9, <2>1, <2>2, StaQueueTypes
<1>11. Guarded'
  BY <1>1, <1>4 DEF Guarded
<1>12. QED
  BY <1>8, <1>9, <1>10, <1>11 DEF IndInv, TypeOK, Handshake

\* Every step of the station.
LEMMA StaStep ==
  ASSUME IndInv, UNCHANGED apVars, StaNext
  PROVE  IndInv'
<1>1. TypeOK /\ Handshake
  BY DEF IndInv, Handshake
<1>2. CASE \/ Drop \/ CntlOidSsidProc \/ CntlWaitDisassocProc \/ CntlWaitJoinProc
           \/ CntlWaitAuthProc \/ CntlWaitAssocProc \/ MlmeRestartStateMachine
  BY <1>1, <1>2, CntlSteps, StaBeside
<1>3. CASE \/ MlmeJoinReqAction \/ PeerBeaconAtJoinAction \/ BeaconTimeoutAtJoinAction
           \/ MlmeAuthReqAction \/ PeerAuthRspAtSeq2Action \/ AuthTimeoutAction
           \/ MlmeAssocReqAction \/ AssocTimeoutAction
           \/ MlmeDisassocReqAction \/ DisassocTimeoutAction \/ PeerDisassocAction
           \/ PeerDeauthAction \/ StaIgnored
  BY <1>1, <1>3, MachineSteps, StaBeside
<1>4. CASE Fire \/ StaCallback
  BY <1>1, <1>4, TimerSteps, StaBeside
<1>5. CASE Set_SSID_Proc \/ Set_SSID_ProcEnqueue \/ MlmeAutoReconnectLastSSID
  BY <1>1, <1>5, RequestSteps, StaBeside
<1>6. CASE PeerAssocRspAction
  BY <1>6, AssocRspStep
<1>7. CASE PeerPairMsg1Action
  BY <1>7, Message1Step
<1>8. CASE PeerPairMsg3Action
  BY <1>8, Message3Step
<1>9. QED
  BY <1>2, <1>3, <1>4, <1>5, <1>6, <1>7, <1>8 DEF StaNext, StaHandler

-----------------------------------------------------------------------------
(***************************************************************************)
(* The steps of the access point, one by one.                              *)
(***************************************************************************)
ApThreads ==
  /\ apTimers \subseteq {"start", "retry"}
  /\ apExec \in {"none", "start", "started", "retry", "count", "message1", "deauth", "delete"}
  /\ apCount \in Nat /\ overwritten \in BOOLEAN

\* What the station's variables have to do with it.
LEMMA StaAway ==
  ASSUME TypeOK, UNCHANGED staVars, ApThreads'
  PROVE  MachineTypes' /\ ThreadTypes' /\ Bss' /\ sta' = sta
<1>1. UNCHANGED <<Cntl, Sync, Auth, Assoc, BssIdx, BssNr, Bssid, INFRA_ON, sta, timers, exec, asking>>
  BY DEF staVars, machines, bss, link
<1>2. MachineTypes /\ ThreadTypes /\ Bss
  BY DEF TypeOK, QueueTypes, Bss, Place
<1>3. QED
  BY <1>1, <1>2 DEF MachineTypes, ThreadTypes, Bss, Place, ApThreads

\* A step of the access point that makes no key.
LEMMA ApBeside ==
  ASSUME IndInv, UNCHANGED staVars, NothingNew, ApKept, ap' \in ApEntries, ApThreads', Guarded'
  PROVE  IndInv'
<1>1. TypeOK /\ Handshake
  BY DEF IndInv, Handshake
<1>2. MachineTypes' /\ ThreadTypes' /\ Bss' /\ sta' = sta
  BY <1>1, StaAway
<1>3. StaKept /\ nonce' = nonce
  BY <1>2 DEF StaKept, NothingNew
<1>4. Handshake' /\ EntryTypes' /\ QueueTypes'
  BY <1>1, <1>2, <1>3, BesideInd, BesideTypes, QuietTypes
<1>5. QED
  BY <1>2, <1>4 DEF IndInv, TypeOK, Handshake

\* A step of the access point that has to do with a key.
LEMMA ApMakes ==
  ASSUME IndInv, UNCHANGED staVars, Handshake', EntryTypes', ApThreads', Guarded',
         apQ' \in Seq(Messages), staQ' \in Seq(Messages),
         \A i \in 1 .. Len(staQ') : \/ Proper(staQ'[i])
                                    \/ \E j \in 1 .. Len(staQ) : staQ'[i] = staQ[j]
  PROVE  IndInv'
<1>1. TypeOK
  BY DEF IndInv
<1>2. MachineTypes' /\ ThreadTypes' /\ Bss'
  BY <1>1, StaAway
<1>3. QueueTypes'
  BY <1>1, <1>2, StaQueueTypes
<1>4. QED
  BY <1>2, <1>3 DEF IndInv, TypeOK, Handshake

\* The message is consumed; what is sent is fine.
LEMMA ApTakes ==
  ASSUME TypeOK, apQ # <<>>, NEW frames, ApTake(frames), FineSeq(frames), nonce' = nonce
  PROVE  NothingNew /\ UNCHANGED <<apExec, apCount, overwritten>>
<1>1. staQ \in Seq(Messages) /\ apQ \in Seq(Messages)
  BY DEF TypeOK, QueueTypes
<1>2. apQ' = Tail(apQ) /\ staQ' = staQ \o frames /\ UNCHANGED <<apExec, apCount, overwritten>>
  BY DEF ApTake, apThread
<1>3. Quietly(staQ, staQ \o frames) /\ Quietly(apQ, Tail(apQ))
  BY <1>1, Quiets
<1>4. QED
  BY <1>2, <1>3 DEF NothingNew

\* What is left of the queue after its head is as old as it was.
LEMMA TailOlder ==
  ASSUME NEW q \in Seq(Messages), q # <<>>
  PROVE  Older(q, Tail(q)) /\ Tail(q) \in Seq(Messages)
<1> DEFINE p == Tail(q)
<1>1. Drops(q, p)
  BY Dropped
<1> HIDE DEF p
<1>2. Older(q, p) /\ p \in Seq(Messages)
  BY <1>1 DEF Drops, Older
<1>3. QED
  BY <1>2 DEF p

\* The queue that gains a message of a handshake.
LEMMA SentTypes ==
  ASSUME NEW m, Proper(m), Gains(staQ, staQ', 0, m)
  PROVE  /\ staQ' \in Seq(Messages)
         /\ \A i \in 1 .. Len(staQ') : \/ Proper(staQ'[i])
                                       \/ \E j \in 1 .. Len(staQ) : staQ'[i] = staQ[j]
<1>1. Comes(staQ, staQ', 0, m)
  BY GainOrigin
<1>2. QED
  BY <1>1 DEF Comes, Gains, Follows

\* Changes of the entry that a handshake does not see.
LEMMA KeptFields ==
  ASSUME ap \in ApEntries, apCount \in Nat
  PROVE  /\ ap' = NoStation \/ ap' = ap => ApKept /\ ap' \in ApEntries
         /\ ap' = [ap EXCEPT !.Sst = "AUTH"] =>
              ApKept /\ ap' \in ApEntries /\ ap'.WpaState = ap.WpaState
              /\ ap'.ReTryCounter = ap.ReTryCounter
         /\ ap' = [ap EXCEPT !.Running = FALSE] =>
              ApKept /\ ap' \in ApEntries /\ ap'.WpaState = ap.WpaState
              /\ ap'.ReTryCounter = ap.ReTryCounter
         /\ ap' = [ap EXCEPT !.ReTryCounter = apCount] =>
              ApKept /\ ap' \in ApEntries /\ ap'.WpaState = ap.WpaState
              /\ ap'.ReTryCounter = apCount
<1>1. ASSUME ap' = NoStation \/ ap' = ap PROVE ApKept /\ ap' \in ApEntries
  BY <1>1, NoStationFields DEF ApKept
<1>2. ASSUME ap' = [ap EXCEPT !.Sst = "AUTH"]
      PROVE  ApKept /\ ap' \in ApEntries /\ ap'.WpaState = ap.WpaState
             /\ ap'.ReTryCounter = ap.ReTryCounter
  BY <1>2 DEF ApKept, ApEntries
<1>3. ASSUME ap' = [ap EXCEPT !.Running = FALSE]
      PROVE  ApKept /\ ap' \in ApEntries /\ ap'.WpaState = ap.WpaState
             /\ ap'.ReTryCounter = ap.ReTryCounter
  BY <1>3 DEF ApKept, ApEntries
<1>4. ASSUME ap' = [ap EXCEPT !.ReTryCounter = apCount]
      PROVE  ApKept /\ ap' \in ApEntries /\ ap'.WpaState = ap.WpaState
             /\ ap'.ReTryCounter = apCount
  BY <1>4 DEF ApKept, ApEntries
<1>5. QED
  BY <1>1, <1>2, <1>3, <1>4

\* The entry is deleted.
LEMMA Deleted ==
  ASSUME MacTableDeleteEntry, ap \in ApEntries, UNCHANGED <<apCount, overwritten>>, ApThreads,
         apExec' \in {apExec, "none"}
  PROVE  ApKept /\ ap' \in ApEntries /\ ApThreads' /\ Guarded'
<1>1. ap' = NoStation /\ apTimers' = {}
  BY DEF MacTableDeleteEntry
<1>2. ApKept /\ ap' \in ApEntries
  BY <1>1, KeptFields DEF ApThreads
<1>3. ap'.WpaState = AS_NOTUSE
  BY <1>1, NoStationFields
<1>4. Guarded'
  BY <1>3 DEF Guarded, AS_NOTUSE, AS_PTKSTART, AS_PTKINIT_NEGOTIATING
<1>5. QED
  BY <1>1, <1>2, <1>4 DEF ApThreads

\* The MLME thread's steps that make no key.
LEMMA ApPlainHandler ==
  ASSUME IndInv, UNCHANGED staVars,
         \/ APPeerAuthReqAtIdleAction \/ APPeerLeaves \/ ApIgnored \/ APChkCls2Cls3Err
         \/ ap_cmm_peer_assoc_req_action /\ ap.Sst = "NONE"
         \/ WpaEAPOLStartAction /\ (ap.Sst = "NONE" \/ ap.PortSecured \/ ap.WpaState >= AS_PTKSTART)
  PROVE  IndInv'
<1>1. TypeOK /\ Guarded /\ ap \in ApEntries /\ ApThreads
  BY EntryFacts DEF IndInv, TypeOK, ThreadTypes, ApThreads
<1>2. CASE APPeerAuthReqAtIdleAction
  <2>1. /\ apQ # <<>> /\ ap' = [ap EXCEPT !.Sst = "AUTH"] /\ ApTake(<<Msg("PEER_AUTH_EVEN")>>)
        /\ nonce' = nonce /\ apTimers' = apTimers
    BY <1>2 DEF APPeerAuthReqAtIdleAction, ApGets
  <2>2. NothingNew /\ UNCHANGED <<apExec, apCount, overwritten>>
    BY <1>1, <2>1, Sends, ApTakes
  <2>3. /\ ApKept /\ ap' \in ApEntries /\ ap'.WpaState = ap.WpaState
        /\ ap'.ReTryCounter = ap.ReTryCounter
    BY <1>1, <2>1, KeptFields DEF ApThreads
  <2>4. Guarded' /\ ApThreads'
    BY <1>1, <2>1, <2>2, <2>3 DEF Guarded, ApThreads
  <2>5. QED
    BY <2>2, <2>3, <2>4, ApBeside
<1>3. CASE APPeerLeaves
  <2>1. apQ # <<>> /\ MacTableDeleteEntry /\ ApTake(<<>>) /\ nonce' = nonce
    BY <1>3 DEF APPeerLeaves, ApGets
  <2>2. NothingNew /\ UNCHANGED <<apExec, apCount, overwritten>>
    BY <1>1, <2>1, Sends, ApTakes
  <2>3. ApKept /\ ap' \in ApEntries /\ ApThreads' /\ Guarded'
    BY <1>1, <2>1, <2>2, Deleted
  <2>4. QED
    BY <2>2, <2>3, ApBeside
<1>4. CASE APChkCls2Cls3Err
  <2>1. /\ apQ # <<>> /\ MacTableDeleteEntry /\ ApTake(<<Msg(ClsErr[ap.Sst])>>) /\ nonce' = nonce
        /\ ap.Sst \in DOMAIN ClsErr
    BY <1>4 DEF APChkCls2Cls3Err, ApGets
  <2>2. ClsErr[ap.Sst] \in {"PEER_DISASSOC_REQ", "PEER_DEAUTH"}
    BY <2>1 DEF ClsErr
  <2>3. FineSeq(<<Msg(ClsErr[ap.Sst])>>)
    BY <2>2, Sends
  <2>4. NothingNew /\ UNCHANGED <<apExec, apCount, overwritten>>
    BY <1>1, <2>1, <2>3, ApTakes
  <2>5. ApKept /\ ap' \in ApEntries /\ ApThreads' /\ Guarded'
    BY <1>1, <2>1, <2>4, Deleted
  <2>6. QED
    BY <2>4, <2>5, ApBeside
<1>5. CASE apQ # <<>> /\ ApTake(<<>>) /\ UNCHANGED <<nonce, ap, apTimers>>
  <2>1. NothingNew /\ UNCHANGED <<apExec, apCount, overwritten>>
    BY <1>1, <1>5, Sends, ApTakes
  <2>2. ApKept /\ ap' \in ApEntries
    BY <1>1, <1>5, KeptFields DEF ApThreads
  <2>3. Guarded' /\ ApThreads'
    BY <1>1, <1>5, <2>1 DEF Guarded, ApThreads
  <2>4. QED
    BY <2>1, <2>2, <2>3, ApBeside
<1>6. CASE ApIgnored
  BY <1>5, <1>6 DEF ApIgnored, ApGets
<1>7. CASE ap_cmm_peer_assoc_req_action /\ ap.Sst = "NONE"
  BY <1>5, <1>7 DEF ap_cmm_peer_assoc_req_action, ApGets
<1>8. CASE WpaEAPOLStartAction /\ (ap.Sst = "NONE" \/ ap.PortSecured \/ ap.WpaState >= AS_PTKSTART)
  <2>1. ~(ap.WpaState < AS_PTKSTART) \/ ap.Sst = "NONE" \/ ap.PortSecured
    BY <1>1, <1>8 DEF ApEntries, AS_PTKSTART, AS_NOTUSE, AS_PTKINITDONE
  <2>2. QED
    BY <1>5, <1>8, <2>1 DEF WpaEAPOLStartAction, ApGets
<1>9. QED
  BY <1>2, <1>3, <1>4, <1>6, <1>7, <1>8

\* Message 1 is not sent again: the state is no longer the one it is sent in.
Refused ==
  /\ ap.Sst = "NONE" \/ ap.WpaState \notin {AS_INITPSK, AS_PTKSTART}
  /\ apExec' = "none" /\ UNCHANGED <<air, ap, apTimers, apCount, overwritten>>

\* The timer thread's steps that make no key, and a station that is sent away.
LEMMA ApPlainTimer ==
  ASSUME IndInv, UNCHANGED staVars,
         \/ ApFire \/ EnqueueStartForPSKExec \/ CountRetry \/ WPARetryExec
         \/ MlmeDeAuthAction \/ KickOut
         \/ apExec = "message1" /\ Refused
  PROVE  IndInv'
<1> USE DEF AS_NOTUSE, AS_INITPSK, AS_PTKSTART, AS_PTKINIT_NEGOTIATING, AS_PTKINITDONE
<1>1. /\ TypeOK /\ Guarded /\ ap \in ApEntries /\ ApThreads /\ nonce \in Nat
      /\ staQ \in Seq(Messages) /\ apQ \in Seq(Messages)
  BY EntryFacts DEF IndInv, TypeOK, ThreadTypes, ApThreads, QueueTypes
<1>2. UNCHANGED <<staQ, apQ, nonce>> => NothingNew
  BY <1>1, Quiets DEF NothingNew
<1>3. ap.Sst = "NONE" => ap.WpaState = AS_NOTUSE
  BY DEF IndInv, ApKeys
<1>4. CASE ApFire
  <2>1. /\ UNCHANGED <<staQ, apQ, nonce, ap, apCount, overwritten>> /\ apExec = "none"
        /\ \E t \in apTimers : apTimers' = apTimers \ {t} /\ apExec' = t
    BY <1>4 DEF ApFire
  <2>2. ApKept /\ ap' \in ApEntries
    BY <1>1, <2>1, KeptFields DEF ApThreads
  <2>3. Guarded' /\ ApThreads'
    BY <1>1, <2>1 DEF Guarded, ApThreads
  <2>4. QED
    BY <1>2, <2>1, <2>2, <2>3, ApBeside
<1>5. CASE EnqueueStartForPSKExec
  <2>1. CASE /\ apExec = "start" /\ apExec' = "started"
             /\ apQ' = IF ap.Sst # "NONE" /\ ap.WpaState < AS_PTKSTART /\ ap.Running
                       THEN Append(apQ, Msg("EAPOL_START")) ELSE apQ
             /\ UNCHANGED <<staQ, nonce, faults, ap, apTimers, apCount, overwritten>>
    <3>1. NothingNew
      BY <1>1, <2>1, Puts DEF NothingNew
    <3>2. ApKept /\ ap' \in ApEntries
      BY <1>1, <2>1, KeptFields DEF ApThreads
    <3>3. Guarded' /\ ApThreads'
      BY <1>1, <2>1 DEF Guarded, ApThreads
    <3>4. QED
      BY <3>1, <3>2, <3>3, ApBeside
  <2>2. CASE /\ apExec = "started" /\ apExec' = "none" /\ ap' = [ap EXCEPT !.Running = FALSE]
             /\ UNCHANGED <<air, apTimers, apCount, overwritten>>
    <3>1. NothingNew
      BY <1>2, <2>2 DEF air
    <3>2. /\ ApKept /\ ap' \in ApEntries /\ ap'.WpaState = ap.WpaState
          /\ ap'.ReTryCounter = ap.ReTryCounter
      BY <1>1, <2>2, KeptFields DEF ApThreads
    <3>3. Guarded' /\ ApThreads'
      BY <1>1, <2>2, <3>2 DEF Guarded, ApThreads
    <3>4. QED
      BY <3>1, <3>2, <3>3, ApBeside
  <2>3. QED
    BY <1>5, <2>1, <2>2 DEF EnqueueStartForPSKExec
<1>6. CASE WPARetryExec
  <2>1. /\ apExec = "count" /\ NothingNew /\ apTimers' = apTimers /\ apCount' = 0
        /\ ap' = [ap EXCEPT !.ReTryCounter = apCount]
        /\ apExec' = IF ap.Sst = "NONE" THEN "none" ELSE RetryDecision(apCount)
        /\ overwritten' = (overwritten \/ apCount # ap.ReTryCounter + 1)
    BY <1>2, <1>6 DEF WPARetryExec, air
  <2>2. /\ ApKept /\ ap' \in ApEntries /\ ap'.WpaState = ap.WpaState
        /\ ap'.ReTryCounter = apCount
    BY <1>1, <2>1, KeptFields DEF ApThreads
  <2>3. ap.ReTryCounter \in Nat /\ PEER_MSG1_RETRIES \in Nat /\ apCount \in Nat
    BY <1>1, ApAssumption DEF ApEntries, ApThreads
  <2>4. ApThreads'
    BY <1>1, <2>1 DEF ApThreads, RetryDecision
  <2>5. Guarded'
    <3> SUFFICES ASSUME ~overwritten, apCount = ap.ReTryCounter + 1,
                        ap.WpaState \in {AS_PTKSTART, AS_PTKINIT_NEGOTIATING}
                 PROVE  IF ap.WpaState = AS_PTKSTART THEN apExec' \in {"deauth", "message1"}
                        ELSE apExec' = "deauth" /\ apCount > PEER_MSG1_RETRIES
      <4>1. ~overwritten' => ~overwritten /\ apCount = ap.ReTryCounter + 1
        BY <2>1, Zenon
      <4>2. QED
        BY <4>1, <2>1, <2>2 DEF Guarded
    <3>1. apExec' = RetryDecision(apCount)
      BY <1>3, <2>1
    <3>2. ap.WpaState = AS_PTKINIT_NEGOTIATING => apCount > PEER_MSG1_RETRIES
      BY <1>1, <2>3 DEF Guarded
    <3>3. QED
      BY <3>1, <3>2 DEF RetryDecision
  <2>6. QED
    BY <2>1, <2>2, <2>4, <2>5, ApBeside
<1>7. CASE MlmeDeAuthAction
  <2>1. CASE /\ apExec = "deauth" /\ apExec' = "delete" /\ staQ' = Append(staQ, Msg("PEER_DEAUTH"))
             /\ UNCHANGED <<apQ, nonce, faults, ap, apTimers, apCount, overwritten>>
    <3>1. NothingNew
      BY <1>1, <2>1, Puts DEF NothingNew
    <3>2. ApKept /\ ap' \in ApEntries
      BY <1>1, <2>1, KeptFields DEF ApThreads
    <3>3. Guarded' /\ ApThreads'
      BY <1>1, <2>1 DEF Guarded, ApThreads
    <3>4. QED
      BY <3>1, <3>2, <3>3, ApBeside
  <2>2. CASE apExec' = "none" /\ MacTableDeleteEntry /\ UNCHANGED <<air, apCount, overwritten>>
    <3>1. NothingNew
      BY <1>2, <2>2 DEF air
    <3>2. QED
      BY <1>1, <2>2, <3>1, Deleted, ApBeside
  <2>3. QED
    BY <1>7, <2>1, <2>2 DEF MlmeDeAuthAction
<1>8. CASE KickOut
  <2>1. /\ MacTableDeleteEntry /\ UNCHANGED <<apQ, nonce, apExec, apCount, overwritten>>
        /\ \/ staQ' = Append(staQ, Msg("PEER_DISASSOC_REQ"))
           \/ staQ' = Append(staQ, Msg("PEER_DEAUTH"))
    BY <1>8 DEF KickOut, apThread
  <2>2. NothingNew
    BY <1>1, <2>1, Puts DEF NothingNew
  <2>3. ApKept /\ ap' \in ApEntries /\ ApThreads' /\ Guarded'
    BY <1>1, <2>1, Deleted
  <2>4. QED
    BY <2>2, <2>3, ApBeside
<1>9. CASE CountRetry
  <2>1. /\ apExec = "retry" /\ NothingNew /\ UNCHANGED <<ap, apTimers, overwritten>>
        /\ \/ ap.Sst = "NONE" /\ apExec' = "none" /\ apCount' = apCount
           \/ apExec' = "count" /\ apCount' = ap.ReTryCounter + 1
    BY <1>2, <1>9 DEF CountRetry, air
  <2>2. ApKept /\ ap' \in ApEntries
    BY <1>1, <2>1, KeptFields DEF ApThreads
  <2>3. ap.ReTryCounter + 1 \in Nat
    BY <1>1 DEF ApEntries
  <2>4. Guarded' /\ ApThreads'
    BY <1>1, <1>3, <2>1, <2>3 DEF Guarded, ApThreads
  <2>5. QED
    BY <2>1, <2>2, <2>4, ApBeside
<1>10. CASE apExec = "message1" /\ Refused
  <2>1. NothingNew /\ UNCHANGED <<ap, apTimers, apCount, overwritten>> /\ apExec' = "none"
    BY <1>2, <1>10 DEF Refused, air
  <2>2. ApKept /\ ap' \in ApEntries
    BY <1>1, <2>1, KeptFields DEF ApThreads
  <2>3. ap.WpaState # AS_PTKSTART
    BY <1>3, <1>10 DEF Refused
  <2>4. Guarded' /\ ApThreads'
    BY <1>1, <1>10, <2>1, <2>3 DEF Guarded, ApThreads
  <2>5. QED
    BY <2>1, <2>2, <2>4, ApBeside
<1>11. QED
  BY <1>4, <1>5, <1>6, <1>7, <1>8, <1>9, <1>10

\* What every step of the access point that makes a key starts from.
LEMMA ApBefore ==
  ASSUME IndInv
  PROVE  /\ TypeOK /\ Handshake /\ Guarded /\ ApThreads
         /\ ap \in ApEntries /\ nonce \in Nat /\ nonce + 1 \in Nat
         /\ ap.R_Counter \in Nat /\ ap.R_Counter + 1 \in Nat /\ ap.ANonce \in Nat
         /\ staQ \in Seq(Messages) /\ apQ \in Seq(Messages)
         /\ (UNCHANGED staVars => sta' = sta)
BY EntryFacts DEF IndInv, Handshake, TypeOK, ThreadTypes, ApThreads, QueueTypes, staVars, link

\* An association request of a station that is known.
LEMMA AssocReqStep ==
  ASSUME IndInv, UNCHANGED staVars, ap_cmm_peer_assoc_req_action, ap.Sst # "NONE"
  PROVE  IndInv'
<1> DEFINE rsp == Msg("PEER_ASSOC_RSP")
<1>1. /\ apQ # <<>> /\ ap' = NewAssociation(ap) /\ nonce' = nonce
      /\ apTimers' = (IF ap.Running THEN apTimers ELSE apTimers \union {"start"})
      /\ apQ' = Tail(apQ) /\ staQ' = staQ \o <<rsp>> /\ UNCHANGED <<apExec, apCount, overwritten>>
  BY DEF ap_cmm_peer_assoc_req_action, ApGets, ApTake, apThread
<1>2. rsp \in Messages /\ Proper(rsp)
  BY HandshakeMessages DEF Msg, Proper
<1>3. Gains(staQ, staQ', 0, rsp) /\ Older(apQ, apQ') /\ apQ' \in Seq(Messages)
  <2> HIDE DEF rsp
  <2>1. QED
    BY <1>1, <1>2, ApBefore, Gained, TailOlder
<1>4. Handshake' /\ EntryTypes'
  BY <1>1, <1>3, ApBefore, NewAssociationInd
<1>5. ap'.WpaState = AS_INITPSK
  BY <1>1, ApBefore, NewAssociationFields
<1>6. Guarded'
  BY <1>5 DEF Guarded, AS_INITPSK, AS_PTKSTART, AS_PTKINIT_NEGOTIATING
<1>7. ApThreads'
  BY <1>1, ApBefore DEF ApThreads
<1> HIDE DEF rsp
<1>8. /\ staQ' \in Seq(Messages)
      /\ \A i \in 1 .. Len(staQ') : \/ Proper(staQ'[i])
                                    \/ \E j \in 1 .. Len(staQ) : staQ'[i] = staQ[j]
  BY <1>2, <1>3, SentTypes
<1>9. QED
  BY <1>3, <1>4, <1>6, <1>7, <1>8, ApMakes

\* Message 1 is sent and its retry armed.
LEMMA SendsMessage1 ==
  ASSUME IndInv, UNCHANGED staVars, NEW e \in ApEntries, ap' = Message1(e), nonce' = nonce + 1,
         Gains(staQ, staQ', 0, KeyFrame("MSG1", e.R_Counter + 1, nonce + 1, NoKey)),
         Older(apQ, apQ'), apQ' \in Seq(Messages),
         e.Sst = ap.Sst, e.PTK = ap.PTK, e.Key = ap.Key, e.PortSecured = ap.PortSecured,
         e.since = ap.since, e.Sst # "NONE",
         e.R_Counter = ap.R_Counter \/ ap.WpaState < AS_PTKSTART,
         apTimers' = apTimers \union {"retry"}, ApThreads'
  PROVE  IndInv'
<1> DEFINE one == KeyFrame("MSG1", e.R_Counter + 1, nonce + 1, NoKey)
<1>1. Handshake' /\ EntryTypes'
  BY ApBefore, SentMessage1Ind
<1>2. ap'.WpaState = AS_PTKSTART
  BY ApBefore, SentMessage1Fields
<1>3. Guarded'
  BY <1>2 DEF Guarded, AS_PTKSTART, AS_PTKINIT_NEGOTIATING
<1>4. Proper(one)
  BY DEF KeyFrame, Proper
<1> HIDE DEF one
<1>5. /\ staQ' \in Seq(Messages)
      /\ \A i \in 1 .. Len(staQ') : \/ Proper(staQ'[i])
                                    \/ \E j \in 1 .. Len(staQ) : staQ'[i] = staQ[j]
  BY <1>4, SentTypes DEF one
<1>6. QED
  BY <1>1, <1>3, <1>5, ApMakes

\* The queued start of the handshake.
LEMMA EAPOLStartStep ==
  ASSUME IndInv, UNCHANGED staVars, WpaEAPOLStartAction,
         ~(ap.Sst = "NONE" \/ ap.PortSecured \/ ap.WpaState >= AS_PTKSTART)
  PROVE  IndInv'
<1> DEFINE e == [ap EXCEPT !.R_Counter = 0, !.ReTryCounter = 0]
           one == KeyFrame("MSG1", 1, nonce + 1, NoKey)
<1>1. /\ apQ # <<>> /\ ap' = Message1(e) /\ nonce' = nonce + 1 /\ ap.Sst # "NONE"
      /\ ap.WpaState < AS_PTKSTART /\ apTimers' = apTimers \union {"retry"}
      /\ apQ' = Tail(apQ) /\ staQ' = staQ \o <<one>> /\ UNCHANGED <<apExec, apCount, overwritten>>
  BY DEF WpaEAPOLStartAction, ApGets, ApTake, apThread
<1>2. /\ e \in ApEntries /\ e.R_Counter = 0 /\ e.Sst = ap.Sst /\ e.PTK = ap.PTK /\ e.Key = ap.Key
      /\ e.PortSecured = ap.PortSecured /\ e.since = ap.since
  BY ApBefore DEF ApEntries
<1>3. one \in Messages
  BY ApBefore, HandshakeMessages, NoKeyPair DEF KeyFrames
<1>4. Gains(staQ, staQ', 0, one) /\ Older(apQ, apQ') /\ apQ' \in Seq(Messages)
  <2> HIDE DEF one
  <2>1. QED
    BY <1>1, <1>3, ApBefore, Gained, TailOlder
<1>5. Gains(staQ, staQ', 0, KeyFrame("MSG1", e.R_Counter + 1, nonce + 1, NoKey))
  <2> HIDE DEF e
  <2>1. e.R_Counter + 1 = 1
    BY <1>2
  <2>2. QED
    BY <1>4, <2>1
<1>6. ApThreads'
  BY <1>1, ApBefore DEF ApThreads
<1> HIDE DEF e, one
<1>7. QED
  BY <1>1, <1>2, <1>4, <1>5, <1>6, SendsMessage1

\* The retry timer sends message 1 again.
LEMMA Start4WayStep ==
  ASSUME IndInv, UNCHANGED staVars, WPAStart4WayHS, ~Refused
  PROVE  IndInv'
<1> DEFINE one == KeyFrame("MSG1", ap.R_Counter + 1, nonce + 1, NoKey)
<1>1. /\ ap' = Message1(ap) /\ nonce' = nonce + 1 /\ apTimers' = apTimers \union {"retry"}
      /\ apQ' = apQ /\ staQ' = Append(staQ, one) /\ apExec' = "none" /\ ap.Sst # "NONE"
      /\ UNCHANGED <<apCount, overwritten>>
  BY DEF WPAStart4WayHS, Refused
<1>2. one \in Messages
  BY ApBefore, HandshakeMessages, NoKeyPair DEF KeyFrames
<1> HIDE DEF one
<1>3. Gains(staQ, staQ', 0, one)
  BY <1>1, <1>2, ApBefore, Gained
<1>4. Older(apQ, apQ') /\ apQ' \in Seq(Messages)
  BY <1>1, ApBefore DEF Older
<1>5. ApThreads'
  BY <1>1, ApBefore DEF ApThreads
<1>6. ap \in ApEntries
  BY ApBefore
<1>7. QED
  BY <1>1, <1>3, <1>4, <1>5, <1>6, SendsMessage1 DEF one

\* Message 2, whether or not it passes the check.
LEMMA Message2Step ==
  ASSUME IndInv, UNCHANGED staVars, PeerPairMsg2Action
  PROVE  IndInv'
<1> DEFINE m == apQ[1]
           ptk == <<ap.ANonce, m.n>>
           three == KeyFrame("MSG3", ap.R_Counter + 1, ap.ANonce, ptk)
<1>1. apQ # <<>> /\ Head(apQ) = m /\ sta' = sta
  BY ApBefore, HeadTailProperties DEF PeerPairMsg2Action, ApGets
<1>2. /\ m.t = "MSG2" /\ ap.Sst = "ASSOC" /\ ap.WpaState >= AS_PTKSTART /\ nonce' = nonce
      /\ apQ' = Tail(apQ) /\ UNCHANGED <<apExec, apCount, overwritten>>
  BY <1>1 DEF PeerPairMsg2Action, ApGets, ApTake, apThread
<1>3. Older(apQ, apQ') /\ apQ' \in Seq(Messages)
  BY <1>1, <1>2, ApBefore, TailOlder
<1>4. m.n \in Nat
  <2>1. 1 \in 1 .. Len(apQ) /\ nonce \in Nat
    BY <1>1, ApBefore, EmptySeq
  <2>2. m.k \in Keys /\ m.n = m.k[2]
    BY <1>2, <2>1, ApBefore DEF Handshake, ApFrames
  <2>3. QED
    BY <2>1, <2>2 DEF Keys
<1>5. CASE ap' = [ap EXCEPT !.PTK = ptk] /\ ApTake(<<>>) /\ UNCHANGED apTimers
  <2>1. staQ' = staQ
    BY <1>5, ApBefore, ConcatEmptySeq DEF ApTake
  <2>2. Handshake' /\ EntryTypes'
    BY <1>1, <1>2, <1>3, <1>5, <2>1, ApBefore, StoredInd
  <2>3. ap'.WpaState = ap.WpaState /\ ap'.ReTryCounter = ap.ReTryCounter
    BY <1>5, ApBefore DEF ApEntries
  <2>4. Guarded' /\ ApThreads'
    BY <1>2, <1>5, <2>3, ApBefore DEF Guarded, ApThreads
  <2>5. /\ staQ' \in Seq(Messages)
        /\ \A i \in 1 .. Len(staQ') : \E j \in 1 .. Len(staQ) : staQ'[i] = staQ[j]
    BY <2>1, ApBefore
  <2>6. QED
    BY <1>3, <2>2, <2>4, <2>5, ApMakes
<1>6. CASE /\ ApSane(m, ptk)
           /\ ap' = [ap EXCEPT !.PTK = ptk, !.R_Counter = ap.R_Counter + 1,
                               !.WpaState = AS_PTKINIT_NEGOTIATING,
                               !.ReTryCounter = PEER_MSG3_RETRY_TIMER_CTR]
           /\ apTimers' = apTimers \union {"retry"} /\ ApTake(<<three>>)
  <2>1. m.k = ptk /\ staQ' = staQ \o <<three>>
    BY <1>6 DEF ApSane, ApTake
  <2>2. three \in Messages /\ Proper(three)
    <3>1. three \in Messages
      BY <1>4, ApBefore, HandshakeMessages, ZenonT(30) DEF KeyFrames
    <3>2. Proper(three)
      BY DEF KeyFrame, Proper
    <3>3. QED
      BY <3>1, <3>2
  <2>3. Gains(staQ, staQ', 0, three)
    <3> HIDE DEF three
    <3>1. QED
      BY <2>1, <2>2, ApBefore, Gained
  <2>4. Handshake' /\ EntryTypes' /\ ap'.ReTryCounter > PEER_MSG1_RETRIES
    BY <1>1, <1>2, <1>3, <1>6, <2>1, <2>3, ApBefore, SentMessage3Ind
  <2>5. Guarded'
    BY <1>6, <2>4 DEF Guarded
  <2>6. ApThreads'
    BY <1>2, <1>6, ApBefore DEF ApThreads
  <2>7. /\ staQ' \in Seq(Messages)
        /\ \A i \in 1 .. Len(staQ') : \/ Proper(staQ'[i])
                                      \/ \E j \in 1 .. Len(staQ) : staQ'[i] = staQ[j]
    <3> HIDE DEF three
    <3>1. QED
      BY <2>2, <2>3, SentTypes
  <2>8. QED
    BY <1>3, <2>4, <2>5, <2>6, <2>7, ApMakes
<1>7. QED
  BY <1>1, <1>5, <1>6 DEF PeerPairMsg2Action

\* Message 4 opens the port.
LEMMA Message4Step ==
  ASSUME IndInv, UNCHANGED staVars, PeerPairMsg4Action
  PROVE  IndInv'
<1>1. apQ # <<>> /\ Head(apQ) = apQ[1] /\ sta' = sta
  BY ApBefore, HeadTailProperties DEF PeerPairMsg4Action, ApGets
<1>2. /\ apQ[1].t = "MSG4" /\ ap.WpaState >= AS_PTKINIT_NEGOTIATING
      /\ apQ[1].r = ap.R_Counter /\ apQ[1].k = ap.PTK /\ ap' = Secured(ap)
      /\ apTimers' = apTimers \ {"retry"} /\ nonce' = nonce
      /\ apQ' = Tail(apQ) /\ staQ' = staQ \o <<>> /\ UNCHANGED <<apExec, apCount, overwritten>>
  BY <1>1 DEF PeerPairMsg4Action, ApGets, ApTake, ApSane, apThread
<1>3. Older(apQ, apQ') /\ apQ' \in Seq(Messages)
  BY <1>1, <1>2, ApBefore, TailOlder
<1>4. staQ' = staQ
  BY <1>2, ApBefore, ConcatEmptySeq
<1>5. Handshake' /\ EntryTypes'
  BY <1>1, <1>2, <1>3, <1>4, ApBefore, SecuredInd
<1>6. ap'.WpaState = AS_PTKINITDONE
  BY <1>2, ApBefore, SecuredFields
<1>7. Guarded'
  BY <1>6 DEF Guarded, AS_PTKSTART, AS_PTKINIT_NEGOTIATING, AS_PTKINITDONE
<1>8. ApThreads'
  BY <1>2, ApBefore DEF ApThreads
<1>9. /\ staQ' \in Seq(Messages)
      /\ \A i \in 1 .. Len(staQ') : \E j \in 1 .. Len(staQ) : staQ'[i] = staQ[j]
  BY <1>4, ApBefore
<1>10. QED
  BY <1>3, <1>5, <1>7, <1>8, <1>9, ApMakes

\* Every step of the access point.
LEMMA ApStep ==
  ASSUME IndInv, UNCHANGED staVars, ApNext
  PROVE  IndInv'
<1>1. CASE \/ ApFire \/ EnqueueStartForPSKExec \/ CountRetry \/ WPARetryExec
           \/ MlmeDeAuthAction \/ KickOut
  BY <1>1, ApPlainTimer
<1>2. CASE WPAStart4WayHS
  <2>1. apExec = "message1"
    BY <1>2 DEF WPAStart4WayHS
  <2>2. QED
    BY <1>2, <2>1, ApPlainTimer, Start4WayStep
<1>3. CASE APPeerAuthReqAtIdleAction \/ APPeerLeaves \/ ApIgnored \/ APChkCls2Cls3Err
  BY <1>3, ApPlainHandler
<1>4. CASE ap_cmm_peer_assoc_req_action
  BY <1>4, ApPlainHandler, AssocReqStep
<1>5. CASE WpaEAPOLStartAction
  BY <1>5, ApPlainHandler, EAPOLStartStep
<1>6. CASE PeerPairMsg2Action
  BY <1>6, Message2Step
<1>7. CASE PeerPairMsg4Action
  BY <1>7, Message4Step
<1>8. QED
  BY <1>1, <1>2, <1>3, <1>4, <1>5, <1>6, <1>7 DEF ApNext, ApHandler, ApCallback

-----------------------------------------------------------------------------
(***************************************************************************)
(* The theorems.                                                           *)
(***************************************************************************)
LEMMA InitInd ==
  ASSUME Init
  PROVE  IndInv
<1> USE DEF AS_NOTUSE, AS_INITPSK, AS_PTKSTART, AS_PTKINIT_NEGOTIATING, AS_PTKINITDONE
<1>1. /\ staQ = <<>> /\ apQ = <<>> /\ nonce = 0 /\ sta = NoEntry /\ ap = NoStation
      /\ Len(staQ) = 0 /\ Len(apQ) = 0
  BY EmptySeq DEF Init, StaInit, ApInit
<1>2. Len(SsidBssTab) \in Nat
  BY StaAssumption, LenProperties
<1>3. MachineTypes /\ ThreadTypes /\ QueueTypes
  <2>1. MachineTypes
    BY DEF Init, StaInit, MachineTypes
  <2>2. ThreadTypes
    BY DEF Init, StaInit, ApInit, ThreadTypes
  <2>3. BssIdx = 0 /\ BssNr = 0 /\ Bssid = "gone"
    BY DEF Init, StaInit
  <2>4. QueueTypes
    BY <1>1, <1>2, <2>3 DEF QueueTypes
  <2>5. QED
    BY <2>1, <2>2, <2>4
<1>4. NoKey \in Keys
  BY <1>1 DEF NoKey, Keys
<1>5. EntryTypes
  BY <1>1, <1>4, NoEntryFields, NoStationFields DEF EntryTypes
<1>6. StaFrames /\ ApFrames /\ ClosedFirst
  BY <1>1 DEF StaFrames, ApFrames, ClosedFirst
<1>7. StaKeys /\ ApKeys /\ Guarded /\ Opened
  BY <1>1, NoEntryFields, NoStationFields DEF StaKeys, ApKeys, Guarded, Opened
<1>8. Epoch
  BY <1>1, NoStationFields DEF Epoch, Live
<1>9. QED
  BY <1>3, <1>5, <1>6, <1>7, <1>8 DEF IndInv, TypeOK

\* Every step keeps the invariant.
LEMMA Inductive ==
  ASSUME IndInv, [Next]_vars
  PROVE  IndInv'
<1>1. CASE StaNext /\ UNCHANGED apVars
  BY <1>1, StaStep
<1>2. CASE ApNext /\ UNCHANGED staVars
  BY <1>2, ApStep
<1>3. CASE Lose /\ UNCHANGED <<staVars, apVars>>
  <2>1. UNCHANGED staVars /\ UNCHANGED apVars
    BY <1>3
  <2>2. TypeOK
    BY DEF IndInv
  <2>3. QED
    BY <1>3, <2>1, <2>2, RequestSteps, StaBeside
<1>4. CASE UNCHANGED vars
  <2>1. UNCHANGED <<staQ, apQ, nonce, Cntl, Sync, Auth, Assoc, BssIdx, BssNr, Bssid, INFRA_ON, sta,
                    timers, exec, asking, ap, apTimers, apExec, apCount, overwritten>>
    BY <1>4 DEF vars, air, staVars, apVars, apThread, machines, bss, link
  <2>2. TypeOK /\ staQ \in Seq(Messages) /\ apQ \in Seq(Messages)
    BY DEF IndInv, TypeOK, QueueTypes
  <2>3. NothingNew /\ StaKept
    BY <2>1, <2>2, Quiets DEF NothingNew, StaKept
  <2>4. StaMachines'
    BY <2>1, <2>2 DEF StaMachines, TypeOK, MachineTypes, ThreadTypes, QueueTypes, Bss, Place
  <2>5. UNCHANGED apVars
    BY <1>4 DEF vars
  <2>6. QED
    BY <2>3, <2>4, <2>5, StaBeside
<1>5. QED
  BY <1>1, <1>2, <1>3, <1>4 DEF Next

\* The invariant gives the three properties.
LEMMA Implied ==
  ASSUME IndInv
  PROVE  KeysFresh /\ StaOpensFirst /\ KeysAgree
<1> USE DEF AS_NOTUSE, AS_INITPSK, AS_PTKSTART, AS_PTKINIT_NEGOTIATING, AS_PTKINITDONE
<1>1. KeysFresh
  BY DEF IndInv, StaKeys, ApKeys, KeysFresh
<1>2. StaOpensFirst
  BY DEF IndInv, Opened, StaOpensFirst
<1>3. KeysAgree
  <2> SUFFICES ASSUME Quiet, ~overwritten, sta.PortSecured, ap.PortSecured PROVE sta.Key = ap.Key
    BY DEF KeysAgree
  <2>1. ap.WpaState \in 0 .. 4
    BY EntryFacts DEF IndInv
  <2>2. ap.WpaState >= AS_PTKSTART /\ sta.Sst = "ASSOC"
    BY DEF IndInv, ApKeys, StaKeys
  <2>3. ap.WpaState \notin {AS_PTKSTART, AS_PTKINIT_NEGOTIATING}
    BY DEF IndInv, Guarded, Quiet
  <2>4. ap.WpaState = AS_PTKINITDONE
    BY <2>1, <2>2, <2>3
  <2>5. Agreed
    BY <2>4 DEF IndInv, Epoch, Live
  <2>6. QED
    BY <2>2, <2>4, <2>5 DEF Agreed
<1>4. QED
  BY <1>1, <1>2, <1>3

\* So it holds in every state.
LEMMA Invariance == Spec => []IndInv
<1>1. Init => IndInv
  BY InitInd
<1>2. IndInv /\ [Next]_vars => IndInv'
  BY Inductive
<1>3. QED
  BY <1>1, <1>2, PTL DEF Spec

\* Every machine of both sides stays in its states, keys and nonces are drawn
\* ones, and CNTL never asks SYNC to join a candidate past the end of the list
\* (IterateOnBssTab, MlmeJoinReqAction), for any list of candidates and any
\* number of requests and faults.
THEOREM TypeCorrect == Spec => []TypeOK
<1>1. IndInv => TypeOK
  BY DEF IndInv
<1>2. QED
  BY <1>1, Invariance, PTL

\* No key outlives the association it was made for: a late message of an earlier
\* handshake installs nothing (StaUpdateMacTableEntry, update_associated_mac_entry,
\* PeerWpaMessageSanity).
THEOREM Fresh == Spec => []KeysFresh
<1>1. IndInv => KeysFresh
  BY Implied
<1>2. QED
  BY <1>1, Invariance, PTL

\* The access point opens its port to a key only after the station did
\* (PeerPairMsg3Action sends message 4 after the installation, PeerPairMsg4Action).
THEOREM OpensFirst == Spec => []StaOpensFirst
<1>1. IndInv => StaOpensFirst
  BY Implied
<1>2. QED
  BY <1>1, Invariance, PTL

\* When nothing is under way, two open ports use one key, whatever was lost,
\* retried or begun by the retry timer between two messages, unless the retry
\* timer's ReTryCounter++ has undone the assignment in PeerPairMsg2Action.
THEOREM Agree == Spec => []KeysAgree
<1>1. IndInv => KeysAgree
  BY Implied
<1>2. QED
  BY <1>1, Invariance, PTL
=============================================================================
