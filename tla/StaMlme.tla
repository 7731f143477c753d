------------------------------ MODULE StaMlme -------------------------------
(***************************************************************************)
(* The station's connection: the CNTL machine (sta/connect.c) and the      *)
(* SYNC, AUTH and ASSOC machines it drives with requests and waits for     *)
(* with confirmations, the timers that answer for a silent peer, the link  *)
(* state, and the supplicant of the WPA2-PSK handshake (common/cmm_wpa.c). *)
(*                                                                         *)
(* Every action that takes a message is one call of the state machine by   *)
(* the MLME thread. Timer callbacks run in the timer thread, one at a      *)
(* time: a fired timer leaves timers and its callback runs later, so a     *)
(* cancellation may come too late (TimerQ). Scanning, roaming, shared-key  *)
(* authentication and ad hoc networks are left out.                        *)
(***************************************************************************)
EXTENDS Air

CONSTANTS
  SsidBssTab,  \* the candidates of a request: "ap", or "gone" for one out of range
  MaxRequests  \* bound: connection requests

ASSUME StaAssumption ==
  /\ SsidBssTab \in Seq({"ap", "gone"}) /\ SsidBssTab # <<>>
  /\ MaxRequests \in Nat

VARIABLES
  Cntl, Sync, Auth, Assoc,  \* CurrState of the machines
  BssIdx, BssNr, Bssid,     \* MlmeAux: position in the candidates, their number, the one joined
  INFRA_ON, bConfigChanged,
  sta,                      \* the MAC table entry of the AP, and wdev's PortSecured
  timers,                   \* the armed timers
  exec,                     \* the callback the timer thread is in
  asking,                   \* Set_SSID_Proc has begun and not yet queued its request
  requests

machines == <<Sync, Auth, Assoc>>
bss      == <<BssIdx, BssNr, Bssid>>
link     == <<INFRA_ON, bConfigChanged, sta>>
staVars  == <<Cntl, machines, bss, link, timers, exec, asking, requests>>

\* since: history, the nonces drawn before the association.
NoEntry == [Sst |-> "NONE", WpaState |-> AS_NOTUSE, R_Counter |-> 0,
            PTK |-> NoKey, Key |-> NoKey, PortSecured |-> FALSE, since |-> 0]

Timeouts == {"BEACON_TIMEOUT", "AUTH_TIMEOUT", "ASSOC_TIMEOUT", "DISASSOC_TIMEOUT"}

StaInit ==
  /\ Cntl = "IDLE" /\ Sync = "IDLE" /\ Auth = "IDLE" /\ Assoc = "IDLE"
  /\ BssIdx = 0 /\ BssNr = 0 /\ Bssid = "gone"
  /\ INFRA_ON = FALSE /\ bConfigChanged = FALSE /\ sta = NoEntry
  /\ timers = {} /\ exec = "none" /\ asking = FALSE /\ requests = 0

-----------------------------------------------------------------------------
\* The message at the head is consumed, out is enqueued behind the others, and
\* frames are sent.
StaTake(out, frames) ==
  /\ staQ' = Tail(staQ) \o out
  /\ apQ' = apQ \o frames
  /\ UNCHANGED <<nonce, faults, exec, asking, requests>>

\* The states in which each machine has an action for a message; in the others
\* it is dropped. Messages not listed are never dropped.
Table ==
  [ OID_802_11_SSID  |-> [m |-> "Cntl",  s |-> {"IDLE"}],
    JOIN_CONF        |-> [m |-> "Cntl",  s |-> {"WAIT_JOIN"}],
    AUTH_CONF        |-> [m |-> "Cntl",  s |-> {"WAIT_AUTH", "WAIT_AUTH2"}],
    ASSOC_CONF       |-> [m |-> "Cntl",  s |-> {"WAIT_ASSOC"}],
    DISASSOC_CONF    |-> [m |-> "Cntl",  s |-> {"WAIT_DISASSOC"}],
    BEACON_TIMEOUT   |-> [m |-> "Sync",  s |-> {"JOIN_WAIT_BEACON"}],
    PEER_AUTH_EVEN   |-> [m |-> "Auth",  s |-> {"WAIT_SEQ2"}],
    AUTH_TIMEOUT     |-> [m |-> "Auth",  s |-> {"WAIT_SEQ2"}],
    PEER_ASSOC_RSP   |-> [m |-> "Assoc", s |-> {"WAIT_RSP"}],
    ASSOC_TIMEOUT    |-> [m |-> "Assoc", s |-> {"WAIT_RSP"}],
    DISASSOC_TIMEOUT |-> [m |-> "Assoc", s |-> {"DISASSOC_WAIT_RSP"}] ]

CurrState(m) == CASE m = "Cntl" -> Cntl [] m = "Sync" -> Sync [] m = "Auth" -> Auth [] OTHER -> Assoc

Accepts(t) == CurrState(Table[t].m) \in Table[t].s
\* A frame of another BSS is not for us.
ForMe == Bssid = "ap"

Drop ==
  /\ \E t \in DOMAIN Table :
       StaGets(t) /\ (~Accepts(t) \/ (t \in {"PEER_AUTH_EVEN", "PEER_ASSOC_RSP"} /\ ~ForMe))
  /\ StaTake(<<>>, <<>>)
  /\ UNCHANGED <<Cntl, machines, bss, link, timers>>

-----------------------------------------------------------------------------
(***************************************************************************)
(* The CNTL machine.                                                       *)
(***************************************************************************)
\* AuthParmFill and AssocParmFill: the request names the BSS it is meant for.
Req(t) == [t |-> t, bss |-> Bssid]

\* Mutant: one past the last candidate.
IterateOnBssTabPast(idx, nr) ==
  /\ BssIdx' = idx
  /\ IF idx <= nr
     THEN Cntl' = "WAIT_JOIN" /\ BssNr' = nr /\ StaTake(<<[t |-> "JOIN_REQ", idx |-> idx]>>, <<>>)
     ELSE Cntl' = "IDLE" /\ BssNr' = 0 /\ StaTake(<<>>, <<>>)

IterateOnBssTab(idx, nr) ==
  /\ BssIdx' = idx
  /\ IF idx < nr
     THEN Cntl' = "WAIT_JOIN" /\ BssNr' = nr /\ StaTake(<<[t |-> "JOIN_REQ", idx |-> idx]>>, <<>>)
     ELSE Cntl' = "IDLE" /\ BssNr' = 0 /\ StaTake(<<>>, <<>>)

\* Mutant: the entry of the AP stays.
LinkDownKeeps == INFRA_ON' = FALSE /\ UNCHANGED sta

\* Both kinds of LinkDown clear the entry of the AP and close the port.
LinkDown == INFRA_ON' = FALSE /\ sta' = NoEntry

CntlOidSsidProc ==
  /\ StaGets("OID_802_11_SSID") /\ Accepts("OID_802_11_SSID")
  /\ \/ /\ INFRA_ON /\ sta.PortSecured /\ ~bConfigChanged /\ SsidBssTab[1] = "ap"
        /\ BssNr' = Len(SsidBssTab)
        /\ StaTake(<<>>, <<>>)
        /\ UNCHANGED <<Cntl, BssIdx>>
     \/ /\ INFRA_ON /\ ~(sta.PortSecured /\ ~bConfigChanged /\ SsidBssTab[1] = "ap")
        /\ BssNr' = Len(SsidBssTab)
        /\ StaTake(<<Msg("DISASSOC_REQ")>>, <<>>)
        /\ Cntl' = "WAIT_DISASSOC"
        /\ UNCHANGED BssIdx
     \/ /\ ~INFRA_ON
        /\ IterateOnBssTab(0, Len(SsidBssTab))
  /\ UNCHANGED <<machines, Bssid, link, timers>>

CntlWaitDisassocProc ==
  /\ StaGets("DISASSOC_CONF") /\ Accepts("DISASSOC_CONF")
  /\ LinkDown
  /\ IterateOnBssTab(BssIdx + 1, BssNr)
  /\ UNCHANGED <<machines, Bssid, bConfigChanged, timers>>

CntlWaitJoinProc ==
  /\ StaGets("JOIN_CONF") /\ Accepts("JOIN_CONF")
  /\ \/ /\ Head(staQ).ok
        /\ StaTake(<<Req("AUTH_REQ")>>, <<>>)
        /\ Cntl' = "WAIT_AUTH"
        /\ UNCHANGED <<BssIdx, BssNr>>
     \/ ~Head(staQ).ok /\ IterateOnBssTab(BssIdx + 1, BssNr)
  /\ UNCHANGED <<machines, Bssid, link, timers>>

\* CntlWaitAuthProc and CntlWaitAuthProc2: a second attempt before the next BSS.
CntlWaitAuthProc ==
  /\ StaGets("AUTH_CONF") /\ Accepts("AUTH_CONF")
  /\ \/ /\ Head(staQ).ok
        /\ StaTake(<<Req("ASSOC_REQ")>>, <<>>)
        /\ Cntl' = "WAIT_ASSOC"
        /\ UNCHANGED <<BssIdx, BssNr>>
     \/ /\ ~Head(staQ).ok /\ Cntl = "WAIT_AUTH"
        /\ StaTake(<<Req("AUTH_REQ")>>, <<>>)
        /\ Cntl' = "WAIT_AUTH2"
        /\ UNCHANGED <<BssIdx, BssNr>>
     \/ ~Head(staQ).ok /\ Cntl = "WAIT_AUTH2" /\ IterateOnBssTab(BssIdx + 1, BssNr)
  /\ UNCHANGED <<machines, Bssid, link, timers>>

\* Mutant: LinkDownTimer is not armed.
LinkUpNoTimer ==
  /\ INFRA_ON' = TRUE /\ bConfigChanged' = FALSE
  /\ sta' = [sta EXCEPT !.PortSecured = FALSE]
  /\ timers' = timers \ {"DISASSOC_TIMEOUT"}

\* The station is associated but its port stays closed until the handshake ends,
\* for which LinkDownTimer waits. No disassociation is waited for any longer.
LinkUp ==
  /\ INFRA_ON' = TRUE /\ bConfigChanged' = FALSE
  /\ sta' = [sta EXCEPT !.PortSecured = FALSE]
  /\ timers' = (timers \ {"DISASSOC_TIMEOUT"}) \union {"LINK_DOWN"}

CntlWaitAssocProc ==
  /\ StaGets("ASSOC_CONF") /\ Accepts("ASSOC_CONF")
  /\ \/ /\ Head(staQ).ok
        /\ LinkUp
        /\ Cntl' = "IDLE"
        /\ StaTake(<<>>, <<>>)
        /\ UNCHANGED <<BssIdx, BssNr>>
     \/ /\ ~Head(staQ).ok
        /\ IterateOnBssTab(BssIdx + 1, BssNr)
        /\ UNCHANGED <<link, timers>>
  /\ UNCHANGED <<machines, Bssid>>

\* MT2_RESET_CONF, which MlmeHandler takes before it looks at the machine.
MlmeRestartStateMachine ==
  /\ StaGets("RESET_CONF")
  /\ StaTake(<<>>, <<>>)
  /\ Cntl' = "IDLE" /\ Sync' = "IDLE" /\ Auth' = "IDLE" /\ Assoc' = "IDLE"
  /\ timers' = timers \ Timeouts
  /\ UNCHANGED <<bss, link>>

-----------------------------------------------------------------------------
(***************************************************************************)
(* SYNC, AUTH and ASSOC: a request starts an exchange and its timer, and   *)
(* every way the exchange ends is a confirmation to CNTL.                  *)
(***************************************************************************)
MlmeJoinReqAction ==
  /\ StaGets("JOIN_REQ")
  /\ Bssid' = SsidBssTab[Head(staQ).idx + 1]
  /\ Sync' = "JOIN_WAIT_BEACON"
  /\ timers' = timers \union {"BEACON_TIMEOUT"}
  /\ StaTake(<<>>, <<>>)
  /\ UNCHANGED <<Cntl, Auth, Assoc, BssIdx, BssNr, link>>

\* A beacon of the BSS to join may arrive at any time.
PeerBeaconAtJoinAction ==
  /\ Sync = "JOIN_WAIT_BEACON" /\ Bssid = "ap"
  /\ Sync' = "IDLE"
  /\ timers' = timers \ {"BEACON_TIMEOUT"}
  /\ staQ' = Append(staQ, Conf("JOIN_CONF", TRUE))
  /\ UNCHANGED <<apQ, nonce, faults, exec, asking, requests, Cntl, Auth, Assoc, bss, link>>

BeaconTimeoutAtJoinAction ==
  /\ StaGets("BEACON_TIMEOUT") /\ Accepts("BEACON_TIMEOUT")
  /\ Sync' = "IDLE"
  /\ StaTake(<<Conf("JOIN_CONF", FALSE)>>, <<>>)
  /\ UNCHANGED <<Cntl, Auth, Assoc, bss, link, timers>>

MlmeAuthReqAction ==
  /\ StaGets("AUTH_REQ")
  /\ \/ /\ Auth = "IDLE"
        /\ Auth' = "WAIT_SEQ2"
        /\ timers' = timers \union {"AUTH_TIMEOUT"}
        /\ Bssid' = Head(staQ).bss
        /\ StaTake(<<>>, IF Bssid' = "ap" THEN <<Msg("PEER_AUTH_ODD")>> ELSE <<>>)
     \/ /\ Auth # "IDLE"  \* InvalidStateWhenAuth
        /\ Auth' = "IDLE"
        /\ StaTake(<<Conf("AUTH_CONF", FALSE)>>, <<>>)
        /\ UNCHANGED <<Bssid, timers>>
  /\ UNCHANGED <<Cntl, Sync, Assoc, BssIdx, BssNr, link>>

PeerAuthRspAtSeq2Action ==
  /\ StaGets("PEER_AUTH_EVEN") /\ Accepts("PEER_AUTH_EVEN") /\ ForMe
  /\ Auth' = "IDLE"
  /\ timers' = timers \ {"AUTH_TIMEOUT"}
  /\ StaTake(<<Conf("AUTH_CONF", TRUE)>>, <<>>)
  /\ UNCHANGED <<Cntl, Sync, Assoc, bss, link>>

AuthTimeoutAction ==
  /\ StaGets("AUTH_TIMEOUT") /\ Accepts("AUTH_TIMEOUT")
  /\ Auth' = "IDLE"
  /\ StaTake(<<Conf("AUTH_CONF", FALSE)>>, <<>>)
  /\ UNCHANGED <<Cntl, Sync, Assoc, bss, link, timers>>

\* RTMPWPARemoveAllKeys is left out: there is no key to remove (Link's NoKeyAtAssoc).
MlmeAssocReqAction ==
  /\ StaGets("ASSOC_REQ")
  /\ \/ /\ Assoc = "IDLE"
        /\ Assoc' = "WAIT_RSP"
        /\ timers' = timers \union {"ASSOC_TIMEOUT"}
        /\ Bssid' = Head(staQ).bss
        /\ StaTake(<<>>, IF Bssid' = "ap" THEN <<Msg("PEER_ASSOC_REQ")>> ELSE <<>>)
     \/ /\ Assoc # "IDLE"  \* InvalidStateWhenAssoc
        /\ Assoc' = "IDLE"
        /\ StaTake(<<Conf("ASSOC_CONF", FALSE)>>, <<>>)
        /\ UNCHANGED <<Bssid, timers>>
  /\ UNCHANGED <<Cntl, Sync, Auth, BssIdx, BssNr, link>>

\* StaUpdateMacTableEntry: the entry starts over; wdev's port is left alone.
Associated(e) ==
  [NoEntry EXCEPT !.Sst = "ASSOC", !.WpaState = AS_INITPSK,
                  !.PortSecured = e.PortSecured, !.since = nonce]

PeerAssocRspAction ==
  /\ StaGets("PEER_ASSOC_RSP") /\ Accepts("PEER_ASSOC_RSP") /\ ForMe
  /\ Assoc' = "IDLE"
  /\ timers' = timers \ {"ASSOC_TIMEOUT"}
  /\ sta' = Associated(sta)
  /\ StaTake(<<Conf("ASSOC_CONF", TRUE)>>, <<>>)
  /\ UNCHANGED <<Cntl, Sync, Auth, bss, INFRA_ON, bConfigChanged>>

\* Mutant: CNTL is not told.
AssocTimeoutActionSilent ==
  /\ StaGets("ASSOC_TIMEOUT") /\ Accepts("ASSOC_TIMEOUT")
  /\ Assoc' = "IDLE"
  /\ StaTake(<<>>, <<>>)
  /\ UNCHANGED <<Cntl, Sync, Auth, bss, link, timers>>

AssocTimeoutAction ==
  /\ StaGets("ASSOC_TIMEOUT") /\ Accepts("ASSOC_TIMEOUT")
  /\ Assoc' = "IDLE"
  /\ StaTake(<<Conf("ASSOC_CONF", FALSE)>>, <<>>)
  /\ UNCHANGED <<Cntl, Sync, Auth, bss, link, timers>>

\* The station leaves with both frames and waits for nothing but the timer.
MlmeDisassocReqAction ==
  /\ StaGets("DISASSOC_REQ")
  /\ \/ /\ Assoc = "IDLE"
        /\ Assoc' = "DISASSOC_WAIT_RSP"
        /\ timers' = timers \union {"DISASSOC_TIMEOUT"}
        /\ StaTake(<<>>, <<Msg("PEER_DISASSOC_REQ"), Msg("PEER_DEAUTH")>>)
     \/ /\ Assoc # "IDLE"  \* InvalidStateWhenDisassociate
        /\ Assoc' = "IDLE"
        /\ StaTake(<<Msg("DISASSOC_CONF")>>, <<>>)
        /\ UNCHANGED timers
  /\ UNCHANGED <<Cntl, Sync, Auth, bss, link>>

DisassocTimeoutAction ==
  /\ StaGets("DISASSOC_TIMEOUT") /\ Accepts("DISASSOC_TIMEOUT")
  /\ Assoc' = "IDLE"
  /\ StaTake(<<Msg("DISASSOC_CONF")>>, <<>>)
  /\ UNCHANGED <<Cntl, Sync, Auth, bss, link, timers>>

\* When CNTL already waits for a disassociation, this is taken for its end.
PeerDisassocAction ==
  /\ StaGets("PEER_DISASSOC_REQ")
  /\ \/ /\ ~INFRA_ON
        /\ StaTake(<<>>, <<>>)
        /\ UNCHANGED <<Assoc, link>>
     \/ /\ INFRA_ON /\ Assoc' = "IDLE"
        /\ IF Cntl = "WAIT_DISASSOC"
           THEN StaTake(<<Msg("DISASSOC_CONF")>>, <<>>) /\ UNCHANGED link
           ELSE StaTake(<<>>, <<>>) /\ LinkDown /\ UNCHANGED bConfigChanged
  /\ UNCHANGED <<Cntl, Sync, Auth, bss, timers>>

\* A deauthentication before the port was opened sends CNTL, whatever it is
\* doing, to the next candidate.
PeerDeauthAction ==
  /\ StaGets("PEER_DEAUTH")
  /\ IF INFRA_ON THEN LinkDown ELSE UNCHANGED <<INFRA_ON, sta>>
  /\ IF INFRA_ON /\ ~sta.PortSecured
     THEN IterateOnBssTab(BssIdx + 1, BssNr)
     ELSE StaTake(<<>>, <<>>) /\ UNCHANGED <<Cntl, BssIdx, BssNr>>
  /\ UNCHANGED <<machines, Bssid, bConfigChanged, timers>>

-----------------------------------------------------------------------------
(***************************************************************************)
(* The timer thread.                                                       *)
(***************************************************************************)
TimerUnchanged == UNCHANGED <<nonce, machines, bss, link, asking, requests>>

\* The thread takes an expired timer. From here a cancellation comes too late.
Fire ==
  /\ exec = "none"
  /\ \E t \in timers : timers' = timers \ {t} /\ exec' = t
  /\ Expires
  /\ TimerUnchanged /\ UNCHANGED <<staQ, apQ, Cntl>>

\* BeaconTimeout, AuthTimeout, AssocTimeout and DisassocTimeout.
Timeout ==
  /\ exec \in Timeouts /\ ~(exec = "AUTH_TIMEOUT" /\ Auth = "WAIT_SEQ2")
  /\ staQ' = Append(staQ, Msg(exec)) /\ exec' = "none"
  /\ TimerUnchanged /\ UNCHANGED <<apQ, Cntl, timers, faults>>

\* AuthTimeout when AUTH was waiting: the frame of Cls2errAction, to whatever
\* BSS is being joined by then, comes before the message.
AuthTimeout ==
  \/ /\ exec = "AUTH_TIMEOUT" /\ Auth = "WAIT_SEQ2" /\ exec' = "cls2err"
     /\ TimerUnchanged /\ UNCHANGED <<staQ, apQ, Cntl, timers, faults>>
  \/ /\ exec = "cls2err" /\ exec' = "none"
     /\ apQ' = IF ForMe THEN Append(apQ, Msg("PEER_DEAUTH")) ELSE apQ
     /\ staQ' = Append(staQ, Msg("AUTH_TIMEOUT"))
     /\ TimerUnchanged /\ UNCHANGED <<Cntl, timers, faults>>

\* LinkDownExec: the test, the request, and the new state of CNTL, without a
\* lock, beside the MLME thread.
LinkDownExecTest ==
  /\ exec = "LINK_DOWN"
  /\ exec' = IF ~sta.PortSecured /\ INFRA_ON THEN "enqueue" ELSE "none"
  /\ TimerUnchanged /\ UNCHANGED <<staQ, apQ, Cntl, timers, faults>>

LinkDownExecEnqueue ==
  /\ exec = "enqueue"
  /\ staQ' = Append(staQ, Msg("DISASSOC_REQ")) /\ exec' = "set"
  /\ TimerUnchanged /\ UNCHANGED <<apQ, Cntl, timers, faults>>

LinkDownExecSet ==
  /\ exec = "set"
  /\ Cntl' = "WAIT_DISASSOC" /\ exec' = "none"
  /\ TimerUnchanged /\ UNCHANGED <<staQ, apQ, timers, faults>>

-----------------------------------------------------------------------------
(***************************************************************************)
(* Requests: the user's, and the driver's own once the link is gone.       *)
(***************************************************************************)
\* The ioctl runs beside the MLME thread, which may clear bConfigChanged before
\* the request is in the queue.
Set_SSID_Proc ==
  /\ ~asking /\ asking' = TRUE
  /\ requests < MaxRequests /\ requests' = requests + 1
  /\ bConfigChanged' = TRUE
  /\ staQ' = IF Cntl # "IDLE" THEN Append(staQ, Msg("RESET_CONF")) ELSE staQ
  /\ UNCHANGED <<apQ, nonce, faults, Cntl, machines, bss, INFRA_ON, sta, timers, exec>>

Set_SSID_ProcEnqueue ==
  /\ asking /\ asking' = FALSE
  /\ staQ' = Append(staQ, Msg("OID_802_11_SSID"))
  /\ UNCHANGED <<apQ, nonce, faults, Cntl, machines, bss, link, timers, exec, requests>>

MlmeAutoReconnectLastSSID ==
  /\ requests < MaxRequests /\ requests' = requests + 1
  /\ requests > 0 /\ ~INFRA_ON /\ Cntl = "IDLE"
  /\ staQ' = Append(staQ, Msg("OID_802_11_SSID"))
  /\ UNCHANGED <<apQ, nonce, faults, Cntl, machines, bss, link, timers, exec, asking>>

-----------------------------------------------------------------------------
(***************************************************************************)
(* The supplicant.                                                         *)
(***************************************************************************)
\* PeerWpaMessageSanity for the supplicant: a larger counter, and the MIC made
\* with our key. Data frames of a BSS we are not in are not received.
StaSane(m) ==
  /\ INFRA_ON /\ sta.Sst = "ASSOC" /\ sta.WpaState >= AS_INITPSK
  /\ m.r > sta.R_Counter
  /\ m.t = "MSG3" => m.k = sta.PTK

StaIgnored ==
  /\ staQ # <<>> /\ Head(staQ).t \in KeyFrames /\ ~StaSane(Head(staQ))
  /\ StaTake(<<>>, <<>>)
  /\ UNCHANGED <<Cntl, machines, bss, link, timers>>

PeerPairMsg1Action ==
  /\ StaGets("MSG1") /\ StaSane(Head(staQ))
  /\ LET m == Head(staQ)
         key == <<m.n, nonce + 1>>
     IN /\ sta' = [sta EXCEPT !.R_Counter = m.r, !.PTK = key,
                              !.WpaState = AS_PTKINIT_NEGOTIATING]
        /\ nonce' = nonce + 1
        /\ staQ' = Tail(staQ)
        /\ apQ' = Append(apQ, KeyFrame("MSG2", m.r, nonce + 1, key))
  /\ UNCHANGED <<faults, exec, asking, requests, Cntl, machines, bss, INFRA_ON, bConfigChanged, timers>>

\* Mutant: a second handshake does not replace the key.
InstalledOnce(e) ==
  [e EXCEPT !.WpaState = AS_PTKINITDONE, !.PortSecured = TRUE,
            !.Key = IF e.Key = NoKey THEN e.PTK ELSE e.Key]

\* Mutant: message 4 is sent before the port opens.
InstalledLater(e) == [e EXCEPT !.WpaState = AS_PTKINITDONE, !.Key = e.PTK]

\* WPAInstallPairwiseKey and STA_PORT_SECURED.
Installed(e) ==
  [e EXCEPT !.WpaState = AS_PTKINITDONE, !.Key = e.PTK, !.PortSecured = TRUE]

\* The MIC covers the nonce, so the comparison of the nonces that follows it in
\* the code has nothing left to refuse.
PeerPairMsg3Action ==
  /\ StaGets("MSG3") /\ StaSane(Head(staQ))
  /\ sta' = Installed([sta EXCEPT !.R_Counter = Head(staQ).r])
  /\ timers' = timers \ {"LINK_DOWN"}
  /\ StaTake(<<>>, <<KeyFrame("MSG4", Head(staQ).r, 0, sta.PTK)>>)
  /\ UNCHANGED <<Cntl, machines, bss, INFRA_ON, bConfigChanged>>

-----------------------------------------------------------------------------
\* One message of the MLME thread.
StaHandler ==
  \/ Drop \/ CntlOidSsidProc \/ CntlWaitDisassocProc \/ CntlWaitJoinProc \/ CntlWaitAuthProc
  \/ CntlWaitAssocProc \/ MlmeRestartStateMachine
  \/ MlmeJoinReqAction \/ BeaconTimeoutAtJoinAction
  \/ MlmeAuthReqAction \/ PeerAuthRspAtSeq2Action \/ AuthTimeoutAction
  \/ MlmeAssocReqAction \/ PeerAssocRspAction \/ AssocTimeoutAction
  \/ MlmeDisassocReqAction \/ DisassocTimeoutAction \/ PeerDisassocAction \/ PeerDeauthAction
  \/ StaIgnored \/ PeerPairMsg1Action \/ PeerPairMsg3Action

StaCallback == Timeout \/ AuthTimeout \/ LinkDownExecTest \/ LinkDownExecEnqueue \/ LinkDownExecSet

StaNext ==
  StaHandler \/ PeerBeaconAtJoinAction \/ Fire \/ StaCallback
  \/ Set_SSID_Proc \/ Set_SSID_ProcEnqueue \/ MlmeAutoReconnectLastSSID
=============================================================================
