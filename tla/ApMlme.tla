------------------------------- MODULE ApMlme -------------------------------
(***************************************************************************)
(* The access point's view of one station: its entry in the MAC table      *)
(* (mgmt/mgmt_entrytb.c), the authentication and association handlers      *)
(* (ap/ap_auth.c, ap/ap_assoc.c), and the authenticator of the WPA2-PSK    *)
(* handshake (common/cmm_wpa.c) with the two timers of the entry: the one  *)
(* that starts the handshake after an association and the one that retries *)
(* it or gives the station up (ap/ap_wpa.c). The callbacks run in the      *)
(* timer thread beside the MLME thread and take no lock; they find the     *)
(* entry by its place in the table, whoever it belongs to by then.         *)
(*                                                                         *)
(* An entry that is not in use has Sst "NONE". The group key handshake,    *)
(* 802.1X, access control, ageing and hostapd are left out; memory does    *)
(* not run out, and the adapter is neither reset nor halted.               *)
(***************************************************************************)
EXTENDS Air

CONSTANT PEER_MSG1_RETRIES \* PEER_MSG1_RETRY_TIMER_CTR + 3

ASSUME ApAssumption == PEER_MSG1_RETRIES \in Nat \ {0}

VARIABLES
  ap,        \* the entry
  apTimers,  \* its armed timers, "start" and "retry"
  apExec,    \* where the timer thread is in a callback
  apCount,   \* the count it is about to write back
  overwritten \* history: has it undone an assignment of ReTryCounter?

apThread == <<apExec, apCount, overwritten>>
apVars == <<ap, apTimers, apThread>>

\* since: history, the nonces drawn before the association.
NoStation ==
  [Sst |-> "NONE", WpaState |-> AS_NOTUSE, R_Counter |-> 0, ReTryCounter |-> 0, ANonce |-> 0,
   PTK |-> NoKey, Key |-> NoKey, PortSecured |-> FALSE, Running |-> FALSE, since |-> 0]

\* Larger than any count of the retries of message 1, so that the first expiry
\* after message 3 gives the station up.
PEER_MSG3_RETRY_TIMER_CTR == PEER_MSG1_RETRIES + 1

ApInit ==
  /\ ap = NoStation /\ apTimers = {}
  /\ apExec = "none" /\ apCount = 0 /\ overwritten = FALSE

-----------------------------------------------------------------------------
\* The message at the head is consumed and frames are sent.
ApTake(frames) ==
  /\ apQ' = Tail(apQ) /\ staQ' = staQ \o frames
  /\ UNCHANGED <<faults, apThread>>

\* Both timers are cancelled; a callback that has begun goes on.
MacTableDeleteEntry == ap' = NoStation /\ apTimers' = {}

\* MacTableInsertEntry when the station is new. An entry that is there keeps all
\* else: its keys, its port and the state of its handshake.
APPeerAuthReqAtIdleAction ==
  /\ ApGets("PEER_AUTH_ODD")
  /\ ap' = [ap EXCEPT !.Sst = "AUTH"]
  /\ ApTake(<<Msg("PEER_AUTH_EVEN")>>)
  /\ UNCHANGED <<nonce, apTimers>>

\* APPeerDisassocReqAction and APPeerDeauthReqAction.
APPeerLeaves ==
  /\ ApGets("PEER_DISASSOC_REQ") \/ ApGets("PEER_DEAUTH")
  /\ MacTableDeleteEntry
  /\ ApTake(<<>>)
  /\ UNCHANGED nonce

\* Mutant: the port and the key of the earlier association stay.
NewAssociationKeepsPort(e) ==
  [e EXCEPT !.Sst = "ASSOC", !.WpaState = AS_INITPSK, !.ReTryCounter = 0, !.Running = TRUE,
            !.since = nonce]

\* APBuildAssociation and update_associated_mac_entry: the replay counter, the
\* nonces and an armed retry timer are not touched.
NewAssociation(e) ==
  [e EXCEPT !.Sst = "ASSOC", !.WpaState = AS_INITPSK, !.PortSecured = FALSE, !.Key = NoKey,
            !.ReTryCounter = 0, !.Running = TRUE, !.since = nonce]

\* ap_cmm_peer_assoc_req_action. Running is EnqueueEapolStartTimerRunning: as
\* long as it is set the timer is taken to be armed.
ap_cmm_peer_assoc_req_action ==
  /\ ApGets("PEER_ASSOC_REQ")
  /\ \/ /\ ap.Sst = "NONE"
        /\ ApTake(<<>>) /\ UNCHANGED <<ap, apTimers>>
     \/ /\ ap.Sst # "NONE"
        /\ ap' = NewAssociation(ap)
        /\ apTimers' = IF ap.Running THEN apTimers ELSE apTimers \union {"start"}
        /\ ApTake(<<Msg("PEER_ASSOC_RSP")>>)
  /\ UNCHANGED nonce

\* A station is sent away: by APMlmeKickOutSta when the BSS is closed, or by
\* Set_DisConnectSta_Proc. Either is one step here; MlmeDeAuthAction below shows
\* what may come in between.
KickOut ==
  /\ ap.Sst # "NONE" /\ Fault
  /\ \/ staQ' = Append(staQ, Msg("PEER_DISASSOC_REQ"))
     \/ staQ' = Append(staQ, Msg("PEER_DEAUTH"))
  /\ MacTableDeleteEntry
  /\ UNCHANGED <<apQ, nonce, apThread>>

-----------------------------------------------------------------------------
(***************************************************************************)
(* The authenticator.                                                      *)
(***************************************************************************)
\* WPAStart4WayHS after its test of the state.
Message1(e) ==
  [e EXCEPT !.R_Counter = e.R_Counter + 1, !.ANonce = nonce + 1, !.WpaState = AS_PTKSTART]

\* The queued EAPOL-Start of the "start" timer.
WpaEAPOLStartAction ==
  /\ ApGets("EAPOL_START")
  /\ \/ /\ ap.Sst = "NONE" \/ ap.PortSecured \/ ap.WpaState >= AS_PTKSTART
        /\ ApTake(<<>>) /\ UNCHANGED <<nonce, ap, apTimers>>
     \/ /\ ap.Sst # "NONE" /\ ~ap.PortSecured /\ ap.WpaState < AS_PTKSTART
        /\ ap' = Message1([ap EXCEPT !.R_Counter = 0, !.ReTryCounter = 0])
        /\ nonce' = nonce + 1
        /\ apTimers' = apTimers \union {"retry"}
        /\ ApTake(<<KeyFrame("MSG1", 1, nonce + 1, NoKey)>>)

\* PeerWpaMessageSanity for the authenticator.
ApSane(m, ptk) == m.r = ap.R_Counter /\ m.k = ptk

\* The key is derived and stored before the message is checked.
PeerPairMsg2Action ==
  /\ ApGets("MSG2") /\ ap.Sst = "ASSOC" /\ ap.WpaState >= AS_PTKSTART
  /\ LET m == Head(apQ)
         ptk == <<ap.ANonce, m.n>>
         r == ap.R_Counter + 1
     IN \/ /\ ~ApSane(m, ptk)
           /\ ap' = [ap EXCEPT !.PTK = ptk]
           /\ ApTake(<<>>) /\ UNCHANGED apTimers
        \/ /\ ApSane(m, ptk)
           /\ ap' = [ap EXCEPT !.PTK = ptk, !.R_Counter = r, !.WpaState = AS_PTKINIT_NEGOTIATING,
                               !.ReTryCounter = PEER_MSG3_RETRY_TIMER_CTR]
           /\ apTimers' = apTimers \union {"retry"}
           /\ ApTake(<<KeyFrame("MSG3", r, ap.ANonce, ptk)>>)
  /\ UNCHANGED nonce

\* WPAInstallPairwiseKey, and the port opens.
Secured(e) == [e EXCEPT !.Key = e.PTK, !.WpaState = AS_PTKINITDONE, !.PortSecured = TRUE]

PeerPairMsg4Action ==
  /\ ApGets("MSG4") /\ ap.Sst = "ASSOC"
  /\ ap.WpaState >= AS_PTKINIT_NEGOTIATING /\ ApSane(Head(apQ), ap.PTK)
  /\ ap' = Secured(ap)
  /\ apTimers' = apTimers \ {"retry"}
  /\ ApTake(<<>>)
  /\ UNCHANGED nonce

ApIgnored ==
  /\ \/ ApGets("MSG2") /\ (ap.Sst # "ASSOC" \/ ap.WpaState < AS_PTKSTART)
     \/ ApGets("MSG4") /\ (\/ ap.Sst # "ASSOC" \/ ap.WpaState < AS_PTKINIT_NEGOTIATING
                           \/ ~ApSane(Head(apQ), ap.PTK))
  /\ ApTake(<<>>)
  /\ UNCHANGED <<nonce, ap, apTimers>>

\* The answer of APCls3errAction to a data frame in SST_AUTH, and of
\* APCls2errAction to one of a station that is not there.
ClsErr == [AUTH |-> "PEER_DISASSOC_REQ", NONE |-> "PEER_DEAUTH"]

\* APChkCls2Cls3Err when the key frame is received; ApIgnored has the frame that
\* was received before the association went.
APChkCls2Cls3Err ==
  /\ ApGets("MSG2") \/ ApGets("MSG4")
  /\ ap.Sst \in DOMAIN ClsErr
  /\ ApTake(<<Msg(ClsErr[ap.Sst])>>)
  /\ MacTableDeleteEntry
  /\ UNCHANGED nonce

-----------------------------------------------------------------------------
(***************************************************************************)
(* The timer thread.                                                       *)
(***************************************************************************)
ApFire ==
  /\ apExec = "none"
  /\ \E t \in apTimers : apTimers' = apTimers \ {t} /\ apExec' = t
  /\ Expires
  /\ UNCHANGED <<staQ, apQ, nonce, ap, apCount, overwritten>>

EnqueueStartForPSKExec ==
  /\ \/ /\ apExec = "start" /\ apExec' = "started"
        /\ apQ' = IF ap.Sst # "NONE" /\ ap.WpaState < AS_PTKSTART /\ ap.Running
                  THEN Append(apQ, Msg("EAPOL_START")) ELSE apQ
        /\ UNCHANGED <<staQ, nonce, faults, ap, apTimers>>
     \/ /\ apExec = "started" /\ apExec' = "none"
        /\ ap' = [ap EXCEPT !.Running = FALSE]
        /\ UNCHANGED <<air, apTimers>>
  /\ UNCHANGED <<apCount, overwritten>>

\* Mutant: message 1 is not sent again.
RetryDecisionForgets(n) ==
  IF n > PEER_MSG1_RETRIES THEN "deauth"
  ELSE IF ap.WpaState = AS_INITPSK THEN "message1" ELSE "none"

\* What WPARetryExec does with the count n: give up, or start over from message
\* 1 when the state still allows it.
RetryDecision(n) ==
  IF n > PEER_MSG1_RETRIES THEN "deauth"
  ELSE IF ap.WpaState \in {AS_INITPSK, AS_PTKSTART} THEN "message1" ELSE "none"

\* ReTryCounter++ reads the count ...
CountRetry ==
  /\ apExec = "retry"
  /\ \/ ap.Sst = "NONE" /\ apExec' = "none" /\ UNCHANGED apCount
     \/ ap.Sst # "NONE" /\ apExec' = "count" /\ apCount' = ap.ReTryCounter + 1
  /\ UNCHANGED <<air, ap, apTimers, overwritten>>

\* ... and writes it back, whatever the MLME thread has assigned in between. The
\* tests follow; an entry cleared meanwhile has no mode that is retried.
WPARetryExec ==
  /\ apExec = "count"
  /\ apExec' = IF ap.Sst = "NONE" THEN "none" ELSE RetryDecision(apCount)
  /\ ap' = [ap EXCEPT !.ReTryCounter = apCount] /\ apCount' = 0
  /\ overwritten' = (overwritten \/ apCount # ap.ReTryCounter + 1)
  /\ UNCHANGED <<air, apTimers>>

\* By now the entry may be in another state than at the tests: it is refused, or
\* was looked at before.
WPAStart4WayHS ==
  /\ apExec = "message1" /\ apExec' = "none"
  /\ \/ /\ ap.Sst = "NONE" \/ ap.WpaState \notin {AS_INITPSK, AS_PTKSTART}
        /\ UNCHANGED <<air, ap, apTimers>>
     \/ /\ ap.Sst # "NONE"
        /\ ap' = Message1(ap)
        /\ nonce' = nonce + 1
        /\ staQ' = Append(staQ, KeyFrame("MSG1", ap.R_Counter + 1, nonce + 1, NoKey))
        /\ apTimers' = apTimers \union {"retry"}
        /\ UNCHANGED <<apQ, faults>>
  /\ UNCHANGED <<apCount, overwritten>>

\* The frame is sent before the entry goes.
MlmeDeAuthAction ==
  /\ \/ /\ apExec = "deauth" /\ apExec' = "delete"
        /\ staQ' = Append(staQ, Msg("PEER_DEAUTH"))
        /\ UNCHANGED <<apQ, nonce, faults, ap, apTimers>>
     \/ /\ apExec = "delete" /\ apExec' = "none"
        /\ MacTableDeleteEntry
        /\ UNCHANGED <<air>>
  /\ UNCHANGED <<apCount, overwritten>>

-----------------------------------------------------------------------------
\* One message of the MLME thread.
ApHandler ==
  \/ APPeerAuthReqAtIdleAction \/ APPeerLeaves \/ ap_cmm_peer_assoc_req_action
  \/ WpaEAPOLStartAction \/ PeerPairMsg2Action \/ PeerPairMsg4Action \/ ApIgnored \/ APChkCls2Cls3Err

ApCallback == EnqueueStartForPSKExec \/ CountRetry \/ WPARetryExec \/ WPAStart4WayHS \/ MlmeDeAuthAction

ApNext == ApHandler \/ ApFire \/ ApCallback \/ KickOut
=============================================================================
