-------------------------------- MODULE Link --------------------------------
(***************************************************************************)
(* A station and an access point, both running this driver, over a medium  *)
(* that may lose frames: from the request to connect to the open ports,    *)
(* and from any loss, kick or new request back to an agreement.            *)
(***************************************************************************)
EXTENDS StaMlme, ApMlme

vars == <<air, staVars, apVars>>

Init ==
  /\ staQ = <<>> /\ apQ = <<>> /\ nonce = 0 /\ faults = 0
  /\ StaInit /\ ApInit

Next ==
  \/ StaNext /\ UNCHANGED apVars
  \/ ApNext /\ UNCHANGED staVars
  \/ Lose /\ UNCHANGED <<staVars, apVars>>

Spec == Init /\ [][Next]_vars

\* The four threads and an ioctl that has begun go on, and an armed timer expires.
\* Requests, beacons and faults may happen or not.
Fairness ==
  /\ WF_vars(StaHandler /\ UNCHANGED apVars)
  /\ WF_vars((Fire \/ StaCallback) /\ UNCHANGED apVars)
  /\ WF_vars(Set_SSID_ProcEnqueue /\ UNCHANGED apVars)
  /\ WF_vars(ApHandler /\ UNCHANGED staVars)
  /\ WF_vars((ApFire \/ ApCallback) /\ UNCHANGED staVars)

FairSpec == Spec /\ Fairness

-----------------------------------------------------------------------------
Attempting == {"WAIT_JOIN", "WAIT_AUTH", "WAIT_AUTH2", "WAIT_ASSOC"}

Keys == (0 .. nonce) \X (0 .. nonce)

\* What the two queues carry.
MsgTypes ==
  KeyFrames \union MgmtFrames \union Timeouts \union
  {"OID_802_11_SSID", "JOIN_REQ", "AUTH_REQ", "ASSOC_REQ", "DISASSOC_REQ", "JOIN_CONF",
   "AUTH_CONF", "ASSOC_CONF", "DISASSOC_CONF", "RESET_CONF", "EAPOL_START"}

Messages ==
  [t : MsgTypes] \union [t : MsgTypes, ok : BOOLEAN] \union [t : MsgTypes, idx : Nat]
  \union [t : MsgTypes, bss : {"ap", "gone"}]
  \union [t : MsgTypes, r : Nat, n : Nat, k : Nat \X Nat]

StaEntries ==
  [Sst : {"NONE", "ASSOC"}, WpaState : AS_NOTUSE .. AS_PTKINITDONE, R_Counter : Nat,
   PTK : Nat \X Nat, Key : Nat \X Nat, PortSecured : BOOLEAN, since : Nat]

ApEntries ==
  [Sst : {"NONE", "AUTH", "ASSOC"}, WpaState : AS_NOTUSE .. AS_PTKINITDONE, R_Counter : Nat,
   ReTryCounter : Nat, ANonce : Nat, PTK : Nat \X Nat, Key : Nat \X Nat,
   PortSecured : BOOLEAN, Running : BOOLEAN, since : Nat]

MachineTypes ==
  /\ Cntl \in {"IDLE", "WAIT_DISASSOC"} \union Attempting
  /\ Sync \in {"IDLE", "JOIN_WAIT_BEACON"} /\ Auth \in {"IDLE", "WAIT_SEQ2"}
  /\ Assoc \in {"IDLE", "WAIT_RSP", "DISASSOC_WAIT_RSP"}
  /\ asking \in BOOLEAN /\ INFRA_ON \in BOOLEAN

ThreadTypes ==
  /\ timers \subseteq Timeouts \union {"LINK_DOWN"}
  /\ exec \in Timeouts \union {"none", "cls2err", "LINK_DOWN", "enqueue", "set"}
  /\ apTimers \subseteq {"start", "retry"}
  /\ apExec \in {"none", "start", "started", "retry", "count", "message1", "deauth", "delete"}
  /\ apCount \in Nat /\ overwritten \in BOOLEAN

EntryTypes ==
  /\ nonce \in Nat /\ sta \in StaEntries /\ ap \in ApEntries
  /\ sta.PTK \in Keys /\ sta.Key \in Keys /\ ap.PTK \in Keys /\ ap.Key \in Keys
  /\ sta.since <= nonce /\ ap.since <= nonce /\ ap.ANonce <= nonce

\* A request is for a candidate that exists, or names a BSS.
Proper(m) ==
  /\ m.t = "JOIN_REQ" => m.idx \in 0 .. Len(SsidBssTab) - 1
  /\ m.t \in {"AUTH_REQ", "ASSOC_REQ"} => m.bss \in {"ap", "gone"}

QueueTypes ==
  /\ staQ \in Seq(Messages) /\ apQ \in Seq(Messages)
  /\ BssIdx \in Nat /\ BssNr \in 0 .. Len(SsidBssTab) /\ Bssid \in {"ap", "gone"}
  /\ \A i \in 1 .. Len(staQ) : Proper(staQ[i])

\* Every machine is in one of its states, nonces and keys are drawn ones, the
\* queues carry messages, and CNTL asks SYNC only for a candidate that exists.
TypeOK == MachineTypes /\ ThreadTypes /\ EntryTypes /\ QueueTypes

Quiet == staQ = <<>> /\ apQ = <<>> /\ "retry" \notin apTimers /\ apExec = "none"

\* When nothing is under way and both ports are open, both sides encrypt with the
\* same key: whatever was lost, retried, or begun by the retry timer between two
\* messages (PeerPairMsg3Action, PeerPairMsg4Action, WPARetryExec). Nothing is
\* claimed once ReTryCounter++ has undone the assignment in PeerPairMsg2Action:
\* then nobody sends the station away whose message 4 is lost.
KeysAgree ==
  Quiet /\ ~overwritten /\ sta.PortSecured /\ ap.PortSecured => sta.Key = ap.Key

\* A station that asks to associate has no key any more, so the removal of all
\* keys that MlmeAssocReqAction begins with never takes one that is in use: each
\* way back to an association leads through LinkDown, whatever resets, late
\* confirmations and LinkDownExec make of the requests in the queue.
NoKeyAtAssoc == StaGets("ASSOC_REQ") => sta.Key = NoKey

\* A key in use was made for the association it is used in: its own nonce was
\* drawn since, and the access point's port is open only with such a key. Nothing
\* of an earlier handshake, neither a late message nor an entry that was never
\* deleted, survives into a later one (update_associated_mac_entry,
\* StaUpdateMacTableEntry). The station's port may stay open without a key while
\* it associates again; only LinkUp closes it.
KeysFresh ==
  /\ sta.Key # NoKey => sta.Key[2] > sta.since
  /\ ap.Sst = "ASSOC" /\ ap.PortSecured => ap.Key[1] > ap.since

\* The access point opens its port to a key only after the station has installed
\* it: message 4 is sent after the installation, and nothing else opens the port.
StaOpensFirst ==
  ap.PortSecured /\ sta.Sst = "ASSOC" /\ ap.Key = sta.PTK => sta.PortSecured

-----------------------------------------------------------------------------
\* An attempt to connect ends: every request CNTL makes of SYNC, AUTH and ASSOC is
\* confirmed or timed out, in whatever order confirmations, timeouts, resets and
\* the frames of the peer reach the machines. WAIT_DISASSOC is not in it: what
\* LinkDownExec sets beside the MLME thread may stay until the next request.
Settles == Cntl \in Attempting ~> Cntl \notin Attempting

\* A link that is up without an open port ends in an open port or in no link:
\* the handshake completes, the access point gives up, or LinkDownTimer does.
LinkResolves == INFRA_ON /\ ~sta.PortSecured ~> sta.PortSecured \/ ~INFRA_ON

\* A handshake the access point has begun ends: the station is let in, sent away,
\* or associates again. Whatever callback of the retry timer was under way when
\* the state changed, it was not the last one, unless its ReTryCounter++ has undone
\* the assignment in PeerPairMsg2Action.
ApResolves ==
  ap.WpaState \in {AS_PTKSTART, AS_PTKINIT_NEGOTIATING}
    ~> ap.WpaState \notin {AS_PTKSTART, AS_PTKINIT_NEGOTIATING} \/ overwritten
=============================================================================
