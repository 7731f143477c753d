SPECIFICATION FairSpec
CONSTANTS
  SsidBssTab <- Candidates
  MaxRequests = 2
  MaxFaults = 1
  PEER_MSG1_RETRIES = 1
INVARIANTS TypeOK KeysAgree KeysFresh StaOpensFirst NoKeyAtAssoc
PROPERTIES Settles LinkResolves ApResolves
CHECK_DEADLOCK FALSE
