SPECIFICATION FairSpec
CONSTANT MaxDials = 2
CHECK_DEADLOCK FALSE
INVARIANTS TypeOK LetInBySite WillingPeerLetsIn
PROPERTIES RejectedIsFinal OpenReturns
