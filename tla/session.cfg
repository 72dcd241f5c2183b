SPECIFICATION FairSpec
CONSTANTS
  AbortTimeout = 10
  PasvAttempts = 2
  UsePort = TRUE
  MayAbort = TRUE
  MaxBacklog = 0
PROPERTY CallsReturn
INVARIANT TypeOK
 
 
 
 
