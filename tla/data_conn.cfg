SPECIFICATION FairSpec
CONSTANT PasvAttempts = 3
INVARIANTS TypeOK EndsMeet NoSocketLost
PROPERTIES OpenReturns SetupSpec
