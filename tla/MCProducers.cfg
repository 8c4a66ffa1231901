SPECIFICATION FairSpec
CONSTANTS
  N = 4
  NumQueues = 2
  Calls <- MCCalls
  Lives <- MCLives
  Home <- MCHome
  Hash <- MCHash
  InitialSize = 4
  MaxFailures = 1
INVARIANT OwnProducer
INVARIANT ListenersExact
PROPERTY ThreadsEnd
