\* Two streams and two requests share a pool of two connections; the database
\* restarts once.
CONSTANTS
  Requests = {r1, r2}
  Streams = {s1, s2}
  PoolSize = 2
  MaxTransactions = 2
  MaxRestarts = 1
  Nobody = Nobody
SPECIFICATION FairSpec
INVARIANTS TypeOK NobodyWaitsHoldingOne LentToWhoWorks
PROPERTY EveryRequestIsServed
