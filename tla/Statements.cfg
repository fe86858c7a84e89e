SPECIFICATION Spec
CONSTANTS
  Workers = {w1, w2}
  NoWorker = NoWorker
  Clients = {c1}
  Schedulers = {s1}
  MaxAttempts = 2
  LeaseSeconds = 1
  MaxToken = 9
  MaxTxDelay = 2
  ForcedTokens = {1}
  MaxCalls = 1
  MaxForced = 1
  MaxBeats = 1
  MaxClock = 2
SYMMETRY Symmetry
INVARIANT StatementsTypeOK
INVARIANT TokensIncrease
INVARIANT LeaseOfNewestClaim
INVARIANT NeverStranded
INVARIANT CyclesAreKnown
INVARIANT NoWaitCycle
PROPERTY ImplementsTransactions
PROPERTY ImplementsReports
CHECK_DEADLOCK FALSE
