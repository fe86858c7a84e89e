SPECIFICATION Spec
CONSTANTS
  Keys = {k1}
  Workers = {w1, w2}
  Schedulers = {s1}
  NoWorker = NoWorker
  NoKey = NoKey
  Handled = {k1}
  MaxAttemptsEach = 2
  LeaseEach = 2
  MaxAttempts <- MCMaxAttempts
  LeaseSeconds <- MCLeaseSeconds
  MaxToken = 3
  MaxTxDelay = 0
  MaxCalls = 2
  ForcedTokens = {2}
  MaxForced = 1
  MaxBeats = 1
SYMMETRY Symmetry
INVARIANT OwnershipInv
INVARIANT FencedLog
INVARIANT LeaseOfNewestClaim
INVARIANT CompletedByNewestClaim
INVARIANT OneOwner
INVARIANT AttemptsBounded
INVARIANT FreshLists
INVARIANT TablesAgree
INVARIANT OneAnswer
PROPERTY CancelledOnlyWhenLost
PROPERTY TerminalIsFinal
PROPERTY NoEarlyRetry
PROPERTY ImplementsContract
