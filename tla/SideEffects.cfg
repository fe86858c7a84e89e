SPECIFICATION ToolSpec
CONSTANTS
  Keys = {k1}
  Workers = {w1, w2}
  Schedulers = {s1}
  NoWorker = NoWorker
  NoKey = NoKey
  Handled = {k1}
  MaxAttemptsEach = 2
  LeaseEach = 2
  MaxAttempts <- MCMaxAttempts
  LeaseSeconds <- MCLeaseSeconds
  MaxToken = 9
  MaxTxDelay = 0
  MaxCalls = 1
  ForcedTokens = {}
  MaxForced = 0
  MaxBeats = 1
SYMMETRY Symmetry
INVARIANT CompletedTookEffect
INVARIANT EffectsBounded
INVARIANT OwnerWroteWhole
