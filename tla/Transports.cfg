SPECIFICATION FairSpec
CONSTANTS
  Messages <- MCMessages
  Tools = {"write"}
  Results = {"r1", "r2"}
  None = None
  MaxMessages = 2
  MaxRepeats = 1
INVARIANT TypeOK
INVARIANT AnswersInOrder
INVARIANT OnlyAskedFor
INVARIANT AnswersArePersisted
INVARIANT RepeatedCallsAgree
PROPERTY EveryRequestAnswered
