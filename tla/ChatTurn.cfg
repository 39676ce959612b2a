SPECIFICATION ChatSpec
CONSTANTS
  t1 = t1
  t2 = t2
  Turns <- MCTurns
  Intents <- MCIntents
  DbFails = TRUE
  MaxCrashes = 1
INVARIANTS
  ChatTypeOK
  AnswerHasQuestion
  OneTaskPerTurn
PROPERTIES
  TurnTerminates
  KeepsContract
CHECK_DEADLOCK FALSE
