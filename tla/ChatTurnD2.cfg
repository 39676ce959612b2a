SPECIFICATION ChatSpec
CONSTANTS
  t1 = t1
  t2 = t2
  Turns <- MCTurns
  Intents <- MCIntents
  DbFails = FALSE
  MaxCrashes = 0
INVARIANT
  DetachedAnswerSaved
CHECK_DEADLOCK FALSE
