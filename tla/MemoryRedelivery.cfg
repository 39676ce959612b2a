SPECIFICATION MemSpec
CONSTANTS
  f1 = f1
  f2 = f2
  e1 = e1
  first = "casual"
  Turns = {1}
  IntentOf <- MCIntentOf
  Facts <- MCFacts
  Entities = {e1}
  Says <- MCEventSays
  Denies <- MCDenies
  Mentions <- MCMentions
  Bannable = {e1}
  Verdicts = {"deprecate"}
  TypeOf <- MCTypeOf
  Alike <- MCAlike
  EventLimit = 2
  ScanLimit = 2
  MessageLimit = 3
  CandidateLimit = 2
  MaxRetries = 0
  MaxLosses = 1
PROPERTIES
  QueuesDrain
  NoSequentialDuplicate
CHECK_DEADLOCK FALSE
