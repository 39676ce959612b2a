SPECIFICATION MemSpec
CONSTANTS
  f1 = f1
  f2 = f2
  e1 = e1
  first = "casual"
  Turns <- MCTurns
  IntentOf <- MCIntentOf
  Facts <- MCFacts
  Entities = {e1}
  Says <- MCSays
  Denies <- MCDenies
  Mentions <- MCMentions
  Bannable = {e1}
  Verdicts = {"deprecate", "audit_only"}
  TypeOf <- MCTypeOf
  Alike <- MCAlike
  EventLimit = 2
  ScanLimit = 2
  MessageLimit = 12
  CandidateLimit = 2
  MaxRetries = 1
  MaxLosses = 0
INVARIANTS
  SkippedMeansUnsaved
CHECK_DEADLOCK FALSE
