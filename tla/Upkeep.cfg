SPECIFICATION MCSpec
CONSTANTS
  Batches = {1, 2}
  Names = {"son", "friend", "dog"}
  Roles = {"kin", "work"}
  Answers <- MCAnswers
  MaxPerTurn = 3
  MaxSeeds = 1
  Seeded = "friend"
  Nobody = "nobody"
  MaxRow = 4
  Titles = {"a", "b", "ab", ""}
  Untitled = ""
  Within <- MCWithin
  MaxSweeps = 2
  MaxOthers = 1
  TurnIds = {1, 2, 3}
  Audits = {1, 2}
  Entities = {"cat"}
  Limit = 3
  MaxCrashes = 1
  Messages = {"hello", "remember"}
  Signals <- MCSignals
  Texts = {"hello", "remember"}
  ReadsAs <- MCReadsAs
  KeyTurns = 1
  AskedTurns = 1
  RunIds = {1, 2}
  Cases <- MCCases
  Words = {"cat", "dog"}
  Prompt <- MCPrompt
  Verdicts = {"casual", "plan_followup"}
  MaxFaults = 2
INVARIANTS
  NeverOwnMiddleman
  ChainLinked
  KeeperSurvives
  SweepsAgree
  PairedWithOwn
  BansJudged
  PassIsEarned
PROPERTIES
  ViaStays
CHECK_DEADLOCK FALSE
