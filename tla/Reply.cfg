SPECIFICATION Spec
CONSTANTS
  Words <- MCWords
  Lower <- MCLower
  NamedItems = {"name", "job"}
  GenericWords = {"fine", "sure"}
  ErrorWords = {"oops"}
  Items <- MCItems
  LayerOf <- MCLayerOf
  ItemWords <- MCItemWords
  InitialItems = {"name", "job", "sister", "trip", "met"}
  Messages <- MCMessages
  Signals <- MCSignals
  MsgWords <- MCMsgWords
  Personality <- MCPersonality
  MaxChars <- MCMaxChars
  AllowQuestion = {"balanced"}
  Replies <- MCReplies
  Answers = {"memory_challenge", "self_summary"}
  Unanswered = {"chat"}
  Bannable = {"anna"}
  Texts = {"chat", "deny", "sad"}
  ReadsAs <- MCReadsAs
  KeyTurns = 1
  AskedTurns = 1
  RelationshipLimit = 1
  EventLimit = 1
  SearchLimit = 1
  ShortChars = 1
  GenericChars = 2
  MaxTurns = 2
  MaxEdits = 1
  NoTurn = NoTurn
INVARIANTS
  ReplyTypeOK
  CacheAnswersTheQuestion
  CorrectionsAreHeard
  ForgottenStaysForgotten
  PainIsNotQuoted
  StructureHolds
  ContractKept
  BlameHasACause
CHECK_DEADLOCK FALSE
