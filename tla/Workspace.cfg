SPECIFICATION MCSpec
CONSTANTS
  Convs = {c1, c2}
  InitialConvs = {c1}
  NoConv = NoConv
  MaxActs = 3
  MaxSurprises = 1
  Spellings = {"anna", "Bob", "bob"}
  Norm <- MCNorm
  Passwords = {"old", "new", "weak"}
  Strong = {"old", "new"}
  FirstEmail = "anna"
  FirstPassword = "old"
  MaxAsks = 3
INVARIANTS
  NoWaitInCircle
  SettledViewIsActive
  SendingIsAwaited
  OneAccountPerEmail
  OnlyChosenPasswords
PROPERTIES
  TitleKept
  ArchivedStays
CHECK_DEADLOCK FALSE
