SPECIFICATION ProfileSpec
CONSTANTS
  tea = tea
  Tea = Tea
  chess = chess
  jazz = jazz
  rome = rome
  extract = extract
  edit = edit
  correct = correct
  Writers = {extract, edit, correct}
  Kind <- MCKind
  Interests <- MCInterests
  Places = {rome}
  NoPlace = NoPlace
  Fold <- MCFold
  Partials <- MCPartials
  Verdicts = {"deprecate", "update", "audit_only"}
  Replacement = tea
  NewPlace = rome
  Cap = 2
  NoRow = NoRow
  NoWriter = NoWriter
INVARIANTS
  ProfileTypeOK
  InterestsSane
  NothingHalfDone
PROPERTIES
  FreshWriterKeepsTheRest
  WritersEnd
CHECK_DEADLOCK FALSE
