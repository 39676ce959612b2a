SPECIFICATION ProfileSpec
CONSTANTS
  tea = tea
  Tea = Tea
  chess = chess
  jazz = jazz
  rome = rome
  extract = extract
  edit = edit
  correct = correct
  Writers = {extract, edit}
  Kind <- MCKind
  Interests <- MCInterests
  Places = {rome}
  NoPlace = NoPlace
  Fold <- MCFold
  Partials <- MCPartials
  Verdicts = {"deprecate"}
  Replacement = tea
  NewPlace = rome
  Cap = 2
  NoRow = NoRow
  NoWriter = NoWriter
PROPERTIES
  ConcurrentWritesKeepTheRest
CHECK_DEADLOCK FALSE
