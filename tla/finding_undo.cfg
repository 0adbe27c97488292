SPECIFICATION UndoSpec
CONSTANTS
  shell = shell
  Process = {shell}
  Programs <- UndoAlone
  MaxTroubles = 2
CHECK_DEADLOCK FALSE
PROPERTIES
  UndoUndoes
