SPECIFICATION Spec
CONSTANTS
  Jobs = {j1, j2}
  Kinds = {"drop", "retire"}
  Janitor = janitor
  NoRow = NoRow
  MaxCrashes = 1
INVARIANTS TypeOK OrphansMarked
PROPERTIES LogsKept InterruptedStands RowsEnd
CHECK_DEADLOCK FALSE
