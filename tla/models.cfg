SPECIFICATION Spec
CONSTANTS
  m1 = m1
  m2 = m2
  m3 = m3
  NoModel = NoModel
  Model = {m1, m2, m3}
  Property = {"password", "age"}
  Defaults = {"password"}
  Path = {"name", "role", "age"}
  Operation = {"eq", "neq"}
  MaxCalls = 4
  Setting <- MCSetting
  Numeral <- MCNumeral
  PoolDefault = 10
\* A filter is not extended for ever, and a process is configured once.
CHECK_DEADLOCK FALSE
INVARIANTS
  ListedAreDefaults
  UnlistedAreGiven
  SortIsOfFirstAndLast
  ReadsAreValid
  PoolNotEmpty
PROPERTIES
  ConditionNeverReplaced
