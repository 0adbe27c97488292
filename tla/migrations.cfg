SPECIFICATION FairSpec
CONSTANTS
  s1 = s1
  shell = shell
  shell2 = shell2
  Process = {s1, shell, shell2}
  Programs <- ServerAndShells
  MaxTroubles = 3
\* When every server serves, nothing has to happen any more.
CHECK_DEADLOCK FALSE
INVARIANTS
  MigrationsTypeOK
  TablesRecorded
  HistoryAgrees
  ServesComplete
  SecondIsIdle
  MigrationsInv
PROPERTIES
  AllOrNothing
  ServersServe
