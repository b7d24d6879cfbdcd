CONSTANTS
  Rules = {"disk", "login"}
  Clients = {c1, c2}
  MaxCalls = 3
  MaxFaults = 1
  Ids = {"t1", "t2"}
  Callers = {q1, q2}
  MaxClock = 2
  MaxAccessFaults = 1
  People = {"ann", "bob"}
  Subs = {"s1", "s2"}
  NoRule = NoRule
  Watched <- WatchedRule
  Labels <- RuleLabels
  Targets <- SomeTargets
  MaxWrites = 4
  MaxReadFaults = 1
  Processes = {p1, p2}
  MaxMigrateFaults = 2
SPECIFICATION AdminSpec
INVARIANTS
  DriftIsExplained
  RevokedStaysOut
  LastUseWasGood
  LookupIsAsOne
  VersionsAreWhole
  RerunSucceeds
CHECK_DEADLOCK FALSE
SYMMETRY AdminSymmetry
