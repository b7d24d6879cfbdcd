CONSTANTS
  Incidents = {"i1", "i2"}
  Subs = {"mail", "once"}
  Evaluators = {"push", "scheduled"}
  Owner <- Served
  Followers <- Following
  OneShot = {"once"}
  Window = 1
  Archivers = {"webhook"}
  MaxLag = 1
  MaxTime = 3
  MaxDate = 0
  MaxFaults = 2
SPECIFICATION Spec
INVARIANTS
  FailedArchiveIsRetried
