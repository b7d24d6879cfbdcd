CONSTANTS
  Incidents = {"i1", "i2"}
  Subs = {"mail", "once"}
  Evaluators = {"push", "scheduled"}
  Owner <- Served
  Followers <- Following
  OneShot = {"once"}
  Window = 1
  Archivers = {"json", "webhook"}
  MaxLag = 1
  MaxTime = 3
  MaxDate = 1
  MaxFaults = 1
SPECIFICATION FairSpec
INVARIANTS
  StoreConsistent
  HistoryHandedOver
  CopiesAreComplete
  DuplicatesOnlyByRedo
  OneShotPerIncident
PROPERTIES
  FileRecovers
  ResolvedIsPruned
