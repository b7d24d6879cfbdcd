CONSTANTS
  NoIncident = ""
  Incidents = {"i1", "i2"}
  Evaluators = {"sched"}
  Scheduled = {"sched"}
  Rules = {"disk"}
  Serves <- ServesAll
  Subs = {"patient", "eager"}
  Match <- MatchAll
  Dwell <- Patience
  Repeat <- RepeatsOften
  NotifyOnResolve <- WantsResolved
  OneShot <- OnlyOnce
  Channels = {"slack"}
  Targets <- AllTargets
  FlakyChannels = {}
  MaxTime = 3
  MaxFaults = 2
SPECIFICATION FairSpec
INVARIANTS
  ResolvedIsLast
  TooSoonOnlyByFaults
  TablesAgreeUpToFaults
  AuditedUpToFaults
PROPERTIES
  NoAlarmAfterResolve
  ImplementsTolerantFeed
  ResolutionStands
  DueIsDelivered
