CONSTANTS
  NoIncident = ""
  Incidents = {"i1", "i2"}
  Evaluators = {"sched", "push"}
  Scheduled = {"sched"}
  Rules = {"disk"}
  Serves <- ServesAll
  Subs = {"patient"}
  Match <- MatchAll
  Dwell <- Patience
  Repeat <- RepeatsOften
  NotifyOnResolve <- WantsResolved
  OneShot <- OnlyOnce
  Channels = {"slack"}
  Targets <- AllTargets
  FlakyChannels = {}
  MaxTime = 2
  MaxFaults = 1
SPECIFICATION Spec
INVARIANTS
  IndInv
  DwellRespected
  FeedsStartWithFiring
