CONSTANTS
  NoIncident = ""
  Incidents = {"i1", "i2"}
  Evaluators = {"sched"}
  Scheduled = {"sched"}
  Rules = {"disk", "login"}
  Serves <- ServesAll
  Subs = {"once"}
  Match <- MatchAll
  Dwell <- Patience
  Repeat <- RepeatsOften
  NotifyOnResolve <- WantsResolved
  OneShot <- OnlyOnce
  Channels = {"slack", "mail"}
  Targets <- AllTargets
  FlakyChannels = {}
  MaxTime = 2
  MaxFaults = 2
SPECIFICATION Spec
INVARIANTS
  OneShotOnce
