CONSTANTS
  NoIncident = ""
  Incidents = {"i1", "i2"}
  Evaluators = {"sched", "push"}
  Scheduled = {"sched"}
  Rules = {"disk", "login"}
  Serves <- ServesByMode
  Subs = {"once"}
  Match <- MatchAll
  Dwell <- Patience
  Repeat <- RepeatsOften
  NotifyOnResolve <- WantsResolved
  OneShot <- OnlyOnce
  Channels = {"slack"}
  Targets <- AllTargets
  FlakyChannels = {}
  MaxTime = 3
  MaxFaults = 0
SPECIFICATION Spec
INVARIANTS
  OneShotExactlyOne
