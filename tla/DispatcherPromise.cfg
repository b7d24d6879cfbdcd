CONSTANTS
  NoIncident = ""
  Incidents = {"i1", "i2"}
  Evaluators = {"sched"}
  Scheduled = {"sched"}
  Rules = {"disk"}
  Serves <- ServesAll
  Subs = {"patient"}
  Match <- MatchAll
  Dwell <- Patience
  Repeat <- Repeats
  NotifyOnResolve <- WantsResolved
  OneShot <- OnlyOnce
  Channels = {"slack", "mail"}
  Targets <- AllTargets
  FlakyChannels = {"mail"}
  MaxTime = 5
  MaxFaults = 0
SPECIFICATION FairSpec
PROPERTIES
  ImplementsAlertFeed
  EndIsDelivered
