CONSTANTS
  Incidents = {"i1", "i2"}
  Subs = {"patient", "eager"}
  Channels = {"main"}
  Dwell <- Patience
  Repeat <- Patience
  NotifyOnResolve <- WantsResolved
  Setups <- SmallSetups
  MaxTime = 3
  MaxMessages = 3
SPECIFICATION ChannelsSpec
CONSTRAINT Horizon
INVARIANTS
  PagesFollowTheirFeeds
  OnePagePerFeed
