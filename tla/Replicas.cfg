SPECIFICATION SystemSpec
CONSTANTS
  first = first
  second = second
  third = third
  Nobody = Nobody
  Updates = {1, 2}
  Consumers <- Two
  UpdateAttempts = 2
  BatchSize = 2
  MaxInboxFaults = 1
  Jobs = {1, 2}
  Workers <- Two
  JobAttempts = 2
  MaxPending = 2
  MaxAIFaults = 1
  Couriers <- Two
  DeliveryAttempts = 3
  MaxCrashes = 1
  MaxOverlong = 2
  Pollers <- Three
  MaxStalls = 2
  Replicas <- Two
  Deployments <- SomeReleases
  MaxAborts = 1
  MaxLapses = 1
  MaxFailures = 1
  Recipients = {1, 2}
  Notices = {notice1, ad1}
  Ads = {ad1}
  Cycles <- One
  MaxUnreachable = 1
  MaxBroken = 0
INVARIANTS SystemTypeOK OnceWithoutFaults HeardOnceButForFaults SentOnce
  OnePollerUnlessStalled EffectsOnce AnnouncedOnce
PROPERTIES AnsweredAtLeastOnce QueuesDrain OverlapEnds
  ReachesEverybody
CHECK_DEADLOCK FALSE
