\* One environment, a day of two minutes; a tick is half a minute.
SPECIFICATION FairSpec
CONSTANTS
  production = production  staging = staging  Reset = Reset  None = None
  Resolve <- Folders
  RawSettings <- SomeSettings
  Envs <- OneEnv
  OffsetOf <- OneOffset
  Minute = 2
  Day = 4
  Grace = 1
  ResetGrace = 3
  Timeout = 2
  Poll = 1
  Interval = 2
  JoinTimeout = 1
  MaxFaults = 2
  LongestSleep = 1
  MaxSleeps = 0
  MaxCrashes = 1
PROPERTIES StopEnds ComesUpAgain DriftSurfaces
