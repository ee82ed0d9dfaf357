\* Two environments, a day of three minutes; a tick is half a minute.
SPECIFICATION Spec
CONSTANTS
  production = production  staging = staging  Reset = Reset  None = None
  Resolve <- Folders
  RawSettings <- SomeSettings
  Envs <- TwoEnvs
  OffsetOf <- Offsets
  Minute = 2
  Day = 6
  Grace = 1
  ResetGrace = 5
  Timeout = 2
  Poll = 1
  Interval = 2
  JoinTimeout = 1
  MaxFaults = 2
  LongestSleep = 3
  MaxSleeps = 1
  MaxCrashes = 1
INVARIANTS TypeOK NobodyWaits CountersOfToday PollsKeepComing GateBounded ExitsDrained SyncBeforePolls JobsDistinct
