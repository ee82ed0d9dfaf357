\* A poll of three files, one of no page, one midnight or measurement, one fault, two requests at a time.
SPECIFICATION FairSpec
CONSTANTS
  production = production  poll = poll
  Envs <- OneEnv
  Runs <- OneRun
  EnvOf <- PollOf
  PagesOf <- Files
  MaxFaults = 1
  MaxOutside = 1
  MaxFetches = 2
INVARIANTS TypeOK CountersTally PagesCoverFiles
PROPERTIES EventuallyHonest
