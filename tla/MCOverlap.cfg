\* A manual /run beside the scheduled poll, a file name used twice.
SPECIFICATION Spec
CONSTANTS
  a = a  b = b  pollA = pollA  pollB = pollB  manualA = manualA
  d1 = d1  d2 = d2  n1 = n1  n2 = n2  None = None
  Docs <- TwoDocs
  Names = {n1, n2}
  Machines = {a}
  Runners <- ManualRunners
  Scheduled <- PollA
  MachineOf <- ManualMachine
  NameOf <- SameName
  PagesOf <- OnePageEach
  Unreadable <- NoDocs
  MaxFaults = 0
  MaxCrashes = 0
INVARIANTS ProcessedStored
