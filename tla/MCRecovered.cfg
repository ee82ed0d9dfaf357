\* A stranded file whose name was taken while the machine was down.
SPECIFICATION FairSpec
CONSTANTS
  a = a  b = b  pollA = pollA  pollB = pollB  manualA = manualA
  d1 = d1  d2 = d2  n1 = n1  n2 = n2  None = None
  Docs <- TwoDocs
  Names = {n1, n2}
  Machines = {a}
  Runners <- PollA
  Scheduled <- PollA
  MachineOf <- PollAMachine
  NameOf <- SameName
  PagesOf <- OnePageEach
  Unreadable <- NoDocs
  MaxFaults = 0
  MaxCrashes = 1
PROPERTIES RecoveredProcessed
