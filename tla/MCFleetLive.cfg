\* Two machines under fairness, one readable document beside one that never is.
SPECIFICATION FairSpec
CONSTANTS
  a = a  b = b  pollA = pollA  pollB = pollB  manualA = manualA
  d1 = d1  d2 = d2  n1 = n1  n2 = n2  None = None
  Docs <- TwoDocs
  Names = {n1, n2}
  Machines = {a, b}
  Runners <- FleetRunners
  Scheduled <- FleetRunners
  MachineOf <- FleetMachine
  NameOf <- OwnNames
  PagesOf <- OnePageEach
  Unreadable = {d2}
  MaxFaults = 2
  MaxCrashes = 1
PROPERTIES EveryDropAccountedFor
