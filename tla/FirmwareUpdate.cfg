SPECIFICATION FairSpec
CONSTANTS
  Image = {"v0", "v1", "v2", "v3", "bad"}
  ArgsOfImage <- KernelArgs
  VersionOf <- Version
  Archives <- MCArchives
  Damaged = {"bad"}
  Installed = "v1"
  CustomArgs <- MCCustomArgs
  MaxLoads = 2
  MaxFaults = 2
  MaxKills = 1
INVARIANTS
  TypeOK
  PowerCutSafe
  NoDowngrade
  OnlyDescribedFlashed
  EstablishesTrial
  HandsOver
  RollbackRestores
PROPERTY
  AduRestored
CHECK_DEADLOCK FALSE
