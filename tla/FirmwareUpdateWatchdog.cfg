SPECIFICATION Spec
CONSTANTS
  Image = {"v0", "v1", "v2", "v3", "bad"}
  ArgsOfImage <- KernelArgs
  VersionOf <- Version
  Archives <- MCArchives
  Damaged = {"bad"}
  Installed = "v1"
  CustomArgs <- MCCustomArgs
  MaxLoads = 2
  MaxFaults = 0
  MaxKills = 0
INVARIANT
  WatchdogHeld
CHECK_DEADLOCK FALSE
