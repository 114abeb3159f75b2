SPECIFICATION FairSpec
CONSTANTS
  Features <- MCFeatureSet
  Links = {"eth0"}
  Wlans = {"wlan0"}
  Modems = {"m1", "m2"}
  Certificates = {"2025", "2026"}
  Consents <- MCConsents
  Lowercase <- MCLowercase
  FleetIds = {"fleet"}
  Timeouts <- MCTimeouts
  Keys = {"network"}
  Cas = {"ca1", "ca2"}
  MaxResets = 2
  MaxDisruptions = 2
  MaxChanges = 2
  MaxReported = 2
CHECK_DEADLOCK FALSE
INVARIANTS
  TypeOK
  CacheReported
  TwinCurrent
  WebCurrent
  RefusedNotPerformed
PROPERTIES
  ReportedIsSaved
  Settles
