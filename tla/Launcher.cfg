CONSTANTS
  Loads = {l1, l2}
  Servers = {s1, s2}
  CertificateReadable = TRUE
  MaxCrashes = 1
SPECIFICATION Spec
PROPERTY WorksAfterLoad
CHECK_DEADLOCK FALSE
