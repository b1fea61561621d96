CONSTANTS
  p1 = p1
  p2 = p2
  Procs = {p1}
  Inodes = {1, 2, 3, 4}
  Blocks = 3
  Contents = {"good", "bad"}
  Cached = {"nothing", "good", "short"}
  DiskFails = TRUE
SPECIFICATION Spec
INVARIANTS
  TypeOK
  ReturnedIsVerified
  SoloInv
PROPERTIES
  VerifiedStays
  GoodDownloadReturned
