CONSTANTS
  p1 = p1
  p2 = p2
  Procs = {p1, p2}
  Inodes = {1, 2, 3, 4}
  Blocks = 2
  Contents = {"good"}
  Cached = {"nothing"}
  DiskFails = FALSE
SPECIFICATION Spec
INVARIANTS
  ReturnedIsVerified
