SPECIFICATION Spec
CONSTANTS
  Paths = {p1, p2, p3}
  Users = {u1, u2}
  Requests = {r1, r2}
  Sizes = {1, 2, 3}
  MaxFileSize = 2
  MaxTotalSize = 3
  MaxFiles = 2
  MaxVersions = 3
SYMMETRY Symmetry
INVARIANTS TypeOK OnlyApprovedOnDisk
PROPERTIES AccountingExact GateSpec
CHECK_DEADLOCK FALSE
