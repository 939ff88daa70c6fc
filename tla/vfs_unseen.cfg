SPECIFICATION ViewSpec
CONSTANTS
  Paths = {"p1"}
  Users = {"u1", "u2"}
  Viewer = "u1"
  Requests = {"r1"}
  Sizes = {1, 2}
  MaxFileSize = 1
  MaxTotalSize = 1
  MaxFiles = 1
  MaxVersions = 2
INVARIANT ApprovedIsShown
CHECK_DEADLOCK FALSE
