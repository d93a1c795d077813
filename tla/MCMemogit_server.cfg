SPECIFICATION Spec
CONSTANTS
  Uids = {1, 2}
  Paths = {1, 2, 3}
  Edits = {e1, e2}
  InitDocs = {1}
  NoUid = 0
  NoPath = 0
  UserOps = {"edit", "create", "delete", "revert", "merge", "take"}
  WebOps = {"edit", "create", "rename", "archive", "restore"}
  WebWhen = {"idle", "doc", "stamp", "content", "archive"}
  Collide = {}
  MaxAborts = 0
SYMMETRY EditSymmetry
INVARIANTS TypeOK NoServerEditLost
PROPERTIES PullReconciles
