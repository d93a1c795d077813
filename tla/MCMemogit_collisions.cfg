SPECIFICATION Spec
CONSTANTS
  Uids = {1, 2, 3}
  Paths = {1, 2, 3}
  Edits = {e1, e2}
  InitDocs = {1}
  NoUid = 0
  NoPath = 0
  UserOps = {"edit", "create", "delete"}
  WebOps = {"edit", "create", "archive", "restore"}
  WebWhen = {"idle"}
  Collide = {"create"}
  MaxAborts = 0
SYMMETRY EditSymmetry
PROPERTIES PullReconciles
