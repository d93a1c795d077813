SPECIFICATION Spec
CONSTANTS
  Uids = {1}
  Paths = {1, 2}
  Edits = {e1, e2, e3}
  InitDocs = {1}
  NoUid = 0
  NoPath = 0
  UserOps = {"edit", "delete", "revert", "merge", "take"}
  WebOps = {"edit", "rename", "archive"}
  WebWhen = {"idle", "doc", "stamp", "content", "update", "reply", "archive", "incremental", "reconcile", "adopt"}
  Collide = {}
  MaxAborts = 2
SYMMETRY EditSymmetry
INVARIANTS NoLocalEditLost
PROPERTIES ArchiveOnlyRemoved
