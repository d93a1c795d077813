SPECIFICATION Spec
CONSTANTS
  Uids = {1, 2, 3}
  Paths = {1, 2, 3}
  Edits = {e1}
  InitDocs = {1,2}
  NoUid = 0
  NoPath = 0
  UserOps = {"edit", "move", "copy", "delete"}
  WebOps = {"edit", "archive", "rename"}
  WebWhen = {"idle"}
  Collide = {}
  MaxAborts = 0
INVARIANTS NoLocalEditLost
PROPERTIES ArchiveOnlyRemoved PullReconciles
