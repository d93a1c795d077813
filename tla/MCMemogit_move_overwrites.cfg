SPECIFICATION Spec
CONSTANTS
  Uids = {1, 2}
  Paths = {1, 2, 3}
  Edits = {e1, e2}
  InitDocs = {1}
  NoUid = 0
  NoPath = 0
  UserOps = {"edit", "move"}
  WebOps = {"edit"}
  WebWhen = {"idle"}
  Collide = {}
  MaxAborts = 0
SYMMETRY EditSymmetry
INVARIANTS NoServerEditLost
