SPECIFICATION Spec
CONSTANTS
  d1 = d1 d2 = d2 d3 = d3 w1 = w1 w2 = w2 ff = ff gg = gg tx = tx ty = ty A = A B = B C = C
  NoDoc = NoDoc
  Docs = {d1, d2, d3}
  Workspaces = {w1, w2}
  WorkspaceTitles = {A, B, C}
  Titles = {tx, ty}
  Folders <- TheFolders
  Start <- TheStart
  Named <- TheNames
  Listed <- TheOrder
  Risks = {}
  MaxWrites = 1
  MaxMoves = 3
INVARIANTS TypeOK LinksKeepMeaning IndexTells
PROPERTIES AsWritten
CHECK_DEADLOCK FALSE
