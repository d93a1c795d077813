SPECIFICATION Spec
CONSTANTS
  Texts = {t1, t2}
  Atts = {a}
  Slots = {s1, s2}
  Kinds <- Restorers
  Restorer = s1
  Keep = 1
  MaxAge = 0
  MinInterval = 1
  MaxTime = 0
  MaxRows = 2
SYMMETRY TextSymmetry
INVARIANTS BitTellsAuthor
PROPERTIES OverwritesUndoable RestoreRestores
