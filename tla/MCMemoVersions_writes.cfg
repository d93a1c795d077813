SPECIFICATION Spec
CONSTANTS
  Texts = {t1, t2}
  Atts = {}
  Slots = {s1, s2}
  Kinds <- Writers
  Restorer = s1
  Keep = 1
  MaxAge = 0
  MinInterval = 1
  MaxTime = 1
  MaxRows = 2
SYMMETRY SlotSymmetry
INVARIANTS TypeOK BitTellsAuthor HandedKept AutoBounded
PROPERTIES OverwritesUndoable
