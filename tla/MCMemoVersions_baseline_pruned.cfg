SPECIFICATION Spec
CONSTANTS
  Texts = {t1, t2, t3}
  Atts = {}
  Slots = {s1}
  Kinds <- Writers
  Restorer = s1
  Keep = 1
  MaxAge = 0
  MinInterval = 1
  MaxTime = 0
  MaxRows = 3

INVARIANTS HandedForever
