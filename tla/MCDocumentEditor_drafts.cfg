SPECIFICATION FairSpec
CONSTANTS
  Texts = {blank, t1, t2}
  Blank = blank
  None = none
  WhileSaving = FALSE
  MaxTyped = 1
  MaxOthers = 1
  MaxFaults = 1
INVARIANTS TypeOK WorkKept DiscardSticks InSync
PROPERTIES TimedSaves
