SPECIFICATION MCSpec
CONSTANTS
  Source = {s1, s2}
  NVoices = 2
  Cluster = 1
  MaxSettings = 1
  MaxHolds = 1
  None = None
  Slot = {1, 2, 3}
  Effect = {e1}
  NoEffect = NoEffect
  MaxCalls = 3
SYMMETRY Symmetry
CHECK_DEADLOCK FALSE
INVARIANTS
  Inv
  HeardTogether
  SlotsInv
PROPERTIES
  MixFreesNothing
