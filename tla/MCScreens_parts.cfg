SPECIFICATION MCSpec
CONSTANTS
  Threads = {t1, t2, t3}
  Boards = {b1, b2}
  NoThread = NoThread
  List = List
  Names = {n1, n2}
  MaxBanks = 3
  MaxSongs = 3
  Classes = {c1, c2}
  Banks = {k1}
  Songs = {s1}
  Handlers = {h}
  MaxNames = 2
  Starts = {x1, x2}
  N = 3
  MaxNotes = 3
  Touches = {d1, d2}
  NoTouch = NoTouch
  ViewHeight = 9
  Half = 1
  Pace = 3
  Gap = 3
SYMMETRY Symmetry
CHECK_DEADLOCK FALSE
INVARIANTS
  PlayingIsTracked
  LeavesCleanly
  SoundsInv
  StoreInv
  CatalogueInv
  NotesInv
  TouchesHarmless
PROPERTIES
  LostWithBankOnly
