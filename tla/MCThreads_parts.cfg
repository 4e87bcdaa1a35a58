SPECIFICATION MCSpec
CONSTANTS
  Kind = {"state", "disconnect"}
  Callback = {cb}
  None = None
  Mask = 3
  MaxEvents = 4
  MaxPosts = 2
  MaxLeft = 2
  NumUpdates = 2
  MaxSlotPosts = 3
  Change = {a, b}
  Cluster = 2
  Clusters = 2
  LongestSend = 2
  MaxNotes = 3
  Touches = {k1, k2}
  NoTouch = NoTouch
  ViewHeight = 9
  Half = 1
  Step = 5
  Gap = 3
CHECK_DEADLOCK FALSE
INVARIANTS
  Inv
  QuietOnceToldSo
  OutputInv
PROPERTIES
  EventsEnd
  ChangesAreQueue
  OutputRuns
  NotesEnd
