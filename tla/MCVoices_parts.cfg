SPECIFICATION MCSpec
CONSTANTS
  Source = {s1, s2}
  Handled = {s1}
  NVoices = 2
  FirstVoices = 1
  MaxItem <- ItemsOf
  Empty <- FirstOfHandled
  MaxPending = 2
  StopOnDisconnect = TRUE
  CallsAfter = FALSE
  Fingers = {f1, f2}
  Width <- MCWidth
  Xs <- MCXs
  Counts = {1, 2, 3, 4, 5, 6, 7, 8, 9, 10, 11, 12, 13, 14, 15}
  Thread = {t1, t2}
  Context = {c1, c2}
  None = None
CHECK_DEADLOCK FALSE
INVARIANTS
  VoicesInv
  NoUseAfterFree
  LifeInv
  KeysInv
PROPERTIES
  PausedLasts
  OthersLeaveAlone
