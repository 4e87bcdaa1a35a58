SPECIFICATION MCSpec
CONSTANTS
  Conns = {c1, c2}
  Accounts = {a1}
  NoConn = NoConn
  NoAccount = NoAccount
  Writers = {w1, w2}
  Bodies <- SomeBodies
  Nothing = Nothing
  Base = 2
  MaxSent = 3
CHECK_DEADLOCK FALSE
INVARIANTS
  IInv
  SoleSessionListed
  FramesInv
PROPERTIES
  NoticesAndCommandsEnd
  ClosedServerAdmitsNobody
  WholeAndInOrder
  FramesEnd
