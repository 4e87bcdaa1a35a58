SPECIFICATION FairSpec
CONSTANTS
  Banks = {b1, b2}
  Songs = {s1, s2}
  Logouts = {bye}
  NoCall = NoCall
  Hello = Hello
  Closed = Closed
  Refusal = Refusal
  Notice = Notice
  Empty = Empty
  MaxDials = 2
  MaxAsks = 2
CHECK_DEADLOCK FALSE
INVARIANTS
  Inv
  LatestBankShown
PROPERTIES
  WaitIsAnswered
