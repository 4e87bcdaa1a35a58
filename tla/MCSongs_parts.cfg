SPECIFICATION MCSpec
CONSTANTS
  Repertoire <- SomeSongs
  MaxKeys = 2
  MaxTime = 2
  KindsUsed = {"note", "top", "tempo"}
  Files <- SomeFiles
  PlainKinds = {"on", "off", "control", "program", "tempo", "text"}
  OddKinds = {"on", "control", "tempo", "sysex", "running"}
  Waits = {0, 200}
  Notes = {0, 127}
CHECK_DEADLOCK FALSE
INVARIANTS
  Inv
  RecoversPlain
PROPERTIES
  PlaysInOrder
  SongsFinish
  ComesToAnEnd
