CONSTANTS
  Thread = {t1, t2}
  Context = {c1, c2}
  None = None
SPECIFICATION Spec
SYMMETRY Interchangeable
INVARIANT ClosedIsCleanedUp
