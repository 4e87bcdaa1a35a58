CONSTANTS
  Slot = {1, 2, 3}
  Effect = {e1}
  Null = Null
  None = None
  MaxCalls = 3
SPECIFICATION Spec
INVARIANT SomeSlotHasNoTarget
