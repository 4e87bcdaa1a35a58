CONSTANTS
  Source = {s1}
  Handled = {s1}
  NVoices = 2
  FirstVoices = 1
  MaxItem <- ItemsOf
  Empty <- FirstOfEach
  MaxPending = 2
  StopOnDisconnect = TRUE
  CallsAfter = TRUE
SPECIFICATION Spec
INVARIANT VoiceIsFound
