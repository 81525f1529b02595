SPECIFICATION Spec
CONSTANTS
  Threads = {t1, t2}
  NoThread = NoThread
  NoContext = NoContext
  Addresses = {a, b}
  Devices <- SomeDevices
  NStreams = 2
  EarlyCalls = FALSE
  MaxBoots = 2
  MaxCalls = 1
INVARIANTS  ReferencesAreLive FlagsMatchEngines DestructorsFindPlatform
PROPERTIES CallsEnd
CHECK_DEADLOCK FALSE
