SPECIFICATION Spec
CONSTANTS
  NFrames = 9
  WordBits = 4
  KernelEnd = 1
  NPages = 20
  Span = 4
  Ident = 8
  BootFb <- MCBootFb
  DevicePages <- MCDevicePages
  Heap <- MCHeap
  PageSize = 2
  Images <- MCImages
  FileSize = 20
  NoTable = NoTable
  NoPage = NoPage
  MaxLoads = 2
INVARIANTS
  TypeOK
  CounterMatches
  FramesApart
  TranslationsAsAsked
PROPERTIES
  LoadComplete
\* A page fault stops the machine.
CHECK_DEADLOCK FALSE
