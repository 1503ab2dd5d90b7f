SPECIFICATION Spec
CONSTANTS
  a = a
  b = b
  NInodes = 3
  NFds = 2
  Names <- MCNames
  Paths <- MCPaths
  Targets <- MCTargets
  Vals = {v}
  Hole = hole
  MaxFile = 2
  Word = 3
  MaxWrite = 1
  MaxEntries = 2
  MaxCalls = 5
SYMMETRY Symmetry
INVARIANTS
  TypeOK
  EntriesSound
  SizeCoversData
  DescriptorsKeepTheirFile
  HangsOnlyOnCircle
PROPERTIES
  AppendAtEnd
  FullTableHarmless
  CommandsCloseTheirs
  KeepsPromise
\* A kernel whose stack the recursion has eaten does nothing more.
CHECK_DEADLOCK FALSE
