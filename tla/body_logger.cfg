SPECIFICATION FairSpec
CONSTANTS
  inner = inner
  outer = outer
  NoLogger = NoLogger
  Loggers <- TwoLoggers
  ChunkSizes <- SmallChunks
  MaxWritten = 3
  MaxSources = 4
INVARIANTS InOrder Contiguous
PROPERTIES LoggedCountExact LogsAwaited BodyEnds ImplementsByteQueue
CHECK_DEADLOCK FALSE
