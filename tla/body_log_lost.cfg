SPECIFICATION FairSpec
CONSTANTS
  inner = inner
  outer = outer
  NoLogger = NoLogger
  Loggers <- OneLogger
  ChunkSizes <- SmallChunks
  MaxWritten = 1
  MaxSources = 2
PROPERTIES EverySuccessLogged
CHECK_DEADLOCK FALSE
