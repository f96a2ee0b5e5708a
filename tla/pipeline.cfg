SPECIFICATION FairSpec
CONSTANTS
  Depth = 4
  Loggers <- NestedLoggers
  Codes <- TwoCodes
  MaxBody = 2
INVARIANTS ContextReleased UnexposedNeverSent UncaughtLoggedOnce LoggedOrWrapped InnerWritesCounted
PROPERTIES AbandonedNeverRuns Replies
CHECK_DEADLOCK FALSE
