SPECIFICATION Progress
CONSTANTS
    conn = conn
    req = req
    log1 = log1
    log2 = log2
    Tasks <- AllTasks
    Blocking <- Closures
    Main = conn
    Threads = 1
    NoTask = NoTask
INVARIANT PanicsOnlyByAwaitingPanicked
PROPERTIES AwaitEnds DetachedCompletes CallsEnd TlsServes EverybodyMoves UpgradesEnd
CHECK_DEADLOCK FALSE
