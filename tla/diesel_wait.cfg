SPECIFICATION Spec
CONSTANTS
    Requests = {r1, r2}
    Conns = {c1}
    Threads = 1
    Timeout = 1
    MaxOpen = 2
    Ops = {"get_conn", "first"}
    NoConn = NoConn
INVARIANT WaitsAtMostTimeout
CHECK_DEADLOCK FALSE
