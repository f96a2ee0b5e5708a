SPECIFICATION Spec
CONSTANTS
    Tasks = {a1, a2}
    Conns = {"c1"}
    Threads = 1
    Timeout = 1
    MaxOpen = 2
    Ops = {"get_conn", "execute", "first"}
    NoConn = "no connection"
    Clients = {a1, a2, a3}
    Keys = {0, 1}
    Users = {"alice", "bob"}
    NoUser = "nobody"
    Writers = {a1, a2}
    Databases = {k1, k2}
    MaxId = 2
    Bodies = {"draft", "news"}
    Published = {"news"}
    Peers = {a1, a2}
    MaxMessages = 2
    Capacity = 1
SYMMETRY Alike
INVARIANTS ConnectionsAccounted SaidInOrder
PROPERTIES Atomic PostsKeptApart
CHECK_DEADLOCK FALSE
