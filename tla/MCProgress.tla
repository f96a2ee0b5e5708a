------------------------------ MODULE MCProgress ------------------------------
(* What has to go on: tasks that await each other, calls to a database that    *)
(* wait for each other, handshakes that wait for a peer, chatting tasks that   *)
(* wait behind locks, and websockets that wait for an answer to be sent. As in *)
(* Shared one run checks the parts side by side. The tasks are those of        *)
(* Executor; v1, v2, .. are the variables of the part in the others, in which  *)
(* no task moves.                                                              *)
EXTENDS Executor

CONSTANTS conn, req, log1, log2

VARIABLES part, v1, v2, v3, v4, v5, v6, v7, v8, v9, v10, v11

others == <<v1, v2, v3, v4, v5, v6, v7, v8, v9, v10, v11>>

all == <<part, vars, others>>

\* A connection, a request and the closures that print for two loggers.
AllTasks == {conn, req, log1, log2}
Closures == {log1, log2}

Actors == {"a1", "a2"}

-----------------------------------------------------------------------------
\* Two tasks with two open calls each for one connection and one thread.
Pool == INSTANCE DieselPool WITH
    Requests <- Actors, Conns <- {"c1"}, Threads <- 1, Timeout <- 1, MaxOpen <- 2,
    Ops <- {"get_conn"}, NoConn <- "no connection",
    task <- v1, current <- v2, call <- v3, conn <- v4, idle <- v5, queue <- v6

\* Two connections, handshakes of two flights and one record.
Secure == INSTANCE Tls WITH
    Conns <- Actors, Rounds <- 2, MaxData <- 1,
    backlog <- v1, stream <- v2, needs <- v3, socket <- v4, sent <- v5, task <- v6,
    read <- v7, told <- v8

\* Two clients, a message each, and sockets of one frame.
Channel == INSTANCE Chat WITH
    Peers <- Actors, MaxMessages <- 1, Capacity <- 1,
    at <- v1, slab <- v2, index <- v3, lock <- v4, mutex <- v5, todo <- v6,
    sending <- v7, frames <- v8, taken <- v9, gone <- v10, received <- v11

\* An upgrade, and layers that answer or throw 200 and 400.
Upgrade == INSTANCE Websocket WITH
    Requests <- {"a1"}, Codes <- {200, 400},
    at <- v1, valid <- v2, upgrade <- v3, result <- v4, resp <- v5, task <- v6

ASSUME Assumptions ==
    /\ Pool!DieselAssumption /\ Secure!TlsAssumption
    /\ Channel!ChatAssumption /\ Upgrade!WebsocketAssumption

-----------------------------------------------------------------------------
\* The variables that a part leaves over.
Unused9 == v9 = 0 /\ v10 = 0 /\ v11 = 0
Unused7 == v7 = 0 /\ v8 = 0 /\ Unused9
Unused1 == v1 = 0 /\ v2 = 0 /\ v3 = 0 /\ v4 = 0 /\ v5 = 0 /\ v6 = 0 /\ Unused7

Starts ==
    /\ Init
    /\ \/ part = "tasks" /\ Unused1
       \/ part = "pool" /\ Pool!Init /\ Unused7
       \/ part = "tls" /\ Secure!Init /\ Unused9
       \/ part = "chat" /\ Channel!Init
       \/ part = "websocket" /\ Upgrade!Init /\ Unused7

Steps ==
    \/ part = "tasks" /\ Next /\ UNCHANGED <<part, others>>
    \/ part = "pool" /\ Pool!Next /\ UNCHANGED <<part, vars, v7, v8, v9, v10, v11>>
    \/ part = "tls" /\ Secure!Next /\ UNCHANGED <<part, vars, v9, v10, v11>>
    \/ part = "chat" /\ Channel!Next /\ UNCHANGED <<part, vars>>
    \/ part = "websocket" /\ Upgrade!Next /\ UNCHANGED <<part, vars, v7, v8, v9, v10, v11>>

\* The fairness of each part, for the behaviours that are about it: the runtime
\* runs queued tasks and polls woken ones, task code ends.
TaskFairness ==
    \A t \in Tasks : /\ WF_vars(part = "tasks" /\ Run(t))
                     /\ WF_vars(part = "tasks" /\ (Finish(t) \/ Panic(t)))
                     /\ WF_vars(part = "tasks" /\ poll(t))

PoolFairness ==
    /\ \A r \in Actors : /\ WF_(Pool!vars)(part = "pool" /\ Pool!Handler(r))
                         /\ WF_(Pool!vars)(part = "pool" /\ Pool!Poll(r))
    /\ \A j \in Pool!Calls : WF_(Pool!vars)(part = "pool" /\ Pool!Thread(j))
    /\ WF_(Pool!vars)(part = "pool" /\ Pool!Tick)

TlsFairness ==
    \A c \in Actors : /\ WF_(Secure!vars)(part = "tls" /\ Secure!poll_accept(c))
                      /\ WF_(Secure!vars)(part = "tls" /\ Secure!Poll(c, "read"))
                      /\ WF_(Secure!vars)(part = "tls" /\ Secure!End(c))

ChatFairness ==
    \A p \in Actors : /\ WF_(Channel!vars)(part = "chat" /\ Channel!Task(p))
                      /\ WF_(Channel!vars)(part = "chat" /\ Channel!Take(p))

WebsocketFairness ==
    /\ WF_(Upgrade!vars)(part = "websocket" /\ Upgrade!Handle("a1"))
    /\ WF_(Upgrade!vars)(part = "websocket" /\ Upgrade!Upgrading("a1"))

Progress == /\ Starts /\ [][Steps]_all
            /\ TaskFairness /\ PoolFairness /\ TlsFairness /\ ChatFairness
            /\ WebsocketFairness

-----------------------------------------------------------------------------
\* The actors of a part are alike: what holds of one of them holds of all.
One == "a1"

\* Every call to the database ends, though waiters hold the threads that the
\* holders of the connections need, and once all requests are gone the
\* connections get back to the pool.
CallsEnd ==
    /\ (part = "pool" /\ Pool!Awaiting(One)) ~> (part = "pool" /\ ~Pool!Awaiting(One))
    /\ <>[](part = "pool" /\ Pool!AllOver) => <>[](part = "pool" /\ Pool!AllBack)

\* A handshake keeps nobody else from being accepted, and what a peer sends with
\* it or after it is read: the task is polled in time and never past an error it
\* was not told of.
TlsServes ==
    /\ [](part = "tls" => Secure!PolledInTime)
    /\ (part = "tls" /\ Secure!InBacklog(One)) ~> (part = "tls" /\ ~Secure!InBacklog(One))
    /\ (part = "tls" /\ Secure!DataSent(One)) ~> (part = "tls" /\ Secure!AllRead(One))

\* Nobody is stuck behind a lock of the chat: who wants to join, to send or to
\* leave gets there if the clients read or leave.
EverybodyMoves ==
    LET At(place) == part = "chat" /\ Channel!IsAt(One, place)
    IN  /\ At("registering") ~> At("receiving")
        /\ At("broadcasting") ~> At("receiving")
        /\ At("deregistering") ~> At("ended")

\* Who was told to switch is served, a request is answered while its task waits,
\* and no task waits forever for an upgrade that layers have turned into
\* something else.
UpgradesEnd ==
    LET At(places) == part = "websocket" /\ Upgrade!IsAt(One, places)
    IN  /\ (part = "websocket" /\ Upgrade!Promised(One)) ~> (part = "websocket" /\ Upgrade!Served(One))
        /\ At({"endpoint"}) ~> At({"answered", "switched", "gone"})
        /\ (part = "websocket" /\ Upgrade!Waiting(One)) ~> (part = "websocket" /\ ~Upgrade!Waiting(One))
=============================================================================
