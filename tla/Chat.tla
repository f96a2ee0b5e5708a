--------------------------------- MODULE Chat ---------------------------------
(* The chat of integration/websocket-example: one task per websocket, all of  *)
(* them clones of one state, a slab of senders behind a read-write lock with  *)
(* a mutex around each sender. Both locks are tokio's: first come, first      *)
(* served, so a reader waits behind a writer that waits.                      *)
EXTENDS Naturals, Sequences, FiniteSets, Filter

CONSTANTS Peers,          \* the clients, each with one websocket
          MaxMessages,    \* bound on the messages of a client
          Capacity        \* frames a socket holds before a send has to wait

ChatAssumption == IsFiniteSet(Peers) /\ MaxMessages \in Nat /\ Capacity \in Nat \ {0}

VARIABLES at,             \* where the task of each peer is
          slab,           \* the channel: senders by index
          index,          \* the index a task was given, or 0
          lock,           \* the read-write lock: its holders and waiters, in order
          mutex,          \* the mutex of each sender: its holder and waiters
          todo,           \* the indexes a broadcast has still to visit
          sending,        \* the frame a task is sending, or NoFrame
          frames,         \* what was written to the socket of each peer
          taken,          \* how many of these frames its client has read
          gone,           \* whether the client has left
          received        \* how many messages each task has received

vars == <<at, slab, index, lock, mutex, todo, sending, frames, taken, gone, received>>

NoFrame == [kind |-> "none"]
Close == [kind |-> "close"]
Pong == [kind |-> "pong"]

Init == /\ at = [p \in Peers |-> "start"]
        /\ slab = [i \in 1 .. Cardinality(Peers) |-> {}]
        /\ index = [p \in Peers |-> 0]
        /\ lock = <<>>
        /\ mutex = [p \in Peers |-> <<>>]
        /\ todo = [p \in Peers |-> <<>>]
        /\ sending = [p \in Peers |-> NoFrame]
        /\ frames = [p \in Peers |-> <<>>]
        /\ taken = [p \in Peers |-> 0]
        /\ gone = [p \in Peers |-> FALSE]
        /\ received = [p \in Peers |-> 0]

-----------------------------------------------------------------------------
\* The locks. A writer holds the lock at the head of the queue, a reader when
\* only readers are in front of it.
Wait(p, mode) == Append(lock, [who |-> p, mode |-> mode])

Holds(p, mode) == \E i \in DOMAIN lock :
    /\ lock[i] = [who |-> p, mode |-> mode]
    /\ mode = "write" => i = 1
    /\ \A k \in 1 .. i : lock[k].mode = mode

Release(p) == Only(lock, {e \in Range(lock) : e.who # p})

Live == {i \in DOMAIN slab : slab[i] # {}}
Owner(i) == CHOOSE p \in slab[i] : TRUE

Writable(p) == Len(frames[p]) - taken[p] < Capacity

\* .send(message).await on a sender; an error is logged.
Put(q, frame) == frames' = IF gone[q] THEN frames
                           ELSE [frames EXCEPT ![q] = Append(@, frame)]

-----------------------------------------------------------------------------
\* stream.split(); register: self.0.write().await.insert(..).
AskRegister(p) ==
    /\ at[p] = "start"
    /\ at' = [at EXCEPT ![p] = "registering"]
    /\ lock' = Wait(p, "write")
    /\ UNCHANGED <<slab, index, mutex, todo, sending, frames, taken, gone, received>>

Register(p) ==
    /\ at[p] = "registering" /\ Holds(p, "write")
    /\ \E i \in DOMAIN slab \ Live :
           slab' = [slab EXCEPT ![i] = {p}] /\ index' = [index EXCEPT ![p] = i]
    /\ lock' = Release(p)
    /\ at' = [at EXCEPT ![p] = "receiving"]
    /\ UNCHANGED <<mutex, todo, sending, frames, taken, gone, received>>

\* receiver.next().await: a text, a ping, or the end, with an error or without.
\* A pong is only logged.
MayReceive(p) == at[p] = "receiving" /\ ~gone[p] /\ received[p] < MaxMessages

AskBroadcast(p) ==
    /\ MayReceive(p)
    /\ received' = [received EXCEPT ![p] = @ + 1]
    /\ sending' = [sending EXCEPT ![p] = [kind |-> "text", from |-> p, nth |-> received[p] + 1]]
    /\ at' = [at EXCEPT ![p] = "broadcasting"]
    /\ lock' = Wait(p, "read")
    /\ UNCHANGED <<slab, index, mutex, todo, frames, taken, gone>>

AskPong(p) ==
    /\ MayReceive(p)
    /\ received' = [received EXCEPT ![p] = @ + 1]
    /\ sending' = [sending EXCEPT ![p] = Pong]
    /\ at' = [at EXCEPT ![p] = "ponging"]
    /\ lock' = Wait(p, "read")
    /\ UNCHANGED <<slab, index, mutex, todo, frames, taken, gone>>

\* A client closes the websocket or breaks off; what is written to it fails.
Leave(p) == /\ ~gone[p]
            /\ gone' = [gone EXCEPT ![p] = TRUE]
            /\ UNCHANGED <<at, slab, index, lock, mutex, todo, sending, frames, taken, received>>

\* After an error the task will send a close frame.
AskDeregister(p) ==
    /\ at[p] = "receiving"
    /\ \/ gone[p] /\ sending' = sending
       \/ sending' = [sending EXCEPT ![p] = Close]
    /\ at' = [at EXCEPT ![p] = "deregistering"]
    /\ lock' = Wait(p, "write")
    /\ UNCHANGED <<slab, index, mutex, todo, frames, taken, gone, received>>

-----------------------------------------------------------------------------
\* broadcast iterates over the slab under the read lock.
SlabOrder(indexes) == Only([i \in DOMAIN slab |-> i], indexes)

Visits_EchoToo(p) == Append(SlabOrder(Live), index[p])  \* mutant: an echo besides
Visits(p) == SlabOrder(Live)

StartBroadcast(p) ==
    /\ at[p] = "broadcasting" /\ Holds(p, "read")
    /\ at' = [at EXCEPT ![p] = "sending"]
    /\ todo' = [todo EXCEPT ![p] = Visits(p)]
    /\ UNCHANGED <<slab, index, lock, mutex, sending, frames, taken, gone, received>>

\* send: self.0.read().await[index].
StartPong(p) ==
    /\ at[p] = "ponging" /\ Holds(p, "read")
    /\ at' = [at EXCEPT ![p] = "sending"]
    /\ todo' = [todo EXCEPT ![p] = <<index[p]>>]
    /\ UNCHANGED <<slab, index, lock, mutex, sending, frames, taken, gone, received>>

\* sender.lock().await
AskSender(p) ==
    /\ at[p] = "sending" /\ todo[p] # <<>>
    /\ LET q == Owner(Head(todo[p])) IN
           /\ p \notin Range(mutex[q])
           /\ mutex' = [mutex EXCEPT ![q] = Append(@, p)]
    /\ UNCHANGED <<at, slab, index, lock, todo, sending, frames, taken, gone, received>>

After(p, q) == Tail(todo[p])

Send(p) ==
    /\ at[p] = "sending" /\ todo[p] # <<>>
    /\ LET q == Owner(Head(todo[p])) IN
           /\ mutex[q] # <<>> /\ Head(mutex[q]) = p
           /\ gone[q] \/ Writable(q)
           /\ Put(q, sending[p])
           /\ mutex' = [mutex EXCEPT ![q] = Tail(@)]
           /\ todo' = [todo EXCEPT ![p] = After(p, q)]
    /\ UNCHANGED <<at, slab, index, lock, sending, taken, gone, received>>

Sent_GuardKept(p) ==                                    \* mutant: the guard outlives the message
    /\ at[p] = "sending" /\ todo[p] = <<>>
    /\ at' = [at EXCEPT ![p] = "receiving"]
    /\ sending' = [sending EXCEPT ![p] = NoFrame]
    /\ UNCHANGED <<slab, index, lock, mutex, todo, frames, taken, gone, received>>

Sent(p) ==
    /\ at[p] = "sending" /\ todo[p] = <<>>
    /\ at' = [at EXCEPT ![p] = "receiving"]
    /\ sending' = [sending EXCEPT ![p] = NoFrame]
    /\ lock' = Release(p)
    /\ UNCHANGED <<slab, index, mutex, todo, frames, taken, gone, received>>

\* deregister: write lock, remove, into_inner.
Removed(i) == [slab EXCEPT ![i] = {}]

Deregister(p) ==
    /\ at[p] = "deregistering" /\ Holds(p, "write")
    /\ slab' = Removed(index[p])
    /\ index' = [index EXCEPT ![p] = 0]
    /\ lock' = Release(p)
    /\ at' = [at EXCEPT ![p] = "closing"]
    /\ UNCHANGED <<mutex, todo, sending, frames, taken, gone, received>>

\* The sender is the task's own now.
SendClose(p) ==
    /\ at[p] = "closing"
    /\ sending[p] = Close => gone[p] \/ Writable(p)
    /\ IF sending[p] = Close THEN Put(p, Close) ELSE UNCHANGED frames
    /\ sending' = [sending EXCEPT ![p] = NoFrame]
    /\ at' = [at EXCEPT ![p] = "ended"]
    /\ UNCHANGED <<slab, index, lock, mutex, todo, taken, gone, received>>

\* The client reads a frame.
Take(p) == /\ taken[p] < Len(frames[p])
           /\ taken' = [taken EXCEPT ![p] = @ + 1]
           /\ UNCHANGED <<at, slab, index, lock, mutex, todo, sending, frames, gone, received>>

Task(p) == \/ Register(p) \/ StartBroadcast(p) \/ StartPong(p) \/ AskSender(p)
           \/ Send(p) \/ Sent(p) \/ Deregister(p) \/ SendClose(p)

Next == \E p \in Peers : \/ AskRegister(p) \/ AskBroadcast(p) \/ AskPong(p)
                         \/ Leave(p) \/ AskDeregister(p) \/ Task(p) \/ Take(p)

\* The runtime runs every task that can go on, and clients read what was sent to
\* them or leave.
Fairness == \A p \in Peers : WF_vars(Task(p)) /\ WF_vars(Take(p))

Spec == Init /\ [][Next]_vars /\ Fairness

-----------------------------------------------------------------------------
IsText(frame, q) == frame.kind = "text" /\ frame.from = q

\* Each client gets the messages of another client in the order in which they
\* were sent and none of them twice, whatever broadcasts run at the same time.
SenderOrder ==
    \A p, q \in Peers : \A i, k \in DOMAIN frames[p] :
        i < k /\ IsText(frames[p][i], q) /\ IsText(frames[p][k], q)
            => frames[p][i].nth < frames[p][k].nth

\* A broadcast that has visited everybody has reached everybody in the channel:
\* nobody joins or leaves while it runs.
BroadcastReachesAll ==
    \A p \in Peers :
        (at[p] = "sending" /\ todo[p] = <<>> /\ sending[p].kind = "text") =>
            \A i \in Live : gone[Owner(i)] \/ Contains(frames[Owner(i)], sending[p])

\* A task that is in the channel finds its own sender under its index, which
\* slab reuses for others as soon as it has left: a pong goes to its client only.
OwnSender ==
    \A p \in Peers :
        /\ at[p] \in {"receiving", "broadcasting", "ponging", "sending", "deregistering"}
               => slab[index[p]] = {p}
        /\ Cardinality({i \in DOMAIN frames[p] : frames[p][i] = Pong}) <= received[p]

\* Nothing follows a close frame.
CloseIsLast ==
    \A p \in Peers : \A i \in DOMAIN frames[p] :
        frames[p][i] = Close => i = Len(frames[p])

\* What clients get is what was said to them, in order and to the end.
SaidInOrder == SenderOrder /\ BroadcastReachesAll /\ OwnSender /\ CloseIsLast

\* Where a task wants to go and where it is.
IsAt(p, place) == at[p] = place

\* Nobody is stuck behind a lock: who wants to join, to send or to leave gets
\* there if the clients go on reading.
EverybodyMoves ==
    \A p \in Peers : /\ IsAt(p, "registering") ~> IsAt(p, "receiving")
                     /\ IsAt(p, "broadcasting") ~> IsAt(p, "receiving")
                     /\ IsAt(p, "deregistering") ~> IsAt(p, "ended")
=============================================================================
