--------------------------------- MODULE Tls ----------------------------------
(* roa::tls: TlsIncoming hands out a connection before its handshake; the      *)
(* first poll of its WrapTlsStream, for whatever operation, runs it. Each      *)
(* connection is polled by a task of its own that sleeps until the socket      *)
(* wakes it.                                                                   *)
EXTENDS Naturals, Sequences, FiniteSets, SequencesExt

CONSTANTS Conns,          \* connections
          Rounds,         \* flights of a handshake that the server has to receive
          MaxData         \* bound on the records a peer sends

TlsAssumption == Rounds \in Nat \ {0} /\ MaxData \in Nat

VARIABLES backlog,        \* connections that wait to be accepted
          stream,         \* WrapTlsStream of each connection
          needs,          \* the flights its handshake still needs
          socket,         \* what has arrived and was not read
          sent,           \* history: what the peer has sent
          task,           \* the task that polls the connection
          read,           \* history: the records the task was given
          told            \* history: whether the task was given an error

vars == <<backlog, stream, needs, socket, sent, task, read, told>>

\* stream: "raw" before it is accepted, "handshaking", "spent" when the future in
\* Handshaking has finished, "streaming".
\* task: "none", "ready", "asleep", "ended" or "panicked".

Init == /\ backlog = {}
        /\ stream = [c \in Conns |-> "raw"]
        /\ needs = [c \in Conns |-> Rounds]
        /\ socket = [c \in Conns |-> <<>>]
        /\ sent = [c \in Conns |-> <<>>]
        /\ task = [c \in Conns |-> "none"]
        /\ read = [c \in Conns |-> 0]
        /\ told = [c \in Conns |-> FALSE]

-----------------------------------------------------------------------------
\* The peers: they connect, send the flights of a handshake and then records, or
\* anything else, or nothing at all, and may leave at any time.
Connect(c) == /\ stream[c] = "raw" /\ c \notin backlog
              /\ backlog' = backlog \cup {c}
              /\ UNCHANGED <<stream, needs, socket, sent, task, read, told>>

Count(s, x) == Len(SelectSeq(s, LAMBDA y : y = x))
Over(s) == Contains(s, "garbage") \/ Contains(s, "eof")

\* An arrival wakes the task that sleeps on the socket.
Deliver(c, x) ==
    /\ sent' = [sent EXCEPT ![c] = Append(@, x)]
    /\ socket' = [socket EXCEPT ![c] = Append(@, x)]
    /\ task' = [task EXCEPT ![c] = IF @ = "asleep" THEN "ready" ELSE @]
    /\ UNCHANGED <<backlog, stream, needs, read, told>>

Send(c) ==
    /\ stream[c] # "raw" \/ c \in backlog
    /\ ~Over(sent[c])
    /\ \/ Count(sent[c], "flight") < Rounds /\ Deliver(c, "flight")
       \/ /\ Count(sent[c], "flight") = Rounds /\ Count(sent[c], "data") < MaxData
          /\ Deliver(c, "data")
       \/ Count(sent[c], "flight") < Rounds /\ Deliver(c, "garbage")
       \/ Deliver(c, "eof")

-----------------------------------------------------------------------------

\* poll_accept wraps the connection and returns it at once, whatever the others do.
poll_accept(c) ==
    /\ c \in backlog
    /\ backlog' = backlog \ {c}
    /\ stream' = [stream EXCEPT ![c] = "handshaking"]
    /\ task' = [task EXCEPT ![c] = "ready"]
    /\ UNCHANGED <<needs, socket, sent, read, told>>

\* The handshake takes the flights that are there, and ends, fails or waits.
Flights(c) ==
    LET other == {i \in DOMAIN socket[c] : socket[c][i] # "flight"}
    IN  IF other = {} THEN Len(socket[c]) ELSE (CHOOSE i \in other : \A k \in other : i <= k) - 1

Completes(c) == Flights(c) >= needs[c]
Fails(c) == ~Completes(c) /\ Flights(c) < Len(socket[c])

Took(c) == IF Completes(c) THEN needs[c] ELSE Flights(c)

Operations == {"read", "write", "flush", "shutdown"}

\* futures::ready!(poll_handshake(..)): the waker stays with the socket.
Waits(c) ==
    /\ stream[c] = "handshaking" /\ ~Completes(c) /\ ~Fails(c)
    /\ needs' = [needs EXCEPT ![c] = @ - Took(c)]
    /\ socket' = [socket EXCEPT ![c] = SubSeq(@, Took(c) + 1, Len(@))]
    /\ UNCHANGED <<stream, read, told>>

\* ?: the error is returned and the finished future stays in Handshaking.
HandshakeFails(c) ==
    /\ stream[c] = "handshaking" /\ Fails(c)
    /\ stream' = [stream EXCEPT ![c] = "spent"]
    /\ told' = [told EXCEPT ![c] = TRUE]
    /\ UNCHANGED <<needs, socket, read>>

\* Streaming(stream) => stream.poll_read(..): one record, or Pending.
Rest(c, taken) == SubSeq(socket[c], taken + 1, Len(socket[c]))
Readable(c, taken) == Rest(c, taken) # <<>> /\ Head(Rest(c, taken)) = "data"

StreamPolled(c, op, taken) ==
    LET gets == op = "read" /\ Readable(c, taken)
    IN  /\ socket' = [socket EXCEPT ![c] = Rest(c, taken + (IF gets THEN 1 ELSE 0))]
        /\ read' = [read EXCEPT ![c] = @ + (IF gets THEN 1 ELSE 0)]
        /\ UNCHANGED told

\* Whether the task finds more to do, the stream at its end among it.
Ready(c, taken) == Rest(c, taken) # <<>>

\* *self = Streaming(..); self.poll_read(..): the operation follows in this poll.
HandshakeDone(c, op) ==
    /\ stream[c] = "handshaking" /\ Completes(c)
    /\ stream' = [stream EXCEPT ![c] = "streaming"]
    /\ needs' = [needs EXCEPT ![c] = 0]
    /\ StreamPolled(c, op, Took(c))

Forwarded(c, op) ==
    /\ stream[c] = "streaming"
    /\ StreamPolled(c, op, 0)
    /\ UNCHANGED <<stream, needs>>

\* A task that polls on until it has to wait. It may flush or shut down first and
\* it reads before it sleeps.
Asleep_AfterHandshake(c, op) ==                         \* mutant: Pending when it is done
    /\ op = "read"
    /\ stream[c] = "handshaking" \/ ~Ready(c, 0)

Asleep(c, op) ==
    /\ op = "read"
    /\ ~Ready(c, IF stream[c] = "handshaking" THEN Took(c) ELSE 0)

Poll(c, op) ==
    /\ task[c] = "ready"
    /\ \/ Waits(c) /\ task' = [task EXCEPT ![c] = IF op = "read" THEN "asleep" ELSE "ready"]
       \/ HandshakeFails(c) /\ UNCHANGED task
       \/ /\ HandshakeDone(c, op) \/ Forwarded(c, op)
          /\ task' = [task EXCEPT ![c] = IF Asleep(c, op) THEN "asleep" ELSE "ready"]
    /\ UNCHANGED <<backlog, sent>>

\* A future that is polled after it has finished panics.
PollSpent(c) ==
    /\ task[c] = "ready" /\ stream[c] = "spent"
    /\ task' = [task EXCEPT ![c] = "panicked"]
    /\ UNCHANGED <<backlog, stream, needs, socket, sent, read, told>>

\* hyper ends the task at an error or the end of the stream.
End(c) ==
    /\ task[c] = "ready"
    /\ told[c] \/ (stream[c] = "streaming" /\ socket[c] # <<>> /\ Head(socket[c]) = "eof")
    /\ task' = [task EXCEPT ![c] = "ended"]
    /\ UNCHANGED <<backlog, stream, needs, socket, sent, read, told>>

Next == \E c \in Conns : \/ Connect(c) \/ Send(c) \/ poll_accept(c)
                         \/ \E op \in Operations : Poll(c, op)
                         \/ PollSpent(c) \/ End(c)

\* The server task is woken for every queued connection and hyper reads whenever
\* the task of the connection runs; peers owe nobody anything.
Fairness == \A c \in Conns : /\ WF_vars(poll_accept(c))
                             /\ WF_vars(Poll(c, "read"))
                             /\ WF_vars(End(c))

Spec == Init /\ [][Next]_vars /\ Fairness

-----------------------------------------------------------------------------
\* The finished future of a handshake is polled again only by a caller that was
\* told of the error and polls on; a completed handshake never panics.
PanicOnlyAfterError == \A c \in Conns : stream[c] = "spent" => told[c]

\* A task sleeps only when nothing it could read has arrived, also when the
\* first record came together with the last flight of the handshake.
NoLostWakeup == \A c \in Conns : task[c] = "asleep" => socket[c] = <<>>

\* Nobody sleeps beside data or is surprised by a future that has finished.
PolledInTime == PanicOnlyAfterError /\ NoLostWakeup

\* What AllAccepted and DataRead speak of.
InBacklog(c) == c \in backlog
DataSent(c) == Count(sent[c], "data") > 0
AllRead(c) == read[c] = Count(sent[c], "data")

\* Nobody waits in the queue for the handshake of another connection: each
\* connection is accepted even if the peers before it never say a word.
AllAccepted == \A c \in Conns : InBacklog(c) ~> ~InBacklog(c)

\* What a peer sends after a handshake is read, whatever follows it.
DataRead == \A c \in Conns : DataSent(c) ~> AllRead(c)
=============================================================================
