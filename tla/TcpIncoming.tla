----------------------------- MODULE TcpIncoming -----------------------------
(***************************************************************************)
(* The accept loop of roa::tcp::TcpIncoming: the stream of connections a   *)
(* hyper server polls.  The kernel's accept queue, the file descriptor     *)
(* limit, the one second sleep and the task that polls the listener are    *)
(* the environment; every call of poll_stream is one action, from the      *)
(* timeout check to the value it returns.                                  *)
(***************************************************************************)
EXTENDS Naturals, Sequences, FiniteSets

CONSTANTS
  Clients,    \* peers that may connect, each once
  Resetting,  \* those that may reset their connection before it is accepted
  MaxFds      \* connections the process may hold open (EMFILE beyond)

ASSUME ListenerAssumption == /\ Resetting \subseteq Clients
                             /\ MaxFds \in Nat

VARIABLES
  sleep_on_errors, \* TcpIncoming::sleep_on_errors
  timeout,         \* TcpIncoming::timeout: "none", "sleeping" or "elapsed"
  accept,          \* TcpIncoming::accept: "none", "pending" or "resolved"
  listener,        \* TcpIncoming::listener, which the accept future borrows
  server,          \* the server task: running, failed, panicked or dropped
  woken,           \* the server task is scheduled to poll again
  backlog,         \* the kernel's queue of established connections
  client           \* the state of each peer's connection

vars == <<sleep_on_errors, timeout, accept, listener, server, woken,
          backlog, client>>

TypeOK ==
  /\ sleep_on_errors \in BOOLEAN
  /\ timeout \in {"none", "sleeping", "elapsed"}
  /\ accept \in {"none", "pending", "resolved"}
  /\ listener \in {"open", "freed"}
  /\ server \in {"running", "failed", "panicked", "dropped"}
  /\ woken \in BOOLEAN
  /\ backlog \in Seq(Clients)
  /\ client \in [Clients -> {"idle", "queued", "reset", "refused", "open", "closed"}]

(* A bound listener, with the option as the application set it before it   *)
(* handed the listener to the server, whose task is about to poll it.      *)
Init ==
  /\ sleep_on_errors \in BOOLEAN
  /\ timeout = "none"
  /\ accept = "none"
  /\ listener = "open"
  /\ server = "running"
  /\ woken = TRUE
  /\ backlog = <<>>
  /\ client = [c \in Clients |-> "idle"]

-----------------------------------------------------------------------------
(* What accept(2) answers, and which of its errors concern one connection. *)

Open == {c \in Clients : client[c] = "open"}

(* At the descriptor limit accept(2) fails before it looks at the queue;   *)
(* tokio does not call it while it knows the queue to be empty.            *)
AcceptResults ==
  IF Cardinality(Open) >= MaxFds
  THEN {"Other"} \cup {e \in {"WouldBlock"} : backlog = <<>>}
  ELSE IF backlog = <<>> THEN {"WouldBlock"}
  ELSE IF client[Head(backlog)] = "reset" THEN {"ConnectionAborted"}
  ELSE {"Ok"}

is_connection_error(e) ==
  e \in {"ConnectionRefused", "ConnectionAborted", "ConnectionReset"}

-----------------------------------------------------------------------------
(* One call of poll_stream, by the value it ends with.                     *)

Sleeping_NotChecked == FALSE
Sleeping == timeout = "sleeping"

(* futures::ready!(timeout.poll(cx)): the sleep is not over.               *)
PollSleeping ==
  /\ Sleeping
  /\ woken' = FALSE
  /\ UNCHANGED <<sleep_on_errors, timeout, accept, listener, server, backlog, client>>

(* The accept future is created if there is none, and is not ready: it     *)
(* stays in the field and keeps the waker.                                 *)
PollPending_FutureDropped ==
  /\ "WouldBlock" \in AcceptResults
  /\ accept' = "none" /\ timeout' = "none"
  /\ woken' = FALSE
  /\ UNCHANGED <<server, backlog, client>>

PollPending ==
  /\ "WouldBlock" \in AcceptResults
  /\ accept' = "pending" /\ timeout' = "none"
  /\ woken' = FALSE
  /\ UNCHANGED <<server, backlog, client>>

(* A connection: the finished future is discarded and the server, which    *)
(* got an item, polls again.                                               *)
PollOk_FutureKept ==
  /\ "Ok" \in AcceptResults
  /\ backlog' = Tail(backlog)
  /\ client' = [client EXCEPT ![Head(backlog)] = "open"]
  /\ accept' = "resolved" /\ timeout' = "none"
  /\ woken' = TRUE
  /\ UNCHANGED server

PollOk ==
  /\ "Ok" \in AcceptResults
  /\ backlog' = Tail(backlog)
  /\ client' = [client EXCEPT ![Head(backlog)] = "open"]
  /\ accept' = "none" /\ timeout' = "none"
  /\ woken' = TRUE
  /\ UNCHANGED server

(* A connection error takes the dead connection off the queue and goes     *)
(* round the loop, where the finished future is still in the field: an     *)
(* async fn polled after it completed panics.                              *)
PollConnectionError ==
  /\ \E e \in AcceptResults : is_connection_error(e)
  /\ backlog' = Tail(backlog)
  /\ client' = [client EXCEPT ![Head(backlog)] = "refused"]
  /\ accept' = "resolved" /\ timeout' = "none"
  /\ server' = "panicked"
  /\ woken' = FALSE

(* Any other error sleeps, or ends the server.  A timer that is ready at   *)
(* once goes round the loop and meets the finished future there.           *)
PollOtherError ==
  /\ "Other" \in AcceptResults
  /\ accept' = "resolved"
  /\ woken' = FALSE
  /\ IF sleep_on_errors
     THEN \/ timeout' = "sleeping" /\ server' = "running"
          \/ timeout' = "none" /\ server' = "panicked"
     ELSE timeout' = "none" /\ server' = "failed"
  /\ UNCHANGED <<backlog, client>>

(* The future in the field has already returned an error.                  *)
PollFinished ==
  /\ server' = "panicked"
  /\ timeout' = "none" /\ woken' = FALSE
  /\ UNCHANGED <<accept, backlog, client>>

PollAccept ==
  /\ ~Sleeping
  /\ IF accept = "resolved" THEN PollFinished
     ELSE PollPending \/ PollOk \/ PollConnectionError \/ PollOtherError
  /\ UNCHANGED <<sleep_on_errors, listener>>

poll_stream == server = "running" /\ woken /\ (PollSleeping \/ PollAccept)

-----------------------------------------------------------------------------
(* The incoming is dropped with its server (finished, unwinding or dropped *)
(* by the application): Drop::drop clears the borrowing future, then the   *)
(* fields go, the listener before the accept future.                       *)
Drop_FieldOrderOnly == /\ server \in {"failed", "panicked", "dropped"}
                       /\ listener = "open"
                       /\ listener' = "freed"
                       /\ UNCHANGED <<sleep_on_errors, timeout, accept, server,
                                      woken, backlog, client>>

DropAccept == /\ server \in {"failed", "panicked", "dropped"}
              /\ accept # "none"
              /\ accept' = "none"
              /\ UNCHANGED <<sleep_on_errors, timeout, listener, server, woken,
                             backlog, client>>

DropListener == /\ server \in {"failed", "panicked", "dropped"}
                /\ accept = "none" /\ listener = "open"
                /\ listener' = "freed"
                /\ UNCHANGED <<sleep_on_errors, timeout, accept, server, woken,
                               backlog, client>>

(* The application drops the running server.                               *)
DropServer == /\ server = "running"
              /\ server' = "dropped"
              /\ UNCHANGED <<sleep_on_errors, timeout, accept, listener, woken,
                             backlog, client>>

-----------------------------------------------------------------------------
(* The environment.  A new connection wakes the task whose pending accept  *)
(* future registered for it; the timer wakes the task that polled it.      *)

Connect(c) ==
  /\ client[c] = "idle" /\ listener = "open"
  /\ client' = [client EXCEPT ![c] = "queued"]
  /\ backlog' = Append(backlog, c)
  /\ woken' = (woken \/ accept = "pending")
  /\ UNCHANGED <<sleep_on_errors, timeout, accept, listener, server>>

Reset(c) ==
  /\ c \in Resetting /\ client[c] = "queued"
  /\ client' = [client EXCEPT ![c] = "reset"]
  /\ UNCHANGED <<sleep_on_errors, timeout, accept, listener, server, woken, backlog>>

Close(c) ==
  /\ client[c] = "open"
  /\ client' = [client EXCEPT ![c] = "closed"]
  /\ UNCHANGED <<sleep_on_errors, timeout, accept, listener, server, woken, backlog>>

TimerElapses ==
  /\ server = "running" /\ timeout = "sleeping"
  /\ timeout' = "elapsed"
  /\ woken' = TRUE
  /\ UNCHANGED <<sleep_on_errors, accept, listener, server, backlog, client>>

(* The task that owns the server may be polled for reasons of its own.     *)
SpuriousWake ==
  /\ server = "running" /\ ~woken
  /\ woken' = TRUE
  /\ UNCHANGED <<sleep_on_errors, timeout, accept, listener, server, backlog, client>>

Next ==
  \/ poll_stream \/ DropAccept \/ DropListener \/ DropServer
  \/ TimerElapses \/ SpuriousWake
  \/ \E c \in Clients : Connect(c) \/ Reset(c) \/ Close(c)

Spec == Init /\ [][Next]_vars

(* The runtime polls a woken task and fires its timers.                    *)
FairSpec == Spec /\ WF_vars(poll_stream) /\ WF_vars(TimerElapses)

-----------------------------------------------------------------------------
(* A connection never waits for a server that nothing will wake: if the    *)
(* task is parked while the queue is not empty, it is sleeping off an      *)
(* error and its timer is running (the waker is registered on every path   *)
(* of poll_stream that returns Pending).                                   *)
NoLostWakeup ==
  server = "running" /\ ~woken /\ backlog # <<>> => timeout = "sleeping"

(* The accept future, transmuted to 'static, never outlives the listener   *)
(* it borrows.                                                             *)
NoDanglingAccept == listener = "freed" => accept = "none"

(* A running listener holds a finished accept future only across the sleep *)
(* that follows an accept error: every connection it hands out leaves it   *)
(* ready to accept the next one.                                           *)
FinishedOnlyWhileSleeping ==
  server = "running" /\ accept = "resolved" => timeout # "none"

(* While the listener sleeps off an error it takes no connection and makes *)
(* no further accept call (incoming.rs: "could enter into tight loop").    *)
NoAcceptWhileSleeping ==
  [][timeout = "sleeping" => server' \in {server, "dropped"}
                             /\ \A c \in Clients : client[c] = "queued" => client'[c] # "open"]_vars

(* What an accept error needs: a connection that was reset in the queue or *)
(* a process without free descriptors.                                     *)
NoErrors == /\ Cardinality(Open) < MaxFds
            /\ \A c \in Clients : client[c] # "refused"

(* A queued connection is accepted, reset by its peer, or its server stops,*)
(* and without accept errors it stops only if the application drops it.    *)
AcceptedOrStopped ==
  /\ \A c \in Clients : client[c] = "queued" ~>
       client[c] \in {"open", "closed", "reset", "refused"} \/ server # "running"
  /\ []NoErrors => \A c \in Clients : client[c] = "queued" ~>
       client[c] \in {"open", "closed", "reset"} \/ server = "dropped"

(* incoming.rs: "Connection errors can be ignored directly, continue by    *)
(* accepting the next request".                                            *)
ConnectionErrorsIgnored ==
  [][\A c \in Clients : client[c] = "reset" /\ client'[c] = "refused"
                          => server' = "running"]_vars

(* set_sleep_on_errors: after an error "wait for some time" and then "try  *)
(* to accept the connection again".                                        *)
RetryAfterSleep ==
  [][timeout = "elapsed" /\ timeout' = "none" => server' # "panicked"]_vars
=============================================================================
