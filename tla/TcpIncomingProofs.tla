-------------------------- MODULE TcpIncomingProofs --------------------------
(***************************************************************************)
(* The accept loop is safe for any set of clients and any descriptor limit.*)
(* Each invariant is the conjunction of what the reader wants to know and  *)
(* of what the loop leaves behind when it returns.                         *)
(***************************************************************************)
EXTENDS TcpIncoming, TLAPS

(* Whatever a poll leaves parked was registered with the timer or with the *)
(* pending accept future, and the latter only when the queue was empty.    *)
Parked == server = "running" /\ ~woken =>
            timeout = "sleeping" \/ (accept = "pending" /\ backlog = <<>>)

(* The listener is freed after the accept future and after the server.     *)
Freed == listener = "freed" => accept = "none" /\ server # "running"

-----------------------------------------------------------------------------
(* Taking a connection off the queue: the head is a client, the rest a     *)
(* queue of clients.                                                       *)
LEMMA QueueHead ==
  ASSUME NEW q \in Seq(Clients), q # <<>>
  PROVE  Head(q) \in Clients /\ Tail(q) \in Seq(Clients)
  OBVIOUS

(* An accept that answers anything but WouldBlock or EMFILE has a head.    *)
LEMMA AcceptedHead ==
  ASSUME "Ok" \in AcceptResults \/ \E e \in AcceptResults : is_connection_error(e)
  PROVE  backlog # <<>>
  BY DEF AcceptResults, is_connection_error

(* The values of every field keep their types, so that accept(2) is always *)
(* asked about a client and the fields are in one of their states.         *)
THEOREM Typing == Spec => []TypeOK
<1>1. Init => TypeOK
  BY DEF Init, TypeOK
<1>2. TypeOK /\ [Next]_vars => TypeOK'
  <2> SUFFICES ASSUME TypeOK, [Next]_vars PROVE TypeOK'
    OBVIOUS
  <2>1. CASE poll_stream
    <3>1. CASE PollSleeping
      BY <3>1 DEF PollSleeping, TypeOK
    <3>2. CASE PollAccept
      <4>1. UNCHANGED <<sleep_on_errors, listener>>
        BY <3>2 DEF PollAccept
      <4>2. CASE accept = "resolved"
        BY <3>2, <4>1, <4>2 DEF PollAccept, PollFinished, TypeOK
      <4>3. CASE PollPending
        BY <4>1, <4>3 DEF PollPending, TypeOK
      <4>4. CASE PollOk
        <5>1. Head(backlog) \in Clients /\ Tail(backlog) \in Seq(Clients)
          BY <4>4, AcceptedHead, QueueHead DEF PollOk, TypeOK
        <5> QED BY <4>1, <4>4, <5>1 DEF PollOk, TypeOK
      <4>5. CASE PollConnectionError
        <5>1. Head(backlog) \in Clients /\ Tail(backlog) \in Seq(Clients)
          BY <4>5, AcceptedHead, QueueHead DEF PollConnectionError, TypeOK
        <5> QED BY <4>1, <4>5, <5>1 DEF PollConnectionError, TypeOK
      <4>6. CASE PollOtherError
        BY <4>1, <4>6 DEF PollOtherError, TypeOK
      <4> QED BY <3>2, <4>2, <4>3, <4>4, <4>5, <4>6 DEF PollAccept
    <3> QED BY <2>1, <3>1, <3>2 DEF poll_stream
  <2>2. CASE DropAccept \/ DropListener \/ DropServer
    BY <2>2 DEF DropAccept, DropListener, DropServer, TypeOK
  <2>3. CASE TimerElapses \/ SpuriousWake
    BY <2>3 DEF TimerElapses, SpuriousWake, TypeOK
  <2>4. ASSUME NEW c \in Clients, Connect(c) PROVE TypeOK'
    <3>1. backlog' \in Seq(Clients)
      BY <2>4 DEF Connect, TypeOK
    <3>2. woken' \in BOOLEAN
      BY <2>4 DEF Connect, TypeOK
    <3> QED BY <2>4, <3>1, <3>2 DEF Connect, TypeOK
  <2>5. ASSUME NEW c \in Clients, Reset(c) \/ Close(c) PROVE TypeOK'
    BY <2>5 DEF Reset, Close, TypeOK
  <2>6. CASE UNCHANGED vars
    BY <2>6 DEF vars, TypeOK
  <2> QED BY <2>1, <2>2, <2>3, <2>4, <2>5, <2>6 DEF Next
<1> QED BY <1>1, <1>2, PTL DEF Spec

-----------------------------------------------------------------------------
(* The server never sleeps while connections wait, unless its timer runs.  *)
(* Parked is inductive: Connect needs to know that a server parked without *)
(* a timer has a pending accept future, which the connection wakes.        *)
THEOREM WakeupKept == Spec => []NoLostWakeup
<1>1. Init => Parked
  BY DEF Init, Parked
<1>2. Parked /\ [Next]_vars => Parked'
  <2> SUFFICES ASSUME Parked, [Next]_vars PROVE Parked'
    OBVIOUS
  <2>1. CASE poll_stream
    <3>1. CASE PollSleeping
      BY <3>1 DEF PollSleeping, Sleeping, Parked
    <3>2. CASE PollAccept
      <4>1. CASE accept = "resolved"
        BY <3>2, <4>1 DEF PollAccept, PollFinished, Parked
      <4>2. CASE PollPending
        BY <4>2 DEF PollPending, AcceptResults, Parked
      <4>3. CASE PollOk \/ PollConnectionError
        BY <4>3 DEF PollOk, PollConnectionError, Parked
      <4>4. CASE PollOtherError
        BY <4>4 DEF PollOtherError, Parked
      <4> QED BY <3>2, <4>1, <4>2, <4>3, <4>4 DEF PollAccept
    <3> QED BY <2>1, <3>1, <3>2 DEF poll_stream
  <2>2. CASE DropAccept \/ DropListener \/ DropServer
    BY <2>2 DEF DropAccept, DropListener, DropServer, Parked
  <2>3. CASE TimerElapses \/ SpuriousWake
    BY <2>3 DEF TimerElapses, SpuriousWake, Parked
  <2>4. ASSUME NEW c \in Clients, Connect(c) PROVE Parked'
    BY <2>4 DEF Connect, Parked
  <2>5. ASSUME NEW c \in Clients, Reset(c) \/ Close(c) PROVE Parked'
    BY <2>5 DEF Reset, Close, Parked
  <2>6. CASE UNCHANGED vars
    BY <2>6 DEF vars, Parked
  <2> QED BY <2>1, <2>2, <2>3, <2>4, <2>5, <2>6 DEF Next
<1>3. Parked => NoLostWakeup
  BY DEF Parked, NoLostWakeup
<1> QED BY <1>1, <1>2, <1>3, PTL DEF Spec

(* The accept future, whose borrow of the listener was transmuted to       *)
(* 'static, is gone before the listener is.  Freed adds that the server no *)
(* longer runs, so that no poll makes another one.                         *)
THEOREM BorrowEndsFirst == Spec => []NoDanglingAccept
<1>1. Init => Freed
  BY DEF Init, Freed
<1>2. Freed /\ [Next]_vars => Freed'
  <2> SUFFICES ASSUME Freed, [Next]_vars PROVE Freed'
    OBVIOUS
  <2>1. CASE poll_stream
    BY <2>1 DEF poll_stream, PollSleeping, PollAccept, PollFinished, PollPending, PollOk,
                PollConnectionError, PollOtherError, Freed
  <2>2. CASE DropAccept \/ DropListener \/ DropServer
    BY <2>2 DEF DropAccept, DropListener, DropServer, Freed
  <2>3. CASE TimerElapses \/ SpuriousWake
    BY <2>3 DEF TimerElapses, SpuriousWake, Freed
  <2>4. ASSUME NEW c \in Clients, Connect(c) \/ Reset(c) \/ Close(c) PROVE Freed'
    BY <2>4 DEF Connect, Reset, Close, Freed
  <2>5. CASE UNCHANGED vars
    BY <2>5 DEF vars, Freed
  <2> QED BY <2>1, <2>2, <2>3, <2>4, <2>5 DEF Next
<1>3. Freed => NoDanglingAccept
  BY DEF Freed, NoDanglingAccept
<1> QED BY <1>1, <1>2, <1>3, PTL DEF Spec

(* Handing out a connection always resets the accept future: a running     *)
(* listener keeps a finished one only across the sleep after an error.     *)
THEOREM FinishedHasTimer == Spec => []FinishedOnlyWhileSleeping
<1>1. Init => FinishedOnlyWhileSleeping
  BY DEF Init, FinishedOnlyWhileSleeping
<1>2. FinishedOnlyWhileSleeping /\ [Next]_vars => FinishedOnlyWhileSleeping'
  <2> USE DEF FinishedOnlyWhileSleeping
  <2> SUFFICES ASSUME FinishedOnlyWhileSleeping, [Next]_vars
               PROVE  FinishedOnlyWhileSleeping'
    OBVIOUS
  <2>1. CASE poll_stream
    <3>1. CASE PollSleeping
      BY <3>1 DEF PollSleeping
    <3>2. CASE PollAccept
      BY <3>2 DEF PollAccept, PollFinished, PollPending, PollOk, PollConnectionError,
                  PollOtherError
    <3> QED BY <2>1, <3>1, <3>2 DEF poll_stream
  <2>2. CASE DropAccept \/ DropListener \/ DropServer
    BY <2>2 DEF DropAccept, DropListener, DropServer
  <2>3. CASE TimerElapses \/ SpuriousWake
    BY <2>3 DEF TimerElapses, SpuriousWake
  <2>4. ASSUME NEW c \in Clients, Connect(c) \/ Reset(c) \/ Close(c)
        PROVE  FinishedOnlyWhileSleeping'
    BY <2>4 DEF Connect, Reset, Close
  <2>5. CASE UNCHANGED vars
    BY <2>5 DEF vars
  <2> QED BY <2>1, <2>2, <2>3, <2>4, <2>5 DEF Next
<1> QED BY <1>1, <1>2, PTL DEF Spec

(* The loop makes no accept call while it sleeps off an error, so no       *)
(* queued connection is opened and the server neither fails nor panics.    *)
THEOREM SleepTakesNothing == Spec => NoAcceptWhileSleeping
<1> DEFINE Calm == timeout = "sleeping" =>
             /\ server' \in {server, "dropped"}
             /\ \A c \in Clients : client[c] = "queued" => client'[c] # "open"
<1>1. TypeOK /\ [Next]_vars => [Calm]_vars
  <2> SUFFICES ASSUME TypeOK, Next, timeout = "sleeping"
               PROVE  /\ server' \in {server, "dropped"}
                      /\ \A c \in Clients : client[c] = "queued" => client'[c] # "open"
    OBVIOUS
  <2>1. CASE poll_stream
    BY <2>1 DEF poll_stream, PollSleeping, PollAccept, Sleeping
  <2>2. CASE DropAccept \/ DropListener \/ DropServer \/ TimerElapses \/ SpuriousWake
    BY <2>2 DEF DropAccept, DropListener, DropServer, TimerElapses, SpuriousWake
  <2>3. ASSUME NEW c \in Clients, Connect(c) \/ Reset(c) \/ Close(c)
        PROVE  /\ server' \in {server, "dropped"}
               /\ \A d \in Clients : client[d] = "queued" => client'[d] # "open"
    BY <2>3 DEF Connect, Reset, Close, TypeOK
  <2> QED BY <2>1, <2>2, <2>3 DEF Next
<1> QED BY <1>1, Typing, PTL DEF Spec, NoAcceptWhileSleeping
=============================================================================
