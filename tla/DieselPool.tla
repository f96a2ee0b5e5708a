----------------------------- MODULE DieselPool -----------------------------
(***************************************************************************)
(* roa-diesel: handlers use an r2d2 connection pool through closures on    *)
(* the runtime's blocking threads.  get_conn is a closure that waits for a *)
(* connection; execute, load_data, get_result and first are get_conn and   *)
(* then a second closure that owns the connection and runs the statement.  *)
(*                                                                         *)
(* Waiting for a connection occupies a blocking thread, and so does using  *)
(* one.  A request that is dropped leaves its closures behind: they run    *)
(* detached and their results are dropped with the channel.                *)
(***************************************************************************)
EXTENDS Naturals, Sequences, FiniteSets

CONSTANTS
  Requests,   \* tasks of the application, each serves requests in turn
  Conns,      \* connections of the pool
  Threads,    \* threads of the runtime's blocking pool
  Timeout,    \* the pool's connection timeout, in ticks
  MaxOpen,    \* bound: open calls of a task, those of dropped requests too
  Ops,        \* the calls its handlers make
  NoConn

DieselAssumption ==
  /\ Threads \in Nat \ {0} /\ Timeout \in Nat \ {0} /\ MaxOpen \in Nat \ {0}
  /\ NoConn \notin Conns
  /\ Ops \subseteq {"get_conn", "execute", "load_data", "first"}

VARIABLES
  task,     \* running, awaiting, or over: its request is done or dropped
  current,  \* the call the request awaits
  call,     \* the calls: what each is and where it is
  conn,     \* the connection the call's closure, channel or handler holds
  idle,     \* the connections in the pool
  queue     \* the closures that wait for a blocking thread, first come first served

vars == <<task, current, call, conn, idle, queue>>

Calls == Requests \X (1..MaxOpen)

(* asked: pool.get() is queued; getting: it runs; got: its connection is   *)
(* in the channel; held: the handler has it; queued and querying: the      *)
(* closure with the statement; answered: its result is in the channel.     *)
Stages == {"none", "asked", "getting", "got", "held", "queued", "querying", "answered"}

(* elapsed: ticks since pool.get() began; waited: since get_conn was called*)
Call == [stage : Stages, op : Ops \cup {"get_conn"}, answer : {"none", "rows", "empty", "error", "panic"},
         elapsed : 0..Timeout, waited : 0..(Timeout + 1)]
NoCall == [stage |-> "none", op |-> "get_conn", answer |-> "none", elapsed |-> 0, waited |-> 0]

TypeOK ==
  /\ task \in [Requests -> {"running", "awaiting", "over"}]
  /\ current \in [Requests -> 1..MaxOpen]
  /\ call \in [Calls -> Call]
  /\ conn \in [Calls -> Conns \cup {NoConn}]
  /\ idle \subseteq Conns
  /\ queue \in Seq(Calls)

Init ==
  /\ task = [r \in Requests |-> "over"] /\ current = [r \in Requests |-> 1]
  /\ call = [j \in Calls |-> NoCall]
  /\ conn = [j \in Calls |-> NoConn]
  /\ idle = Conns
  /\ queue = <<>>

-----------------------------------------------------------------------------
In(stages) == {j \in Calls : call[j].stage \in stages}
Busy == In({"getting", "querying"})

(* The receiver of a call's channel exists while its request awaits it.    *)
Awaited(j) == task[j[1]] = "awaiting" /\ j[2] = current[j[1]]
Current(r) == <<r, current[r]>>

(* Connections dropped with the calls in js go back to the pool.           *)
Returned(js) == idle \cup {conn[j] : j \in {k \in js : conn[k] # NoConn}}
Freed(js) == [j \in Calls |-> IF j \in js THEN NoConn ELSE conn[j]]

(* A call goes to another stage; its result is dropped if no one awaits it.*)
To(j, stage) == [call EXCEPT ![j].stage = stage, ![j].elapsed = 0, ![j].waited = 0]
Sent_ErrorsDropped(j, answer) ==
  [call EXCEPT ![j] =
     IF Awaited(j) /\ answer # "error"
     THEN [NoCall EXCEPT !.stage = "answered", !.op = call[j].op, !.answer = answer]
     ELSE NoCall]
Sent(j, answer) ==
  [call EXCEPT ![j] =
     IF Awaited(j) THEN [NoCall EXCEPT !.stage = "answered", !.op = call[j].op, !.answer = answer]
     ELSE NoCall]

(* A request arrives, while closures of dropped ones may still be about.   *)
Arrive(r) ==
  /\ task[r] = "over"
  /\ task' = [task EXCEPT ![r] = "running"]
  /\ UNCHANGED <<current, call, conn, idle, queue>>

(* get_conn, on its own or as the first half of a statement.               *)
get_conn(r) ==
  /\ task[r] = "running"
  /\ \E n \in 1..MaxOpen, o \in Ops :
       /\ call[<<r, n>>].stage = "none"
       /\ call' = [call EXCEPT ![<<r, n>>] = [NoCall EXCEPT !.stage = "asked", !.op = o]]
       /\ current' = [current EXCEPT ![r] = n]
       /\ queue' = Append(queue, <<r, n>>)
  /\ task' = [task EXCEPT ![r] = "awaiting"]
  /\ UNCHANGED <<conn, idle>>

(* A blocking thread takes up the closure that has waited longest.         *)
Start(j) ==
  /\ Cardinality(Busy) < Threads
  /\ queue # <<>> /\ j = Head(queue)
  /\ queue' = Tail(queue)
  /\ \/ call[j].stage = "asked" /\ call' = [call EXCEPT ![j].stage = "getting"]
     \/ call[j].stage = "queued" /\ call' = To(j, "querying")
  /\ UNCHANGED <<task, current, conn, idle>>

(* pool.get() finds a connection and sends it: to the request, or, when    *)
(* that is gone, back to the pool.                                         *)
GetOk(j) ==
  /\ call[j].stage = "getting"
  /\ \E c \in idle :
       IF Awaited(j)
       THEN /\ call' = To(j, "got")
            /\ conn' = [conn EXCEPT ![j] = c] /\ idle' = idle \ {c}
       ELSE /\ call' = [call EXCEPT ![j] = NoCall]
            /\ UNCHANGED <<conn, idle>>
  /\ UNCHANGED <<task, current, queue>>

(* pool.get() gives up, which `?` turns into the error of the call.        *)
GetTimeout(j) ==
  /\ call[j].stage = "getting" /\ call[j].elapsed = Timeout
  /\ call' = Sent(j, "error")
  /\ UNCHANGED <<task, current, conn, idle, queue>>

(* The request is polled with its connection: get_conn hands it to the     *)
(* handler, the others move it into the closure that runs the statement.   *)
Resume(r) ==
  /\ task[r] = "awaiting" /\ call[Current(r)].stage = "got"
  /\ IF call[Current(r)].op = "get_conn"
     THEN /\ call' = To(Current(r), "held") /\ task' = [task EXCEPT ![r] = "running"]
          /\ current' = [current EXCEPT ![r] = 1] /\ UNCHANGED queue
     ELSE /\ call' = To(Current(r), "queued") /\ queue' = Append(queue, Current(r))
          /\ UNCHANGED <<task, current>>
  /\ UNCHANGED <<conn, idle>>

(* A handler runs a closure of its own with a connection it holds, and     *)
(* awaits it (create_post of the example).                                 *)
UseOwn(r) ==
  /\ task[r] = "running"
  /\ \E n \in 1..MaxOpen :
       /\ call[<<r, n>>].stage = "held"
       /\ call' = To(<<r, n>>, "queued") /\ current' = [current EXCEPT ![r] = n]
       /\ queue' = Append(queue, <<r, n>>)
  /\ task' = [task EXCEPT ![r] = "awaiting"]
  /\ UNCHANGED <<conn, idle>>

(* What execute, load_data (get_results) and first (get_result) make of    *)
(* what diesel returned.                                                   *)
Outcome(o, diesel) ==
  IF diesel # "NotFound" THEN diesel ELSE IF o \in {"load_data", "first"} THEN "empty" ELSE "error"

(* The closure ends, or panics, and drops the connection.                  *)
Query_AwaitedOnly(j) ==
  /\ call[j].stage = "querying"
  /\ \E d \in {"rows", "error", "NotFound", "panic"} : call' = Sent(j, Outcome(call[j].op, d))
  /\ idle' = IF Awaited(j) THEN Returned({j}) ELSE idle
  /\ conn' = Freed({j})
  /\ UNCHANGED <<task, current, queue>>
Query(j) ==
  /\ call[j].stage = "querying"
  /\ \E d \in {"rows", "error", "NotFound", "panic"} : call' = Sent(j, Outcome(call[j].op, d))
  /\ idle' = Returned({j}) /\ conn' = Freed({j})
  /\ UNCHANGED <<task, current, queue>>

-----------------------------------------------------------------------------
(* A request's future is gone, with the connections it held itself and the *)
(* results it had not read; closures that were spawned stay.               *)
Gone(r) == {j \in In({"got", "held", "answered"}) : j[1] = r}

End(r) ==
  /\ task' = [task EXCEPT ![r] = "over"]
  /\ call' = [j \in Calls |-> IF j \in Gone(r) THEN NoCall
                              ELSE IF j[1] = r THEN [call[j] EXCEPT !.waited = 0] ELSE call[j]]
  /\ idle' = Returned(Gone(r)) /\ conn' = Freed(Gone(r))
  /\ current' = [current EXCEPT ![r] = 1]
  /\ UNCHANGED queue

(* The awaited result arrives; a panic of the closure is one of the task.  *)
PollAnswer(r) ==
  /\ task[r] = "awaiting" /\ call[Current(r)].stage = "answered"
  /\ IF call[Current(r)].answer = "panic"
     THEN End(r)
     ELSE /\ call' = [call EXCEPT ![Current(r)] = NoCall]
          /\ task' = [task EXCEPT ![r] = "running"]
          /\ current' = [current EXCEPT ![r] = 1]
          /\ UNCHANGED <<conn, idle, queue>>

Finish(r) == task[r] = "running" /\ End(r)

(* The connection is lost or the handler gives up waiting.                 *)
Cancel(r) == task[r] = "awaiting" /\ End(r)

(* Time passes: slower than a free thread takes up a closure and no        *)
(* further than the deadline of a waiting pool.get().                      *)
Tick ==
  /\ In({"asked", "queued"}) # {} => Cardinality(Busy) = Threads
  /\ In({"asked", "getting"}) # {}
  /\ \A j \in In({"getting"}) : call[j].elapsed < Timeout
  /\ call' = [j \in Calls |->
       [call[j] EXCEPT
          !.waited = IF j \in In({"asked", "getting"}) /\ Awaited(j) /\ @ <= Timeout
                     THEN @ + 1 ELSE @,
          !.elapsed = IF j \in In({"getting"}) THEN @ + 1 ELSE @]]
  /\ UNCHANGED <<task, current, conn, idle, queue>>

Handler(r) == get_conn(r) \/ UseOwn(r) \/ Finish(r)
Poll(r) == Resume(r) \/ PollAnswer(r)
Thread(j) == Start(j) \/ GetOk(j) \/ GetTimeout(j) \/ Query(j)

Next == \/ \E r \in Requests : Arrive(r) \/ Handler(r) \/ Poll(r) \/ Cancel(r)
        \/ \E j \in Calls : Thread(j)
        \/ Tick

Spec == Init /\ [][Next]_vars

(* Handlers go on, woken tasks are polled, statements end and time passes. *)
FairSpec == /\ Spec
            /\ \A r \in Requests : WF_vars(Handler(r)) /\ WF_vars(Poll(r))
            /\ \A j \in Calls : WF_vars(Thread(j))
            /\ WF_vars(Tick)

-----------------------------------------------------------------------------
(* Every connection is in the pool or with exactly one call, whatever was  *)
(* cancelled, timed out or panicked: none leaks and none is shared.        *)
ConnectionsAccounted ==
  \A c \in Conns :
    /\ c \in idle <=> \A j \in Calls : conn[j] # c
    /\ \A j, k \in Calls : conn[j] = c /\ conn[k] = c => j = k

(* What CallsEnd and ConnectionsComeBack speak of.                         *)
Awaiting(r) == task[r] = "awaiting"
AllOver == \A r \in Requests : task[r] = "over"
AllBack == idle = Conns

(* Every call ends in spite of stalls.                                     *)
CallsEnd == \A r \in Requests : Awaiting(r) ~> ~Awaiting(r)

(* When no request is left all connections get back to the pool.           *)
ConnectionsComeBack == <>[]AllOver => <>[]AllBack

(* Documented of get_conn: it waits for at most the configured timeout.    *)
WaitsAtMostTimeout == \A j \in Calls : call[j].waited <= Timeout
=============================================================================
