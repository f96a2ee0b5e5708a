----------------------------- MODULE SharedProofs -----------------------------
(***************************************************************************)
(* Proofs about the state that requests share, for any number of them: the *)
(* connections of a database, the records of a store, the posts of a blog  *)
(* and the senders of a chat.  Each part has a section of its own, with    *)
(* its inductive invariant; a theorem about Shared follows from the steps  *)
(* of its part, for no step belongs to another one.                        *)
(***************************************************************************)
EXTENDS Shared, SequenceFacts, FiniteSetTheorems

(* A behaviour stays with its part, and its steps are those of the part.   *)
LEMMA PartsApart ==
  ASSUME [Next]_vars
  PROVE  /\ UNCHANGED part
         /\ part = "pool" => [Pool!Next]_(Pool!vars)
         /\ part = "store" => [Store!Next]_(Store!vars)
         /\ part = "blog" => [Blog!Next]_(Blog!vars)
         /\ part = "chat" => [Channel!Next]_(Channel!vars)
  BY DEF Next, vars, pool, store, blog, chat, Pool!vars, Store!vars, Blog!vars, Channel!vars

-----------------------------------------------------------------------------
(* The pool of connections.                                                *)

(* A call that was never made is a call.                                   *)
LEMMA PoolNoCall ==
  ASSUME Pool!DieselAssumption
  PROVE  Pool!NoCall \in Pool!Call
  BY DEF Pool!DieselAssumption, Pool!NoCall, Pool!Call, Pool!Stages

(* A call keeps its type when it goes to another stage, when its result is *)
(* sent or dropped, and when its request is gone.                          *)
LEMMA PoolCallTypes ==
  ASSUME Pool!DieselAssumption, Pool!TypeOK, NEW j \in Pool!Calls
  PROVE  /\ \A s \in Pool!Stages : Pool!To(j, s) \in [Pool!Calls -> Pool!Call]
         /\ \A a \in {"rows", "empty", "error", "panic"} :
               Pool!Sent(j, a) \in [Pool!Calls -> Pool!Call]
<1>1. Pool!NoCall \in Pool!Call
  BY PoolNoCall
<1>2. call \in [Pool!Calls -> Pool!Call]
  BY DEF Pool!TypeOK
<1>3. 0 \in 0..Timeout /\ 0 \in 0..(Timeout + 1)
  BY DEF Pool!DieselAssumption
<1>4. ASSUME NEW s \in Pool!Stages PROVE Pool!To(j, s) \in [Pool!Calls -> Pool!Call]
  BY <1>2, <1>3, ZenonT(40) DEF Pool!To, Pool!Call
<1>5. ASSUME NEW a \in {"rows", "empty", "error", "panic"}
      PROVE  Pool!Sent(j, a) \in [Pool!Calls -> Pool!Call]
  <2>1. [Pool!NoCall EXCEPT !.stage = "answered", !.op = call[j].op, !.answer = a] \in Pool!Call
    BY <1>1, <1>2 DEF Pool!Call, Pool!Stages
  <2> QED
    BY <1>1, <1>2, <2>1 DEF Pool!Sent
<1> QED
  BY <1>4, <1>5

(* What is returned are connections, and who was freed has none.           *)
LEMMA PoolReturns ==
  ASSUME Pool!TypeOK, NEW js \in SUBSET Pool!Calls
  PROVE  /\ Pool!Returned(js) \subseteq Conns
         /\ Pool!Freed(js) \in [Pool!Calls -> Conns \cup {NoConn}]
  BY DEF Pool!TypeOK, Pool!Returned, Pool!Freed

(* Every step keeps the types, for any number of tasks, connections and    *)
(* threads: no clock of a call runs past the timeout.                      *)
LEMMA PoolTypes ==
  ASSUME Pool!DieselAssumption, Pool!TypeOK, [Pool!Next]_(Pool!vars)
  PROVE  Pool!TypeOK'
<1> USE DEF Pool!TypeOK
<1>1. 1 \in 1..MaxOpen /\ \A r \in Tasks, n \in 1..MaxOpen : <<r, n>> \in Pool!Calls
  BY DEF Pool!DieselAssumption, Pool!Calls
<1>2. {"asked", "getting", "got", "held", "queued", "querying"} \subseteq Pool!Stages
  BY DEF Pool!Stages
<1>3. \A r \in Tasks : Pool!Current(r) \in Pool!Calls
  BY <1>1 DEF Pool!Current
<1>0. /\ Pool!NoCall \in Pool!Call
      /\ \A j \in Pool!Calls, s \in Pool!Stages : Pool!To(j, s) \in [Pool!Calls -> Pool!Call]
      /\ \A j \in Pool!Calls, a \in {"rows", "empty", "error", "panic"} :
            Pool!Sent(j, a) \in [Pool!Calls -> Pool!Call]
  BY PoolNoCall, PoolCallTypes
<1>q. \A j \in Pool!Calls : Append(queue, j) \in Seq(Pool!Calls)
  OBVIOUS
<1>4. ASSUME NEW r \in Tasks, Pool!Arrive(r) PROVE Pool!TypeOK'
  BY <1>4 DEF Pool!Arrive
<1>5. ASSUME NEW r \in Tasks, Pool!get_conn(r) PROVE Pool!TypeOK'
  <2>1. PICK n \in 1..MaxOpen, o \in Ops :
          /\ call' = [call EXCEPT ![<<r, n>>] = [Pool!NoCall EXCEPT !.stage = "asked", !.op = o]]
          /\ current' = [current EXCEPT ![r] = n] /\ queue' = Append(queue, <<r, n>>)
    BY <1>5 DEF Pool!get_conn
  <2>2. [Pool!NoCall EXCEPT !.stage = "asked", !.op = o] \in Pool!Call
    BY <1>0, <1>2 DEF Pool!Call
  <2>3. call' \in [Pool!Calls -> Pool!Call] /\ current' \in [Tasks -> 1..MaxOpen]
    BY <2>1, <2>2
  <2> QED
    BY <1>1, <1>q, <1>5, <2>1, <2>3 DEF Pool!get_conn
<1>6. ASSUME NEW j \in Pool!Calls, Pool!Start(j) PROVE Pool!TypeOK'
  <2>1. queue' \in Seq(Pool!Calls)
    BY <1>6 DEF Pool!Start
  <2>2. call' \in [Pool!Calls -> Pool!Call]
    <3>1. CASE call' = [call EXCEPT ![j].stage = "getting"]
      BY <1>2, <3>1, ZenonT(40) DEF Pool!Call
    <3>2. CASE call' = Pool!To(j, "querying")
      BY <1>0, <1>2, <3>2
    <3> QED
      BY <1>6, <3>1, <3>2 DEF Pool!Start
  <2> QED
    BY <1>6, <2>1, <2>2 DEF Pool!Start
<1>7. ASSUME NEW j \in Pool!Calls, Pool!GetOk(j) PROVE Pool!TypeOK'
  <2>1. PICK c \in idle :
          \/ call' = Pool!To(j, "got") /\ conn' = [conn EXCEPT ![j] = c] /\ idle' = idle \ {c}
          \/ call' = [call EXCEPT ![j] = Pool!NoCall] /\ UNCHANGED <<conn, idle>>
    BY <1>7 DEF Pool!GetOk
  <2>2. call' \in [Pool!Calls -> Pool!Call]
    <3>1. Pool!To(j, "got") \in [Pool!Calls -> Pool!Call]
      BY <1>0, <1>2
    <3>2. [call EXCEPT ![j] = Pool!NoCall] \in [Pool!Calls -> Pool!Call]
      BY <1>0
    <3> QED
      BY <2>1, <3>1, <3>2
  <2> QED
    BY <1>7, <2>1, <2>2 DEF Pool!GetOk
<1>8. ASSUME NEW j \in Pool!Calls, Pool!GetTimeout(j) PROVE Pool!TypeOK'
  BY <1>0, <1>8 DEF Pool!GetTimeout
<1>9. ASSUME NEW r \in Tasks, Pool!Resume(r) PROVE Pool!TypeOK'
  <2>1. call' \in [Pool!Calls -> Pool!Call]
    BY <1>0, <1>2, <1>3, <1>9 DEF Pool!Resume
  <2>2. task' \in [Tasks -> {"running", "awaiting", "over"}] /\ queue' \in Seq(Pool!Calls)
    BY <1>q, <1>3, <1>9 DEF Pool!Resume
  <2> QED
    BY <1>1, <1>9, <2>1, <2>2 DEF Pool!Resume
<1>10. ASSUME NEW r \in Tasks, Pool!UseOwn(r) PROVE Pool!TypeOK'
  <2>1. PICK n \in 1..MaxOpen :
          /\ call' = Pool!To(<<r, n>>, "queued") /\ current' = [current EXCEPT ![r] = n]
          /\ queue' = Append(queue, <<r, n>>)
    BY <1>10 DEF Pool!UseOwn
  <2>2. call' \in [Pool!Calls -> Pool!Call]
    BY <1>0, <1>1, <1>2, <2>1
  <2> QED
    BY <1>1, <1>q, <1>10, <2>1, <2>2 DEF Pool!UseOwn
<1>11. ASSUME NEW j \in Pool!Calls, Pool!Query(j) PROVE Pool!TypeOK'
  <2>1. \A d \in {"rows", "error", "NotFound", "panic"} :
          Pool!Outcome(call[j].op, d) \in {"rows", "empty", "error", "panic"}
    BY DEF Pool!Outcome
  <2>2. call' \in [Pool!Calls -> Pool!Call]
    BY <1>0, <1>11, <2>1 DEF Pool!Query
  <2>3. idle' \subseteq Conns /\ conn' \in [Pool!Calls -> Conns \cup {NoConn}]
    BY <1>11, PoolReturns DEF Pool!Query
  <2> QED
    BY <1>11, <2>2, <2>3 DEF Pool!Query
<1>12. ASSUME NEW r \in Tasks, Pool!End(r) PROVE Pool!TypeOK'
  <2>1. Pool!Gone(r) \subseteq Pool!Calls
    BY DEF Pool!Gone, Pool!In
  <2>2. idle' \subseteq Conns /\ conn' \in [Pool!Calls -> Conns \cup {NoConn}]
    BY <1>12, <2>1, PoolReturns DEF Pool!End
  <2>3. ASSUME NEW j \in Pool!Calls PROVE [call[j] EXCEPT !.waited = 0] \in Pool!Call
    <3>1. call[j] \in Pool!Call /\ 0 \in 0..(Timeout + 1)
      BY DEF Pool!DieselAssumption
    <3> QED
      BY <3>1 DEF Pool!Call
  <2>4. call' \in [Pool!Calls -> Pool!Call]
    BY <1>0, <1>12, <2>3 DEF Pool!End
  <2> QED
    BY <1>1, <1>12, <2>2, <2>4 DEF Pool!End
<1>13. ASSUME NEW r \in Tasks, Pool!PollAnswer(r) PROVE Pool!TypeOK'
  BY <1>0, <1>1, <1>3, <1>12, <1>13 DEF Pool!PollAnswer
<1>14. CASE Pool!Tick
  <2>1. ASSUME NEW j \in Pool!Calls PROVE call'[j] \in Pool!Call
    <3> DEFINE waiting == j \in Pool!In({"asked", "getting"}) /\ Pool!Awaited(j) /\ call[j].waited <= Timeout
               getting == j \in Pool!In({"getting"})
    <3>1. call'[j] = [call[j] EXCEPT !.waited = IF waiting THEN @ + 1 ELSE @,
                                     !.elapsed = IF getting THEN @ + 1 ELSE @]
      BY <1>14 DEF Pool!Tick
    <3>2. getting => call[j].elapsed < Timeout
      BY <1>14 DEF Pool!Tick
    <3>3. call[j] \in Pool!Call /\ Timeout \in Nat
      BY DEF Pool!DieselAssumption
    <3>4. call[j].waited \in 0..(Timeout + 1) /\ call[j].elapsed \in 0..Timeout
      BY <3>3 DEF Pool!Call
    <3>5. waiting => call[j].waited <= Timeout
      OBVIOUS
    <3> HIDE DEF waiting, getting
    <3>6. waiting => call[j].waited + 1 \in 0..(Timeout + 1)
      BY <3>3, <3>4, <3>5
    <3>7. getting => call[j].elapsed + 1 \in 0..Timeout
      BY <3>2, <3>3, <3>4
    <3> QED
      BY <3>1, <3>3, <3>6, <3>7 DEF Pool!Call
  <2>2. call' \in [Pool!Calls -> Pool!Call]
    BY <1>14, <2>1 DEF Pool!Tick
  <2> QED
    BY <1>14, <2>2 DEF Pool!Tick
<1>15. CASE UNCHANGED Pool!vars
  BY <1>15 DEF Pool!vars
<1> QED
  BY <1>4, <1>5, <1>6, <1>7, <1>8, <1>9, <1>10, <1>11, <1>12, <1>13, <1>14, <1>15
     DEF Pool!Next, Pool!Handler, Pool!Poll, Pool!Thread, Pool!Finish, Pool!Cancel

(* The strengthening: a call holds a connection exactly while its result   *)
(* is in the channel, the handler has it or the statement needs it.  So    *)
(* pool.get() never overwrites a connection, and no call that is dropped   *)
(* or answered still has one.                                              *)
Using == {"got", "held", "queued", "querying"}
HeldWhileUsed == \A j \in Pool!Calls : conn[j] # NoConn <=> call[j].stage \in Using

PoolInv == HeldWhileUsed /\ Pool!ConnectionsAccounted

(* Connections that are returned while their calls are freed stay          *)
(* accounted for.                                                          *)
LEMMA ReturnedAccounted ==
  ASSUME Pool!DieselAssumption, Pool!TypeOK, Pool!ConnectionsAccounted,
         NEW js \in SUBSET Pool!Calls,
         idle' = Pool!Returned(js), conn' = Pool!Freed(js)
  PROVE  Pool!ConnectionsAccounted'
<1> SUFFICES ASSUME NEW c \in Conns
             PROVE  /\ c \in idle' <=> \A j \in Pool!Calls : conn'[j] # c
                    /\ \A j, k \in Pool!Calls : conn'[j] = c /\ conn'[k] = c => j = k
  BY DEF Pool!ConnectionsAccounted
<1>1. \A j \in Pool!Calls : conn'[j] = IF j \in js THEN NoConn ELSE conn[j]
  BY DEF Pool!Freed
<1>2. c \in idle' <=> c \in idle \/ \E j \in js : conn[j] = c
  BY DEF Pool!Returned, Pool!DieselAssumption
<1>3. c # NoConn
  BY DEF Pool!DieselAssumption
<1> QED
  BY <1>1, <1>2, <1>3 DEF Pool!ConnectionsAccounted

(* Where the calls are after one of them went to another stage, or after   *)
(* its result was sent or dropped.                                         *)
LEMMA PoolStages ==
  ASSUME Pool!TypeOK, NEW j \in Pool!Calls, NEW k \in Pool!Calls
  PROVE  /\ \A s : Pool!To(j, s)[k].stage = IF k = j THEN s ELSE call[k].stage
         /\ \A a : /\ k # j => Pool!Sent(j, a)[k] = call[k]
                   /\ Pool!Sent(j, a)[j].stage \in {"answered", "none"}
<1>1. call \in [Pool!Calls -> Pool!Call]
  BY DEF Pool!TypeOK
<1>2. ASSUME NEW s PROVE Pool!To(j, s)[k].stage = IF k = j THEN s ELSE call[k].stage
  BY <1>1 DEF Pool!To, Pool!Call
<1>3. ASSUME NEW a PROVE /\ k # j => Pool!Sent(j, a)[k] = call[k]
                         /\ Pool!Sent(j, a)[j].stage \in {"answered", "none"}
  BY <1>1 DEF Pool!Sent, Pool!NoCall
<1> QED
  BY <1>2, <1>3

(* Every step keeps the connections accounted for.                         *)
LEMMA PoolSteps ==
  ASSUME Pool!DieselAssumption, Pool!TypeOK, PoolInv, [Pool!Next]_(Pool!vars)
  PROVE  PoolInv'
<1>0. /\ call \in [Pool!Calls -> Pool!Call] /\ conn \in [Pool!Calls -> Conns \cup {NoConn}]
      /\ HeldWhileUsed /\ Pool!ConnectionsAccounted /\ NoConn \notin Conns
      /\ Pool!NoCall.stage = "none"
  BY DEF Pool!TypeOK, PoolInv, Pool!DieselAssumption, Pool!NoCall
<1>1. \A r \in Tasks : Pool!Current(r) \in Pool!Calls
  BY DEF Pool!TypeOK, Pool!Calls, Pool!Current
<1>2. \A r \in Tasks, n \in 1..MaxOpen : <<r, n>> \in Pool!Calls
  BY DEF Pool!Calls
<1>3. ASSUME UNCHANGED <<conn, idle>>,
             \A k \in Pool!Calls : call'[k].stage \in Using <=> call[k].stage \in Using
      PROVE  PoolInv'
  BY <1>0, <1>3 DEF PoolInv, HeldWhileUsed, Pool!ConnectionsAccounted
<1>4. ASSUME NEW r \in Tasks, Pool!get_conn(r) PROVE PoolInv'
  <2>1. PICK n \in 1..MaxOpen, o \in Ops :
          /\ call[<<r, n>>].stage = "none"
          /\ call' = [call EXCEPT ![<<r, n>>] = [Pool!NoCall EXCEPT !.stage = "asked", !.op = o]]
          /\ UNCHANGED <<conn, idle>>
    BY <1>4 DEF Pool!get_conn
  <2>2. [Pool!NoCall EXCEPT !.stage = "asked", !.op = o].stage = "asked"
    BY DEF Pool!NoCall
  <2>3. \A k \in Pool!Calls : call'[k].stage = IF k = <<r, n>> THEN "asked" ELSE call[k].stage
    BY <1>0, <1>2, <2>1, <2>2
  <2> QED
    BY <1>2, <1>3, <2>1, <2>3 DEF Using
<1>5. ASSUME NEW j \in Pool!Calls, Pool!Start(j) PROVE PoolInv'
  <2>1. CASE call[j].stage = "asked" /\ call' = [call EXCEPT ![j].stage = "getting"]
    <3>1. \A k \in Pool!Calls : call'[k].stage = IF k = j THEN "getting" ELSE call[k].stage
      BY <1>0, <2>1 DEF Pool!Call
    <3> QED
      BY <1>3, <1>5, <2>1, <3>1 DEF Pool!Start, Using
  <2>2. CASE call[j].stage = "queued" /\ call' = Pool!To(j, "querying")
    BY <1>3, <1>5, <2>2, PoolStages DEF Pool!Start, Using
  <2> QED
    BY <1>5, <2>1, <2>2 DEF Pool!Start
<1>6. ASSUME NEW j \in Pool!Calls, Pool!GetOk(j) PROVE PoolInv'
  <2>1. PICK c \in idle :
          \/ call' = Pool!To(j, "got") /\ conn' = [conn EXCEPT ![j] = c] /\ idle' = idle \ {c}
          \/ call' = [call EXCEPT ![j] = Pool!NoCall] /\ UNCHANGED <<conn, idle>>
    BY <1>6 DEF Pool!GetOk
  <2>2. call[j].stage = "getting" /\ conn[j] = NoConn
    BY <1>0, <1>6 DEF Pool!GetOk, HeldWhileUsed, Using
  <2>3. CASE call' = Pool!To(j, "got") /\ conn' = [conn EXCEPT ![j] = c] /\ idle' = idle \ {c}
    <3>1. \A k \in Pool!Calls : call'[k].stage = IF k = j THEN "got" ELSE call[k].stage
      BY <2>3, PoolStages
    <3>2. \A k \in Pool!Calls : conn'[k] = IF k = j THEN c ELSE conn[k]
      BY <1>0, <2>3
    <3>3. c \in Conns
      BY DEF Pool!TypeOK
    <3>4. HeldWhileUsed'
      BY <1>0, <3>1, <3>2, <3>3 DEF HeldWhileUsed, Using
    <3>5. Pool!ConnectionsAccounted'
      BY <1>0, <2>2, <2>3, <3>2, <3>3 DEF Pool!ConnectionsAccounted
    <3> QED
      BY <3>4, <3>5 DEF PoolInv
  <2>4. CASE call' = [call EXCEPT ![j] = Pool!NoCall] /\ UNCHANGED <<conn, idle>>
    BY <1>0, <1>3, <2>2, <2>4 DEF Using
  <2> QED
    BY <2>1, <2>3, <2>4
<1>7. ASSUME NEW j \in Pool!Calls, Pool!GetTimeout(j) PROVE PoolInv'
  BY <1>3, <1>7, PoolStages DEF Pool!GetTimeout, Using
<1>8. ASSUME NEW r \in Tasks, Pool!Resume(r) PROVE PoolInv'
  BY <1>1, <1>3, <1>8, PoolStages DEF Pool!Resume, Using
<1>9. ASSUME NEW r \in Tasks, Pool!UseOwn(r) PROVE PoolInv'
  BY <1>2, <1>3, <1>9, PoolStages DEF Pool!UseOwn, Using
<1>10. ASSUME NEW js \in SUBSET Pool!Calls, idle' = Pool!Returned(js), conn' = Pool!Freed(js),
              \A k \in js : call'[k].stage \notin Using,
              \A k \in Pool!Calls \ js : call'[k].stage \in Using <=> call[k].stage \in Using
       PROVE  PoolInv'
  <2>1. \A k \in Pool!Calls : conn'[k] = IF k \in js THEN NoConn ELSE conn[k]
    BY <1>10 DEF Pool!Freed
  <2>2. HeldWhileUsed'
    BY <1>0, <1>10, <2>1 DEF HeldWhileUsed
  <2> QED
    BY <1>0, <1>10, <2>2, ReturnedAccounted DEF PoolInv
<1>11. ASSUME NEW j \in Pool!Calls, Pool!Query(j) PROVE PoolInv'
  <2>1. \A k \in Pool!Calls : IF k = j THEN call'[k].stage \in {"answered", "none"}
                                       ELSE call'[k] = call[k]
    BY <1>11, PoolStages DEF Pool!Query
  <2>2. /\ {j} \in SUBSET Pool!Calls
        /\ \A k \in {j} : call'[k].stage \notin Using
        /\ \A k \in Pool!Calls \ {j} : call'[k].stage \in Using <=> call[k].stage \in Using
    BY <2>1 DEF Using
  <2>3. idle' = Pool!Returned({j}) /\ conn' = Pool!Freed({j})
    BY <1>11 DEF Pool!Query
  <2> QED
    BY <1>10, <2>2, <2>3
<1>12. ASSUME NEW r \in Tasks, Pool!End(r) PROVE PoolInv'
  <2> DEFINE js == Pool!Gone(r)
  <2>1. js \in SUBSET Pool!Calls
    BY DEF Pool!Gone, Pool!In
  <2>2. \A k \in Pool!Calls : call'[k].stage = IF k \in js THEN "none" ELSE call[k].stage
    <3>1. \A k \in Pool!Calls : [call[k] EXCEPT !.waited = 0].stage = call[k].stage
      BY <1>0 DEF Pool!Call
    <3> QED
      BY <1>0, <1>12, <3>1 DEF Pool!End
  <2>3. idle' = Pool!Returned(js) /\ conn' = Pool!Freed(js)
    BY <1>12 DEF Pool!End
  <2> HIDE DEF js
  <2>4. /\ \A k \in js : call'[k].stage \notin Using
        /\ \A k \in Pool!Calls \ js : call'[k].stage \in Using <=> call[k].stage \in Using
    BY <2>1, <2>2 DEF Using
  <2> QED
    BY <1>10, <2>1, <2>3, <2>4
<1>13. ASSUME NEW r \in Tasks, Pool!PollAnswer(r) PROVE PoolInv'
  <2>1. CASE call' = [call EXCEPT ![Pool!Current(r)] = Pool!NoCall] /\ UNCHANGED <<conn, idle>>
    BY <1>0, <1>1, <1>3, <1>13, <2>1 DEF Pool!PollAnswer, Using
  <2> QED
    BY <1>12, <1>13, <2>1 DEF Pool!PollAnswer
<1>14. CASE Pool!Tick
  <2>1. \A k \in Pool!Calls : call'[k].stage = call[k].stage
    BY <1>0, <1>14 DEF Pool!Tick, Pool!Call
  <2> QED
    BY <1>3, <1>14, <2>1 DEF Pool!Tick
<1>15. ASSUME UNCHANGED <<call, conn, idle>> PROVE PoolInv'
  BY <1>3, <1>15
<1> QED
  BY <1>4, <1>5, <1>6, <1>7, <1>8, <1>9, <1>11, <1>12, <1>13, <1>14, <1>15
     DEF Pool!Next, Pool!Handler, Pool!Poll, Pool!Thread, Pool!Finish, Pool!Cancel, Pool!Arrive,
         Pool!vars

(* Whatever is cancelled, times out or panics, every connection is in the  *)
(* pool or with exactly one call, for any number of requests, connections  *)
(* and threads.                                                            *)
THEOREM NoConnectionLeaks == Spec => []ConnectionsAccounted
<1> DEFINE Inv == part = "pool" => Pool!TypeOK /\ PoolInv
<1>1. Pool!Init => Pool!TypeOK
  BY Assumptions, PoolNoCall DEF Pool!Init, Pool!TypeOK, Pool!DieselAssumption
<1>2. Pool!Init => PoolInv
  BY Assumptions DEF Pool!Init, PoolInv, HeldWhileUsed, Using, Pool!ConnectionsAccounted,
                     Pool!NoCall, Pool!DieselAssumption
<1>3. Init => Inv
  BY <1>1, <1>2 DEF Init
<1>4. Pool!TypeOK /\ PoolInv /\ [Pool!Next]_(Pool!vars) => Pool!TypeOK' /\ PoolInv'
  BY Assumptions, PoolTypes, PoolSteps
<1>5. Inv /\ [Next]_vars => Inv'
  BY <1>4, PartsApart
<1>6. Inv => ConnectionsAccounted
  BY DEF PoolInv, ConnectionsAccounted
<1> QED
  BY <1>3, <1>5, <1>6, PTL DEF Spec

-----------------------------------------------------------------------------
(* The restful store, and the store of records that it implements.         *)

Places == {"idle", "asked", "removing", "panicked", "answered"}

(* What a step relies on: a request that is about to act was asked, only   *)
(* a delete waits for its second lock, and it finds its record gone only   *)
(* when another delete was faster.                                         *)
StoreInv ==
  /\ table \in [Keys -> Users \cup {NoUser}]
  /\ at \in [Clients -> Places]
  /\ DOMAIN request = Clients
  /\ overtaken \subseteq Clients
  /\ \A c \in Clients :
       /\ at[c] \in {"asked", "removing"} => request[c] \in Store!R!Requests
       /\ at[c] = "removing" => request[c].op = "delete"
       /\ at[c] = "removing" /\ request[c].id \notin Store!Stored => c \in overtaken
       /\ at[c] = "panicked" => c \in overtaken

(* A request names an id or a user, as its operation has it.               *)
LEMMA StoreRequests ==
  ASSUME NEW r \in Store!R!Requests
  PROVE  /\ r.op \in {"create", "retrieve", "update", "delete"}
         /\ r.op # "create" => r.id \in Keys
         /\ r.op \in {"create", "update"} => r.user \in Users
  BY DEF Store!R!Requests

(* Every step keeps it.  An update puts a user where one was, so what      *)
(* makes an id vacant is a delete, which notes whom it has overtaken.      *)
LEMMA StoreKept ==
  ASSUME Store!RestfulStoreAssumption, StoreInv, [Store!Next]_(Store!vars)
  PROVE  StoreInv'
<1> USE DEF StoreInv, Places
<1>0. NoUser \notin Users
  BY DEF Store!RestfulStoreAssumption
<1>1. ASSUME NEW c \in Clients, Store!Ask(c) PROVE StoreInv'
  BY <1>1 DEF Store!Ask, Store!Stored
<1>2. ASSUME NEW c \in Clients, NEW a, Store!Respond(c, a), UNCHANGED <<table, overtaken>>
      PROVE  StoreInv'
  BY <1>2 DEF Store!Respond, Store!Stored
<1>3. ASSUME NEW c \in Clients, NEW a, Store!Respond(c, a), UNCHANGED overtaken,
             NEW i \in Keys, NEW u \in Users, table' = [table EXCEPT ![i] = u]
      PROVE  StoreInv'
  <2>1. Store!Stored \subseteq Store!Stored'
    BY <1>0, <1>3 DEF Store!Stored
  <2> QED
    BY <1>3, <2>1 DEF Store!Respond
<1>4. ASSUME NEW c \in Clients, Store!create(c) PROVE StoreInv'
  <2>1. request[c].user \in Users
    BY <1>4, StoreRequests DEF Store!create, Store!Asks
  <2> QED
    BY <1>3, <1>4, <2>1 DEF Store!create
<1>5. ASSUME NEW c \in Clients, Store!retrieve(c) PROVE StoreInv'
  BY <1>2, <1>5 DEF Store!retrieve
<1>6. ASSUME NEW c \in Clients, Store!update(c) PROVE StoreInv'
  <2>1. request[c].user \in Users /\ request[c].id \in Keys
    BY <1>6, StoreRequests DEF Store!update, Store!Asks
  <2> QED
    BY <1>2, <1>3, <1>6, <2>1 DEF Store!update
<1>7. ASSUME NEW c \in Clients, Store!delete_check(c) PROVE StoreInv'
  <2>1. CASE request[c].id \in Store!Stored
    BY <1>7, <2>1 DEF Store!delete_check, Store!Asks, Store!Stored
  <2>2. CASE request[c].id \notin Store!Stored
    BY <1>2, <1>7, <2>2 DEF Store!delete_check
  <2> QED
    BY <2>1, <2>2
<1>8. ASSUME NEW c \in Clients, Store!delete_remove(c) PROVE StoreInv'
  <2>1. \A i \in Keys : i \in Store!Stored' <=> i \in Store!Stored /\ i # request[c].id
    BY <1>0, <1>8 DEF Store!delete_remove, Store!Stored
  <2>2. /\ table' \in [Keys -> Users \cup {NoUser}] /\ UNCHANGED request
        /\ at' = [at EXCEPT ![c] = "answered"]
        /\ overtaken' = (overtaken \ {c}) \cup
             {d \in Clients \ {c} : at[d] = "removing" /\ request[d].id = request[c].id}
    BY <1>8 DEF Store!delete_remove, Store!Respond
  <2>3. \A d \in Clients : at[d] = "removing" => request[d].id \in Keys
    BY StoreRequests
  <2> QED
    BY <2>1, <2>2, <2>3
<1>9. ASSUME NEW c \in Clients, Store!delete_panic(c) PROVE StoreInv'
  BY <1>9 DEF Store!delete_panic, Store!Stored
<1>10. ASSUME NEW c \in Clients, Store!Return(c) PROVE StoreInv'
  BY <1>10 DEF Store!Return, Store!Stored
<1>11. CASE UNCHANGED Store!vars
  BY <1>11 DEF Store!vars, Store!Stored
<1> QED
  BY <1>1, <1>4, <1>5, <1>6, <1>7, <1>8, <1>9, <1>10, <1>11 DEF Store!Next, Store!Handle

(* Every step is one of Records: the whole request in one step, or, for    *)
(* the look of a delete and for its panic, none.                           *)
LEMMA StoreImplements ==
  ASSUME StoreInv, [Store!Next]_(Store!vars)
  PROVE  Store!StepsAtomic
<1> DEFINE seen == [c \in Clients |-> IF at[c] \in {"removing", "panicked"} THEN "asked" ELSE at[c]]
<1>0. /\ DOMAIN at = Clients /\ DOMAIN request = Clients
      /\ \A c \in Clients : at[c] \in Places
      /\ Store!Stored = Store!R!Stored
  BY DEF StoreInv, Store!Stored, Store!R!Stored
<1>1. SUFFICES ASSUME Store!Next PROVE Store!R!Next \/ UNCHANGED Store!R!vars
  <2>1. UNCHANGED Store!vars => UNCHANGED Store!R!vars
    BY DEF Store!vars, Store!R!vars
  <2> QED
    BY <2>1 DEF Store!StepsAtomic
<1>2. ASSUME NEW c \in Clients, NEW place, at' = [at EXCEPT ![c] = place]
      PROVE  seen' = [seen EXCEPT ![c] = IF place \in {"removing", "panicked"} THEN "asked" ELSE place]
  BY <1>0, <1>2
<1>3. ASSUME NEW c \in Clients, NEW a, Store!Respond(c, a) PROVE Store!R!Answers(c, a)
  BY <1>2, <1>3 DEF Store!Respond, Store!R!Answers
<1>4. ASSUME NEW c \in Clients, at[c] \in {"asked", "removing"}
      PROVE  /\ seen[c] = "asked"
             /\ request[c].op \in {"create", "retrieve", "update", "delete"}
             /\ at[c] = "removing" => request[c].op = "delete"
  BY <1>4, StoreRequests DEF StoreInv
<1>5. ASSUME NEW c \in Clients, Store!Ask(c) PROVE Store!R!Ask(c)
  BY <1>2, <1>5 DEF Store!Ask, Store!R!Ask
<1>6. ASSUME NEW c \in Clients, Store!create(c) PROVE Store!R!Create(c)
  BY <1>0, <1>3, <1>4, <1>6 DEF Store!create, Store!Asks, Store!R!Create
<1>7. ASSUME NEW c \in Clients, at[c] \in {"asked", "removing"},
             request[c].op \in {"retrieve", "update", "delete"},
             request[c].id \notin Store!Stored, Store!Respond(c, Store!R!NotFound), UNCHANGED table
      PROVE  Store!R!Missing(c)
  BY <1>0, <1>3, <1>4, <1>7 DEF Store!R!Missing, Store!R!OfRecord
<1>8. ASSUME NEW c \in Clients, at[c] \in {"asked", "removing"},
             request[c].op \in {"retrieve", "update", "delete"},
             request[c].id \in Store!Stored,
             Store!Respond(c, [status |-> "200", user |-> table[request[c].id]]),
             table' = CASE request[c].op = "update" -> [table EXCEPT ![request[c].id] = request[c].user]
                        [] request[c].op = "delete" -> [table EXCEPT ![request[c].id] = NoUser]
                        [] OTHER -> table
      PROVE  Store!R!Found(c)
  <2>1. Store!R!OfRecord(c) /\ request[c].id \in Store!R!Stored
    BY <1>0, <1>4, <1>8 DEF Store!R!OfRecord
  <2>2. Store!R!Answers(c, [status |-> "200", user |-> table[request[c].id]])
    BY <1>2, <1>8 DEF Store!Respond, Store!R!Answers
  <2> QED
    BY <1>8, <2>1, <2>2, Zenon DEF Store!R!Found
<1>9. ASSUME NEW c \in Clients, Store!retrieve(c) PROVE Store!R!Missing(c) \/ Store!R!Found(c)
  BY <1>7, <1>8, <1>9 DEF Store!retrieve, Store!Asks
<1>10. ASSUME NEW c \in Clients, Store!update(c) PROVE Store!R!Missing(c) \/ Store!R!Found(c)
  BY <1>7, <1>8, <1>10 DEF Store!update, Store!Asks, Store!SwappedOut
<1>11. ASSUME NEW c \in Clients, NEW place \in {"removing", "panicked"},
              at[c] \in {"asked", "removing"}, at' = [at EXCEPT ![c] = place],
              UNCHANGED <<table, request, answer>>
       PROVE  UNCHANGED Store!R!vars
  <2>1. UNCHANGED seen
    BY <1>0, <1>2, <1>4, <1>11
  <2> QED
    BY <1>11, <2>1 DEF Store!R!vars
<1>12. ASSUME NEW c \in Clients, Store!delete_check(c)
       PROVE  Store!R!Missing(c) \/ UNCHANGED Store!R!vars
  BY <1>7, <1>11, <1>12 DEF Store!delete_check, Store!Asks
<1>13. ASSUME NEW c \in Clients, Store!delete_remove(c) PROVE Store!R!Found(c)
  BY <1>4, <1>8, <1>13 DEF Store!delete_remove
<1>14. ASSUME NEW c \in Clients, Store!delete_panic(c) PROVE UNCHANGED Store!R!vars
  BY <1>11, <1>14 DEF Store!delete_panic
<1>15. ASSUME NEW c \in Clients, Store!Return(c) PROVE Store!R!Return(c)
  BY <1>0, <1>2, <1>15 DEF Store!Return, Store!R!Return, Places
<1> QED
  BY <1>1, <1>5, <1>6, <1>9, <1>10, <1>12, <1>13, <1>14, <1>15
     DEF Store!Next, Store!Handle, Store!R!Next

(* StoreInv is what the refinement and the panics rest on.                 *)
LEMMA StoreInvariant == Spec => [](part = "store" => StoreInv)
<1>1. Init => (part = "store" => StoreInv)
  BY DEF Init, Store!Init, StoreInv, Places
<1>2. (part = "store" => StoreInv) /\ [Next]_vars => (part = "store" => StoreInv)'
  BY Assumptions, StoreKept, PartsApart
<1> QED
  BY <1>1, <1>2, PTL DEF Spec

(* The restful store implements Records for any number of clients, ids and *)
(* users: every request takes effect in one step between the call and its  *)
(* answer, though delete takes the lock twice, and a delete panics only if *)
(* another delete of the same id was answered between its two looks.       *)
THEOREM StoreIsAtomic == Spec => Atomic
<1> DEFINE Inv == part = "store" => StoreInv
           Step == part = "store" => Store!StepsAtomic
<1>1. Init => (part = "store" => Store!StartsAtomic)
  BY DEF Init, Store!Init, Store!StartsAtomic, Store!R!Init
<1>2. Inv /\ [Next]_vars => [Step]_vars
  BY StoreImplements, PartsApart
<1>3. Inv => (part = "store" => Store!PanicOnlyIfOvertaken)
  BY DEF StoreInv, Store!PanicOnlyIfOvertaken
<1> QED
  BY <1>1, <1>2, <1>3, StoreInvariant, PTL DEF Spec, Atomic

-----------------------------------------------------------------------------
(* The posts, whose table only one connection of the pool has.             *)

Statements == {"idle", "insert", "first", "execute", "answered"}

(* As long as no two statements have had connections at a time and none    *)
(* was replaced, the pool, a stack, has the connection with the table on   *)
(* top, and a statement that runs has that connection.                     *)
OneAtATime ==
  (~crowded /\ ~replaced) =>
      /\ home # {}
      /\ \A c \in Writers : held[c] \in {{}, home}
      /\ \A c, d \in Writers : held[c] # {} /\ held[d] # {} => c = d
      /\ (\A c \in Writers : held[c] = {}) => free # <<>> /\ {Head(free)} = home

Held == {{}} \cup {{k} : k \in Databases}

PostsTyped ==
  /\ home \in Held
  /\ posts \in [Blog!Ids -> SUBSET Bodies]
  /\ free \in Seq(Databases)
  /\ held \in [Writers -> Held]
  /\ doing \in [Writers -> Statements]
  /\ DOMAIN asked = Writers /\ DOMAIN found = Writers /\ DOMAIN told = Writers
  /\ \A c \in Writers : /\ doing[c] # "idle" => asked[c] \in Blog!Requests
                        /\ doing[c] = "insert" => asked[c].op = "create"
                        /\ held[c] # {} => doing[c] \in {"insert", "first", "execute"}

(* What was answered stays true until the answer is gone.                  *)
AnsweredTruly ==
  \A c \in Writers :
    /\ told[c].status = "500" => crowded \/ replaced
    /\ told[c].status = "201" =>
         doing[c] = "answered" /\ \A p \in told[c].post : p.body = {asked[c].body}

BlogInv == PostsTyped /\ OneAtATime /\ AnsweredTruly

(* A request names an id and a body as its operation has them.             *)
LEMMA PostRequests ==
  ASSUME NEW r \in Blog!Requests
  PROVE  /\ r.op \in {"create", "get", "delete", "update"}
         /\ r.op # "create" => r.id \in Blog!Ids
         /\ r.op \in {"create", "update"} => r.body \in Bodies
  BY DEF Blog!Requests

(* A finite set that is not empty has sequences, none of them empty.       *)
LEMMA PoolOrders ==
  ASSUME NEW s \in Blog!SetToSeqs(Databases), NEW k \in Databases
  PROVE  s \in Seq(Databases) /\ s # <<>>
<1>1. IsFiniteSet(Databases)
  BY Assumptions DEF Blog!PostsAssumption, Blog!IsFiniteSet, IsFiniteSet
<1>2. Cardinality(Databases) \in Nat \ {0}
  BY <1>1, FS_CardinalityType, FS_EmptySet
<1>3. s \in [1..Cardinality(Databases) -> Databases]
  BY DEF Blog!SetToSeqs, Blog!Cardinality, Cardinality
<1>4. s \in Seq(Databases) /\ Len(s) = Cardinality(Databases)
  BY <1>2, <1>3
<1> QED
  BY <1>2, <1>4

(* The invariant holds when the blog starts.                               *)
LEMMA BlogStarts ==
  ASSUME Blog!Init
  PROVE  BlogInv
<1>1. home \in {{k} : k \in Databases}
        /\ free \in Seq(Databases) /\ free # <<>> /\ {Head(free)} = home
  <2>1. free \in Blog!SetToSeqs(Databases) /\ {free[1]} = home
        /\ home \in {{k} : k \in Databases}
    BY DEF Blog!Init
  <2> QED
    BY <2>1, PoolOrders
<1>2. ~crowded /\ ~replaced /\ held = [c \in Writers |-> {}]
      /\ told = [c \in Writers |-> Blog!NoAnswer]
  BY DEF Blog!Init
<1>3. PostsTyped
  BY <1>1 DEF Blog!Init, Blog!NoRequest, PostsTyped, Held, Statements
<1>4. OneAtATime
  BY <1>1, <1>2 DEF OneAtATime
<1>5. AnsweredTruly
  BY <1>2 DEF AnsweredTruly, Blog!NoAnswer
<1> QED
  BY <1>3, <1>4, <1>5 DEF BlogInv

(* A statement that ends puts its connection on top.                       *)
LEMMA PutOnTop ==
  ASSUME BlogInv, NEW c \in Writers, Blog!Done(c)
  PROVE  /\ free' \in Seq(Databases) /\ held' \in [Writers -> Held]
         /\ held[c] # {} => OneAtATime'
<1> USE DEF BlogInv, PostsTyped, OneAtATime, Held
<1>1. PICK k \in held[c] : free' = <<k>> \o free
  BY DEF Blog!Done, Blog!PutBack
<1>2. k \in Databases /\ held[c] = {k}
  BY <1>1
<1>3. free' \in Seq(Databases) /\ free' # <<>> /\ Head(free') = k
  BY <1>1, <1>2
<1>4. held' = [held EXCEPT ![c] = {}] /\ UNCHANGED <<home, crowded, replaced>>
  BY DEF Blog!Done
<1> QED
  BY <1>2, <1>3, <1>4

(* Only is the same operator wherever it is instantiated.                  *)
LEMMA SameInBlog == \A s, set : Blog!Only(s, set) = Only(s, set)
BY DEF Blog!Only, Blog!FoldLeft, Blog!MapThenFoldSet, Blog!Max,
       Only, FoldLeft, MapThenFoldSet, Max

(* Every step keeps the invariant.                                         *)
LEMMA BlogKept ==
  ASSUME BlogInv, [Blog!Next]_(Blog!vars)
  PROVE  BlogInv'
<1> USE DEF BlogInv
<1>1. ASSUME NEW c \in Writers, Blog!Ask(c) PROVE BlogInv'
  BY <1>1 DEF Blog!Ask, PostsTyped, OneAtATime, AnsweredTruly, Statements
<1>2. ASSUME NEW c \in Writers, Blog!Checkout(c) PROVE BlogInv'
  <2>1. /\ Head(free) \in Databases /\ Tail(free) \in Seq(Databases)
        /\ held[c] = {} /\ held' = [held EXCEPT ![c] = {Head(free)}] /\ free' = Tail(free)
        /\ crowded' = (crowded \/ \E d \in Writers : held[d] # {})
        /\ doing[c] \in {"insert", "first", "execute"}
        /\ UNCHANGED <<home, posts, doing, asked, found, told, replaced>>
    BY <1>2 DEF Blog!Checkout, PostsTyped
  <2>2. PostsTyped'
    BY <2>1 DEF PostsTyped, Held
  <2>3. OneAtATime'
    BY <2>1 DEF OneAtATime, PostsTyped
  <2>4. AnsweredTruly'
    BY <2>1 DEF AnsweredTruly
  <2> QED
    BY <2>2, <2>3, <2>4
<1>3. ASSUME NEW c \in Writers, NEW code, NEW post, Blog!Answer(c, code, post), Blog!Done(c),
             held[c] # {}, doing[c] # "idle",
             posts' \in [Blog!Ids -> SUBSET Bodies], UNCHANGED found,
             code = "500" => crowded \/ replaced,
             code = "201" => \A p \in post : p.body = {asked[c].body}
      PROVE  BlogInv'
  <2>1. told' = [told EXCEPT ![c] = [status |-> code, post |-> post]]
        /\ doing' = [doing EXCEPT ![c] = "answered"]
        /\ held' = [held EXCEPT ![c] = {}] /\ UNCHANGED <<home, asked, crowded, replaced, found>>
    BY <1>3 DEF Blog!Answer, Blog!Done
  <2>2. PostsTyped'
    BY <1>3, <2>1, PutOnTop DEF PostsTyped, Statements
  <2>3. AnsweredTruly'
    BY <1>3, <2>1 DEF AnsweredTruly, PostsTyped
  <2> QED
    BY <1>3, <2>2, <2>3, PutOnTop
<1>4. ASSUME NEW c \in Writers, Blog!Fails(c) PROVE BlogInv'
  <2>1. crowded \/ replaced
    BY <1>4 DEF Blog!Fails, OneAtATime
  <2> QED
    BY <1>3, <1>4, <2>1 DEF Blog!Fails, PostsTyped
<1>5. ASSUME NEW c \in Writers, NEW name, Blog!At(c, name), Blog!Done(c)
      PROVE  held[c] # {} /\ asked[c] \in Blog!Requests
  BY <1>5 DEF Blog!At, PostsTyped
<1>6. ASSUME NEW c \in Writers, Blog!insert(c) PROVE BlogInv'
  <2>1. PICK i \in Blog!NewId :
          /\ posts' = [posts EXCEPT ![i] = {asked[c].body}]
          /\ Blog!Answer(c, "201", Blog!Latest(posts'))
    BY <1>6 DEF Blog!insert
  <2>2. held[c] # {} /\ doing[c] = "insert" /\ asked[c] \in Blog!Requests /\ Blog!Done(c)
        /\ UNCHANGED found
    BY <1>5, <1>6 DEF Blog!insert, Blog!At
  <2>3. i \in Blog!Ids /\ \A j \in Blog!Ids : posts[j] # {} => j < i
    BY <2>1 DEF Blog!NewId, Blog!Stored
  <2>4. posts' \in [Blog!Ids -> SUBSET Bodies]
    <3>1. asked[c].body \in Bodies
      BY <2>2, PostRequests DEF PostsTyped
    <3> QED
      BY <2>1, <2>3, <3>1 DEF PostsTyped
  <2>5. \A p \in Blog!Latest(posts') : p.body = {asked[c].body}
    <3>1. \A j \in Blog!Ids : posts'[j] = IF j = i THEN {asked[c].body} ELSE posts[j]
      BY <2>1, <2>3 DEF PostsTyped
    <3>2. \A j \in Blog!Ids : (posts'[j] # {} /\ i <= j) => j = i
      BY <2>3, <3>1 DEF Blog!Ids
    <3>3. \A p \in Blog!Latest(posts') : \E j \in Blog!Ids :
             p.body = posts'[j] /\ posts'[j] # {} /\ (posts'[i] # {} => i <= j)
      BY <2>3 DEF Blog!Latest
    <3> QED
      BY <2>3, <3>1, <3>2, <3>3
  <2> QED
    BY <1>3, <2>1, <2>2, <2>4, <2>5
<1>7. ASSUME NEW c \in Writers, Blog!first(c) PROVE BlogInv'
  <2>1. held[c] # {} /\ doing[c] = "first" /\ asked[c] \in Blog!Requests /\ Blog!Done(c)
        /\ posts' = posts
    BY <1>5, <1>7 DEF Blog!first, Blog!At
  <2>2. CASE UNCHANGED found /\ \E code \in {"200", "404"}, post \in {{}, Blog!Find(c)} :
               Blog!Answer(c, code, post)
    BY <1>3, <2>1, <2>2 DEF PostsTyped
  <2>3. CASE /\ found' = [found EXCEPT ![c] = Blog!Find(c)]
             /\ doing' = [doing EXCEPT ![c] = "execute"] /\ told' = told
    <3>1. PostsTyped'
      BY <2>1, <2>3, PutOnTop DEF PostsTyped, Statements, Blog!Done
    <3>2. AnsweredTruly'
      BY <2>1, <2>3 DEF AnsweredTruly, PostsTyped, Blog!Done
    <3> QED
      BY <2>1, <3>1, <3>2, PutOnTop
  <2> QED
    BY <1>7, <2>2, <2>3 DEF Blog!first
<1>8. ASSUME NEW c \in Writers, Blog!execute(c) PROVE BlogInv'
  <2>1. held[c] # {} /\ doing[c] = "execute" /\ asked[c] \in Blog!Requests /\ Blog!Done(c)
        /\ posts' = [posts EXCEPT ![asked[c].id] = Blog!Row(c)] /\ UNCHANGED found
        /\ Blog!Answer(c, "200", found[c])
    BY <1>5, <1>8 DEF Blog!execute, Blog!At
  <2>2. Blog!Row(c) \subseteq Bodies
    BY <2>1, PostRequests DEF Blog!Row
  <2>3. posts' \in [Blog!Ids -> SUBSET Bodies]
    BY <2>1, <2>2 DEF PostsTyped
  <2> QED
    BY <1>3, <2>1, <2>3
<1>9. ASSUME NEW c \in Writers, Blog!Return(c) PROVE BlogInv'
  BY <1>9 DEF Blog!Return, Blog!NoAnswer, PostsTyped, OneAtATime, AnsweredTruly, Statements
<1>10. ASSUME NEW k \in Databases, Blog!Reap(k) PROVE BlogInv'
  <2>1. free' \in Seq(Databases)
    BY <1>10, OnlyTyped, SameInBlog DEF Blog!Reap, PostsTyped
  <2>2. home' \in Held /\ posts' \in [Blog!Ids -> SUBSET Bodies] /\ replaced'
        /\ UNCHANGED <<held, doing, asked, found, told>>
    BY <1>10 DEF Blog!Reap, PostsTyped, Held
  <2> QED
    BY <2>1, <2>2 DEF PostsTyped, OneAtATime, AnsweredTruly
<1>11. ASSUME NEW k \in Databases, Blog!Replace(k) PROVE BlogInv'
  BY <1>11 DEF Blog!Replace, Blog!PutBack, PostsTyped, OneAtATime, AnsweredTruly
<1>12. CASE UNCHANGED Blog!vars
  BY <1>12 DEF Blog!vars, PostsTyped, OneAtATime, AnsweredTruly
<1> QED
  BY <1>1, <1>2, <1>4, <1>6, <1>7, <1>8, <1>9, <1>10, <1>11, <1>12 DEF Blog!Next

(* Only create_post fills an id: an update changes the rows it finds.      *)
LEMMA NothingRevives ==
  ASSUME BlogInv, Blog!Next
  PROVE  ~Blog!Revives
<1> SUFFICES ASSUME NEW i \in Blog!Ids, posts[i] = {}, posts'[i] # {}
             PROVE  \E c \in Writers : doing[c] = "insert" /\ doing'[c] = "answered"
  BY DEF Blog!Revives
<1>1. PICK c \in Writers : Blog!insert(c) \/ Blog!execute(c)
  BY DEF Blog!Next, Blog!Ask, Blog!Checkout, Blog!Fails, Blog!first, Blog!Return,
         Blog!Reap, Blog!Replace
<1>2. ~Blog!execute(c)
  <2> SUFFICES ASSUME Blog!execute(c) PROVE FALSE
    OBVIOUS
  <2>1. posts' = [posts EXCEPT ![asked[c].id] = Blog!Row(c)]
    BY DEF Blog!execute
  <2>2. asked[c].id = i /\ Blog!Row(c) # {}
    BY <2>1 DEF BlogInv, PostsTyped
  <2> QED
    BY <2>2 DEF Blog!Row, Blog!Stored
<1> QED
  BY <1>1, <1>2 DEF Blog!insert, Blog!At, Blog!Answer, BlogInv, PostsTyped

(* For any writers, connections, ids and posts: "no such table" is met     *)
(* only after two statements have had connections at a time or the pool    *)
(* has closed a connection, create_post answers with the post it has made, *)
(* and no post that was deleted comes back with an update that had found   *)
(* it before.                                                              *)
THEOREM PostsStayApart == Spec => PostsKeptApart
<1> DEFINE Inv == part = "blog" => BlogInv
           Step == part = "blog" => ~Blog!Revives
<1>1. Init => Inv
  BY BlogStarts DEF Init
<1>2. Inv /\ [Next]_vars => Inv'
  BY BlogKept, PartsApart
<1>3. Inv /\ [Next]_vars => [Step]_vars
  BY NothingRevives DEF Next
<1>4. Inv => (part = "blog" => Blog!FailsOnlyIfCrowdedOrReplaced /\ Blog!CreatedIsMine)
  BY DEF BlogInv, AnsweredTruly, Blog!FailsOnlyIfCrowdedOrReplaced, Blog!CreatedIsMine
<1> QED
  BY <1>1, <1>2, <1>3, <1>4, PTL DEF Spec, PostsKeptApart
-----------------------------------------------------------------------------
(* The chat.                                                               *)

Members == {"receiving", "broadcasting", "ponging", "sending", "deregistering"}
ChatPlaces == Members \cup {"start", "registering", "closing", "ended"}
Indexes == 1 .. Cardinality(Peers)
Entries == [who : Peers, mode : {"read", "write"}]
ChatTexts == [kind : {"text"}, from : Peers, nth : Nat]
ChatFrames == ChatTexts \cup {Channel!NoFrame, Channel!Close, Channel!Pong}
Senders == {{}} \cup {{p} : p \in Peers}

ChatTypes ==
    /\ where \in [Peers -> ChatPlaces]
    /\ slab \in [Indexes -> Senders]
    /\ index \in [Peers -> Indexes \cup {0}]
    /\ lock \in Seq(Entries)
    /\ todo \in [Peers -> Seq(Indexes)]
    /\ sending \in [Peers -> ChatFrames]
    /\ frames \in [Peers -> Seq(ChatFrames)]
    /\ gone \in [Peers -> BOOLEAN]
    /\ received \in [Peers -> Nat]

(* Who is sending has the lock, as a reader; so nobody registers or        *)
(* deregisters meanwhile.                                                  *)
SendersHold == \A p \in Peers : where[p] = "sending" => Channel!Holds(p, "read")

(* A task asks for the lock in one mode, and has let it go otherwise.      *)
LockModes ==
    \A i \in DOMAIN lock :
        \/ lock[i].mode = "write" /\ where[lock[i].who] \in {"registering", "deregistering"}
        \/ lock[i].mode = "read" /\ where[lock[i].who] \in {"broadcasting", "ponging", "sending"}

(* The senders in the slab are those of the members, each at its index.    *)
SlabIsMembers ==
    /\ \A p \in Peers : where[p] \in Members => index[p] \in Indexes /\ slab[index[p]] = {p}
    /\ \A i \in Indexes, p \in Peers : slab[i] = {p} => where[p] \in Members /\ index[p] = i

(* What a task sends, and whom it still has to visit: members, each once.  *)
SendingOf(p) ==
    /\ where[p] \in {"start", "registering", "receiving", "ended"} => sending[p] = Channel!NoFrame
    /\ where[p] \in {"deregistering", "closing"} => sending[p] \in {Channel!NoFrame, Channel!Close}
    /\ where[p] = "ponging" => sending[p] = Channel!Pong
    /\ where[p] = "broadcasting" =>
           sending[p] = [kind |-> "text", from |-> p, nth |-> received[p]]
    /\ where[p] = "sending" =>
           sending[p] \in {Channel!Pong, [kind |-> "text", from |-> p, nth |-> received[p]]}

Sendings == \A p \in Peers : SendingOf(p)

Visiting ==
    \A p \in Peers :
        /\ where[p] # "sending" => todo[p] = <<>>
        /\ \A k \in DOMAIN todo[p] : slab[todo[p][k]] # {}
        /\ \A j, k \in DOMAIN todo[p] : todo[p][j] = todo[p][k] => j = k
        /\ where[p] = "sending" /\ sending[p] = Channel!Pong /\ todo[p] # <<>> => todo[p] = <<index[p]>>

(* A text of a task is still to come to a client.                          *)
ToCome(p, q) ==
    \/ where[p] = "broadcasting"
    \/ where[p] = "sending" /\ sending[p] # Channel!Pong /\ \E k \in DOMAIN todo[p] : slab[todo[p][k]] = {q}

(* What clients have got so far: texts no newer than the last one received *)
(* from their author, older ones if that is still to come; it is there     *)
(* when it is not to come any more.                                        *)
TextsSoFar ==
    \A p, q \in Peers :
        \A i \in DOMAIN frames[q] : Channel!IsText(frames[q][i], p) =>
            /\ frames[q][i].nth <= received[p]
            /\ ToCome(p, q) => frames[q][i].nth < received[p]

ReachedSoFar ==
    \A p \in Peers : where[p] = "sending" /\ sending[p] # Channel!Pong =>
        \A i \in Indexes, q \in Peers : slab[i] = {q} =>
            \/ \E k \in DOMAIN todo[p] : todo[p][k] = i
            \/ gone[q] \/ \E k \in DOMAIN frames[q] : frames[q][k] = sending[p]

(* A pong for every ping at most.                                          *)
PongsOf(p) == {i \in DOMAIN frames[p] : frames[p][i] = Channel!Pong}
PongToCome(p) ==
    \/ where[p] = "ponging"
    \/ where[p] = "sending" /\ sending[p] = Channel!Pong /\ todo[p] # <<>>

PongsSoFar ==
    \A p \in Peers :
        Cardinality(PongsOf(p)) + (IF PongToCome(p) THEN 1 ELSE 0) <= received[p]

(* A close frame is the end of a task.                                     *)
ClosesEnd ==
    \A p \in Peers : \A i \in DOMAIN frames[p] :
        frames[p][i] = Channel!Close => where[p] = "ended" /\ i = Len(frames[p])

ChatInv ==
    /\ ChatTypes /\ SendersHold /\ LockModes /\ SlabIsMembers /\ Sendings /\ Visiting
    /\ TextsSoFar /\ ReachedSoFar /\ PongsSoFar /\ ClosesEnd /\ Channel!SenderOrder

(* The chat filters with the Only that the lemmas of SequenceFacts are     *)
(* about.                                                                  *)
LEMMA ChatOnly == \A s, set : Channel!Only(s, set) = Only(s, set)
BY DEF Channel!Only, Channel!FoldLeft, Channel!MapThenFoldSet, Channel!Max,
       Only, FoldLeft, MapThenFoldSet, Max

(* Who asks for the lock stands behind everybody in the queue.             *)
LEMMA LockAsked ==
  ASSUME ChatTypes, SendersHold, LockModes, NEW p \in Peers, where[p] \in {"start", "receiving"},
         NEW place, where' = [where EXCEPT ![p] = place],
         NEW mode, lock' = Channel!Wait(p, mode),
         \/ mode = "write" /\ place \in {"registering", "deregistering"}
         \/ mode = "read" /\ place \in {"broadcasting", "ponging"}
  PROVE  lock' \in Seq(Entries) /\ SendersHold' /\ LockModes'
<1>1. PICK e : e = [who |-> p, mode |-> mode]
  OBVIOUS
<1>2. e \in Entries /\ e.who = p /\ e.mode = mode
  BY <1>1 DEF Entries
<1>3. PICK n : n = Len(lock)
  OBVIOUS
<1>4. /\ lock \in Seq(Entries) /\ where \in [Peers -> ChatPlaces] /\ lock' = Append(lock, e)
  BY <1>1 DEF ChatTypes, Channel!Wait
<1>5. /\ n \in Nat /\ DOMAIN lock = 1 .. n /\ DOMAIN lock' = 1 .. n + 1 /\ lock' \in Seq(Entries)
      /\ lock'[n + 1] = e /\ \A i \in 1 .. n : lock'[i] = lock[i] /\ lock[i] \in Entries
  BY <1>2, <1>3, <1>4
<1>6. \A i \in 1 .. n : lock[i].who # p
  BY <1>5 DEF LockModes
<1>7. \A i \in 1 .. n + 1 : i \in 1 .. n \/ i = n + 1
  BY <1>5
<1>8. \A i \in 1 .. n : lock[i].who \in Peers /\ where'[lock[i].who] = where[lock[i].who]
  BY <1>4, <1>5, <1>6 DEF Entries
<1>9. where'[p] = place
  BY <1>4
<1>10. LockModes'
  <2> SUFFICES ASSUME NEW i \in 1 .. n + 1
               PROVE  \/ lock'[i].mode = "write" /\ where'[lock'[i].who] \in {"registering", "deregistering"}
                      \/ lock'[i].mode = "read"
                         /\ where'[lock'[i].who] \in {"broadcasting", "ponging", "sending"}
    BY <1>5 DEF LockModes
  <2>1. CASE i = n + 1
    BY <1>2, <1>5, <1>9, <2>1
  <2>2. CASE i \in 1 .. n
    BY <1>5, <1>8, <2>2 DEF LockModes
  <2> QED
    BY <1>7, <2>1, <2>2
<1>11. SendersHold'
  <2> SUFFICES ASSUME NEW q \in Peers, where'[q] = "sending" PROVE Channel!Holds(q, "read")'
    BY DEF SendersHold
  <2>1. where[q] = "sending"
    BY <1>4, <1>9
  <2>2. PICK i \in 1 .. n : /\ lock[i] = [who |-> q, mode |-> "read"]
                            /\ \A k \in 1 .. i : lock[k].mode = "read"
    BY <1>5, <2>1 DEF SendersHold, Channel!Holds
  <2>3. i \in 1 .. n + 1 /\ \A k \in 1 .. i : k \in 1 .. n
    BY <1>5
  <2>4. lock'[i] = [who |-> q, mode |-> "read"] /\ \A k \in 1 .. i : lock'[k].mode = "read"
    BY <1>5, <2>2, <2>3
  <2> QED
    BY <1>5, <2>3, <2>4 DEF Channel!Holds
<1> QED
  BY <1>5, <1>10, <1>11

(* Who lets the lock go leaves the others in their order.                  *)
LEMMA LockReleased ==
  ASSUME ChatTypes, SendersHold, LockModes, NEW p \in Peers, NEW place, place # "sending",
         where' = [where EXCEPT ![p] = place], lock' = Channel!Release(p)
  PROVE  lock' \in Seq(Entries) /\ SendersHold' /\ LockModes'
<1>1. PICK others : others = {e \in Channel!Range(lock) : e.who # p}
  OBVIOUS
<1>2. PICK old : old = lock
  OBVIOUS
<1>3. PICK new : new = Only(old, others)
  OBVIOUS
<1>4. lock' = new
  BY <1>1, <1>2, <1>3, ChatOnly DEF Channel!Release
<1>5. old \in Seq(Entries) /\ where \in [Peers -> ChatPlaces]
  BY <1>2 DEF ChatTypes
<1>6. PICK f : Picks(f, new, old, others)
  BY <1>3, <1>5, OnlyIs
<1>7. new \in Seq(Entries)
  BY <1>3, <1>5, OnlyTyped
<1>8. PICK n : n = Len(old)
  OBVIOUS
<1>9. PICK m : m = Len(new)
  OBVIOUS
<1>10. /\ n \in Nat /\ DOMAIN old = 1 .. n /\ \A i \in 1 .. n : old[i] \in Entries
       /\ m \in Nat /\ DOMAIN new = 1 .. m
  BY <1>5, <1>7, <1>8, <1>9
<1>11. /\ \A i \in 1 .. m : f[i] \in 1 .. n /\ new[i] = old[f[i]]
       /\ \A i, j \in 1 .. m : i < j => f[i] < f[j]
       /\ \A j \in 1 .. n : old[j] \in others <=> \E i \in 1 .. m : f[i] = j
  BY <1>6, <1>10 DEF Picks
<1>12. \A i \in 1 .. n : old[i] \in others <=> old[i].who # p
  BY <1>1, <1>2, <1>10 DEF Channel!Range
<1>13. \A i \in 1 .. m : new[i].who # p
  BY <1>11, <1>12
<1>14. \A q \in Peers : q # p => where'[q] = where[q]
  BY <1>5
<1>15. LockModes'
  <2> SUFFICES ASSUME NEW i \in 1 .. m
               PROVE  \/ new[i].mode = "write" /\ where'[new[i].who] \in {"registering", "deregistering"}
                      \/ new[i].mode = "read"
                         /\ where'[new[i].who] \in {"broadcasting", "ponging", "sending"}
    BY <1>4, <1>10 DEF LockModes
  <2>1. f[i] \in 1 .. n /\ new[i] = old[f[i]] /\ new[i].who \in Peers /\ new[i].who # p
    BY <1>10, <1>11, <1>13 DEF Entries
  <2> QED
    BY <1>2, <1>10, <1>14, <2>1 DEF LockModes
<1>16. SendersHold'
  <2> SUFFICES ASSUME NEW q \in Peers, where'[q] = "sending" PROVE Channel!Holds(q, "read")'
    BY DEF SendersHold
  <2>1. q # p /\ where[q] = "sending"
    BY <1>5, <1>14
  <2>2. PICK j \in 1 .. n : /\ old[j] = [who |-> q, mode |-> "read"]
                            /\ \A k \in 1 .. j : old[k].mode = "read"
    BY <1>2, <1>10, <2>1 DEF SendersHold, Channel!Holds
  <2>3. PICK i \in 1 .. m : f[i] = j
    BY <1>11, <1>12, <2>1, <2>2
  <2>4. \A k \in 1 .. i : k \in 1 .. m /\ (k = i \/ k < i)
    BY <1>10
  <2>5. \A k \in 1 .. i : f[k] \in 1 .. n /\ (f[k] = j \/ f[k] < j)
    BY <1>11, <2>3, <2>4
  <2>6. \A k \in 1 .. i : new[k].mode = "read"
    <3> SUFFICES ASSUME NEW k \in 1 .. i PROVE new[k].mode = "read"
      OBVIOUS
    <3>1. f[k] \in 1 .. j
      BY <1>10, <2>5
    <3> QED
      BY <1>11, <2>2, <2>4, <3>1
  <2>7. new[i] = [who |-> q, mode |-> "read"]
    BY <1>11, <2>2, <2>3
  <2> QED
    BY <1>4, <1>10, <2>6, <2>7 DEF Channel!Holds
<1> QED
  BY <1>4, <1>7, <1>15, <1>16

(* Who has the lock as a writer has it alone.                              *)
LEMMA WriterAlone ==
  ASSUME ChatTypes, SendersHold, NEW p \in Peers, Channel!Holds(p, "write")
  PROVE  \A q \in Peers : where[q] # "sending"
<1>1. PICK n : n = Len(lock)
  OBVIOUS
<1>2. n \in Nat /\ DOMAIN lock = 1 .. n
  BY <1>1 DEF ChatTypes
<1>3. 1 \in 1 .. n /\ lock[1] = [who |-> p, mode |-> "write"]
  BY <1>2 DEF Channel!Holds
<1> SUFFICES ASSUME NEW q \in Peers, where[q] = "sending" PROVE FALSE
  OBVIOUS
<1>4. PICK i \in 1 .. n : \A k \in 1 .. i : lock[k].mode = "read"
  BY <1>2 DEF SendersHold, Channel!Holds
<1>5. 1 \in 1 .. i
  BY <1>2
<1> QED
  BY <1>3, <1>4, <1>5

(* Texts are numbered, and pongs can be counted.                           *)
LEMMA TextIsCounted ==
  ASSUME ChatTypes, NEW q \in Peers, NEW i \in DOMAIN frames[q], NEW p,
         Channel!IsText(frames[q][i], p)
  PROVE  frames[q][i].nth \in Nat
<1>1. frames[q] \in Seq(ChatFrames)
  BY DEF ChatTypes
<1>2. frames[q][i] \in ChatFrames
  BY <1>1
<1>3. frames[q][i].kind = "text"
  BY DEF Channel!IsText
<1>4. frames[q][i] \in ChatTexts
  BY <1>2, <1>3 DEF ChatFrames, Channel!NoFrame, Channel!Close, Channel!Pong
<1> QED
  BY <1>4 DEF ChatTexts

(* Pongs are finitely many.                                                *)
LEMMA PongsCounted ==
  ASSUME ChatTypes, NEW p \in Peers
  PROVE  IsFiniteSet(PongsOf(p)) /\ Cardinality(PongsOf(p)) \in Nat
<1>1. PICK n : n = Len(frames[p])
  OBVIOUS
<1>2. n \in Nat /\ DOMAIN frames[p] = 1 .. n
  BY <1>1 DEF ChatTypes
<1>3. IsFiniteSet(1 .. n)
  BY <1>2, FS_Interval
<1>4. PongsOf(p) \subseteq 1 .. n
  BY <1>2 DEF PongsOf
<1>5. IsFiniteSet(PongsOf(p))
  BY <1>3, <1>4, FS_Subset
<1> QED
  BY <1>5, FS_CardinalityType

(* What no frame was written to and nobody has received more than stays.   *)
LEMMA ChatFramesKept ==
  ASSUME ChatInv, UNCHANGED frames
  PROVE  Channel!SenderOrder' /\ \A p \in Peers : PongsOf(p)' = PongsOf(p)
  BY DEF ChatInv, Channel!SenderOrder, Channel!IsText, PongsOf

(* A task asks for the lock: to get its sender into the slab, to get it    *)
(* out, or to send what it has received.                                   *)
LEMMA ChatAsks ==
  ASSUME ChatInv, NEW p \in Peers,
         \/ Channel!AskRegister(p) \/ Channel!AskDeregister(p)
         \/ Channel!AskBroadcast(p) \/ Channel!AskPong(p)
  PROVE  ChatInv'
<1> USE DEF ChatInv
<1>1. /\ UNCHANGED <<slab, index, todo, frames, gone>>
      /\ where[p] \in {"start", "receiving"}
  BY DEF Channel!AskRegister, Channel!AskDeregister, Channel!AskBroadcast, Channel!AskPong,
         Channel!MayReceive
<1>2. PICK place, mode :
        /\ where' = [where EXCEPT ![p] = place] /\ lock' = Channel!Wait(p, mode)
        /\ \/ mode = "write" /\ place \in {"registering", "deregistering"}
           \/ mode = "read" /\ place \in {"broadcasting", "ponging"}
  BY DEF Channel!AskRegister, Channel!AskDeregister, Channel!AskBroadcast, Channel!AskPong
<1>3. lock' \in Seq(Entries) /\ SendersHold' /\ LockModes'
  BY <1>1, <1>2, LockAsked
<1>4. /\ where \in [Peers -> ChatPlaces] /\ where'[p] = place /\ todo[p] = <<>>
      /\ \A q \in Peers : q # p => where'[q] = where[q]
  BY <1>1, <1>2 DEF ChatTypes, Visiting
<1>5. /\ place \in {"registering", "deregistering"} => UNCHANGED received
      /\ place \in {"broadcasting", "ponging"} => received' = [received EXCEPT ![p] = @ + 1]
  BY <1>1, <1>2, <1>4
  DEF Channel!AskRegister, Channel!AskDeregister, Channel!AskBroadcast, Channel!AskPong, ChatTypes
<1>6. /\ received' \in [Peers -> Nat] /\ received'[p] >= received[p]
      /\ \A q \in Peers : q # p => received'[q] = received[q]
      /\ place \in {"broadcasting", "ponging"} => received'[p] = received[p] + 1
  <2>1. received \in [Peers -> Nat] /\ received[p] \in Nat
    BY DEF ChatTypes
  <2>2. CASE UNCHANGED received /\ place \notin {"broadcasting", "ponging"}
    BY <2>1, <2>2
  <2>3. CASE received' = [received EXCEPT ![p] = @ + 1]
    BY <2>1, <2>3
  <2> QED
    BY <1>2, <1>5, <2>2, <2>3
<1>7. /\ place = "registering" => where[p] = "start" /\ sending'[p] = Channel!NoFrame
      /\ place # "registering" => where[p] = "receiving"
      /\ place = "deregistering" => sending'[p] \in {Channel!NoFrame, Channel!Close}
      /\ place = "broadcasting" =>
             sending'[p] = [kind |-> "text", from |-> p, nth |-> received'[p]]
      /\ place = "ponging" => sending'[p] = Channel!Pong
      /\ \A q \in Peers : q # p => sending'[q] = sending[q]
      /\ DOMAIN sending' = Peers /\ sending' = [q \in Peers |-> sending'[q]]
  <2>0. sending \in [Peers -> ChatFrames] /\ where \in [Peers -> ChatPlaces]
    BY DEF ChatTypes
  <2>1. CASE Channel!AskRegister(p)
    BY <1>2, <1>4, <2>0, <2>1 DEF Channel!AskRegister, Sendings, SendingOf
  <2>2. CASE Channel!AskDeregister(p)
    BY <1>2, <1>4, <2>0, <2>2 DEF Channel!AskDeregister, Sendings, SendingOf
  <2>3. CASE Channel!AskBroadcast(p)
    BY <1>2, <1>4, <1>6, <2>0, <2>3 DEF Channel!AskBroadcast, Channel!MayReceive
  <2>4. CASE Channel!AskPong(p)
    BY <1>2, <1>4, <2>0, <2>4 DEF Channel!AskPong, Channel!MayReceive
  <2> QED
    BY <2>1, <2>2, <2>3, <2>4
<1>8. ChatTypes'
  <2>1. where' \in [Peers -> ChatPlaces]
    BY <1>2, <1>4 DEF ChatPlaces, Members
  <2>2. \A q \in Peers : sending'[q] \in ChatFrames
    <3>1. [kind |-> "text", from |-> p, nth |-> received'[p]] \in ChatFrames
      BY <1>6 DEF ChatFrames, ChatTexts
    <3> QED
      BY <1>2, <1>7, <3>1 DEF ChatTypes, ChatFrames
  <2>3. sending' \in [Peers -> ChatFrames]
    BY <1>7, <2>2
  <2> QED
    BY <1>1, <1>3, <1>6, <2>1, <2>3 DEF ChatTypes
<1>9. SlabIsMembers'
  BY <1>1, <1>2, <1>4, <1>7 DEF SlabIsMembers, Members
<1>10. Sendings'
  <2> SUFFICES ASSUME NEW q \in Peers PROVE SendingOf(q)'
    BY DEF Sendings
  <2>1. CASE q = p
    BY <1>2, <1>4, <1>7, <2>1 DEF SendingOf
  <2>2. CASE q # p
    <3>1. where'[q] = where[q] /\ sending'[q] = sending[q] /\ received'[q] = received[q]
      BY <1>4, <1>6, <1>7, <2>2
    <3> QED
      BY <3>1 DEF Sendings, SendingOf
  <2> QED
    BY <2>1, <2>2
<1>11. Visiting'
  BY <1>1, <1>2, <1>4, <1>7 DEF Visiting
<1>12. TextsSoFar'
  <2> SUFFICES ASSUME NEW a \in Peers, NEW q \in Peers, NEW i \in DOMAIN frames[q],
                      Channel!IsText(frames[q][i], a)
               PROVE  frames[q][i].nth <= received'[a] /\ (ToCome(a, q)' => frames[q][i].nth < received'[a])
    BY <1>1 DEF TextsSoFar, Channel!IsText
  <2>1. frames[q][i].nth <= received[a] /\ frames[q][i].nth \in Nat
    BY TextIsCounted DEF TextsSoFar
  <2>2. CASE a = p
    <3>1. ToCome(a, q)' => place = "broadcasting"
      BY <1>2, <1>4, <2>2 DEF ToCome
    <3> QED
      BY <1>6, <2>1, <2>2, <3>1 DEF ChatTypes
  <2>3. CASE a # p
    <3>1. ToCome(a, q)' => ToCome(a, q)
      BY <1>1, <1>4, <1>7, <2>3 DEF ToCome
    <3> QED
      BY <1>6, <2>1, <2>3, <3>1 DEF TextsSoFar
  <2> QED
    BY <2>2, <2>3
<1>13. ReachedSoFar'
  BY <1>1, <1>2, <1>4, <1>7 DEF ReachedSoFar
<1>14. PongsSoFar'
  <2> SUFFICES ASSUME NEW q \in Peers
               PROVE  Cardinality(PongsOf(q)') + (IF PongToCome(q)' THEN 1 ELSE 0) <= received'[q]
    BY DEF PongsSoFar
  <2>1. PongsOf(q)' = PongsOf(q)
    BY <1>1, ChatFramesKept
  <2>2. Cardinality(PongsOf(q)) \in Nat
    BY PongsCounted
  <2>3. Cardinality(PongsOf(q)) + (IF PongToCome(q) THEN 1 ELSE 0) <= received[q] /\ received[q] \in Nat
    BY DEF PongsSoFar, ChatTypes
  <2>4. CASE q # p
    <3>1. PongToCome(q)' <=> PongToCome(q)
      BY <1>1, <1>4, <1>7, <2>4 DEF PongToCome
    <3> QED
      BY <1>6, <2>1, <2>3, <2>4, <3>1
  <2>5. CASE q = p
    <3>1. PongToCome(q)' <=> place = "ponging"
      BY <1>2, <1>4, <2>5 DEF PongToCome
    <3>2. ~PongToCome(q)
      BY <1>1, <2>5 DEF PongToCome
    <3>3. Cardinality(PongsOf(q)) <= received[q]
      BY <2>2, <2>3, <3>2
    <3> QED
      BY <1>6, <2>1, <2>2, <2>3, <2>5, <3>1, <3>3
  <2> QED
    BY <2>4, <2>5
<1>15. ClosesEnd'
  BY <1>1, <1>4 DEF ClosesEnd
<1>16. Channel!SenderOrder'
  BY <1>1, ChatFramesKept
<1> QED
  BY <1>3, <1>8, <1>9, <1>10, <1>11, <1>12, <1>13, <1>14, <1>15, <1>16

(* A writer puts its sender into the slab or takes it out while nobody     *)
(* sends.                                                                  *)
LEMMA ChatWrites ==
  ASSUME Channel!ChatAssumption, ChatInv, NEW p \in Peers,
         Channel!Register(p) \/ Channel!Deregister(p)
  PROVE  ChatInv'
<1> USE DEF ChatInv
<1>1. /\ UNCHANGED <<todo, sending, frames, gone, received>>
      /\ Channel!Holds(p, "write") /\ lock' = Channel!Release(p)
  BY DEF Channel!Register, Channel!Deregister
<1>2. PICK place :
        /\ where' = [where EXCEPT ![p] = place]
        /\ \/ where[p] = "registering" /\ place = "receiving"
           \/ where[p] = "deregistering" /\ place = "closing"
  <2>1. CASE Channel!Register(p)
    <3>1. where[p] = "registering" /\ where' = [where EXCEPT ![p] = "receiving"]
      BY <2>1 DEF Channel!Register
    <3> QED
      BY <3>1
  <2>2. CASE Channel!Deregister(p)
    <3>1. where[p] = "deregistering" /\ where' = [where EXCEPT ![p] = "closing"]
      BY <2>2 DEF Channel!Deregister
    <3> QED
      BY <3>1
  <2> QED
    BY <2>1, <2>2
<1>3. lock' \in Seq(Entries) /\ SendersHold' /\ LockModes'
  BY <1>1, <1>2, LockReleased
<1>4. \A q \in Peers : where[q] # "sending" /\ todo[q] = <<>>
  BY <1>1, WriterAlone DEF Visiting
<1>5. /\ where \in [Peers -> ChatPlaces] /\ where'[p] = place
      /\ \A q \in Peers : q # p => where'[q] = where[q]
      /\ \A q \in Peers : where'[q] # "sending"
  BY <1>2, <1>4 DEF ChatTypes
<1>6. /\ slab \in [Indexes -> Senders] /\ index \in [Peers -> Indexes \cup {0}]
  BY DEF ChatTypes
<1>7. slab' \in [Indexes -> Senders] /\ index' \in [Peers -> Indexes \cup {0}] /\ SlabIsMembers'
  <2>1. CASE Channel!Register(p)
    <3>1. PICK i \in Indexes : /\ slab[i] = {} /\ slab' = [slab EXCEPT ![i] = {p}]
                               /\ index' = [index EXCEPT ![p] = i]
      BY <1>6, <2>1 DEF Channel!Register, Channel!Live
    <3>2. slab' \in [Indexes -> Senders] /\ index' \in [Peers -> Indexes \cup {0}]
      BY <1>6, <3>1 DEF Senders
    <3>3. place = "receiving" /\ where[p] = "registering"
      BY <1>2, <1>5, <2>1 DEF Channel!Register
    <3>4. \A q \in Peers : q # p /\ where[q] \in Members =>
            index[q] \in Indexes /\ slab[index[q]] = {q} /\ index[q] # i
      BY <3>1 DEF SlabIsMembers
    <3>5. ASSUME NEW q \in Peers, where'[q] \in Members
          PROVE  index'[q] \in Indexes /\ slab'[index'[q]] = {q}
      <4>1. CASE q = p
        BY <1>6, <3>1, <4>1
      <4>2. CASE q # p
        <5>1. index'[q] = index[q] /\ where[q] \in Members
          BY <1>5, <1>6, <3>1, <3>5, <4>2
        <5>2. index[q] \in Indexes /\ slab[index[q]] = {q} /\ index[q] # i
          BY <3>4, <4>2, <5>1
        <5> QED
          BY <1>6, <3>1, <5>1, <5>2
      <4> QED
        BY <4>1, <4>2
    <3>6. ASSUME NEW j \in Indexes, NEW q \in Peers, slab'[j] = {q}
          PROVE  where'[q] \in Members /\ index'[q] = j
      <4>1. CASE j = i
        <5>1. q = p
          BY <1>6, <3>1, <3>6, <4>1
        <5> QED
          BY <1>5, <1>6, <3>1, <3>3, <4>1, <5>1 DEF Members
      <4>2. CASE j # i
        <5>1. slab[j] = {q}
          BY <1>6, <3>1, <3>6, <4>2
        <5>2. where[q] \in Members /\ index[q] = j
          BY <5>1 DEF SlabIsMembers
        <5>3. q # p
          BY <3>3, <5>2 DEF Members
        <5> QED
          BY <1>5, <1>6, <3>1, <5>2, <5>3
      <4> QED
        BY <4>1, <4>2
    <3> QED
      BY <3>2, <3>5, <3>6 DEF SlabIsMembers
  <2>2. CASE Channel!Deregister(p)
    <3>1. place = "closing" /\ where[p] = "deregistering"
      BY <1>2, <1>5, <2>2 DEF Channel!Deregister
    <3>2. PICK i \in Indexes : /\ i = index[p] /\ slab[i] = {p}
                               /\ slab' = [slab EXCEPT ![i] = {}]
                               /\ index' = [index EXCEPT ![p] = 0]
      BY <2>2, <3>1 DEF Channel!Deregister, Channel!Removed, SlabIsMembers, Members
    <3>3. slab' \in [Indexes -> Senders] /\ index' \in [Peers -> Indexes \cup {0}]
      BY <1>6, <3>2 DEF Senders
    <3>4. ASSUME NEW q \in Peers, where'[q] \in Members
          PROVE  index'[q] \in Indexes /\ slab'[index'[q]] = {q}
      <4>1. q # p
        BY <1>5, <3>1, <3>4 DEF Members
      <4>2. index'[q] = index[q] /\ where[q] \in Members
        BY <1>5, <1>6, <3>2, <3>4, <4>1
      <4>3. index[q] \in Indexes /\ slab[index[q]] = {q}
        BY <4>2 DEF SlabIsMembers
      <4>4. index[q] # i
        BY <3>2, <4>1, <4>3
      <4> QED
        BY <1>6, <3>2, <4>2, <4>3, <4>4
    <3>5. ASSUME NEW j \in Indexes, NEW q \in Peers, slab'[j] = {q}
          PROVE  where'[q] \in Members /\ index'[q] = j
      <4>1. j # i /\ slab[j] = {q}
        BY <1>6, <3>2, <3>5
      <4>2. where[q] \in Members /\ index[q] = j
        BY <4>1 DEF SlabIsMembers
      <4>3. q # p
        BY <3>2, <4>1, <4>2
      <4> QED
        BY <1>5, <1>6, <3>2, <4>2, <4>3
    <3> QED
      BY <3>3, <3>4, <3>5 DEF SlabIsMembers
  <2> QED
    BY <2>1, <2>2
<1>8. ChatTypes'
  <2>1. where' \in [Peers -> ChatPlaces]
    BY <1>2, <1>5 DEF ChatPlaces, Members
  <2> QED
    BY <1>1, <1>3, <1>7, <2>1 DEF ChatTypes
<1>9. Sendings'
  <2> SUFFICES ASSUME NEW q \in Peers PROVE SendingOf(q)'
    BY DEF Sendings
  <2>1. SendingOf(q)
    BY DEF Sendings
  <2> QED
    BY <1>1, <1>2, <1>5, <2>1 DEF SendingOf
<1>10. Visiting'
  BY <1>1, <1>4, <1>5 DEF Visiting
<1>11. \A a, q \in Peers : ToCome(a, q)' => ToCome(a, q)
  BY <1>2, <1>5 DEF ToCome
<1>12. TextsSoFar'
  <2> SUFFICES ASSUME NEW a \in Peers, NEW q \in Peers, NEW i \in DOMAIN frames[q],
                      Channel!IsText(frames[q][i], a)
               PROVE  frames[q][i].nth <= received[a] /\ (ToCome(a, q)' => frames[q][i].nth < received[a])
    BY <1>1 DEF TextsSoFar, Channel!IsText
  <2> QED
    BY <1>11 DEF TextsSoFar
<1>13. ReachedSoFar'
  BY <1>5 DEF ReachedSoFar
<1>14. PongsSoFar'
  <2>1. \A q \in Peers : PongToCome(q)' <=> PongToCome(q)
    BY <1>2, <1>4, <1>5 DEF PongToCome
  <2> QED
    BY <1>1, <2>1, ChatFramesKept DEF PongsSoFar
<1>15. ClosesEnd'
  BY <1>1, <1>2, <1>5 DEF ClosesEnd
<1>16. Channel!SenderOrder'
  BY <1>1, ChatFramesKept
<1> QED
  BY <1>3, <1>7, <1>8, <1>9, <1>10, <1>12, <1>13, <1>14, <1>15, <1>16

(* A broadcast visits everybody in the slab, and each of them once.        *)
VisitsAll(visits) ==
    /\ visits \in Seq(Indexes)
    /\ \A k \in DOMAIN visits : slab[visits[k]] # {}
    /\ \A j, k \in DOMAIN visits : visits[j] = visits[k] => j = k
    /\ \A i \in Indexes : slab[i] # {} => \E k \in DOMAIN visits : visits[k] = i

(* The order of the slab is such an order.                                 *)
LEMMA ChatVisits ==
  ASSUME Channel!ChatAssumption, ChatTypes, NEW p \in Peers
  PROVE  VisitsAll(Channel!Visits(p))
<1>1. PICK n : n = Cardinality(Peers)
  OBVIOUS
<1>2. n \in Nat
  <2>1. IsFiniteSet(Peers)
    BY DEF Channel!ChatAssumption, Channel!IsFiniteSet, IsFiniteSet
  <2> QED
    BY <1>1, <2>1, FS_CardinalityType
<1>3. PICK all : all = [i \in 1 .. n |-> i]
  OBVIOUS
<1>4. all \in Seq(1 .. n) /\ Len(all) = n
  BY <1>2, <1>3
<1>5. PICK live : live = {i \in 1 .. n : slab[i] # {}}
  OBVIOUS
<1>6. PICK visits : visits = Only(all, live)
  OBVIOUS
<1>7. DOMAIN slab = 1 .. n
  BY <1>1 DEF ChatTypes, Indexes
<1>8. Channel!Visits(p) = visits
  BY <1>3, <1>5, <1>6, <1>7, ChatOnly DEF Channel!Visits, Channel!SlabOrder, Channel!Live
<1>9. visits \in Seq(1 .. n)
  BY <1>4, <1>6, OnlyTyped
<1>10. PICK f : Picks(f, visits, all, live)
  BY <1>4, <1>6, OnlyIs
<1>11. PICK m : m = Len(visits)
  OBVIOUS
<1>12. m \in Nat /\ DOMAIN visits = 1 .. m /\ DOMAIN all = 1 .. n /\ \A i \in 1 .. n : all[i] = i
  BY <1>3, <1>9, <1>11
<1>13. /\ \A k \in 1 .. m : f[k] \in 1 .. n /\ visits[k] = f[k]
       /\ \A j, k \in 1 .. m : j < k => f[j] < f[k]
       /\ \A i \in 1 .. n : i \in live <=> \E k \in 1 .. m : f[k] = i
  BY <1>10, <1>12 DEF Picks
<1>14. \A k \in 1 .. m : slab[visits[k]] # {}
  BY <1>5, <1>13
<1>15. ASSUME NEW j \in 1 .. m, NEW k \in 1 .. m, visits[j] = visits[k]
       PROVE  j = k
  <2>1. f[j] \in 1 .. n /\ f[k] \in 1 .. n /\ f[j] = f[k]
    BY <1>13, <1>15
  <2>2. ~(j < k) /\ ~(k < j)
    BY <1>2, <1>13, <2>1
  <2> QED
    BY <1>12, <2>2
<1>16. \A i \in 1 .. n : slab[i] # {} => \E k \in 1 .. m : visits[k] = i
  BY <1>5, <1>13
<1> QED
  BY <1>1, <1>8, <1>9, <1>12, <1>14, <1>15, <1>16 DEF VisitsAll, Indexes

(* A task that has the lock begins to send.                                *)
LEMMA ChatStarts ==
  ASSUME Channel!ChatAssumption, ChatInv, NEW p \in Peers,
         Channel!StartBroadcast(p) \/ Channel!StartPong(p)
  PROVE  ChatInv'
<1> USE DEF ChatInv
<1>1. /\ UNCHANGED <<slab, index, lock, sending, frames, gone, received>>
      /\ Channel!Holds(p, "read") /\ where' = [where EXCEPT ![p] = "sending"]
      /\ where[p] \in {"broadcasting", "ponging"}
  BY DEF Channel!StartBroadcast, Channel!StartPong
<1>2. PICK visits :
        /\ todo' = [todo EXCEPT ![p] = visits]
        /\ \/ where[p] = "broadcasting" /\ VisitsAll(visits)
           \/ where[p] = "ponging" /\ visits = <<index[p]>>
  <2>1. CASE Channel!StartBroadcast(p)
    <3>1. VisitsAll(Channel!Visits(p))
      BY ChatVisits
    <3>2. where[p] = "broadcasting" /\ todo' = [todo EXCEPT ![p] = Channel!Visits(p)]
      BY <2>1 DEF Channel!StartBroadcast
    <3> QED
      BY <3>1, <3>2
  <2>2. CASE Channel!StartPong(p)
    <3>1. where[p] = "ponging" /\ todo' = [todo EXCEPT ![p] = <<index[p]>>]
      BY <2>2 DEF Channel!StartPong
    <3> QED
      BY <3>1
  <2> QED
    BY <2>1, <2>2
<1>3. /\ where \in [Peers -> ChatPlaces] /\ where'[p] = "sending"
      /\ \A q \in Peers : q # p => where'[q] = where[q] /\ todo'[q] = todo[q]
      /\ todo \in [Peers -> Seq(Indexes)] /\ todo'[p] = visits
  BY <1>1, <1>2 DEF ChatTypes
<1>4. /\ visits \in Seq(Indexes)
      /\ \A k \in DOMAIN visits : slab[visits[k]] # {}
      /\ \A j, k \in DOMAIN visits : visits[j] = visits[k] => j = k
  <2>1. CASE VisitsAll(visits)
    BY <2>1 DEF VisitsAll
  <2>2. CASE where[p] = "ponging" /\ visits = <<index[p]>>
    <3>1. index[p] \in Indexes /\ slab[index[p]] = {p}
      BY <2>2 DEF SlabIsMembers, Members
    <3>2. visits \in Seq(Indexes) /\ DOMAIN visits = {1} /\ visits[1] = index[p]
      BY <2>2, <3>1
    <3> QED
      BY <3>1, <3>2
  <2> QED
    BY <1>2, <2>1, <2>2
<1>5. ChatTypes'
  <2>1. where' \in [Peers -> ChatPlaces]
    BY <1>1, <1>3 DEF ChatPlaces, Members
  <2>2. todo' \in [Peers -> Seq(Indexes)]
    BY <1>2, <1>3, <1>4
  <2> QED
    BY <1>1, <2>1, <2>2 DEF ChatTypes
<1>6. SendersHold'
  BY <1>1, <1>3 DEF SendersHold, Channel!Holds
<1>7. LockModes'
  <2> SUFFICES ASSUME NEW i \in DOMAIN lock
               PROVE  \/ lock[i].mode = "write" /\ where'[lock[i].who] \in {"registering", "deregistering"}
                      \/ lock[i].mode = "read"
                         /\ where'[lock[i].who] \in {"broadcasting", "ponging", "sending"}
    BY <1>1 DEF LockModes
  <2>0. lock[i] \in Entries
    BY DEF ChatTypes
  <2>1. lock[i].who \in Peers
    BY <2>0 DEF Entries
  <2> QED
    BY <1>1, <1>3, <2>1 DEF LockModes
<1>8. SlabIsMembers'
  BY <1>1, <1>3 DEF SlabIsMembers, Members
<1>9. Sendings'
  <2> SUFFICES ASSUME NEW q \in Peers PROVE SendingOf(q)'
    BY DEF Sendings
  <2>1. SendingOf(q)
    BY DEF Sendings
  <2> QED
    BY <1>1, <1>3, <2>1 DEF SendingOf
<1>10. where[p] = "broadcasting" => sending[p] # Channel!Pong
  <2>1. Channel!Pong.kind = "pong"
    BY DEF Channel!Pong
  <2>2. ASSUME where[p] = "broadcasting" PROVE sending[p].kind = "text"
    <3>1. sending[p] = [kind |-> "text", from |-> p, nth |-> received[p]]
      BY <2>2 DEF Sendings, SendingOf
    <3> QED
      BY <3>1
  <2> QED
    BY <2>1, <2>2
<1>11. Visiting'
  <2> SUFFICES ASSUME NEW q \in Peers
               PROVE  /\ where'[q] # "sending" => todo'[q] = <<>>
                      /\ \A k \in DOMAIN todo'[q] : slab[todo'[q][k]] # {}
                      /\ \A j, k \in DOMAIN todo'[q] : todo'[q][j] = todo'[q][k] => j = k
                      /\ where'[q] = "sending" /\ sending[q] = Channel!Pong /\ todo'[q] # <<>>
                            => todo'[q] = <<index[q]>>
    BY <1>1 DEF Visiting
  <2>1. CASE q = p
    BY <1>2, <1>3, <1>4, <1>10, <2>1
  <2>2. CASE q # p
    BY <1>3, <2>2, ZenonT(40) DEF Visiting
  <2> QED
    BY <2>1, <2>2
<1>12. \A a, q \in Peers : ToCome(a, q)' => ToCome(a, q)
  <2>1. where[p] = "ponging" => sending[p] = Channel!Pong
    BY DEF Sendings, SendingOf
  <2> QED
    BY <1>1, <1>3, <2>1 DEF ToCome
<1>13. TextsSoFar'
  <2> SUFFICES ASSUME NEW a \in Peers, NEW q \in Peers, NEW i \in DOMAIN frames[q],
                      Channel!IsText(frames[q][i], a)
               PROVE  frames[q][i].nth <= received[a] /\ (ToCome(a, q)' => frames[q][i].nth < received[a])
    BY <1>1 DEF TextsSoFar, Channel!IsText
  <2> QED
    BY <1>12 DEF TextsSoFar
<1>14. ReachedSoFar'
  <2> SUFFICES ASSUME NEW a \in Peers, where'[a] = "sending", sending[a] # Channel!Pong,
                      NEW i \in Indexes, NEW q \in Peers, slab[i] = {q}
               PROVE  \/ \E k \in DOMAIN todo'[a] : todo'[a][k] = i
                      \/ gone[q] \/ \E k \in DOMAIN frames[q] : frames[q][k] = sending[a]
    BY <1>1 DEF ReachedSoFar
  <2>1. CASE a = p
    <3>1. where[p] = "broadcasting"
      BY <1>1, <2>1 DEF Sendings, SendingOf
    <3>2. VisitsAll(visits)
      BY <1>2, <3>1
    <3>3. slab[i] # {}
      OBVIOUS
    <3> QED
      BY <1>3, <2>1, <3>2, <3>3 DEF VisitsAll
  <2>2. CASE a # p
    <3>1. where[a] = "sending" /\ todo'[a] = todo[a]
      BY <1>3, <2>2
    <3> QED
      BY <3>1 DEF ReachedSoFar
  <2> QED
    BY <2>1, <2>2
<1>15. PongsSoFar'
  <2>1. ASSUME NEW q \in Peers PROVE PongToCome(q)' => PongToCome(q)
    <3>1. CASE q = p
      BY <1>1, <1>3, <1>10, <3>1 DEF PongToCome
    <3>2. CASE q # p
      BY <1>1, <1>3, <3>2 DEF PongToCome
    <3> QED
      BY <3>1, <3>2
  <2> SUFFICES ASSUME NEW q \in Peers
               PROVE  Cardinality(PongsOf(q)') + (IF PongToCome(q)' THEN 1 ELSE 0) <= received[q]
    BY <1>1 DEF PongsSoFar
  <2>2. PongsOf(q)' = PongsOf(q)
    BY <1>1, ChatFramesKept
  <2>3. Cardinality(PongsOf(q)) \in Nat /\ received[q] \in Nat
    BY PongsCounted DEF ChatTypes
  <2> QED
    BY <2>1, <2>2, <2>3 DEF PongsSoFar
<1>16. ClosesEnd'
  BY <1>1, <1>3 DEF ClosesEnd
<1>17. Channel!SenderOrder'
  BY <1>1, ChatFramesKept
<1> QED
  BY <1>5, <1>6, <1>7, <1>8, <1>9, <1>11, <1>13, <1>14, <1>15, <1>16, <1>17

(* A broadcast or a pong is over.                                          *)
LEMMA ChatSent ==
  ASSUME ChatInv, NEW p \in Peers, Channel!Sent(p)
  PROVE  ChatInv'
<1> USE DEF ChatInv
<1>1. /\ UNCHANGED <<slab, index, todo, frames, gone, received>>
      /\ where' = [where EXCEPT ![p] = "receiving"] /\ where[p] = "sending" /\ todo[p] = <<>>
      /\ sending' = [sending EXCEPT ![p] = Channel!NoFrame] /\ lock' = Channel!Release(p)
  BY DEF Channel!Sent
<1>2. lock' \in Seq(Entries) /\ SendersHold' /\ LockModes'
  BY <1>1, LockReleased
<1>3. /\ where \in [Peers -> ChatPlaces] /\ where'[p] = "receiving"
      /\ sending \in [Peers -> ChatFrames] /\ sending'[p] = Channel!NoFrame
      /\ \A q \in Peers : q # p => where'[q] = where[q] /\ sending'[q] = sending[q]
  BY <1>1 DEF ChatTypes
<1>4. ChatTypes'
  <2>1. where' \in [Peers -> ChatPlaces] /\ sending' \in [Peers -> ChatFrames]
    BY <1>1, <1>3 DEF ChatPlaces, Members, ChatFrames
  <2> QED
    BY <1>1, <1>2, <2>1 DEF ChatTypes
<1>5. SlabIsMembers'
  BY <1>1, <1>3 DEF SlabIsMembers, Members
<1>6. Sendings'
  <2> SUFFICES ASSUME NEW q \in Peers PROVE SendingOf(q)'
    BY DEF Sendings
  <2>1. SendingOf(q)
    BY DEF Sendings
  <2> QED
    BY <1>1, <1>3, <2>1 DEF SendingOf
<1>7. Visiting'
  BY <1>1, <1>3 DEF Visiting
<1>8. \A a, q \in Peers : ToCome(a, q)' => ToCome(a, q)
  BY <1>1, <1>3 DEF ToCome
<1>9. TextsSoFar'
  <2> SUFFICES ASSUME NEW a \in Peers, NEW q \in Peers, NEW i \in DOMAIN frames[q],
                      Channel!IsText(frames[q][i], a)
               PROVE  frames[q][i].nth <= received[a] /\ (ToCome(a, q)' => frames[q][i].nth < received[a])
    BY <1>1 DEF TextsSoFar, Channel!IsText
  <2> QED
    BY <1>8 DEF TextsSoFar
<1>10. ReachedSoFar'
  BY <1>1, <1>3 DEF ReachedSoFar
<1>11. PongsSoFar'
  <2>1. \A q \in Peers : PongToCome(q)' <=> PongToCome(q)
    BY <1>1, <1>3 DEF PongToCome
  <2> QED
    BY <1>1, <2>1, ChatFramesKept DEF PongsSoFar
<1>12. ClosesEnd'
  BY <1>1, <1>3 DEF ClosesEnd
<1>13. Channel!SenderOrder'
  BY <1>1, ChatFramesKept
<1> QED
  BY <1>2, <1>4, <1>5, <1>6, <1>7, <1>9, <1>10, <1>11, <1>12, <1>13

(* A frame is the last of its client.                                      *)
LEMMA ChatPut ==
  ASSUME ChatTypes, NEW q \in Peers, NEW frame \in ChatFrames,
         frames' = [frames EXCEPT ![q] = Append(@, frame)]
  PROVE  /\ frames' \in [Peers -> Seq(ChatFrames)]
         /\ \A r \in Peers : r # q => frames'[r] = frames[r]
         /\ Len(frames[q]) \in Nat /\ DOMAIN frames[q] = 1 .. Len(frames[q])
         /\ DOMAIN frames'[q] = 1 .. Len(frames[q]) + 1 /\ Len(frames'[q]) = Len(frames[q]) + 1
         /\ frames'[q][Len(frames[q]) + 1] = frame
         /\ \A i \in 1 .. Len(frames[q]) : frames'[q][i] = frames[q][i]
         /\ \A i \in 1 .. Len(frames[q]) + 1 : i \in 1 .. Len(frames[q]) \/ i = Len(frames[q]) + 1
<1>1. PICK old : old = frames[q]
  OBVIOUS
<1>2. PICK n : n = Len(old)
  OBVIOUS
<1>3. PICK new : new = Append(old, frame)
  OBVIOUS
<1>4. old \in Seq(ChatFrames) /\ frames \in [Peers -> Seq(ChatFrames)]
  BY <1>1 DEF ChatTypes
<1>5. /\ n \in Nat /\ DOMAIN old = 1 .. n /\ new \in Seq(ChatFrames) /\ DOMAIN new = 1 .. n + 1
      /\ Len(new) = n + 1 /\ new[n + 1] = frame /\ \A i \in 1 .. n : new[i] = old[i]
  BY <1>2, <1>3, <1>4
<1>6. frames' = [frames EXCEPT ![q] = new]
  BY <1>1, <1>3
<1>7. frames'[q] = new /\ frames' \in [Peers -> Seq(ChatFrames)]
  BY <1>4, <1>5, <1>6
<1>8. \A i \in 1 .. n + 1 : i \in 1 .. n \/ i = n + 1
  BY <1>5
<1> QED
  BY <1>1, <1>2, <1>4, <1>5, <1>6, <1>7, <1>8

(* Pongs are counted when they are put.                                    *)
LEMMA ChatPutPongs ==
  ASSUME ChatTypes, NEW q \in Peers, NEW frame \in ChatFrames,
         frames' = [frames EXCEPT ![q] = Append(@, frame)]
  PROVE  /\ \A r \in Peers : r # q => PongsOf(r)' = PongsOf(r)
         /\ frame # Channel!Pong => PongsOf(q)' = PongsOf(q)
         /\ frame = Channel!Pong => Cardinality(PongsOf(q)') = Cardinality(PongsOf(q)) + 1
<1>1. PICK n : n = Len(frames[q])
  OBVIOUS
<1>2. /\ \A r \in Peers : r # q => frames'[r] = frames[r]
      /\ n \in Nat /\ DOMAIN frames[q] = 1 .. n /\ DOMAIN frames'[q] = 1 .. n + 1
      /\ frames'[q][n + 1] = frame /\ \A i \in 1 .. n : frames'[q][i] = frames[q][i]
      /\ \A i \in 1 .. n + 1 : i \in 1 .. n \/ i = n + 1
  BY <1>1, ChatPut
<1>3. \A r \in Peers : r # q => PongsOf(r)' = PongsOf(r)
  BY <1>2 DEF PongsOf
<1>4. n + 1 \in 1 .. n + 1 /\ n + 1 \notin 1 .. n /\ \A i \in 1 .. n : i \in 1 .. n + 1
  BY <1>2
<1>5. PICK old : old = PongsOf(q)
  OBVIOUS
<1>6. old = {i \in 1 .. n : frames[q][i] = Channel!Pong}
  BY <1>2, <1>5 DEF PongsOf
<1>7. PongsOf(q)' = {i \in 1 .. n + 1 : frames'[q][i] = Channel!Pong}
  BY <1>2 DEF PongsOf
<1>8. frame # Channel!Pong => PongsOf(q)' = old
  BY <1>2, <1>4, <1>6, <1>7
<1>9. frame = Channel!Pong => PongsOf(q)' = old \cup {n + 1}
  BY <1>2, <1>4, <1>6, <1>7
<1>10. IsFiniteSet(old) /\ n + 1 \notin old
  BY <1>4, <1>5, <1>6, PongsCounted
<1>11. Cardinality(old \cup {n + 1}) = Cardinality(old) + 1
  BY <1>10, FS_AddElement
<1> QED
  BY <1>3, <1>5, <1>8, <1>9, <1>11

(* A frame is sent to the next one whom the task has to visit.             *)
LEMMA ChatSends ==
  ASSUME ChatInv, NEW p \in Peers, Channel!Send(p)
  PROVE  ChatInv'
<1> USE DEF ChatInv
<1>1. /\ UNCHANGED <<where, slab, index, lock, sending, gone, received>>
      /\ where[p] = "sending" /\ todo[p] # <<>>
  BY DEF Channel!Send
<1>2. PICK visits : visits = todo[p]
  OBVIOUS
<1>3. PICK m : m = Len(visits)
  OBVIOUS
<1>4. visits \in Seq(Indexes) /\ visits # <<>> /\ todo \in [Peers -> Seq(Indexes)]
  BY <1>1, <1>2 DEF ChatTypes
<1>5. PICK rest : rest = Tail(visits)
  OBVIOUS
<1>6. m \in Nat \ {0}
  BY <1>3, <1>4, EmptySeq
<1>7. /\ DOMAIN visits = 1 .. m /\ Head(visits) = visits[1]
      /\ rest \in Seq(Indexes) /\ DOMAIN rest = 1 .. m - 1
      /\ \A k \in 1 .. m - 1 : rest[k] = visits[k + 1]
      /\ \A k \in 1 .. m : visits[k] \in Indexes
  BY <1>3, <1>4, <1>5, <1>6
<1>8. 1 \in 1 .. m /\ \A k \in 1 .. m - 1 : k + 1 \in 1 .. m /\ k + 1 # 1
  BY <1>6
<1>9. PICK i : i = visits[1]
  OBVIOUS
<1>10. PICK q \in Peers : slab[i] = {q}
  <2>1. i \in Indexes /\ slab[i] # {}
    BY <1>2, <1>7, <1>8, <1>9 DEF Visiting
  <2> QED
    BY <2>1 DEF ChatTypes, Senders
<1>11. Channel!Owner(Head(todo[p])) = q
  BY <1>2, <1>7, <1>9, <1>10 DEF Channel!Owner
<1>12. PICK frame : frame = sending[p]
  OBVIOUS
<1>13. /\ todo' = [todo EXCEPT ![p] = rest]
       /\ IF gone[q] THEN UNCHANGED frames ELSE frames' = [frames EXCEPT ![q] = Append(@, frame)]
  BY <1>2, <1>5, <1>11, <1>12 DEF Channel!Send, Channel!Put, Channel!After
<1>14. /\ frame \in ChatFrames /\ frame # Channel!Close
       /\ frame = Channel!Pong \/ frame = [kind |-> "text", from |-> p, nth |-> received[p]]
       /\ frame # Channel!Pong => frame = [kind |-> "text", from |-> p, nth |-> received[p]]
       /\ frame = Channel!Pong => ~Channel!IsText(frame, p) /\ \A a \in Peers : ~Channel!IsText(frame, a)
       /\ frame # Channel!Pong =>
             \A a \in Peers : Channel!IsText(frame, a) => a = p /\ frame.nth = received[p]
  <2>1. frame \in {Channel!Pong, [kind |-> "text", from |-> p, nth |-> received[p]]}
    BY <1>1, <1>12 DEF Sendings, SendingOf
  <2>2. Channel!Pong.kind = "pong" /\ Channel!Close.kind = "close"
    BY DEF Channel!Pong, Channel!Close
  <2>3. frame.kind # "close" /\ frame \in ChatFrames
    BY <1>12, <2>1, <2>2 DEF ChatTypes
  <2> QED
    BY <2>1, <2>2, <2>3 DEF Channel!IsText
<1>15. /\ todo'[p] = rest /\ \A a \in Peers : a # p => todo'[a] = todo[a]
       /\ todo' \in [Peers -> Seq(Indexes)]
  BY <1>4, <1>7, <1>13
<1>16. where[q] \in Members /\ index[q] = i
  <2>1. i \in Indexes
    BY <1>7, <1>8, <1>9
  <2> QED
    BY <1>10, <2>1 DEF SlabIsMembers
<1>17. ~gone[q] =>
          /\ frames' \in [Peers -> Seq(ChatFrames)]
          /\ \A r \in Peers : r # q => frames'[r] = frames[r]
          /\ Len(frames[q]) \in Nat /\ DOMAIN frames[q] = 1 .. Len(frames[q])
          /\ DOMAIN frames'[q] = 1 .. Len(frames[q]) + 1 /\ Len(frames'[q]) = Len(frames[q]) + 1
          /\ frames'[q][Len(frames[q]) + 1] = frame
          /\ \A k \in 1 .. Len(frames[q]) : frames'[q][k] = frames[q][k]
          /\ \A k \in 1 .. Len(frames[q]) + 1 : k \in 1 .. Len(frames[q]) \/ k = Len(frames[q]) + 1
  BY <1>13, <1>14, ChatPut
<1>18. ChatTypes'
  BY <1>1, <1>13, <1>15, <1>17 DEF ChatTypes
<1>19. SendersHold' /\ LockModes' /\ SlabIsMembers'
  BY <1>1 DEF SendersHold, LockModes, SlabIsMembers, Channel!Holds
<1>20. Sendings'
  BY <1>1 DEF Sendings, SendingOf
<1>21. /\ \A k \in 1 .. m - 1 : slab[rest[k]] # {}
       /\ \A j, k \in 1 .. m - 1 : rest[j] = rest[k] => j = k
       /\ \A k \in 1 .. m - 1 : rest[k] # i
  <2>1. \A k \in 1 .. m : slab[visits[k]] # {}
    BY <1>2, <1>7 DEF Visiting
  <2>2. \A j, k \in 1 .. m : visits[j] = visits[k] => j = k
    BY <1>2, <1>7 DEF Visiting
  <2>3. ASSUME NEW j \in 1 .. m - 1, NEW k \in 1 .. m - 1, rest[j] = rest[k]
        PROVE  j = k
    <3>1. j + 1 \in 1 .. m /\ k + 1 \in 1 .. m /\ visits[j + 1] = visits[k + 1]
      BY <1>7, <1>8, <2>3
    <3>2. j + 1 = k + 1
      BY <2>2, <3>1
    <3> QED
      BY <1>6, <3>2
  <2> QED
    BY <1>7, <1>8, <1>9, <2>1, <2>2, <2>3
<1>22. frame = Channel!Pong => visits = <<index[p]>>
  BY <1>1, <1>2, <1>12 DEF Visiting
<1>23. frame = Channel!Pong => rest = <<>>
  BY <1>5, <1>22
<1>24. Visiting'
  <2> SUFFICES ASSUME NEW a \in Peers
               PROVE  /\ where[a] # "sending" => todo'[a] = <<>>
                      /\ \A k \in DOMAIN todo'[a] : slab[todo'[a][k]] # {}
                      /\ \A j, k \in DOMAIN todo'[a] : todo'[a][j] = todo'[a][k] => j = k
                      /\ where[a] = "sending" /\ sending[a] = Channel!Pong /\ todo'[a] # <<>>
                            => todo'[a] = <<index[a]>>
    BY <1>1 DEF Visiting
  <2>1. CASE a = p
    BY <1>1, <1>7, <1>12, <1>15, <1>21, <1>23, <2>1
  <2>2. CASE a # p
    BY <1>15, <2>2 DEF Visiting
  <2> QED
    BY <2>1, <2>2
<1>25. \A a, r \in Peers : ToCome(a, r)' => ToCome(a, r)
  <2> SUFFICES ASSUME NEW a \in Peers, NEW r \in Peers, ToCome(a, r)'
               PROVE  ToCome(a, r)
    OBVIOUS
  <2>1. CASE a = p
    <3>1. sending[p] # Channel!Pong /\ \E k \in 1 .. m - 1 : slab[rest[k]] = {r}
      BY <1>1, <1>7, <1>15, <2>1 DEF ToCome
    <3>2. \E k \in 1 .. m : slab[visits[k]] = {r}
      BY <1>7, <1>8, <3>1
    <3> QED
      BY <1>1, <1>2, <1>7, <2>1, <3>1, <3>2 DEF ToCome
  <2>2. CASE a # p
    BY <1>1, <1>15, <2>2 DEF ToCome
  <2> QED
    BY <2>1, <2>2
<1>26. frame # Channel!Pong => ToCome(p, q) /\ ~ToCome(p, q)'
  <2>1. ASSUME NEW k \in 1 .. m - 1, slab[rest[k]] = {q} PROVE FALSE
    <3>1. rest[k] \in Indexes
      BY <1>7, <1>8
    <3>2. index[q] = rest[k]
      BY <2>1, <3>1 DEF SlabIsMembers
    <3> QED
      BY <1>16, <1>21, <3>2
  <2> QED
    BY <1>1, <1>2, <1>7, <1>8, <1>9, <1>10, <1>12, <1>15, <2>1 DEF ToCome
<1>27. TextsSoFar'
  <2> SUFFICES ASSUME NEW a \in Peers, NEW r \in Peers, NEW k \in DOMAIN frames'[r],
                      Channel!IsText(frames'[r][k], a)
               PROVE  /\ frames'[r][k].nth <= received[a]
                      /\ ToCome(a, r)' => frames'[r][k].nth < received[a]
    BY <1>1 DEF TextsSoFar, Channel!IsText
  <2>1. CASE k \in DOMAIN frames[r] /\ frames'[r][k] = frames[r][k]
    BY <1>25, <2>1 DEF TextsSoFar
  <2>2. CASE ~gone[q] /\ r = q /\ k = Len(frames[q]) + 1
    <3>1. frames'[r][k] = frame
      BY <1>17, <2>2
    <3>2. frame # Channel!Pong
      BY <1>14, <3>1
    <3>3. a = p /\ frames'[r][k].nth = received[a]
      BY <1>14, <3>1, <3>2
    <3>4. received[a] \in Nat
      BY DEF ChatTypes
    <3> QED
      BY <1>26, <2>2, <3>2, <3>3, <3>4
  <2> QED
    BY <1>13, <1>17, <2>1, <2>2
<1>28. ReachedSoFar'
  <2> SUFFICES ASSUME NEW a \in Peers, where[a] = "sending", sending[a] # Channel!Pong,
                      NEW j \in Indexes, NEW r \in Peers, slab[j] = {r}
               PROVE  \/ \E k \in DOMAIN todo'[a] : todo'[a][k] = j
                      \/ gone[r] \/ \E k \in DOMAIN frames'[r] : frames'[r][k] = sending[a]
    BY <1>1 DEF ReachedSoFar
  <2>1. \A x : (\E k \in DOMAIN frames[r] : frames[r][k] = x)
              => \E k \in DOMAIN frames'[r] : frames'[r][k] = x
    <3>1. CASE ~gone[q] /\ r = q
      <4>1. \A k \in 1 .. Len(frames[q]) : k \in 1 .. Len(frames[q]) + 1
        BY <1>17, <3>1
      <4> QED
        BY <1>17, <3>1, <4>1
    <3>2. CASE gone[q] \/ r # q
      BY <1>13, <1>17, <3>2
    <3> QED
      BY <3>1, <3>2
  <2>2. \/ \E k \in DOMAIN todo[a] : todo[a][k] = j
        \/ gone[r] \/ \E k \in DOMAIN frames[r] : frames[r][k] = sending[a]
    BY DEF ReachedSoFar
  <2>3. CASE a # p
    BY <1>15, <2>1, <2>2, <2>3
  <2>4. CASE a = p
    <3>1. ASSUME NEW k \in 1 .. m, visits[k] = j, k # 1
          PROVE  \E l \in 1 .. m - 1 : rest[l] = j
      <4>1. k - 1 \in 1 .. m - 1 /\ (k - 1) + 1 = k
        BY <1>6, <3>1
      <4> QED
        BY <1>7, <3>1, <4>1
    <3>2. ASSUME visits[1] = j
          PROVE  gone[r] \/ \E k \in DOMAIN frames'[r] : frames'[r][k] = sending[a]
      <4>1. r = q
        BY <1>9, <1>10, <3>2
      <4>2. ~gone[q] => /\ Len(frames[q]) + 1 \in DOMAIN frames'[q]
                        /\ frames'[q][Len(frames[q]) + 1] = sending[a]
        BY <1>12, <1>17, <2>4
      <4> QED
        BY <4>1, <4>2
    <3> QED
      BY <1>2, <1>7, <1>15, <2>1, <2>2, <2>4, <3>1, <3>2
  <2> QED
    BY <2>3, <2>4
<1>29. PongsSoFar'
  <2> SUFFICES ASSUME NEW r \in Peers
               PROVE  Cardinality(PongsOf(r)') + (IF PongToCome(r)' THEN 1 ELSE 0) <= received[r]
    BY <1>1 DEF PongsSoFar
  <2>1. /\ Cardinality(PongsOf(r)) \in Nat /\ received[r] \in Nat
        /\ Cardinality(PongsOf(r)) + (IF PongToCome(r) THEN 1 ELSE 0) <= received[r]
    BY PongsCounted DEF ChatTypes, PongsSoFar
  <2>2. PongToCome(r)' => PongToCome(r)
    BY <1>1, <1>2, <1>4, <1>15 DEF PongToCome
  <2>3. CASE PongsOf(r)' = PongsOf(r)
    BY <2>1, <2>2, <2>3
  <2>4. CASE ~gone[q] /\ r = q /\ frame = Channel!Pong
    <3>1. Cardinality(PongsOf(q)') = Cardinality(PongsOf(q)) + 1
      BY <1>13, <1>14, <2>4, ChatPutPongs
    <3>2. q = p
      <4>1. i = index[p] /\ slab[index[p]] = {p}
        BY <1>1, <1>9, <1>22, <2>4 DEF SlabIsMembers, Members
      <4> QED
        BY <1>10, <4>1
    <3>3. PongToCome(p) /\ ~PongToCome(p)'
      BY <1>1, <1>12, <1>15, <1>23, <2>4 DEF PongToCome
    <3> QED
      BY <2>1, <2>4, <3>1, <3>2, <3>3
  <2>5. CASE gone[q]
    BY <1>13, <2>3, <2>5 DEF PongsOf
  <2> QED
    BY <1>13, <1>14, <2>3, <2>4, <2>5, ChatPutPongs
<1>30. ClosesEnd'
  <2> SUFFICES ASSUME NEW r \in Peers, NEW k \in DOMAIN frames'[r], frames'[r][k] = Channel!Close
               PROVE  where[r] = "ended" /\ k = Len(frames'[r])
    BY <1>1 DEF ClosesEnd
  <2>1. CASE gone[q] \/ r # q
    BY <1>13, <1>17, <2>1 DEF ClosesEnd
  <2>2. CASE ~gone[q] /\ r = q
    <3>1. where[q] # "ended"
      BY <1>16 DEF Members
    <3>2. k # Len(frames[q]) + 1
      BY <1>14, <1>17, <2>2
    <3>3. k \in 1 .. Len(frames[q]) /\ frames[q][k] = Channel!Close
      BY <1>17, <2>2, <3>2
    <3> QED
      BY <1>17, <2>2, <3>1, <3>3 DEF ClosesEnd
  <2> QED
    BY <2>1, <2>2
<1>31. Channel!SenderOrder'
  <2> SUFFICES ASSUME NEW r \in Peers, NEW a \in Peers, NEW j \in DOMAIN frames'[r],
                      NEW k \in DOMAIN frames'[r], j < k,
                      Channel!IsText(frames'[r][j], a), Channel!IsText(frames'[r][k], a)
               PROVE  frames'[r][j].nth < frames'[r][k].nth
    BY DEF Channel!SenderOrder, Channel!IsText
  <2>1. CASE gone[q] \/ r # q
    BY <1>13, <1>17, <2>1 DEF Channel!SenderOrder
  <2>2. CASE ~gone[q] /\ r = q
    <3>1. j \in 1 .. Len(frames[q])
      BY <1>17, <2>2
    <3>2. frames'[r][j] = frames[q][j] /\ Channel!IsText(frames[q][j], a) /\ j \in DOMAIN frames[q]
      BY <1>17, <2>2, <3>1
    <3>3. CASE k = Len(frames[q]) + 1
      <4>1. frames'[r][k] = frame /\ frame # Channel!Pong
        BY <1>14, <1>17, <2>2, <3>3
      <4>2. a = p /\ frames'[r][k].nth = received[p]
        BY <1>14, <4>1
      <4>3. frames[q][j].nth < received[p]
        BY <1>26, <3>2, <4>1, <4>2 DEF TextsSoFar
      <4> QED
        BY <3>2, <4>2, <4>3
    <3>4. CASE k \in 1 .. Len(frames[q])
      BY <1>17, <2>2, <3>2, <3>4 DEF Channel!SenderOrder
    <3> QED
      BY <1>17, <2>2, <3>3, <3>4
  <2> QED
    BY <2>1, <2>2
<1> QED
  BY <1>18, <1>19, <1>20, <1>24, <1>27, <1>28, <1>29, <1>30, <1>31

(* A task ends, with a close frame when it met an error.                   *)
LEMMA ChatCloses ==
  ASSUME ChatInv, NEW p \in Peers, Channel!SendClose(p)
  PROVE  ChatInv'
<1> USE DEF ChatInv
<1>1. /\ UNCHANGED <<slab, index, lock, todo, gone, received>>
      /\ where[p] = "closing" /\ where' = [where EXCEPT ![p] = "ended"]
      /\ sending' = [sending EXCEPT ![p] = Channel!NoFrame]
      /\ UNCHANGED frames \/ frames' = [frames EXCEPT ![p] = Append(@, Channel!Close)]
  BY DEF Channel!SendClose, Channel!Put
<1>2. /\ where \in [Peers -> ChatPlaces] /\ where'[p] = "ended"
      /\ sending \in [Peers -> ChatFrames] /\ sending'[p] = Channel!NoFrame
      /\ \A q \in Peers : q # p => where'[q] = where[q] /\ sending'[q] = sending[q]
  BY <1>1 DEF ChatTypes
<1>3. /\ Channel!Close \in ChatFrames /\ Channel!Close # Channel!Pong
      /\ \A a \in Peers : ~Channel!IsText(Channel!Close, a)
  <2>1. Channel!Pong.kind = "pong" /\ Channel!Close.kind = "close"
    BY DEF Channel!Pong, Channel!Close
  <2> QED
    BY <2>1 DEF ChatFrames, Channel!IsText
<1>4. frames' # frames =>
          /\ frames' \in [Peers -> Seq(ChatFrames)]
          /\ \A r \in Peers : r # p => frames'[r] = frames[r]
          /\ Len(frames[p]) \in Nat /\ DOMAIN frames[p] = 1 .. Len(frames[p])
          /\ DOMAIN frames'[p] = 1 .. Len(frames[p]) + 1 /\ Len(frames'[p]) = Len(frames[p]) + 1
          /\ frames'[p][Len(frames[p]) + 1] = Channel!Close
          /\ \A k \in 1 .. Len(frames[p]) : frames'[p][k] = frames[p][k]
          /\ \A k \in 1 .. Len(frames[p]) + 1 : k \in 1 .. Len(frames[p]) \/ k = Len(frames[p]) + 1
  BY <1>1, <1>3, ChatPut
<1>5. ChatTypes'
  <2>1. where' \in [Peers -> ChatPlaces] /\ sending' \in [Peers -> ChatFrames]
    BY <1>1, <1>2 DEF ChatPlaces, ChatFrames
  <2>2. frames' \in [Peers -> Seq(ChatFrames)]
    BY <1>1, <1>4 DEF ChatTypes
  <2> QED
    BY <1>1, <2>1, <2>2 DEF ChatTypes
<1>6. SendersHold'
  BY <1>1, <1>2 DEF SendersHold, Channel!Holds
<1>7. LockModes'
  <2> SUFFICES ASSUME NEW i \in DOMAIN lock
               PROVE  \/ lock[i].mode = "write" /\ where'[lock[i].who] \in {"registering", "deregistering"}
                      \/ lock[i].mode = "read"
                         /\ where'[lock[i].who] \in {"broadcasting", "ponging", "sending"}
    BY <1>1 DEF LockModes
  <2>1. lock[i] \in Entries
    BY DEF ChatTypes
  <2>2. lock[i].who \in Peers
    BY <2>1 DEF Entries
  <2> QED
    BY <1>1, <1>2, <2>2 DEF LockModes
<1>8. SlabIsMembers'
  BY <1>1, <1>2, ZenonT(40) DEF SlabIsMembers, Members
<1>9. Sendings'
  <2> SUFFICES ASSUME NEW q \in Peers PROVE SendingOf(q)'
    BY DEF Sendings
  <2>1. SendingOf(q)
    BY DEF Sendings
  <2> QED
    BY <1>1, <1>2, <2>1 DEF SendingOf
<1>10. Visiting'
  BY <1>1, <1>2 DEF Visiting
<1>11. \A a, q \in Peers : ToCome(a, q)' <=> ToCome(a, q)
  BY <1>1, <1>2 DEF ToCome
<1>12. ASSUME NEW r \in Peers, NEW k \in DOMAIN frames'[r]
       PROVE  \/ k \in DOMAIN frames[r] /\ frames'[r][k] = frames[r][k]
              \/ r = p /\ k = Len(frames'[r]) /\ frames'[r][k] = Channel!Close
  BY <1>4, <1>12
<1>13. TextsSoFar'
  <2> SUFFICES ASSUME NEW a \in Peers, NEW r \in Peers, NEW k \in DOMAIN frames'[r],
                      Channel!IsText(frames'[r][k], a)
               PROVE  /\ frames'[r][k].nth <= received[a]
                      /\ ToCome(a, r)' => frames'[r][k].nth < received[a]
    BY <1>1 DEF TextsSoFar, Channel!IsText
  <2>1. k \in DOMAIN frames[r] /\ frames'[r][k] = frames[r][k]
    BY <1>3, <1>12
  <2> QED
    BY <1>11, <2>1 DEF TextsSoFar
<1>14. ReachedSoFar'
  <2> SUFFICES ASSUME NEW a \in Peers, where'[a] = "sending", sending'[a] # Channel!Pong,
                      NEW j \in Indexes, NEW r \in Peers, slab[j] = {r}
               PROVE  \/ \E k \in DOMAIN todo[a] : todo[a][k] = j
                      \/ gone[r] \/ \E k \in DOMAIN frames'[r] : frames'[r][k] = sending'[a]
    BY <1>1 DEF ReachedSoFar
  <2>1. a # p /\ where[a] = "sending" /\ sending'[a] = sending[a]
    BY <1>2
  <2>2. r # p
    BY <1>1 DEF SlabIsMembers, Members
  <2>3. frames'[r] = frames[r]
    BY <1>4, <2>2
  <2> QED
    BY <2>1, <2>3 DEF ReachedSoFar
<1>15. PongsSoFar'
  <2>1. \A q \in Peers : PongToCome(q)' <=> PongToCome(q)
    BY <1>1, <1>2 DEF PongToCome
  <2>2. \A q \in Peers : PongsOf(q)' = PongsOf(q)
    <3>1. CASE UNCHANGED frames
      BY <3>1 DEF PongsOf
    <3>2. CASE frames' = [frames EXCEPT ![p] = Append(@, Channel!Close)]
      BY <1>3, <3>2, ChatPutPongs
    <3> QED
      BY <1>1, <3>1, <3>2
  <2> QED
    BY <1>1, <2>1, <2>2 DEF PongsSoFar
<1>16. ClosesEnd'
  <2> SUFFICES ASSUME NEW r \in Peers, NEW k \in DOMAIN frames'[r], frames'[r][k] = Channel!Close
               PROVE  where'[r] = "ended" /\ k = Len(frames'[r])
    BY DEF ClosesEnd
  <2>1. CASE r # p
    BY <1>2, <1>4, <2>1 DEF ClosesEnd
  <2>2. CASE r = p
    BY <1>1, <1>2, <1>12, <2>2 DEF ClosesEnd
  <2> QED
    BY <2>1, <2>2
<1>17. Channel!SenderOrder'
  <2> SUFFICES ASSUME NEW r \in Peers, NEW a \in Peers, NEW j \in DOMAIN frames'[r],
                      NEW k \in DOMAIN frames'[r], j < k,
                      Channel!IsText(frames'[r][j], a), Channel!IsText(frames'[r][k], a)
               PROVE  frames'[r][j].nth < frames'[r][k].nth
    BY DEF Channel!SenderOrder, Channel!IsText
  <2>1. /\ j \in DOMAIN frames[r] /\ frames'[r][j] = frames[r][j]
        /\ k \in DOMAIN frames[r] /\ frames'[r][k] = frames[r][k]
    BY <1>3, <1>12
  <2> QED
    BY <2>1 DEF Channel!SenderOrder
<1> QED
  BY <1>5, <1>6, <1>7, <1>8, <1>9, <1>10, <1>13, <1>14, <1>15, <1>16, <1>17

(* Every step keeps what the tasks have said and whom they have reached.   *)
LEMMA ChatSteps ==
  ASSUME Channel!ChatAssumption, ChatInv, [Channel!Next]_(Channel!vars)
  PROVE  ChatInv'
<1>1. ASSUME NEW p \in Peers, \/ Channel!AskRegister(p) \/ Channel!AskDeregister(p)
                              \/ Channel!AskBroadcast(p) \/ Channel!AskPong(p)
      PROVE  ChatInv'
  BY <1>1, ChatAsks
<1>2. ASSUME NEW p \in Peers, Channel!Register(p) \/ Channel!Deregister(p)
      PROVE  ChatInv'
  BY <1>2, ChatWrites
<1>3. ASSUME NEW p \in Peers, Channel!StartBroadcast(p) \/ Channel!StartPong(p)
      PROVE  ChatInv'
  BY <1>3, ChatStarts
<1>4. ASSUME NEW p \in Peers, Channel!Send(p) PROVE ChatInv'
  BY <1>4, ChatSends
<1>5. ASSUME NEW p \in Peers, Channel!Sent(p) PROVE ChatInv'
  BY <1>5, ChatSent
<1>6. ASSUME NEW p \in Peers, Channel!SendClose(p) PROVE ChatInv'
  BY <1>6, ChatCloses
<1>7. CASE /\ UNCHANGED <<where, slab, index, lock, todo, sending, frames, received>>
           /\ gone' \in [Peers -> BOOLEAN] /\ \A q \in Peers : gone[q] => gone'[q]
  <2> USE DEF ChatInv
  <2>1. ChatTypes' /\ SendersHold' /\ LockModes' /\ SlabIsMembers'
    BY <1>7 DEF ChatTypes, SendersHold, LockModes, SlabIsMembers, Channel!Holds
  <2>2. Sendings' /\ Visiting' /\ ClosesEnd'
    BY <1>7 DEF Sendings, SendingOf, Visiting, ClosesEnd
  <2>3. \A a, q \in Peers : ToCome(a, q)' <=> ToCome(a, q)
    BY <1>7 DEF ToCome
  <2>4. TextsSoFar'
    BY <1>7, <2>3 DEF TextsSoFar, Channel!IsText
  <2>5. ReachedSoFar'
    BY <1>7 DEF ReachedSoFar
  <2>6. PongsSoFar' /\ Channel!SenderOrder'
    BY <1>7, ChatFramesKept DEF PongsSoFar, PongToCome
  <2> QED
    BY <2>1, <2>2, <2>4, <2>5, <2>6
<1>8. ASSUME NEW p \in Peers, Channel!AskSender(p) \/ Channel!Take(p) \/ Channel!Leave(p)
      PROVE  /\ UNCHANGED <<where, slab, index, lock, todo, sending, frames, received>>
             /\ gone' \in [Peers -> BOOLEAN] /\ \A q \in Peers : gone[q] => gone'[q]
  BY <1>8 DEF Channel!AskSender, Channel!Take, Channel!Leave, ChatInv, ChatTypes
<1>9. CASE UNCHANGED Channel!vars
  BY <1>7, <1>9 DEF Channel!vars, ChatInv, ChatTypes
<1> QED
  BY <1>1, <1>2, <1>3, <1>4, <1>5, <1>6, <1>7, <1>8, <1>9 DEF Channel!Next, Channel!Task

(* For any number of clients, messages and sockets of any capacity: each   *)
(* client gets the texts of another one in the order in which they were    *)
(* said and none of them twice, a broadcast that is over has reached       *)
(* everybody in the channel who is there, no client gets more pongs than   *)
(* it has sent pings, and nothing follows a close frame.                   *)
THEOREM ChatSaysInOrder == Spec => []SaidInOrder
<1> DEFINE Inv == part = "chat" => ChatInv
<1>1. Init => Inv
  <2> SUFFICES ASSUME Channel!Init PROVE ChatInv
    BY DEF Init
  <2>1. /\ where = [p \in Peers |-> "start"] /\ index = [p \in Peers |-> 0] /\ lock = <<>>
        /\ slab = [i \in Indexes |-> {}] /\ todo = [p \in Peers |-> <<>>]
        /\ sending = [p \in Peers |-> Channel!NoFrame] /\ frames = [p \in Peers |-> <<>>]
        /\ received = [p \in Peers |-> 0] /\ gone = [p \in Peers |-> FALSE]
    BY DEF Channel!Init, Indexes, Channel!Cardinality, Cardinality
  <2>2. ChatTypes
    BY <2>1 DEF ChatTypes, ChatPlaces, Senders, ChatFrames
  <2>3. SendersHold /\ LockModes /\ SlabIsMembers /\ Sendings /\ Visiting
    BY <2>1 DEF SendersHold, LockModes, SlabIsMembers, Sendings, SendingOf, Visiting, Members
  <2>4. TextsSoFar /\ ReachedSoFar /\ ClosesEnd /\ Channel!SenderOrder
    BY <2>1 DEF TextsSoFar, ReachedSoFar, ClosesEnd, Channel!SenderOrder
  <2>5. PongsSoFar
    <3>1. \A p \in Peers : PongsOf(p) = {}
      BY <2>1 DEF PongsOf
    <3>2. \A p \in Peers : ~PongToCome(p)
      BY <2>1 DEF PongToCome
    <3>3. Cardinality({}) = 0
      BY FS_EmptySet
    <3>4. \A p \in Peers : Cardinality(PongsOf(p)) = 0 /\ received[p] = 0
      BY <2>1, <3>1, <3>3
    <3> QED
      BY <3>2, <3>4 DEF PongsSoFar
  <2> QED
    BY <2>2, <2>3, <2>4, <2>5 DEF ChatInv
<1>2. Inv /\ [Next]_vars => Inv'
  BY PartsApart, ChatSteps, Assumptions
<1>3. Inv => SaidInOrder
  <2> SUFFICES ASSUME ChatInv PROVE Channel!SaidInOrder
    BY DEF SaidInOrder
  <2> USE DEF ChatInv
  <2>1. Channel!BroadcastReachesAll
    <3> SUFFICES ASSUME NEW p \in Peers, where[p] = "sending", todo[p] = <<>>,
                        sending[p].kind = "text", NEW i \in Channel!Live
                 PROVE  \/ gone[Channel!Owner(i)]
                        \/ Channel!Contains(frames[Channel!Owner(i)], sending[p])
      BY DEF Channel!BroadcastReachesAll
    <3>1. PICK q \in Peers : i \in Indexes /\ slab[i] = {q}
      <4>1. i \in Indexes /\ slab[i] # {} /\ slab[i] \in Senders
        BY DEF Channel!Live, ChatTypes
      <4> QED
        BY <4>1 DEF Senders
    <3>2. Channel!Owner(i) = q
      BY <3>1 DEF Channel!Owner
    <3>3. sending[p] # Channel!Pong
      BY DEF Channel!Pong
    <3>4. gone[q] \/ \E k \in DOMAIN frames[q] : frames[q][k] = sending[p]
      BY <3>1, <3>3 DEF ReachedSoFar
    <3>5. DOMAIN frames[q] = 1 .. Len(frames[q])
      BY DEF ChatTypes
    <3> QED
      BY <3>2, <3>4, <3>5 DEF Channel!Contains
  <2>2. Channel!OwnSender
    <3> SUFFICES ASSUME NEW p \in Peers
                 PROVE  /\ where[p] \in Members => slab[index[p]] = {p}
                        /\ Cardinality(PongsOf(p)) <= received[p]
      BY DEF Channel!OwnSender, Members, PongsOf, Channel!Cardinality, Cardinality
    <3>1. Cardinality(PongsOf(p)) \in Nat /\ received[p] \in Nat
      BY PongsCounted DEF ChatTypes
    <3> QED
      BY <3>1 DEF SlabIsMembers, PongsSoFar
  <2>3. Channel!CloseIsLast
    BY DEF ClosesEnd, Channel!CloseIsLast
  <2> QED
    BY <2>1, <2>2, <2>3 DEF Channel!SaidInOrder
<1> QED
  BY <1>1, <1>2, <1>3, PTL DEF Spec

=============================================================================
