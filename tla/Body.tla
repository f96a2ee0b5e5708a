-------------------------------- MODULE Body --------------------------------
(***************************************************************************)
(* roa_core::Body, the response body the handlers append to, and the       *)
(* StreamLogger that roa::logger wraps around it, polled by the connection.*)
(*                                                                         *)
(* A body is a chain of sources polled from left to right.  Body::Empty,   *)
(* Body::Once and a Stream of one source are chains of length 0, 1 and 1:  *)
(* the three arms of write_stream all append.  A StreamLogger takes the    *)
(* whole body it finds, so in the chain it is a source of no bytes behind  *)
(* everything it wraps: its end is the end of its inner stream, and every  *)
(* chunk of a source before it passes through it.                          *)
(***************************************************************************)
EXTENDS Naturals, Sequences

CONSTANTS
  Loggers,     \* logger middlewares of the application
  NoLogger,    \* the logger of a source that is none
  ChunkSizes,  \* chunk sizes the handlers give write_chunk
  MaxWritten,  \* bound: bytes a handler writes in one response
  MaxSources   \* bound: sources in one chain

ASSUME BodyAssumption == /\ NoLogger \notin Loggers
                         /\ ChunkSizes \subseteq Nat \ {0}
                         /\ MaxWritten \in Nat /\ MaxSources \in Nat

VARIABLES
  written,    \* bytes written so far: byte i is the i-th one written
  sources,    \* the chain, without the sources that ended
  consumer,   \* building, reading, finished, failed or dropped
  delivered,  \* the bytes the consumer got, in the order it got them
  task,       \* each logger's "<--" task: none, spawned or logged
  counted     \* the byte count each logger printed (or is to print)

vars == <<written, sources, consumer, delivered, task, counted>>

(* kind is the source's variant; a StreamLogger is "polling" or "logging", *)
(* and a Complete one has left the chain.  next..last are the bytes it has *)
(* yet to yield.                                                           *)
Source == [kind : {"once", "reader", "polling", "logging"}, next : Nat, last : Nat,
           chunk : ChunkSizes \cup {0}, logger : Loggers \cup {NoLogger}, counter : Nat]

TypeOK ==
  /\ written \in Nat
  /\ sources \in Seq(Source)
  /\ consumer \in {"building", "reading", "finished", "failed", "dropped"}
  /\ delivered \in Seq(Nat)
  /\ task \in [Loggers -> {"none", "spawned", "logged"}]
  /\ counted \in [Loggers -> Nat]

Init ==
  /\ written = 0 /\ sources = <<>> /\ delivered = <<>>
  /\ consumer = "building"
  /\ task = [l \in Loggers |-> "none"]
  /\ counted = [l \in Loggers |-> 0]

-----------------------------------------------------------------------------
(* Building the body.                                                      *)

NewSource(kind, n, chunk, l) ==
  [kind |-> kind, next |-> written + 1, last |-> written + n, chunk |-> chunk,
   logger |-> l, counter |-> 0]

(* Chain the new stream behind what the body already holds.                *)
Chained_NewFirst(s) == <<s>> \o sources
Chained_TakeOnly(s) == <<s>>
Chained(s) == Append(sources, s)

write_stream(s) ==
  /\ consumer = "building" /\ Len(sources) < MaxSources
  /\ sources' = Chained(s)
  /\ written' = s.last
  /\ UNCHANGED <<consumer, delivered, task, counted>>

write(n) == written + n <= MaxWritten /\ write_stream(NewSource("once", n, 0, NoLogger))

write_chunk(n, chunk) ==
  written + n <= MaxWritten /\ write_stream(NewSource("reader", n, chunk, NoLogger))

(* A logger whose inner result was Ok takes the body and writes itself as  *)
(* the new one; each logger of the application runs once per request.      *)
logger(l) ==
  /\ \A i \in DOMAIN sources : sources[i].logger # l
  /\ write_stream(NewSource("polling", 0, 0, l))

(* The response is handed to hyper.                                        *)
IntoHyper == /\ consumer = "building"
             /\ consumer' = "reading"
             /\ UNCHANGED <<written, sources, delivered, task, counted>>

-----------------------------------------------------------------------------
(* poll_next, by what the first source of the chain answers.               *)

(* A chunk passes through every StreamLogger still polling around it.      *)
Counting_OuterOnly(q, n) ==
  [i \in DOMAIN q |-> IF i = Len(q) /\ q[i].kind = "polling"
                      THEN [q[i] EXCEPT !.counter = @ + n] ELSE q[i]]

Counting(q, n) ==
  [i \in DOMAIN q |-> IF q[i].kind = "polling"
                      THEN [q[i] EXCEPT !.counter = @ + n] ELSE q[i]]

Advanced(n) == <<[Head(sources) EXCEPT !.next = @ + n]>> \o Tail(sources)

(* The consumer gets n bytes, and q is what is left of the chain.          *)
Yield(n, q) ==
  /\ delivered' = delivered \o [i \in 1..n |-> Head(sources).next + i - 1]
  /\ sources' = Counting(q, n)
  /\ UNCHANGED <<written, consumer, task, counted>>

Left(s) == s.last + 1 - s.next

(* Body::Once and stream::once yield all their bytes at once.              *)
PollOnce == /\ Head(sources).kind = "once"
            /\ Yield(Left(Head(sources)), Tail(sources))

(* ReaderStream reads at most chunk_size bytes; reads may be short.        *)
FilledMax_OffByOne(s) == IF Left(s) < s.chunk THEN Left(s) ELSE s.chunk - 1
FilledMax(s) == IF Left(s) < s.chunk THEN Left(s) ELSE s.chunk

PollReader == /\ Head(sources).kind = "reader"
              /\ \E n \in 1..FilledMax(Head(sources)) : Yield(n, Advanced(n))

(* A read of 0 bytes ends the source and the chain goes on with the next.  *)
AtEof_ShortRead(s) == Left(s) < s.chunk
AtEof(s) == Left(s) = 0

PollReaderEof == /\ Head(sources).kind = "reader" /\ AtEof(Head(sources))
                 /\ sources' = Tail(sources)
                 /\ UNCHANGED <<written, consumer, delivered, task, counted>>

(* The reader fails: the error passes through the loggers, which stay in   *)
(* Polling, and the connection stops at the first error.                   *)
PollReaderError == /\ Head(sources).kind = "reader"
                   /\ consumer' = "failed"
                   /\ UNCHANGED <<written, sources, delivered, task, counted>>

(* The wrapped stream ended: LogTask::log spawns the blocking task that    *)
(* prints the counter.                                                     *)
PollLoggerEnd ==
  /\ Head(sources).kind = "polling"
  /\ sources' = [sources EXCEPT ![1].kind = "logging"]
  /\ task' = [task EXCEPT ![Head(sources).logger] = "spawned"]
  /\ counted' = [counted EXCEPT ![Head(sources).logger] = Head(sources).counter]
  /\ UNCHANGED <<written, consumer, delivered>>

(* The JoinHandle is ready when the task has run; the logger is Complete.  *)
HandleReady_NotAwaited == TRUE
HandleReady == task[Head(sources).logger] = "logged"

PollLogged == /\ Head(sources).kind = "logging" /\ HandleReady
              /\ sources' = Tail(sources)
              /\ UNCHANGED <<written, consumer, delivered, task, counted>>

PollEnd == /\ sources = <<>>
           /\ consumer' = "finished"
           /\ UNCHANGED <<written, sources, delivered, task, counted>>

poll_next ==
  /\ consumer = "reading"
  /\ \/ PollEnd
     \/ /\ sources # <<>>
        /\ \/ PollOnce \/ PollReader \/ PollReaderEof
           \/ PollLoggerEnd \/ PollLogged

(* A spawned blocking task runs whether or not its handle still exists.    *)
RunLogTask(l) == /\ task[l] = "spawned"
                 /\ task' = [task EXCEPT ![l] = "logged"]
                 /\ UNCHANGED <<written, sources, consumer, delivered, counted>>

(* hyper drops the body: the client went away, or the response has no body *)
(* (HEAD, 204, 304).                                                       *)
DropBody == /\ consumer \in {"building", "reading"}
            /\ consumer' = "dropped"
            /\ UNCHANGED <<written, sources, delivered, task, counted>>

PollError == consumer = "reading" /\ sources # <<>> /\ PollReaderError

Next ==
  \/ \E n \in 0..MaxWritten : write(n) \/ \E chunk \in ChunkSizes : write_chunk(n, chunk)
  \/ IntoHyper \/ poll_next \/ PollError \/ DropBody
  \/ \E l \in Loggers : logger(l) \/ RunLogTask(l)

Spec == Init /\ [][Next]_vars

(* The connection polls a body it holds, readers that do not fail make     *)
(* progress and the runtime runs blocking tasks.                           *)
FairSpec == /\ Spec /\ WF_vars(poll_next)
            /\ \A l \in Loggers : WF_vars(RunLogTask(l))

-----------------------------------------------------------------------------
(* The client gets the written bytes from the first one on, in the order   *)
(* of the writes, none twice and none skipped, whatever mixture of Once,   *)
(* readers and nested loggers the body is.                                 *)
InOrder == delivered = [i \in 1..Len(delivered) |-> i]

(* The chain keeps what is not delivered yet: its sources hold adjacent    *)
(* ranges, from the next byte to deliver to the last one written.          *)
Contiguous ==
  /\ sources = <<>> => Len(delivered) = written
  /\ sources # <<>> => /\ Head(sources).next = Len(delivered) + 1
                       /\ sources[Len(sources)].last = written
  /\ \A i \in DOMAIN sources : sources[i].next <= sources[i].last + 1
  /\ \A i \in DOMAIN sources : i > 1 => sources[i].next = sources[i - 1].last + 1

(* A StreamLogger prints the number of bytes of the body it wrapped: when  *)
(* its task is spawned all of them, and only them, have been delivered,    *)
(* through however many loggers they passed.                               *)
LoggedCountExact ==
  [][\A l \in Loggers : task[l] = "none" /\ task'[l] # "none" =>
       /\ counted'[l] = Len(delivered)
       /\ Head(sources).logger = l /\ Head(sources).last = Len(delivered)]_vars

(* A logger holds back what follows it (an outer logger's line, the end of *)
(* the body) until its own line is printed.                                *)
LogsAwaited ==
  [][(consumer' # consumer /\ consumer' = "finished")
       \/ (\E l \in Loggers : task[l] = "none" /\ task'[l] = "spawned")
     => \A l \in Loggers : task[l] # "spawned"]_vars

(* A body that is not dropped and whose readers do not fail ends.          *)
(* A spawned "<--" line is printed even if the client drops the body while *)
(* the logger waits for it.                                                *)
BodyEnds ==
  /\ consumer = "reading" ~> consumer \in {"finished", "failed", "dropped"}
  /\ \A l \in Loggers : task[l] = "spawned" ~> task[l] = "logged"

(* The body, whatever its sources, is a byte queue.                        *)
Phase == CASE consumer = "building" -> "open"
           [] consumer = "reading" -> "streaming"
           [] consumer = "finished" -> "complete"
           [] OTHER -> "aborted"

Queue == INSTANCE ByteQueue WITH sent <- Len(delivered), phase <- Phase

ImplementsByteQueue == Queue!Spec

(* logger.rs: StreamLogger is there "to log success information in each    *)
(* successful response".                                                   *)
EverySuccessLogged ==
  \A l \in Loggers :
    (consumer = "reading" /\ \E i \in DOMAIN sources : sources[i].logger = l)
      ~> task[l] = "logged"
=============================================================================
