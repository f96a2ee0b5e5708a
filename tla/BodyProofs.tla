------------------------------ MODULE BodyProofs ------------------------------
(***************************************************************************)
(* A response body delivers what was written, in order, for any number of  *)
(* sources and loggers and any chunk sizes, and so implements a ByteQueue. *)
(*                                                                         *)
(* The inductive invariant says what a chain is: adjacent ranges of bytes  *)
(* that reach from the next byte to deliver to the last one written, in    *)
(* which the loggers hold none.                                            *)
(***************************************************************************)
EXTENDS Body, SequenceTheorems, TLAPS

(* The ranges of q are adjacent, from byte a to byte b.  That none reaches *)
(* beyond b follows by induction along q; stated, it needs no induction.   *)
Spans(q, a, b) ==
  /\ q = <<>> => a = b + 1
  /\ q # <<>> => q[1].next = a /\ q[Len(q)].last = b
  /\ \A i \in 1..Len(q) : q[i].next <= q[i].last + 1 /\ q[i].last <= b
  /\ \A i \in 1..Len(q) : i > 1 => q[i].next = q[i - 1].last + 1

(* Loggers wrap bytes and hold none, so one leaves no gap when it goes.    *)
LoggersEmpty(q) ==
  \A i \in 1..Len(q) : q[i].kind \in {"polling", "logging"} => q[i].next = q[i].last + 1

Chain == Spans(sources, Len(delivered) + 1, written) /\ LoggersEmpty(sources)

Inv == TypeOK /\ Chain /\ InOrder

-----------------------------------------------------------------------------
(* A source appended to a chain extends it by its own range.               *)
LEMMA SpansAppend ==
  ASSUME NEW q \in Seq(Source), NEW a \in Nat, NEW b \in Nat, NEW s \in Source,
         Spans(q, a, b), LoggersEmpty(q),
         s.next = b + 1, s.last >= b,
         s.kind \in {"polling", "logging"} => s.last = b
  PROVE  /\ Append(q, s) \in Seq(Source)
         /\ Spans(Append(q, s), a, s.last) /\ LoggersEmpty(Append(q, s))
<1> DEFINE p == Append(q, s)
<1>1. /\ p \in Seq(Source) /\ p # <<>> /\ Len(p) = Len(q) + 1
      /\ \A i \in 1..Len(q) : p[i] = q[i]
      /\ p[Len(q) + 1] = s
  BY AppendProperties
<1>2. Len(q) \in Nat /\ \A i \in 1..Len(q) : q[i] \in Source
  BY LenProperties, ElementOfSeq
<1>3. s.next \in Nat /\ s.last \in Nat
  BY DEF Source
<1> HIDE DEF p
<1>4. p[1].next = a
  <2>1. CASE q = <<>>
    BY <1>1, <2>1, EmptySeq DEF Spans
  <2>2. CASE q # <<>>
    <3>1. 1 \in 1..Len(q)
      BY <1>2, <2>2, EmptySeq
    <3> QED BY <1>1, <2>2, <3>1 DEF Spans
  <2> QED BY <2>1, <2>2
<1>5. \A i \in 1..Len(p) : p[i].next <= p[i].last + 1 /\ p[i].last <= s.last
  <2> SUFFICES ASSUME NEW i \in 1..Len(p)
               PROVE  p[i].next <= p[i].last + 1 /\ p[i].last <= s.last
    OBVIOUS
  <2>1. CASE i \in 1..Len(q)
    <3>1. p[i] = q[i] /\ q[i].last \in Nat
      BY <1>1, <1>2, <2>1 DEF Source
    <3> QED BY <1>3, <2>1, <3>1 DEF Spans
  <2>2. CASE i = Len(q) + 1
    BY <1>1, <1>3, <2>2
  <2> QED BY <1>1, <1>2, <2>1, <2>2
<1>6. \A i \in 1..Len(p) : i > 1 => p[i].next = p[i - 1].last + 1
  <2> SUFFICES ASSUME NEW i \in 1..Len(p), i > 1 PROVE p[i].next = p[i - 1].last + 1
    OBVIOUS
  <2>1. CASE i \in 1..Len(q)
    <3>1. i - 1 \in 1..Len(q) /\ p[i] = q[i] /\ p[i - 1] = q[i - 1]
      BY <1>1, <1>2, <2>1
    <3> QED BY <2>1, <3>1 DEF Spans
  <2>2. CASE i = Len(q) + 1
    <3>1. q # <<>> /\ i - 1 = Len(q) /\ Len(q) \in 1..Len(q)
      BY <1>2, <2>2, EmptySeq
    <3> QED BY <1>1, <2>2, <3>1 DEF Spans
  <2> QED BY <1>1, <1>2, <2>1, <2>2
<1>7. LoggersEmpty(p)
  BY <1>1, <1>2, <1>3 DEF LoggersEmpty
<1>8. Spans(p, a, s.last)
  BY <1>1, <1>4, <1>5, <1>6 DEF Spans
<1> QED BY <1>1, <1>7, <1>8 DEF p

(* Without its first source a chain starts behind that source's range.     *)
LEMMA SpansTail ==
  ASSUME NEW q \in Seq(Source), NEW a \in Nat, NEW b \in Nat, q # <<>>,
         Spans(q, a, b), LoggersEmpty(q)
  PROVE  /\ Tail(q) \in Seq(Source)
         /\ Spans(Tail(q), q[1].last + 1, b) /\ LoggersEmpty(Tail(q))
<1> DEFINE p == Tail(q)
<1>1. /\ p \in Seq(Source) /\ Len(p) = Len(q) - 1
      /\ \A i \in 1..Len(p) : p[i] = q[i + 1]
  BY HeadTailProperties
<1>2. Len(q) \in Nat \ {0} /\ Len(p) \in Nat /\ \A i \in 1..Len(q) : q[i] \in Source
  BY <1>1, LenProperties, ElementOfSeq, EmptySeq
<1>3. \A i \in 1..Len(p) : i + 1 \in 1..Len(q)
  BY <1>1, <1>2
<1> HIDE DEF p
<1>4. CASE p = <<>>
  <2>1. Len(q) = 1 /\ Len(p) = 0
    BY <1>1, <1>2, <1>4
  <2>2. q[1].last = b
    BY <2>1 DEF Spans
  <2>3. Spans(p, q[1].last + 1, b) /\ LoggersEmpty(p)
    BY <1>4, <2>1, <2>2 DEF Spans, LoggersEmpty
  <2> QED BY <1>1, <2>3 DEF p
<1>5. CASE p # <<>>
  <2>1. Len(p) \in 1..Len(p) /\ 1 \in 1..Len(p) /\ 2 \in 1..Len(q)
    BY <1>1, <1>2, <1>5, EmptySeq
  <2>2. p[1].next = q[1].last + 1
    BY <1>1, <2>1 DEF Spans
  <2>3. p[Len(p)].last = b
    BY <1>1, <1>2, <2>1 DEF Spans
  <2>4. \A i \in 1..Len(p) : p[i].next <= p[i].last + 1 /\ p[i].last <= b
    BY <1>1, <1>3 DEF Spans
  <2>5. \A i \in 1..Len(p) : i > 1 => p[i].next = p[i - 1].last + 1
    <3> SUFFICES ASSUME NEW i \in 1..Len(p), i > 1 PROVE p[i].next = p[i - 1].last + 1
      OBVIOUS
    <3>1. i - 1 \in 1..Len(p) /\ p[i] = q[i + 1] /\ p[i - 1] = q[i]
      BY <1>1, <1>2
    <3>2. q[i + 1].next = q[i].last + 1
      BY <1>3, <1>2 DEF Spans
    <3> QED BY <3>1, <3>2
  <2>6. LoggersEmpty(p)
    BY <1>1, <1>3 DEF LoggersEmpty
  <2> QED BY <1>1, <1>5, <2>2, <2>3, <2>4, <2>5, <2>6 DEF p, Spans
<1> QED BY <1>4, <1>5

(* A chain whose sources keep their ranges and never become loggers is a   *)
(* chain: counting bytes and changing a logger's state touch neither.      *)
LEMMA SpansKept ==
  ASSUME NEW q \in Seq(Source), NEW a \in Nat, NEW b \in Nat, NEW p \in Seq(Source),
         Len(p) = Len(q),
         \A i \in 1..Len(q) : p[i].next = q[i].next /\ p[i].last = q[i].last,
         \A i \in 1..Len(q) : p[i].kind \in {"polling", "logging"}
                                 => q[i].kind \in {"polling", "logging"},
         Spans(q, a, b), LoggersEmpty(q)
  PROVE  Spans(p, a, b) /\ LoggersEmpty(p)
<1>1. Len(q) \in Nat /\ (p = <<>> <=> Len(p) = 0) /\ (q = <<>> <=> Len(q) = 0)
  BY LenProperties, EmptySeq
<1>2. LoggersEmpty(p)
  BY DEF LoggersEmpty
<1>3. q # <<>> => p[1].next = a /\ p[Len(p)].last = b
  BY <1>1 DEF Spans
<1>4. \A i \in 1..Len(p) : i > 1 => p[i].next = p[i - 1].last + 1
  <2> SUFFICES ASSUME NEW i \in 1..Len(p), i > 1 PROVE p[i].next = p[i - 1].last + 1
    OBVIOUS
  <2>1. i - 1 \in 1..Len(q) /\ i \in 1..Len(q)
    BY <1>1
  <2> QED BY <2>1 DEF Spans
<1> QED BY <1>1, <1>2, <1>3, <1>4 DEF Spans
-----------------------------------------------------------------------------
(* Appending the next n bytes to the bytes delivered in order.             *)
LEMMA DeliverNext ==
  ASSUME NEW d \in Seq(Nat), NEW n \in Nat, d = [i \in 1..Len(d) |-> i]
  PROVE  LET e == d \o [i \in 1..n |-> Len(d) + 1 + i - 1]
         IN  /\ e \in Seq(Nat) /\ Len(e) = Len(d) + n
             /\ e = [i \in 1..Len(e) |-> i]
<1> DEFINE c == [i \in 1..n |-> Len(d) + 1 + i - 1]
           e == d \o c
<1>1. Len(d) \in Nat /\ DOMAIN d = 1..Len(d)
  BY LenProperties
<1>2. c \in [1..n -> Nat]
  BY <1>1
<1>3. c \in Seq(Nat)
  BY <1>2, SeqDef
<1>4. Len(c) = n /\ \A i \in 1..n : c[i] = Len(d) + i
  BY <1>1, <1>3
<1> HIDE DEF c
<1>5. /\ e \in Seq(Nat) /\ Len(e) = Len(d) + n
      /\ \A i \in 1..Len(d) + n : e[i] = IF i <= Len(d) THEN d[i] ELSE c[i - Len(d)]
  BY <1>3, <1>4, ConcatProperties
<1>6. \A i \in 1..Len(e) : e[i] = i
  <2> SUFFICES ASSUME NEW i \in 1..Len(e) PROVE e[i] = i
    OBVIOUS
  <2>1. CASE i <= Len(d)
    BY <1>1, <1>5, <2>1
  <2>2. CASE i > Len(d)
    <3>1. i - Len(d) \in 1..n
      BY <1>1, <1>5, <2>2
    <3> QED BY <1>1, <1>4, <1>5, <2>2, <3>1
  <2> QED BY <1>1, <1>5, <2>1, <2>2
<1> HIDE DEF e
<1>7. e = [i \in 1..Len(e) |-> i]
  BY <1>5, <1>6, LenProperties
<1> QED BY <1>5, <1>7 DEF e, c

(* Updating one field of a source leaves the others as they were.          *)
LEMMA FieldUpdates ==
  ASSUME NEW s \in Source, NEW n \in Nat
  PROVE  /\ [s EXCEPT !.counter = s.counter + n] \in Source
         /\ [s EXCEPT !.next = s.next + n] \in Source
         /\ [s EXCEPT !.kind = "logging"] \in Source
  BY DEF Source

(* Counting changes the counters of polling loggers and nothing else.      *)
LEMMA CountingKeeps ==
  ASSUME NEW q \in Seq(Source), NEW n \in Nat, NEW a \in Nat, NEW b \in Nat,
         Spans(q, a, b), LoggersEmpty(q)
  PROVE  /\ Counting(q, n) \in Seq(Source)
         /\ Spans(Counting(q, n), a, b) /\ LoggersEmpty(Counting(q, n))
<1>1. DOMAIN q = 1..Len(q) /\ Len(q) \in Nat /\ \A i \in 1..Len(q) : q[i] \in Source
  BY LenProperties, ElementOfSeq
<1>2. \A i \in 1..Len(q) : [q[i] EXCEPT !.counter = @ + n] \in Source
  BY <1>1, FieldUpdates
<1>3. Counting(q, n) \in [1..Len(q) -> Source]
  BY <1>1, <1>2 DEF Counting
<1>4. Counting(q, n) \in Seq(Source) /\ Len(Counting(q, n)) = Len(q)
  BY <1>1, <1>3, SeqDef
<1>5. \A i \in 1..Len(q) : /\ Counting(q, n)[i].next = q[i].next
                           /\ Counting(q, n)[i].last = q[i].last
                           /\ Counting(q, n)[i].kind = q[i].kind
  BY <1>1 DEF Counting, Source
<1> QED BY <1>4, <1>5, SpansKept

(* A chain that is not empty has one source or more.                       *)
LEMMA OneOrMore ==
  ASSUME NEW q \in Seq(Source), q # <<>>
  PROVE  Len(q) = 1 \/ Len(q) > 1
<1>1. \A n \in Nat : n # 0 => n = 1 \/ n > 1
  OBVIOUS
<1>2. Len(q) \in Nat /\ Len(q) # 0
  BY LenProperties, EmptySeq
<1> QED BY <1>1, <1>2

(* Taking n bytes off the first source of a chain moves its start.         *)
LEMMA SpansAdvance ==
  ASSUME NEW n \in Nat, NEW a \in Nat, NEW b \in Nat,
         sources \in Seq(Source), sources # <<>>, Head(sources).kind = "reader",
         n <= Left(Head(sources)), Spans(sources, a, b), LoggersEmpty(sources)
  PROVE  /\ Advanced(n) \in Seq(Source)
         /\ Spans(Advanced(n), a + n, b) /\ LoggersEmpty(Advanced(n))
<1>0. Len(sources) = 1 \/ Len(sources) > 1
  BY OneOrMore
<1> DEFINE h == Head(sources)
           s == [h EXCEPT !.next = @ + n]
           p == Advanced(n)
<1>1. /\ Len(sources) \in Nat \ {0}
      /\ h \in Source /\ h = sources[1]
      /\ \A i \in 1..Len(sources) : sources[i] \in Source
  BY LenProperties, ElementOfSeq, EmptySeq, HeadTailProperties
<1>2. s \in Source /\ s.next = h.next + n /\ s.last = h.last /\ s.kind = h.kind
  <2>1. s \in Source
    BY <1>1, FieldUpdates
  <2>2. s.next = h.next + n /\ s.last = h.last /\ s.kind = h.kind
    BY <1>1 DEF Source
  <2> QED BY <2>1, <2>2
<1>3. /\ p \in Seq(Source) /\ Len(p) = Len(sources)
      /\ p[1] = s
      /\ \A i \in 2..Len(sources) : p[i] = sources[i]
  <2> HIDE DEF s
  <2>1. <<s>> \in Seq(Source) /\ Len(<<s>>) = 1 /\ <<s>>[1] = s
    BY <1>2
  <2>2. /\ Tail(sources) \in Seq(Source) /\ Len(Tail(sources)) = Len(sources) - 1
        /\ \A i \in 1..Len(Tail(sources)) : Tail(sources)[i] = sources[i + 1]
    BY HeadTailProperties
  <2>3. p = <<s>> \o Tail(sources)
    BY DEF Advanced, s
  <2> HIDE DEF p
  <2> QED BY <1>1, <2>1, <2>2, <2>3, ConcatProperties
<1>4. h.next \in Nat /\ h.last \in Nat /\ n <= h.last + 1 - h.next
  BY <1>1 DEF Left, Source
<1> HIDE DEF p, s
<1>5. p # <<>> /\ 1 \in 1..Len(sources) /\ a = h.next
  BY <1>1, <1>3, EmptySeq DEF Spans
<1>6. p[1].next = a + n /\ p[Len(p)].last = b
  <2>1. CASE Len(sources) = 1
    BY <1>1, <1>2, <1>3, <1>5, <2>1 DEF Spans
  <2>2. CASE Len(sources) > 1
    BY <1>1, <1>2, <1>3, <1>5, <2>2 DEF Spans
  <2> QED BY <1>0, <2>1, <2>2
<1>7. \A i \in 1..Len(p) : p[i].next <= p[i].last + 1 /\ p[i].last <= b
  <2> SUFFICES ASSUME NEW i \in 1..Len(p)
               PROVE  p[i].next <= p[i].last + 1 /\ p[i].last <= b
    OBVIOUS
  <2>1. CASE i = 1
    BY <1>1, <1>2, <1>3, <1>4, <1>5, <2>1 DEF Spans
  <2>2. CASE i # 1
    BY <1>1, <1>3, <2>2 DEF Spans
  <2> QED BY <2>1, <2>2
<1>8. \A i \in 1..Len(p) : i > 1 => p[i].next = p[i - 1].last + 1
  <2> SUFFICES ASSUME NEW i \in 1..Len(p), i > 1 PROVE p[i].next = p[i - 1].last + 1
    OBVIOUS
  <2>1. p[i] = sources[i] /\ p[i - 1].last = sources[i - 1].last
    BY <1>1, <1>2, <1>3
  <2> QED BY <1>3, <2>1 DEF Spans
<1>9. LoggersEmpty(p)
  <2> SUFFICES ASSUME NEW i \in 1..Len(p), p[i].kind \in {"polling", "logging"}
               PROVE  p[i].next = p[i].last + 1
    BY DEF LoggersEmpty
  <2>1. i # 1
    BY <1>2, <1>3
  <2> QED BY <1>3, <2>1 DEF LoggersEmpty
<1> QED BY <1>3, <1>5, <1>6, <1>7, <1>8, <1>9 DEF p, Spans
-----------------------------------------------------------------------------
(* The first source starts with the next byte to deliver.                  *)
LEMMA FirstSource ==
  ASSUME Inv, sources # <<>>
  PROVE  LET h == Head(sources)
         IN  /\ h = sources[1] /\ h \in Source /\ 1 \in 1..Len(sources)
             /\ h.next = Len(delivered) + 1 /\ Left(h) \in Nat
             /\ h.last = Len(delivered) + Left(h) /\ h.last <= written
<1>1. sources \in Seq(Source) /\ delivered \in Seq(Nat) /\ written \in Nat
  BY DEF Inv, TypeOK
<1>2. Head(sources) = sources[1] /\ Head(sources) \in Source /\ 1 \in 1..Len(sources)
  <2>1. Len(sources) \in Nat /\ Len(sources) # 0
    BY <1>1, LenProperties, EmptySeq
  <2>2. 1 \in 1..Len(sources)
    BY <1>1, <2>1
  <2> QED BY <1>1, <2>2, ElementOfSeq
<1> DEFINE h == Head(sources)
<1>3. h.next \in Nat /\ h.last \in Nat /\ Len(delivered) \in Nat
  BY <1>1, <1>2, LenProperties DEF Source
<1>4. h.next = Len(delivered) + 1 /\ h.next <= h.last + 1 /\ h.last <= written
  BY <1>2 DEF Inv, Chain, Spans
<1> HIDE DEF h
<1>5. Left(h) \in Nat /\ h.last = Len(delivered) + Left(h)
  BY <1>3, <1>4 DEF Left
<1> QED BY <1>2, <1>4, <1>5 DEF h

(* A new source continues the chain with the bytes just written.           *)
LEMMA WriteStep ==
  ASSUME Inv, NEW s \in Source, write_stream(s), s.next = written + 1, s.last >= written,
         s.kind \in {"polling", "logging"} => s.last = written
  PROVE  Inv'
<1>1. /\ sources' = Append(sources, s) /\ written' = s.last
      /\ UNCHANGED <<consumer, delivered, task, counted>>
  BY DEF write_stream, Chained
<1>2. /\ sources \in Seq(Source) /\ written \in Nat /\ Len(delivered) + 1 \in Nat
      /\ s.last \in Nat
  BY LenProperties DEF Inv, TypeOK, Source
<1>3. /\ Append(sources, s) \in Seq(Source)
      /\ Spans(Append(sources, s), Len(delivered) + 1, s.last)
      /\ LoggersEmpty(Append(sources, s))
  BY <1>2, SpansAppend DEF Inv, Chain
<1>4. TypeOK'
  BY <1>1, <1>2, <1>3 DEF Inv, TypeOK
<1>5. Chain' /\ InOrder'
  BY <1>1, <1>3 DEF Inv, Chain, InOrder
<1> QED BY <1>4, <1>5 DEF Inv

(* The consumer gets the next n bytes from a chain that then starts behind *)
(* them.                                                                   *)
LEMMA YieldStep ==
  ASSUME Inv, sources # <<>>, NEW n \in Nat, NEW q \in Seq(Source), Yield(n, q),
         Spans(q, Len(delivered) + 1 + n, written), LoggersEmpty(q)
  PROVE  Inv' /\ Len(delivered') = Len(delivered) + n
<1>1. /\ delivered' = delivered \o [i \in 1..n |-> Len(delivered) + 1 + i - 1]
      /\ sources' = Counting(q, n)
      /\ UNCHANGED <<written, consumer, task, counted>>
  BY FirstSource DEF Yield
<1>2. delivered \in Seq(Nat) /\ Len(delivered) \in Nat /\ written \in Nat
  BY LenProperties DEF Inv, TypeOK
<1>3. /\ delivered' \in Seq(Nat) /\ Len(delivered') = Len(delivered) + n
      /\ delivered' = [i \in 1..Len(delivered') |-> i]
  BY <1>1, <1>2, DeliverNext DEF Inv, InOrder
<1>4. /\ Len(delivered) + 1 + n \in Nat
      /\ Len(delivered) + 1 + n = Len(delivered') + 1
  BY <1>2, <1>3
<1>5. /\ sources' \in Seq(Source)
      /\ Spans(sources', Len(delivered') + 1, written) /\ LoggersEmpty(sources')
  BY <1>1, <1>2, <1>4, CountingKeeps
<1>6. TypeOK'
  BY <1>1, <1>3, <1>5 DEF Inv, TypeOK
<1>7. Chain' /\ InOrder'
  BY <1>1, <1>3, <1>5 DEF Chain, InOrder
<1> QED BY <1>3, <1>6, <1>7 DEF Inv

(* A source that has no byte left leaves no gap behind.                    *)
LEMMA EndedStep ==
  ASSUME Inv, sources # <<>>, Left(Head(sources)) = 0, sources' = Tail(sources),
         UNCHANGED <<written, consumer, delivered, task, counted>>
  PROVE  Inv'
<1>1. /\ sources \in Seq(Source) /\ written \in Nat
      /\ Len(delivered) \in Nat /\ Len(delivered) + 1 \in Nat
  BY LenProperties DEF Inv, TypeOK
<1>2. sources[1].last + 1 = Len(delivered) + 1
  BY <1>1, FirstSource
<1>3. /\ sources' \in Seq(Source)
      /\ Spans(sources', Len(delivered) + 1, written) /\ LoggersEmpty(sources')
  BY <1>1, <1>2, SpansTail DEF Inv, Chain
<1>4. TypeOK'
  BY <1>3 DEF Inv, TypeOK
<1>5. Chain' /\ InOrder'
  BY <1>3 DEF Inv, Chain, InOrder
<1> QED BY <1>4, <1>5 DEF Inv

(* A logger at the head of the chain has no byte left.                     *)
LEMMA LoggerAtHead ==
  ASSUME Inv, sources # <<>>, Head(sources).kind \in {"polling", "logging"}
  PROVE  Left(Head(sources)) = 0
<1>1. Head(sources).next = Head(sources).last + 1
  BY FirstSource DEF Inv, Chain, LoggersEmpty
<1>2. Head(sources).last \in Nat
  BY FirstSource DEF Source
<1> QED BY <1>1, <1>2 DEF Left
-----------------------------------------------------------------------------
(* What each action does to the chain, the bytes written and the bytes     *)
(* delivered: all the refinement needs to know of it.                      *)

(* A write keeps the invariant and adds its bytes to what was written.     *)
LEMMA WriteKeeps ==
  ASSUME Inv, NEW n \in 0..MaxWritten, write(n) \/ \E c \in ChunkSizes : write_chunk(n, c)
  PROVE  Inv' /\ written' = written + n
<1>1. n \in Nat /\ written \in Nat
  BY BodyAssumption DEF Inv, TypeOK
<1>2. ASSUME NEW k \in {"once", "reader"}, NEW c \in ChunkSizes \cup {0},
             write_stream(NewSource(k, n, c, NoLogger))
      PROVE  Inv' /\ written' = written + n
  <2> DEFINE s == NewSource(k, n, c, NoLogger)
  <2>1. s \in Source
    BY <1>1 DEF NewSource, Source
  <2>2. s.next = written + 1 /\ s.last = written + n /\ s.kind = k
    BY DEF NewSource
  <2>3. s.last >= written
    BY <1>1, <2>2
  <2> HIDE DEF s
  <2>4. write_stream(s)
    BY <1>2 DEF s
  <2>5. Inv'
    BY <2>1, <2>2, <2>3, <2>4, WriteStep
  <2> QED BY <2>2, <2>4, <2>5 DEF write_stream
<1> QED BY <1>2 DEF write, write_chunk

(* A logger wraps the body and writes nothing.                             *)
LEMMA LoggerKeeps ==
  ASSUME Inv, NEW l \in Loggers, logger(l)
  PROVE  Inv' /\ written' = written
<1> DEFINE s == NewSource("polling", 0, 0, l)
<1>1. written \in Nat
  BY DEF Inv, TypeOK
<1>2. s \in Source /\ s.next = written + 1 /\ s.last = written
  BY <1>1 DEF NewSource, Source
<1>3. write_stream(s)
  BY DEF logger
<1> HIDE DEF s
<1>4. Inv'
  BY <1>1, <1>2, <1>3, WriteStep
<1> QED BY <1>2, <1>3, <1>4 DEF write_stream

(* Bytes given at once are delivered as they stand in the chain.           *)
LEMMA PollOnceKeeps ==
  ASSUME Inv, sources # <<>>, PollOnce
  PROVE  Inv' /\ Len(delivered') \in Len(delivered)..written
<1> DEFINE n == Left(Head(sources))
<1>1. /\ sources \in Seq(Source) /\ written \in Nat
      /\ Len(delivered) \in Nat /\ Len(delivered) + 1 \in Nat
  BY LenProperties DEF Inv, TypeOK
<1>2. /\ n \in Nat /\ sources[1].last = Len(delivered) + n
      /\ sources[1].last <= written
  BY FirstSource
<1> HIDE DEF n
<1>3. sources[1].last + 1 = Len(delivered) + 1 + n
  BY <1>1, <1>2
<1>4. /\ Tail(sources) \in Seq(Source)
      /\ Spans(Tail(sources), Len(delivered) + 1 + n, written)
      /\ LoggersEmpty(Tail(sources))
  BY <1>1, <1>3, SpansTail DEF Inv, Chain
<1>5. Inv' /\ Len(delivered') = Len(delivered) + n
  BY <1>2, <1>4, YieldStep DEF PollOnce, n
<1> QED BY <1>1, <1>2, <1>5

(* A reader's chunk size, 0 for the sources that have none.                *)
LEMMA ChunkIsNat ==
  ASSUME Inv, sources # <<>>
  PROVE  Head(sources).chunk \in Nat
<1>1. Head(sources).chunk \in ChunkSizes \cup {0}
  BY FirstSource DEF Source
<1>2. \A c \in ChunkSizes \cup {0} : c \in Nat
  BY BodyAssumption
<1> QED BY <1>1, <1>2

(* A read returns no more than the reader has left.                        *)
LEMMA ReadFits ==
  ASSUME Inv, sources # <<>>, NEW n \in 1..FilledMax(Head(sources))
  PROVE  n \in Nat /\ n <= Left(Head(sources))
<1> DEFINE k == Left(Head(sources))
           c == Head(sources).chunk
<1>1. k \in Nat /\ c \in Nat /\ n \in 1..(IF k < c THEN k ELSE c)
  BY FirstSource, ChunkIsNat DEF FilledMax
<1> HIDE DEF k, c
<1>2. n \in Nat /\ n <= k
  BY <1>1
<1> QED BY <1>2 DEF k

(* So is what a reader fills its buffer with, be it less than the buffer.  *)
LEMMA PollReaderKeeps ==
  ASSUME Inv, sources # <<>>, PollReader
  PROVE  Inv' /\ Len(delivered') \in Len(delivered)..written
<1> PICK n \in 1..FilledMax(Head(sources)) : Yield(n, Advanced(n))
  BY DEF PollReader
<1>1. /\ sources \in Seq(Source) /\ written \in Nat
      /\ Len(delivered) \in Nat /\ Len(delivered) + 1 \in Nat
  BY LenProperties DEF Inv, TypeOK
<1>2. /\ Left(Head(sources)) \in Nat /\ Head(sources) \in Source
      /\ Head(sources).last = Len(delivered) + Left(Head(sources))
      /\ Head(sources).last <= written
  BY FirstSource
<1>4. n \in Nat /\ n <= Left(Head(sources))
  BY ReadFits
<1>5. /\ Advanced(n) \in Seq(Source)
      /\ Spans(Advanced(n), Len(delivered) + 1 + n, written) /\ LoggersEmpty(Advanced(n))
  BY <1>1, <1>4, SpansAdvance DEF Inv, Chain, PollReader
<1>6. Inv' /\ Len(delivered') = Len(delivered) + n
  BY <1>4, <1>5, YieldStep
<1>7. Len(delivered) + n <= written
  BY <1>1, <1>2, <1>4
<1> QED BY <1>1, <1>4, <1>6, <1>7

(* The end of a wrapped stream turns its logger from polling to logging.   *)
LEMMA LoggerEndKeeps ==
  ASSUME Inv, sources # <<>>, PollLoggerEnd
  PROVE  Inv' /\ UNCHANGED <<written, consumer, delivered>>
<1> DEFINE h == Head(sources)
           s == [h EXCEPT !.kind = "logging"]
           p == [sources EXCEPT ![1].kind = "logging"]
<1>1. /\ sources \in Seq(Source) /\ written \in Nat /\ Len(delivered) \in Nat
      /\ Len(delivered) + 1 \in Nat
  BY LenProperties DEF Inv, TypeOK
<1>2. h = sources[1] /\ h \in Source /\ 1 \in 1..Len(sources) /\ h.kind = "polling"
  BY FirstSource DEF PollLoggerEnd
<1>3. s \in Source /\ s.next = h.next /\ s.last = h.last
  <2>1. s \in Source
    BY <1>2, FieldUpdates
  <2>2. s.next = h.next /\ s.last = h.last
    BY <1>2 DEF Source
  <2> QED BY <2>1, <2>2
<1>4. p = [sources EXCEPT ![1] = s]
  BY <1>2
<1> HIDE DEF s, p, h
<1>5. /\ p \in Seq(Source) /\ Len(p) = Len(sources)
      /\ \A i \in 1..Len(sources) : p[i] = IF i = 1 THEN s ELSE sources[i]
  BY <1>1, <1>2, <1>3, <1>4, ExceptSeq
<1>6. Spans(p, Len(delivered) + 1, written) /\ LoggersEmpty(p)
  <2>1. \A i \in 1..Len(sources) : p[i].next = sources[i].next /\ p[i].last = sources[i].last
    BY <1>2, <1>3, <1>5
  <2>2. \A i \in 1..Len(sources) : p[i].kind \in {"polling", "logging"}
                                     => sources[i].kind \in {"polling", "logging"}
    BY <1>2, <1>5
  <2> QED BY <1>1, <1>5, <2>1, <2>2, SpansKept DEF Inv, Chain
<1>7. sources' = p /\ UNCHANGED <<written, consumer, delivered>>
  BY DEF PollLoggerEnd, p
<1>8. /\ task' \in [Loggers -> {"none", "spawned", "logged"}]
      /\ counted' \in [Loggers -> Nat]
  <2>1. h.counter \in Nat
    BY <1>2 DEF Source
  <2> QED BY <2>1 DEF PollLoggerEnd, Inv, TypeOK, h
<1>9. TypeOK'
  BY <1>5, <1>7, <1>8 DEF Inv, TypeOK
<1>10. Chain' /\ InOrder'
  BY <1>6, <1>7 DEF Inv, Chain, InOrder
<1> QED BY <1>7, <1>9, <1>10 DEF Inv
-----------------------------------------------------------------------------
(* The other steps, all of which keep the chain as it is or drop an ended  *)
(* source.                                                                 *)
LEMMA EndsKeep ==
  ASSUME Inv, sources # <<>>, PollReaderEof \/ PollLogged
  PROVE  Inv' /\ UNCHANGED <<written, consumer, delivered>>
<1>1. Left(Head(sources)) = 0
  BY LoggerAtHead DEF PollReaderEof, AtEof, PollLogged
<1> QED BY <1>1, EndedStep DEF PollReaderEof, PollLogged

(* Everything else leaves the bytes and the chain alone, or drops the chain. *)
LEMMA OthersKeep ==
  ASSUME Inv,
         IntoHyper \/ PollEnd \/ PollError \/ DropBody \/ (\E l \in Loggers : RunLogTask(l))
           \/ UNCHANGED vars
  PROVE  Inv' /\ UNCHANGED <<written, delivered>>
<1>1. UNCHANGED <<written, sources, delivered>>
  BY DEF IntoHyper, PollEnd, PollError, PollReaderError, DropBody, RunLogTask, vars
<1>2. Chain' /\ InOrder'
  BY <1>1 DEF Inv, Chain, InOrder
<1>3. /\ consumer' \in {"building", "reading", "finished", "failed", "dropped"}
      /\ task' \in [Loggers -> {"none", "spawned", "logged"}]
      /\ counted' \in [Loggers -> Nat]
  BY DEF IntoHyper, PollEnd, PollError, PollReaderError, DropBody, RunLogTask, vars, Inv, TypeOK
<1>4. TypeOK'
  BY <1>1, <1>3 DEF Inv, TypeOK
<1> QED BY <1>1, <1>2, <1>4 DEF Inv

(* The invariant is inductive.                                             *)
LEMMA InvStep == Inv /\ [Next]_vars => Inv'
<1> SUFFICES ASSUME Inv, [Next]_vars PROVE Inv'
  OBVIOUS
<1>1. ASSUME NEW n \in 0..MaxWritten, write(n) \/ \E c \in ChunkSizes : write_chunk(n, c)
      PROVE  Inv'
  BY <1>1, WriteKeeps
<1>2. ASSUME NEW l \in Loggers, logger(l) PROVE Inv'
  BY <1>2, LoggerKeeps
<1>3. CASE sources # <<>> /\ (PollOnce \/ PollReader)
  BY <1>3, PollOnceKeeps, PollReaderKeeps
<1>4. CASE sources # <<>> /\ (PollReaderEof \/ PollLoggerEnd \/ PollLogged)
  BY <1>4, EndsKeep, LoggerEndKeeps
<1>5. CASE \/ IntoHyper \/ PollEnd \/ PollError \/ DropBody
           \/ (\E l \in Loggers : RunLogTask(l)) \/ UNCHANGED vars
  BY <1>5, OthersKeep
<1> QED BY <1>1, <1>2, <1>3, <1>4, <1>5 DEF Next, poll_next

(* So it holds in every state.                                             *)
LEMMA InvHolds == Spec => []Inv
<1>1. Init => Inv
  <2> SUFFICES ASSUME Init PROVE Inv
    OBVIOUS
  <2>1. sources = <<>> /\ delivered = <<>> /\ written = 0
    BY DEF Init
  <2>2. sources \in Seq(Source) /\ delivered \in Seq(Nat) /\ Len(sources) = 0 /\ Len(delivered) = 0
    BY <2>1, EmptySeq
  <2>3. TypeOK
    BY <2>2 DEF Init, TypeOK
  <2>4. Chain
    BY <2>1, <2>2 DEF Chain, Spans, LoggersEmpty
  <2>5. InOrder
    BY <2>1, <2>2, LenProperties DEF InOrder
  <2> QED BY <2>3, <2>4, <2>5 DEF Inv
<1> QED BY <1>1, InvStep, PTL DEF Spec

(* Type correctness of the body, which rests on the whole invariant: the   *)
(* bytes a source has left are a natural number because ranges are.        *)
THEOREM Typing == Spec => []TypeOK
  BY InvHolds, PTL DEF Inv

(* The client gets the written bytes in order, none twice, none skipped.   *)
THEOREM DeliversInOrder == Spec => []InOrder
  BY InvHolds, PTL DEF Inv

(* The chain always holds exactly what is written and not yet delivered.   *)
THEOREM ChainHoldsTheRest == Spec => []Contiguous
<1>1. Inv => Contiguous
  <2> SUFFICES ASSUME Inv PROVE Contiguous
    OBVIOUS
  <2>1. /\ DOMAIN sources = 1..Len(sources) /\ Len(delivered) \in Nat /\ written \in Nat
        /\ sources # <<>> => Head(sources) = sources[1]
    BY FirstSource, LenProperties DEF Inv, TypeOK
  <2> QED BY <2>1 DEF Contiguous, Inv, Chain, Spans
<1> QED BY <1>1, InvHolds, PTL

-----------------------------------------------------------------------------
(* The body implements the abstract byte queue: a write is a Write, a poll *)
(* that yields bytes a Send, the end of the chain Complete, an error or a  *)
(* dropped body Abort, and everything loggers do a stutter.                *)
THEOREM BodyIsByteQueue == Spec => ImplementsByteQueue
<1>1. Init => Queue!Init
  BY EmptySeq DEF Init, Queue!Init, Phase
<1>2. Inv /\ [Next]_vars => [Queue!Next]_(Queue!queueVars)
  <2> SUFFICES ASSUME Inv, [Next]_vars PROVE [Queue!Next]_(Queue!queueVars)
    OBVIOUS
  <2>0. written \in Nat /\ Len(delivered) \in Nat
    BY LenProperties DEF Inv, TypeOK
  <2>1. ASSUME NEW n \in 0..MaxWritten, write(n) \/ \E c \in ChunkSizes : write_chunk(n, c)
        PROVE  Queue!Write
    <3>1. written' = written + n /\ n \in Nat
      BY <2>1, WriteKeeps, BodyAssumption
    <3>2. consumer = "building" /\ UNCHANGED <<consumer, delivered>>
      BY <2>1 DEF write, write_chunk, write_stream
    <3> QED BY <2>0, <3>1, <3>2 DEF Queue!Write, Phase
  <2>2. ASSUME NEW l \in Loggers, logger(l) PROVE UNCHANGED Queue!queueVars
    BY <2>2, LoggerKeeps DEF logger, write_stream, Queue!queueVars, Phase
  <2>3. CASE IntoHyper
    BY <2>3 DEF IntoHyper, Queue!Next, Queue!Start, Phase
  <2>4. CASE consumer = "reading" /\ sources # <<>> /\ (PollOnce \/ PollReader)
    <3>1. Len(delivered') \in Len(delivered)..written
      BY <2>4, PollOnceKeeps, PollReaderKeeps
    <3>2. UNCHANGED <<written, consumer>>
      BY <2>4 DEF PollOnce, PollReader, Yield
    <3>3. CASE Len(delivered') = Len(delivered)
      BY <3>2, <3>3 DEF Queue!queueVars, Phase
    <3>4. CASE Len(delivered') # Len(delivered)
      <4>1. Len(delivered') \in (Len(delivered) + 1)..written
        BY <2>0, <3>1, <3>4
      <4> QED BY <2>4, <3>2, <4>1 DEF Queue!Next, Queue!Send, Phase
    <3> QED BY <3>3, <3>4
  <2>5. CASE sources # <<>> /\ (PollReaderEof \/ PollLoggerEnd \/ PollLogged)
    BY <2>5, EndsKeep, LoggerEndKeeps DEF Queue!queueVars, Phase
  <2>6. CASE consumer = "reading" /\ PollEnd
    <3>1. Len(delivered) = written
      BY <2>0, <2>6 DEF PollEnd, Inv, Chain, Spans
    <3> QED BY <2>6, <3>1 DEF PollEnd, Queue!Next, Queue!Complete, Phase
  <2>7. CASE PollError \/ DropBody
    BY <2>7 DEF PollError, PollReaderError, DropBody, Queue!Next, Queue!Abort, Phase
  <2>8. ASSUME NEW l \in Loggers, RunLogTask(l) PROVE UNCHANGED Queue!queueVars
    BY <2>8 DEF RunLogTask, Queue!queueVars, Phase
  <2>9. CASE UNCHANGED vars
    BY <2>9 DEF vars, Queue!queueVars, Phase
  <2> QED BY <2>1, <2>2, <2>3, <2>4, <2>5, <2>6, <2>7, <2>8, <2>9
          DEF Next, poll_next, Queue!Next
<1> QED BY <1>1, <1>2, InvHolds, PTL DEF Spec, ImplementsByteQueue, Queue!Spec
-----------------------------------------------------------------------------
(* What the loggers know: while one polls, its counter is the number of    *)
(* bytes the consumer has got, for nothing is delivered while the body is  *)
(* built; and only the first source waits for its line to be printed.      *)
Counters ==
  /\ consumer = "building" => Len(delivered) = 0
  /\ \A i \in 1..Len(sources) :
       sources[i].kind = "polling" => sources[i].counter = Len(delivered)

Waiting ==
  \A l \in Loggers : task[l] = "spawned" =>
    sources # <<>> /\ Head(sources).kind = "logging" /\ Head(sources).logger = l

LInv == Inv /\ Counters /\ Waiting

(* A new source has counted nothing and waits for nothing.                 *)
LEMMA CountersWrite ==
  ASSUME LInv, NEW s \in Source, write_stream(s), s.counter = 0
  PROVE  Counters' /\ Waiting'
<1>1. /\ sources' = Append(sources, s) /\ consumer = "building"
      /\ UNCHANGED <<consumer, delivered, task>>
  BY DEF write_stream, Chained
<1>2. sources \in Seq(Source) /\ Len(sources) \in Nat
  BY LenProperties DEF LInv, Inv, TypeOK
<1>3. /\ Len(sources') = Len(sources) + 1
      /\ \A i \in 1..Len(sources) : sources'[i] = sources[i]
      /\ sources'[Len(sources) + 1] = s
  BY <1>1, <1>2, AppendProperties
<1>4. Counters'
  BY <1>1, <1>2, <1>3 DEF LInv, Counters
<1>5. sources' # <<>> /\ (sources # <<>> => Head(sources') = Head(sources))
  BY <1>1, <1>2, AppendProperties, HeadTailAppend
<1>6. Waiting'
  BY <1>1, <1>5 DEF LInv, Waiting
<1> QED BY <1>4, <1>6

(* Bytes delivered through the chain are counted by every polling logger.  *)
LEMMA CountersYield ==
  ASSUME LInv, sources # <<>>, Head(sources).kind \notin {"polling", "logging"},
         consumer # "building",
         NEW n \in Nat, NEW q \in Seq(Source), Yield(n, q), Len(delivered') = Len(delivered) + n,
         \A i \in 1..Len(q) : q[i].kind = "polling" => q[i].counter = Len(delivered)
  PROVE  Counters' /\ Waiting'
<1>1. sources' = Counting(q, n) /\ UNCHANGED <<consumer, task>>
  BY DEF Yield
<1>2. DOMAIN q = 1..Len(q) /\ \A i \in 1..Len(q) : q[i] \in Source
  BY LenProperties, ElementOfSeq
<1>3. Len(sources') = Len(q)
  <2>1. Counting(q, n) \in [1..Len(q) -> Source]
    BY <1>2, FieldUpdates DEF Counting
  <2>2. Counting(q, n) \in Seq(Source) /\ DOMAIN Counting(q, n) = 1..Len(q)
    BY <2>1, SeqDef, LenProperties
  <2> QED BY <1>1, <2>2, LenProperties
<1>4. \A i \in 1..Len(q) : sources'[i].kind = "polling" =>
        q[i].kind = "polling" /\ sources'[i].counter = q[i].counter + n
  <2> SUFFICES ASSUME NEW i \in 1..Len(q), sources'[i].kind = "polling"
               PROVE  q[i].kind = "polling" /\ sources'[i].counter = q[i].counter + n
    OBVIOUS
  <2>1. CASE q[i].kind = "polling"
    <3>1. sources'[i] = [q[i] EXCEPT !.counter = @ + n]
      BY <1>1, <1>2, <2>1 DEF Counting
    <3>2. [q[i] EXCEPT !.counter = @ + n].counter = q[i].counter + n
      BY <1>2 DEF Source
    <3> QED BY <2>1, <3>1, <3>2
  <2>2. CASE q[i].kind # "polling"
    BY <1>1, <1>2, <2>2 DEF Counting
  <2> QED BY <2>1, <2>2
<1>5. Counters'
  BY <1>1, <1>3, <1>4 DEF Counters
<1>6. Waiting'
  BY <1>1 DEF LInv, Waiting
<1> QED BY <1>5, <1>6

(* The sources behind the first keep what they know when it goes.          *)
LEMMA CountersTail ==
  ASSUME LInv, sources # <<>>
  PROVE  /\ Tail(sources) \in Seq(Source)
         /\ \A i \in 1..Len(Tail(sources)) :
              Tail(sources)[i].kind = "polling" => Tail(sources)[i].counter = Len(delivered)
<1>1. sources \in Seq(Source) /\ Len(sources) \in Nat
  BY LenProperties DEF LInv, Inv, TypeOK
<1>2. /\ Tail(sources) \in Seq(Source) /\ Len(Tail(sources)) = Len(sources) - 1
      /\ \A i \in 1..Len(Tail(sources)) : Tail(sources)[i] = sources[i + 1]
  BY <1>1, HeadTailProperties
<1>3. \A i \in 1..Len(Tail(sources)) : i + 1 \in 1..Len(sources)
  BY <1>1, <1>2
<1> QED BY <1>2, <1>3 DEF LInv, Counters

(* How much has been delivered after a source yielded n bytes.             *)
LEMMA YieldLength ==
  ASSUME Inv, sources # <<>>, NEW n \in Nat, NEW q, Yield(n, q)
  PROVE  Len(delivered') = Len(delivered) + n
<1>1. delivered' = delivered \o [i \in 1..n |-> Len(delivered) + 1 + i - 1]
  BY FirstSource DEF Yield
<1>2. delivered \in Seq(Nat) /\ delivered = [i \in 1..Len(delivered) |-> i]
  BY DEF Inv, TypeOK, InOrder
<1> QED BY <1>1, <1>2, DeliverNext

(* What is delivered is counted by every logger it passes.                 *)
LEMMA CountersPoll ==
  ASSUME LInv, consumer = "reading", sources # <<>>, PollOnce \/ PollReader
  PROVE  Counters' /\ Waiting'
<1>1. Inv /\ Len(delivered) \in Nat /\ sources \in Seq(Source) /\ Len(sources) \in Nat
  BY LenProperties DEF LInv, Inv, TypeOK
<1>2. CASE PollOnce
  <2>1. Left(Head(sources)) \in Nat
    BY <1>1, FirstSource
  <2>2. Len(delivered') = Len(delivered) + Left(Head(sources))
    BY <1>1, <1>2, <2>1, YieldLength DEF PollOnce
  <2> QED BY <1>2, <2>1, <2>2, CountersTail, CountersYield DEF PollOnce
<1>3. CASE PollReader
  <2> PICK n \in 1..FilledMax(Head(sources)) : Yield(n, Advanced(n))
    BY <1>3 DEF PollReader
  <2>1. n \in Nat /\ n <= Left(Head(sources))
    BY <1>1, ReadFits
  <2>2. Len(delivered') = Len(delivered) + n
    BY <1>1, <2>1, YieldLength
  <2>3. /\ Advanced(n) \in Seq(Source)
        /\ \A i \in 1..Len(Advanced(n)) :
             Advanced(n)[i].kind = "polling" => Advanced(n)[i].counter = Len(delivered)
    <3> DEFINE h == Head(sources)
               s == [h EXCEPT !.next = @ + n]
    <3>1. s \in Source /\ s.kind = "reader"
      <4>1. h \in Source /\ h.kind = "reader"
        BY <1>1, <1>3, FirstSource DEF PollReader
      <4>2. s \in Source
        BY <2>1, <4>1, FieldUpdates
      <4>3. s.kind = h.kind
        BY <4>1 DEF Source
      <4> QED BY <4>1, <4>2, <4>3
    <3>2. Advanced(n) = <<s>> \o Tail(sources)
      BY DEF Advanced
    <3> HIDE DEF s
    <3>3. <<s>> \in Seq(Source) /\ Len(<<s>>) = 1 /\ <<s>>[1] = s
      BY <3>1
    <3> DEFINE p == <<s>> \o Tail(sources)
               r == Tail(sources)
    <3>4. /\ r \in Seq(Source) /\ Len(r) \in Nat
          /\ \A i \in 1..Len(r) : r[i].kind = "polling" => r[i].counter = Len(delivered)
      BY CountersTail, LenProperties
    <3>5. /\ p \in Seq(Source) /\ Len(p) = 1 + Len(r)
          /\ \A i \in 1..Len(p) : p[i] = IF i <= 1 THEN s ELSE r[i - 1]
      BY <3>3, <3>4, ConcatProperties
    <3> HIDE DEF p, r
    <3>6. \A i \in 1..Len(p) : p[i].kind = "polling" => p[i].counter = Len(delivered)
      <4> SUFFICES ASSUME NEW i \in 1..Len(p), p[i].kind = "polling"
                   PROVE  p[i].counter = Len(delivered)
        OBVIOUS
      <4>1. i # 1
        BY <3>1, <3>5
      <4>2. i - 1 \in 1..Len(r)
        BY <3>4, <3>5, <4>1
      <4> QED BY <3>4, <3>5, <4>1, <4>2
    <3> QED BY <3>2, <3>5, <3>6 DEF p
  <2> QED BY <1>3, <2>1, <2>2, <2>3, CountersYield DEF PollReader
<1> QED BY <1>2, <1>3

(* A source that ends takes no count with it, and its logger prints in turn. *)
LEMMA CountersEnds ==
  ASSUME LInv, consumer # "building", sources # <<>>,
         PollReaderEof \/ PollLoggerEnd \/ PollLogged
  PROVE  Counters' /\ Waiting'
<1>1. Inv /\ sources \in Seq(Source)
  BY DEF LInv, Inv, TypeOK
<1>2. CASE PollReaderEof \/ PollLogged
  <2>1. sources' = Tail(sources) /\ UNCHANGED <<consumer, delivered, task>>
    BY <1>2 DEF PollReaderEof, PollLogged
  <2>2. \A l \in Loggers : task[l] # "spawned"
    BY <1>2 DEF PollReaderEof, PollLogged, HandleReady, LInv, Waiting
  <2> QED BY <2>1, <2>2, CountersTail DEF Counters, Waiting
<1>3. CASE PollLoggerEnd
  <2> DEFINE h == Head(sources)
             s == [h EXCEPT !.kind = "logging"]
  <2>1. h = sources[1] /\ h \in Source /\ 1 \in 1..Len(sources) /\ h.kind = "polling"
    BY <1>1, <1>3, FirstSource DEF PollLoggerEnd
  <2>2. s \in Source /\ s.kind = "logging" /\ s.logger = h.logger
    <3>1. s \in Source
      BY <2>1, FieldUpdates
    <3>2. s.kind = "logging" /\ s.logger = h.logger
      BY <2>1 DEF Source
    <3> QED BY <3>1, <3>2
  <2>3. sources' = [sources EXCEPT ![1] = s]
    BY <1>3, <2>1 DEF PollLoggerEnd
  <2>4. /\ UNCHANGED <<consumer, delivered>>
        /\ task' = [task EXCEPT ![h.logger] = "spawned"]
    BY <1>3 DEF PollLoggerEnd
  <2> HIDE DEF s
  <2>5. /\ sources' \in Seq(Source) /\ Len(sources') = Len(sources)
        /\ \A i \in 1..Len(sources) : sources'[i] = IF i = 1 THEN s ELSE sources[i]
    BY <1>1, <2>1, <2>2, <2>3, ExceptSeq
  <2>6. Counters'
    BY <2>2, <2>4, <2>5 DEF LInv, Counters
  <2>7. sources' # <<>> /\ Head(sources') = s
    <3>1. Len(sources') # 0 /\ sources'[1] = s
      BY <2>1, <2>5, LenProperties
    <3> QED BY <2>5, <3>1, EmptySeq
  <2>8. Waiting'
    <3> SUFFICES ASSUME NEW l \in Loggers, task'[l] = "spawned"
                 PROVE  l = h.logger
      BY <2>2, <2>7 DEF Waiting
    <3>1. task[l] # "spawned"
      BY <2>1 DEF LInv, Waiting
    <3> QED BY <2>4, <3>1 DEF LInv, Inv, TypeOK
  <2> QED BY <2>6, <2>8
<1> QED BY <1>2, <1>3

(* The invariant of the loggers is inductive.                              *)
LEMMA LInvStep == LInv /\ [Next]_vars => LInv'
<1> SUFFICES ASSUME LInv, [Next]_vars PROVE Counters' /\ Waiting'
  BY InvStep DEF LInv
<1>0. Inv /\ written \in Nat
  BY DEF LInv, Inv, TypeOK
<1>1. ASSUME NEW n \in 0..MaxWritten, write(n) \/ \E c \in ChunkSizes : write_chunk(n, c)
      PROVE  Counters' /\ Waiting'
  <2>1. n \in Nat
    BY BodyAssumption
  <2>2. ASSUME NEW k \in {"once", "reader"}, NEW c \in ChunkSizes \cup {0},
               write_stream(NewSource(k, n, c, NoLogger))
        PROVE  Counters' /\ Waiting'
    <3>1. NewSource(k, n, c, NoLogger) \in Source /\ NewSource(k, n, c, NoLogger).counter = 0
      BY <1>0, <2>1 DEF NewSource, Source
    <3> QED BY <2>2, <3>1, CountersWrite
  <2> QED BY <1>1, <2>2 DEF write, write_chunk
<1>2. ASSUME NEW l \in Loggers, logger(l) PROVE Counters' /\ Waiting'
  <2>1. NewSource("polling", 0, 0, l) \in Source /\ NewSource("polling", 0, 0, l).counter = 0
    BY <1>0 DEF NewSource, Source
  <2> QED BY <1>2, <2>1, CountersWrite DEF logger
<1>3. CASE consumer = "reading" /\ sources # <<>> /\ (PollOnce \/ PollReader)
  BY <1>3, CountersPoll
<1>4. CASE consumer = "reading" /\ sources # <<>>
             /\ (PollReaderEof \/ PollLoggerEnd \/ PollLogged)
  BY <1>4, CountersEnds
<1>5. CASE IntoHyper \/ PollEnd \/ PollError \/ DropBody \/ UNCHANGED vars
  <2>1. UNCHANGED <<sources, delivered, task>> /\ (consumer' = "building" => consumer = "building")
    BY <1>5 DEF IntoHyper, PollEnd, PollError, PollReaderError, DropBody, vars
  <2> QED BY <2>1 DEF LInv, Counters, Waiting
<1>6. ASSUME NEW l \in Loggers, RunLogTask(l) PROVE Counters' /\ Waiting'
  <2>1. /\ UNCHANGED <<sources, delivered, consumer>>
        /\ \A k \in Loggers : task'[k] = "spawned" => task[k] = "spawned"
    BY <1>0, <1>6 DEF RunLogTask, Inv, TypeOK
  <2> QED BY <2>1 DEF LInv, Counters, Waiting
<1> QED BY <1>1, <1>2, <1>3, <1>4, <1>5, <1>6 DEF Next, poll_next

(* So it holds in every state.                                             *)
LEMMA LInvHolds == Spec => []LInv
<1>1. Init => Counters /\ Waiting
  BY EmptySeq DEF Init, Counters, Waiting
<1> QED BY <1>1, InvHolds, LInvStep, PTL DEF Spec, LInv

(* Of all steps only the end of the wrapped stream starts a logger's line. *)
LEMMA OnlyLoggerEndSpawns ==
  ASSUME LInv, [Next]_vars, NEW l \in Loggers, task[l] = "none", task'[l] # "none"
  PROVE  sources # <<>> /\ PollLoggerEnd /\ Head(sources).logger = l
<1>1. CASE sources # <<>> /\ PollLoggerEnd
  BY <1>1 DEF PollLoggerEnd, LInv, Inv, TypeOK
<1>2. ASSUME NEW k \in Loggers, RunLogTask(k) PROVE FALSE
  BY <1>2 DEF RunLogTask, LInv, Inv, TypeOK
<1>3. CASE UNCHANGED task
  BY <1>3
<1> QED
  BY <1>1, <1>2, <1>3
  DEF Next, poll_next, write, write_chunk, logger, write_stream, IntoHyper, PollEnd, PollOnce,
      PollReader, Yield, PollReaderEof, PollLogged, PollError, PollReaderError, DropBody, vars

(* A logger prints exactly the bytes of the body it wrapped.  What it      *)
(* wrapped is everything up to its own place in the chain, so its counter  *)
(* is right if it equals what the consumer has got when that place is      *)
(* reached: Counters.                                                      *)
THEOREM CountsExactly == Spec => LoggedCountExact
<1>1. LInv /\ [Next]_vars =>
        [\A l \in Loggers : task[l] = "none" /\ task'[l] # "none" =>
          /\ counted'[l] = Len(delivered)
          /\ Head(sources).logger = l /\ Head(sources).last = Len(delivered)]_vars
  <2> SUFFICES ASSUME LInv, [Next]_vars, NEW l \in Loggers, task[l] = "none", task'[l] # "none"
               PROVE  /\ counted'[l] = Len(delivered)
                      /\ Head(sources).logger = l /\ Head(sources).last = Len(delivered)
    OBVIOUS
  <2>1. Inv /\ sources # <<>> /\ PollLoggerEnd /\ Head(sources).logger = l
    BY OnlyLoggerEndSpawns DEF LInv
  <2>2. Left(Head(sources)) = 0 /\ Len(delivered) \in Nat
    BY <2>1, LoggerAtHead, LenProperties DEF PollLoggerEnd, Inv, TypeOK
  <2>3. Head(sources).last = Len(delivered)
    BY <2>1, <2>2, FirstSource
  <2>4. Head(sources).counter = Len(delivered)
    BY <2>1, FirstSource DEF PollLoggerEnd, LInv, Counters
  <2>5. counted'[l] = Head(sources).counter
    BY <2>1 DEF PollLoggerEnd, Inv, TypeOK
  <2> QED BY <2>1, <2>3, <2>4, <2>5
<1> QED BY <1>1, LInvHolds, PTL DEF Spec, LoggedCountExact

(* The next line and the end of the body wait for the line being printed:  *)
(* it belongs to the first source, and neither happens while that waits.   *)
THEOREM LinesAwaited == Spec => LogsAwaited
<1>1. LInv /\ [Next]_vars =>
        [(consumer' # consumer /\ consumer' = "finished")
           \/ (\E l \in Loggers : task[l] = "none" /\ task'[l] = "spawned")
         => \A l \in Loggers : task[l] # "spawned"]_vars
  <2> SUFFICES ASSUME LInv, [Next]_vars,
                      \/ consumer' # consumer /\ consumer' = "finished"
                      \/ \E l \in Loggers : task[l] = "none" /\ task'[l] = "spawned"
               PROVE  \A l \in Loggers : task[l] # "spawned"
    OBVIOUS
  <2>1. CASE consumer' # consumer /\ consumer' = "finished"
    <3>1. sources = <<>>
      BY <2>1
      DEF Next, poll_next, write, write_chunk, logger, write_stream, IntoHyper, PollEnd, PollOnce,
          PollReader, Yield, PollReaderEof, PollLoggerEnd, PollLogged, PollError,
          PollReaderError, DropBody, RunLogTask, vars
    <3> QED BY <3>1 DEF LInv, Waiting
  <2>2. ASSUME NEW l \in Loggers, task[l] = "none", task'[l] = "spawned"
        PROVE  \A k \in Loggers : task[k] # "spawned"
    <3>1. Head(sources).kind = "polling"
      BY <2>2, OnlyLoggerEndSpawns DEF PollLoggerEnd
    <3> QED BY <3>1 DEF LInv, Waiting
  <2> QED BY <2>1, <2>2
<1> QED BY <1>1, LInvHolds, PTL DEF Spec, LogsAwaited
=============================================================================
