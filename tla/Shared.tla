--------------------------------- MODULE Shared --------------------------------
(* State that requests share: the connections of a database, the senders of a *)
(* chat, the records of a store and the posts of a blog. The parts have no    *)
(* state in common; they stand side by side, and part says which of them a    *)
(* behaviour is about.                                                        *)
EXTENDS Naturals, Sequences, FiniteSets

CONSTANTS Tasks, Conns, Threads, Timeout, MaxOpen, Ops, NoConn,  \* of the pool
          Clients, Keys, Users, NoUser,                             \* of the store
          Writers, Databases, MaxId, Bodies, Published,             \* of the blog
          Peers, MaxMessages, Capacity                              \* of the chat

VARIABLES part,
          task, current, call, conn, idle, queue,
          table, at, request, answer, overtaken,
          home, posts, free, held, doing, asked, found, told, crowded, replaced,
          where, slab, index, lock, mutex, todo, sending, frames, taken, gone, received

Pool == INSTANCE DieselPool WITH Requests <- Tasks

Store == INSTANCE RestfulStore WITH Ids <- Keys

Blog == INSTANCE Posts WITH
    Clients <- Writers, Conns <- Databases,
    idle <- free, conn <- held, at <- doing, request <- asked, answer <- told

Channel == INSTANCE Chat WITH at <- where

ASSUME Assumptions ==
    /\ Pool!DieselAssumption /\ Channel!ChatAssumption
    /\ Store!RestfulStoreAssumption /\ Blog!PostsAssumption

pool == <<task, current, call, conn, idle, queue>>
store == <<table, at, request, answer, overtaken>>
blog == <<home, posts, free, held, doing, asked, found, told, crowded, replaced>>
chat == <<where, slab, index, lock, mutex, todo, sending, frames, taken, gone, received>>

vars == <<part, pool, store, blog, chat>>

-----------------------------------------------------------------------------
\* The variables of a part that the behaviour is not about.
NoPool == task = 0 /\ current = 0 /\ call = 0 /\ conn = 0 /\ idle = 0 /\ queue = 0
NoStore == table = 0 /\ at = 0 /\ request = 0 /\ answer = 0 /\ overtaken = 0
NoBlog == /\ home = 0 /\ posts = 0 /\ free = 0 /\ held = 0 /\ doing = 0
          /\ asked = 0 /\ found = 0 /\ told = 0 /\ crowded = 0 /\ replaced = 0
NoChat == /\ where = 0 /\ slab = 0 /\ index = 0 /\ lock = 0 /\ mutex = 0 /\ todo = 0
          /\ sending = 0 /\ frames = 0 /\ taken = 0 /\ gone = 0 /\ received = 0

Init ==
    \/ part = "pool" /\ Pool!Init /\ NoStore /\ NoBlog /\ NoChat
    \/ part = "store" /\ Store!Init /\ NoPool /\ NoBlog /\ NoChat
    \/ part = "blog" /\ Blog!Init /\ NoPool /\ NoStore /\ NoChat
    \/ part = "chat" /\ Channel!Init /\ NoPool /\ NoStore /\ NoBlog

Next ==
    \/ part = "pool" /\ Pool!Next /\ UNCHANGED <<part, store, blog, chat>>
    \/ part = "store" /\ Store!Next /\ UNCHANGED <<part, pool, blog, chat>>
    \/ part = "blog" /\ Blog!Next /\ UNCHANGED <<part, pool, store, chat>>
    \/ part = "chat" /\ Channel!Next /\ UNCHANGED <<part, pool, store, blog>>

Spec == Init /\ [][Next]_vars

-----------------------------------------------------------------------------
\* Every connection of the pool is in the pool or with exactly one call, whatever
\* was cancelled, timed out or panicked.
ConnectionsAccounted == part = "pool" => Pool!TypeOK /\ Pool!ConnectionsAccounted

\* A broadcast reaches everybody in the channel, and each client gets what every
\* other one said in order and nothing behind a close frame.
SaidInOrder == part = "chat" => Channel!SaidInOrder

\* The requests to the store take effect one at a time, though delete takes the
\* lock twice, and a delete that panics was overtaken by another one.
Atomic == /\ part = "store" => Store!StartsAtomic
          /\ [][part = "store" => Store!StepsAtomic]_vars
          /\ [](part = "store" => Store!PanicOnlyIfOvertaken)

\* "No such table" is met only after two statements have held connections at the
\* same time or the pool has closed one, create_post answers with the post it
\* made, and no update makes a post that was deleted come back.
PostsKeptApart ==
    /\ [](part = "blog" => Blog!FailsOnlyIfCrowdedOrReplaced /\ Blog!CreatedIsMine)
    /\ [][part = "blog" => ~Blog!Revives]_vars
=============================================================================
