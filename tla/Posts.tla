--------------------------------- MODULE Posts ---------------------------------
(* The endpoints of integration/diesel-example. Every statement runs on a     *)
(* connection of the pool, and the database is ":memory:": every connection   *)
(* has one of its own, and only one of them was given the table. The pool has     *)
(* the defaults of r2d2: it closes connections that were idle or alive for    *)
(* too long and opens others for them. How a statement gets its connection,   *)
(* and what becomes of those of dropped requests, is the subject of           *)
(* DieselPool.                                                                *)
EXTENDS Naturals, Sequences, Filter

CONSTANTS Clients,   \* connections, each with a request at a time
          Conns,     \* the slots of the pool for connections
          MaxId,     \* bound: the ids of posts
          Bodies,    \* what a post says
          Published  \* those of them that are published

PostsAssumption ==
    Published \subseteq Bodies /\ MaxId \in Nat \ {0} /\ IsFiniteSet(Conns)

VARIABLES home,      \* the connection whose database has the table, or none
          posts,     \* the table: what the posts say, by id
          idle,      \* the connections in the pool, the next one first
          conn,      \* the connection a client's statement has, or none
          at,        \* the statement the request of a client is about to run
          request,   \* what the client asks for
          found,     \* the post the first statement found, or none
          answer,    \* the response
          crowded,   \* history: two statements had a connection at a time
          replaced   \* history: the pool has closed a connection or opened another

vars == <<home, posts, idle, conn, at, request, found, answer, crowded, replaced>>

Ids == 1 .. MaxId

Requests ==      [op : {"create"}, body : Bodies]
            \cup [op : {"get", "delete"}, id : Ids]
            \cup [op : {"update"}, id : Ids, body : Bodies]

NoRequest == [op |-> "none"]
NoAnswer == [status |-> "none", post |-> {}]

\* create_pool: one of the connections makes the table and is put back.
Init == /\ home \in {{k} : k \in Conns}
        /\ posts = [i \in Ids |-> {}]
        /\ idle \in {s \in SetToSeqs(Conns) : {s[1]} = home}
        /\ conn = [c \in Clients |-> {}]
        /\ at = [c \in Clients |-> "idle"]
        /\ request = [c \in Clients |-> NoRequest]
        /\ found = [c \in Clients |-> {}]
        /\ answer = [c \in Clients |-> NoAnswer]
        /\ crowded = FALSE
        /\ replaced = FALSE

Ask(c) == /\ at[c] = "idle"
          /\ \E r \in Requests :
                 /\ request' = [request EXCEPT ![c] = r]
                 /\ at' = [at EXCEPT ![c] = IF r.op = "create" THEN "insert" ELSE "first"]
          /\ UNCHANGED <<home, posts, idle, conn, found, answer, crowded, replaced>>

-----------------------------------------------------------------------------
\* The pool is a stack.
PutBack(k) == <<k>> \o idle

Checkout(c) ==
    /\ at[c] \in {"insert", "first", "execute"} /\ conn[c] = {}
    /\ idle # <<>>
    /\ conn' = [conn EXCEPT ![c] = {Head(idle)}]
    /\ idle' = Tail(idle)
    /\ crowded' = (crowded \/ \E d \in Clients : conn[d] # {})
    /\ UNCHANGED <<home, posts, at, request, found, answer, replaced>>

Done(c) == /\ conn' = [conn EXCEPT ![c] = {}]
           /\ \E k \in conn[c] : idle' = PutBack(k)
           /\ UNCHANGED <<home, request, crowded, replaced>>

Answer(c, status, post) ==
    /\ answer' = [answer EXCEPT ![c] = [status |-> status, post |-> post]]
    /\ at' = [at EXCEPT ![c] = "answered"]

\* The reaper closes a connection of the pool, and a ":memory:" database goes with
\* its connection.
Reap(k) ==
    /\ k \in ToSet(idle)
    /\ idle' = Only(idle, Conns \ {k})
    /\ home' = home \ {k}
    /\ posts' = (IF k \in home THEN [i \in Ids |-> {}] ELSE posts)
    /\ replaced' = TRUE
    /\ UNCHANGED <<conn, at, request, found, answer, crowded>>

\* The connection opened in its place comes on top, with a database without tables.
Replace(k) ==
    /\ k \notin ToSet(idle) /\ \A c \in Clients : k \notin conn[c]
    /\ idle' = PutBack(k)
    /\ replaced' = TRUE
    /\ UNCHANGED <<home, posts, conn, at, request, found, answer, crowded>>

\* "no such table".
Fails(c) == /\ conn[c] # {} /\ conn[c] # home
            /\ Answer(c, "500", {})
            /\ Done(c)
            /\ UNCHANGED <<posts, found>>

At(c, statement) == at[c] = statement /\ conn[c] # {} /\ conn[c] = home

Stored == {i \in Ids : posts[i] # {}}

\* An INTEGER PRIMARY KEY is one more than the highest there is.
NewId == {i \in Ids : (i = 1 \/ i - 1 \in Stored) /\ \A j \in Stored : j < i}

\* create_post: the new post is the last one, in the same transaction.
Latest_Oldest(rows) ==                                  \* mutant: id.asc()
    {[id |-> i, body |-> rows[i]] : i \in
        {j \in Ids : rows[j] # {} /\ \A k \in Ids : rows[k] # {} => j <= k}}

Latest(rows) == {[id |-> i, body |-> rows[i]] : i \in
                    {j \in Ids : rows[j] # {} /\ \A k \in Ids : rows[k] # {} => k <= j}}

insert(c) ==
    /\ At(c, "insert")
    /\ \E i \in NewId :
           /\ posts' = [posts EXCEPT ![i] = {request[c].body}]
           /\ Answer(c, "201", Latest(posts'))
    /\ Done(c)
    /\ UNCHANGED found

\* first(posts.find(id)); get_post wants published ones only.
Find(c) == {[id |-> i, body |-> posts[i]] : i \in
               {j \in Stored : /\ j = request[c].id
                               /\ request[c].op = "get" => posts[j] \subseteq Published}}

first(c) ==
    /\ At(c, "first")
    /\ IF Find(c) = {} THEN Answer(c, "404", {}) /\ UNCHANGED found
       ELSE IF request[c].op = "get" THEN Answer(c, "200", Find(c)) /\ UNCHANGED found
       ELSE /\ found' = [found EXCEPT ![c] = Find(c)]
            /\ at' = [at EXCEPT ![c] = "execute"]
            /\ UNCHANGED answer
    /\ Done(c)
    /\ UNCHANGED posts

\* UPDATE and DELETE change the rows they find, and nobody looks how many.
Row(c) == IF request[c].op = "update" /\ request[c].id \in Stored THEN {request[c].body} ELSE {}

execute(c) ==
    /\ At(c, "execute")
    /\ posts' = [posts EXCEPT ![request[c].id] = Row(c)]
    /\ Answer(c, "200", found[c])
    /\ Done(c)
    /\ UNCHANGED found

Return(c) == /\ at[c] = "answered"
             /\ at' = [at EXCEPT ![c] = "idle"]
             /\ request' = [request EXCEPT ![c] = NoRequest]
             /\ found' = [found EXCEPT ![c] = {}]
             /\ answer' = [answer EXCEPT ![c] = NoAnswer]
             /\ UNCHANGED <<home, posts, idle, conn, crowded, replaced>>

Next == \E c \in Clients : \/ Ask(c) \/ Checkout(c) \/ Fails(c)
                           \/ insert(c) \/ first(c) \/ execute(c) \/ Return(c)
        \/ \E k \in Conns : Reap(k) \/ Replace(k)

Spec == Init /\ [][Next]_vars

-----------------------------------------------------------------------------
\* "No such table" is met only after two statements have held connections at the
\* same time or the pool has closed a connection: until then the connection with
\* the table is on top of the stack whenever a statement asks for one. With the
\* defaults of make_pool it closes a connection that nobody used for ten minutes or
\* that is half an hour old: this is about the first minutes of a server only.
FailsOnlyIfCrowdedOrReplaced ==
    \A c \in Clients : answer[c].status = "500" => crowded \/ replaced

\* create_post answers with the post it has just made, though it asks for the post
\* with the highest id only.
CreatedIsMine ==
    \A c \in Clients : answer[c].status = "201" =>
        \A p \in answer[c].post : p.body = {request[c].body}

\* A post that was deleted does not come back with an update that had found it
\* before: only create_post fills an id.
Revives ==
    \E i \in Ids : /\ posts[i] = {} /\ posts'[i] # {}
                   /\ \A c \in Clients : ~(at[c] = "insert" /\ at'[c] = "answered")
=============================================================================
