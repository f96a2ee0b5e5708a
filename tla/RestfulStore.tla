----------------------------- MODULE RestfulStore -----------------------------
(* The database of examples/restful-api.rs: a slab of users behind a          *)
(* read-write lock. No lock is held across an await, so what happens under    *)
(* one is a step; delete takes the lock twice.                                *)
EXTENDS Naturals, FiniteSets

CONSTANTS Clients,   \* connections, each with a request at a time
          Ids,       \* bound: the indexes of the slab
          Users, NoUser

RestfulStoreAssumption == NoUser \notin Users

VARIABLES table,     \* Database.table
          at,        \* where the request of each client is
          request,   \* what it asks for
          answer,    \* the response
          overtaken  \* history: the deletes that another delete has overtaken

vars == <<table, at, request, answer, overtaken>>

R == INSTANCE Records WITH at <- [c \in Clients |->
         IF at[c] \in {"removing", "panicked"} THEN "asked" ELSE at[c]]

Init == /\ table = [i \in Ids |-> NoUser]
        /\ at = [c \in Clients |-> "idle"]
        /\ request = [c \in Clients |-> R!NoRequest]
        /\ answer = [c \in Clients |-> R!NoAnswer]
        /\ overtaken = {}

Stored == {i \in Ids : table[i] # NoUser}

\* A request whose id and body parse: the others never reach the database.
Ask(c) == /\ at[c] = "idle"
          /\ \E r \in R!Requests : request' = [request EXCEPT ![c] = r]
          /\ at' = [at EXCEPT ![c] = "asked"]
          /\ UNCHANGED <<table, answer, overtaken>>

Asks(c, op) == at[c] = "asked" /\ request[c].op = op

Respond(c, a) == /\ answer' = [answer EXCEPT ![c] = a]
                 /\ at' = [at EXCEPT ![c] = "answered"]
                 /\ UNCHANGED request

\* Slab::insert takes a vacant entry.
create(c) ==
    /\ Asks(c, "create")
    /\ \E i \in Ids \ Stored :
           /\ table' = [table EXCEPT ![i] = request[c].user]
           /\ Respond(c, [status |-> "201", id |-> i])
    /\ UNCHANGED overtaken

retrieve(c) ==
    /\ Asks(c, "retrieve")
    /\ Respond(c, IF request[c].id \in Stored
                  THEN [status |-> "200", user |-> table[request[c].id]]
                  ELSE R!NotFound)
    /\ UNCHANGED <<table, overtaken>>

\* mem::swap: the request ends up with the old user.
SwappedOut_NewUser(c) == request[c].user                     \* mutant: a copy
SwappedOut(c) == table[request[c].id]

update(c) ==
    /\ Asks(c, "update")
    /\ IF request[c].id \in Stored
       THEN /\ table' = [table EXCEPT ![request[c].id] = request[c].user]
            /\ Respond(c, [status |-> "200", user |-> SwappedOut(c)])
       ELSE UNCHANGED table /\ Respond(c, R!NotFound)
    /\ UNCHANGED overtaken

\* delete looks under the read lock ..
delete_check(c) ==
    /\ Asks(c, "delete")
    /\ IF request[c].id \in Stored
       THEN at' = [at EXCEPT ![c] = "removing"] /\ UNCHANGED <<request, answer>>
       ELSE Respond(c, R!NotFound)
    /\ UNCHANGED <<table, overtaken>>

\* .. and removes under the write lock what is there by then.
delete_remove(c) ==
    /\ at[c] = "removing"
    /\ request[c].id \in Stored
    /\ table' = [table EXCEPT ![request[c].id] = NoUser]
    /\ Respond(c, [status |-> "200", user |-> table[request[c].id]])
    /\ overtaken' = (overtaken \ {c}) \cup
                    {d \in Clients \ {c} : at[d] = "removing" /\ request[d].id = request[c].id}

\* Slab::remove panics on a vacant entry and leaves it vacant; the connection is
\* gone, for the client there is no answer.
delete_panic(c) ==
    /\ at[c] = "removing"
    /\ request[c].id \notin Stored
    /\ at' = [at EXCEPT ![c] = "panicked"]
    /\ UNCHANGED <<table, request, answer, overtaken>>

\* The response is taken, the connection has broken off or, after a panic, the
\* client has come back: hyper drops the handler wherever it waits.
Return(c) ==
    /\ at[c] # "idle"
    /\ at' = [at EXCEPT ![c] = "idle"]
    /\ request' = [request EXCEPT ![c] = R!NoRequest]
    /\ answer' = [answer EXCEPT ![c] = R!NoAnswer]
    /\ overtaken' = overtaken \ {c}
    /\ UNCHANGED table

Handle(c) == \/ create(c) \/ retrieve(c) \/ update(c)
             \/ delete_check(c) \/ delete_remove(c) \/ delete_panic(c)

Next == \E c \in Clients : Ask(c) \/ Handle(c) \/ Return(c)

Spec == Init /\ [][Next]_vars

-----------------------------------------------------------------------------
\* Every request takes effect in one step between the call and its answer, though
\* delete looks at the table and changes it under two locks: what it answers is
\* the user it removed, even when the id was given to somebody else in between.
Atomic == R!Spec

\* The two halves of Atomic.
StartsAtomic == R!Init
StepsAtomic == [R!Next]_(R!vars)

\* A delete panics only if another delete of the same id was answered between its
\* look at the table and the removal.
PanicOnlyIfOvertaken == \A c \in Clients : at[c] = "panicked" => c \in overtaken
=============================================================================
