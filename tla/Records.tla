-------------------------------- MODULE Records --------------------------------
(* What a store of records promises to clients who call it at the same time:  *)
(* every request takes effect in one step between the call and its answer. A  *)
(* client may give up a request, before or after it took effect.              *)
EXTENDS Naturals

CONSTANTS Clients, Ids, Users, NoUser

VARIABLES table,     \* the record stored under each id
          at,        \* idle, asked or answered
          request,   \* what the client asks for
          answer     \* what it was told

vars == <<table, at, request, answer>>

Requests ==      [op : {"create"}, user : Users]
            \cup [op : {"retrieve", "delete"}, id : Ids]
            \cup [op : {"update"}, id : Ids, user : Users]

NoRequest == [op |-> "none"]
NoAnswer == [status |-> "none"]
NotFound == [status |-> "404"]

Stored == {i \in Ids : table[i] # NoUser}

Init == /\ table = [i \in Ids |-> NoUser]
        /\ at = [c \in Clients |-> "idle"]
        /\ request = [c \in Clients |-> NoRequest]
        /\ answer = [c \in Clients |-> NoAnswer]

Ask(c) == /\ at[c] = "idle"
          /\ \E r \in Requests : request' = [request EXCEPT ![c] = r]
          /\ at' = [at EXCEPT ![c] = "asked"]
          /\ UNCHANGED <<table, answer>>

OfRecord(c) == at[c] = "asked" /\ request[c].op \in {"retrieve", "update", "delete"}

Answers(c, a) == /\ answer' = [answer EXCEPT ![c] = a]
                 /\ at' = [at EXCEPT ![c] = "answered"]
                 /\ UNCHANGED request

Create(c) == /\ at[c] = "asked" /\ request[c].op = "create"
             /\ \E i \in Ids \ Stored :
                    /\ table' = [table EXCEPT ![i] = request[c].user]
                    /\ Answers(c, [status |-> "201", id |-> i])

Missing(c) == /\ OfRecord(c)
              /\ request[c].id \notin Stored
              /\ Answers(c, NotFound)
              /\ UNCHANGED table

Found(c) == /\ OfRecord(c)
            /\ request[c].id \in Stored
            /\ Answers(c, [status |-> "200", user |-> table[request[c].id]])
            /\ table' = CASE request[c].op = "update" -> [table EXCEPT ![request[c].id] = request[c].user]
                          [] request[c].op = "delete" -> [table EXCEPT ![request[c].id] = NoUser]
                          [] OTHER -> table

Return(c) == /\ at[c] # "idle"
             /\ at' = [at EXCEPT ![c] = "idle"]
             /\ request' = [request EXCEPT ![c] = NoRequest]
             /\ answer' = [answer EXCEPT ![c] = NoAnswer]
             /\ UNCHANGED table

Next == \E c \in Clients : Ask(c) \/ Create(c) \/ Missing(c) \/ Found(c) \/ Return(c)

Spec == Init /\ [][Next]_vars
=============================================================================
