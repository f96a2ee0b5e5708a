------------------------------- MODULE Websocket -------------------------------
(* roa::websocket::Websocket: the endpoint spawns a task that waits for the   *)
(* socket and answers 101; the layers around it, serve and hyper then decide  *)
(* whether that is what the client gets.                                      *)
EXTENDS Naturals

CONSTANTS Requests,   \* each on a connection of its own
          Codes       \* what other handlers answer and throw

WebsocketAssumption == 400 \in Codes /\ {0, 101} \cap Codes = {}

VARIABLES at,         \* where the request is
          valid,      \* it has the headers of a websocket handshake
          upgrade,    \* who has hyper's OnUpgrade: request, layer, task
          result,     \* what the last handler returned: Ok or the code thrown
          resp,       \* ctx.resp: the status, and the headers of an upgrade
          task        \* the spawned task

vars == <<at, valid, upgrade, result, resp, task>>

Ok == 0

Init == /\ at = [r \in Requests |-> "layers"]
        /\ valid \in [Requests -> BOOLEAN]
        /\ upgrade = [r \in Requests |-> "request"]
        /\ result = [r \in Requests |-> Ok]
        /\ resp = [r \in Requests |-> [status |-> 200, accepted |-> FALSE]]
        /\ task = [r \in Requests |-> "none"]

Goes(r, place) == at' = [at EXCEPT ![r] = place]

-----------------------------------------------------------------------------
\* The layers outside hand on the request; one of them may have taken it raw, and
\* OnUpgrade with it. Its headers are still there.
Next_await(r) ==
    /\ at[r] = "layers"
    /\ Goes(r, "endpoint")
    /\ \E holder \in {"request", "layer"} : upgrade' = [upgrade EXCEPT ![r] = holder]
    /\ UNCHANGED <<valid, result, resp, task>>

Refuse(r) ==
    /\ at[r] = "endpoint" /\ ~valid[r]
    /\ result' = [result EXCEPT ![r] = 400]
    /\ Goes(r, "returned")
    /\ UNCHANGED <<valid, upgrade, resp, task>>

\* ctx.req.take_raw() goes to the task.
Taken(r) == IF upgrade[r] = "request" THEN [upgrade EXCEPT ![r] = "task"] ELSE upgrade

Spawn(r) == /\ upgrade' = Taken(r)
            /\ task' = [task EXCEPT ![r] = "waiting"]

Switch(r) == /\ resp' = [resp EXCEPT ![r] = [status |-> 101, accepted |-> TRUE]]
             /\ result' = [result EXCEPT ![r] = Ok]
             /\ Goes(r, "returned")

call_Awaiting(r) ==                                    \* mutant: exec.spawn(..).await
    /\ at[r] = "endpoint" /\ valid[r]
    /\ \/ task[r] = "none" /\ Spawn(r) /\ UNCHANGED <<at, result, resp>>
       \/ task[r] = "ended" /\ Switch(r) /\ UNCHANGED <<upgrade, task>>
    /\ UNCHANGED valid

call(r) ==
    /\ at[r] = "endpoint" /\ valid[r]
    /\ Spawn(r)
    /\ Switch(r)
    /\ UNCHANGED valid

\* The layers outside return: they pass the result on, throw or recover, and they
\* may set the status.
Return(r) ==
    /\ at[r] = "returned"
    /\ \E outcome \in {result[r], Ok} \cup Codes : result' = [result EXCEPT ![r] = outcome]
    /\ \E status \in {resp[r].status} \cup Codes : resp' = [resp EXCEPT ![r].status = status]
    /\ Goes(r, "serve")
    /\ UNCHANGED <<valid, upgrade, task>>

\* HttpService::serve.
Status_Kept(r) ==                                      \* mutant: a status that was set stays
    IF resp[r].status = 200 /\ result[r] # Ok THEN result[r] ELSE resp[r].status
Status(r) == IF result[r] = Ok THEN resp[r].status ELSE result[r]

serve(r) ==
    /\ at[r] = "serve"
    /\ resp' = [resp EXCEPT ![r].status = Status(r)]
    /\ Goes(r, "answering")
    /\ UNCHANGED <<valid, upgrade, result, task>>

\* hyper writes the response and, after a 101, gives up the connection.
Answer(r) ==
    /\ at[r] = "answering"
    /\ Goes(r, IF resp[r].status = 101 THEN "switched" ELSE "answered")
    /\ UNCHANGED <<valid, upgrade, result, resp, task>>

\* The client has left: hyper drops the handlers, the task was spawned and stays.
Leave(r) == /\ at[r] # "gone"
            /\ Goes(r, "gone")
            /\ UNCHANGED <<valid, upgrade, result, resp, task>>

-----------------------------------------------------------------------------
\* upgrade::on(raw_req).await
Upgraded(r) ==
    /\ task[r] = "waiting" /\ upgrade[r] = "task" /\ at[r] = "switched"
    /\ task' = [task EXCEPT ![r] = "running"]
    /\ UNCHANGED <<at, valid, upgrade, result, resp>>

UpgradeError(r) ==
    /\ task[r] = "waiting"
    /\ upgrade[r] = "task" => at[r] \in {"answered", "gone"}
    /\ task' = [task EXCEPT ![r] = "ended"]
    /\ UNCHANGED <<at, valid, upgrade, result, resp>>

TaskEnds(r) ==
    /\ task[r] = "running"
    /\ task' = [task EXCEPT ![r] = "ended"]
    /\ UNCHANGED <<at, valid, upgrade, result, resp>>

Upgrading(r) == Upgraded(r) \/ UpgradeError(r)
Handle(r) == Next_await(r) \/ Refuse(r) \/ call(r) \/ Return(r) \/ serve(r) \/ Answer(r)

Next == \E r \in Requests :
            Handle(r) \/ Leave(r) \/ Upgrading(r) \/ TaskEnds(r)

\* Handlers return, and the runtime polls the connection and the task.
Fairness == \A r \in Requests : WF_vars(Handle(r)) /\ WF_vars(Upgrading(r))

Spec == Init /\ [][Next]_vars /\ Fairness

-----------------------------------------------------------------------------
\* The task gets the socket of a client only if the handshake was right and every
\* layer let the answer pass: one that throws or answers for itself keeps it out.
RefusedNeverServed ==
    \A r \in Requests : task[r] = "running" =>
        valid[r] /\ resp[r].accepted /\ result[r] = Ok

\* Where a request is, and what its task can hope for.
IsAt(r, places) == at[r] \in places
Waiting(r) == task[r] = "waiting"
Promised(r) == at[r] = "switched" /\ Waiting(r) /\ upgrade[r] # "layer"
Served(r) == task[r] = "running" \/ at[r] = "gone"

\* A client that was told to switch is served, unless it leaves or a layer has
\* taken the raw request before.
SwitchedIsServed == \A r \in Requests : Promised(r) ~> Served(r)

\* A request is answered while its task still waits, and no task waits forever for
\* an upgrade that the layers outside have turned into something else.
NobodyWaitsForever ==
    \A r \in Requests : /\ IsAt(r, {"endpoint"}) ~> IsAt(r, {"answered", "switched", "gone"})
                        /\ Waiting(r) ~> ~Waiting(r)
=============================================================================
