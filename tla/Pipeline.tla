------------------------------ MODULE Pipeline ------------------------------
(***************************************************************************)
(* One request through a roa application: HttpService::serve runs the      *)
(* endpoint App::end built, a chain of middlewares around an endpoint.     *)
(*                                                                         *)
(* Layer 1 is the outermost middleware and layer Depth+1 the endpoint.     *)
(* Every layer gets the same context: Chain aliases it with a raw pointer  *)
(* and hands each middleware a reference to `next`, the future of the rest,*)
(* which does nothing until it is polled.  A middleware may stop polling   *)
(* next half way (a timeout, a select) and may take it up again.  The      *)
(* futures are locals of the frames around the outermost middleware, for   *)
(* App::gate nests chains to the left: all of them go when that returns.   *)
(* The layers in Loggers are roa::logger::logger; the others are arbitrary *)
(* handlers.                                                               *)
(***************************************************************************)
EXTENDS Naturals, Sequences, FiniteSets

CONSTANTS
  Depth,     \* middlewares gated on the application
  Loggers,   \* the layers that are roa::logger
  Codes,     \* status codes the handlers set and throw
  MaxBody    \* bound: parts of a body the handlers write

ASSUME PipelineAssumption == /\ Depth \in Nat
                             /\ Loggers \subseteq 1..Depth
                             /\ 200 \in Codes /\ Codes \subseteq Nat
                             /\ MaxBody \in Nat

VARIABLES
  serving,  \* serve's future: running, logging, replied, cancelled, panicked
  pc,       \* each layer's future
  result,   \* what each layer's next returned to it (0: what serve got)
  resp,     \* ctx.resp: its status and the parts of its body
  line      \* the blocking tasks that print an error line, by layer (0: serve)

vars == <<serving, pc, result, resp, line>>

Layers == 1..(Depth + 1)
Live == {"running", "awaiting", "logging"}

(* A message, by the layer that threw it; "" (0) is no secret.             *)
Message == [by : 0..(Depth + 1), public : BOOLEAN]
Empty == [by |-> 0, public |-> TRUE]

(* roa_core::Result.  origin is the message the status was thrown with.    *)
Result == [kind : {"none", "ok", "err"}, code : Codes, expose : BOOLEAN,
           message : Message, origin : Message]
Plain(kind) == [kind |-> kind, code |-> 200, expose |-> TRUE,
                message |-> Empty, origin |-> Empty]

Part == [kind : {"data", "message", "logger"}, by : 0..(Depth + 1), message : Message]

TypeOK ==
  /\ serving \in {"running", "logging", "replied", "cancelled", "panicked"}
  /\ pc \in [Layers -> Live \cup {"unpolled", "returned", "dropped"}]
  /\ result \in [0..Depth -> Result]
  /\ resp \in [status : Codes, body : Seq(Part)]
  /\ line \in [0..Depth -> [state : {"none", "spawned", "printed"}, message : Message]]

(* serve has built the context and polled the outermost layer.             *)
Init ==
  /\ serving = "running"
  /\ pc = [i \in Layers |-> IF i = 1 THEN "running" ELSE "unpolled"]
  /\ result = [i \in 0..Depth |-> Plain("none")]
  /\ resp = [status |-> 200, body |-> <<>>]
  /\ line = [i \in 0..Depth |-> [state |-> "none", message |-> Empty]]

-----------------------------------------------------------------------------
(* The connection's task polls the outermost layer, which polls its next   *)
(* only while it awaits it, and so on: layer i runs when all of the layers *)
(* outside it await.                                                       *)
Polled_ByCallerOnly(i) == serving = "running" /\ \A j \in {i - 1} \cap Layers : pc[j] = "awaiting"
Polled(i) == serving = "running" /\ \A j \in 1..(i - 1) : pc[j] = "awaiting"

Runs(i) == Polled(i) /\ pc[i] = "running"

(* next.await: next starts, or goes on where it was left.                  *)
Handle(i) == /\ Runs(i) /\ i <= Depth
             /\ pc[i + 1] \in Live \cup {"unpolled"}
             /\ pc' = [pc EXCEPT ![i] = "awaiting",
                                 ![i + 1] = IF @ = "unpolled" THEN "running" ELSE @]
             /\ UNCHANGED <<serving, result, resp, line>>

(* A handler goes on without waiting for next, which stays where it is.    *)
StopAwaiting(i) ==
  /\ Polled(i) /\ i \notin Loggers /\ pc[i] = "awaiting"
  /\ pc' = [pc EXCEPT ![i] = "running"]
  /\ UNCHANGED <<serving, result, resp, line>>

(* The futures of all layers are dropped, polled or not.                   *)
Dropped(i) == IF pc[i] \in Live \cup {"unpolled"} THEN "dropped" ELSE pc[i]

(* Layer i ends with r, which is what its caller's await yields.           *)
Returned_FuturesKept(i) ==
  [j \in Layers |-> IF j = i THEN "returned"
                    ELSE IF j = i - 1 THEN "running" ELSE pc[j]]
Returned_NotResumed(i) ==
  [j \in Layers |-> IF j = i THEN "returned"
                    ELSE IF i = 1 THEN Dropped(j) ELSE pc[j]]
Returned(i) ==
  [j \in Layers |-> IF j = i THEN "returned"
                    ELSE IF i = 1 THEN Dropped(j)
                    ELSE IF j = i - 1 THEN "running" ELSE pc[j]]

Yields(i, r) ==
  /\ pc' = Returned(i)
  /\ result' = [j \in 0..Depth |-> IF j = i - 1 THEN r
                                   ELSE IF j < i - 1 THEN result[j] ELSE Plain("none")]

(* status! and throw!: a message is shown to the client only if the thrower*)
(* says so; an error converted with `?` is a 500 that is not exposed.      *)
Thrown(i) ==
  {[kind |-> "err", code |-> c, expose |-> e, message |-> [by |-> i, public |-> e],
    origin |-> [by |-> i, public |-> e]] : c \in Codes, e \in BOOLEAN}

(* A handler ends: it passes on what next returned, recovers, or throws.   *)
PassedOn(i) == {result[j] : j \in {k \in 0..Depth : k = i /\ result[k].kind # "none"}}

Return(i) ==
  /\ Runs(i) /\ i \notin Loggers
  /\ \E r \in {Plain("ok")} \cup Thrown(i) \cup PassedOn(i) : Yields(i, r)
  /\ UNCHANGED <<serving, resp, line>>

(* A handler sets the status or appends to the body.                       *)
WriteResponse(i) ==
  /\ Runs(i) /\ i \notin Loggers
  /\ \/ \E c \in Codes : resp' = [resp EXCEPT !.status = c]
     \/ /\ Len(resp.body) < MaxBody
        /\ resp' = [resp EXCEPT !.body = Append(@, [kind |-> "data", by |-> i, message |-> Empty])]
  /\ UNCHANGED <<serving, pc, result, line>>

(* A handler panics, or awaits next again after it ended, which panics.    *)
Panic(i) ==
  /\ Runs(i) /\ i \notin Loggers
  /\ serving' = "panicked"
  /\ pc' = [j \in Layers |-> Dropped(j)]
  /\ UNCHANGED <<result, resp, line>>

-----------------------------------------------------------------------------
(* roa::logger::logger, after next.                                        *)

(* An unexposed status is marked exposed, for serve not to log it again,   *)
(* and loses its message to the logger.                                    *)
Hidden_MessageKept(r) == [r EXCEPT !.expose = TRUE]
Hidden(r) == IF r.expose THEN r ELSE [r EXCEPT !.expose = TRUE, !.message = Empty]

LoggerErr(i) ==
  /\ Runs(i) /\ i \in Loggers /\ result[i].kind = "err"
  /\ line' = [line EXCEPT ![i] = [state |-> "spawned", message |-> result[i].message]]
  /\ result' = [result EXCEPT ![i] = Hidden(@)]
  /\ pc' = [pc EXCEPT ![i] = "logging"]
  /\ UNCHANGED <<serving, resp>>

(* The error line is printed and the logger returns the status.            *)
LoggerErrLogged(i) ==
  /\ Polled(i) /\ i \in Loggers /\ pc[i] = "logging" /\ line[i].state = "printed"
  /\ Yields(i, result[i])
  /\ UNCHANGED <<serving, resp, line>>

(* A success is logged by the body: the logger wraps what it holds so far. *)
Wrap_First(i) ==
  [resp EXCEPT !.body = <<[kind |-> "logger", by |-> i, message |-> Empty]>> \o @]
Wrap_Skipped(i) ==
  IF resp.body = <<>> THEN resp
  ELSE [resp EXCEPT !.body = Append(@, [kind |-> "logger", by |-> i, message |-> Empty])]
Wrap(i) == [resp EXCEPT !.body = Append(@, [kind |-> "logger", by |-> i, message |-> Empty])]
LoggerOk(i) ==
  /\ Runs(i) /\ i \in Loggers /\ result[i].kind = "ok"
  /\ resp' = Wrap(i)
  /\ Yields(i, result[i])
  /\ UNCHANGED <<serving, line>>

-----------------------------------------------------------------------------
(* serve, when the outermost layer has returned.                           *)

ServeOk ==
  /\ serving = "running" /\ result[0].kind = "ok"
  /\ serving' = "replied"
  /\ UNCHANGED <<pc, result, resp, line>>

ServeExposed ==
  /\ serving = "running" /\ result[0].kind = "err" /\ result[0].expose
  /\ resp' = [status |-> result[0].code,
              body |-> Append(resp.body,
                              [kind |-> "message", by |-> 0, message |-> result[0].message])]
  /\ serving' = "replied"
  /\ UNCHANGED <<pc, result, line>>

ServeUnexposed ==
  /\ serving = "running" /\ result[0].kind = "err" /\ ~result[0].expose
  /\ resp' = [resp EXCEPT !.status = result[0].code]
  /\ line' = [line EXCEPT ![0] = [state |-> "spawned", message |-> result[0].message]]
  /\ serving' = "logging"
  /\ UNCHANGED <<pc, result>>

ServeLogged ==
  /\ serving = "logging" /\ line[0].state = "printed"
  /\ serving' = "replied"
  /\ UNCHANGED <<pc, result, resp, line>>

(* The connection is lost: hyper drops serve's future.                     *)
Cancel ==
  /\ serving \in {"running", "logging"}
  /\ serving' = "cancelled"
  /\ pc' = [i \in Layers |-> Dropped(i)]
  /\ UNCHANGED <<result, resp, line>>

(* A blocking thread runs a spawned log task, awaited or not.              *)
PrintLine(i) ==
  /\ line[i].state = "spawned"
  /\ line' = [line EXCEPT ![i].state = "printed"]
  /\ UNCHANGED <<serving, pc, result, resp>>

Ends(i) == Return(i) \/ LoggerErr(i) \/ LoggerErrLogged(i) \/ LoggerOk(i)
Serve == ServeOk \/ ServeExposed \/ ServeUnexposed \/ ServeLogged

Next ==
  \/ \E i \in Layers : Handle(i) \/ StopAwaiting(i) \/ Ends(i) \/ WriteResponse(i) \/ Panic(i)
  \/ \E i \in 0..Depth : PrintLine(i)
  \/ Serve \/ Cancel

Spec == Init /\ [][Next]_vars

(* hyper polls the request it holds and blocking tasks run.  Handlers end: *)
(* one that takes next up again and again lets it get on, and one that     *)
(* does not return itself.                                                 *)
FairSpec == /\ Spec
            /\ WF_vars((\E i \in Layers : Handle(i) \/ Ends(i)) \/ Serve)
            /\ SF_vars(\E i \in Layers : Ends(i))
            /\ \A i \in 0..Depth : WF_vars(PrintLine(i))

-----------------------------------------------------------------------------
(* No layer outlives the context it holds a reference to: when serve takes *)
(* the response out of the context, or its future is gone, every layer has *)
(* returned or its future has been dropped, the half polled ones included. *)
ContextReleased ==
  serving # "running" \/ result[0].kind # "none" =>
    \A i \in Layers : pc[i] \in {"returned", "dropped"}

(* A layer that was left half way is not run again once a layer outside it *)
(* has returned, though its future and its reference to the context still  *)
(* exist.                                                                  *)
AbandonedNeverRuns ==
  [][\A i, j \in Layers : i < j /\ pc[i] = "returned" => pc'[j] \in {pc[j], "dropped"}]_vars

(* A message that was thrown unexposed is never written to the response,   *)
(* through whatever loggers, recoveries and abandoned futures it went.     *)
UnexposedNeverSent ==
  \A k \in DOMAIN resp.body : resp.body[k].message.public

(* An unexposed error that ends the request is printed exactly once before *)
(* the reply: by the innermost logger it passed, or else by serve.         *)
UncaughtLoggedOnce ==
  serving = "replied" /\ result[0].kind = "err" /\ ~result[0].origin.public =>
    Cardinality({i \in 0..Depth :
      line[i] = [state |-> "printed", message |-> result[0].origin]}) = 1

(* Each logger that returned has reported its part of the request in one   *)
(* of two ways: it printed an error line, or it wrapped the body, once.    *)
LoggedOrWrapped ==
  serving = "replied" => \A l \in Loggers : pc[l] = "returned" =>
    Cardinality({k \in DOMAIN resp.body : resp.body[k].kind = "logger" /\ resp.body[k].by = l})
      = IF line[l].state = "printed" THEN 0 ELSE 1

(* A logger's byte count covers all that the layers inside it wrote.       *)
InnerWritesCounted ==
  \A k, m \in DOMAIN resp.body :
    resp.body[k].kind = "logger" /\ resp.body[m].by > resp.body[k].by => m < k

(* Every request that is not cancelled and does not panic gets a response. *)
Replies == serving = "running" ~> serving \in {"replied", "cancelled", "panicked"}
=============================================================================
