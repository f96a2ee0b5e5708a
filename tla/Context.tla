------------------------------- MODULE Context -------------------------------
(* roa_core::Context and its Storage: an App clones its state into a service  *)
(* per connection, a service into a context per request, and a program may    *)
(* clone a context to use it in a task of its own. Requests of one or of      *)
(* several connections are served at the same time.                           *)
EXTENDS Naturals, Sequences, FiniteSets

CONSTANTS Conns,       \* connections
          Ctxs,        \* contexts
          Scopes,      \* scopes: types, PublicScope among them
          Keys,        \* names of variables
          Types,       \* types of values
          MaxWrites    \* bound on stores and on changes of a state

\* No variable of a storage is called as the model calls the state.
ContextAssumption == MaxWrites \in Nat /\ <<"state", "state">> \notin Scopes \X Keys

VARIABLES app,         \* App::state
          services,    \* the state of the service of every connection, or NoService
          ctxs,        \* the contexts
          log          \* history: every store and change of a state so far

vars == <<app, services, ctxs, log>>

None == [type |-> "none", value |-> 0]

NoService == 99

Slots == Scopes \X Keys

\* Storage::new.
EmptyStorage == [slot \in Slots |-> None]

\* The body of a request, and the extensions hyper needs to upgrade it. readers
\* is history: the contexts that got the bytes, and lineage: the contexts whose
\* writes a context has, with the number of writes there were when it got them.
Unused == [phase |-> "unused", state |-> 0, storage |-> EmptyStorage,
           body |-> "empty", extensions |-> FALSE, request |-> 0, read |-> 0,
           lineage |-> [k \in Ctxs |-> 0]]

Init == /\ app = 0
        /\ services = [c \in Conns |-> NoService]
        /\ ctxs = [k \in Ctxs |-> Unused]
        /\ log = <<>>

Live(k) == ctxs[k].phase = "live"

Now == Len(log)

-----------------------------------------------------------------------------
\* App::call: the service of a connection has a clone of the state.
Connect(c) ==
    /\ services[c] = NoService
    /\ services' = [services EXCEPT ![c] = app]
    /\ UNCHANGED <<app, ctxs, log>>

\* HttpService::call clones the service; serve makes a context of the clone.
NewContext(state, k) ==
    [Unused EXCEPT !.phase = "live", !.state = state, !.body = "full",
                   !.extensions = TRUE, !.request = k]

Inbound(c, k) ==
    /\ services[c] # NoService
    /\ ctxs[k].phase = "unused"
    /\ ctxs' = [ctxs EXCEPT ![k] = NewContext(services[c], k)]
    /\ UNCHANGED <<app, services, log>>

\* Context::clone: a default request and response, and what the context has of
\* state and storage at this moment.
Cloned_FreshStorage(ctx) ==                      \* mutant: Storage::default()
    [ctx EXCEPT !.body = "empty", !.extensions = FALSE, !.read = 0, !.storage = EmptyStorage]

Cloned(ctx) == [ctx EXCEPT !.body = "empty", !.extensions = FALSE, !.read = 0]

Clone(k, k2) ==
    /\ Live(k)
    /\ ctxs[k2].phase = "unused"
    /\ ctxs' = [ctxs EXCEPT ![k2] =
          [Cloned(ctxs[k]) EXCEPT !.lineage = [ctxs[k].lineage EXCEPT ![k] = Now]]]
    /\ UNCHANGED <<app, services, log>>

\* The response is handed to hyper and the context ends.
Done(k) == /\ Live(k)
           /\ ctxs' = [ctxs EXCEPT ![k] = [Unused EXCEPT !.phase = "done"]]
           /\ UNCHANGED <<app, services, log>>

-----------------------------------------------------------------------------
\* A value is found if it can be cast to the type that is asked for.
Downcast(entry, type) == IF entry.type = type THEN entry ELSE None

Storing(storage, slot, entry) == [storage EXCEPT ![slot] = entry]

Write(k, slot, type) == Append(log, [ctx |-> k, slot |-> slot, type |-> type])

store_scoped(k, slot, type) ==
    LET entry == [type |-> type, value |-> Now + 1]
    IN  /\ Live(k)
        /\ Now < MaxWrites
        /\ log' = Write(k, slot, type)
        /\ ctxs' = [ctxs EXCEPT ![k].storage = Storing(@, slot, entry)]
        /\ UNCHANGED <<app, services>>

\* Storage::get: it changes nothing.
load_scoped(k, slot, type) == Downcast(ctxs[k].storage[slot], type)

StateSlot == <<"state", "state">>

\* Context::deref_mut: a field of the state is assigned.
deref_mut(k) ==
    /\ Live(k)
    /\ Now < MaxWrites
    /\ log' = Write(k, StateSlot, "state")
    /\ ctxs' = [ctxs EXCEPT ![k].state = Now + 1]
    /\ UNCHANGED <<app, services>>

-----------------------------------------------------------------------------
\* Request::raw_body, and stream and reader, which call it: the body is taken.
Taken(ctx) == [ctx EXCEPT !.body = "empty"]

Read(ctx) == IF ctx.body = "full" THEN [Taken(ctx) EXCEPT !.read = @ + 1] ELSE ctx

raw_body(k) ==
    /\ Live(k)
    /\ ctxs' = [ctxs EXCEPT ![k] = Read(@)]
    /\ UNCHANGED <<app, services, log>>

\* Request::take_raw takes the extensions with the body.
take_raw(k) ==
    /\ Live(k)
    /\ ctxs' = [ctxs EXCEPT ![k] = [Read(@) EXCEPT !.extensions = FALSE]]
    /\ UNCHANGED <<app, services, log>>

Next ==
    \/ \E c \in Conns : Connect(c)
    \/ \E c \in Conns, k \in Ctxs : Inbound(c, k)
    \/ \E k, k2 \in Ctxs : Clone(k, k2)
    \/ \E k \in Ctxs, slot \in Slots, type \in Types : store_scoped(k, slot, type)
    \/ \E k \in Ctxs : deref_mut(k) \/ raw_body(k) \/ take_raw(k) \/ Done(k)

Spec == Init /\ [][Next]_vars

-----------------------------------------------------------------------------
\* Every variable of the model has its type.
Entries == [type : Types \cup {"none"}, value : 0..MaxWrites]

TypeOK ==
    /\ app = 0
    /\ services \in [Conns -> {app, NoService}]
    /\ \A k \in Ctxs :
          /\ ctxs[k].phase \in {"unused", "live", "done"}
          /\ ctxs[k].state \in 0..MaxWrites
          /\ ctxs[k].storage \in [Slots -> Entries]
          /\ ctxs[k].lineage \in [Ctxs -> 0..MaxWrites]
          /\ ctxs[k].body \in {"full", "empty"}
    /\ Now <= MaxWrites

\* The writes a context has: its own, and those its ancestors had made when the
\* line was cloned off.
Visible(k, slot) ==
    {i \in 1..Now : /\ log[i].slot = slot
                    /\ log[i].ctx = k \/ i <= ctxs[k].lineage[log[i].ctx]}

LatestOf(S, i) == i \in S /\ \A j \in S : j <= i

\* A context sees the last of its own writes and of those its ancestors had
\* made when it was cloned, in its storage and in its state; no write of
\* another request, of another clone or of an ancestor's later life.
SeesOwnWrites ==
    \A k \in Ctxs : Live(k) =>
        /\ \A slot \in Slots :
             LET entry == ctxs[k].storage[slot]
                 visible == Visible(k, slot)
             IN  IF visible = {} THEN entry = None
                 ELSE /\ LatestOf(visible, entry.value)
                      /\ entry.type = log[entry.value].type
        /\ LET visible == Visible(k, StateSlot)
           IN  IF visible = {} THEN ctxs[k].state = app
               ELSE LatestOf(visible, ctxs[k].state)

\* A load finds a value exactly when the last write to its slot was of the type
\* it asks for.
LoadsLastOfType ==
    \A k \in Ctxs, slot \in Slots, type \in Types : Live(k) =>
        LET wanted == {i \in Visible(k, slot) :
                          LatestOf(Visible(k, slot), i) /\ log[i].type = type}
        IN  load_scoped(k, slot, type) \in
              IF wanted = {} THEN {None} ELSE {[type |-> type, value |-> i] : i \in wanted}

\* The bytes of a request go to one reader of one context, and never to a clone.
BodyReadOnce ==
    \A k \in Ctxs :
        /\ ctxs[k].read <= 1
        /\ ctxs[k].read = 1 => ctxs[k].request = k /\ ctxs[k].body = "empty"

\* Contexts share nothing that is written after they were made.
ContextsKeepApart == TypeOK /\ SeesOwnWrites /\ LoadsLastOfType /\ BodyReadOnce
=============================================================================
