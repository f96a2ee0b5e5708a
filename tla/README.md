# A verification project for roa

roa is an async web framework in Rust: an application is a chain of middlewares
around an endpoint, served by hyper on tokio or async-std. This directory holds
TLA+ models of its own logic (what hyper, the runtimes and the kernel do is
environment), TLC runs of small instances, and TLAPS proofs for every instance.
Paths in this file are relative to the repository (`src/` in `PROJECT.json`).

Run a model with `tlc -config X.cfg M`, a proof with `tlapm M.tla`. The runs,
the code each definition stands for, the hazards and the theorems are listed in
`PROJECT.json`.

## 1. The system

| component | code | state it keeps | operations |
|---|---|---|---|
| TCP listener | `roa/src/tcp/incoming.rs` | the bound listener, a sleep after errors, one accept future that borrows the listener | `poll_stream`, `poll_accept`, `Drop` |
| its async-std twin | `roa-async-std/src/net.rs` | the same | the same |
| Executor | `roa-core/src/executor.rs`, `app/runtime.rs` | per task: a oneshot channel and a `JoinHandle` | `spawn`, `spawn_blocking`, `execute`, `JoinHandle::poll` |
| Request pipeline | `roa-core/src/app.rs`, `group.rs`, `middleware.rs`, `err.rs` | per request: the context, aliased by every layer; the status a layer returned | `Chain::handle`, `Endpoint::call`, `throw!`, `HttpService::serve` |
| Logger | `roa/src/logger.rs` | per body: a byte counter and a state (polling, logging, complete) | the middleware, `StreamLogger::poll_next` |
| Response body | `roa-core/src/body.rs` | a chain of sources | `write`, `write_stream`, `write_chunk`, `poll_next` |
| Context and storage | `roa-core/src/context.rs`, `context/storage.rs` | scoped, typed storage; request, response | `store`, `load`, `clone` |
| Router, paths, guards, dispatchers | `roa/src/router.rs`, `router/` | route tables with their endpoints | `on`, `include`, `gate`, `routes`, `call` |
| Websocket | `roa/src/websocket.rs` | an upgrade task waiting for the response | the endpoint |
| TLS listener | `roa/src/tls/incoming.rs` | per stream: handshaking, connected, or a finished future | `poll_accept`, `poll_read`, `poll_write` |
| CORS, compression, JWT, cookies, query, forwarded address | `roa/src/*.rs` | values in the context storage; the body that compression replaces | one middleware or endpoint each |
| PowerBody, files, JSON-RPC, Juniper | `roa/src/body.rs`, `body/`, `jsonrpc.rs`, `roa-juniper` | the request body, taken once | `read`, `json`, `write_file`, ... |
| Diesel pool | `roa-diesel/src` | a bounded pool of connections used from blocking threads | `get_conn`, `exec` and its family |
| Examples | `examples`, `integration` | a websocket chat, a shared store, a CRUD service | |

How they interact:

* hyper polls `TcpIncoming` for connections and makes an `HttpService`, a clone
  of the application, for each; `call` builds a context and spawns nothing: the
  connection's task polls `serve`.
* `serve` runs the chain. Each middleware gets `&mut Context` and `next`, the
  future of the rest, which holds a second `&mut` to the same context made from
  a raw pointer (`group.rs` 56-111).
* A logger layer prints errors through `spawn_blocking` and awaits the
  `JoinHandle`; for a success it replaces the body by a `StreamLogger` around
  it, so that the line is printed when the connection has polled the body to
  its end, long after the middleware returned.
* The Executor is shared by hyper (`execute`), the loggers, the websocket
  upgrade and diesel (`spawn_blocking`), and with it one bounded pool of
  blocking threads.

What makes it hard, in one line each; `PROJECT.json` lists all of them at their
lines, with the property that would notice:

* the accept future lives in a field across polls, borrows a sibling field
  through a transmuted lifetime, and must neither be polled after it finished
  nor outlive the listener;
* every path of a poll function that returns Pending has to leave a waker;
* all layers hold a mutable reference to one context at the same time, and one
  that was left half way keeps its own until the outermost middleware returns;
* three places decide whether an error is printed and whether its message is
  sent (`throw!`'s flag, the logger, `serve`), with handlers in between that
  recover, rethrow, or stop awaiting half way;
* a body is assembled by taking it out of itself, mixes sources of three kinds,
  may be wrapped by several loggers, and may be dropped or fail half way;
* an awaited task can panic, and a handle can be dropped before or after its
  task ends;
* a route table is made from routers that are built, gated, nested and moved, in
  any order, and its patterns from text that is rewritten by replacing;
* what extensions tell of a request is cached in the context by layers that ran
  earlier, perhaps twice, perhaps for a clone;
* headers and body are written by different layers, which fail between the two;
* waiting for a database connection takes the threads its holders need;
* an operation on a TLS stream is a handshake first, and a websocket task waits
  for an answer that other layers may still change;
* the examples keep shared state behind locks and statements that their own
  requests take several times.

## 2. Modules

| module | models | checked by | proved about in |
|---|---|---|---|
| `TcpIncoming` | the accept loop and its environment | `MCTcpIncoming` | `TcpIncomingProofs` |
| `Executor` | tasks, channels, handles, the blocking pool | `MCProgress` | `ExecutorProofs` |
| `Pipeline` | one request through the chain, the loggers and `serve` | `MCPipeline` | `PipelineProofs` |
| `Body` | the response body with its loggers | `MCBody` | `BodyProofs` |
| `ByteQueue` | what a body promises, abstractly | instantiated by `Body` | `BodyProofs` |
| `RoutePath` | paths, `path_to_regexp`, matching, as operators | where it is used | `RequestProofs`, `LayersProofs` |
| `Matching` | one path of a route against one path of a request | `MCRoutePath`, `MCRequest` | `RequestProofs` |
| `Endpoints` | guards and dispatchers, as functions of the method | `Router` | |
| `Router` | building routers and tables, routing a request | `MCRequest` | `LayersProofs` |
| `Context` | state, storage and clones of contexts, the request body | `MCRequest` | `RequestProofs` |
| `Cors` | the builder and the middleware | `MCRequest` | `LayersProofs` |
| `Compress` | stacks of compressing and other layers | `MCRequest`, `MCCompress` | `LayersProofs` |
| `Jwt` | guards, `claims` and `verify` under a clock | `MCRequest` | `RequestProofs` |
| `Extensions` | cookies, queries, headers, forwarded addresses | `MCRequest` | `RequestProofs` |
| `PowerBody` | readers and writers of bodies, JSON-RPC, GraphQL, files | `MCRequest` | `RequestProofs` |
| `Websocket` | the endpoint, its task, and the layers outside | `MCRequest`, `MCProgress` | `RequestProofs` |
| `DieselPool` | connections, blocking threads and the calls that need both | `MCDieselPool`, `MCShared`, `MCProgress` | `SharedProofs` |
| `Chat` | the websocket example | `MCShared`, `MCProgress` | `SharedProofs` |
| `RestfulStore` | the restful example | `MCShared` | `SharedProofs` |
| `Records` | what a store of records promises, abstractly | instantiated by `RestfulStore` | `SharedProofs` |
| `Posts` | the endpoints of the diesel example | `MCShared` | `SharedProofs` |
| `Tls` | `TlsIncoming` and `WrapTlsStream` | `MCProgress` | |
| `OneRequest` | what a single request meets, the parts side by side | `MCRequest` | `RequestProofs`, `LayersProofs` |
| `Shared` | what requests share, the parts side by side | `MCShared` | `SharedProofs` |
| `Filter` | `Only` and `Flattened`, SelectSeq and FlattenSeq as folds | where it is used | `SequenceFacts` |

`OneRequest`, `Shared` and `MCProgress` put several components into one
specification. The components have no state in common, so nothing would be learnt
from their product: the variable `part` says which of them a behaviour is about,
chosen by `Init` and never changed, and the variables of the others stay 0. The
state space is the sum of those of the parts, and a theorem about the whole is one
about the steps of its part. `OneRequest` and `Shared` name the variables of every
part and take all constants as parameters; the theorems are about them, and
`MCRequest` and `MCShared` only give values. `MCProgress`, which is for liveness,
extends `Executor`, whose tasks are one of its parts; in the other parts no task
moves and `v1`, `v2`, ... are the variables of the component at hand, in its order.

### TcpIncoming

`sleep_on_errors`, `timeout`, `accept` and `listener` are the fields of the
struct. `timeout` is "sleeping" while its timer is pending and "elapsed" when it
is ready and has not been polled. `accept` is "resolved" when the future in the
field has already returned. `server`, `woken`, `backlog` and `client` are the
environment: the task that owns the hyper server, whether it is scheduled, the
kernel's queue and the peers.

One action `poll_stream` is one call of it, with one disjunct for each value it
can end with. The code discards the accept future only on success
(`incoming.rs` 104) and so do the actions; `PollConnectionError` contains the
`continue` and what the next turn of the loop meets. `PollOtherError` with
`sleep_on_errors` either registers the timer or, if the timer is ready at once,
goes round the loop. Dropping is two actions, because that is what the order is
about: `Drop::drop` clears the accept future, then the fields go in order.

`SpuriousWake` is there because the task that awaits the server may have other
reasons to run; no liveness property relies on it, for it has no fairness.

### Executor

A task is "unborn" until spawned, then queued, running, and done or panicked.
`chan` is the oneshot channel whose sender lives in the wrapped future: "value"
after `sender.send`, "canceled" when the sender was dropped unsent by
unwinding. The handle's owner is the task that holds it. `PollPending`,
`PollReady` and `PollCanceled` are the outcomes of `JoinHandle::poll`; the last
is the `expect` at line 70 and panics the owner, dropping the handles it holds.
`blamed` is a history variable for the property. `Main` stands for the task
that drives the server; a closure never spawns.

### Pipeline

Layer 1 is the outermost middleware and layer `Depth + 1` the endpoint. `pc` is
each layer's future. A middleware that is not a logger does anything a handler
can, in any order: await next, write the status or the body, throw with any
code and any exposure, return what next returned, recover, panic, or stop
awaiting next half way (`StopAwaiting`: a timeout, a `select!`) and perhaps take
it up again (`Handle`). `Next` is a reference, so a middleware that stops
awaiting does not drop anything. Since `gate` nests the chains to the left, the
futures of all layers are locals of the frames around the outermost middleware,
and they are dropped when it returns (`Returned(1)`), when it panics or when
serve's future is dropped. A layer runs when every layer outside it awaits
(`Polled`). `result[i]` is what layer i's next returned to it, `result[0]` what
serve got. A message is represented by who threw it and whether it may be
shown; `origin` remembers it when a logger has blanked it.

`LoggerErr`, `LoggerErrLogged` and `LoggerOk` are the branches of `logger` after
`next.await`, split where it awaits the log task. `ServeOk`, `ServeExposed`,
`ServeUnexposed` and `ServeLogged` are those of `serve`. `Cancel` is hyper
dropping the future of a lost connection, possible at every await.

### Body

A byte is numbered by when it was written. A source is a record with the range
of bytes it has yet to yield. The four forms of `Body` collapse into a chain:
`Empty`, `Once` and a `Stream` of one source are chains of length 0, 1 and 1 and
every arm of `write_stream` appends. A `StreamLogger` takes the whole body it
finds, so in the chain it is a source of no bytes behind all it wraps: its end
is the end of its inner stream, and each chunk of a source before it passes
through it (`Counting`). Short reads, read errors at any point, the end of a
reader and the three states of the logger are separate outcomes of `poll_next`.
The blocking task that prints a line is `RunLogTask`; it does not need the body
to exist any more.

### RoutePath, Matching, Endpoints, Router

A route's path is a sequence of characters, `:name` and `*{name}` pieces; this
keeps exactly what the two regular expressions of `path.rs` look for. The
pattern is built as the code builds it: `Variables` finds whole segments, but
`Rewritten` replaces the *text* `:name` wherever it stands, so a pattern has one
part for every piece of the path: a group or none, and the characters after it.
`Splits` are the ways to divide a request among the parts, and of these the
captures are the greediest. `Matching` parses one path and matches one request;
`MCPaths` has the paths and the requests for `MCRoutePath` and `MCRequest`.

A router is its gates and its entries. `Registered` puts the gates a router has
at that moment around an endpoint; `include` and `routes` add prefixes and move
the router. `routes` parses every path and either builds a table or fails
(`Conflicts`, a refused path, or the panic of `must_build`). `call` is one
request: UTF-8, the static table, the dynamic routes in order, the method, and
the parameters a handler asks for. `moves` is history for the properties.

### Context

An `App` clones its state into a service per connection, that into a context
per request, and handlers may clone the context again. Values are the numbers
of the writes that made them, so that a property can say which write a context
sees; the storage keeps one value per name and casts it to the type a load asks
for. `Read` and `take_raw` empty the body of the request.

### Cors, Compress, Jwt, Extensions, PowerBody

Each is one request through the layers concerned, with whatever other layers may
do between: write, throw, recover, replace a header, drop a future half way.

* `Cors`: the builder's calls, `build`, and `handle` with the endpoint behind
  it, up to what `serve` keeps of the headers when an error was thrown. The model
  has a second `allow_origin` replace the first, as the code does. The doc of the
  method has it added to a list, so the property about the origin is restricted
  to builders that were given at most one.
* `Compress`: a chunk of the body remembers how many encoders had run when it
  was written and which encoded it, which is what the header has to match.
  Parsing and choosing the encoding are operators. Of a client that accepts
  something it is claimed that it gets the first of what it likes best; what one
  gets that accepts nothing is finding 6.
* `Jwt`: a token has a signer, an expiry and a claim type. `guard` stores key,
  token and value; `verify` decodes again, at a later time.
* `Extensions`: the parsers fill scopes of the storage, the getters read them.
  `host`, `client_ip` and `forwarded_ips` are operators on the request.
* `PowerBody`: the body arrives in pieces and may break off; a reader owns what
  it took from the request and takes it with it when it is dropped. Writers set
  body and headers in the order the code does, and may fail between.

### DieselPool

A call is a closure on a blocking thread that waits for a connection, and for
the calls that run a statement a second closure that owns the connection.
`queue` is the FIFO of the blocking pool. A request that is dropped leaves its
closures behind; `Sent` drops their results with the channel, and the connection
in it with them. `Tick` advances the time that `pool.get()` has waited.

### Chat, RestfulStore, Posts

`Chat` has the tokio read-write lock (fair: a reader queues behind a waiting
writer), a mutex per sender, and sockets of bounded capacity; a broadcast visits
the senders in the order of the slab. `RestfulStore` takes its lock once per
operation, and twice for `delete`; its abstract specification is `Records`, in
which each request takes effect at one moment. `Posts` has one action per
statement; each connection of the pool to `:memory:` is a database of its own,
and the pool is a stack. `make_pool` takes the defaults of r2d2, whose reaper closes
idle connections that nobody used for ten minutes or that are half an hour old
(`Reap`) and which opens others for them, put on top (`Replace`). When the reaper
meets the connection that `create_pool` gave the table, table and posts are gone,
and long before that a fresh connection on top answers "no such table" to requests
that come one after the other. So the table is promised only until two statements
have had connections at a time or a connection was closed.

### Tls, Websocket

`Tls`: `stream` is the `WrapTlsStream` of a connection, "spent" when it holds a
handshake future that has returned an error. Any operation on it runs the
handshake first and then itself, in the same poll. Peers send flights, records,
garbage or nothing and may leave. `Websocket`: `upgrade` says who holds hyper's
`OnUpgrade`, which a layer outside may have taken; layers may replace the answer
and the status between the endpoint and `serve`; hyper gives up the connection
only after a 101.

## 3. What the runs check

| run | instance | shows |
|---|---|---|
| `tcp_accept_loop` | 3 peers, 2 may reset in the queue, 2 descriptors | no lost wake-up, no dangling or finished future, nothing accepted while sleeping; every connection is accepted or the server stops, and it stops for errors only |
| `tcp_connection_error` | resets, no descriptor limit | **violated**: see findings |
| `tcp_sleep_on_errors` | 1 descriptor | **violated**: see findings |
| `body_logger` | 3 bytes, chunks of 1 and 2, up to 4 sources, 2 loggers | order, exact counts, lines in order, every body ends, refinement of `ByteQueue` |
| `body_log_lost` | 1 byte, 1 logger | **violated**: see findings |
| `pipeline` | 4 middlewares, layers 2 and 4 loggers, 2 codes, 2 body parts | no layer outlives the context or runs again after it was abandoned, no secret sent, errors printed once, each logger reports once and covers the inner writes, every request is answered |
| `request` | see below | contexts share no later write; captures are what the path says; the first registered route serves, in the gates its routers had; CORS grants what was configured; `Content-Encoding` decodes the body and errors are not encoded; `claims` and `verify` tell what the guard in front accepted; lookups find what was sent; bodies are read whole or not at all; a websocket's task is given a socket only if the client asked and nobody outside refused |
| `shared` | see below | connections are in the pool or with one call; messages keep their order and reach everybody; requests to the store take effect one at a time (refinement of `Records`); the table of the posts is missed only after crowding or a replaced connection, and no statement revives a deleted post |
| `progress` | see below | panics travel only along awaits, every await ends, dropped handles detach; every database call ends and connections come back; handshakes block nobody and lose no data; nobody is stuck behind the chat's locks; who was told to switch is served and no upgrade waits for ever |
| `route_path_panics` | paths of up to 3 segments | **violated**: see findings |
| `diesel_wait` | 2 tasks, 1 connection, 1 thread | **violated**: see findings |
| `compress_refused` | 1 layer, up to 2 encodings, q-values 0 and 1 | **violated**: see findings |

Every property has a mutant in `PROJECT.json`: a plausible mistake in one
definition (a flag not reset, a wrong order, an off-by-one) that the run then
finds.

Why the bounds are enough to see the cases:

* Three peers and two descriptors let one connection be accepted, one wait at
  the limit and one be reset behind it. The queue's order matters only pairwise.
* Tasks of the Executor, in `progress`: two closures on one thread compete for
  it; a request between them and the connection gives chains of awaits of length
  two, which is where a panic has to travel further than one step.
* A reader of two bytes with chunk sizes 1 and 2 has a short read, an exact one
  and an end; four sources are a logger around a mixture and a second one
  around that and around what follows.
* Depth 4 with loggers second and fourth puts an ordinary layer outside,
  between and inside the loggers. Two codes and two body parts suffice because
  no branch looks at a code, and the order of parts is pairwise.
* `request`. Contexts: two requests and a clone of either, or one and a clone of
  its clone, with two writes. Paths: names that are prefixes of each other, an
  invalid one and none, adjacent and separated variables, in paths of up to
  three segments, against all requests of up to four characters and three
  longer ones. Router: two routers (one inside the other, or side by side), two
  gates, four building steps, static and dynamic paths that overlap. CORS: every
  pair of settings, every request. Compression: three layers, which is one
  encoder inside another with a writer between, and two accepted encodings.
  Tokens: two keys and two instants, three calls. Lookups: two pairs decide what
  the last one is; with a bound of three on the steps that fill a scope or set a
  cookie, a lookup can still follow both parsers, in either order, or a parser and a route.
  Bodies: two pieces, so that a body can break off between, and four calls, so
  that a failing writer stands between a reader and a writer.
  Websocket: two requests and two codes, of which one keeps the upgrade and one
  refuses it.
* `shared`. Two tasks with two open calls each, for one connection and one
  thread: holders and waiters block each other. Two chatting clients with two
  messages and sockets of one frame: both broadcasts meet a full socket. Three
  clients of the store: two deletes race and a third creates under the freed id.
  Two clients and two connections for the posts: one has the table, and the pool
  may close and replace either while it is idle.
* `progress`. Besides the tasks of the Executor the same, smaller, because
  liveness is checked on the graph of the whole sum. The actors of a part are alike and start alike, so what holds
  of "a1" holds of the others: the leads-to properties speak of it only. The
  component modules state them for all.

TLC's counts show every action and every alternative of these modules taken in
the passing runs, but for the branch of `write_file` that a file name which is no
header value would take: percent-encoding leaves none, and `BodiesWhole` would
notice the body without its headers.

`CHECK_DEADLOCK FALSE` is in every configuration: a request ends, a body is
consumed, a server stops, and a listener with no peer left waits.

### Fairness

* `WF(poll_stream)`: a woken task is polled (the runtime's contract). A task
  that is not woken is not polled, which is what makes `AcceptedOrStopped` a
  property of the wakers. `WF(TimerElapses)`: timers fire. Peers need never
  connect, reset or close.
* `WF(Run)`, `WF(poll)` per task: queued tasks and woken awaiters run.
  `WF(Finish \/ Panic)`: code on the blocking pool and in handlers ends; a
  handler that never returns makes every liveness property about its request
  void, and that is not roa's doing.
* `WF(poll_next)`: hyper polls a body it holds and readers that do not fail
  answer. Not `PollError` or `DropBody`: errors and drops may or may not happen.
* Pipeline: the steps of all layers are one fair action, for one task polls
  them all, and `WF(PrintLine)` runs the blocking tasks. `SF(Ends)` says that
  handlers end: one that leaves next and takes it up again for ever does not let
  its request get anywhere, and that is not roa's doing either.

* DieselPool: handlers go on, woken requests are polled, a thread takes up the
  head of the queue when it is free and statements end, time passes. No strong
  fairness is needed, because the queue is first come, first served.
* Tls: the server task accepts, hyper polls a connection whose task is awake
  with a read and ends it after an error; peers owe nothing.
* Chat: tasks that can go on do, and a client reads what was written to it or
  has left; a client that does neither stops the whole channel, by design of the
  example.
* Websocket: handlers and hyper go on and the spawned task is polled. Clients
  may leave.

### Findings

1. `tcp_connection_error`. `incoming.rs` 108-109: "Connection errors can be
   ignored directly, continue by accepting the next request." The `continue`
   leaves the finished accept future in the field; the next turn polls it, and
   an async fn polled after completion panics. A connection reset while queued
   ends the server task.
2. `tcp_sleep_on_errors`. After the one second sleep the listener is documented
   (66-70) to "try to accept the connection again". It polls the same finished
   future and panics.
3. `body_log_lost`. `logger.rs` 40 promises a line "in each successful
   response". It is printed when the body has been polled to its end; hyper
   drops the body of a HEAD, 204 or 304 response and of a lost connection.

4. `route_path_panics`. `path.rs` 36 calls an invalid pattern "a bug of
   roa::router::path". A legal path such as `/:a/:ab` makes one: replacing `:a`
   rewrites `:ab` too, the group occurs twice and building the table panics. So
   does a name that begins with a digit. `MatchedAsWritten` shows that nothing
   else does.
5. `diesel_wait`. `pool.rs` 51-52: `get_conn` "Waits for at most the configured
   connection timeout". The timeout starts when the closure has a blocking
   thread; the time in the queue, behind other waiters, comes on top.
6. `compress_refused`. `compress.rs` 99-100 says of a result of `None`: "Either the
   `Accept-Encoding` header is not present, or `*` is set as the most preferred
   encoding." It is also what is selected when all that the client names is
   unknown or has a q-value of 0, and gzip is applied then: to a client that
   refuses gzip with "gzip;q=0" among others.

The first two hold of the async-std twin as well, which has the same code.

Where else code and documentation were seen to differ while modelling; the
modules follow the code:

* `storage.rs` 108: `insert` returns the old value only if it has the type of
  the new one. `cors.rs` 173: a second `allow_origin` replaces the first, and no
  property says which is granted then.
  `forward.rs` 14: `host` throws nothing. `guard.rs` 56: `deny` also refuses
  extension methods it does not list. `async_ext.rs` 49 and 76: no row is
  `Ok(None)`. `websocket.rs` 70: the task's context has a default request.
* In the examples, two updates of a post can answer with the same old post, and
  the restful `delete` panics when another delete comes between its two locks.

## 4. What is proved

The theorems hold for every value of the constants, under the named assumptions
of the modules, which TLC evaluates in every run: `ListenerAssumption`,
`ExecutorAssumption`, `BodyAssumption`, `PipelineAssumption`, and the
`Assumptions` of `OneRequest` and `Shared`, which collect those of their
components. They say that bounds are numbers, that sets which are counted are
finite, that the names the code itself uses ("text/html", "own", status 101, ...)
are not among those the constants add, that paths are sequences of pieces (of
characters, in a request), and that a request's headers have the shape that the
code can parse them into. The bounds on the length of behaviours
(`MaxOps`, `MaxMessages`, `MaxWrites`, ...) are constants like the others. The
type invariants and `JoinedIsDone` are proved and not repeated by a run.

* `TcpIncomingProofs`: `Typing`, `WakeupKept`, `BorrowEndsFirst`,
  `FinishedHasTimer`, `SleepTakesNothing`. `NoLostWakeup` is not inductive: a
  connection can arrive while the task is parked, so the invariant `Parked` adds
  that a parked task either has its timer running or has a pending accept
  future and an empty queue. `NoDanglingAccept` needs `Freed`: once the listener
  is gone the server does not run, so no poll makes another future.
* `ExecutorProofs`: `Typing`, `PanicsTravelByAwait`, `JoinsAreResults`. The
  invariant adds `ChannelTells`: a value in the channel means a task that ended
  well, a cancelled channel one that panicked. Ended tasks never change, so
  verdicts once true stay true.
* `BodyProofs`: `Typing`, `DeliversInOrder`, `ChainHoldsTheRest`,
  `BodyIsByteQueue` (the refinement), `CountsExactly` and `LinesAwaited`. The
  invariant `Inv` says the chain is a sequence of adjacent ranges from the next
  byte to deliver to the last one written (`Spans`) in which loggers hold no
  byte (`LoggersEmpty`). Even type correctness rests on it, because what a
  source has left is a difference. That no range reaches beyond the last byte
  written would follow by induction along the chain; it is a conjunct of
  `Spans` instead. Lemmas say what appending, dropping the head, advancing it
  and counting do to any chain; each action then uses one of them. The logger
  theorems add `Counters` (a polling logger's counter is the number of bytes
  delivered) and `Waiting` (only the first source waits for its line).
* `PipelineProofs`: `Typing`, `ContextOutlivesLayers`, `AbandonedStays`,
  `SecretsStay`, `LoggersCountInner`, `LoggersReportOnce`, `ErrorsLoggedOnce`.
  `ContextReleased` is inductive with the types: once layer 1 has
  returned every layer is ended, so no layer is polled again, and a layer that
  returns further in leaves `result[0]` alone. `AbandonedNeverRuns` is an action
  property that follows from the types alone, because `Polled` looks at the whole
  path from the connection's task to the layer. `UnexposedNeverSent` needs
  `ExposedIsPublic`: a status in flight that is marked exposed carries a public
  message, which the logger keeps true by blanking the message whenever it sets
  the mark. The counting properties rest on `BodyInv`: a logger's part in the body
  means that the logger has ended (`WrappersEnded`), and a logger that has not
  ended has no part and no line yet (`Reported`); so nothing a layer inside
  writes can come to stand behind it. `UncaughtLoggedOnce` is the hardest
  (`LogInv`): at most one layer holds a result at a time (`OneResult`), who threw
  what is in flight or printed has ended, so that no message is thrown twice
  (`ThrowersEnded`), and an error on its way is marked exposed exactly when one
  line carries it (`Told`).
* `RequestProofs`: one theorem for each of six parts of `OneRequest`.
  `ContextsStayApart`: a storage entry is the latest of the writes visible to its
  context, by itself or before the clone (`Found`); that needs that an unused
  context has written nothing and that lineages never reach beyond the log, and
  for the body that one which is full is unread and belongs to its own request.
  `TokensAreChecked`: what is stored is what the last guard stored, key and token
  together, and every guard accepted its token at its time. `BodiesAreWhole`: what
  a reader has and what it still waits for make up the whole body, or nothing if
  somebody took it before. `RefusedIsNeverServed`: a 101 comes from the endpoint,
  after a valid handshake, and `serve` writes the code of an error over it.
  `LookupsFindWhatWasSent`: a scope whose parser has run holds the last valid pair
  of every decoded name, and no other (`StoreSays`), however often it runs.
  `MatchesAsWritten` is about all paths and all requests. The pattern of a path has
  one part for every piece, and if it is accepted the parts with a group are
  exactly the pieces that the documentation calls variables (`Holes`). A way to
  match is a *cut*: where in the request each part ends. By the induction along
  the fold of `Splits`, every split comes from a cut and every cut gives a split;
  there are finitely many and one of them is the greediest, so `Captures` is one
  of them. Writing the values of a cut into the path gives back, piece by piece,
  the characters between its ends, so the request; and values that give the
  request say where to cut it. A name is refused by `Regex::new` only if it begins
  with a digit or two groups share it, and the second means that one of them
  stands where the text of a longer name begins.
* `LayersProofs`: six for three more parts. It extends `RequestProofs`, for routing
  rests on the lemmas about paths. `CorsGrants`: the built `Cors` holds
  what the settings add up to, of the origins the last (the theorem is about at most
  one), and a response on its way carries the origin from
  before `next`. `ErrorsAreNotEncoded` is an action property and needs no
  invariant. `EncodedAsTold`: each chunk counts the layers that had returned when
  it was written; what encoded it since is what the later ones selected, and what
  `select_encoding` selects is the first of the best although it goes through the
  entries one by one (`Preferred`, which also has the case that nothing is accepted;
  the theorem says nothing of it). `GatesWrapEndpoints`: an entry has passed each router once,
  its own last, and every router on the way but the one that has it now is moved
  (`EntryGood`), so that no gate comes to it later. `RoutesAsRegistered` is about all
  routers, paths and requests (`RouteInv`). The segments of the prefixes that an
  entry has got so far add up to the segment of its path, as the code joins it
  (`EntryPaths`): trimming what is trimmed already changes nothing, joining adds the
  segments, and parsing a path is parsing the trimmed one. When a table is built,
  the induction along the fold that builds it carries `Faithful`, which says that
  the entries inserted so far stand in their order under the routes of their whole
  paths, and `Holds`, which says that each is there once. A reply is that of the
  table to the request (`Answered`); which entry takes it, and whether its path
  declares the parameters that its handler asks for, is then a matter of the
  routes alone. `EndpointsAreKept` is the part of it about the table.
* `SharedProofs`: all of `Shared`. `NoConnectionLeaks`: a call has a connection
  exactly in four of its stages (`HeldWhileUsed`). `StoreIsAtomic` is the refinement
  of `Records`: a delete takes effect at its second lock, and one that finds the
  record gone was overtaken. `PostsStayApart`: as long as no two statements have
  had connections at a time and none was closed or opened, the connection with the
  table is on top of the pool or with the only statement (`OneAtATime`). `ChatSaysInOrder` needs most: that the lock's queue
  names only tasks that asked (`LockModes`) and the senders hold it as readers, so
  that the slab is exactly the members while somebody sends; which texts are still
  to come to whom (`TextsSoFar`, `ReachedSoFar`); that pongs and pings to come
  balance (`PongsSoFar`); and that a close frame ends its task (`ClosesEnd`).
* `SequenceFacts`: what the proofs need of folds over sequences. The induction it
  rests on is stated about sets (`Induction`: a set of numbers that holds 0 and
  with each number the next one holds all), which the provers can instantiate. From
  it follow that a fold goes through the sequence step by step (`FoldSteps`) and
  what `Only` keeps, loses and preserves, and where in `Flattened` each sequence
  lies. They are `SelectSeq` and `FlattenSeq` written as folds for that reason: those
  of the library are RECURSIVE.

The inductive invariants were checked by TLC on the instances of the runs before
they were proved.

Only model-checked:

* all liveness properties, for fairness and ENABLED are beyond the prover:
  `AcceptedOrStopped`, `AwaitEnds`, `DetachedCompletes`, `BodyEnds`, `Replies`,
  `CallsEnd`, `TlsServes`, `EverybodyMoves`, `UpgradesEnd`. That includes the
  invariant `PolledInTime`, which `TlsServes` contains.

All other properties of the passing runs are stated by a theorem.

## 5. What the models leave out

* Bytes, headers, formatting, DNS, socket options, `AddrStream`'s forwarding.
* A chunk size of 0: `BodyAssumption` excludes it. A `ReaderStream` with it ends
  at once, because a read of 0 bytes is taken for the end.
* The rule of the language that two mutable references to one value must not be
  used in turns, which the layers' aliases break as soon as a suspended layer is
  resumed after an outer one wrote: the models are about what the code does with
  the context, not about what a compiler may assume.
* What `Empty` means to hyper (a body of known length 0): only bytes count here.
* The async-std listener: `net.rs` is the accept loop of `TcpIncoming` with the
  other runtime's timer and sockets.
* What external code computes: regular expressions beyond the two shapes used,
  decoding of tokens, JSON, forms and templates, the RPC and GraphQL engines, the
  encoders, SQL. They are outcomes.
* In `DieselPool`, connections that the pool closes and opens again: a connection
  there stands for its place in the pool, and that such a place can be empty for a
  while is one more reason to wait for it. `Posts`, where it matters which
  connection it is, has them.
* A q-value of NaN, which Rust parses from "NaN": no comparison holds of it, so
  the entry is passed over like one with a q-value of 0.
* A route table used as the endpoint of another router, and the level of an
  encoder.
* The examples that only show the API, and the command line of any of them.

## 6. Plan

The components have their models, and every safety property of the runs but one
its theorem. What is left:

1. `Tls`: `PolledInTime`.
2. `Exchange`: listener, pipeline, body and executor composed for one request,
   so that the log lines share one blocking pool.
