------------------------------ MODULE Executor ------------------------------
(***************************************************************************)
(* roa_core::Executor: futures and blocking closures spawned on the        *)
(* runtime the application was built with, and the JoinHandles through     *)
(* which a task awaits the result of another.                              *)
(*                                                                         *)
(* A JoinHandle is the receiver of a oneshot channel whose sender lives in *)
(* the spawned task, so all it can see of a task is a value sent or a      *)
(* sender dropped.  The runtime (tokio or async-std) schedules tasks,      *)
(* catches their panics and has a bounded pool of blocking threads.        *)
(***************************************************************************)
EXTENDS Naturals, FiniteSets

CONSTANTS
  Tasks,     \* futures and closures that may be spawned
  Blocking,  \* those that are closures for spawn_blocking
  Main,      \* the task the runtime starts with
  Threads,   \* threads of the runtime's blocking pool
  NoTask

ASSUME ExecutorAssumption ==
  /\ Main \in Tasks \ Blocking /\ Blocking \subseteq Tasks
  /\ NoTask \notin Tasks
  /\ Threads \in Nat \ {0}

VARIABLES
  task,    \* unborn, queued, running, done or panicked
  chan,    \* the task's oneshot channel: empty, value or canceled
  handle,  \* its JoinHandle: none, held, awaited, joined or dropped
  owner,   \* the task that holds the handle
  blamed   \* the awaited task because of which a task panicked

vars == <<task, chan, handle, owner, blamed>>

TypeOK ==
  /\ task \in [Tasks -> {"unborn", "queued", "running", "done", "panicked"}]
  /\ chan \in [Tasks -> {"empty", "value", "canceled"}]
  /\ handle \in [Tasks -> {"none", "held", "awaited", "joined", "dropped"}]
  /\ owner \in [Tasks -> Tasks \cup {NoTask}]
  /\ blamed \in [Tasks -> Tasks \cup {NoTask}]

Init ==
  /\ task = [t \in Tasks |-> IF t = Main THEN "running" ELSE "unborn"]
  /\ chan = [t \in Tasks |-> "empty"]
  /\ handle = [t \in Tasks |-> "none"]
  /\ owner = [t \in Tasks |-> NoTask]
  /\ blamed = [t \in Tasks |-> NoTask]

-----------------------------------------------------------------------------
Async == Tasks \ Blocking

(* p runs: it is not suspended on a handle.                                *)
Active(p) == task[p] = "running" /\ \A t \in Tasks : ~(owner[t] = p /\ handle[t] = "awaited")

(* The handles of p are dropped with the future that holds them.           *)
HandlesDroppedWith(p) ==
  [t \in Tasks |-> IF owner[t] = p /\ handle[t] \in {"held", "awaited"}
                   THEN "dropped" ELSE handle[t]]

(* The wrapped task ended with its value: sender.send, whose failure when  *)
(* the receiver is gone is ignored.                                        *)
Sent_Discarded(t) == "canceled"
Sent(t) == "value"

(* The wrapped task unwinds and drops the sender.                          *)
Unsent_SenderLeaked(t) == "empty"
Unsent(t) == "canceled"

Finish(t) ==
  /\ Active(t)
  /\ task' = [task EXCEPT ![t] = "done"]
  /\ chan' = [chan EXCEPT ![t] = Sent(t)]
  /\ handle' = HandlesDroppedWith(t)
  /\ UNCHANGED <<owner, blamed>>

PanicBecauseOf(t, culprit) ==
  /\ task' = [task EXCEPT ![t] = "panicked"]
  /\ chan' = [chan EXCEPT ![t] = Unsent(t)]
  /\ handle' = HandlesDroppedWith(t)
  /\ blamed' = [blamed EXCEPT ![t] = culprit]
  /\ UNCHANGED owner

Panic(t) == Active(t) /\ PanicBecauseOf(t, NoTask)

(* spawn and spawn_blocking: the runtime queues the task, the caller gets  *)
(* the handle.                                                             *)
spawn(p, t) ==
  /\ p \in Async /\ Active(p) /\ task[t] = "unborn"
  /\ task' = [task EXCEPT ![t] = "queued"]
  /\ handle' = [handle EXCEPT ![t] = "held"]
  /\ owner' = [owner EXCEPT ![t] = p]
  /\ UNCHANGED <<chan, blamed>>

(* hyper's use of the executor: the output is discarded and no handle is   *)
(* made.                                                                   *)
execute(p, t) ==
  /\ p \in Async /\ Active(p) /\ task[t] = "unborn" /\ t \in Async
  /\ task' = [task EXCEPT ![t] = "queued"]
  /\ handle' = [handle EXCEPT ![t] = "dropped"]
  /\ UNCHANGED <<chan, owner, blamed>>

(* JoinHandle::poll, for a handle its owner polls for the first time or    *)
(* again when the channel woke it: pending, the value, or a panic of the   *)
(* owner when the sender is gone (expect).                                 *)
PollPending(t) ==
  /\ Active(owner[t]) /\ handle[t] = "held" /\ chan[t] = "empty"
  /\ handle' = [handle EXCEPT ![t] = "awaited"]
  /\ UNCHANGED <<task, chan, owner, blamed>>

Pollable(t) ==
  /\ task[owner[t]] = "running"
  /\ handle[t] = "awaited" \/ (handle[t] = "held" /\ Active(owner[t]))

PollReady(t) ==
  /\ Pollable(t) /\ chan[t] = "value"
  /\ handle' = [handle EXCEPT ![t] = "joined"]
  /\ UNCHANGED <<task, chan, owner, blamed>>

PollCanceled(t) ==
  /\ Pollable(t) /\ chan[t] = "canceled"
  /\ PanicBecauseOf(owner[t], t)

poll(t) == owner[t] # NoTask /\ (PollPending(t) \/ PollReady(t) \/ PollCanceled(t))

(* The owner drops the handle, before or while it awaits it (a timeout or  *)
(* a select): the task goes on, detached.                                  *)
DropHandle_AbortsTask(t) ==
  /\ handle[t] \in {"held", "awaited"} /\ task[owner[t]] = "running"
  /\ handle' = [handle EXCEPT ![t] = "dropped"]
  /\ task' = [task EXCEPT ![t] = IF @ = "queued" THEN "unborn" ELSE @]
  /\ UNCHANGED <<chan, owner, blamed>>

DropHandle(t) ==
  /\ handle[t] \in {"held", "awaited"} /\ task[owner[t]] = "running"
  /\ handle' = [handle EXCEPT ![t] = "dropped"]
  /\ UNCHANGED <<task, chan, owner, blamed>>

(* The runtime starts a queued task; a closure needs a blocking thread.    *)
Busy == {t \in Blocking : task[t] = "running"}

Run(t) ==
  /\ task[t] = "queued"
  /\ t \in Blocking => Cardinality(Busy) < Threads
  /\ task' = [task EXCEPT ![t] = "running"]
  /\ UNCHANGED <<chan, handle, owner, blamed>>

Next ==
  \/ \E t \in Tasks : Run(t) \/ Finish(t) \/ Panic(t) \/ poll(t) \/ DropHandle(t)
  \/ \E p, t \in Tasks : spawn(p, t) \/ execute(p, t)

Spec == Init /\ [][Next]_vars

-----------------------------------------------------------------------------
(* expect("receiver in JoinHandle shouldn't be canceled"): a task that     *)
(* dies on an await dies because the awaited task panicked.  A task that   *)
(* returned, or one that nobody awaits, kills no other.                    *)
PanicsOnlyByAwaitingPanicked ==
  \A t \in Tasks : blamed[t] # NoTask => task[t] = "panicked" /\ task[blamed[t]] = "panicked"

(* A handle yields a value only for a task that ran to its end.            *)
JoinedIsDone == \A t \in Tasks : handle[t] = "joined" => task[t] = "done"

(* Every await ends, with a value, a panic or the handle dropped.          *)
AwaitEnds == \A t \in Tasks : handle[t] = "awaited" ~> handle[t] # "awaited"

(* Dropping the handle detaches the task: it still runs to an end.         *)
DetachedCompletes ==
  \A t \in Tasks : handle[t] = "dropped" ~> task[t] \in {"done", "panicked"}
=============================================================================
