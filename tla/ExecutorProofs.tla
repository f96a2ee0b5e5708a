---------------------------- MODULE ExecutorProofs ----------------------------
(***************************************************************************)
(* What an awaiting task may conclude from its JoinHandle, for any set of  *)
(* tasks and any size of the blocking pool.                                *)
(***************************************************************************)
EXTENDS Executor, TLAPS

(* The channel tells the truth about its task: a value was sent by a task  *)
(* that ran to its end, and only a panic drops the sender unsent.          *)
ChannelTells ==
  \A t \in Tasks : /\ chan[t] = "value" => task[t] = "done"
                   /\ chan[t] = "canceled" => task[t] = "panicked"

Verdicts == ChannelTells /\ PanicsOnlyByAwaitingPanicked /\ JoinedIsDone

-----------------------------------------------------------------------------
(* Dropping a task's handles changes no other and joins none.              *)
LEMMA HandlesDropped ==
  ASSUME TypeOK, NEW p \in Tasks
  PROVE  /\ HandlesDroppedWith(p)
              \in [Tasks -> {"none", "held", "awaited", "joined", "dropped"}]
         /\ \A t \in Tasks : HandlesDroppedWith(p)[t] = "joined" => handle[t] = "joined"
  BY DEF TypeOK, HandlesDroppedWith

(* A handle that is polled has an owner among the tasks.                   *)
LEMMA Owned ==
  ASSUME TypeOK, NEW t \in Tasks, owner[t] # NoTask
  PROVE  owner[t] \in Tasks
  BY DEF TypeOK

(* Type correctness of the executor.                                       *)
THEOREM Typing == Spec => []TypeOK
<1>1. Init => TypeOK
  BY DEF Init, TypeOK
<1>2. TypeOK /\ [Next]_vars => TypeOK'
  <2> SUFFICES ASSUME TypeOK, [Next]_vars PROVE TypeOK'
    OBVIOUS
  <2>1. ASSUME NEW t \in Tasks, Run(t) PROVE TypeOK'
    BY <2>1 DEF Run, TypeOK
  <2>2. ASSUME NEW t \in Tasks, Finish(t) PROVE TypeOK'
    BY <2>2, HandlesDropped DEF Finish, Sent, TypeOK
  <2>3. ASSUME NEW t \in Tasks, NEW u \in Tasks \cup {NoTask}, PanicBecauseOf(t, u)
        PROVE  TypeOK'
    BY <2>3, HandlesDropped DEF PanicBecauseOf, Unsent, TypeOK
  <2>4. ASSUME NEW t \in Tasks, Panic(t) PROVE TypeOK'
    BY <2>3, <2>4 DEF Panic
  <2>5. ASSUME NEW t \in Tasks, poll(t) PROVE TypeOK'
    <3>1. CASE PollPending(t) \/ PollReady(t)
      BY <3>1 DEF PollPending, PollReady, TypeOK
    <3>2. CASE PollCanceled(t)
      BY <2>3, <2>5, <3>2, Owned DEF poll, PollCanceled
    <3> QED BY <2>5, <3>1, <3>2 DEF poll
  <2>6. ASSUME NEW t \in Tasks, DropHandle(t) PROVE TypeOK'
    BY <2>6 DEF DropHandle, TypeOK
  <2>7. ASSUME NEW p \in Tasks, NEW t \in Tasks, spawn(p, t) \/ execute(p, t) PROVE TypeOK'
    BY <2>7 DEF spawn, execute, TypeOK
  <2>8. CASE UNCHANGED vars
    BY <2>8 DEF vars, TypeOK
  <2> QED BY <2>1, <2>2, <2>4, <2>5, <2>6, <2>7, <2>8 DEF Next
<1> QED BY <1>1, <1>2, PTL DEF Spec

-----------------------------------------------------------------------------
(* A task that ends stays ended, so a verdict once true stays true.  The   *)
(* step that kills an awaiting task needs ChannelTells: its handle was     *)
(* cancelled, hence the awaited task had panicked.                         *)
LEMMA VerdictsStep == TypeOK /\ Verdicts /\ [Next]_vars => Verdicts'
<1> SUFFICES ASSUME TypeOK, Verdicts, [Next]_vars PROVE Verdicts'
  OBVIOUS
<1> USE DEF Verdicts, ChannelTells, PanicsOnlyByAwaitingPanicked, JoinedIsDone
<1>0. \A t \in Tasks : blamed[t] # NoTask => blamed[t] \in Tasks
  BY DEF TypeOK
<1>1. ASSUME NEW t \in Tasks, Run(t) PROVE Verdicts'
  BY <1>0, <1>1 DEF Run, TypeOK
<1>2. ASSUME NEW t \in Tasks, Finish(t) PROVE Verdicts'
  <2>1. task[t] = "running" /\ task' = [task EXCEPT ![t] = "done"]
    BY <1>2 DEF Finish, Active
  <2>2. ChannelTells'
    BY <1>2, <2>1 DEF Finish, Sent, TypeOK
  <2>3. PanicsOnlyByAwaitingPanicked'
    BY <1>0, <1>2, <2>1 DEF Finish, TypeOK
  <2>4. JoinedIsDone'
    BY <1>2, <2>1, HandlesDropped DEF Finish, TypeOK
  <2> QED BY <2>2, <2>3, <2>4
<1>3. ASSUME NEW t \in Tasks, NEW u \in Tasks \cup {NoTask}, PanicBecauseOf(t, u),
             task[t] = "running", u # NoTask => task[u] = "panicked"
      PROVE  Verdicts'
  <2>1. task' = [task EXCEPT ![t] = "panicked"] /\ blamed' = [blamed EXCEPT ![t] = u]
    BY <1>3 DEF PanicBecauseOf
  <2>2. ChannelTells'
    BY <1>3, <2>1 DEF PanicBecauseOf, Unsent, TypeOK
  <2>3. PanicsOnlyByAwaitingPanicked'
    <3> SUFFICES ASSUME NEW v \in Tasks, blamed'[v] # NoTask
                 PROVE  task'[v] = "panicked" /\ task'[blamed'[v]] = "panicked"
      OBVIOUS
    <3>1. CASE v = t
      BY <1>3, <2>1, <3>1 DEF TypeOK
    <3>2. CASE v # t
      BY <1>0, <1>3, <2>1, <3>2 DEF TypeOK
    <3> QED BY <3>1, <3>2
  <2>4. JoinedIsDone'
    BY <1>3, <2>1, HandlesDropped DEF PanicBecauseOf, TypeOK
  <2> QED BY <2>2, <2>3, <2>4
<1>4. ASSUME NEW t \in Tasks, Panic(t) PROVE Verdicts'
  BY <1>3, <1>4 DEF Panic, Active
<1>5. ASSUME NEW t \in Tasks, poll(t) PROVE Verdicts'
  <2>1. CASE PollPending(t) \/ PollReady(t)
    BY <2>1 DEF PollPending, PollReady, TypeOK
  <2>2. CASE PollCanceled(t)
    <3>1. owner[t] \in Tasks /\ task[owner[t]] = "running" /\ task[t] = "panicked"
      BY <1>5, <2>2, Owned DEF poll, PollCanceled, Pollable
    <3> QED BY <1>3, <2>2, <3>1 DEF PollCanceled
  <2> QED BY <1>5, <2>1, <2>2 DEF poll
<1>6. ASSUME NEW t \in Tasks, DropHandle(t) PROVE Verdicts'
  BY <1>6 DEF DropHandle, TypeOK
<1>7. ASSUME NEW p \in Tasks, NEW t \in Tasks, spawn(p, t) \/ execute(p, t) PROVE Verdicts'
  BY <1>0, <1>7 DEF spawn, execute, TypeOK
<1>8. CASE UNCHANGED vars
  BY <1>8 DEF vars
<1> QED BY <1>1, <1>2, <1>4, <1>5, <1>6, <1>7, <1>8 DEF Next

(* So the verdicts hold in every state.                                    *)
LEMMA VerdictsHold == Spec => []Verdicts
<1>1. Init => Verdicts
  BY DEF Init, Verdicts, ChannelTells, PanicsOnlyByAwaitingPanicked, JoinedIsDone
<1> QED BY <1>1, VerdictsStep, Typing, PTL DEF Spec

(* The expect in JoinHandle::poll fires only for a task that panicked: a   *)
(* result is never lost between a task and whoever awaits it.              *)
THEOREM PanicsTravelByAwait == Spec => []PanicsOnlyByAwaitingPanicked
  BY VerdictsHold, PTL DEF Verdicts

(* A value obtained from a JoinHandle was returned by its task.            *)
THEOREM JoinsAreResults == Spec => []JoinedIsDone
  BY VerdictsHold, PTL DEF Verdicts
=============================================================================
