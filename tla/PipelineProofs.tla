--------------------------- MODULE PipelineProofs ---------------------------
(***************************************************************************)
(* Proofs about Pipeline for every depth of the chain, every choice of     *)
(* logger layers and every set of status codes.                            *)
(***************************************************************************)
EXTENDS Pipeline, FiniteSetTheorems, TLAPS

PcStates == Live \cup {"unpolled", "returned", "dropped"}

(* Dropping a future leaves it returned or dropped.                        *)
LEMMA DroppedStates ==
  ASSUME TypeOK, NEW i \in Layers
  PROVE  Dropped(i) \in {"returned", "dropped"} /\ Dropped(i) \in {pc[i], "dropped"}
  BY DEF TypeOK, Dropped

(* The messages and results the handlers and the logger make are well      *)
(* typed.                                                                  *)
LEMMA ResultTypes ==
  /\ Plain("none") \in Result /\ Plain("ok") \in Result
  /\ Empty \in Message
  /\ \A i \in Layers : Thrown(i) \subseteq Result
  /\ \A r \in Result : Hidden(r) \in Result
<1>1. Empty \in Message
  BY PipelineAssumption DEF Empty, Message
<1>2. Plain("none") \in Result /\ Plain("ok") \in Result
  BY <1>1, PipelineAssumption DEF Plain, Result
<1>3. ASSUME NEW i \in Layers PROVE Thrown(i) \subseteq Result
  <2>1. \A e \in BOOLEAN : [by |-> i, public |-> e] \in Message
    BY PipelineAssumption DEF Message, Layers
  <2> QED
    BY <2>1 DEF Thrown, Result
<1>4. ASSUME NEW r \in Result PROVE Hidden(r) \in Result
  BY <1>1 DEF Hidden, Result
<1> QED
  BY <1>1, <1>2, <1>3, <1>4

(* Every part that is appended to a body is one, and appending keeps a     *)
(* response a response.                                                    *)
LEMMA AppendedPart ==
  ASSUME TypeOK, NEW kind \in {"data", "message", "logger"}, NEW by \in 0..(Depth + 1),
         NEW msg \in Message
  PROVE  /\ [kind |-> kind, by |-> by, message |-> msg] \in Part
         /\ Append(resp.body, [kind |-> kind, by |-> by, message |-> msg]) \in Seq(Part)
  BY DEF TypeOK, Part

(* When a layer returns a result, states and results keep their types.     *)
LEMMA YieldsTyped ==
  ASSUME TypeOK, NEW i \in Layers, NEW r \in Result, Yields(i, r)
  PROVE  pc' \in [Layers -> PcStates] /\ result' \in [0..Depth -> Result]
<1>1. \A j \in Layers : Returned(i)[j] \in PcStates
  BY DroppedStates DEF TypeOK, Returned, PcStates, Live
<1>2. Returned(i) \in [Layers -> PcStates]
  BY <1>1 DEF Returned
<1>3. result' \in [0..Depth -> Result]
  BY ResultTypes DEF Yields, TypeOK
<1> QED BY <1>2, <1>3 DEF Yields

(* What a handler may return is a result.                                  *)
LEMMA ReturnTypes ==
  ASSUME TypeOK, NEW i \in Layers
  PROVE  {Plain("ok")} \cup Thrown(i) \cup PassedOn(i) \subseteq Result
<1>1. PassedOn(i) \subseteq Result
  BY DEF PassedOn, TypeOK
<1> QED BY <1>1, ResultTypes

(* The layers in Loggers have a next.                                      *)
LEMMA LoggerHasNext ==
  ASSUME NEW i \in Layers, i \in Loggers
  PROVE  i \in 0..Depth
  BY PipelineAssumption DEF Layers

(* Type correctness of the request pipeline.                               *)
THEOREM Typing == Spec => []TypeOK
<1>1. Init => TypeOK
  BY ResultTypes, PipelineAssumption DEF Init, TypeOK, Live, Layers
<1>2. TypeOK /\ [Next]_vars => TypeOK'
  <2> SUFFICES ASSUME TypeOK, [Next]_vars PROVE TypeOK'
    OBVIOUS
  <2>0. /\ serving \in {"running", "logging", "replied", "cancelled", "panicked"}
        /\ pc \in [Layers -> PcStates] /\ result \in [0..Depth -> Result]
        /\ resp \in [status : Codes, body : Seq(Part)]
        /\ line \in [0..Depth -> [state : {"none", "spawned", "printed"}, message : Message]]
    BY DEF TypeOK, PcStates
  <2> USE DEF TypeOK
  <2>1. ASSUME NEW i \in Layers, Handle(i) \/ StopAwaiting(i) PROVE TypeOK'
    BY <2>1 DEF Handle, StopAwaiting, Live
  <2>2. ASSUME NEW i \in Layers, Return(i) PROVE TypeOK'
    <3> PICK r \in {Plain("ok")} \cup Thrown(i) \cup PassedOn(i) : Yields(i, r)
      BY <2>2 DEF Return
    <3>1. pc' \in [Layers -> PcStates] /\ result' \in [0..Depth -> Result]
      BY ReturnTypes, YieldsTyped
    <3> QED
      BY <2>2, <3>1 DEF Return, PcStates
  <2>3. ASSUME NEW i \in Layers, LoggerErr(i) PROVE TypeOK'
    <3>0. i \in 0..Depth /\ result[i] \in Result /\ Hidden(result[i]) \in Result
      BY <2>0, <2>3, LoggerHasNext, ResultTypes DEF LoggerErr
    <3>1. line' \in [0..Depth -> [state : {"none", "spawned", "printed"}, message : Message]]
      BY <2>0, <2>3, <3>0 DEF LoggerErr, Result
    <3>2. result' \in [0..Depth -> Result]
      BY <2>0, <2>3, <3>0 DEF LoggerErr
    <3>3. pc' \in [Layers -> PcStates]
      BY <2>0, <2>3 DEF LoggerErr, PcStates, Live
    <3> QED
      BY <2>3, <3>1, <3>2, <3>3 DEF LoggerErr, PcStates
  <2>4. ASSUME NEW i \in Layers, i \in Loggers, Yields(i, result[i])
        PROVE  pc' \in [Layers -> PcStates] /\ result' \in [0..Depth -> Result]
    BY <2>0, <2>4, LoggerHasNext, YieldsTyped
  <2>5. ASSUME NEW i \in Layers, LoggerErrLogged(i) PROVE TypeOK'
    <3>1. pc' \in [Layers -> PcStates] /\ result' \in [0..Depth -> Result]
      BY <2>4, <2>5 DEF LoggerErrLogged
    <3> QED
      BY <2>5, <3>1 DEF LoggerErrLogged, PcStates
  <2>6. ASSUME NEW i \in Layers, LoggerOk(i) PROVE TypeOK'
    <3>1. i \in 0..(Depth + 1) /\ Empty \in Message
      BY ResultTypes, PipelineAssumption DEF Layers
    <3>2. Append(resp.body, [kind |-> "logger", by |-> i, message |-> Empty]) \in Seq(Part)
      BY <3>1, AppendedPart
    <3>3. resp' \in [status : Codes, body : Seq(Part)]
      BY <2>6, <3>2 DEF LoggerOk, Wrap
    <3>4. pc' \in [Layers -> PcStates] /\ result' \in [0..Depth -> Result]
      BY <2>4, <2>6 DEF LoggerOk
    <3> QED
      BY <2>6, <3>3, <3>4 DEF LoggerOk, PcStates
  <2>7. ASSUME NEW i \in Layers, WriteResponse(i) PROVE TypeOK'
    <3>1. i \in 0..(Depth + 1) /\ Empty \in Message
      BY ResultTypes, PipelineAssumption DEF Layers
    <3>2. Append(resp.body, [kind |-> "data", by |-> i, message |-> Empty]) \in Seq(Part)
      BY <3>1, AppendedPart
    <3>3. resp' \in [status : Codes, body : Seq(Part)]
      BY <2>7, <3>2 DEF WriteResponse
    <3> QED
      BY <2>7, <3>3 DEF WriteResponse
  <2>8. [j \in Layers |-> Dropped(j)] \in [Layers -> PcStates]
    BY DroppedStates DEF PcStates
  <2>9. ASSUME NEW i \in Layers, Panic(i) PROVE TypeOK'
    BY <2>8, <2>9 DEF Panic, PcStates
  <2>10. CASE Cancel
    BY <2>8, <2>10 DEF Cancel, PcStates
  <2>11. ASSUME NEW i \in 0..Depth, PrintLine(i) PROVE TypeOK'
    BY <2>11 DEF PrintLine
  <2>12. CASE ServeOk \/ ServeLogged
    BY <2>12 DEF ServeOk, ServeLogged
  <2>13. /\ 0 \in 0..Depth /\ 0 \in 0..(Depth + 1)
         /\ result[0].message \in Message /\ result[0].code \in Codes
    BY PipelineAssumption DEF Result
  <2>14. CASE ServeExposed
    <3>1. Append(resp.body, [kind |-> "message", by |-> 0, message |-> result[0].message])
            \in Seq(Part)
      BY <2>13, AppendedPart
    <3>2. resp' \in [status : Codes, body : Seq(Part)]
      BY <2>13, <2>14, <3>1 DEF ServeExposed
    <3> QED
      BY <2>14, <3>2 DEF ServeExposed
  <2>15. CASE ServeUnexposed
    BY <2>13, <2>15 DEF ServeUnexposed
  <2>16. CASE UNCHANGED vars
    BY <2>16 DEF vars
  <2> QED
    BY <2>1, <2>2, <2>3, <2>5, <2>6, <2>7, <2>9, <2>10, <2>11, <2>12, <2>14, <2>15, <2>16
       DEF Next, Ends, Serve
<1> QED
  BY <1>1, <1>2, PTL DEF Spec

-----------------------------------------------------------------------------
(* Once the outermost layer has returned, or serve has been dropped, every *)
(* layer has ended and none starts again: serve and hyper own the context  *)
(* alone, for every depth of the chain.                                    *)
THEOREM ContextOutlivesLayers == Spec => []ContextReleased
<1>1. Init => ContextReleased
  BY PipelineAssumption DEF Init, ContextReleased, Plain
<1>2. TypeOK /\ ContextReleased /\ [Next]_vars => ContextReleased'
  <2> SUFFICES ASSUME TypeOK, ContextReleased, [Next]_vars PROVE ContextReleased'
    OBVIOUS
  <2>0. /\ pc \in [Layers -> PcStates] /\ result \in [0..Depth -> Result]
        /\ 1 \in Layers /\ 0 \in 0..Depth
    BY PipelineAssumption DEF TypeOK, PcStates, Layers
  <2>1. ASSUME NEW i \in Layers, Polled(i), pc[i] \in Live
        PROVE  serving = "running" /\ result[0].kind = "none"
    BY <2>1 DEF ContextReleased, Polled, Live
  <2>2. ASSUME NEW i \in Layers, Handle(i) \/ StopAwaiting(i) PROVE ContextReleased'
    <3>1. serving = "running" /\ result[0].kind = "none"
      BY <2>1, <2>2 DEF Handle, StopAwaiting, Runs, Live
    <3> QED
      BY <2>2, <3>1 DEF Handle, StopAwaiting, ContextReleased
  <2>3. ASSUME NEW i \in Layers, NEW r, Polled(i), pc[i] \in Live, Yields(i, r),
               serving' = serving
        PROVE  ContextReleased'
    <3>1. serving = "running" /\ result[0].kind = "none"
      BY <2>1, <2>3
    <3>2. CASE i = 1
      <4>1. \A j \in Layers : pc'[j] \in {"returned", "dropped"}
        BY <2>3, <3>2, DroppedStates DEF Yields, Returned
      <4> QED
        BY <4>1 DEF ContextReleased
    <3>3. CASE i # 1
      <4>1. 0 < i - 1
        BY <3>3, PipelineAssumption DEF Layers
      <4>2. result'[0] = result[0]
        BY <2>0, <2>3, <4>1 DEF Yields
      <4> QED
        BY <2>3, <3>1, <4>2 DEF ContextReleased
    <3> QED
      BY <3>2, <3>3
  <2>4. ASSUME NEW i \in Layers, Return(i) PROVE ContextReleased'
    BY <2>3, <2>4 DEF Return, Runs, Live
  <2>5. ASSUME NEW i \in Layers, LoggerErr(i) PROVE ContextReleased'
    <3>1. serving = "running" /\ result[0].kind = "none"
      BY <2>1, <2>5 DEF LoggerErr, Runs, Live
    <3>2. i # 0 /\ result'[0] = result[0]
      BY <2>0, <2>5, PipelineAssumption DEF LoggerErr, Layers
    <3> QED
      BY <2>5, <3>1, <3>2 DEF LoggerErr, ContextReleased
  <2>6. ASSUME NEW i \in Layers, LoggerErrLogged(i) \/ LoggerOk(i) PROVE ContextReleased'
    BY <2>3, <2>6 DEF LoggerErrLogged, LoggerOk, Runs, Live
  <2>7. ASSUME NEW i \in Layers, WriteResponse(i) PROVE ContextReleased'
    BY <2>7 DEF WriteResponse, ContextReleased
  <2>8. ASSUME pc' = [j \in Layers |-> Dropped(j)] PROVE ContextReleased'
    BY <2>8, DroppedStates DEF ContextReleased
  <2>9. ASSUME NEW i \in Layers, Panic(i) PROVE ContextReleased'
    BY <2>8, <2>9 DEF Panic
  <2>10. CASE Cancel
    BY <2>8, <2>10 DEF Cancel
  <2>11. CASE Serve
    BY <2>11 DEF Serve, ServeOk, ServeExposed, ServeUnexposed, ServeLogged, ContextReleased
  <2>12. ASSUME NEW i \in 0..Depth, PrintLine(i) PROVE ContextReleased'
    BY <2>12 DEF PrintLine, ContextReleased
  <2>13. CASE UNCHANGED vars
    BY <2>13 DEF vars, ContextReleased
  <2> QED
    BY <2>2, <2>4, <2>5, <2>6, <2>7, <2>9, <2>10, <2>11, <2>12, <2>13 DEF Next, Ends
<1> QED
  BY <1>1, <1>2, Typing, PTL DEF Spec

(* A future that was left half way stays where it is when the layer that   *)
(* awaited it returns: nothing but a drop changes it any more.             *)
THEOREM AbandonedStays == Spec => AbandonedNeverRuns
<1> DEFINE Stays == \A i, j \in Layers :
                      i < j /\ pc[i] = "returned" => pc'[j] \in {pc[j], "dropped"}
<1>1. TypeOK /\ [Next]_vars => Stays
  <2> SUFFICES ASSUME TypeOK, [Next]_vars, NEW i \in Layers, NEW j \in Layers,
                      i < j, pc[i] = "returned"
               PROVE  pc'[j] \in {pc[j], "dropped"}
    OBVIOUS
  <2>0. pc \in [Layers -> PcStates]
    BY DEF TypeOK, PcStates
  <2>1. \A k \in Layers : Polled(k) => k <= i
    <3> SUFFICES ASSUME NEW k \in Layers, Polled(k), i < k PROVE FALSE
      BY PipelineAssumption DEF Layers
    <3>1. i \in 1..(k - 1)
      BY PipelineAssumption DEF Layers
    <3> QED
      BY <3>1 DEF Polled
  <2>2. \A k \in Layers : Polled(k) /\ pc[k] \in Live => k < i
    BY <2>1, PipelineAssumption DEF Layers, Live
  <2>3. ASSUME NEW k \in Layers, Handle(k) PROVE pc'[j] \in {pc[j], "dropped"}
    <3>1. k < i /\ k + 1 # i /\ k # j /\ k + 1 # j
      BY <2>2, <2>3, PipelineAssumption DEF Handle, Runs, Live, Layers
    <3> QED
      BY <2>0, <2>3, <3>1 DEF Handle
  <2>4. ASSUME NEW k \in Layers, NEW r, Polled(k), pc[k] \in Live, Yields(k, r)
        PROVE  pc'[j] \in {pc[j], "dropped"}
    <3>1. j # k /\ j # k - 1
      BY <2>2, <2>4, PipelineAssumption DEF Layers
    <3> QED
      BY <2>4, <3>1, DroppedStates DEF Yields, Returned
  <2>5. ASSUME NEW k \in Layers, StopAwaiting(k) \/ LoggerErr(k)
        PROVE  pc'[j] \in {pc[j], "dropped"}
    <3>1. k # j
      BY <2>2, <2>5, PipelineAssumption DEF StopAwaiting, LoggerErr, Runs, Live, Layers
    <3> QED
      BY <2>0, <2>5, <3>1 DEF StopAwaiting, LoggerErr
  <2>6. ASSUME NEW k \in Layers, Return(k) \/ LoggerErrLogged(k) \/ LoggerOk(k)
        PROVE  pc'[j] \in {pc[j], "dropped"}
    BY <2>4, <2>6 DEF Return, LoggerErrLogged, LoggerOk, Runs, Live
  <2>7. ASSUME pc' = [k \in Layers |-> Dropped(k)] PROVE pc'[j] \in {pc[j], "dropped"}
    BY <2>7, DroppedStates
  <2>8. ASSUME NEW k \in Layers, Panic(k) \/ WriteResponse(k)
        PROVE  pc'[j] \in {pc[j], "dropped"}
    BY <2>7, <2>8 DEF Panic, WriteResponse
  <2>9. ASSUME NEW k \in 0..Depth, PrintLine(k) PROVE pc'[j] \in {pc[j], "dropped"}
    BY <2>9 DEF PrintLine
  <2>10. CASE Serve \/ Cancel \/ UNCHANGED vars
    BY <2>7, <2>10
       DEF Serve, ServeOk, ServeExposed, ServeUnexposed, ServeLogged, Cancel, vars
  <2> QED
    BY <2>3, <2>5, <2>6, <2>8, <2>9, <2>10 DEF Next, Ends
<1>2. TypeOK /\ [Next]_vars => [Stays]_vars
  BY <1>1
<1> QED
  BY <1>2, Typing, PTL DEF Spec, AbandonedNeverRuns

-----------------------------------------------------------------------------
(* UnexposedNeverSent is inductive together with the fact that a result    *)
(* marked exposed carries a message that may be shown: the logger, which   *)
(* marks an unexposed status, has to take its message in the same step.    *)
ExposedIsPublic == \A i \in 0..Depth : result[i].expose => result[i].message.public

NoSecret == UnexposedNeverSent /\ ExposedIsPublic

(* Appending a part whose message may be shown keeps the body free of      *)
(* secrets.                                                                *)
LEMMA AppendPublic ==
  ASSUME TypeOK, UnexposedNeverSent, NEW p \in Part, p.message.public,
         resp'.body = Append(resp.body, p)
  PROVE  UnexposedNeverSent'
  BY DEF UnexposedNeverSent, TypeOK

(* Results that are marked exposed and bodies never hold a secret.         *)
LEMMA SecretsInv == Spec => []NoSecret
<1>1. Init => NoSecret
  BY DEF Init, NoSecret, UnexposedNeverSent, ExposedIsPublic, Plain, Empty
<1>2. TypeOK /\ NoSecret /\ [Next]_vars => NoSecret'
  <2> SUFFICES ASSUME TypeOK, NoSecret, [Next]_vars PROVE NoSecret'
    OBVIOUS
  <2> USE DEF NoSecret
  <2>1. ASSUME UNCHANGED resp PROVE UnexposedNeverSent'
    BY <2>1 DEF UnexposedNeverSent
  <2>2. Plain("none").message.public /\ Plain("ok").message.public /\ Empty.public
    BY DEF Plain, Empty
  <2>3. ASSUME NEW i \in Layers, Handle(i) \/ StopAwaiting(i) \/ Panic(i) PROVE NoSecret'
    BY <2>1, <2>3 DEF Handle, StopAwaiting, Panic, ExposedIsPublic
  <2>4. ASSUME NEW i \in Layers, NEW r, r.expose => r.message.public, Yields(i, r)
        PROVE  ExposedIsPublic'
    BY <2>2, <2>4 DEF Yields, ExposedIsPublic
  <2>5. ASSUME NEW i \in Layers, Return(i) PROVE NoSecret'
    <3>1. \A r \in Thrown(i) : r.expose => r.message.public
      BY DEF Thrown
    <3>2. \A r \in PassedOn(i) : r.expose => r.message.public
      BY DEF PassedOn, ExposedIsPublic
    <3> QED
      BY <2>1, <2>2, <2>4, <2>5, <3>1, <3>2 DEF Return
  <2>6. ASSUME NEW i \in Layers, LoggerErr(i) PROVE NoSecret'
    <3>1. i \in 0..Depth /\ result \in [0..Depth -> Result]
      BY <2>6, LoggerHasNext DEF LoggerErr, TypeOK
    <3>2. ASSUME NEW r \in Result, ~r.expose PROVE Hidden(r).message = Empty
      BY <3>2 DEF Hidden, Result
    <3>3. Hidden(result[i]).expose => Hidden(result[i]).message.public
      <4>1. CASE result[i].expose
        BY <3>1, <4>1 DEF ExposedIsPublic, Hidden
      <4>2. CASE ~result[i].expose
        <5>1. Hidden(result[i]).message = Empty
          BY <3>1, <3>2, <4>2
        <5> QED
          BY <2>2, <5>1
      <4> QED
        BY <4>1, <4>2
    <3>4. \A j \in 0..Depth : result'[j] \in {result[j], Hidden(result[i])}
                              /\ (result'[j] = result[j] \/ j = i)
      BY <2>6, <3>1 DEF LoggerErr
    <3>5. ExposedIsPublic'
      BY <3>3, <3>4 DEF ExposedIsPublic
    <3> QED
      BY <2>1, <2>6, <3>5 DEF LoggerErr
  <2>7. ASSUME NEW i \in Layers, i \in Loggers
        PROVE  result[i].expose => result[i].message.public
    BY <2>7, LoggerHasNext DEF ExposedIsPublic
  <2>8. ASSUME NEW i \in Layers, LoggerErrLogged(i) PROVE NoSecret'
    BY <2>1, <2>4, <2>7, <2>8 DEF LoggerErrLogged
  <2>9. ASSUME NEW i \in Layers, LoggerOk(i) PROVE NoSecret'
    <3> DEFINE p == [kind |-> "logger", by |-> i, message |-> Empty]
    <3>1. i \in 0..(Depth + 1) /\ Empty \in Message
      BY ResultTypes, PipelineAssumption DEF Layers
    <3>2. p \in Part /\ p.message.public
      BY <2>2, <3>1, AppendedPart
    <3>3. resp'.body = Append(resp.body, p)
      BY <2>9 DEF LoggerOk, Wrap, TypeOK
    <3>4. ExposedIsPublic'
      BY <2>4, <2>7, <2>9 DEF LoggerOk
    <3> QED
      BY <3>2, <3>3, <3>4, AppendPublic
  <2>10. ASSUME NEW i \in Layers, WriteResponse(i) PROVE NoSecret'
    <3> DEFINE p == [kind |-> "data", by |-> i, message |-> Empty]
    <3>1. i \in 0..(Depth + 1) /\ Empty \in Message
      BY ResultTypes, PipelineAssumption DEF Layers
    <3>2. p \in Part /\ p.message.public
      BY <2>2, <3>1, AppendedPart
    <3>3. resp'.body \in {resp.body, Append(resp.body, p)}
      BY <2>10 DEF WriteResponse, TypeOK
    <3>4. UnexposedNeverSent'
      BY <3>2, <3>3, AppendPublic DEF UnexposedNeverSent
    <3> QED
      BY <2>10, <3>4 DEF WriteResponse, ExposedIsPublic
  <2>11. CASE ServeExposed
    <3> DEFINE p == [kind |-> "message", by |-> 0, message |-> result[0].message]
    <3>1. /\ 0 \in 0..Depth /\ 0 \in 0..(Depth + 1)
          /\ result[0].message \in Message
      BY PipelineAssumption DEF TypeOK, Result
    <3>2. p \in Part /\ p.message.public
      BY <2>11, <3>1, AppendedPart DEF ServeExposed, ExposedIsPublic
    <3>3. resp'.body = Append(resp.body, p)
      BY <2>11 DEF ServeExposed
    <3> QED
      BY <2>11, <3>2, <3>3, AppendPublic DEF ServeExposed, ExposedIsPublic
  <2>12. CASE ServeUnexposed
    BY <2>12 DEF ServeUnexposed, UnexposedNeverSent, ExposedIsPublic, TypeOK
  <2>13. CASE ServeOk \/ ServeLogged \/ Cancel \/ UNCHANGED vars
    BY <2>1, <2>13 DEF ServeOk, ServeLogged, Cancel, vars, ExposedIsPublic
  <2>14. ASSUME NEW i \in 0..Depth, PrintLine(i) PROVE NoSecret'
    BY <2>1, <2>14 DEF PrintLine, ExposedIsPublic
  <2> QED
    BY <2>3, <2>5, <2>6, <2>8, <2>9, <2>10, <2>11, <2>12, <2>13, <2>14
       DEF Next, Ends, Serve
<1> QED
  BY <1>1, <1>2, Typing, PTL DEF Spec

(* A message thrown unexposed never reaches the response, for every        *)
(* arrangement of handlers and loggers.                                    *)
THEOREM SecretsStay == Spec => []UnexposedNeverSent
<1>1. NoSecret => UnexposedNeverSent
  BY DEF NoSecret
<1> QED
  BY <1>1, SecretsInv, PTL

-----------------------------------------------------------------------------
(* A layer that returned or was dropped never runs again.                  *)
Ended(b) == b \in Layers /\ pc[b] \in {"returned", "dropped"}

(* A layer that ends stays ended, whatever the other layers do.            *)
LEMMA EndedStays ==
  ASSUME TypeOK, [Next]_vars
  PROVE  \A b \in Layers : pc[b] \in {"returned", "dropped"} =>
           pc'[b] \in {"returned", "dropped"}
<1> SUFFICES ASSUME NEW b \in Layers, pc[b] \in {"returned", "dropped"}
             PROVE  pc'[b] \in {"returned", "dropped"}
  OBVIOUS
<1>0. pc \in [Layers -> PcStates] /\ pc[b] \notin Live \cup {"unpolled"}
  BY DEF TypeOK, PcStates, Live
<1>1. ASSUME NEW i \in Layers, Handle(i) PROVE pc'[b] = pc[b]
  <2>1. b # i /\ b # i + 1
    BY <1>0, <1>1 DEF Handle, Runs, Live
  <2> QED
    BY <1>0, <1>1, <2>1 DEF Handle
<1>2. ASSUME NEW i \in Layers, NEW r, Yields(i, r), Polled(i)
      PROVE  pc'[b] \in {"returned", "dropped"}
  <2>1. b # i - 1
    <3> SUFFICES ASSUME b = i - 1 PROVE FALSE
      OBVIOUS
    <3>1. b \in 1..(i - 1)
      BY PipelineAssumption DEF Layers
    <3> QED
      BY <1>2, <3>1 DEF Polled
  <2> QED
    BY <1>2, <2>1, DroppedStates DEF Yields, Returned
<1>3. ASSUME NEW i \in Layers, StopAwaiting(i) \/ LoggerErr(i) PROVE pc'[b] = pc[b]
  <2>1. b # i
    BY <1>0, <1>3 DEF StopAwaiting, LoggerErr, Runs, Live
  <2> QED
    BY <1>0, <1>3, <2>1 DEF StopAwaiting, LoggerErr
<1>4. ASSUME NEW i \in Layers, Return(i) \/ LoggerErrLogged(i) \/ LoggerOk(i)
      PROVE  pc'[b] \in {"returned", "dropped"}
  BY <1>2, <1>4 DEF Return, LoggerErrLogged, LoggerOk, Runs
<1>5. ASSUME pc' = [k \in Layers |-> Dropped(k)] PROVE pc'[b] \in {"returned", "dropped"}
  BY <1>5, DroppedStates
<1>6. ASSUME NEW i \in Layers, Panic(i) \/ WriteResponse(i)
      PROVE  pc'[b] \in {"returned", "dropped"}
  BY <1>5, <1>6 DEF Panic, WriteResponse
<1>7. ASSUME NEW i \in 0..Depth, PrintLine(i) PROVE pc'[b] = pc[b]
  BY <1>7 DEF PrintLine
<1>8. CASE Serve \/ Cancel \/ UNCHANGED vars
  BY <1>5, <1>8
     DEF Serve, ServeOk, ServeExposed, ServeUnexposed, ServeLogged, Cancel, vars
<1> QED
  BY <1>1, <1>3, <1>4, <1>6, <1>7, <1>8 DEF Next, Ends

(* While a layer runs or logs, the layers around it await.                 *)
LEMMA OutsideAwaits ==
  ASSUME NEW i \in Layers, Polled(i), NEW j \in Layers, j < i
  PROVE  pc[j] = "awaiting"
<1>1. j \in 1..(i - 1)
  BY PipelineAssumption DEF Layers
<1> QED
  BY <1>1 DEF Polled

-----------------------------------------------------------------------------
(* InnerWritesCounted and LoggedOrWrapped are inductive together with what *)
(* a logger has done at every point of its life: it wraps the body as it   *)
(* returns, so that nothing inside it runs any more, and it prints a line  *)
(* only instead.                                                           *)
Wraps(l) == {k \in DOMAIN resp.body : resp.body[k].kind = "logger" /\ resp.body[k].by = l}

Reported(l) ==
  /\ pc[l] \in {"unpolled", "running", "awaiting", "logging"} => Wraps(l) = {}
  /\ pc[l] \in {"unpolled", "running", "awaiting"} => line[l].state = "none"
  /\ pc[l] = "logging" => line[l].state # "none"
  /\ pc[l] = "returned" =>
       \/ Wraps(l) = {} /\ line[l].state = "printed"
       \/ line[l].state = "none" /\ \E k \in Wraps(l) : Wraps(l) = {k}

WrappersEnded == \A k \in DOMAIN resp.body :
  resp.body[k].kind = "logger" => Ended(resp.body[k].by)

BodyInv ==
  /\ WrappersEnded
  /\ InnerWritesCounted
  /\ \A l \in Loggers : Reported(l)

(* What a layer's future may do without reporting anything.                *)
Fresh == {"unpolled", "running", "awaiting"}
Moves(l) == \/ pc'[l] \in {pc[l], "dropped"}
            \/ pc[l] \in Fresh /\ pc'[l] \in Fresh

(* A logger whose part in the body and in the log is unchanged has reported*)
(* as before.                                                              *)
LEMMA SameReport ==
  ASSUME NEW l \in Loggers, Wraps(l)' = Wraps(l), line'[l] = line[l], Moves(l), Reported(l)
  PROVE  Reported(l)'
  BY DEF Moves, Reported, Fresh

(* A layer that ends resumes the layer that awaits it, or all are dropped. *)
LEMMA YieldsMoves ==
  ASSUME TypeOK, NEW i \in Layers, NEW r, Polled(i), Yields(i, r)
  PROVE  \A l \in Layers \ {i} : Moves(l)
<1> SUFFICES ASSUME NEW l \in Layers \ {i} PROVE Moves(l)
  OBVIOUS
<1>1. CASE i = 1
  BY <1>1, DroppedStates DEF Yields, Returned, Moves
<1>2. CASE i # 1 /\ l = i - 1
  <2>1. l < i
    BY <1>2, PipelineAssumption DEF Layers
  <2>2. pc[l] = "awaiting" /\ pc'[l] = "running"
    BY <1>2, <2>1, OutsideAwaits DEF Yields, Returned
  <2> QED
    BY <2>2 DEF Moves, Fresh
<1>3. CASE i # 1 /\ l # i - 1
  BY <1>3 DEF Yields, Returned, Moves
<1> QED
  BY <1>1, <1>2, <1>3

(* What a layer that runs, or serve, appends keeps InnerWritesCounted and  *)
(* WrappersEnded: no logger around it has wrapped the body yet.            *)
LEMMA AppendInside ==
  ASSUME TypeOK, [Next]_vars, WrappersEnded, InnerWritesCounted,
         NEW p \in Part, resp'.body = Append(resp.body, p),
         p.by = 0 \/ (p.by \in Layers /\ Polled(p.by)),
         p.kind = "logger" => p.by \in Layers /\ pc'[p.by] \in {"returned", "dropped"}
  PROVE  WrappersEnded' /\ InnerWritesCounted'
<1>0. resp.body \in Seq(Part)
  BY DEF TypeOK
<1>1. \A k \in DOMAIN resp.body : resp.body[k].kind = "logger" => p.by <= resp.body[k].by
  <2> SUFFICES ASSUME NEW k \in DOMAIN resp.body, resp.body[k].kind = "logger",
                      ~(p.by <= resp.body[k].by)
               PROVE  FALSE
    OBVIOUS
  <2>1. resp.body[k].by \in Layers /\ pc[resp.body[k].by] # "awaiting"
    BY DEF WrappersEnded, Ended
  <2>2. p.by \in Layers /\ resp.body[k].by < p.by
    BY <2>1, PipelineAssumption DEF Layers, Part
  <2>3. resp.body[k].by \in 1..(p.by - 1)
    BY <2>1, <2>2, PipelineAssumption DEF Layers
  <2>4. Polled(p.by)
    BY <2>2, PipelineAssumption DEF Layers
  <2> QED
    BY <2>1, <2>3, <2>4 DEF Polled
<1>2. /\ DOMAIN resp'.body = 1..(Len(resp.body) + 1)
      /\ DOMAIN resp.body = 1..Len(resp.body) /\ Len(resp.body) \in Nat
      /\ resp'.body[Len(resp.body) + 1] = p
      /\ \A k \in DOMAIN resp.body : resp'.body[k] = resp.body[k]
  BY <1>0
<1>3. \A k \in DOMAIN resp'.body : k \in DOMAIN resp.body \/ k = Len(resp.body) + 1
  BY <1>2
<1>4. WrappersEnded'
  <2> SUFFICES ASSUME NEW k \in DOMAIN resp'.body, resp'.body[k].kind = "logger"
               PROVE  /\ resp'.body[k].by \in Layers
                      /\ pc'[resp'.body[k].by] \in {"returned", "dropped"}
    BY DEF WrappersEnded, Ended
  <2>1. CASE k = Len(resp.body) + 1
    BY <1>2, <2>1
  <2>2. CASE k \in DOMAIN resp.body
    <3>1. Ended(resp.body[k].by)
      BY <1>2, <2>2 DEF WrappersEnded
    <3> QED
      BY <1>2, <2>2, <3>1, EndedStays DEF Ended
  <2> QED
    BY <1>3, <2>1, <2>2
<1>5. InnerWritesCounted'
  <2> SUFFICES ASSUME NEW k \in DOMAIN resp'.body, NEW m \in DOMAIN resp'.body,
                      resp'.body[k].kind = "logger", resp'.body[m].by > resp'.body[k].by
               PROVE  m < k
    BY DEF InnerWritesCounted
  <2>1. CASE k \in DOMAIN resp.body /\ m \in DOMAIN resp.body
    BY <1>2, <2>1 DEF InnerWritesCounted
  <2>2. CASE k = Len(resp.body) + 1
    <3>1. m # k
      <4> SUFFICES ASSUME m = k PROVE FALSE
        OBVIOUS
      <4>1. p.by > p.by /\ p.by \in Nat
        BY <1>2, <2>2, PipelineAssumption DEF Part
      <4> QED
        BY <4>1
    <3> QED
      BY <1>2, <2>2, <3>1
  <2>3. CASE k \in DOMAIN resp.body /\ m = Len(resp.body) + 1
    <3>1. p.by > resp.body[k].by /\ p.by <= resp.body[k].by
      BY <1>1, <1>2, <2>3
    <3>2. resp.body[k] \in Part
      BY <1>0, <2>3
    <3>3. p.by \in Nat /\ resp.body[k].by \in Nat
      BY <3>2, PipelineAssumption DEF Part
    <3> QED
      BY <3>1, <3>3
  <2> QED
    BY <1>3, <2>1, <2>2, <2>3
<1> QED
  BY <1>4, <1>5

(* A part that is appended is a logger's or leaves its share as it was.    *)
LEMMA AppendWraps ==
  ASSUME TypeOK, NEW p \in Part, resp'.body = Append(resp.body, p), NEW l \in Loggers
  PROVE  Wraps(l)' = IF p.kind = "logger" /\ p.by = l
                     THEN Wraps(l) \cup {Len(resp.body) + 1} ELSE Wraps(l)
<1>1. /\ DOMAIN resp'.body = (DOMAIN resp.body) \cup {Len(resp.body) + 1}
      /\ resp'.body[Len(resp.body) + 1] = p
      /\ Len(resp.body) + 1 \notin DOMAIN resp.body
      /\ \A k \in DOMAIN resp.body : resp'.body[k] = resp.body[k]
  BY DEF TypeOK
<1> QED
  BY <1>1 DEF Wraps

(* No step of the pipeline breaks BodyInv.                                 *)
LEMMA BodyInvStep == TypeOK /\ BodyInv /\ [Next]_vars => BodyInv'
<1> SUFFICES ASSUME TypeOK, BodyInv, [Next]_vars PROVE BodyInv'
  OBVIOUS
<1> USE DEF BodyInv
<1>0. /\ pc \in [Layers -> PcStates] /\ result \in [0..Depth -> Result]
      /\ line \in [0..Depth -> [state : {"none", "spawned", "printed"}, message : Message]]
      /\ Loggers \subseteq Layers /\ Loggers \subseteq 0..Depth /\ 0 \notin Loggers
      /\ \A i \in Layers : i \in 0..(Depth + 1)
  BY PipelineAssumption DEF TypeOK, PcStates, Layers
<1>1. ASSUME resp' = resp PROVE WrappersEnded' /\ InnerWritesCounted'
  <2>1. WrappersEnded'
    BY <1>1, EndedStays DEF WrappersEnded, Ended
  <2> QED
    BY <1>1, <2>1 DEF InnerWritesCounted
<1>2. ASSUME resp'.body = resp.body PROVE \A l \in Loggers : Wraps(l)' = Wraps(l)
  BY <1>2 DEF Wraps
<1>3. ASSUME resp' = resp, line' = line, \A l \in Loggers : Moves(l) PROVE BodyInv'
  BY <1>1, <1>2, <1>3, SameReport
<1>4. ASSUME NEW i \in Layers, Handle(i) PROVE BodyInv'
  <2>1. \A l \in Loggers : Moves(l)
    <3> SUFFICES ASSUME NEW l \in Loggers PROVE Moves(l)
      OBVIOUS
    <3>1. pc[i] = "running" /\ i <= Depth /\ i + 1 \in Layers /\ i + 1 # i
      BY <1>4, PipelineAssumption DEF Handle, Runs, Layers
    <3>2. pc' = [pc EXCEPT ![i] = "awaiting",
                           ![i + 1] = IF @ = "unpolled" THEN "running" ELSE @]
      BY <1>4 DEF Handle
    <3>3. CASE l = i
      BY <1>0, <3>1, <3>2, <3>3 DEF Moves, Fresh
    <3>4. CASE l = i + 1
      BY <1>0, <3>1, <3>2, <3>4 DEF Moves, Fresh
    <3>5. CASE l # i /\ l # i + 1
      BY <1>0, <3>2, <3>5 DEF Moves
    <3> QED
      BY <3>3, <3>4, <3>5
  <2> QED
    BY <1>3, <1>4, <2>1 DEF Handle
<1>5. ASSUME NEW i \in Layers, StopAwaiting(i) PROVE BodyInv'
  <2>1. \A l \in Loggers : Moves(l)
    BY <1>0, <1>5 DEF StopAwaiting, Moves
  <2> QED
    BY <1>3, <1>5, <2>1 DEF StopAwaiting
<1>6. ASSUME NEW i \in Layers, Return(i) PROVE BodyInv'
  <2>1. \A l \in Loggers : Moves(l)
    BY <1>0, <1>6, YieldsMoves DEF Return, Runs
  <2> QED
    BY <1>3, <1>6, <2>1 DEF Return
<1>7. ASSUME NEW i \in Layers, WriteResponse(i) PROVE BodyInv'
  <2> DEFINE p == [kind |-> "data", by |-> i, message |-> Empty]
  <2>1. p \in Part /\ p.kind = "data" /\ p.by = i
    BY <1>0, ResultTypes, AppendedPart
  <2>2. resp'.body = resp.body \/ resp'.body = Append(resp.body, p)
    BY <1>7 DEF WriteResponse, TypeOK
  <2>3. \A l \in Loggers : Wraps(l)' = Wraps(l)
    BY <1>2, <2>1, <2>2, AppendWraps
  <2>4. WrappersEnded' /\ InnerWritesCounted'
    <3>1. CASE resp'.body = resp.body
      BY <3>1, EndedStays DEF WrappersEnded, Ended, InnerWritesCounted
    <3>2. CASE resp'.body = Append(resp.body, p)
      BY <1>7, <2>1, <3>2, AppendInside DEF WriteResponse, Runs
    <3> QED
      BY <2>2, <3>1, <3>2
  <2>5. \A l \in Loggers : Reported(l)'
    BY <1>7, <2>3, SameReport DEF WriteResponse, Moves
  <2> QED
    BY <2>4, <2>5
<1>8. ASSUME pc' = [j \in Layers |-> Dropped(j)], resp' = resp, line' = line PROVE BodyInv'
  <2>1. \A l \in Loggers : Moves(l)
    BY <1>0, <1>8, DroppedStates DEF Moves
  <2> QED
    BY <1>3, <1>8, <2>1
<1>9. ASSUME NEW i \in Layers, LoggerErr(i) PROVE BodyInv'
  <2>1. \A l \in Loggers : Reported(l)'
    <3> SUFFICES ASSUME NEW l \in Loggers PROVE Reported(l)'
      OBVIOUS
    <3>1. i \in Loggers /\ i \in 0..Depth /\ pc[i] = "running" /\ resp' = resp
      BY <1>0, <1>9 DEF LoggerErr, Runs
    <3>2. CASE l = i
      <4>1. pc'[i] = "logging" /\ line'[i].state = "spawned"
        BY <1>0, <1>9, <3>1 DEF LoggerErr
      <4>2. Wraps(i)' = {}
        BY <1>2, <3>1 DEF Reported
      <4> QED
        BY <3>2, <4>1, <4>2 DEF Reported
    <3>3. CASE l # i
      BY <1>0, <1>2, <1>9, <3>1, <3>3, SameReport DEF LoggerErr, Moves
    <3> QED
      BY <3>2, <3>3
  <2> QED
    BY <1>1, <1>9, <2>1 DEF LoggerErr
<1>10. ASSUME NEW i \in Layers, LoggerErrLogged(i) PROVE BodyInv'
  <2>1. /\ i \in Loggers /\ pc[i] = "logging" /\ line[i].state = "printed"
        /\ Polled(i) /\ Yields(i, result[i]) /\ resp' = resp /\ line' = line
    BY <1>10 DEF LoggerErrLogged
  <2>2. Reported(i)'
    <3>1. pc'[i] = "returned"
      BY <2>1 DEF Yields, Returned
    <3>2. Wraps(i)' = {}
      BY <1>2, <2>1 DEF Reported
    <3> QED
      BY <2>1, <3>1, <3>2 DEF Reported
  <2>3. \A l \in Loggers \ {i} : Reported(l)'
    BY <1>0, <1>2, <2>1, SameReport, YieldsMoves
  <2> QED
    BY <1>1, <2>1, <2>2, <2>3
<1>11. ASSUME NEW i \in Layers, LoggerOk(i) PROVE BodyInv'
  <2> DEFINE p == [kind |-> "logger", by |-> i, message |-> Empty]
  <2>1. /\ i \in Loggers /\ pc[i] = "running" /\ Polled(i)
        /\ Yields(i, result[i]) /\ line' = line
    BY <1>11 DEF LoggerOk, Runs
  <2>2. p \in Part /\ p.kind = "logger" /\ p.by = i
    BY <1>0, ResultTypes, AppendedPart
  <2>3. resp'.body = Append(resp.body, p)
    BY <1>11 DEF LoggerOk, Wrap, TypeOK
  <2>4. pc'[i] = "returned"
    BY <2>1 DEF Yields, Returned
  <2>5. WrappersEnded' /\ InnerWritesCounted'
    BY <2>1, <2>2, <2>3, <2>4, AppendInside
  <2>6. Reported(i)'
    <3>1. Wraps(i)' = Wraps(i) \cup {Len(resp.body) + 1}
      BY <2>1, <2>2, <2>3, AppendWraps
    <3>2. Wraps(i) = {} /\ line[i].state = "none"
      BY <2>1 DEF Reported
    <3> QED
      BY <2>1, <2>4, <3>1, <3>2 DEF Reported
  <2>7. \A l \in Loggers \ {i} : Reported(l)'
    <3> SUFFICES ASSUME NEW l \in Loggers \ {i} PROVE Reported(l)'
      OBVIOUS
    <3>1. Wraps(l)' = Wraps(l)
      BY <2>2, <2>3, AppendWraps
    <3>2. Moves(l)
      BY <1>0, <2>1, YieldsMoves
    <3> QED
      BY <2>1, <3>1, <3>2, SameReport
  <2> QED
    BY <2>5, <2>6, <2>7
<1>12. ASSUME NEW i \in 0..Depth, PrintLine(i) PROVE BodyInv'
  <2>1. \A l \in Loggers : Reported(l)'
    <3> SUFFICES ASSUME NEW l \in Loggers PROVE Reported(l)'
      OBVIOUS
    <3>1. Wraps(l)' = Wraps(l) /\ pc' = pc
      BY <1>2, <1>12 DEF PrintLine
    <3>2. CASE l = i
      <4>1. line[l].state = "spawned" /\ line'[l].state = "printed"
        BY <1>0, <1>12, <3>2 DEF PrintLine
      <4> QED
        BY <3>1, <4>1 DEF Reported
    <3>3. CASE l # i
      BY <1>0, <1>12, <3>1, <3>3, SameReport DEF PrintLine, Moves
    <3> QED
      BY <3>2, <3>3
  <2> QED
    BY <1>1, <1>12, <2>1 DEF PrintLine
<1>13. CASE ServeOk \/ ServeLogged \/ UNCHANGED vars
  BY <1>3, <1>13 DEF ServeOk, ServeLogged, vars, Moves
<1>14. CASE ServeExposed
  <2> DEFINE p == [kind |-> "message", by |-> 0, message |-> result[0].message]
  <2>1. p \in Part /\ p.kind = "message" /\ p.by = 0
    <3>1. 0 \in 0..(Depth + 1) /\ result[0].message \in Message
      BY <1>0, PipelineAssumption DEF Result
    <3> QED
      BY <3>1, AppendedPart
  <2>2. resp'.body = Append(resp.body, p)
    BY <1>14 DEF ServeExposed
  <2>3. WrappersEnded' /\ InnerWritesCounted'
    BY <2>1, <2>2, AppendInside
  <2>4. \A l \in Loggers : Wraps(l)' = Wraps(l)
    BY <2>1, <2>2, AppendWraps
  <2>5. \A l \in Loggers : Reported(l)'
    BY <1>14, <2>4, SameReport DEF ServeExposed, Moves
  <2> QED
    BY <2>3, <2>5
<1>15. CASE ServeUnexposed
  <2>1. resp'.body = resp.body /\ pc' = pc
    BY <1>15 DEF ServeUnexposed, TypeOK
  <2>2. \A l \in Loggers : line'[l] = line[l]
    BY <1>0, <1>15 DEF ServeUnexposed
  <2>3. \A l \in Loggers : Reported(l)'
    BY <1>2, <2>1, <2>2, SameReport DEF Moves
  <2>4. WrappersEnded' /\ InnerWritesCounted'
    BY <2>1, EndedStays DEF WrappersEnded, Ended, InnerWritesCounted
  <2> QED
    BY <2>3, <2>4
<1>16. CASE \E i \in Layers : Panic(i)
  BY <1>8, <1>16 DEF Panic
<1>17. CASE Cancel
  BY <1>8, <1>17 DEF Cancel
<1> QED
  BY <1>4, <1>5, <1>6, <1>7, <1>9, <1>10, <1>11, <1>12, <1>13, <1>14, <1>15, <1>16, <1>17
     DEF Next, Ends, Serve

(* A request starts with an empty body, no line and no logger that ran.    *)
LEMMA BodyInvStarts == Init => BodyInv
<1> SUFFICES ASSUME Init PROVE BodyInv
  OBVIOUS
<1>1. resp.body = <<>> /\ \A l \in Loggers : l \in Layers /\ l \in 0..Depth
  BY PipelineAssumption DEF Init, Layers
<1>2. \A l \in Loggers : Reported(l)
  BY <1>1 DEF Init, Reported, Wraps
<1> QED
  BY <1>1, <1>2 DEF BodyInv, WrappersEnded, InnerWritesCounted

(* A logger's byte count covers all that the layers inside it wrote, for   *)
(* every depth of the chain and every choice of loggers.                   *)
THEOREM LoggersCountInner == Spec => []InnerWritesCounted
<1>1. BodyInv => InnerWritesCounted
  BY DEF BodyInv
<1> QED
  BY <1>1, BodyInvStarts, BodyInvStep, Typing, PTL DEF Spec

(* Each logger that returned printed an error line or wrapped the body,    *)
(* never both and never twice, when the reply goes out.                    *)
THEOREM LoggersReportOnce == Spec => []LoggedOrWrapped
<1>1. BodyInv => LoggedOrWrapped
  <2> SUFFICES ASSUME BodyInv, NEW l \in Loggers, pc[l] = "returned"
               PROVE  Cardinality(Wraps(l)) = IF line[l].state = "printed" THEN 0 ELSE 1
    BY DEF LoggedOrWrapped, Wraps
  <2>1. CASE Wraps(l) = {} /\ line[l].state = "printed"
    BY <2>1, FS_EmptySet
  <2>2. CASE line[l].state = "none" /\ \E k \in Wraps(l) : Wraps(l) = {k}
    <3> PICK k \in Wraps(l) : Wraps(l) = {k}
      BY <2>2
    <3> QED
      BY <2>2, FS_Singleton
  <2> QED
    BY <2>1, <2>2 DEF BodyInv, Reported
<1> QED
  BY <1>1, BodyInvStarts, BodyInvStep, Typing, PTL DEF Spec

-----------------------------------------------------------------------------
(* UncaughtLoggedOnce is inductive together with where an error is on its  *)
(* way out: at most one layer holds a result, the layers that threw what   *)
(* is printed or returned have ended, so that a message is thrown once,    *)
(* and an error a logger has printed is marked exposed.                    *)
OneResult ==
  /\ \A j \in 0..Depth : result[j].kind # "none" => Ended(j + 1)
  /\ \A j, k \in 0..Depth : result[j].kind # "none" /\ result[k].kind # "none" => j = k
  /\ serving \in {"logging", "replied"} => result[0].kind # "none"
  /\ serving = "logging" => ~result[0].expose
  /\ serving = "running" => line[0].state = "none"

ThrowersEnded ==
  /\ \A j \in 0..Depth : ~result[j].message.public => Ended(result[j].message.by)
  /\ \A j \in 0..Depth : ~result[j].origin.public => Ended(result[j].origin.by)
  /\ \A k \in 0..Depth : line[k].state # "none" /\ ~line[k].message.public =>
       Ended(line[k].message.by)

Carries(k, m) == line[k].state # "none" /\ line[k].message = m

Unprinted(j) == IF j = 0 THEN serving = "logging" ELSE pc[j] = "logging"

LogOnce(j) ==
  LET m == result[j].origin
  IN  IF serving = "running" /\ ~result[j].expose
      THEN result[j].message = m /\ \A k \in 0..Depth : ~Carries(k, m)
      ELSE \E k \in 0..Depth :
             /\ \A q \in 0..Depth : Carries(q, m) <=> q = k
             /\ line[k].state = "printed" \/ (k = j /\ Unprinted(j))

Private(r) == r.kind = "err" /\ ~r.origin.public

Told == serving \in {"running", "logging", "replied"} =>
  \A j \in 0..Depth : Private(result[j]) => LogOnce(j)

LogInv == OneResult /\ ThrowersEnded /\ Told

(* A layer that ends hands its result on, and no other layer holds one.    *)
LEMMA YieldsOne ==
  ASSUME TypeOK, OneResult, NEW i \in Layers, NEW r, Polled(i), Yields(i, r)
  PROVE  /\ i - 1 \in 0..Depth /\ result'[i - 1] = r /\ pc'[i] = "returned"
         /\ \A j \in 0..Depth : j # i - 1 =>
              result'[j].kind = "none" /\ result'[j] \in {result[j], Plain("none")}
<1>1. i - 1 \in 0..Depth /\ pc'[i] = "returned"
  BY PipelineAssumption DEF Layers, Yields, Returned
<1>2. result'[i - 1] = r
  BY <1>1 DEF Yields
<1>3. ASSUME NEW j \in 0..Depth, j # i - 1
      PROVE  result'[j].kind = "none" /\ result'[j] \in {result[j], Plain("none")}
  <2>1. CASE ~(j < i - 1)
    BY <1>3, <2>1 DEF Yields, Plain
  <2>2. CASE j < i - 1
    <3>1. result'[j] = result[j]
      BY <1>3, <2>2 DEF Yields
    <3>2. j + 1 \in Layers /\ j + 1 < i
      BY <1>3, <2>2, PipelineAssumption DEF Layers
    <3>3. pc[j + 1] = "awaiting"
      BY <3>2, OutsideAwaits
    <3> QED
      BY <1>3, <3>1, <3>3 DEF OneResult, Ended
  <2> QED
    BY <2>1, <2>2
<1> QED
  BY <1>1, <1>2, <1>3

(* What the logger makes of an error is an error that is marked exposed.   *)
LEMMA HiddenError ==
  ASSUME NEW r \in Result
  PROVE  /\ Hidden(r).kind = r.kind /\ Hidden(r).origin = r.origin /\ Hidden(r).expose
         /\ Hidden(r).message \in {r.message, Empty}
<1>1. CASE r.expose
  BY <1>1 DEF Hidden
<1>2. CASE ~r.expose
  BY <1>2 DEF Hidden, Result
<1> QED
  BY <1>1, <1>2

(* At most one layer holds a result, and serve takes it when it is its own.*)
LEMMA OneResultStep ==
  ASSUME TypeOK, OneResult, [Next]_vars
  PROVE  OneResult'
<1> USE DEF OneResult
<1>0. /\ result \in [0..Depth -> Result] /\ 0 \in 0..Depth
      /\ line \in [0..Depth -> [state : {"none", "spawned", "printed"}, message : Message]]
      /\ \A j \in 0..Depth : j + 1 \in Layers
  BY PipelineAssumption DEF TypeOK, Layers
<1>1. \A j \in 0..Depth : result[j].kind # "none" => Ended(j + 1)'
  BY <1>0, EndedStays DEF Ended
<1>2. ASSUME result' = result, line' = line,
             serving' \in {serving, "cancelled", "panicked"}
      PROVE  OneResult'
  BY <1>0, <1>1, <1>2
<1>3. ASSUME NEW i \in Layers, NEW r, Polled(i), Yields(i, r), line' = line, serving' = serving
      PROVE  OneResult'
  <2>1. serving' = "running"
    BY <1>3 DEF Polled
  <2>2. \A j \in 0..Depth : result'[j].kind # "none" => j = i - 1
    BY <1>3, YieldsOne
  <2>3. Ended(i)'
    BY <1>3, YieldsOne DEF Ended
  <2>4. \A j \in 0..Depth : j = i - 1 => j + 1 = i
    BY PipelineAssumption DEF Layers
  <2>5. \A j \in 0..Depth : result'[j].kind # "none" => Ended(j + 1)'
    BY <2>2, <2>3, <2>4
  <2>6. \A j, k \in 0..Depth : result'[j].kind # "none" /\ result'[k].kind # "none" => j = k
    BY <2>2
  <2> QED
    BY <1>3, <2>1, <2>5, <2>6
<1>4. ASSUME NEW i \in Layers, LoggerErr(i) PROVE OneResult'
  <2>1. i \in 0..Depth /\ i # 0 /\ serving = "running" /\ serving' = "running"
    BY <1>4, LoggerHasNext, PipelineAssumption DEF LoggerErr, Runs, Polled, Layers
  <2>2. \A j \in 0..Depth : result'[j].kind = result[j].kind
    BY <1>0, <1>4, <2>1, HiddenError DEF LoggerErr
  <2>3. line'[0] = line[0]
    BY <1>0, <1>4, <2>1 DEF LoggerErr
  <2> QED
    BY <1>1, <2>1, <2>2, <2>3
<1>5. ASSUME NEW i \in Layers,
             Handle(i) \/ StopAwaiting(i) \/ WriteResponse(i) \/ Panic(i)
      PROVE  OneResult'
  BY <1>2, <1>5 DEF Handle, StopAwaiting, WriteResponse, Panic
<1>6. ASSUME NEW i \in Layers, Return(i) \/ LoggerErrLogged(i) \/ LoggerOk(i)
      PROVE  OneResult'
  BY <1>3, <1>6 DEF Return, LoggerErrLogged, LoggerOk, Runs
<1>7. ASSUME NEW i \in 0..Depth, PrintLine(i) PROVE OneResult'
  <2>1. serving = "running" => i # 0
    BY <1>7 DEF PrintLine
  <2>2. serving = "running" => line'[0] = line[0]
    BY <1>0, <1>7, <2>1 DEF PrintLine
  <2> QED
    BY <1>0, <1>1, <1>7, <2>2 DEF PrintLine
<1>8. CASE Serve
  <2>1. /\ result' = result /\ result[0].kind # "none"
        /\ serving' = "logging" => ~result[0].expose
        /\ serving' # "running"
    <3>1. CASE ServeOk
      BY <3>1 DEF ServeOk
    <3>2. CASE ServeExposed
      BY <3>2 DEF ServeExposed
    <3>3. CASE ServeUnexposed
      BY <3>3 DEF ServeUnexposed
    <3>4. CASE ServeLogged
      BY <3>4 DEF ServeLogged
    <3> QED
      BY <1>8, <3>1, <3>2, <3>3, <3>4 DEF Serve
  <2> QED
    BY <1>1, <2>1
<1>9. CASE Cancel \/ UNCHANGED vars
  BY <1>2, <1>9 DEF Cancel, vars
<1> QED
  BY <1>4, <1>5, <1>6, <1>7, <1>8, <1>9 DEF Next, Ends

(* A message that was thrown is the message of a layer that ended.         *)
LEMMA ThrowersStep ==
  ASSUME TypeOK, OneResult, ThrowersEnded, [Next]_vars
  PROVE  ThrowersEnded'
<1> USE DEF ThrowersEnded
<1>0. /\ result \in [0..Depth -> Result] /\ 0 \in 0..Depth
      /\ line \in [0..Depth -> [state : {"none", "spawned", "printed"}, message : Message]]
  BY PipelineAssumption DEF TypeOK
<1> DEFINE Gone(b) == b \in Layers /\ pc'[b] \in {"returned", "dropped"}
<1>1. \A j \in 0..Depth :
        /\ ~result[j].message.public => Gone(result[j].message.by)
        /\ ~result[j].origin.public => Gone(result[j].origin.by)
        /\ line[j].state # "none" /\ ~line[j].message.public => Gone(line[j].message.by)
  BY EndedStays DEF Ended
<1>2. ASSUME \A j \in 0..Depth : result'[j] \in {result[j], Plain("none")},
             \A j \in 0..Depth : \/ line'[j].state = "none" \/ line'[j].message.public
                                 \/ Gone(line'[j].message.by)
      PROVE  ThrowersEnded'
  <2>1. \A j \in 0..Depth : result'[j].message.public \/ Gone(result'[j].message.by)
    BY <1>1, <1>2 DEF Plain, Empty
  <2>2. \A j \in 0..Depth : result'[j].origin.public \/ Gone(result'[j].origin.by)
    BY <1>1, <1>2 DEF Plain, Empty
  <2> QED
    BY <1>2, <2>1, <2>2 DEF Ended
<1>3. ASSUME result' = result, line' = line PROVE ThrowersEnded'
  BY <1>1, <1>2, <1>3
<1>4. ASSUME NEW i \in Layers, NEW r, Polled(i), Yields(i, r), line' = line,
             r.message.public \/ Gone(r.message.by), r.origin.public \/ Gone(r.origin.by)
      PROVE  ThrowersEnded'
  <2>1. \A j \in 0..Depth : result'[j] = r \/ result'[j] \in {result[j], Plain("none")}
    BY <1>4, YieldsOne
  <2>2. \A j \in 0..Depth : result'[j].message.public \/ Gone(result'[j].message.by)
    BY <1>1, <1>4, <2>1 DEF Plain, Empty
  <2>3. \A j \in 0..Depth : result'[j].origin.public \/ Gone(result'[j].origin.by)
    BY <1>1, <1>4, <2>1 DEF Plain, Empty
  <2> QED
    BY <1>1, <1>4, <2>2, <2>3 DEF Ended
<1>5. ASSUME NEW i \in Layers, Return(i) PROVE ThrowersEnded'
  <2>1. PICK r \in {Plain("ok")} \cup Thrown(i) \cup PassedOn(i) : Yields(i, r)
    BY <1>5 DEF Return
  <2>2. Gone(i)
    BY <1>5, <2>1, YieldsOne DEF Return, Runs
  <2>3. CASE r = Plain("ok")
    BY <1>4, <1>5, <2>1, <2>3 DEF Return, Runs, Plain, Empty
  <2>4. CASE r \in Thrown(i)
    <3>1. r.message.by = i /\ r.origin.by = i
      BY <2>4 DEF Thrown
    <3> QED
      BY <1>4, <1>5, <2>1, <2>2, <3>1 DEF Return, Runs
  <2>5. CASE r \in PassedOn(i)
    BY <1>1, <1>4, <1>5, <2>1, <2>5 DEF Return, Runs, PassedOn
  <2> QED
    BY <2>3, <2>4, <2>5
<1>6. ASSUME NEW i \in Layers, LoggerErrLogged(i) \/ LoggerOk(i) PROVE ThrowersEnded'
  <2>1. i \in 0..Depth /\ Polled(i) /\ Yields(i, result[i]) /\ line' = line
    BY <1>6, LoggerHasNext DEF LoggerErrLogged, LoggerOk, Runs
  <2>2. \A j \in 0..Depth : result'[j] \in {result[i], result[j], Plain("none")}
    BY <2>1, YieldsOne
  <2>3. \A j \in 0..Depth : result'[j].message.public \/ Gone(result'[j].message.by)
    BY <1>1, <2>1, <2>2 DEF Plain, Empty
  <2>4. \A j \in 0..Depth : result'[j].origin.public \/ Gone(result'[j].origin.by)
    BY <1>1, <2>1, <2>2 DEF Plain, Empty
  <2> QED
    BY <1>1, <2>1, <2>3, <2>4 DEF Ended
<1>7. ASSUME NEW i \in Layers, LoggerErr(i) PROVE ThrowersEnded'
  <2>1. i \in 0..Depth /\ result[i] \in Result
    BY <1>0, <1>7, LoggerHasNext DEF LoggerErr
  <2>2. \A j \in 0..Depth : /\ result'[j].message \in {result[j].message, Empty}
                            /\ result'[j].origin = result[j].origin
    BY <1>0, <1>7, <2>1, HiddenError DEF LoggerErr
  <2>3. \A j \in 0..Depth : result'[j].message.public \/ Gone(result'[j].message.by)
    BY <1>1, <2>2 DEF Empty
  <2>4. \A j \in 0..Depth : result'[j].origin.public \/ Gone(result'[j].origin.by)
    BY <1>1, <2>2
  <2>5. \A j \in 0..Depth : \/ line'[j] = line[j]
                            \/ line'[j].message = result[i].message
    BY <1>0, <1>7, <2>1 DEF LoggerErr
  <2>6. \A j \in 0..Depth : \/ line'[j].state = "none" \/ line'[j].message.public
                            \/ Gone(line'[j].message.by)
    BY <1>1, <2>1, <2>5
  <2> QED
    BY <2>3, <2>4, <2>6 DEF Ended
<1>8. ASSUME NEW i \in 0..Depth, PrintLine(i) PROVE ThrowersEnded'
  <2>1. line[i].state # "none" /\ result' = result
    BY <1>8 DEF PrintLine
  <2>2. \A j \in 0..Depth : line'[j].message = line[j].message /\ (j # i => line'[j] = line[j])
    BY <1>0, <1>8 DEF PrintLine
  <2>3. \A j \in 0..Depth : \/ line'[j].state = "none" \/ line'[j].message.public
                            \/ Gone(line'[j].message.by)
    BY <1>1, <2>1, <2>2
  <2> QED
    BY <1>2, <2>1, <2>3
<1>9. CASE ServeUnexposed
  <2>1. \A j \in 0..Depth : line'[j] = line[j] \/ line'[j].message = result[0].message
    BY <1>0, <1>9 DEF ServeUnexposed
  <2>2. \A j \in 0..Depth : \/ line'[j].state = "none" \/ line'[j].message.public
                            \/ Gone(line'[j].message.by)
    BY <1>0, <1>1, <2>1
  <2>3. result' = result
    BY <1>9 DEF ServeUnexposed
  <2> QED
    BY <1>2, <2>2, <2>3
<1>10. ASSUME NEW i \in Layers,
              Handle(i) \/ StopAwaiting(i) \/ WriteResponse(i) \/ Panic(i)
       PROVE  ThrowersEnded'
  BY <1>3, <1>10 DEF Handle, StopAwaiting, WriteResponse, Panic
<1>11. CASE ServeOk \/ ServeExposed \/ ServeLogged \/ Cancel \/ UNCHANGED vars
  BY <1>3, <1>11 DEF ServeOk, ServeExposed, ServeLogged, Cancel, vars
<1> QED
  BY <1>5, <1>6, <1>7, <1>8, <1>9, <1>10, <1>11 DEF Next, Ends, Serve

(* An error that is on its way out has been printed by the logger that     *)
(* marked it exposed, or by nobody.                                        *)
LEMMA ToldStep ==
  ASSUME TypeOK, BodyInv, NoSecret, LogInv, [Next]_vars
  PROVE  Told'
<1> USE DEF LogInv
<1>0. /\ result \in [0..Depth -> Result] /\ 0 \in 0..Depth
      /\ line \in [0..Depth -> [state : {"none", "spawned", "printed"}, message : Message]]
      /\ pc \in [Layers -> PcStates]
      /\ \A j \in 0..Depth : j # 0 => j \in Layers
  BY PipelineAssumption DEF TypeOK, PcStates, Layers
<1>1. ASSUME serving' \notin {"running", "logging", "replied"} PROVE Told'
  BY <1>1 DEF Told
<1>2. ASSUME result' = result, line' = line, serving' = serving,
             \A j \in Layers : pc[j] = "logging" => pc'[j] = "logging"
      PROVE  Told'
  <2> SUFFICES ASSUME serving \in {"running", "logging", "replied"},
                      NEW j \in 0..Depth, Private(result[j])
               PROVE  LogOnce(j)'
    BY <1>2 DEF Told, Private
  <2>1. LogOnce(j)
    BY DEF Told
  <2>2. Unprinted(j) => Unprinted(j)'
    BY <1>0, <1>2 DEF Unprinted
  <2>3. \A k \in 0..Depth : Carries(k, result[j].origin)' <=> Carries(k, result[j].origin)
    BY <1>2 DEF Carries
  <2> QED
    BY <1>2, <2>1, <2>2, <2>3 DEF LogOnce
<1>3. ASSUME NEW i \in Layers, Handle(i) \/ StopAwaiting(i) \/ WriteResponse(i) PROVE Told'
  <2>1. \A j \in Layers : pc[j] = "logging" => pc'[j] = "logging"
    BY <1>0, <1>3 DEF Handle, StopAwaiting, WriteResponse, Runs
  <2> QED
    BY <1>2, <1>3, <2>1 DEF Handle, StopAwaiting, WriteResponse
<1>4. ASSUME NEW i \in Layers, NEW r, Polled(i), Yields(i, r), line' = line, serving' = serving,
             Private(r) =>
               \/ /\ ~r.expose /\ r.message = r.origin
                  /\ \A k \in 0..Depth : ~Carries(k, r.origin)
               \/ /\ r.expose
                  /\ \E k \in 0..Depth : /\ \A q \in 0..Depth : Carries(q, r.origin) <=> q = k
                                         /\ line[k].state = "printed"
      PROVE  Told'
  <2> SUFFICES ASSUME NEW j \in 0..Depth, Private(result[j])'
               PROVE  LogOnce(j)'
    BY DEF Told
  <2>1. result'[j] = r /\ Private(r)
    BY <1>4, YieldsOne DEF Private
  <2>2. serving' = "running"
    BY <1>4 DEF Polled
  <2> QED
    BY <1>4, <2>1, <2>2 DEF LogOnce, Carries
<1>5. ASSUME NEW i \in Layers, i \in 0..Depth, serving = "running", Private(result[i]),
             pc[i] # "logging" \/ line[i].state = "printed"
      PROVE  \/ /\ ~result[i].expose /\ result[i].message = result[i].origin
                /\ \A k \in 0..Depth : ~Carries(k, result[i].origin)
             \/ /\ result[i].expose
                /\ \E k \in 0..Depth :
                     /\ \A q \in 0..Depth : Carries(q, result[i].origin) <=> q = k
                     /\ line[k].state = "printed"
  <2>1. LogOnce(i) /\ i # 0
    BY <1>5, PipelineAssumption DEF Told, Layers
  <2> QED
    BY <1>5, <2>1 DEF LogOnce, Unprinted
<1>6. ASSUME NEW i \in Layers, Return(i) PROVE Told'
  <2>1. PICK r \in {Plain("ok")} \cup Thrown(i) \cup PassedOn(i) : Yields(i, r)
    BY <1>6 DEF Return
  <2>2. Polled(i) /\ pc[i] = "running" /\ line' = line /\ serving' = serving /\ serving = "running"
    BY <1>6 DEF Return, Runs, Polled
  <2>3. CASE r = Plain("ok")
    BY <1>4, <2>1, <2>2, <2>3 DEF Private, Plain
  <2>4. CASE r \in Thrown(i)
    <3>1. r.message = r.origin /\ r.origin.by = i /\ r.expose = r.origin.public
      BY <2>4 DEF Thrown
    <3>2. ASSUME ~r.origin.public, NEW k \in 0..Depth PROVE ~Carries(k, r.origin)
      BY <2>2, <3>1, <3>2 DEF ThrowersEnded, Carries, Ended
    <3> QED
      BY <1>4, <2>1, <2>2, <3>1, <3>2 DEF Private
  <2>5. CASE r \in PassedOn(i)
    <3>1. i \in 0..Depth /\ r = result[i]
      BY <2>5 DEF PassedOn
    <3> QED
      BY <1>4, <1>5, <2>1, <2>2, <3>1
  <2> QED
    BY <2>3, <2>4, <2>5
<1>7. ASSUME NEW i \in Layers, LoggerErrLogged(i) \/ LoggerOk(i) PROVE Told'
  <2>1. /\ i \in 0..Depth /\ Polled(i) /\ Yields(i, result[i]) /\ line' = line
        /\ serving' = serving /\ serving = "running"
        /\ pc[i] # "logging" \/ line[i].state = "printed"
    BY <1>7, LoggerHasNext DEF LoggerErrLogged, LoggerOk, Runs, Polled
  <2> QED
    BY <1>4, <1>5, <2>1
<1>8. ASSUME NEW i \in Layers, LoggerErr(i) PROVE Told'
  <2>1. /\ i \in Loggers /\ i \in 0..Depth /\ i # 0 /\ result[i] \in Result
        /\ pc[i] = "running" /\ pc'[i] = "logging" /\ result[i].kind = "err"
        /\ serving = "running" /\ serving' = "running"
    BY <1>0, <1>8, LoggerHasNext, PipelineAssumption DEF LoggerErr, Runs, Polled, Layers
  <2>2. line[i].state = "none"
    BY <2>1 DEF BodyInv, Reported
  <2>3. /\ result'[i] = Hidden(result[i])
        /\ line'[i] = [state |-> "spawned", message |-> result[i].message]
        /\ \A q \in 0..Depth : q # i => line'[q] = line[q] /\ result'[q] = result[q]
    BY <1>0, <1>8, <2>1 DEF LoggerErr
  <2>4. /\ result'[i].expose /\ result'[i].origin = result[i].origin
        /\ result'[i].kind = "err"
    BY <2>1, <2>3, HiddenError
  <2> SUFFICES ASSUME NEW j \in 0..Depth, Private(result[j])'
               PROVE  LogOnce(j)'
    BY DEF Told
  <2>5. j = i
    <3> SUFFICES ASSUME j # i PROVE FALSE
      OBVIOUS
    <3>1. result[j].kind = "err"
      BY <2>3 DEF Private
    <3> QED
      BY <2>1, <3>1 DEF OneResult
  <2>6. ~result[i].origin.public /\ LogOnce(i)
    BY <2>1, <2>4, <2>5 DEF Private, Told
  <2>7. CASE ~result[i].expose
    <3>1. /\ result[i].message = result[i].origin
          /\ \A k \in 0..Depth : ~Carries(k, result[i].origin)
      BY <2>1, <2>6, <2>7 DEF LogOnce
    <3>2. \A q \in 0..Depth : Carries(q, result[i].origin)' <=> q = i
      BY <2>3, <2>4, <3>1 DEF Carries
    <3> QED
      BY <2>1, <2>4, <2>5, <3>2 DEF LogOnce, Unprinted, Carries
  <2>8. CASE result[i].expose
    <3>1. PICK k \in 0..Depth : /\ \A q \in 0..Depth : Carries(q, result[i].origin) <=> q = k
                                /\ line[k].state = "printed"
      BY <1>5, <2>1, <2>6, <2>8 DEF Private
    <3>2. k # i
      BY <2>2, <3>1
    <3>3. result[i].message.public
      BY <2>1, <2>8 DEF NoSecret, ExposedIsPublic
    <3>4. ~(line'[i].message = result[i].origin)
      BY <2>3, <2>6, <3>3
    <3>5. \A q \in 0..Depth : (line'[q].state # "none" /\ line'[q].message = result[i].origin)
                              <=> q = k
      BY <2>3, <3>1, <3>2, <3>4 DEF Carries
    <3> QED
      BY <2>3, <2>4, <2>5, <3>1, <3>2, <3>5 DEF LogOnce, Carries
  <2> QED
    BY <2>7, <2>8
<1>9. ASSUME NEW i \in 0..Depth, PrintLine(i) PROVE Told'
  <2>1. /\ line[i].state = "spawned" /\ line'[i].state = "printed"
        /\ \A q \in 0..Depth : line'[q].message = line[q].message /\ (q # i => line'[q] = line[q])
        /\ result' = result /\ serving' = serving /\ pc' = pc
    BY <1>0, <1>9 DEF PrintLine
  <2> SUFFICES ASSUME serving \in {"running", "logging", "replied"},
                      NEW j \in 0..Depth, Private(result[j])
               PROVE  LogOnce(j)'
    BY <2>1 DEF Told, Private
  <2>2. LogOnce(j)
    BY DEF Told
  <2>3. \A q \in 0..Depth : (line'[q].state # "none") <=> (line[q].state # "none")
    BY <2>1
  <2>4. \A q \in 0..Depth : line[q].state = "printed" => line'[q].state = "printed"
    BY <2>1
  <2> QED
    BY <2>1, <2>2, <2>3, <2>4 DEF LogOnce, Carries, Unprinted
<1>10. CASE ServeOk \/ ServeExposed \/ ServeLogged
  <2>1. /\ result' = result /\ line' = line /\ serving' = "replied"
        /\ serving \in {"running", "logging"}
    BY <1>10 DEF ServeOk, ServeExposed, ServeLogged
  <2> SUFFICES ASSUME NEW j \in 0..Depth, Private(result[j]) PROVE LogOnce(j)'
    BY <2>1 DEF Told, Private
  <2>2. result[0].kind # "none"
    BY <1>10 DEF ServeOk, ServeExposed, ServeLogged, OneResult
  <2>3. j = 0
    BY <1>0, <2>2 DEF OneResult, Private
  <2>4. LogOnce(0)
    BY <2>1, <2>3 DEF Told
  <2>5. CASE ServeLogged
    BY <2>1, <2>3, <2>4, <2>5 DEF ServeLogged, LogOnce, Unprinted, Carries
  <2>6. CASE ServeOk \/ ServeExposed
    BY <2>1, <2>3, <2>4, <2>6 DEF ServeOk, ServeExposed, LogOnce, Unprinted, Carries, Private
  <2> QED
    BY <1>10, <2>5, <2>6
<1>11. CASE ServeUnexposed
  <2>1. /\ result' = result /\ serving' = "logging" /\ serving = "running"
        /\ result[0].kind = "err" /\ ~result[0].expose
        /\ line'[0] = [state |-> "spawned", message |-> result[0].message]
        /\ \A q \in 0..Depth : q # 0 => line'[q] = line[q]
    BY <1>0, <1>11 DEF ServeUnexposed
  <2> SUFFICES ASSUME NEW j \in 0..Depth, Private(result[j]) PROVE LogOnce(j)'
    BY <2>1 DEF Told, Private
  <2>2. j = 0
    BY <1>0, <2>1 DEF OneResult, Private
  <2>3. /\ result[0].message = result[0].origin
        /\ \A k \in 0..Depth : ~Carries(k, result[0].origin)
    BY <2>1, <2>2 DEF Told, LogOnce
  <2>4. \A q \in 0..Depth : (line'[q].state # "none" /\ line'[q].message = result[0].origin)
                            <=> q = 0
    BY <1>0, <2>1, <2>3 DEF Carries
  <2> QED
    BY <1>0, <2>1, <2>2, <2>4 DEF LogOnce, Carries, Unprinted
<1>12. CASE (\E i \in Layers : Panic(i)) \/ Cancel
  BY <1>1, <1>12 DEF Panic, Cancel
<1>13. CASE UNCHANGED vars
  BY <1>2, <1>13 DEF vars
<1> QED
  BY <1>3, <1>6, <1>7, <1>8, <1>9, <1>10, <1>11, <1>12, <1>13 DEF Next, Ends, Serve

(* An unexposed error that ends a request is printed exactly once before   *)
(* the reply, whatever layers passed it on, recovered from it, logged it   *)
(* or were left half way.                                                  *)
THEOREM ErrorsLoggedOnce == Spec => []UncaughtLoggedOnce
<1>1. Init => LogInv
  BY PipelineAssumption
     DEF Init, LogInv, OneResult, ThrowersEnded, Told, Private, Plain, Empty
<1>2. TypeOK /\ BodyInv /\ NoSecret /\ LogInv /\ [Next]_vars => LogInv'
  BY OneResultStep, ThrowersStep, ToldStep DEF LogInv
<1>3. TypeOK /\ LogInv => UncaughtLoggedOnce
  <2> SUFFICES ASSUME TypeOK, LogInv, serving = "replied", Private(result[0])
               PROVE  Cardinality({i \in 0..Depth :
                        line[i] = [state |-> "printed", message |-> result[0].origin]}) = 1
    BY DEF UncaughtLoggedOnce, Private
  <2> DEFINE m == result[0].origin
             S == {i \in 0..Depth : line[i] = [state |-> "printed", message |-> m]}
  <2>1. 0 \in 0..Depth
    BY PipelineAssumption
  <2>2. PICK k \in 0..Depth : /\ \A q \in 0..Depth : Carries(q, m) <=> q = k
                              /\ line[k].state = "printed"
    BY <2>1 DEF LogInv, Told, LogOnce, Unprinted
  <2>3. \A q \in 0..Depth : line[q] \in [state : {"none", "spawned", "printed"}, message : Message]
    BY DEF TypeOK
  <2>4. \A q \in 0..Depth : line[q] = [state |-> "printed", message |-> m] <=> q = k
    BY <2>2, <2>3 DEF Carries
  <2>5. S = {k}
    BY <2>4
  <2> QED
    BY <2>5, FS_Singleton
<1> QED
  BY <1>1, <1>2, <1>3, SecretsInv, BodyInvStarts, BodyInvStep, Typing, PTL DEF Spec

=============================================================================
