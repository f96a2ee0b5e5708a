----------------------------- MODULE RequestProofs ----------------------------
(***************************************************************************)
(* Proofs about what a request meets, for any number of requests, contexts *)
(* and calls.  Every part has a section of its own, with its inductive     *)
(* invariant; a theorem about OneRequest follows from the steps of its     *)
(* part, for no step belongs to another one.                               *)
(***************************************************************************)
EXTENDS OneRequest, SequenceFacts

(* A behaviour stays with its part, and its steps are those of the part.   *)
LEMMA PartsApart ==
  ASSUME [Next]_vars
  PROVE  /\ UNCHANGED part
         /\ part = "context" => [Contexts!Next]_(Contexts!vars)
         /\ part = "path" => [Matcher!Next]_(Matcher!vars)
         /\ part = "jwt" => [Tokens!Next]_(Tokens!vars)
         /\ part = "extensions" => [Lookups!Next]_(Lookups!vars)
         /\ part = "power_body" => [Bodies!Next]_(Bodies!vars)
         /\ part = "websocket" => [Upgrade!Next]_(Upgrade!vars)
  BY DEF Next, vars, entry, middlewares, handlers, context, paths, jwt, extensions, power_body,
         websocket, Contexts!vars, Matcher!vars, Tokens!vars, Lookups!vars, Bodies!vars, Upgrade!vars

-----------------------------------------------------------------------------
(* Websockets.                                                             *)

Stages == {"layers", "endpoint", "returned", "serve", "answering", "switched", "answered", "gone"}

UpgradeTypes ==
    /\ stage \in [Upgrades -> Stages]
    /\ valid \in [Upgrades -> BOOLEAN]
    /\ upgrade \in [Upgrades -> {"request", "layer", "task"}]
    /\ returned \in [Upgrades -> Codes \cup {Upgrade!Ok}]
    /\ handshake \in [Upgrades -> [status : Codes \cup {101, 200}, accepted : BOOLEAN]]
    /\ task \in [Upgrades -> {"none", "waiting", "running", "ended"}]

(* The strengthening: only the endpoint says 101, after a right handshake. *)
(* serve writes the code of an error over it, so a 101 that is answered    *)
(* was let pass by every layer; hyper gives up a connection only after it. *)
SaysSwitch(r) == handshake[r].status = 101

SwitchIsMeant ==
    \A r \in Upgrades :
        /\ SaysSwitch(r) => handshake[r].accepted /\ valid[r]
        /\ stage[r] \in {"answering", "switched"} /\ SaysSwitch(r) => returned[r] = Upgrade!Ok
        /\ stage[r] = "switched" => SaysSwitch(r)
        /\ task[r] = "running" => /\ stage[r] \in {"switched", "gone"}
                                  /\ valid[r] /\ handshake[r].accepted
                                  /\ returned[r] = Upgrade!Ok

UpgradeInv == UpgradeTypes /\ SwitchIsMeant

(* Every step keeps who may switch, whatever the layers return and set.    *)
LEMMA UpgradeSteps ==
  ASSUME Upgrade!WebsocketAssumption, UpgradeInv, [Upgrade!Next]_(Upgrade!vars)
  PROVE  UpgradeInv'
<1> USE DEF UpgradeInv, UpgradeTypes, SwitchIsMeant, SaysSwitch, Stages, Upgrade!Ok
<1>0. 101 \notin Codes /\ 0 \notin Codes /\ 400 \in Codes
  BY DEF Upgrade!WebsocketAssumption
<1>1. ASSUME NEW r \in Upgrades, Upgrade!Next_await(r) PROVE UpgradeInv'
  BY <1>1 DEF Upgrade!Next_await, Upgrade!Goes
<1>2. ASSUME NEW r \in Upgrades, Upgrade!Refuse(r) PROVE UpgradeInv'
  BY <1>0, <1>2 DEF Upgrade!Refuse, Upgrade!Goes
<1>3. ASSUME NEW r \in Upgrades, Upgrade!call(r) PROVE UpgradeInv'
  <2>1. [status |-> 101, accepted |-> TRUE] \in [status : Codes \cup {101, 200}, accepted : BOOLEAN]
    OBVIOUS
  <2> QED
    BY <1>3, <2>1 DEF Upgrade!call, Upgrade!Spawn, Upgrade!Taken, Upgrade!Switch, Upgrade!Goes
<1>4. ASSUME NEW r \in Upgrades, Upgrade!Return(r) PROVE UpgradeInv'
  BY <1>0, <1>4 DEF Upgrade!Return, Upgrade!Goes
<1>5. ASSUME NEW r \in Upgrades, Upgrade!serve(r) PROVE UpgradeInv'
  BY <1>0, <1>5 DEF Upgrade!serve, Upgrade!Status, Upgrade!Goes
<1>6. ASSUME NEW r \in Upgrades, Upgrade!Answer(r) PROVE UpgradeInv'
  BY <1>6 DEF Upgrade!Answer, Upgrade!Goes
<1>7. ASSUME NEW r \in Upgrades, Upgrade!Leave(r) PROVE UpgradeInv'
  BY <1>7 DEF Upgrade!Leave, Upgrade!Goes
<1>8. ASSUME NEW r \in Upgrades, Upgrade!Upgrading(r) \/ Upgrade!TaskEnds(r) PROVE UpgradeInv'
  <2>1. CASE Upgrade!Upgraded(r)
    BY <2>1 DEF Upgrade!Upgraded
  <2>2. CASE Upgrade!UpgradeError(r)
    BY <2>2 DEF Upgrade!UpgradeError
  <2>3. CASE Upgrade!TaskEnds(r)
    BY <2>3 DEF Upgrade!TaskEnds
  <2> QED
    BY <1>8, <2>1, <2>2, <2>3 DEF Upgrade!Upgrading
<1>9. CASE UNCHANGED Upgrade!vars
  BY <1>9 DEF Upgrade!vars
<1> QED
  BY <1>1, <1>2, <1>3, <1>4, <1>5, <1>6, <1>7, <1>8, <1>9 DEF Upgrade!Next, Upgrade!Handle

(* For any number of websocket requests and any codes the layers answer    *)
(* and throw, the task gets the socket only of a client whose handshake    *)
(* was right and that every layer let through.                             *)
THEOREM RefusedIsNeverServed == Spec => []RefusedNeverServed
<1> DEFINE Inv == part = "websocket" => UpgradeInv
<1>1. Init => Inv
  <2> SUFFICES ASSUME Upgrade!Init PROVE UpgradeInv
    BY DEF Init
  <2>1. [status |-> 200, accepted |-> FALSE] \in [status : Codes \cup {101, 200}, accepted : BOOLEAN]
    OBVIOUS
  <2> QED
    BY <2>1 DEF Upgrade!Init, UpgradeInv, UpgradeTypes, SwitchIsMeant, SaysSwitch, Stages, Upgrade!Ok
<1>2. Inv /\ [Next]_vars => Inv'
  BY PartsApart, UpgradeSteps, Assumptions
<1>3. Inv => RefusedNeverServed
  BY DEF UpgradeInv, SwitchIsMeant, RefusedNeverServed, Upgrade!RefusedNeverServed
<1> QED
  BY <1>1, <1>2, <1>3, PTL DEF Spec

-----------------------------------------------------------------------------
(* Tokens.                                                                 *)

JwtSlots == [secret : SUBSET Secrets, token : SUBSET Tokens!Tokens, value : SUBSET Tokens!Tokens]
Passes == [secret : Secrets, token : Tokens!Tokens, validation : Tokens!Validations, at : Nat]
Told == [call : {"claims", "verify"}, nth : Nat, validation : SUBSET Tokens!Validations,
         token : SUBSET Tokens!Tokens, outcome : {"ok", "401", "500", "not_set"},
         at : Nat, guards : Nat]

JwtTypes ==
    /\ now \in Nat
    /\ header \in Tokens!Tokens \cup {Tokens!NoToken}
    /\ store \in JwtSlots
    /\ passed \in Seq(Passes)
    /\ answer \in Told \cup {Tokens!NoAnswer}

(* The strengthening: the storage has what the last guard passed put there *)
(* and nothing else, its key and its token together; every guard passed    *)
(* accepted its token at its time, and an answer came after as many guards *)
(* as it says.                                                             *)
LastGuard == passed[Len(passed)]

StoredByLastGuard ==
    store = IF passed = <<>> THEN Tokens!Empty
            ELSE Tokens!Stored(LastGuard.secret, LastGuard.token)

GuardsAccepted == \A i \in 1 .. Len(passed) : Tokens!Valid(passed[i])

JwtInv ==
    /\ JwtTypes /\ StoredByLastGuard /\ GuardsAccepted
    /\ answer # Tokens!NoAnswer => answer.guards \in 0 .. Len(passed)
    /\ Tokens!TokensChecked

(* An answer that is not given anew stays true while guards are passed.    *)
LEMMA AnswerStaysTrue ==
  ASSUME JwtInv, UNCHANGED answer, passed' \in Seq(Passes), Len(passed) <= Len(passed'),
         \A i \in 1 .. Len(passed) : passed'[i] = passed[i]
  PROVE  /\ answer' # Tokens!NoAnswer => answer'.guards \in 0 .. Len(passed')
         /\ Tokens!AnswersWereGuarded' /\ Tokens!NoExpiredVerify'
         /\ Tokens!VerifyFailsOnlyByTime' /\ Tokens!GuardNotSetIsTrue'
<1> USE DEF JwtInv, JwtTypes, Tokens!TokensChecked
<1>1. ASSUME answer # Tokens!NoAnswer, answer.outcome # "not_set"
      PROVE  /\ answer.guards \in 1 .. Len(passed)
             /\ answer.token = {passed[answer.guards].token}
             /\ Tokens!Valid(passed[answer.guards])
  BY <1>1 DEF Tokens!AnswersWereGuarded
<1>2. Tokens!AnswersWereGuarded'
  BY <1>1 DEF Tokens!AnswersWereGuarded, Tokens!Valid
<1>3. answer' # Tokens!NoAnswer => answer'.guards \in 0 .. Len(passed')
  <2>1. Len(passed) \in Nat /\ Len(passed') \in Nat
    OBVIOUS
  <2> QED
    BY <2>1
<1>4. Tokens!NoExpiredVerify' /\ Tokens!VerifyFailsOnlyByTime' /\ Tokens!GuardNotSetIsTrue'
  BY DEF Tokens!NoExpiredVerify, Tokens!VerifyFailsOnlyByTime, Tokens!GuardNotSetIsTrue
<1> QED
  BY <1>2, <1>3, <1>4

(* Every step of guards, handlers, other layers and the clock keeps what   *)
(* was stored and told true.                                               *)
LEMMA JwtSteps ==
  ASSUME Tokens!TimeAssumption, JwtInv, [Tokens!Next]_(Tokens!vars)
  PROVE  JwtInv'
<1> USE DEF JwtInv, JwtTypes
<1>0. /\ Tokens!ChallengeOnUnauthorized /\ Len(passed) \in Nat
      /\ passed # <<>> => Len(passed) \in 1 .. Len(passed)
  BY DEF Tokens!TokensChecked
<1>1. ASSUME NEW secret \in Secrets, NEW validation \in Tokens!Validations,
             Tokens!guard(secret, validation)
      PROVE  JwtInv'
  <2> DEFINE new == [secret |-> secret, token |-> header, validation |-> validation, at |-> now]
  <2>1. /\ header \in Tokens!Tokens /\ passed' = Append(passed, new)
        /\ store' = Tokens!Stored(secret, header)
        /\ UNCHANGED <<now, header, status, challenge, answer>>
        /\ Tokens!decode(header, secret, validation)
    BY <1>1 DEF Tokens!guard, Tokens!Verified
  <2>2. new \in Passes
    BY <2>1 DEF Passes
  <2>3. Tokens!Valid(new)
    BY <2>1 DEF Tokens!Valid, Tokens!decode
  <2> HIDE DEF new
  <2>4. /\ passed' \in Seq(Passes) /\ Len(passed') = Len(passed) + 1
        /\ \A i \in 1 .. Len(passed) : passed'[i] = passed[i]
        /\ passed'[Len(passed) + 1] = new
    BY <2>1, <2>2
  <2>9. passed' # <<>>
    BY <1>0, <2>4
  <2>5. StoredByLastGuard'
    <3>1. LastGuard' = new /\ new.secret = secret /\ new.token = header
      BY <2>4 DEF LastGuard, new
    <3>2. store' = Tokens!Stored(LastGuard'.secret, LastGuard'.token)
      BY <2>1, <3>1
    <3> QED
      BY <2>9, <3>2 DEF StoredByLastGuard, Tokens!Stored
  <2>6. GuardsAccepted'
    <3> SUFFICES ASSUME NEW i \in 1 .. Len(passed') PROVE Tokens!Valid(passed[i])'
      BY DEF GuardsAccepted
    <3>1. i \in 1 .. Len(passed) \/ i = Len(passed) + 1
      BY <1>0, <2>4
    <3> QED
      BY <2>3, <2>4, <3>1 DEF GuardsAccepted, Tokens!Valid
  <2>7. store' \in JwtSlots
    BY <2>1 DEF JwtSlots, Tokens!Stored
  <2>8. Tokens!ChallengeOnUnauthorized'
    BY <1>0, <2>1 DEF Tokens!ChallengeOnUnauthorized
  <2> QED
    BY <1>0, <2>1, <2>4, <2>5, <2>6, <2>7, <2>8, AnswerStaysTrue DEF Tokens!TokensChecked
<1>2. ASSUME NEW secret \in Secrets, NEW validation \in Tokens!Validations,
             Tokens!Refuse(secret, validation)
      PROVE  JwtInv'
  BY <1>2 DEF Tokens!Refuse, Tokens!Unauthorized, Tokens!Thrown, Tokens!TokensChecked,
     StoredByLastGuard, LastGuard, GuardsAccepted, Tokens!AnswersWereGuarded,
     Tokens!NoExpiredVerify, Tokens!VerifyFailsOnlyByTime, Tokens!GuardNotSetIsTrue,
     Tokens!ChallengeOnUnauthorized, Tokens!Stored, Tokens!Valid
<1>3. ASSUME answer' \in Told, answer'.guards = Len(passed), answer'.at = now,
             UNCHANGED <<now, header, store, passed>>,
             Tokens!ChallengeOnUnauthorized',
             answer'.outcome = "not_set" => store = Tokens!Empty,
             answer'.outcome # "not_set" => store # Tokens!Empty /\ answer'.token = store.token,
             answer'.call = "verify" /\ answer'.outcome \in {"ok", "401"} =>
                \E v \in Tokens!Validations, secret \in store.secret, token \in store.token :
                    /\ answer'.validation = {v}
                    /\ answer'.outcome = "ok" <=> Tokens!Accepted(token, secret, v)
      PROVE  JwtInv'
  <2>1. store # Tokens!Empty =>
           /\ Len(passed) > 0 /\ store.token = {LastGuard.token} /\ store.secret = {LastGuard.secret}
           /\ Tokens!Valid(LastGuard)
    BY <1>0 DEF StoredByLastGuard, Tokens!Stored, GuardsAccepted, LastGuard
  <2>2. passed # <<>> => store # Tokens!Empty
    BY DEF StoredByLastGuard, Tokens!Stored, Tokens!Empty
  <2>3. Tokens!AnswersWereGuarded'
    BY <1>3, <2>1 DEF Tokens!AnswersWereGuarded, LastGuard, Tokens!Valid
  <2>4. Tokens!NoExpiredVerify'
    BY <1>3, <2>1 DEF Tokens!NoExpiredVerify, Tokens!Accepted, Tokens!decode
  <2>5. Tokens!VerifyFailsOnlyByTime'
    <3> SUFFICES ASSUME answer'.call = "verify", answer'.outcome = "401"
                 PROVE  \E token \in answer'.token, v \in answer'.validation :
                           ~token.fits \/ (v.exp /\ now > token.exp)
      BY <1>3 DEF Tokens!VerifyFailsOnlyByTime
    <3>1. PICK v \in Tokens!Validations, secret \in store.secret, token \in store.token :
             answer'.validation = {v} /\ ~Tokens!Accepted(token, secret, v)
      BY <1>3
    <3>2. token.secret = secret /\ token \in answer'.token /\ token \in Tokens!Tokens
      BY <1>3, <2>1 DEF Tokens!Valid, JwtSlots
    <3>3. token.exp \in Nat /\ now \in Nat
      BY <3>2 DEF Tokens!Tokens, Tokens!TimeAssumption
    <3> QED
      BY <3>1, <3>2, <3>3 DEF Tokens!Accepted, Tokens!decode
  <2>6. Tokens!GuardNotSetIsTrue'
    BY <1>3, <2>2 DEF Tokens!GuardNotSetIsTrue
  <2>7. StoredByLastGuard' /\ GuardsAccepted' /\ answer'.guards \in 0 .. Len(passed')
    BY <1>0, <1>3 DEF StoredByLastGuard, LastGuard, GuardsAccepted, Tokens!Stored, Tokens!Valid
  <2> QED
    BY <1>3, <2>3, <2>4, <2>5, <2>6, <2>7 DEF Tokens!TokensChecked
<1>4. store.token = {} \/ store.secret = {} \/ store.value = {} => store = Tokens!Empty
  BY DEF StoredByLastGuard, Tokens!Stored
<1>5. /\ \A v \in Tokens!Validations : {v} \in SUBSET Tokens!Validations
      /\ store.token \subseteq Tokens!Tokens /\ store.value = store.token
      /\ \A token, other \in store.token : token = other
  BY DEF StoredByLastGuard, Tokens!Stored, Tokens!Empty, JwtSlots
<1>6. answer # Tokens!NoAnswer => answer.nth + 1 \in Nat
  BY DEF Told
<1>7. CASE Tokens!claims
  <2>1. /\ answer' \in Told /\ answer'.guards = Len(passed) /\ answer'.at = now
        /\ answer'.call = "claims"
    BY <1>0, <1>5, <1>6, <1>7 DEF Tokens!claims, Tokens!Answer, Told
  <2>2. /\ answer'.outcome = "not_set" => store.value = {}
        /\ answer'.outcome # "not_set" => store.value # {} /\ answer'.token = store.token
    <3>1. CASE answer'.outcome = "not_set"
      BY <1>5, <1>7, <3>1 DEF Tokens!claims, Tokens!Answer
    <3>2. CASE answer'.outcome # "not_set"
      <4>1. PICK token \in store.value : answer'.token = {token}
        BY <1>7, <3>2 DEF Tokens!claims, Tokens!Answer
      <4> QED
        BY <1>5, <3>2, <4>1
    <3> QED
      BY <3>1, <3>2
  <2>3. Tokens!ChallengeOnUnauthorized'
    BY <1>0, <1>7 DEF Tokens!claims, Tokens!ChallengeOnUnauthorized, Tokens!Thrown
  <2>4. UNCHANGED <<now, header, store, passed>>
    BY <1>7 DEF Tokens!claims
  <2> QED
    BY <1>3, <1>4, <2>1, <2>2, <2>3, <2>4 DEF Tokens!Empty
<1>8. ASSUME NEW v \in Tokens!Validations, Tokens!verify(v) PROVE JwtInv'
  <2>1. /\ answer' \in Told /\ answer'.guards = Len(passed) /\ answer'.at = now
        /\ answer'.validation = {v}
    BY <1>0, <1>5, <1>6, <1>8 DEF Tokens!verify, Tokens!Answer, Told
  <2>2. /\ answer'.outcome = "not_set" => store.secret = {} \/ store.token = {}
        /\ answer'.outcome # "not_set" =>
              /\ answer'.token = store.token
              /\ \E secret \in store.secret, token \in store.token :
                    answer'.outcome = "ok" <=> Tokens!Accepted(token, secret, v)
    <3>1. CASE answer'.outcome = "not_set"
      BY <1>8, <3>1 DEF Tokens!verify, Tokens!Answer
    <3>2. CASE answer'.outcome # "not_set"
      <4>1. PICK secret \in store.secret, token \in store.token :
               /\ answer'.token = {token}
               /\ answer'.outcome = "ok" <=> Tokens!Accepted(token, secret, v)
        BY <1>8, <3>2 DEF Tokens!verify, Tokens!Answer
      <4> QED
        BY <1>5, <3>2, <4>1
    <3> QED
      BY <3>1, <3>2
  <2>3. Tokens!ChallengeOnUnauthorized'
    BY <1>0, <1>8 DEF Tokens!verify, Tokens!ChallengeOnUnauthorized, Tokens!Thrown, Tokens!Unauthorized
  <2>4. UNCHANGED <<now, header, store, passed>>
    BY <1>8 DEF Tokens!verify
  <2> QED
    BY <1>3, <1>4, <2>1, <2>2, <2>3, <2>4 DEF Tokens!Empty
<1>9. ASSUME UNCHANGED <<store, passed, answer>>, now' \in Nat,
             header' \in Tokens!Tokens \cup {Tokens!NoToken},
             Tokens!ChallengeOnUnauthorized'
      PROVE  JwtInv'
  <2>1. StoredByLastGuard' /\ GuardsAccepted'
    BY <1>9 DEF StoredByLastGuard, LastGuard, GuardsAccepted, Tokens!Stored, Tokens!Valid
  <2> QED
    BY <1>0, <1>9, <2>1, AnswerStaysTrue DEF Tokens!TokensChecked
<1>10. CASE Tokens!Recover
  BY <1>9, <1>10 DEF Tokens!Recover, Tokens!ChallengeOnUnauthorized
<1>11. CASE Tokens!ReplaceHeader
  BY <1>0, <1>9, <1>11 DEF Tokens!ReplaceHeader, Tokens!ChallengeOnUnauthorized
<1>12. CASE Tokens!Tick
  BY <1>0, <1>9, <1>12 DEF Tokens!Tick, Tokens!ChallengeOnUnauthorized
<1>13. CASE UNCHANGED Tokens!vars
  BY <1>0, <1>9, <1>13 DEF Tokens!vars, Tokens!ChallengeOnUnauthorized
<1> QED
  BY <1>1, <1>2, <1>7, <1>8, <1>10, <1>11, <1>12, <1>13 DEF Tokens!Next

(* For any keys and tokens, and guards, claims and verify in any order and *)
(* number, what handlers are told of a token is what the last guard before *)
(* them accepted; only an expired or unfit token is refused behind it, and *)
(* no 401 leaves without its challenge.                                    *)
THEOREM TokensAreChecked == Spec => []TokensChecked
<1> DEFINE Inv == part = "jwt" => JwtInv
<1>1. Init => Inv
  <2> SUFFICES ASSUME Tokens!Init PROVE JwtInv
    BY DEF Init
  <2>1. store \in JwtSlots /\ passed \in Seq(Passes) /\ Len(passed) = 0 /\ answer = Tokens!NoAnswer
    BY DEF Tokens!Init, JwtSlots, Tokens!Empty
  <2> QED
    BY <2>1 DEF Tokens!Init, JwtInv, JwtTypes, StoredByLastGuard, GuardsAccepted,
       Tokens!TokensChecked, Tokens!AnswersWereGuarded, Tokens!NoExpiredVerify,
       Tokens!VerifyFailsOnlyByTime, Tokens!GuardNotSetIsTrue, Tokens!ChallengeOnUnauthorized
<1>2. Inv /\ [Next]_vars => Inv'
  BY PartsApart, JwtSteps, Assumptions
<1>3. Inv => TokensChecked
  BY DEF JwtInv, TokensChecked
<1> QED
  BY <1>1, <1>2, <1>3, PTL DEF Spec

-----------------------------------------------------------------------------
(* Bodies.                                                                 *)

WrittenThings == Files \cup {"json", "html", "text", "reader"}
MediaTypes == Files \cup {"application/json", "text/html", "text/plain", "application/octet-stream"}

(* The strengthening: what a reader has and what it still waits for make   *)
(* up the body, or nothing when somebody took the body before it; what is  *)
(* left in the request is the whole body or nothing.                       *)
ReaderTypes == [kind : Bodies!Readers, stream : Seq(Nat), data : Seq(Nat)]

NothingTorn ==
    /\ incoming \in {Bodies!All, <<>>}
    /\ op.kind \in Bodies!Readers => /\ op \in ReaderTypes
                                     /\ op.data \o op.stream \in {Bodies!All, <<>>}
    /\ Bodies!WholeOrNothing
    /\ Bodies!DocumentsAreWhole

ResponseTypes ==
    /\ written \in [chunks : Seq(WrittenThings), type : MediaTypes \cup {"none"},
                    disposition : Files \cup {"none"}]
    /\ wrote \in Seq([chunk : WrittenThings, type : MediaTypes \cup {"none"}])

Described == ResponseTypes /\ Bodies!TypeOfLastWrite /\ Bodies!DispositionInBody

PowerInv == NothingTorn /\ Described

(* The next piece goes from the front of what is awaited to the end of     *)
(* what was read: together they stay the same.                             *)
LEMMA PieceByPiece ==
  ASSUME NEW data \in Seq(Nat), NEW stream \in Seq(Nat), stream # <<>>
  PROVE  /\ Append(data, Head(stream)) \in Seq(Nat) /\ Tail(stream) \in Seq(Nat)
         /\ Append(data, Head(stream)) \o Tail(stream) = data \o stream
<1>1. /\ Head(stream) \in Nat /\ Tail(stream) \in Seq(Nat)
      /\ Len(Tail(stream)) = Len(stream) - 1
      /\ \A i \in 1 .. Len(stream) - 1 : Tail(stream)[i] = stream[i + 1]
      /\ Head(stream) = stream[1] /\ Len(stream) \in Nat \ {0}
  OBVIOUS
<1>2. /\ Append(data, Head(stream)) \in Seq(Nat)
      /\ Len(Append(data, Head(stream))) = Len(data) + 1
      /\ \A i \in 1 .. Len(data) : Append(data, Head(stream))[i] = data[i]
      /\ Append(data, Head(stream))[Len(data) + 1] = Head(stream)
  BY <1>1
<1> DEFINE read == Append(data, Head(stream))
<1> HIDE DEF read
<1>3. read \o Tail(stream) \in Seq(Nat) /\ data \o stream \in Seq(Nat)
  BY <1>1, <1>2 DEF read
<1>4. Len(read \o Tail(stream)) = Len(data) + Len(stream) /\ Len(data \o stream) = Len(data) + Len(stream)
  BY <1>1, <1>2 DEF read
<1>5. ASSUME NEW i \in 1 .. Len(data) + Len(stream)
      PROVE  (read \o Tail(stream))[i] = (data \o stream)[i]
  <2>1. (read \o Tail(stream))[i] = IF i <= Len(data) + 1 THEN read[i] ELSE Tail(stream)[i - (Len(data) + 1)]
    BY <1>1, <1>2 DEF read
  <2>2. (data \o stream)[i] = IF i <= Len(data) THEN data[i] ELSE stream[i - Len(data)]
    OBVIOUS
  <2>3. CASE i <= Len(data)
    BY <1>2, <2>1, <2>2, <2>3 DEF read
  <2>4. CASE i = Len(data) + 1
    BY <1>1, <1>2, <2>1, <2>2, <2>4 DEF read
  <2>5. CASE i > Len(data) + 1
    <3> DEFINE j == i - (Len(data) + 1)
    <3>1. j \in 1 .. Len(stream) - 1 /\ j + 1 = i - Len(data) /\ ~(i <= Len(data) + 1) /\ ~(i <= Len(data))
      BY <1>1, <2>5
    <3>2. Tail(stream)[j] = stream[j + 1]
      BY <1>1, <3>1
    <3> QED
      BY <2>1, <2>2, <3>1, <3>2
  <2>6. Len(data) \in Nat /\ i \in Nat
    OBVIOUS
  <2>7. i <= Len(data) \/ i = Len(data) + 1 \/ i > Len(data) + 1
    BY <2>6
  <2> QED
    BY <2>3, <2>4, <2>5, <2>7
<1> QED
  BY <1>1, <1>2, <1>3, <1>4, <1>5, SMTT(20) DEF read

(* Every read takes the body as a whole, and so does everything that       *)
(* breaks one off.                                                         *)
LEMMA ReadingSteps ==
  ASSUME Bodies!BodyAssumption, NothingTorn, [Bodies!Next]_(Bodies!vars)
  PROVE  NothingTorn'
<1> USE DEF NothingTorn, Bodies!WholeOrNothing, Bodies!DocumentsAreWhole
<1>0. /\ Bodies!All \in Seq(Nat) /\ <<>> \in Seq(Nat)
      /\ \A d \in Seq(Nat) : d \o <<>> = d /\ <<>> \o d = d
  BY DEF Bodies!BodyAssumption, Bodies!All
<1>1. ASSUME NEW kind \in Bodies!Readers, Bodies!Start(kind) PROVE NothingTorn'
  BY <1>0, <1>1 DEF Bodies!Start, ReaderTypes
<1>2. CASE Bodies!Arrive
  <2>1. op \in ReaderTypes /\ op.stream # <<>>
    BY <1>2 DEF Bodies!Arrive, Bodies!Reading
  <2>2. /\ op' \in ReaderTypes
        /\ op'.data \o op'.stream = op.data \o op.stream
    BY <1>2, <2>1, PieceByPiece DEF Bodies!Arrive, ReaderTypes
  <2> QED
    BY <1>2, <2>2 DEF Bodies!Arrive, Bodies!Reading
<1>3. ASSUME op' = Bodies!Idle, incoming' \in {incoming, <<>>}, UNCHANGED seen PROVE NothingTorn'
  BY <1>3 DEF Bodies!Idle, Bodies!Readers
<1>4. CASE Bodies!Break
  BY <1>3, <1>4 DEF Bodies!Break, Bodies!Left
<1>5. CASE Bodies!Cancel
  BY <1>3, <1>5 DEF Bodies!Cancel, Bodies!Left
<1>6. CASE Bodies!DropMultipart
  BY <1>3, <1>6 DEF Bodies!DropMultipart, Bodies!Left
<1>7. ASSUME Bodies!Whole PROVE op.data \in {Bodies!All, <<>>}
  BY <1>0, <1>7 DEF Bodies!Whole, Bodies!Reading, ReaderTypes
<1>8. CASE Bodies!ReadBytes
  BY <1>7, <1>8 DEF Bodies!ReadBytes, Bodies!Given, Bodies!Idle, Bodies!Readers
<1>9. CASE Bodies!Parse
  BY <1>7, <1>9 DEF Bodies!Parse, Bodies!Given, Bodies!IsDocument, Bodies!Idle, Bodies!Readers
<1>10. CASE Bodies!Dispatch
  <2>1. /\ incoming' = incoming /\ op'.kind \in {"execute", "idle"}
        /\ \/ UNCHANGED seen
           \/ /\ seen' = seen \cup {[kind |-> op.kind, data |-> op.data]}
              /\ op.kind \in {"json", "graphql"} => op.data = Bodies!All
    BY <1>10 DEF Bodies!Dispatch, Bodies!Given, Bodies!IsDocument, Bodies!Idle
  <2>2. Bodies!Whole
    BY <1>10 DEF Bodies!Dispatch
  <2>3. op'.kind \notin Bodies!Readers
    BY <2>1 DEF Bodies!Readers
  <2>4. op.data \in {Bodies!All, <<>>}
    BY <1>7, <2>2
  <2>5. \A s \in seen' : /\ s.data \in {Bodies!All, <<>>}
                         /\ s.kind \in {"json", "graphql"} => s.data = Bodies!All
    BY <2>1, <2>4
  <2> QED
    BY <2>1, <2>3, <2>5 DEF Bodies!All
<1>11. ASSUME UNCHANGED <<incoming, op, seen>> PROVE NothingTorn'
  BY <1>11
<1>12. CASE Bodies!Respond
  BY <1>3, <1>12 DEF Bodies!Respond
<1>13. CASE Bodies!RefuseMultipart \/ Bodies!write_json \/ Bodies!render \/ Bodies!Recover
  BY <1>11, <1>13 DEF Bodies!RefuseMultipart, Bodies!write_json, Bodies!render, Bodies!Recover
<1>14. ASSUME NEW chunk, NEW type, Bodies!write(chunk, type) PROVE NothingTorn'
  BY <1>11, <1>14 DEF Bodies!write
<1>15. ASSUME NEW file \in Files, Bodies!write_file(file) PROVE NothingTorn'
  BY <1>11, <1>15 DEF Bodies!write_file
<1>16. CASE UNCHANGED Bodies!vars
  BY <1>11, <1>16 DEF Bodies!vars
<1> QED
  BY <1>1, <1>2, <1>4, <1>5, <1>6, <1>8, <1>9, <1>10, <1>12, <1>13, <1>14, <1>15, <1>16
     DEF Bodies!Next

(* A new write is the last one: its type and, for a file, its name are     *)
(* those of the response.                                                  *)
LEMMA WriteDescribed ==
  ASSUME Described, NEW chunk \in WrittenThings, NEW type \in MediaTypes \cup {"none"},
         wrote' = Append(wrote, [chunk |-> chunk, type |-> type]),
         written' \in [chunks : Seq(WrittenThings), type : MediaTypes \cup {"none"},
                      disposition : Files \cup {"none"}],
         written'.chunks = Append(written.chunks, chunk),
         written'.type = IF type = "none" THEN written.type ELSE type,
         \/ written'.disposition = chunk
         \/ written'.disposition = written.disposition /\ chunk \notin Files \ Nameless
  PROVE  Described'
<1> USE DEF Described, ResponseTypes
<1> DEFINE new == [chunk |-> chunk, type |-> type]
           n == Len(wrote)
<1>0. /\ new \in [chunk : WrittenThings, type : MediaTypes \cup {"none"}]
      /\ new.chunk = chunk /\ new.type = type
  OBVIOUS
<1> HIDE DEF new
<1>1. /\ n \in Nat /\ Len(wrote') = n + 1 /\ wrote'[n + 1] = new
      /\ \A i \in 1 .. n : wrote'[i] = wrote[i]
      /\ wrote' \in Seq([chunk : WrittenThings, type : MediaTypes \cup {"none"}])
      /\ DOMAIN wrote = 1 .. n /\ DOMAIN wrote' = 1 .. n + 1
  BY <1>0 DEF new
<1>2. /\ Len(written.chunks) = n /\ \A i \in 1 .. n : written.chunks[i] = wrote[i].chunk
      /\ written.chunks \in Seq(WrittenThings) /\ DOMAIN written.chunks = 1 .. n
  <2>1. written.chunks = [i \in 1 .. n |-> wrote[i].chunk]
    BY <1>1 DEF Bodies!TypeOfLastWrite
  <2> QED
    BY <1>1, <2>1
<1>3. /\ Len(written'.chunks) = n + 1 /\ written'.chunks[n + 1] = chunk
      /\ \A i \in 1 .. n : written'.chunks[i] = wrote[i].chunk
      /\ DOMAIN written'.chunks = 1 .. n + 1
  BY <1>1, <1>2
<1> HIDE DEF n
<1>4. \A i \in 1 .. n + 1 : i \in 1 .. n \/ i = n + 1
  BY <1>1
<1>5. written'.chunks = [i \in DOMAIN wrote' |-> wrote'[i].chunk]
  <2>1. \A i \in 1 .. n + 1 : written'.chunks[i] = wrote'[i].chunk
    BY <1>0, <1>1, <1>3, <1>4
  <2> QED
    BY <1>1, <1>3, <2>1
<1>6. Bodies!TypeOfLastWrite'
  <2> DEFINE typed == {i \in DOMAIN wrote : wrote[i].type # "none"}
  <2>1. /\ \A i \in typed : (\A k \in typed : k <= i) => written.type = wrote[i].type
        /\ typed = {} => written.type = "none"
    BY DEF Bodies!TypeOfLastWrite, Bodies!None
  <2>2. CASE type = "none"
    <3>1. typed' = typed /\ \A i \in typed : wrote'[i] = wrote[i]
      BY <1>0, <1>1, <1>4, <2>2
    <3> QED
      BY <1>5, <2>1, <2>2, <3>1 DEF Bodies!TypeOfLastWrite, Bodies!None
  <2>3. CASE type # "none"
    <3>1. n + 1 \in typed' /\ \A i \in typed' : i \in 1 .. n + 1
      BY <1>0, <1>1, <2>3
    <3>2. ASSUME NEW i \in typed', \A k \in typed' : k <= i PROVE i = n + 1
      <4>1. n + 1 <= i /\ i \in 1 .. n + 1
        BY <3>1, <3>2
      <4> QED
        BY <1>1, <4>1
    <3> QED
      BY <1>0, <1>1, <1>5, <2>3, <3>1, <3>2 DEF Bodies!TypeOfLastWrite, Bodies!None
  <2> QED
    BY <2>2, <2>3
<1>7. Bodies!DispositionInBody'
  <2>1. CASE written'.disposition = chunk
    BY <1>1, <1>3, <2>1 DEF Bodies!DispositionInBody
  <2>2. CASE written'.disposition = written.disposition /\ chunk \notin Files \ Nameless
    <3> SUFFICES ASSUME written.disposition # "none"
                 PROVE  \E i \in 1 .. n + 1 :
                           /\ written'.chunks[i] = written.disposition
                           /\ \A k \in 1 .. n + 1 : written'.chunks[k] \in Files \ Nameless => k <= i
      BY <1>3, <2>2 DEF Bodies!DispositionInBody, Bodies!None
    <3>1. PICK i \in 1 .. n : /\ written.chunks[i] = written.disposition
                              /\ \A k \in 1 .. n : written.chunks[k] \in Files \ Nameless => k <= i
      BY <1>2 DEF Bodies!DispositionInBody, Bodies!None
    <3>2. i \in 1 .. n + 1
      BY <1>1
    <3> QED
      BY <1>2, <1>3, <1>4, <2>2, <3>1, <3>2
  <2> QED
    BY <2>1, <2>2
<1> QED
  BY <1>1, <1>6, <1>7

(* Every write describes the response anew, or leaves it alone.            *)
LEMMA WritingSteps ==
  ASSUME Bodies!BodyAssumption, Described, [Bodies!Next]_(Bodies!vars)
  PROVE  Described'
<1> DEFINE Response == [chunks : Seq(WrittenThings), type : MediaTypes \cup {"none"},
                        disposition : Files \cup {"none"}]
<1>0. /\ written \in Response /\ Nameless \subseteq Files
      /\ Files \cap {"none", "json", "html", "text", "reader"} = {}
  BY DEF Described, ResponseTypes, Bodies!BodyAssumption
<1>r. ASSUME NEW chunk \in WrittenThings, NEW type \in MediaTypes \cup {"none"}
      PROVE  /\ Bodies!Written(chunk, type) \in Response
             /\ Bodies!Written(chunk, type).chunks = Append(written.chunks, chunk)
             /\ Bodies!Written(chunk, type).type = type
             /\ Bodies!Written(chunk, type).disposition = written.disposition
  <2>1. written.chunks \in Seq(WrittenThings)
    BY <1>0
  <2>2. Append(written.chunks, chunk) \in Seq(WrittenThings)
    BY <2>1
  <2> QED
    BY <1>0, <2>2 DEF Bodies!Written
<1>1. ASSUME UNCHANGED <<written, wrote>> PROVE Described'
  BY <1>1 DEF Described, ResponseTypes, Bodies!TypeOfLastWrite, Bodies!DispositionInBody
<1>2. ASSUME NEW chunk \in {"json", "html", "text", "reader"}, NEW type \in MediaTypes, type # "none",
             written' = Bodies!Written(chunk, type), Bodies!Wrote(chunk, type)
      PROVE  Described'
  <2>1. chunk \in WrittenThings /\ chunk \notin Files \ Nameless
    BY <1>0 DEF WrittenThings
  <2>2. /\ written' \in Response /\ written'.chunks = Append(written.chunks, chunk)
        /\ written'.type = type /\ written'.disposition = written.disposition
    BY <1>r, <1>2, <2>1
  <2> QED
    BY <1>2, <2>1, <2>2, WriteDescribed DEF Bodies!Wrote
<1>3. {"application/json", "text/html", "text/plain", "application/octet-stream"} \subseteq MediaTypes
  BY DEF MediaTypes
<1>4. ASSUME NEW chunk \in {"json", "html", "text", "reader"}, NEW type \in MediaTypes, type # "none",
             Bodies!Serialize(chunk, type)
      PROVE  Described'
  BY <1>1, <1>2, <1>4 DEF Bodies!Serialize, Bodies!Unserialized
<1>5. CASE Bodies!write_json \/ Bodies!render \/ Bodies!Respond
  BY <1>3, <1>4, <1>5 DEF Bodies!write_json, Bodies!render, Bodies!Respond
<1>6. CASE Bodies!write("text", "text/plain") \/ Bodies!write("reader", "application/octet-stream")
  BY <1>2, <1>3, <1>6 DEF Bodies!write
<1>7. ASSUME NEW file \in Files, Bodies!write_file(file) PROVE Described'
  <2>1. Bodies!IsHeaderValue(Bodies!Encoded(Bodies!CharsOf(file)))
    BY DEF Bodies!IsHeaderValue, Bodies!Encoded, Bodies!CharsOf
  <2>2. file \in WrittenThings /\ file \in MediaTypes /\ file # "none"
    BY <1>0 DEF WrittenThings, MediaTypes
  <2>3. CASE file \notin Missing \cup Nameless
    <3>1. written' = Bodies!Attached(file) /\ Bodies!Wrote(file, file)
      BY <1>0, <1>7, <2>1, <2>3 DEF Bodies!write_file, Bodies!TypeOf
    <3>2. /\ written' \in Response /\ written'.chunks = Append(written.chunks, file)
          /\ written'.type = file /\ written'.disposition = file
      <4>1. written' = [Bodies!Written(file, file) EXCEPT !.disposition = file]
        BY <3>1 DEF Bodies!Attached, Bodies!TypeOf
      <4>2. Bodies!Written(file, file) \in Response
        BY <1>r, <2>2
      <4> QED
        BY <1>r, <2>2, <4>1, <4>2
    <3> QED
      BY <2>2, <3>1, <3>2, WriteDescribed DEF Bodies!Wrote
  <2>4. CASE file \in Nameless
    <3>1. written' = Bodies!Written(file, written.type) /\ Bodies!Wrote(file, "none")
      BY <1>7, <2>4 DEF Bodies!write_file, Bodies!None, Bodies!BodyAssumption
    <3>2. /\ written' \in Response /\ written'.chunks = Append(written.chunks, file)
          /\ written'.type = written.type /\ written'.disposition = written.disposition
      BY <1>0, <1>r, <2>2, <3>1
    <3> QED
      BY <2>2, <2>4, <3>1, <3>2, WriteDescribed DEF Bodies!Wrote
  <2>5. CASE file \in Missing
    BY <1>1, <1>7, <2>5 DEF Bodies!write_file, Bodies!BodyAssumption
  <2> QED
    BY <2>3, <2>4, <2>5
<1>8. ASSUME NEW kind \in Bodies!Readers, Bodies!Start(kind) PROVE Described'
  BY <1>1, <1>8 DEF Bodies!Start
<1>9. CASE Bodies!RefuseMultipart \/ Bodies!Arrive \/ Bodies!Break \/ Bodies!Cancel
  BY <1>1, <1>9 DEF Bodies!RefuseMultipart, Bodies!Arrive, Bodies!Break, Bodies!Cancel
<1>10. CASE Bodies!ReadBytes \/ Bodies!Parse \/ Bodies!DropMultipart \/ Bodies!Dispatch \/ Bodies!Recover
  BY <1>1, <1>10 DEF Bodies!ReadBytes, Bodies!Parse, Bodies!DropMultipart, Bodies!Dispatch, Bodies!Recover
<1>11. CASE UNCHANGED Bodies!vars
  BY <1>1, <1>11 DEF Bodies!vars
<1> QED
  BY <1>5, <1>6, <1>7, <1>8, <1>9, <1>10, <1>11 DEF Bodies!Next

(* For any length of a body, any files and any number of calls, a handler  *)
(* is given the whole request body or nothing, whatever broke off or was   *)
(* dropped before, and type and disposition of the response are those of   *)
(* what was written last.                                                  *)
THEOREM BodiesAreWhole == Spec => []BodiesWhole
<1> DEFINE Inv == part = "power_body" => PowerInv
<1>1. Init => Inv
  <2> SUFFICES ASSUME Bodies!Init PROVE PowerInv
    BY DEF Init
  <2>1. NothingTorn
    BY DEF Bodies!Init, NothingTorn, Bodies!WholeOrNothing, Bodies!DocumentsAreWhole,
           Bodies!Idle, Bodies!Readers
  <2>2. Described
    BY DEF Bodies!Init, Described, ResponseTypes, Bodies!TypeOfLastWrite,
           Bodies!DispositionInBody, Bodies!None
  <2> QED
    BY <2>1, <2>2 DEF PowerInv
<1>2. Inv /\ [Next]_vars => Inv'
  BY PartsApart, ReadingSteps, WritingSteps, Assumptions DEF PowerInv
<1>3. Inv => BodiesWhole
  BY DEF PowerInv, NothingTorn, Described, BodiesWhole, Bodies!BodiesWhole
<1> QED
  BY <1>1, <1>2, <1>3, PTL DEF Spec

-----------------------------------------------------------------------------
(* Contexts.                                                               *)

ContextRecords ==
    [phase : {"unused", "live", "done"}, state : 0 .. MaxWrites,
     storage : [Contexts!Slots -> Contexts!Entries], body : {"full", "empty"},
     extensions : BOOLEAN, request : Ctxs \cup {0}, read : 0 .. 1,
     lineage : [Ctxs -> 0 .. MaxWrites]]

Writes == [ctx : Ctxs, slot : Contexts!Slots \cup {Contexts!StateSlot}, type : Types \cup {"state"}]

ContextTypes ==
    /\ app = 0
    /\ services \in [Conns -> {app, Contexts!NoService}]
    /\ ctxs \in [Ctxs -> ContextRecords]
    /\ log \in Seq(Writes) /\ Len(log) <= MaxWrites

(* The strengthening: whoever wrote has been in use, so a context starts   *)
(* without writes of its own; what it was cloned with was written before;  *)
(* a body that is still full belongs to its request and is unread.         *)
WritersWereUsed == \A i \in 1 .. Len(log) : ctxs[log[i].ctx].phase # "unused"

LineagePast == \A k, j \in Ctxs : ctxs[k].lineage[j] <= Len(log)

FullIsUnread ==
    \A k \in Ctxs : /\ ctxs[k].body = "full" => ctxs[k].request = k /\ ctxs[k].read = 0
                    /\ ctxs[k].read = 1 => ctxs[k].request = k

(* What a context should find, for every slot of its storage and its state.*)
Found(k) ==
    /\ \A slot \in Contexts!Slots :
          LET cell == ctxs[k].storage[slot]
              visible == Contexts!Visible(k, slot)
          IN  IF visible = {} THEN cell = Contexts!None
              ELSE Contexts!LatestOf(visible, cell.value) /\ cell.type = log[cell.value].type
    /\ LET visible == Contexts!Visible(k, Contexts!StateSlot)
       IN  IF visible = {} THEN ctxs[k].state = app
           ELSE Contexts!LatestOf(visible, ctxs[k].state)

SeesOwn == \A k \in Ctxs : ctxs[k].phase = "live" => Found(k)

ContextInv == ContextTypes /\ WritersWereUsed /\ LineagePast /\ FullIsUnread /\ SeesOwn

(* A write is seen by the context that writes, in the slot it writes to,   *)
(* and by nobody else.                                                     *)
LEMMA WriteSeenByWriter ==
  ASSUME ContextTypes, LineagePast, NEW k \in Ctxs, NEW slot, NEW type,
         log' = Append(log, [ctx |-> k, slot |-> slot, type |-> type]),
         Len(log') = Len(log) + 1,
         NEW j \in Ctxs, ctxs'[j].lineage = ctxs[j].lineage, NEW wanted
  PROVE  Contexts!Visible(j, wanted)' =
            Contexts!Visible(j, wanted) \cup IF j = k /\ wanted = slot THEN {Len(log) + 1} ELSE {}
<1>1. /\ Len(log) \in Nat
      /\ \A i \in 1 .. Len(log) : log'[i] = log[i]
      /\ log'[Len(log) + 1] = [ctx |-> k, slot |-> slot, type |-> type]
      /\ \A i \in 1 .. Len(log) + 1 : i \in 1 .. Len(log) \/ i = Len(log) + 1
  BY DEF ContextTypes
<1>2. ~(Len(log) + 1 <= ctxs[j].lineage[k])
  <2>1. ctxs[j].lineage[k] \in Nat /\ ctxs[j].lineage[k] <= Len(log)
    BY DEF ContextTypes, LineagePast, ContextRecords
  <2> QED
    BY <1>1, <2>1
<1> QED
  BY <1>1, <1>2 DEF Contexts!Visible, Contexts!Now

(* A clone sees what the context it was cloned from sees.                  *)
LEMMA CloneSees ==
  ASSUME ContextTypes, WritersWereUsed, NEW k \in Ctxs, NEW k2 \in Ctxs,
         ctxs[k].phase = "live", ctxs[k2].phase = "unused", UNCHANGED log,
         ctxs'[k2].lineage = [ctxs[k].lineage EXCEPT ![k] = Len(log)], NEW slot
  PROVE  Contexts!Visible(k2, slot)' = Contexts!Visible(k, slot)
<1>1. /\ Len(log) \in Nat /\ ctxs[k].lineage \in [Ctxs -> 0 .. MaxWrites]
      /\ \A i \in 1 .. Len(log) : log[i].ctx \in Ctxs /\ log[i].ctx # k2
  <2>1. \A i \in 1 .. Len(log) : log[i] \in Writes
    BY DEF ContextTypes
  <2>2. ctxs[k] \in ContextRecords
    BY DEF ContextTypes
  <2>3. \A i \in 1 .. Len(log) : log[i].ctx # k2
    BY DEF WritersWereUsed
  <2>4. Len(log) \in Nat
    BY DEF ContextTypes
  <2> QED
    BY <2>1, <2>2, <2>3, <2>4 DEF ContextRecords, Writes
<1>2. \A i \in 1 .. Len(log) :
         i <= ctxs'[k2].lineage[log[i].ctx] <=> log[i].ctx = k \/ i <= ctxs[k].lineage[log[i].ctx]
  BY <1>1
<1> QED
  BY <1>1, <1>2 DEF Contexts!Visible, Contexts!Now

(* What a context finds depends on its record and on the writes it sees.   *)
LEMMA FoundStays ==
  ASSUME ContextTypes, NEW k \in Ctxs, NEW j \in Ctxs, Found(k),
         UNCHANGED <<app, log>>,
         ctxs'[j].storage = ctxs[k].storage, ctxs'[j].state = ctxs[k].state,
         \A slot \in Contexts!Slots \cup {Contexts!StateSlot} :
            Contexts!Visible(j, slot)' = Contexts!Visible(k, slot)
  PROVE  Found(j)'
  BY DEF Found, Contexts!LatestOf

(* A write is what its context finds from then on.                         *)
LEMMA FoundAfterWrite ==
  ASSUME ContextTypes, LineagePast, NEW k \in Ctxs, Found(k), UNCHANGED app,
         NEW slot \in Contexts!Slots \cup {Contexts!StateSlot}, NEW type,
         log' = Append(log, [ctx |-> k, slot |-> slot, type |-> type]),
         ctxs'[k].lineage = ctxs[k].lineage,
         IF slot = Contexts!StateSlot
         THEN ctxs'[k].state = Len(log) + 1 /\ ctxs'[k].storage = ctxs[k].storage
         ELSE /\ ctxs'[k].state = ctxs[k].state
              /\ ctxs'[k].storage =
                    [ctxs[k].storage EXCEPT ![slot] = [type |-> type, value |-> Len(log) + 1]],
         Contexts!StateSlot \notin Contexts!Slots
  PROVE  Found(k)'
<1>1. /\ Len(log) \in Nat /\ Len(log') = Len(log) + 1
      /\ \A i \in 1 .. Len(log) : log'[i] = log[i]
      /\ log'[Len(log) + 1] = [ctx |-> k, slot |-> slot, type |-> type]
  BY DEF ContextTypes
<1>2. \A q : Contexts!Visible(k, q)' = Contexts!Visible(k, q) \cup IF q = slot THEN {Len(log) + 1} ELSE {}
  BY <1>1, WriteSeenByWriter
<1>3. \A q : Contexts!Visible(k, q) \subseteq 1 .. Len(log)
  BY DEF Contexts!Visible, Contexts!Now
<1>4. /\ \A q : q # slot => Contexts!Visible(k, q)' = Contexts!Visible(k, q)
      /\ Contexts!Visible(k, slot)' # {}
      /\ Contexts!LatestOf(Contexts!Visible(k, slot)', Len(log) + 1)
  <2> DEFINE all == Contexts!Visible(k, slot)
  <2>1. all' = all \cup {Len(log) + 1} /\ all \subseteq 1 .. Len(log)
    BY <1>2, <1>3
  <2> HIDE DEF all
  <2>2. \A i \in all' : i <= Len(log) + 1
    BY <1>1, <2>1
  <2>3. Contexts!LatestOf(all', Len(log) + 1) /\ all' # {}
    BY <2>1, <2>2 DEF Contexts!LatestOf
  <2>4. \A q : q # slot => Contexts!Visible(k, q)' = Contexts!Visible(k, q)
    BY <1>2
  <2> QED
    BY <2>3, <2>4 DEF all
<1>5. ctxs[k].storage \in [Contexts!Slots -> Contexts!Entries]
  BY DEF ContextTypes, ContextRecords
<1>6. ASSUME NEW q \in Contexts!Slots
      PROVE  IF Contexts!Visible(k, q)' = {} THEN ctxs'[k].storage[q] = Contexts!None
             ELSE /\ Contexts!LatestOf(Contexts!Visible(k, q)', ctxs'[k].storage[q].value)
                  /\ ctxs'[k].storage[q].type = log'[ctxs'[k].storage[q].value].type
  <2>1. CASE q = slot
    BY <1>1, <1>4, <1>5, <2>1
  <2>2. CASE q # slot
    <3>1. ctxs'[k].storage[q] = ctxs[k].storage[q]
      BY <1>5, <2>2
    <3>2. Contexts!Visible(k, q)' = Contexts!Visible(k, q)
      BY <1>4, <2>2
    <3> QED
      BY <1>1, <1>3, <3>1, <3>2 DEF Found, Contexts!LatestOf
  <2> QED
    BY <2>1, <2>2
<1>7. LET visible == Contexts!Visible(k, Contexts!StateSlot)'
      IN  IF visible = {} THEN ctxs'[k].state = app ELSE Contexts!LatestOf(visible, ctxs'[k].state)
  <2>1. CASE slot = Contexts!StateSlot
    BY <1>4, <2>1
  <2>2. CASE slot # Contexts!StateSlot
    BY <1>4, <2>2 DEF Found
  <2> QED
    BY <2>1, <2>2
<1> QED
  BY <1>6, <1>7 DEF Found, Contexts!LatestOf

(* Every step keeps the contexts apart.                                    *)
LEMMA ContextSteps ==
  ASSUME Contexts!ContextAssumption, ContextInv, [Contexts!Next]_(Contexts!vars)
  PROVE  ContextInv'
<1> USE DEF ContextInv, Contexts!Live, Contexts!Now
<1>0. /\ ContextTypes /\ ctxs \in [Ctxs -> ContextRecords] /\ Len(log) \in Nat /\ MaxWrites \in Nat
      /\ Contexts!StateSlot \notin Contexts!Slots
      /\ \A i \in 1 .. Len(log) : log[i].ctx \in Ctxs
      /\ \A k \in Ctxs : ctxs[k] \in ContextRecords
  <2>1. \A i \in 1 .. Len(log) : log[i] \in Writes
    BY DEF ContextTypes
  <2> QED
    BY <2>1 DEF ContextTypes, Contexts!ContextAssumption, Contexts!Slots, Contexts!StateSlot, Writes
<1>u. Contexts!Unused \in ContextRecords
  BY <1>0, SMTT(30) DEF Contexts!Unused, Contexts!EmptyStorage, Contexts!None, Contexts!Entries,
     ContextRecords
<1>1. ASSUME NEW c \in Conns, Contexts!Connect(c) PROVE ContextInv'
  BY <1>1 DEF Contexts!Connect, ContextTypes, WritersWereUsed, LineagePast, FullIsUnread, SeesOwn,
     Found, Contexts!Visible, Contexts!LatestOf
<1>2. ASSUME NEW k \in Ctxs, ctxs' \in [Ctxs -> ContextRecords], UNCHANGED <<app, services, log>>,
             \A j \in Ctxs : j # k => ctxs'[j] = ctxs[j],
             ctxs[k].phase # "unused" => ctxs'[k].phase # "unused",
             \A j \in Ctxs : ctxs'[k].lineage[j] <= Len(log),
             ctxs'[k].body = "full" => ctxs'[k].request = k /\ ctxs'[k].read = 0,
             ctxs'[k].read = 1 => ctxs'[k].request = k,
             ctxs'[k].phase = "live" => Found(k)'
      PROVE  ContextInv'
  <2>1. ContextTypes' /\ WritersWereUsed'
    BY <1>0, <1>2 DEF ContextTypes, WritersWereUsed
  <2>2. LineagePast' /\ FullIsUnread'
    BY <1>2 DEF LineagePast, FullIsUnread
  <2>3. ASSUME NEW j \in Ctxs, j # k, ctxs'[j].phase = "live" PROVE Found(j)'
    <3>1. \A slot : Contexts!Visible(j, slot)' = Contexts!Visible(j, slot)
      BY <1>2, <2>3 DEF Contexts!Visible
    <3>2. Found(j)
      BY <1>2, <2>3 DEF SeesOwn
    <3> QED
      BY <1>0, <1>2, <2>3, <3>1, <3>2, FoundStays
  <2> QED
    BY <1>2, <2>1, <2>2, <2>3 DEF SeesOwn
<1>3. ASSUME NEW c \in Conns, NEW k \in Ctxs, Contexts!Inbound(c, k) PROVE ContextInv'
  <2>1. /\ ctxs' = [ctxs EXCEPT ![k] = Contexts!NewContext(services[c], k)]
        /\ services[c] = 0 /\ ctxs[k].phase = "unused" /\ app = 0 /\ UNCHANGED <<app, services, log>>
    BY <1>3 DEF Contexts!Inbound, ContextTypes, Contexts!NoService
  <2>2. Contexts!NewContext(services[c], k) \in ContextRecords
    <3> DEFINE r1 == [Contexts!Unused EXCEPT !.phase = "live"]
               r2 == [r1 EXCEPT !.state = services[c]]
               r3 == [r2 EXCEPT !.body = "full"]
               r4 == [r3 EXCEPT !.extensions = TRUE]
               r5 == [r4 EXCEPT !.request = k]
    <3>1. r1 \in ContextRecords
      BY <1>u DEF ContextRecords
    <3> HIDE DEF r1
    <3>6. services[c] \in 0 .. MaxWrites
      BY <1>0, <2>1
    <3>2. r2 \in ContextRecords
      BY <3>1, <3>6 DEF ContextRecords
    <3> HIDE DEF r2
    <3>3. r3 \in ContextRecords
      BY <3>2 DEF ContextRecords
    <3> HIDE DEF r3
    <3>4. r4 \in ContextRecords
      BY <3>3 DEF ContextRecords
    <3> HIDE DEF r4
    <3>5. r5 \in ContextRecords
      BY <3>4 DEF ContextRecords
    <3> QED
      BY <3>5 DEF Contexts!NewContext, r1, r2, r3, r4
  <2>3. /\ ctxs'[k].lineage = [j \in Ctxs |-> 0] /\ ctxs'[k].state = 0
        /\ ctxs'[k].storage = Contexts!EmptyStorage
        /\ ctxs'[k].request = k /\ ctxs'[k].read = 0
    BY <1>0, <2>1 DEF Contexts!NewContext, Contexts!Unused
  <2>4. \A slot : Contexts!Visible(k, slot)' = {}
    BY <1>0, <2>1, <2>3 DEF Contexts!Visible, WritersWereUsed
  <2>5. Found(k)'
    BY <2>1, <2>3, <2>4 DEF Found, Contexts!EmptyStorage
  <2> QED
    BY <1>0, <1>2, <2>1, <2>2, <2>3, <2>5
<1>4. ASSUME NEW k \in Ctxs, NEW k2 \in Ctxs, Contexts!Clone(k, k2) PROVE ContextInv'
  <2> DEFINE copy == [Contexts!Cloned(ctxs[k]) EXCEPT !.lineage = [ctxs[k].lineage EXCEPT ![k] = Len(log)]]
  <2>1. /\ ctxs' = [ctxs EXCEPT ![k2] = copy] /\ UNCHANGED <<app, services, log>>
        /\ ctxs[k].phase = "live" /\ ctxs[k2].phase = "unused"
    BY <1>4 DEF Contexts!Clone
  <2>2. ctxs[k].lineage \in [Ctxs -> 0 .. MaxWrites] /\ Len(log) \in 0 .. MaxWrites
    BY <1>0 DEF ContextTypes, ContextRecords
  <2>3. copy \in ContextRecords
    <3>1. [ctxs[k] EXCEPT !.body = "empty"] \in ContextRecords
      BY <1>0 DEF ContextRecords
    <3>2. [ctxs[k] EXCEPT !.body = "empty", !.extensions = FALSE] \in ContextRecords
      BY <3>1 DEF ContextRecords
    <3> DEFINE r1 == [ctxs[k] EXCEPT !.body = "empty", !.extensions = FALSE]
    <3> HIDE DEF r1
    <3>6. r1 \in ContextRecords /\ 0 \in 0 .. 1
      BY <3>2 DEF r1
    <3>5. [r1 EXCEPT !.read = 0] \in ContextRecords
      BY <3>6 DEF ContextRecords
    <3>3. Contexts!Cloned(ctxs[k]) \in ContextRecords
      BY <3>5 DEF Contexts!Cloned, r1
    <3>4. [ctxs[k].lineage EXCEPT ![k] = Len(log)] \in [Ctxs -> 0 .. MaxWrites]
      BY <2>2
    <3> QED
      BY <3>3, <3>4 DEF ContextRecords
  <2>4. /\ ctxs'[k2].lineage = [ctxs[k].lineage EXCEPT ![k] = Len(log)]
        /\ ctxs'[k2].storage = ctxs[k].storage /\ ctxs'[k2].state = ctxs[k].state
        /\ ctxs'[k2].body = "empty" /\ ctxs'[k2].read = 0
    BY <1>0, <2>1 DEF Contexts!Cloned, ContextRecords
  <2>5. \A j \in Ctxs : ctxs'[k2].lineage[j] <= Len(log)
    BY <1>0, <2>2, <2>4 DEF LineagePast
  <2>6. \A slot : Contexts!Visible(k2, slot)' = Contexts!Visible(k, slot)
    BY <1>0, <2>1, <2>4, CloneSees
  <2>7. Found(k2)'
    <3>1. Found(k)
      BY <2>1 DEF SeesOwn
    <3> QED
      BY <1>0, <2>1, <2>4, <2>6, <3>1, FoundStays
  <2> QED
    BY <1>0, <1>2, <2>1, <2>3, <2>4, <2>5, <2>7
<1>5. ASSUME NEW k \in Ctxs, Contexts!Done(k) PROVE ContextInv'
  <2>1. /\ ctxs' = [ctxs EXCEPT ![k] = [Contexts!Unused EXCEPT !.phase = "done"]]
        /\ UNCHANGED <<app, services, log>>
    BY <1>5 DEF Contexts!Done
  <2>2. /\ [Contexts!Unused EXCEPT !.phase = "done"] \in ContextRecords
        /\ ctxs'[k].phase = "done" /\ ctxs'[k].body = "empty" /\ ctxs'[k].read = 0
        /\ ctxs'[k].lineage = [j \in Ctxs |-> 0]
    BY <1>0, <1>u, <2>1 DEF ContextRecords, Contexts!Unused
  <2> QED
    BY <1>0, <1>2, <2>1, <2>2
<1>6. ASSUME NEW k \in Ctxs, ctxs[k].phase = "live", UNCHANGED <<app, services, log>>,
             ctxs' \in [Ctxs -> ContextRecords], \A j \in Ctxs : j # k => ctxs'[j] = ctxs[j],
             /\ ctxs'[k].phase = "live" /\ ctxs'[k].request = ctxs[k].request
             /\ ctxs'[k].state = ctxs[k].state /\ ctxs'[k].storage = ctxs[k].storage
             /\ ctxs'[k].lineage = ctxs[k].lineage,
             \/ ctxs'[k].body = "empty" /\ ctxs[k].body = "full"
             \/ ctxs'[k].body = ctxs[k].body /\ ctxs'[k].read = ctxs[k].read
      PROVE  ContextInv'
  <2>1. /\ ctxs'[k].phase = "live" /\ ctxs'[k].lineage = ctxs[k].lineage
        /\ ctxs'[k].request = ctxs[k].request /\ ctxs'[k].state = ctxs[k].state
        /\ ctxs'[k].storage = ctxs[k].storage
    BY <1>6
  <2>2. \A slot : Contexts!Visible(k, slot)' = Contexts!Visible(k, slot)
    BY <1>6, <2>1 DEF Contexts!Visible
  <2>3. Found(k)'
    <3>1. Found(k)
      BY <1>6 DEF SeesOwn
    <3> QED
      BY <1>0, <1>6, <2>1, <2>2, <3>1, FoundStays
  <2>4. /\ \A j \in Ctxs : ctxs'[k].lineage[j] <= Len(log)
        /\ ctxs'[k].body = "full" => ctxs'[k].request = k /\ ctxs'[k].read = 0
        /\ ctxs'[k].read = 1 => ctxs'[k].request = k
    BY <1>6, <2>1 DEF LineagePast, FullIsUnread
  <2> QED
    BY <1>2, <1>6, <2>1, <2>3, <2>4
<1>7. ASSUME NEW k \in Ctxs, Contexts!raw_body(k) \/ Contexts!take_raw(k) PROVE ContextInv'
  <2>1. /\ UNCHANGED <<app, services, log>> /\ ctxs[k].phase = "live"
        /\ \/ ctxs' = [ctxs EXCEPT ![k] = Contexts!Read(@)]
           \/ ctxs' = [ctxs EXCEPT ![k] = [Contexts!Read(@) EXCEPT !.extensions = FALSE]]
    BY <1>7 DEF Contexts!raw_body, Contexts!take_raw
  <2>2. CASE ctxs[k].body = "full"
    <3>1. ctxs[k].read = 0
      BY <2>2 DEF FullIsUnread
    <3> DEFINE taken == [ctxs[k] EXCEPT !.body = "empty"]
               read == [taken EXCEPT !.read = 1]
    <3>9. ctxs[k] \in ContextRecords
      BY <1>0
    <3>10. taken \in ContextRecords
      BY <3>9 DEF ContextRecords
    <3>5. taken.read = 0
      BY <3>1, <3>9 DEF ContextRecords
    <3>11. Contexts!Read(ctxs[k]) = [taken EXCEPT !.read = taken.read + 1]
      BY <2>2 DEF Contexts!Read, Contexts!Taken
    <3>12. taken.read + 1 = 1
      BY <3>5
    <3>2. Contexts!Read(ctxs[k]) = read
      BY <3>11, <3>12
    <3> HIDE DEF taken
    <3>6. read \in ContextRecords
      BY <3>10 DEF ContextRecords
    <3> HIDE DEF read
    <3>3. [read EXCEPT !.extensions = FALSE] \in ContextRecords
      BY <3>6 DEF ContextRecords
    <3>7. ctxs' \in [Ctxs -> ContextRecords] /\ \A j \in Ctxs : j # k => ctxs'[j] = ctxs[j]
      BY <1>0, <2>1, <3>2, <3>3, <3>6
    <3>8. ctxs'[k] \in {read, [read EXCEPT !.extensions = FALSE]}
      BY <1>0, <2>1, <3>2
    <3>4. /\ ctxs' \in [Ctxs -> ContextRecords] /\ \A j \in Ctxs : j # k => ctxs'[j] = ctxs[j]
          /\ ctxs'[k].body = "empty"
          /\ ctxs'[k].phase = "live" /\ ctxs'[k].request = ctxs[k].request
          /\ ctxs'[k].state = ctxs[k].state /\ ctxs'[k].storage = ctxs[k].storage
          /\ ctxs'[k].lineage = ctxs[k].lineage
      <4>1. /\ taken.phase = ctxs[k].phase /\ taken.request = ctxs[k].request
            /\ taken.state = ctxs[k].state /\ taken.storage = ctxs[k].storage
            /\ taken.lineage = ctxs[k].lineage /\ taken.body = "empty"
        BY <3>9 DEF ContextRecords, taken
      <4>2. /\ read.phase = ctxs[k].phase /\ read.request = ctxs[k].request
            /\ read.state = ctxs[k].state /\ read.storage = ctxs[k].storage
            /\ read.lineage = ctxs[k].lineage /\ read.body = "empty"
        BY <3>10, <4>1 DEF ContextRecords, read
      <4>3. CASE ctxs'[k] = read
        BY <2>1, <3>7, <4>2, <4>3
      <4>4. CASE ctxs'[k] = [read EXCEPT !.extensions = FALSE]
        BY <2>1, <3>6, <3>7, <4>2, <4>4 DEF ContextRecords
      <4> QED
        BY <3>8, <4>3, <4>4
    <3> QED
      BY <1>6, <2>1, <2>2, <3>4
  <2>3. CASE ctxs[k].body # "full"
    <3>1. Contexts!Read(ctxs[k]) = ctxs[k] /\ [ctxs[k] EXCEPT !.extensions = FALSE] \in ContextRecords
      BY <1>0, <2>3 DEF Contexts!Read, ContextRecords
    <3>2. /\ ctxs' \in [Ctxs -> ContextRecords] /\ \A j \in Ctxs : j # k => ctxs'[j] = ctxs[j]
          /\ ctxs'[k].body = ctxs[k].body /\ ctxs'[k].read = ctxs[k].read
          /\ ctxs'[k].phase = "live" /\ ctxs'[k].request = ctxs[k].request
          /\ ctxs'[k].state = ctxs[k].state /\ ctxs'[k].storage = ctxs[k].storage
          /\ ctxs'[k].lineage = ctxs[k].lineage
      <4>1. ctxs'[k] \in {ctxs[k], [ctxs[k] EXCEPT !.extensions = FALSE]}
        BY <1>0, <2>1, <3>1
      <4>2. ctxs[k] \in ContextRecords
        BY <1>0
      <4>3. ctxs' \in [Ctxs -> ContextRecords] /\ \A j \in Ctxs : j # k => ctxs'[j] = ctxs[j]
        BY <1>0, <2>1, <3>1
      <4>4. CASE ctxs'[k] = ctxs[k]
        BY <2>1, <4>3, <4>4
      <4>5. CASE ctxs'[k] = [ctxs[k] EXCEPT !.extensions = FALSE]
        BY <2>1, <4>2, <4>3, <4>5 DEF ContextRecords
      <4> QED
        BY <4>1, <4>4, <4>5
    <3> QED
      BY <1>6, <2>1, <3>2
  <2> QED
    BY <2>2, <2>3
<1>8. ASSUME NEW k \in Ctxs, NEW slot \in Contexts!Slots \cup {Contexts!StateSlot},
             NEW type \in Types \cup {"state"}, Len(log) < MaxWrites, UNCHANGED <<app, services>>,
             log' = Append(log, [ctx |-> k, slot |-> slot, type |-> type]),
             ctxs' \in [Ctxs -> ContextRecords], \A j \in Ctxs : j # k => ctxs'[j] = ctxs[j],
             ctxs[k].phase = "live" /\ ctxs'[k].phase = "live",
             ctxs'[k].lineage = ctxs[k].lineage,
             /\ ctxs'[k].body = ctxs[k].body /\ ctxs'[k].request = ctxs[k].request
             /\ ctxs'[k].read = ctxs[k].read,
             IF slot = Contexts!StateSlot
             THEN ctxs'[k].state = Len(log) + 1 /\ ctxs'[k].storage = ctxs[k].storage
             ELSE /\ ctxs'[k].state = ctxs[k].state
                  /\ ctxs'[k].storage =
                       [ctxs[k].storage EXCEPT ![slot] = [type |-> type, value |-> Len(log) + 1]]
      PROVE  ContextInv'
  <2>0. [ctx |-> k, slot |-> slot, type |-> type] \in Writes
    BY DEF Writes
  <2>1. /\ log' \in Seq(Writes) /\ Len(log') = Len(log) + 1 /\ Len(log') <= MaxWrites
        /\ \A i \in 1 .. Len(log) : log'[i] = log[i]
        /\ log'[Len(log) + 1] = [ctx |-> k, slot |-> slot, type |-> type]
        /\ \A i \in 1 .. Len(log) + 1 : i \in 1 .. Len(log) \/ i = Len(log) + 1
    BY <1>0, <1>8, <2>0 DEF ContextTypes
  <2>2. ContextTypes'
    BY <1>8, <2>1 DEF ContextTypes
  <2>3. WritersWereUsed'
    <3> SUFFICES ASSUME NEW i \in 1 .. Len(log) + 1 PROVE ctxs'[log'[i].ctx].phase # "unused"
      BY <2>1 DEF WritersWereUsed
    <3>1. CASE i = Len(log) + 1
      BY <1>8, <2>1, <3>1
    <3>2. CASE i \in 1 .. Len(log)
      <4>1. log[i].ctx \in Ctxs /\ log'[i].ctx = log[i].ctx /\ ctxs[log[i].ctx].phase # "unused"
        BY <1>0, <2>1, <3>2 DEF WritersWereUsed
      <4> QED
        BY <1>8, <4>1
    <3> QED
      BY <2>1, <3>1, <3>2
  <2>4. LineagePast'
    <3> SUFFICES ASSUME NEW m \in Ctxs, NEW j \in Ctxs PROVE ctxs'[m].lineage[j] <= Len(log) + 1
      BY <2>1 DEF LineagePast
    <3>1. ctxs'[m].lineage = ctxs[m].lineage
      BY <1>8
    <3>2. ctxs[m].lineage[j] \in Nat /\ ctxs[m].lineage[j] <= Len(log)
      BY <1>0 DEF LineagePast, ContextRecords
    <3> QED
      BY <1>0, <3>1, <3>2
  <2>5. FullIsUnread'
    BY <1>8 DEF FullIsUnread
  <2>6. Found(k)'
    <3>1. Found(k)
      BY <1>8 DEF SeesOwn
    <3> QED
      BY <1>0, <1>8, <3>1, FoundAfterWrite
  <2>7. ASSUME NEW j \in Ctxs, j # k, ctxs'[j].phase = "live" PROVE Found(j)'
    <3>4. LineagePast /\ ctxs'[j].lineage = ctxs[j].lineage
      BY <1>8, <2>7
    <3>1. \A q : Contexts!Visible(j, q)' = Contexts!Visible(j, q)
      <4>1. \A q : Contexts!Visible(j, q)' =
                   Contexts!Visible(j, q) \cup IF j = k /\ q = slot THEN {Len(log) + 1} ELSE {}
        BY <1>0, <1>8, <2>1, <3>4, WriteSeenByWriter
      <4> QED
        BY <2>7, <4>1
    <3>2. Found(j) /\ ctxs'[j] = ctxs[j]
      BY <1>8, <2>7 DEF SeesOwn
    <3>3. \A q : Contexts!Visible(j, q) \subseteq 1 .. Len(log)
      BY DEF Contexts!Visible
    <3> QED
      BY <1>8, <2>1, <3>1, <3>2, <3>3 DEF Found, Contexts!LatestOf
  <2> QED
    BY <1>8, <2>2, <2>3, <2>4, <2>5, <2>6, <2>7 DEF SeesOwn
<1>9. ASSUME NEW k \in Ctxs, NEW slot \in Contexts!Slots, NEW type \in Types,
             Contexts!store_scoped(k, slot, type)
      PROVE  ContextInv'
  <2> DEFINE cell == [type |-> type, value |-> Len(log) + 1]
             new == [ctxs[k].storage EXCEPT ![slot] = cell]
  <2>1. /\ ctxs[k].phase = "live" /\ Len(log) < MaxWrites /\ UNCHANGED <<app, services>>
        /\ log' = Append(log, [ctx |-> k, slot |-> slot, type |-> type])
        /\ ctxs' = [ctxs EXCEPT ![k].storage = new]
    BY <1>9 DEF Contexts!store_scoped, Contexts!Write, Contexts!Storing
  <2>2. ctxs[k] \in ContextRecords /\ cell \in Contexts!Entries
    BY <1>0, <2>1 DEF Contexts!Entries
  <2>3. new \in [Contexts!Slots -> Contexts!Entries]
    BY <2>2 DEF ContextRecords
  <2> HIDE DEF new
  <2>4. [ctxs[k] EXCEPT !.storage = new] \in ContextRecords
    BY <2>2, <2>3 DEF ContextRecords
  <2>5. /\ ctxs' \in [Ctxs -> ContextRecords] /\ \A j \in Ctxs : j # k => ctxs'[j] = ctxs[j]
        /\ ctxs'[k] = [ctxs[k] EXCEPT !.storage = new]
    BY <1>0, <2>1, <2>4
  <2>6. /\ ctxs'[k].phase = ctxs[k].phase /\ ctxs'[k].lineage = ctxs[k].lineage
        /\ ctxs'[k].body = ctxs[k].body /\ ctxs'[k].request = ctxs[k].request
        /\ ctxs'[k].read = ctxs[k].read /\ ctxs'[k].state = ctxs[k].state
        /\ ctxs'[k].storage = new
    BY <2>2, <2>5 DEF ContextRecords
  <2>7. slot \in Contexts!Slots \cup {Contexts!StateSlot} /\ slot # Contexts!StateSlot
        /\ type \in Types \cup {"state"}
    BY <1>0
  <2> QED
    BY <1>8, <2>1, <2>5, <2>6, <2>7, SMTT(20) DEF new
<1>10. ASSUME NEW k \in Ctxs, Contexts!deref_mut(k) PROVE ContextInv'
  <2>1. /\ ctxs[k].phase = "live" /\ Len(log) < MaxWrites /\ UNCHANGED <<app, services>>
        /\ log' = Append(log, [ctx |-> k, slot |-> Contexts!StateSlot, type |-> "state"])
        /\ ctxs' = [ctxs EXCEPT ![k].state = Len(log) + 1]
    BY <1>10 DEF Contexts!deref_mut, Contexts!Write
  <2>2. ctxs[k] \in ContextRecords /\ Len(log) + 1 \in 0 .. MaxWrites
    BY <1>0, <2>1
  <2>4. [ctxs[k] EXCEPT !.state = Len(log) + 1] \in ContextRecords
    BY <2>2 DEF ContextRecords
  <2>5. /\ ctxs' \in [Ctxs -> ContextRecords] /\ \A j \in Ctxs : j # k => ctxs'[j] = ctxs[j]
        /\ ctxs'[k] = [ctxs[k] EXCEPT !.state = Len(log) + 1]
    BY <1>0, <2>1, <2>4
  <2>6. /\ ctxs'[k].phase = ctxs[k].phase /\ ctxs'[k].lineage = ctxs[k].lineage
        /\ ctxs'[k].body = ctxs[k].body /\ ctxs'[k].request = ctxs[k].request
        /\ ctxs'[k].read = ctxs[k].read /\ ctxs'[k].storage = ctxs[k].storage
        /\ ctxs'[k].state = Len(log) + 1
    BY <2>2, <2>5, SMTT(30) DEF ContextRecords
  <2> QED
    BY <1>8, <2>1, <2>5, <2>6, ZenonT(40)
<1>11. CASE UNCHANGED Contexts!vars
  BY <1>11 DEF Contexts!vars, ContextTypes, WritersWereUsed, LineagePast, FullIsUnread, SeesOwn,
     Found, Contexts!Visible, Contexts!LatestOf
<1> QED
  BY <1>1, <1>3, <1>4, <1>5, <1>7, <1>9, <1>10, <1>11 DEF Contexts!Next

(* What a context sees of its own writes is what a load by type finds.     *)
LEMMA FoundIsApart ==
  ASSUME Contexts!ContextAssumption, ContextInv
  PROVE  Contexts!ContextsKeepApart
<1> USE DEF ContextInv, Contexts!Live, Contexts!Now
<1>0. /\ \A k \in Ctxs : ctxs[k] \in ContextRecords
      /\ Len(log) \in Nat
      /\ \A i \in 1 .. Len(log) : log[i] \in Writes
  BY DEF ContextTypes
<1>1. Contexts!TypeOK
  BY <1>0 DEF Contexts!TypeOK, ContextTypes, ContextRecords
<1>2. Contexts!SeesOwnWrites
  BY DEF Contexts!SeesOwnWrites, SeesOwn, Found
<1>3. Contexts!LoadsLastOfType
  <2> SUFFICES ASSUME NEW k \in Ctxs, NEW slot \in Contexts!Slots, NEW type \in Types,
                      ctxs[k].phase = "live"
               PROVE  LET wanted == {i \in Contexts!Visible(k, slot) :
                             Contexts!LatestOf(Contexts!Visible(k, slot), i) /\ log[i].type = type}
                      IN  Contexts!load_scoped(k, slot, type) \in
                            IF wanted = {} THEN {Contexts!None}
                            ELSE {[type |-> type, value |-> i] : i \in wanted}
    BY DEF Contexts!LoadsLastOfType
  <2> DEFINE visible == Contexts!Visible(k, slot)
             cell == ctxs[k].storage[slot]
             wanted == {i \in visible : Contexts!LatestOf(visible, i) /\ log[i].type = type}
  <2>1. cell \in Contexts!Entries
    BY <1>0 DEF ContextRecords
  <2>2. IF visible = {} THEN cell = Contexts!None
        ELSE Contexts!LatestOf(visible, cell.value) /\ cell.type = log[cell.value].type
    BY DEF SeesOwn, Found
  <2>3. visible \subseteq Nat
    BY <1>0 DEF Contexts!Visible
  <2>4. Contexts!load_scoped(k, slot, type) = IF cell.type = type THEN cell ELSE Contexts!None
    BY DEF Contexts!load_scoped, Contexts!Downcast
  <2>7. cell = [type |-> cell.type, value |-> cell.value]
    BY <2>1 DEF Contexts!Entries
  <2> HIDE DEF visible, cell
  <2>5. ASSUME wanted # {}
        PROVE  cell.value \in wanted /\ cell.type = type
    <3>1. PICK i \in visible : Contexts!LatestOf(visible, i) /\ log[i].type = type
      BY <2>5
    <3>2. Contexts!LatestOf(visible, cell.value) /\ cell.type = log[cell.value].type
      BY <2>2, <3>1
    <3>4. /\ i \in Nat /\ cell.value \in Nat
          /\ i <= cell.value /\ cell.value <= i
      BY <2>3, <3>1, <3>2 DEF Contexts!LatestOf
    <3>3. i = cell.value
      BY <3>4
    <3> QED
      BY <3>1, <3>2, <3>3
  <2>6. ASSUME wanted = {} PROVE cell.type # type \/ cell = Contexts!None
    BY <2>2, <2>6 DEF Contexts!LatestOf
  <2> HIDE DEF wanted
  <2>8. CASE wanted = {}
    BY <2>4, <2>6, <2>8 DEF wanted, visible
  <2>9. CASE wanted # {}
    <3>1. Contexts!load_scoped(k, slot, type) = [type |-> type, value |-> cell.value]
      BY <2>4, <2>5, <2>7, <2>9
    <3> QED
      BY <2>5, <2>9, <3>1 DEF wanted, visible
  <2> QED
    BY <2>8, <2>9 DEF wanted, visible
<1>4. Contexts!BodyReadOnce
  BY <1>0 DEF Contexts!BodyReadOnce, FullIsUnread, ContextRecords
<1> QED
  BY <1>1, <1>2, <1>3, <1>4 DEF Contexts!ContextsKeepApart

(* For any number of connections, contexts and writes, a context finds the *)
(* last of its own writes and of those its ancestors had made when it was  *)
(* cloned, and nothing of another request or clone; a body has one reader. *)
THEOREM ContextsStayApart == Spec => []ContextsKeepApart
<1> DEFINE Inv == part = "context" => ContextInv
<1>1. Init => Inv
  <2> SUFFICES ASSUME Contexts!Init PROVE ContextInv
    BY DEF Init
  <2>1. MaxWrites \in Nat
    BY Assumptions DEF Contexts!ContextAssumption
  <2>2. Contexts!Unused \in ContextRecords
    BY <2>1 DEF Contexts!Unused, Contexts!EmptyStorage, Contexts!None, Contexts!Entries, ContextRecords
  <2>3. log = <<>> /\ log \in Seq(Writes) /\ Len(log) = 0
    BY DEF Contexts!Init
  <2>4. \A k \in Ctxs : ctxs[k] = Contexts!Unused
    BY DEF Contexts!Init
  <2>5. Contexts!Unused.phase = "unused" /\ Contexts!Unused.body = "empty" /\ Contexts!Unused.read = 0
        /\ Contexts!Unused.lineage = [k \in Ctxs |-> 0]
    BY DEF Contexts!Unused
  <2> QED
    BY <2>1, <2>2, <2>3, <2>4, <2>5 DEF Contexts!Init, ContextInv, ContextTypes, WritersWereUsed, LineagePast,
       FullIsUnread, SeesOwn
<1>2. Inv /\ [Next]_vars => Inv'
  BY PartsApart, ContextSteps, Assumptions
<1>3. Inv => ContextsKeepApart
  BY FoundIsApart, Assumptions DEF ContextsKeepApart
<1> QED
  BY <1>1, <1>2, <1>3, PTL DEF Spec

-----------------------------------------------------------------------------
(* Lookups.                                                                *)

\* The provers do not know that a literal is a string.
Strings == STRING \cup {"param"}

Maps == [Lookups!Scopes -> [LookupNames -> SUBSET Strings]]
CallTypes == [op : {"fill", "set_cookie"}, name : Lookups!Scopes \cup LookupNames]
Settings == [op : {"set_cookie"}, name : LookupNames]

Hit(pairs, name, i) == Lookups!Decoded(pairs[i].raw) = name

\* The last pair of a name among the first k.
IsLast(pairs, name, k, i) ==
    /\ i \in 1 .. k /\ Hit(pairs, name, i)
    /\ \A j \in 1 .. k : Hit(pairs, name, j) => j <= i

NoHit(pairs, name, k) == \A i \in 1 .. k : ~Hit(pairs, name, i)

HasRun(scope) == \E i \in DOMAIN lookups : lookups[i] = [op |-> "fill", name |-> scope]

(* The strengthening of LastPairOfItsScope: a scope that its parser has    *)
(* filled has the last pair of every name, one that it has not is empty.   *)
Says(pairs, name, value) ==
    \/ NoHit(pairs, name, Len(pairs)) /\ value = {}
    \/ \E i \in 1 .. Len(pairs) :
          IsLast(pairs, name, Len(pairs), i) /\ value = {pairs[i].value}

StoreSays ==
    \A scope \in {"cookie", "query"}, name \in LookupNames :
        IF HasRun(scope) THEN Says(Lookups!PairsOf(scope), name, cached[scope][name])
        ELSE cached[scope][name] = {}

LookupTypes ==
    /\ sent \in Sent /\ cached \in Maps /\ lookups \in Seq(CallTypes)
    /\ DOMAIN added = {"challenge", "cookies"}

LookupInv == LookupTypes /\ StoreSays /\ Lookups!LookupsAsSent

(* The extensions filter with the Only that the lemmas of SequenceFacts    *)
(* are about.                                                              *)
LEMMA SameOnly == \A s, set : Lookups!Only(s, set) = Only(s, set)
BY DEF Lookups!Only, Lookups!FoldLeft, Lookups!MapThenFoldSet, Lookups!Max,
       Only, FoldLeft, MapThenFoldSet, Max

(* The value of a name after k of the pairs were inserted into a scope.    *)
Filled(map, scope, pairs, k) ==
    \A s \in Lookups!Scopes, name \in LookupNames :
        \/ (s # scope \/ NoHit(pairs, name, k)) /\ map[s][name] = cached[s][name]
        \/ s = scope /\ \E i \in 1 .. k :
              IsLast(pairs, name, k, i) /\ map[s][name] = {pairs[i].value}

(* One more pair is the last of its name.                                  *)
LEMMA OneMorePair ==
  ASSUME NEW pairs \in Seq(Lookups!Pairs), NEW scope \in Lookups!Scopes, NEW k \in Nat,
         k + 1 \in DOMAIN pairs, NEW map \in Maps, Filled(map, scope, pairs, k),
         NEW new, new = Lookups!Insert(map, scope, Lookups!Decoded(pairs[k + 1].raw),
                                       pairs[k + 1].value)
  PROVE  new \in Maps /\ Filled(new, scope, pairs, k + 1)
<1>1. PICK d : d = Lookups!Decoded(pairs[k + 1].raw)
  OBVIOUS
<1>2. PICK value : value = pairs[k + 1].value
  OBVIOUS
<1>3. value \in Strings
  <2>1. pairs[k + 1] \in Lookups!Pairs
    OBVIOUS
  <2> QED
    BY <1>2, <2>1 DEF Lookups!Pairs, Strings
<1>4. new = [map EXCEPT ![scope] = [map[scope] EXCEPT ![d] = {value}]]
  BY <1>1, <1>2 DEF Lookups!Insert, Lookups!Some
<1>5. map[scope] \in [LookupNames -> SUBSET Strings]
  BY DEF Maps
<1>6. [map[scope] EXCEPT ![d] = {value}] \in [LookupNames -> SUBSET Strings]
  BY <1>3, <1>5
<1>7. new \in Maps
  BY <1>4, <1>6 DEF Maps
<1>8. \A s \in Lookups!Scopes, name \in LookupNames :
          new[s][name] = IF s = scope /\ name = d THEN {value} ELSE map[s][name]
  BY <1>4, <1>5 DEF Maps
<1>9. \A i \in 1 .. k + 1 : i \in 1 .. k \/ i = k + 1
  OBVIOUS
<1>10. k + 1 \in 1 .. k + 1 /\ \A i \in 1 .. k : i \in 1 .. k + 1 /\ i <= k + 1
  OBVIOUS
<1>11. ASSUME NEW s \in Lookups!Scopes, NEW name \in LookupNames
       PROVE  \/ (s # scope \/ NoHit(pairs, name, k + 1)) /\ new[s][name] = cached[s][name]
              \/ s = scope /\ \E i \in 1 .. k + 1 :
                    IsLast(pairs, name, k + 1, i) /\ new[s][name] = {pairs[i].value}
  <2>1. CASE s # scope
    BY <1>8, <2>1 DEF Filled
  <2>2. CASE s = scope /\ name = d
    <3>1. IsLast(pairs, name, k + 1, k + 1)
      BY <1>1, <1>9, <1>10, <2>2 DEF IsLast, Hit
    <3>2. new[s][name] = {pairs[k + 1].value}
      BY <1>2, <1>8, <2>2
    <3> QED
      BY <1>10, <2>2, <3>1, <3>2
  <2>3. CASE s = scope /\ name # d
    <3>1. ~Hit(pairs, name, k + 1)
      BY <1>1, <2>3 DEF Hit
    <3>2. NoHit(pairs, name, k) => NoHit(pairs, name, k + 1)
      BY <1>9, <3>1 DEF NoHit
    <3>3. \A i \in 1 .. k : IsLast(pairs, name, k, i) => IsLast(pairs, name, k + 1, i)
      BY <1>9, <1>10, <3>1 DEF IsLast
    <3>4. new[s][name] = map[s][name]
      BY <1>8, <2>3
    <3> QED
      BY <1>10, <2>3, <3>2, <3>3, <3>4 DEF Filled
  <2> QED
    BY <2>1, <2>2, <2>3
<1> QED
  BY <1>7, <1>11 DEF Filled

(* The parsers insert every pair, so the last one of a name stays.         *)
LEMMA StoreAllIs ==
  ASSUME cached \in Maps, NEW pairs \in Seq(Lookups!Pairs), NEW scope \in Lookups!Scopes
  PROVE  /\ Lookups!StoreAll(scope, pairs) \in Maps
         /\ Filled(Lookups!StoreAll(scope, pairs), scope, pairs, Len(pairs))
<1> DEFINE Put(map, p) == Lookups!Insert(map, scope, Lookups!Decoded(p.raw), p.value)
           IsIt(it) == it = [t \in SUBSET DOMAIN pairs |->
                               IF t = {} THEN cached ELSE Put(it[t \ {Max(t)}], pairs[Max(t)])]
           chosen == CHOOSE it : IsIt(it)
<1>1. PICK n : n = Len(pairs)
  OBVIOUS
<1>2. PICK V : V = Maps
  OBVIOUS
<1>3. PICK step : step = [x \in V \X (1 .. n) |-> Put(x[1], pairs[x[2]])]
  OBVIOUS
<1>4. PICK base : base = cached
  OBVIOUS
<1>5. n \in Nat /\ DOMAIN pairs = 1 .. n /\ \A k \in 1 .. n : pairs[k] \in Lookups!Pairs
  BY <1>1
<1>6. ASSUME NEW map \in V, NEW k \in 1 .. n
      PROVE  Put(map, pairs[k]) \in V
  <2>1. map \in Maps /\ pairs[k].value \in Strings
    BY <1>2, <1>5 DEF Lookups!Pairs, Strings
  <2>2. map[scope] \in [LookupNames -> SUBSET Strings]
    BY <2>1 DEF Maps
  <2>3. \A d : [map[scope] EXCEPT ![d] = {pairs[k].value}] \in [LookupNames -> SUBSET Strings]
    BY <2>1, <2>2
  <2> QED
    BY <1>2, <2>1, <2>3 DEF Maps, Lookups!Insert, Lookups!Some
<1> HIDE DEF Put
<1>7. step \in [V \X (1 .. n) -> V] /\ base \in V
  BY <1>2, <1>3, <1>4, <1>6
<1>8. \A v \in V, k \in 1 .. n : step[<<v, k>>] = Put(v, pairs[k])
  BY <1>3
<1>9. Lookups!StoreAll(scope, pairs) = chosen[DOMAIN pairs]
  BY DEF Lookups!StoreAll, Lookups!FoldLeft, Lookups!MapThenFoldSet, Lookups!Max, Max, Put
<1>10. PICK it : IsFold(it, n, V, base, step)
  BY ONLY <1>5, <1>7, FoldExists
<1>11. IsIt(it)
  <2>1. ASSUME NEW t \in SUBSET (1 .. n), t # {}
        PROVE  it[t] = Put(it[t \ {Max(t)}], pairs[Max(t)])
    BY <1>8, <1>10, <2>1 DEF IsFold
  <2> QED
    BY <1>4, <1>5, <1>10, <2>1 DEF IsFold
<1>12. IsIt(chosen)
  BY <1>11
<1>13. PICK g : g = chosen
  OBVIOUS
<1>14. /\ g[{}] = base
       /\ \A t \in SUBSET (1 .. n) : t # {} => g[t] = Put(g[t \ {Max(t)}], pairs[Max(t)])
  BY <1>4, <1>5, <1>12, <1>13
<1>15. Follows(g, n, V, base, step)
  BY <1>8, <1>14 DEF Follows
<1>16. PICK tr : IsTrace(tr, g, n, V, base, step)
  BY ONLY <1>5, <1>7, <1>15, FoldSteps
<1>17. PICK T : T = {k \in 0 .. n : Filled(tr[k], scope, pairs, k)}
  OBVIOUS
<1>18. 0 \in T
  BY <1>4, <1>5, <1>16, <1>17 DEF IsTrace, Filled, NoHit
<1>19. ASSUME NEW k \in 0 .. n - 1, k \in T
       PROVE  k + 1 \in T
  <2>1. k + 1 \in 1 .. n /\ k + 1 \in 0 .. n /\ (k + 1) - 1 = k /\ k \in 0 .. n /\ k \in Nat
    BY <1>5
  <2>2. tr[k + 1] = Put(tr[k], pairs[k + 1]) /\ tr[k] \in Maps
    BY <1>2, <1>8, <1>16, <2>1, ZenonT(40) DEF IsTrace
  <2>3. Filled(tr[k], scope, pairs, k)
    BY <1>17, <1>19
  <2>4. Filled(tr[k + 1], scope, pairs, k + 1)
    BY <1>5, <2>1, <2>2, <2>3, OneMorePair DEF Put
  <2> QED
    BY <1>17, <2>1, <2>4
<1>20. 0 .. n \subseteq T
  BY <1>5, <1>18, <1>19, Induction
<1>21. Filled(tr[n], scope, pairs, n)
  BY <1>5, <1>17, <1>20
<1> QED
  BY <1>1, <1>2, <1>5, <1>9, <1>13, <1>16, <1>21 DEF IsTrace

(* Who has run after one more call.                                        *)
LEMMA HasRunAfter ==
  ASSUME lookups \in Seq(CallTypes), NEW scope \in Lookups!Scopes,
         lookups' = Append(lookups, [op |-> "fill", name |-> scope])
  PROVE  \A s \in Lookups!Scopes : HasRun(s)' <=> HasRun(s) \/ s = scope
<1>1. PICK n : n = Len(lookups)
  OBVIOUS
<1>2. PICK call : call = [op |-> "fill", name |-> scope]
  OBVIOUS
<1>3. /\ n \in Nat /\ DOMAIN lookups = 1 .. n /\ DOMAIN lookups' = 1 .. n + 1
      /\ lookups'[n + 1] = call /\ \A i \in 1 .. n : lookups'[i] = lookups[i]
  BY <1>1, <1>2
<1> SUFFICES ASSUME NEW s \in Lookups!Scopes PROVE HasRun(s)' <=> HasRun(s) \/ s = scope
  OBVIOUS
<1>4. PICK fill : fill = [op |-> "fill", name |-> s]
  OBVIOUS
<1>5. fill = call <=> s = scope
  BY <1>2, <1>4
<1>6. (\E i \in 1 .. n + 1 : lookups'[i] = fill) <=> (\E i \in 1 .. n : lookups[i] = fill) \/ call = fill
  <2>1. \A i \in 1 .. n + 1 : i \in 1 .. n \/ i = n + 1
    BY <1>3
  <2>2. n + 1 \in 1 .. n + 1 /\ \A i \in 1 .. n : i \in 1 .. n + 1
    BY <1>3
  <2> QED
    BY <1>3, <2>1, <2>2
<1> QED
  BY <1>3, <1>4, <1>5, <1>6 DEF HasRun

(* Cookies that can be parsed are pairs.                                   *)
LEMMA UsableTyped ==
  ASSUME NEW pairs \in Seq(Lookups!Pairs)
  PROVE  Lookups!Usable(pairs) \in Seq(Lookups!Pairs)
<1>1. PICK good : good = {p \in Lookups!ToSet(pairs) : p.raw # "bad"}
  OBVIOUS
<1> QED
  BY <1>1, SameOnly, OnlyTyped DEF Lookups!Usable

(* Leaving out cookies that cannot be parsed leaves out no pair of a name. *)
LEMMA UsableSays ==
  ASSUME NEW pairs \in Seq(Lookups!Pairs), NEW name \in LookupNames,
         NEW value, Says(Lookups!Usable(pairs), name, value)
  PROVE  Says(pairs, name, value)
<1>1. PICK good : good = {p \in Lookups!ToSet(pairs) : p.raw # "bad"}
  OBVIOUS
<1>2. PICK r : r = Only(pairs, good)
  OBVIOUS
<1>3. r = Lookups!Usable(pairs)
  BY <1>1, <1>2, SameOnly DEF Lookups!Usable
<1>4. r \in Seq(Lookups!Pairs)
  BY <1>2, OnlyTyped
<1>5. PICK f : Picks(f, r, pairs, good)
  BY <1>2, OnlyIs
<1>6. PICK n : n = Len(pairs)
  OBVIOUS
<1>7. PICK m : m = Len(r)
  OBVIOUS
<1>8. /\ n \in Nat /\ m \in Nat /\ DOMAIN pairs = 1 .. n /\ DOMAIN r = 1 .. m
      /\ DOMAIN f = 1 .. m /\ \A i \in 1 .. m : f[i] \in 1 .. n /\ r[i] = pairs[f[i]]
  BY <1>4, <1>5, <1>6, <1>7, SMTT(40) DEF Picks
<1>9. \A j \in 1 .. n : Hit(pairs, name, j) => \E i \in 1 .. m : f[i] = j
  <2> SUFFICES ASSUME NEW j \in 1 .. n, Hit(pairs, name, j)
               PROVE  \E i \in 1 .. m : f[i] = j
    OBVIOUS
  <2>1. pairs[j].raw # "bad"
    BY Assumptions DEF Hit, Lookups!Decoded, Lookups!RequestsAssumption
  <2>2. pairs[j] \in good
    BY <1>1, <1>8, <2>1 DEF Lookups!ToSet
  <2> QED
    BY <1>5, <1>8, <2>2 DEF Picks
<1>10. \A i \in 1 .. m : Hit(r, name, i) <=> Hit(pairs, name, f[i])
  BY <1>8 DEF Hit
<1>11. ASSUME NoHit(r, name, m), value = {}
       PROVE  Says(pairs, name, value)
  <2>1. NoHit(pairs, name, n)
    BY <1>8, <1>9, <1>10, <1>11 DEF NoHit
  <2> QED
    BY <1>6, <1>11, <2>1 DEF Says
<1>12. ASSUME \E i \in 1 .. m : IsLast(r, name, m, i) /\ value = {r[i].value}
       PROVE  Says(pairs, name, value)
  <2>1. PICK i \in 1 .. m : IsLast(r, name, m, i) /\ value = {r[i].value}
    BY <1>12
  <2>2. PICK h : h = f[i]
    OBVIOUS
  <2>3. h \in 1 .. n /\ Hit(pairs, name, h) /\ value = {pairs[h].value}
    BY <1>8, <1>10, <2>1, <2>2 DEF IsLast
  <2>4. ASSUME NEW j \in 1 .. n, Hit(pairs, name, j)
        PROVE  j <= h
    <3>1. PICK l \in 1 .. m : f[l] = j
      BY <1>9, <2>4
    <3>2. l <= i
      BY <1>10, <2>1, <2>4, <3>1 DEF IsLast
    <3>3. l = i => j = h
      BY <2>2, <3>1
    <3>4. l < i => j < h
      BY <1>5, <1>8, <2>2, <3>1 DEF Picks
    <3> QED
      BY <1>8, <2>3, <3>2, <3>3, <3>4
  <2>5. IsLast(pairs, name, n, h)
    BY <2>3, <2>4 DEF IsLast
  <2> QED
    BY <1>6, <2>3, <2>5 DEF Says
<1> QED
  BY <1>3, <1>7, <1>11, <1>12 DEF Says

(* What a parser has filled a scope with is what the request says of it,   *)
(* also when it runs again.                                                *)
LEMMA FillingSays ==
  ASSUME LookupTypes, StoreSays, UNCHANGED sent,
         NEW scope \in {"cookie", "query"}, NEW pairs \in Seq(Lookups!Pairs),
         \A name \in LookupNames : \A value :
            Says(pairs, name, value) => Says(Lookups!PairsOf(scope), name, value),
         cached' = Lookups!StoreAll(scope, pairs),
         lookups' = Append(lookups, [op |-> "fill", name |-> scope])
  PROVE  cached' \in Maps /\ StoreSays'
<1>1. scope \in Lookups!Scopes /\ cached \in Maps
  BY DEF Lookups!Scopes, LookupTypes
<1>2. PICK map : map = Lookups!StoreAll(scope, pairs)
  OBVIOUS
<1>3. PICK all : all = Lookups!PairsOf(scope)
  OBVIOUS
<1>4. map \in Maps /\ Filled(map, scope, pairs, Len(pairs))
  BY <1>1, <1>2, StoreAllIs
<1>5. \A s \in {"cookie", "query"} : HasRun(s)' <=> HasRun(s) \/ s = scope
  BY HasRunAfter DEF LookupTypes, CallTypes, Lookups!Scopes
<1>6. ASSUME NEW s \in {"cookie", "query"}, NEW name \in LookupNames
      PROVE  IF HasRun(s)' THEN Says(Lookups!PairsOf(s), name, map[s][name]) ELSE map[s][name] = {}
  <2>0. s \in Lookups!Scopes
    BY DEF Lookups!Scopes
  <2>1. CASE s # scope
    <3>1. map[s][name] = cached[s][name]
      BY <1>4, <2>0, <2>1 DEF Filled
    <3> QED
      BY <1>5, <2>1, <3>1 DEF StoreSays
  <2>2. CASE s = scope /\ NoHit(pairs, name, Len(pairs)) /\ map[s][name] = cached[s][name]
    <3>1. CASE HasRun(s)
      BY <1>5, <2>2, <3>1 DEF StoreSays
    <3>2. CASE ~HasRun(s)
      <4>1. map[s][name] = {}
        BY <2>2, <3>2 DEF StoreSays
      <4>2. Says(pairs, name, map[s][name])
        BY <2>2, <4>1 DEF Says
      <4> QED
        BY <1>5, <2>2, <4>2
    <3> QED
      BY <3>1, <3>2
  <2>3. CASE s = scope /\ \E i \in 1 .. Len(pairs) :
               IsLast(pairs, name, Len(pairs), i) /\ map[s][name] = {pairs[i].value}
    <3>1. Says(pairs, name, map[s][name])
      BY <2>3 DEF Says
    <3> QED
      BY <1>5, <2>3, <3>1
  <2> QED
    BY <1>4, <2>0, <2>1, <2>2, <2>3 DEF Filled
<1>7. \A s \in {"cookie", "query"} : Lookups!PairsOf(s)' = Lookups!PairsOf(s)
  BY DEF Lookups!PairsOf
<1>8. cached' = map
  BY <1>2
<1> QED
  BY <1>4, <1>6, <1>7, <1>8 DEF StoreSays

(* A call that sets no cookie leaves those that were set.                  *)
LEMMA FillingKeepsCookies ==
  ASSUME LookupTypes, Lookups!CookiesKept, UNCHANGED added, NEW scope \in Lookups!Scopes,
         lookups' = Append(lookups, [op |-> "fill", name |-> scope])
  PROVE  lookups' \in Seq(CallTypes) /\ Lookups!CookiesKept'
<1>1. PICK call : call = [op |-> "fill", name |-> scope]
  OBVIOUS
<1>2. call \in CallTypes /\ call \notin Settings
  BY <1>1 DEF CallTypes, Settings
<1>3. PICK old : old = lookups
  OBVIOUS
<1>4. old \in Seq(CallTypes)
  BY <1>3 DEF LookupTypes
<1>5. Only(Append(old, call), Settings) = Only(old, Settings)
  BY <1>2, <1>4, OnlyAppend
<1>6. Lookups!Only(lookups', Settings) = Lookups!Only(lookups, Settings)
  BY <1>1, <1>3, <1>5, SameOnly
<1>7. lookups' \in Seq(CallTypes)
  BY <1>1, <1>2, <1>3, <1>4
<1>8. PICK set : set = Lookups!Only(lookups, Settings)
  OBVIOUS
<1>9. added.cookies = [i \in DOMAIN set |-> set[i].name]
  BY <1>8 DEF Lookups!CookiesKept, Settings
<1>10. Lookups!CookiesKept' <=> added'.cookies = [i \in DOMAIN set |-> set[i].name]
  BY <1>6, <1>8 DEF Lookups!CookiesKept, Settings
<1> QED
  BY <1>7, <1>9, <1>10

(* The parsers and the router fill their scopes.                           *)
LEMMA FillingSteps ==
  ASSUME LookupInv, Lookups!cookie_parser \/ Lookups!query_parser \/ Lookups!Route
  PROVE  LookupInv'
<1> USE DEF LookupInv, LookupTypes
<1>1. /\ UNCHANGED <<sent, added, fate>> /\ fate = "ok" /\ got' = Lookups!NoAnswer
      /\ \E scope \in Lookups!Scopes : lookups' = Append(lookups, [op |-> "fill", name |-> scope])
  BY DEF Lookups!cookie_parser, Lookups!query_parser, Lookups!Route, Lookups!MayCall,
         Lookups!Called, Lookups!Scopes
<1>2. lookups' \in Seq(CallTypes) /\ Lookups!CookiesKept'
  BY <1>1, FillingKeepsCookies DEF Lookups!LookupsAsSent
<1>3. /\ Lookups!LastPairOfItsScope' /\ Lookups!ClientIpIsAddress' /\ Lookups!HostFallsBack'
      /\ Lookups!ChallengeNamesCookie'
  BY <1>1 DEF Lookups!LastPairOfItsScope, Lookups!ClientIpIsAddress, Lookups!HostFallsBack,
     Lookups!ChallengeNamesCookie
<1>4. cached' \in Maps /\ StoreSays'
  <2>1. CASE Lookups!query_parser
    <3>1. PICK pairs : pairs = sent.query
      OBVIOUS
    <3>2. pairs \in Seq(Lookups!Pairs) /\ pairs = Lookups!PairsOf("query")
      BY <3>1, Assumptions DEF Lookups!RequestsAssumption, Lookups!PairsOf
    <3>3. cached' = Lookups!StoreAll("query", pairs)
          /\ lookups' = Append(lookups, [op |-> "fill", name |-> "query"])
      BY <2>1, <3>1 DEF Lookups!query_parser, Lookups!Called
    <3> QED
      BY <1>1, <3>2, <3>3, FillingSays
  <2>2. CASE Lookups!cookie_parser /\ ~(sent.cookie \in {Lookups!None, Lookups!Some(Lookups!Opaque)})
    <3>1. PICK pairs : pairs = CHOOSE p \in sent.cookie : TRUE
      OBVIOUS
    <3>2. pairs \in Seq(Lookups!Pairs) /\ pairs = Lookups!PairsOf("cookie")
      <4>1. sent.cookie # {}
        BY <2>2 DEF Lookups!None
      <4>2. pairs \in sent.cookie
        BY <3>1, <4>1
      <4> QED
        BY <2>2, <3>1, <4>2, Assumptions DEF Lookups!RequestsAssumption, Lookups!PairsOf
    <3>3. PICK usable : usable = Lookups!Usable(pairs)
      OBVIOUS
    <3>4. /\ cached' = Lookups!StoreAll("cookie", usable)
          /\ lookups' = Append(lookups, [op |-> "fill", name |-> "cookie"])
      BY <2>2, <3>1, <3>3 DEF Lookups!cookie_parser, Lookups!Called
    <3>5. usable \in Seq(Lookups!Pairs)
      BY <3>2, <3>3, UsableTyped
    <3>6. \A name \in LookupNames : \A value :
             Says(usable, name, value) => Says(Lookups!PairsOf("cookie"), name, value)
      BY <3>2, <3>3, UsableSays
    <3> QED
      BY <1>1, <3>4, <3>5, <3>6, FillingSays
  <2>3. CASE Lookups!cookie_parser /\ sent.cookie \in {Lookups!None, Lookups!Some(Lookups!Opaque)}
    <3>1. UNCHANGED cached /\ lookups' = Append(lookups, [op |-> "fill", name |-> "cookie"])
      BY <2>3 DEF Lookups!cookie_parser, Lookups!Called
    <3>2. \A s \in {"cookie", "query"} : HasRun(s)' <=> HasRun(s) \/ s = "cookie"
      BY <3>1, HasRunAfter DEF CallTypes, Lookups!Scopes
    <3>3. Lookups!PairsOf("cookie") = <<>>
      BY <2>3 DEF Lookups!PairsOf
    <3>4. \A s \in {"cookie", "query"} : Lookups!PairsOf(s)' = Lookups!PairsOf(s)
      BY <1>1 DEF Lookups!PairsOf
    <3>5. \A name \in LookupNames : Says(<<>>, name, {})
      BY DEF Says, NoHit
    <3>6. ASSUME NEW s \in {"cookie", "query"}, NEW name \in LookupNames
          PROVE  IF HasRun(s)' THEN Says(Lookups!PairsOf(s), name, cached[s][name])
                 ELSE cached[s][name] = {}
      <4>1. CASE HasRun(s) <=> HasRun(s)'
        BY <4>1 DEF StoreSays
      <4>2. CASE s = "cookie" /\ ~HasRun(s) /\ HasRun(s)'
        BY <3>3, <3>5, <4>2 DEF StoreSays
      <4> QED
        BY <3>2, <4>1, <4>2
    <3> QED
      BY <3>1, <3>4, <3>6 DEF StoreSays
  <2>4. CASE Lookups!Route
    <3>1. PICK n \in LookupNames : cached' = Lookups!Insert(cached, "router", n, "param")
      BY <2>4 DEF Lookups!Route
    <3>2. cached["router"] \in [LookupNames -> SUBSET Strings]
      BY DEF Maps, Lookups!Scopes
    <3>3. [cached["router"] EXCEPT ![n] = {"param"}] \in [LookupNames -> SUBSET Strings]
      <4>1. "param" \in Strings
        BY DEF Strings
      <4> QED
        BY ONLY <3>2, <4>1
    <3>4. cached' = [cached EXCEPT !["router"] = [cached["router"] EXCEPT ![n] = {"param"}]]
      BY <3>1 DEF Lookups!Insert, Lookups!Some
    <3>5. cached' \in Maps
      BY <3>3, <3>4 DEF Maps
    <3>6. \A s \in {"cookie", "query"} : cached'[s] = cached[s]
      BY <3>4 DEF Maps, Lookups!Scopes
    <3>7. lookups' = Append(lookups, [op |-> "fill", name |-> "router"])
      BY <2>4 DEF Lookups!Route, Lookups!Called
    <3>8. \A s \in {"cookie", "query"} : HasRun(s)' <=> HasRun(s)
      BY <3>7, HasRunAfter DEF CallTypes, Lookups!Scopes
    <3>9. \A s \in {"cookie", "query"} : Lookups!PairsOf(s)' = Lookups!PairsOf(s)
      BY <1>1 DEF Lookups!PairsOf
    <3> QED
      BY <3>5, <3>6, <3>8, <3>9 DEF StoreSays
  <2> QED
    BY <2>1, <2>2, <2>3, <2>4
<1> QED
  BY <1>1, <1>2, <1>3, <1>4 DEF Lookups!LookupsAsSent

(* What is said of a name, as the property says it.                        *)
LastValues(pairs, name) ==
    LET hits == {i \in DOMAIN pairs : Hit(pairs, name, i)}
    IN  {pairs[i].value : i \in {j \in hits : \A k \in hits : k <= j}}

(* There is one last pair at most.                                         *)
LEMMA SaysIsLast ==
  ASSUME NEW pairs \in Seq(Lookups!Pairs), NEW name, NEW value, Says(pairs, name, value)
  PROVE  value = LastValues(pairs, name)
<1>1. PICK n : n = Len(pairs)
  OBVIOUS
<1>2. n \in Nat /\ DOMAIN pairs = 1 .. n
  BY <1>1
<1>3. PICK hits : hits = {i \in DOMAIN pairs : Hit(pairs, name, i)}
  OBVIOUS
<1>4. PICK last : last = {j \in hits : \A k \in hits : k <= j}
  OBVIOUS
<1>5. LastValues(pairs, name) = {pairs[i].value : i \in last}
  BY <1>3, <1>4 DEF LastValues
<1>6. CASE NoHit(pairs, name, n) /\ value = {}
  <2>1. last = {}
    BY <1>2, <1>3, <1>4, <1>6 DEF NoHit
  <2> QED
    BY <1>5, <1>6, <2>1
<1>7. ASSUME NEW i \in 1 .. n, IsLast(pairs, name, n, i), value = {pairs[i].value}
      PROVE  value = LastValues(pairs, name)
  <2>1. i \in hits /\ \A k \in hits : k <= i /\ k \in 1 .. n
    BY <1>2, <1>3, <1>7 DEF IsLast
  <2>2. i \in last
    BY <1>4, <2>1
  <2>3. \A j \in last : j = i
    BY <1>4, <2>1
  <2> QED
    BY <1>5, <1>7, <2>2, <2>3
<1> QED
  BY <1>1, <1>6, <1>7 DEF Says

(* cookie, query and their must_ forms find what the scope has been told.  *)
LEMMA FoundIsLast ==
  ASSUME LookupTypes, StoreSays, UNCHANGED sent,
         NEW scope \in Lookups!Scopes, NEW name \in LookupNames,
         got' = [call |-> scope, name |-> name, value |-> cached[scope][name], after |-> lookups]
  PROVE  Lookups!LastPairOfItsScope'
<1>1. CASE scope \in {"cookie", "query"}
  <2>1. PICK pairs : pairs = Lookups!PairsOf(scope)
    OBVIOUS
  <2>2. pairs \in Seq(Lookups!Pairs)
    <3>1. CASE scope = "query"
      BY <2>1, <3>1, Assumptions DEF Lookups!RequestsAssumption, Lookups!PairsOf, LookupTypes
    <3>2. CASE scope = "cookie" /\ sent.cookie \in {Lookups!None, Lookups!Some(Lookups!Opaque)}
      BY <2>1, <3>2 DEF Lookups!PairsOf
    <3>3. CASE scope = "cookie" /\ ~(sent.cookie \in {Lookups!None, Lookups!Some(Lookups!Opaque)})
      <4>1. sent.cookie # {} /\ pairs = CHOOSE p \in sent.cookie : TRUE
        BY <2>1, <3>3 DEF Lookups!None, Lookups!PairsOf
      <4>2. pairs \in sent.cookie
        BY <4>1
      <4> QED
        BY <4>2, Assumptions DEF Lookups!RequestsAssumption, LookupTypes
    <3> QED
      BY <1>1, <3>1, <3>2, <3>3
  <2>3. PICK value : value = cached[scope][name]
    OBVIOUS
  <2>4. value = IF HasRun(scope) THEN LastValues(pairs, name) ELSE {}
    BY <1>1, <2>1, <2>2, <2>3, SaysIsLast DEF StoreSays
  <2>5. /\ got'.call = scope /\ got'.name = name /\ got'.value = value /\ got'.after = lookups
        /\ Lookups!PairsOf(scope)' = pairs
    BY <2>1, <2>3 DEF Lookups!PairsOf
  <2>6. Lookups!Ran(scope)' <=> HasRun(scope)
    BY <2>5 DEF Lookups!Ran, HasRun
  <2> QED
    BY <2>4, <2>5, <2>6 DEF Lookups!LastPairOfItsScope, LastValues, Hit, Lookups!None
<1>2. CASE scope \notin {"cookie", "query"}
  BY <1>2 DEF Lookups!LastPairOfItsScope
<1> QED
  BY <1>1, <1>2

(* The first forwarded address is the first that parses.                   *)
LEMMA ClientIpIs ==
  ASSUME LookupTypes, UNCHANGED sent,
         got'.call = "client_ip", got'.value = Lookups!Some(Lookups!client_ip)
  PROVE  Lookups!ClientIpIsAddress'
<1>1. PICK header_ : header_ = sent.xfor
  OBVIOUS
<1>2. PICK ips : ips = IF header_ \in {{}, {<<>>}} THEN <<>> ELSE CHOOSE v \in header_ : TRUE
  OBVIOUS
<1>3. PICK good : good = Lookups!ToSet(ips) \ {"bad"}
  OBVIOUS
<1>4. PICK r : r = Only(ips, good)
  OBVIOUS
<1>5. \A v \in header_ : v \in Seq(STRING) /\ header_ = {v}
  BY <1>1, Assumptions DEF LookupTypes, Lookups!RequestsAssumption, Lookups!Some
<1>6. ips \in Seq(STRING)
  <2>1. CASE header_ \in {{}, {<<>>}}
    BY <1>2, <2>1
  <2>2. CASE ~(header_ \in {{}, {<<>>}})
    <3>1. header_ # {} /\ ips = CHOOSE v \in header_ : TRUE
      BY <1>2, <2>2
    <3>2. ips \in header_
      BY <3>1
    <3> QED
      BY <1>5, <3>2
  <2> QED
    BY <2>1, <2>2
<1>7. Lookups!forwarded_ips = r
  <2>1. Lookups!get("xfor") = header_ \ {<<>>}
    BY <1>1 DEF Lookups!get, Lookups!Text, Lookups!Opaque
  <2>2. CASE header_ \in {{}, {<<>>}}
    BY <1>2, <1>4, <2>1, <2>2, OnlyOfNone DEF Lookups!forwarded_ips, Lookups!None
  <2>3. CASE ~(header_ \in {{}, {<<>>}})
    <3>1. header_ \ {<<>>} = header_ /\ header_ # {}
      BY <1>5, <2>3
    <3> QED
      BY <1>2, <1>3, <1>4, <2>1, <2>3, <3>1, SameOnly DEF Lookups!forwarded_ips, Lookups!None
  <2> QED
    BY <2>2, <2>3
<1>8. PICK f : Picks(f, r, ips, good)
  BY <1>4, <1>6, OnlyIs
<1>9. r \in Seq(STRING)
  BY <1>4, <1>6, OnlyTyped
<1>10. PICK good_at : good_at = {i \in DOMAIN ips : ips[i] # "bad"}
  OBVIOUS
<1>11. \A j \in DOMAIN ips : j \in good_at <=> \E i \in DOMAIN r : f[i] = j
  BY <1>3, <1>8, <1>10 DEF Picks, Lookups!ToSet
<1>12. PICK value : value = Lookups!Some(Lookups!client_ip)
  OBVIOUS
<1>13. value = {IF r = <<>> THEN sent.remote ELSE r[1]}
  BY <1>7, <1>12 DEF Lookups!client_ip, Lookups!Some
<1>14. IF good_at = {} THEN value = {sent.remote}
       ELSE \E i \in good_at : value = {ips[i]} /\ \A k \in good_at : i <= k
  <2>1. CASE r = <<>>
    <3>1. DOMAIN r = {}
      BY <2>1
    <3>2. good_at = {}
      BY <1>10, <1>11, <3>1
    <3> QED
      BY <1>13, <2>1, <3>2
  <2>2. CASE r # <<>>
    <3>1. PICK m : m = Len(r)
      OBVIOUS
    <3>2. m \in Nat \ {0} /\ DOMAIN r = 1 .. m /\ 1 \in 1 .. m
      BY <1>9, <2>2, <3>1, EmptySeq
    <3>3. PICK n : n = Len(ips)
      OBVIOUS
    <3>4. /\ n \in Nat /\ DOMAIN ips = 1 .. n /\ \A i \in 1 .. m : f[i] \in 1 .. n
      BY <1>6, <1>8, <3>2, <3>3 DEF Picks
    <3>9. r[1] = ips[f[1]] /\ \A i \in 1 .. m : 1 < i => f[1] < f[i]
      BY <1>8, <3>2 DEF Picks
    <3>5. f[1] \in good_at
      BY <1>11, <3>2, <3>4, <3>9
    <3>6. ASSUME NEW k \in good_at PROVE f[1] <= k
      <4>1. PICK i \in 1 .. m : f[i] = k
        BY <1>10, <1>11, <3>2
      <4>2. i = 1 \/ 1 < i
        BY <3>2, <4>1
      <4>3. CASE i = 1
        BY <3>2, <3>4, <4>1, <4>3
      <4>4. CASE 1 < i
        BY <3>2, <3>4, <3>9, <4>1, <4>4
      <4> QED
        BY <4>2, <4>3, <4>4
    <3>7. value = {ips[f[1]]}
      BY <1>13, <2>2, <3>9
    <3> QED
      BY <3>5, <3>6, <3>7
  <2> QED
    BY <2>1, <2>2
<1>15. sent'.xfor = header_ /\ sent'.remote = sent.remote /\ got'.value = value
  BY <1>1, <1>12
<1>16. ips = IF sent'.xfor \in {{}, {<<>>}} THEN <<>> ELSE CHOOSE v \in sent'.xfor : TRUE
  BY <1>2, <1>15
<1>17. /\ good_at = {} => got'.value = {sent'.remote}
       /\ good_at # {} => \E i \in good_at : got'.value = {ips[i]} /\ \A k \in good_at : i <= k
  BY <1>14, <1>15
<1> QED
  BY ONLY <1>10, <1>16, <1>17
  DEF Lookups!ClientIpIsAddress, Lookups!None, Lookups!Some, Lookups!Opaque

(* The lookups tell what the request says.                                 *)
LEMMA AnsweringSteps ==
  ASSUME LookupInv,
         \/ \E n \in LookupNames : Lookups!must_cookie(n) \/ Lookups!must_query(n)
         \/ \E s \in Lookups!Scopes, n \in LookupNames : Lookups!load(s, n)
         \/ \E h \in {"host", "xhost"} : Lookups!must_get(h)
         \/ Lookups!Forward
  PROVE  LookupInv'
<1> USE DEF LookupInv
<1>1. PICK call, name, value : Lookups!Answer(call, name, value)
  BY DEF Lookups!must_cookie, Lookups!must_query, Lookups!load, Lookups!must_get, Lookups!Forward
<1>2. /\ UNCHANGED <<sent, cached, lookups>>
      /\ added'.cookies = added.cookies /\ DOMAIN added' = DOMAIN added
  <2>1. ASSUME NEW n \in LookupNames, Lookups!must_cookie(n)
        PROVE  added'.cookies = added.cookies /\ DOMAIN added' = DOMAIN added
    <3>1. PICK challenge_ : challenge_ = Lookups!Challenge(n)
      OBVIOUS
    <3>2. added' = added \/ added' = [added EXCEPT !.challenge = challenge_]
      BY <2>1, <3>1 DEF Lookups!must_cookie
    <3> QED
      BY <3>2 DEF LookupTypes
  <2>2. UNCHANGED <<sent, cached, lookups>>
    BY <1>1 DEF Lookups!Answer
  <2>3. \/ UNCHANGED added
        \/ \E n \in LookupNames : Lookups!must_cookie(n)
    BY DEF Lookups!must_query, Lookups!load, Lookups!must_get, Lookups!Forward, Lookups!Throw
  <2> QED
    BY <2>1, <2>2, <2>3
<1>3. LookupTypes' /\ StoreSays' /\ Lookups!CookiesKept'
  <2>1. \A s : HasRun(s)' <=> HasRun(s)
    BY <1>2 DEF HasRun
  <2>2. \A s : Lookups!PairsOf(s)' = Lookups!PairsOf(s)
    BY <1>2 DEF Lookups!PairsOf
  <2>3. StoreSays'
    BY <1>2, <2>1, <2>2 DEF StoreSays
  <2> QED
    BY <1>2, <2>3 DEF LookupTypes, Lookups!LookupsAsSent, Lookups!CookiesKept
<1>4. ASSUME NEW n \in LookupNames, Lookups!must_cookie(n)
      PROVE  LookupInv'
  <2>1. got' = [call |-> "cookie", name |-> n, value |-> cached["cookie"][n], after |-> lookups]
    BY <1>4 DEF Lookups!must_cookie, Lookups!Answer
  <2>2. Lookups!LastPairOfItsScope'
    BY <1>2, <2>1, FoundIsLast DEF Lookups!Scopes
  <2>3. Lookups!ChallengeNamesCookie'
    <3>1. got'.name = n /\ got'.value = cached["cookie"][n]
      BY <2>1
    <3>2. \/ fate' = "ok"
          \/ cached["cookie"][n] = Lookups!None /\ added'.challenge = Lookups!Some(n)
      <4>1. CASE cached["cookie"][n] # Lookups!None /\ UNCHANGED <<fate, added>>
        BY <1>4, <4>1 DEF Lookups!must_cookie, Lookups!MayCall
      <4>2. CASE cached["cookie"][n] = Lookups!None
                 /\ added' = [added EXCEPT !.challenge = Lookups!Challenge(n)]
        <5>1. added'.challenge = Lookups!Some(n)
          BY <4>2 DEF Lookups!Challenge, LookupTypes
        <5> QED
          BY <4>2, <5>1
      <4> QED
        BY <1>4, <4>1, <4>2 DEF Lookups!must_cookie
    <3> QED
      BY <3>1, <3>2 DEF Lookups!ChallengeNamesCookie
  <2> QED
    BY <1>3, <2>1, <2>2, <2>3
    DEF Lookups!LookupsAsSent, Lookups!ClientIpIsAddress, Lookups!HostFallsBack
<1>5. CASE \E n \in LookupNames : Lookups!must_query(n)
  <2>1. PICK n \in LookupNames : Lookups!must_query(n)
    BY <1>5
  <2>2. got' = [call |-> "query", name |-> n, value |-> cached["query"][n], after |-> lookups]
    BY <2>1 DEF Lookups!must_query, Lookups!Answer
  <2>3. fate' # "401"
    BY <2>1 DEF Lookups!must_query, Lookups!Throw, Lookups!MayCall
  <2>4. Lookups!LastPairOfItsScope'
    BY <1>2, <2>2, FoundIsLast DEF Lookups!Scopes
  <2> QED
    BY <1>3, <2>2, <2>3, <2>4
    DEF Lookups!LookupsAsSent, Lookups!ClientIpIsAddress, Lookups!HostFallsBack, Lookups!ChallengeNamesCookie
<1>6. CASE \E s \in Lookups!Scopes, n \in LookupNames : Lookups!load(s, n)
  <2>1. PICK s \in Lookups!Scopes, n \in LookupNames : Lookups!load(s, n)
    BY <1>6
  <2>2. got' = [call |-> s, name |-> n, value |-> cached[s][n], after |-> lookups]
    BY <2>1 DEF Lookups!load, Lookups!Answer
  <2>3. fate' # "401" /\ got'.call \notin {"host", "client_ip"}
    BY <2>1, <2>2 DEF Lookups!load, Lookups!MayCall, Lookups!Scopes
  <2>4. Lookups!LastPairOfItsScope'
    BY <1>2, <2>2, FoundIsLast
  <2> QED
    BY <1>3, <2>3, <2>4
    DEF Lookups!LookupsAsSent, Lookups!ClientIpIsAddress, Lookups!HostFallsBack, Lookups!ChallengeNamesCookie
<1>7. CASE \E h \in {"host", "xhost"} : Lookups!must_get(h)
  <2>1. got'.call = "header" /\ fate' # "401"
    BY <1>7 DEF Lookups!must_get, Lookups!Answer, Lookups!Throw, Lookups!MayCall
  <2> QED
    BY <1>3, <2>1
    DEF Lookups!LookupsAsSent, Lookups!ClientIpIsAddress, Lookups!HostFallsBack, Lookups!ChallengeNamesCookie,
        Lookups!LastPairOfItsScope
<1>8. CASE Lookups!Forward
  <2>1. fate' # "401"
    BY <1>8 DEF Lookups!Forward, Lookups!MayCall
  <2>2. CASE Lookups!Answer("host", "host", Lookups!host)
    <3>1. got'.call = "host" /\ got'.value = Lookups!host
      BY <2>2 DEF Lookups!Answer
    <3>2. Lookups!host = {} => sent.host \in {{}, {<<>>}}
      <4>1. PICK hosts : hosts = sent.host
        OBVIOUS
      <4>2. Lookups!get("host") = hosts \ {<<>>}
        BY <4>1 DEF Lookups!get, Lookups!Text, Lookups!Opaque
      <4>3. Lookups!host = {} => Lookups!get("host") = {}
        BY DEF Lookups!host, Lookups!OrElse, Lookups!None
      <4>4. hosts \ {<<>>} = {} => hosts \in {{}, {<<>>}}
        OBVIOUS
      <4> QED
        BY <4>1, <4>2, <4>3, <4>4
    <3>3. Lookups!HostFallsBack'
      BY <1>2, <3>1, <3>2 DEF Lookups!HostFallsBack, Lookups!None, Lookups!Some, Lookups!Opaque
    <3> QED
      BY <1>3, <2>1, <3>1, <3>3
      DEF Lookups!LookupsAsSent, Lookups!ClientIpIsAddress, Lookups!ChallengeNamesCookie,
          Lookups!LastPairOfItsScope
  <2>3. CASE Lookups!Answer("client_ip", "client_ip", Lookups!Some(Lookups!client_ip))
    <3>1. got'.call = "client_ip" /\ got'.value = Lookups!Some(Lookups!client_ip)
      BY <2>3 DEF Lookups!Answer
    <3>2. Lookups!ClientIpIsAddress'
      BY <1>2, <3>1, ClientIpIs
    <3> QED
      BY <1>3, <2>1, <3>1, <3>2
      DEF Lookups!LookupsAsSent, Lookups!HostFallsBack, Lookups!ChallengeNamesCookie,
          Lookups!LastPairOfItsScope
  <2> QED
    BY <1>8, <2>2, <2>3 DEF Lookups!Forward
<1> QED
  BY <1>4, <1>5, <1>6, <1>7, <1>8

(* A cookie that is set stands behind those set before.                    *)
LEMMA SettingSteps ==
  ASSUME LookupInv, NEW name \in LookupNames, Lookups!set_cookie(name)
  PROVE  LookupInv'
<1> USE DEF LookupInv
<1>1. /\ UNCHANGED <<sent, cached, fate>> /\ fate = "ok" /\ got' = Lookups!NoAnswer
      /\ lookups' = Append(lookups, [op |-> "set_cookie", name |-> name])
      /\ added'.cookies = Append(added.cookies, name) /\ DOMAIN added' = DOMAIN added
  BY DEF LookupTypes, Lookups!set_cookie, Lookups!MayCall, Lookups!Called, Lookups!Cookies
<1>2. PICK call : call = [op |-> "set_cookie", name |-> name]
  OBVIOUS
<1>3. call \in CallTypes /\ call \in Settings
  BY <1>2 DEF CallTypes, Settings
<1>4. PICK old : old = lookups
  OBVIOUS
<1>5. old \in Seq(CallTypes) /\ lookups' = Append(old, call)
  BY <1>1, <1>2, <1>4 DEF LookupTypes
<1>6. LookupTypes'
  BY <1>1, <1>3, <1>5 DEF LookupTypes
<1>7. StoreSays'
  <2>1. \A s \in {"cookie", "query"} : HasRun(s)' <=> HasRun(s)
    <3>1. PICK n : n = Len(old)
      OBVIOUS
    <3>2. /\ n \in Nat /\ DOMAIN old = 1 .. n /\ DOMAIN lookups' = 1 .. n + 1
          /\ lookups'[n + 1] = call /\ \A i \in 1 .. n : lookups'[i] = old[i]
      BY <1>5, <3>1
    <3>3. \A s : call # [op |-> "fill", name |-> s]
      BY <1>2
    <3>4. \A i \in 1 .. n + 1 : i \in 1 .. n \/ i = n + 1
      BY <3>2
    <3>5. \A i \in 1 .. n : i \in 1 .. n + 1
      BY <3>2
    <3> QED
      BY <1>4, <3>2, <3>3, <3>4, <3>5 DEF HasRun
  <2>2. \A s : Lookups!PairsOf(s)' = Lookups!PairsOf(s)
    BY <1>1 DEF Lookups!PairsOf
  <2> QED
    BY <1>1, <2>1, <2>2 DEF StoreSays
<1>8. Lookups!CookiesKept'
  <2>1. PICK set : set = Only(old, Settings)
    OBVIOUS
  <2>2. PICK new : new = Only(Append(old, call), Settings)
    OBVIOUS
  <2>3. new = Append(set, call)
    BY <1>3, <1>5, <2>1, <2>2, OnlyAppend
  <2>4. set \in Seq(CallTypes)
    BY <1>5, <2>1, OnlyTyped
  <2>5. PICK cookies : cookies = added.cookies
    OBVIOUS
  <2>6. cookies = [i \in DOMAIN set |-> set[i].name]
    BY <1>4, <2>1, <2>5, SameOnly DEF LookupInv, Lookups!LookupsAsSent, Lookups!CookiesKept, Settings
  <2>7. PICK n : n = Len(set)
    OBVIOUS
  <2>8. /\ n \in Nat /\ DOMAIN set = 1 .. n /\ DOMAIN new = 1 .. n + 1
        /\ new[n + 1] = call /\ \A i \in 1 .. n : new[i] = set[i]
    BY <1>3, <2>3, <2>4, <2>7
  <2>9. Append(cookies, name) = [i \in DOMAIN new |-> new[i].name]
    <3>1. Len(cookies) = n
      BY <2>6, <2>8
    <3>2. Append(cookies, name) = [i \in 1 .. n + 1 |-> IF i = n + 1 THEN name ELSE cookies[i]]
      BY <2>6, <2>8, <3>1
    <3>3. \A i \in 1 .. n + 1 : i \in 1 .. n \/ i = n + 1
      BY <2>8
    <3>4. call.name = name
      BY <1>2
    <3>5. \A i \in 1 .. n + 1 : (IF i = n + 1 THEN name ELSE cookies[i]) = new[i].name
      BY <2>6, <2>8, <3>3, <3>4
    <3> QED
      BY <2>8, <3>2, <3>5
  <2>10. new = Lookups!Only(lookups', Settings)
    BY <1>5, <2>2, SameOnly
  <2>11. Lookups!CookiesKept' <=> added'.cookies = [i \in DOMAIN new |-> new[i].name]
    BY <2>10 DEF Lookups!CookiesKept, Settings
  <2> QED
    BY <1>1, <2>5, <2>9, <2>11
<1> QED
  BY <1>1, <1>6, <1>7, <1>8
  DEF Lookups!LookupsAsSent, Lookups!LastPairOfItsScope, Lookups!ClientIpIsAddress,
      Lookups!HostFallsBack, Lookups!ChallengeNamesCookie

(* Whatever the layers call, what is found and set is as the request and   *)
(* the calls say.                                                          *)
LEMMA LookupSteps ==
  ASSUME LookupInv, [Lookups!Next]_(Lookups!vars)
  PROVE  LookupInv'
<1>1. CASE Lookups!cookie_parser \/ Lookups!query_parser \/ Lookups!Route
  BY <1>1, FillingSteps
<1>2. CASE \/ \E n \in LookupNames : Lookups!must_cookie(n) \/ Lookups!must_query(n)
           \/ \E s \in Lookups!Scopes, n \in LookupNames : Lookups!load(s, n)
           \/ \E h \in {"host", "xhost"} : Lookups!must_get(h)
           \/ Lookups!Forward
  BY <1>2, AnsweringSteps
<1>3. CASE \E n \in LookupNames : Lookups!set_cookie(n)
  BY <1>3, SettingSteps
<1>4. CASE \/ Lookups!parse \/ Lookups!Recover \/ UNCHANGED Lookups!vars
  <2>1. UNCHANGED <<sent, cached, added, got, lookups>> /\ (fate' # "401" \/ fate' = fate)
    BY <1>4 DEF Lookups!parse, Lookups!Recover, Lookups!Throw, Lookups!vars
  <2>2. \A s : HasRun(s)' <=> HasRun(s)
    BY <2>1 DEF HasRun
  <2>3. \A s : (Lookups!PairsOf(s)' = Lookups!PairsOf(s)) /\ (Lookups!Ran(s)' <=> Lookups!Ran(s))
    BY <2>1 DEF Lookups!PairsOf, Lookups!Ran
  <2>4. StoreSays'
    BY <2>1, <2>2, <2>3 DEF LookupInv, StoreSays
  <2>5. Lookups!LastPairOfItsScope' /\ Lookups!ChallengeNamesCookie'
    BY <2>1, <2>3
    DEF LookupInv, Lookups!LookupsAsSent, Lookups!LastPairOfItsScope, Lookups!ChallengeNamesCookie
  <2>6. Lookups!ClientIpIsAddress' /\ Lookups!HostFallsBack' /\ Lookups!CookiesKept'
    BY <2>1
    DEF LookupInv, Lookups!LookupsAsSent, Lookups!ClientIpIsAddress, Lookups!HostFallsBack,
        Lookups!CookiesKept
  <2> QED
    BY <2>1, <2>4, <2>5, <2>6 DEF LookupInv, LookupTypes, Lookups!LookupsAsSent
<1> QED
  BY <1>1, <1>2, <1>3, <1>4 DEF Lookups!Next

(* For any requests, names and calls: a cookie or a query variable is the  *)
(* last valid pair of its name and absent until its parser has run, the    *)
(* client address is the first address that parses, a 401 names the cookie *)
(* that was missing, and every cookie set is sent, in order.               *)
THEOREM LookupsFindWhatWasSent == Spec => []LookupsAsSent
<1> DEFINE Inv == part = "extensions" => LookupInv
<1>1. Init => Inv
  <2> SUFFICES ASSUME Lookups!Init PROVE LookupInv
    BY DEF Init
  <2>1. /\ sent \in Sent /\ lookups = <<>> /\ fate = "ok" /\ got = Lookups!NoAnswer
        /\ cached = [s \in Lookups!Scopes |-> [n \in LookupNames |-> {}]] /\ added.cookies = <<>>
    BY DEF Lookups!Init, Lookups!None
  <2>2. LookupTypes
    <3>1. cached \in Maps
      BY <2>1 DEF Maps
    <3> QED
      BY <2>1, <3>1 DEF LookupTypes, Lookups!Init
  <2>3. StoreSays
    BY <2>1 DEF StoreSays, HasRun, Lookups!Scopes
  <2>4. Lookups!CookiesKept
    <3>1. Lookups!Only(lookups, Settings) = <<>>
      BY <2>1, SameOnly, OnlyOfNone
    <3>2. <<>> = [i \in DOMAIN <<>> |-> <<>>[i].name]
      OBVIOUS
    <3> QED
      BY <2>1, <3>1, <3>2 DEF Lookups!CookiesKept, Settings
  <2> QED
    BY <2>1, <2>2, <2>3, <2>4
    DEF LookupInv, Lookups!LookupsAsSent, Lookups!LastPairOfItsScope, Lookups!ClientIpIsAddress,
        Lookups!HostFallsBack, Lookups!ChallengeNamesCookie
<1>2. Inv /\ [Next]_vars => Inv'
  BY PartsApart, LookupSteps
<1>3. Inv => LookupsAsSent
  BY DEF LookupInv, LookupsAsSent
<1> QED
  BY <1>1, <1>2, <1>3, PTL DEF Spec

-----------------------------------------------------------------------------
(* The characters of paths.  No prover knows a member of STRING, so those  *)
(* that the code writes itself are named.                                  *)
Letters == STRING \cup {"/", ":"}

PathPieces == [kind : {"char", "colon", "star"}, name : Seq(Letters)]

(* Matching.  A cut says where in the text every part of a pattern ends.   *)
PatternParts == [group : {"any", "segment", "none", "end"}, name : Seq(Letters), rest : Seq(Letters)]

IsGroup(p) == p.group \in {"segment", "any"}

(* A part takes the text from a to b, its group up to its rest.            *)
Goes(p, s, a, b) ==
  \/ p.group = "end" /\ a = Len(s) /\ b = a
  \/ p.group = "none" /\ b = a + Len(p.rest) /\ Matcher!Reads(s, a, p.rest)
  \/ /\ IsGroup(p) /\ b - Len(p.rest) \in a + 1 .. Len(s)
     /\ \A m \in a + 1 .. b - Len(p.rest) : s[m] \notin Matcher!Refused(p.group)
     /\ Matcher!Reads(s, b - Len(p.rest), p.rest)

Value(p, s, a, b) == SubSeq(s, a + 1, b - Len(p.rest))

Ways(s) == [taken : 0 .. Len(s), values : Seq(Seq(Letters))]

(* A way is extended by every place at which the part can end.             *)
LEMMA ExtendedIs ==
  ASSUME NEW s \in Seq(Letters), NEW w \in Ways(s), NEW p \in PatternParts, NEW v
  PROVE  v \in Matcher!Extended(w, p, s) <=>
           \E b \in 0 .. Len(s) :
              /\ Goes(p, s, w.taken, b)
              /\ v = Matcher!Way(b, IF IsGroup(p) THEN Append(w.values, Value(p, s, w.taken, b))
                                    ELSE w.values)
<1> DEFINE a == w.taken
           r == Len(p.rest)
<1>1. a \in 0 .. Len(s) /\ r \in Nat /\ Len(s) \in Nat /\ p.group \in {"any", "segment", "none", "end"}
      /\ w = Matcher!Way(a, w.values)
  BY DEF Ways, PatternParts, Matcher!Way
<1> HIDE DEF a, r
<1>2. CASE p.group = "end"
  <2>1. v \in Matcher!Extended(w, p, s) <=> v = w /\ a = Len(s)
    BY <1>2 DEF Matcher!Extended, a
  <2> QED
    BY <1>1, <1>2, <2>1 DEF Goes, IsGroup, a
<1>3. CASE p.group = "none"
  <2>1. v \in Matcher!Extended(w, p, s) <=>
          v = Matcher!Way(a + r, w.values) /\ Matcher!Reads(s, a, p.rest)
    BY <1>3 DEF Matcher!Extended, a, r
  <2>2. Matcher!Reads(s, a, p.rest) => a + r \in 0 .. Len(s)
    BY <1>1 DEF Matcher!Reads, r
  <2> QED
    BY <1>1, <1>3, <2>1, <2>2 DEF Goes, IsGroup, a, r
<1>4. CASE IsGroup(p)
  <2> DEFINE Stops(k) == /\ \A m \in a + 1 .. k : s[m] \notin Matcher!Refused(p.group)
                        /\ Matcher!Reads(s, k, p.rest)
  <2>1. v \in Matcher!Extended(w, p, s) <=>
          \E k \in a + 1 .. Len(s) :
            Stops(k) /\ v = Matcher!Way(k + r, Append(w.values, SubSeq(s, a + 1, k)))
    <3>1. p.group # "end" /\ p.group # "none"
      BY <1>4 DEF IsGroup
    <3> QED
      BY <3>1, Zenon DEF Matcher!Extended, a, r
  <2>2. \A b : Goes(p, s, a, b) <=> b - r \in a + 1 .. Len(s) /\ Stops(b - r)
    BY <1>4 DEF Goes, IsGroup, r
  <2>3. \A k \in a + 1 .. Len(s) : Stops(k) => k + r \in 0 .. Len(s) /\ (k + r) - r = k
    BY <1>1 DEF Matcher!Reads, r
  <2>4. \A b \in 0 .. Len(s) : (b - r) + r = b
    BY <1>1
  <2> HIDE DEF Stops
  <2>5. ASSUME NEW k \in a + 1 .. Len(s), Stops(k),
               v = Matcher!Way(k + r, Append(w.values, SubSeq(s, a + 1, k)))
        PROVE  \E b \in 0 .. Len(s) :
                  Goes(p, s, a, b) /\ v = Matcher!Way(b, Append(w.values, SubSeq(s, a + 1, b - r)))
    <3>1. PICK b : b = k + r
      OBVIOUS
    <3>2. b \in 0 .. Len(s) /\ b - r = k
      BY <2>3, <2>5, <3>1
    <3> QED
      BY <2>2, <2>5, <3>1, <3>2
  <2>6. ASSUME NEW b \in 0 .. Len(s), Goes(p, s, a, b),
               v = Matcher!Way(b, Append(w.values, SubSeq(s, a + 1, b - r)))
        PROVE  \E k \in a + 1 .. Len(s) :
                  Stops(k) /\ v = Matcher!Way(k + r, Append(w.values, SubSeq(s, a + 1, k)))
    BY <2>2, <2>4, <2>6
  <2> QED
    BY <1>4, <2>1, <2>5, <2>6 DEF Value, a, r
<1> QED
  BY <1>1, <1>2, <1>3, <1>4 DEF IsGroup

(* What the parts of a pattern have matched, one after the other.          *)
WaysTrace(tr, p, s) ==
  /\ tr[0] = {Matcher!Way(0, <<>>)}
  /\ \A k \in 1 .. Len(p) : tr[k] = UNION {Matcher!Extended(w, p[k], s) : w \in tr[k - 1]}
  /\ Matcher!Splits(p, s) = {w.values : w \in tr[Len(p)]}

(* Such a trace exists.                                                    *)
LEMMA SplitsTrace ==
  ASSUME NEW p, p \in Seq(PatternParts), NEW s \in Seq(Letters)
  PROVE  \E tr \in [0 .. Len(p) -> SUBSET Ways(s)] : WaysTrace(tr, p, s)
<1> DEFINE Grown(ways, k) == UNION {Matcher!Extended(w, p[k], s) : w \in ways}
           base == {Matcher!Way(0, <<>>)}
           IsIt(it) == it = [t \in SUBSET DOMAIN p |->
                               IF t = {} THEN base ELSE Grown(it[t \ {Max(t)}], Max(t))]
           chosen == CHOOSE it : IsIt(it)
<1>1. PICK n : n = Len(p)
  OBVIOUS
<1>2. PICK V : V = SUBSET Ways(s)
  OBVIOUS
<1>3. PICK step : step = [x \in V \X (1 .. n) |-> Grown(x[1], x[2])]
  OBVIOUS
<1>4. n \in Nat /\ DOMAIN p = 1 .. n /\ \A k \in 1 .. n : p[k] \in PatternParts
  BY <1>1
<1>5. ASSUME NEW ways \in V, NEW k \in 1 .. n PROVE Grown(ways, k) \in V
  <2> SUFFICES ASSUME NEW w \in ways, NEW v \in Matcher!Extended(w, p[k], s) PROVE v \in Ways(s)
    BY <1>2
  <2>1. w \in Ways(s) /\ p[k] \in PatternParts
    BY <1>2, <1>4
  <2>2. PICK b \in 0 .. Len(s) : /\ Goes(p[k], s, w.taken, b)
            /\ v = Matcher!Way(b, IF IsGroup(p[k]) THEN Append(w.values, Value(p[k], s, w.taken, b))
                                  ELSE w.values)
    BY <2>1, ExtendedIs
  <2>3. w.values \in Seq(Seq(Letters)) /\ w.taken \in 0 .. Len(s) /\ Len(s) \in Nat
    BY <2>1 DEF Ways
  <2>4. IsGroup(p[k]) => Value(p[k], s, w.taken, b) \in Seq(Letters)
    <3> SUFFICES ASSUME IsGroup(p[k]) PROVE Value(p[k], s, w.taken, b) \in Seq(Letters)
      OBVIOUS
    <3>1. PICK e : e = b - Len(p[k].rest)
      OBVIOUS
    <3>2. e \in w.taken + 1 .. Len(s)
      BY <2>2, <3>1 DEF Goes, IsGroup
    <3>3. SubSeq(s, w.taken + 1, e) \in Seq(Letters)
      BY <2>3, <3>2
    <3> QED
      BY <3>1, <3>3 DEF Value
  <2>5. PICK values : values = IF IsGroup(p[k]) THEN Append(w.values, Value(p[k], s, w.taken, b))
                               ELSE w.values
    OBVIOUS
  <2>6. values \in Seq(Seq(Letters))
    <3>1. PICK x : x = Value(p[k], s, w.taken, b)
      OBVIOUS
    <3>2. IsGroup(p[k]) => Append(w.values, x) \in Seq(Seq(Letters))
      BY ONLY <2>3, <2>4, <3>1
    <3> QED
      BY <2>3, <2>5, <3>1, <3>2
  <2> QED
    BY <2>2, <2>5, <2>6 DEF Ways, Matcher!Way
<1>6. Matcher!Splits(p, s) = {w.values : w \in chosen[DOMAIN p]}
  BY DEF Matcher!Splits, Matcher!FoldLeft, Matcher!MapThenFoldSet, Matcher!Max, Max
<1>7. base \in V
  <2>1. 0 \in 0 .. Len(s) /\ <<>> \in Seq(Seq(Letters))
    OBVIOUS
  <2> QED
    BY <1>2, <2>1 DEF Ways, Matcher!Way
<1> HIDE DEF Grown, base
<1>8. step \in [V \X (1 .. n) -> V] /\ \A v \in V, k \in 1 .. n : step[<<v, k>>] = Grown(v, k)
  BY <1>3, <1>5
<1>9. PICK it : IsFold(it, n, V, base, step)
  BY ONLY <1>4, <1>7, <1>8, FoldExists
<1>10. IsIt(it)
  <2>1. ASSUME NEW t \in SUBSET (1 .. n), t # {}
        PROVE  it[t] = Grown(it[t \ {Max(t)}], Max(t))
    <3>1. Max(t) \in 1 .. n /\ it[t \ {Max(t)}] \in V /\ it[t] = step[<<it[t \ {Max(t)}], Max(t)>>]
      BY <1>9, <2>1 DEF IsFold
    <3> QED
      BY <1>8, <3>1
  <2> QED
    BY <1>4, <1>9, <2>1 DEF IsFold
<1>11. IsIt(chosen)
  BY <1>10
<1>12. PICK g : g = chosen
  OBVIOUS
<1>13. /\ g[{}] = base
       /\ \A t \in SUBSET (1 .. n) : t # {} => g[t] = Grown(g[t \ {Max(t)}], Max(t))
  BY <1>4, <1>11, <1>12
<1>14. Follows(g, n, V, base, step)
  BY <1>8, <1>13 DEF Follows
<1>15. PICK tr : IsTrace(tr, g, n, V, base, step)
  BY ONLY <1>4, <1>7, <1>8, <1>14, FoldSteps
<1>16. \A k \in 1 .. n : tr[k] = Grown(tr[k - 1], k)
  <2> SUFFICES ASSUME NEW k \in 1 .. n PROVE tr[k] = Grown(tr[k - 1], k)
    OBVIOUS
  <2>1. k - 1 \in 0 .. n
    BY <1>4
  <2> QED
    BY <1>8, <1>15, <2>1 DEF IsTrace
<1>17. tr \in [0 .. n -> V] /\ tr[0] = base /\ tr[n] = g[DOMAIN p]
  BY <1>4, <1>15 DEF IsTrace
<1>18. WaysTrace(tr, p, s)
  BY <1>1, <1>6, <1>12, <1>16, <1>17 DEF WaysTrace, Grown, base
<1> QED
  BY <1>1, <1>2, <1>17, <1>18

(* The cuts of a text by the first parts of a pattern, and what its groups *)
(* have of it.                                                             *)
CutTo(c, p, s, k) ==
  /\ c \in [0 .. Len(p) -> 0 .. Len(s)]
  /\ c[0] = 0
  /\ \A i \in 1 .. k : Goes(p[i], s, c[i - 1], c[i])

Grouped(p) == {i \in DOMAIN p : IsGroup(p[i])}

OrderTo(p, k) == Only([i \in 1 .. k |-> i], Grouped(p))

ValuesTo(c, p, s, k) ==
  [j \in DOMAIN OrderTo(p, k) |->
     Value(p[OrderTo(p, k)[j]], s, c[OrderTo(p, k)[j] - 1], c[OrderTo(p, k)[j]])]

(* One part more has one value more if it is a group.                      *)
LEMMA ValuesGrow ==
  ASSUME NEW p, p \in Seq(PatternParts), NEW k \in Nat, k + 1 \in DOMAIN p, NEW c, NEW s
  PROVE  ValuesTo(c, p, s, k + 1) =
           IF IsGroup(p[k + 1]) THEN Append(ValuesTo(c, p, s, k), Value(p[k + 1], s, c[k], c[k + 1]))
           ELSE ValuesTo(c, p, s, k)
<1>1. PICK order, more : order = OrderTo(p, k) /\ more = OrderTo(p, k + 1)
  OBVIOUS
<1>2. order \in Seq(1 .. k)
  BY ONLY k \in Nat, <1>1, PlacesInOrder DEF OrderTo, AreInOrder
<1>3. more = IF IsGroup(p[k + 1]) THEN Append(order, k + 1) ELSE order
  BY <1>1, PlacesGrow DEF OrderTo, Grouped
<1>4. CASE ~IsGroup(p[k + 1])
  BY <1>1, <1>3, <1>4 DEF ValuesTo
<1>5. CASE IsGroup(p[k + 1])
  <2>1. PICK m : m = Len(order)
    OBVIOUS
  <2>2. /\ m \in Nat /\ DOMAIN order = 1 .. m /\ DOMAIN more = 1 .. m + 1
        /\ more[m + 1] = k + 1 /\ \A j \in 1 .. m : more[j] = order[j]
    BY ONLY k \in Nat, <1>2, <1>3, <1>5, <2>1
  <2>3. PICK F : F = [j \in 1 .. k + 1 |-> Value(p[j], s, c[j - 1], c[j])]
    OBVIOUS
  <2>4. PICK v, w : v = ValuesTo(c, p, s, k) /\ w = ValuesTo(c, p, s, k + 1)
    OBVIOUS
  <2>5. /\ \A j \in 1 .. m : order[j] \in 1 .. k + 1
        /\ k + 1 \in 1 .. k + 1 /\ (k + 1) - 1 = k
    BY ONLY k \in Nat, <1>2, <2>2
  <2>6. v = [j \in 1 .. m |-> F[order[j]]]
    BY <1>1, <2>2, <2>3, <2>4, <2>5 DEF ValuesTo
  <2>7. w = [j \in 1 .. m + 1 |-> Value(p[more[j]], s, c[more[j] - 1], c[more[j]])]
    BY <1>1, <2>2, <2>4 DEF ValuesTo
  <2>8. PICK last : last = Value(p[k + 1], s, c[k], c[k + 1])
    OBVIOUS
  <2>9. F[k + 1] = last
    BY <2>3, <2>5, <2>8
  <2>10. \A j \in 1 .. m + 1 : j \in 1 .. m \/ j = m + 1
    BY <2>2
  <2>11. \A j \in 1 .. m + 1 : w[j] = IF j \in 1 .. m THEN v[j] ELSE last
    <3> SUFFICES ASSUME NEW j \in 1 .. m + 1 PROVE w[j] = IF j \in 1 .. m THEN v[j] ELSE last
      OBVIOUS
    <3>1. CASE j \in 1 .. m
      BY <2>2, <2>3, <2>5, <2>6, <2>7, <3>1
    <3>2. CASE j = m + 1 /\ j \notin 1 .. m
      BY <2>2, <2>5, <2>7, <2>8, <3>2
    <3> QED
      BY <2>10, <3>1, <3>2
  <2>12. w = Append(v, last)
    <3>1. PICK E : E = {F[j] : j \in 1 .. k + 1}
      OBVIOUS
    <3>2. v \in Seq(E) /\ Len(v) = m /\ last \in E
      BY <2>2, <2>5, <2>6, <2>9, <3>1
    <3>3. PICK u : u = Append(v, last)
      OBVIOUS
    <3>4. u \in Seq(E) /\ DOMAIN u = 1 .. m + 1 /\ u[m + 1] = last /\ \A j \in 1 .. m : u[j] = v[j]
      BY ONLY <2>2, <3>2, <3>3
    <3>5. u = [j \in 1 .. m + 1 |-> u[j]]
      BY ONLY <3>4
    <3>6. w = [j \in 1 .. m + 1 |-> w[j]]
      BY ONLY <2>7
    <3>7. \A j \in 1 .. m + 1 : u[j] = w[j]
      BY ONLY <2>2, <2>10, <2>11, <3>4
    <3> QED
      BY ONLY <3>3, <3>5, <3>6, <3>7
  <2> QED
    BY <1>5, <2>4, <2>8, <2>12
<1> QED
  BY <1>4, <1>5

(* Only the places up to there matter.                                     *)
LEMMA ValuesSame ==
  ASSUME NEW p, NEW k \in Nat, NEW c, NEW d, \A i \in 0 .. k : c[i] = d[i], NEW s
  PROVE  ValuesTo(c, p, s, k) = ValuesTo(d, p, s, k)
<1>1. PICK order : order = OrderTo(p, k)
  OBVIOUS
<1>2. order \in Seq(1 .. k)
  BY ONLY k \in Nat, <1>1, PlacesInOrder DEF OrderTo, AreInOrder
<1>3. \A j \in DOMAIN order : order[j] \in 0 .. k /\ order[j] - 1 \in 0 .. k
  BY ONLY k \in Nat, <1>2
<1>4. \A j \in DOMAIN order : c[order[j]] = d[order[j]] /\ c[order[j] - 1] = d[order[j] - 1]
  BY <1>3
<1> QED
  BY <1>1, <1>4 DEF ValuesTo

(* The ways to match the first parts are the cuts by them.                 *)
LEMMA WaysAreCuts ==
  ASSUME NEW p, p \in Seq(PatternParts), NEW s \in Seq(Letters),
         NEW tr \in [0 .. Len(p) -> SUBSET Ways(s)], WaysTrace(tr, p, s),
         NEW k \in 0 .. Len(p), NEW v
  PROVE  v \in tr[k] <=> \E c : CutTo(c, p, s, k) /\ v = Matcher!Way(c[k], ValuesTo(c, p, s, k))
<1>1. PICK n : n = Len(p)
  OBVIOUS
<1>2. n \in Nat /\ DOMAIN p = 1 .. n /\ \A i \in 1 .. n : p[i] \in PatternParts
  BY <1>1
<1> DEFINE IsCut(w, i) == \E c : CutTo(c, p, s, i) /\ w = Matcher!Way(c[i], ValuesTo(c, p, s, i))
<1>3. PICK T : T = {i \in 0 .. n : \A w : w \in tr[i] <=> IsCut(w, i)}
  OBVIOUS
<1>4. 0 \in T
  <2>1. \A w : w \in tr[0] <=> w = Matcher!Way(0, <<>>)
    BY DEF WaysTrace
  <2>2. \A c : ValuesTo(c, p, s, 0) = <<>>
    <3>1. OrderTo(p, 0) \in Seq(1 .. 0)
      BY PlacesInOrder DEF OrderTo, AreInOrder
    <3>2. DOMAIN OrderTo(p, 0) = {}
      <4>1. PICK order : order = OrderTo(p, 0)
        OBVIOUS
      <4>2. order = <<>>
        BY ONLY <3>1, <4>1
      <4> QED
        BY <4>1, <4>2
    <3> QED
      BY <3>2 DEF ValuesTo
  <2>3. \A c : CutTo(c, p, s, 0) => c[0] = 0
    BY DEF CutTo
  <2>4. \E c : CutTo(c, p, s, 0)
    <3>1. PICK c : c = [i \in 0 .. Len(p) |-> 0]
      OBVIOUS
    <3>2. c \in [0 .. Len(p) -> 0 .. Len(s)] /\ c[0] = 0 /\ \A i : i \notin 1 .. 0
      BY <1>1, <1>2, <3>1
    <3> QED
      BY <3>2 DEF CutTo
  <2> QED
    BY <1>2, <1>3, <2>1, <2>2, <2>3, <2>4
<1>5. ASSUME NEW i \in 0 .. n - 1, i \in T PROVE i + 1 \in T
  <2>1. i + 1 \in 1 .. n /\ i + 1 \in 0 .. n /\ (i + 1) - 1 = i /\ i \in Nat /\ i \in 0 .. n
    BY <1>2
  <2>2. p[i + 1] \in PatternParts /\ i + 1 \in DOMAIN p
    BY <1>2, <2>1
  <2>3. \A w : w \in tr[i + 1] <=> \E u \in tr[i] : w \in Matcher!Extended(u, p[i + 1], s)
    <3>1. tr[i + 1] = UNION {Matcher!Extended(u, p[i + 1], s) : u \in tr[i]}
      BY <1>1, <2>1 DEF WaysTrace
    <3> QED
      BY <3>1
  <2>4. \A u : u \in tr[i] <=> IsCut(u, i)
    BY <1>3, <1>5
  <2>5. ASSUME NEW w, NEW u \in tr[i], w \in Matcher!Extended(u, p[i + 1], s) PROVE IsCut(w, i + 1)
    <3>1. u \in Ways(s)
      BY <1>1, <2>1
    <3>2. PICK b \in 0 .. Len(s) :
             /\ Goes(p[i + 1], s, u.taken, b)
             /\ w = Matcher!Way(b, IF IsGroup(p[i + 1]) THEN Append(u.values, Value(p[i + 1], s, u.taken, b))
                                   ELSE u.values)
      BY <2>2, <2>5, <3>1, ExtendedIs
    <3>3. PICK c : CutTo(c, p, s, i) /\ u = Matcher!Way(c[i], ValuesTo(c, p, s, i))
      BY <2>4, <2>5
    <3>4. u.taken = c[i] /\ u.values = ValuesTo(c, p, s, i)
      BY <3>3 DEF Matcher!Way
    <3>5. PICK d : d = [c EXCEPT ![i + 1] = b]
      OBVIOUS
    <3>6. /\ d \in [0 .. Len(p) -> 0 .. Len(s)] /\ d[i + 1] = b
          /\ \A j \in 0 .. i : d[j] = c[j] /\ j \in 0 .. Len(p)
      BY <1>1, <2>1, <3>3, <3>5 DEF CutTo
    <3>7. \A j \in 1 .. i + 1 : j = i + 1 \/ (j \in 1 .. i /\ j \in 0 .. i /\ j - 1 \in 0 .. i)
      BY <2>1
    <3>8. CutTo(d, p, s, i + 1)
      <4>1. ASSUME NEW j \in 1 .. i + 1 PROVE Goes(p[j], s, d[j - 1], d[j])
        <5>1. CASE j = i + 1
          <6>1. d[i] = c[i] /\ d[i + 1] = b
            BY <2>1, <3>6
          <6>2. Goes(p[i + 1], s, d[i], d[i + 1])
            BY <3>2, <3>4, <6>1
          <6> QED
            BY <2>1, <5>1, <6>2
        <5>2. CASE j \in 1 .. i /\ j \in 0 .. i /\ j - 1 \in 0 .. i
          BY <3>3, <3>6, <5>2 DEF CutTo
        <5> QED
          BY <3>7, <5>1, <5>2
      <4>2. d[0] = 0
        BY <2>1, <3>3, <3>6 DEF CutTo
      <4> QED
        BY <3>6, <4>1, <4>2 DEF CutTo
    <3>9. ValuesTo(d, p, s, i) = ValuesTo(c, p, s, i)
      BY <2>1, <3>6, ValuesSame
    <3>10. ValuesTo(d, p, s, i + 1) =
             IF IsGroup(p[i + 1]) THEN Append(ValuesTo(d, p, s, i), Value(p[i + 1], s, d[i], d[i + 1]))
             ELSE ValuesTo(d, p, s, i)
      BY <2>1, <2>2, ValuesGrow
    <3>11. d[i] = c[i]
      BY <2>1, <3>6
    <3>12. w = Matcher!Way(d[i + 1], ValuesTo(d, p, s, i + 1))
      BY <3>2, <3>4, <3>6, <3>9, <3>10, <3>11
    <3> QED
      BY <3>8, <3>12
  <2>6. ASSUME NEW w, NEW c, CutTo(c, p, s, i + 1),
               w = Matcher!Way(c[i + 1], ValuesTo(c, p, s, i + 1))
        PROVE  \E u \in tr[i] : w \in Matcher!Extended(u, p[i + 1], s)
    <3>1. CutTo(c, p, s, i) /\ Goes(p[i + 1], s, c[i], c[i + 1])
      BY <2>1, <2>6 DEF CutTo
    <3>2. PICK u : u = Matcher!Way(c[i], ValuesTo(c, p, s, i))
      OBVIOUS
    <3>3. u \in tr[i]
      BY <2>4, <3>1, <3>2
    <3>4. u \in Ways(s) /\ u.taken = c[i] /\ u.values = ValuesTo(c, p, s, i)
      BY <1>1, <2>1, <3>2, <3>3 DEF Matcher!Way
    <3>5. c[i + 1] \in 0 .. Len(s)
      BY <1>1, <2>1, <2>6 DEF CutTo
    <3>6. ValuesTo(c, p, s, i + 1) =
             IF IsGroup(p[i + 1]) THEN Append(ValuesTo(c, p, s, i), Value(p[i + 1], s, c[i], c[i + 1]))
             ELSE ValuesTo(c, p, s, i)
      BY <2>1, <2>2, ValuesGrow
    <3>7. w \in Matcher!Extended(u, p[i + 1], s)
      BY <2>2, <2>6, <3>1, <3>4, <3>5, <3>6, ExtendedIs
    <3> QED
      BY <3>3, <3>7
  <2>7. \A w : w \in tr[i + 1] <=> IsCut(w, i + 1)
    BY <2>3, <2>5, <2>6
  <2> HIDE DEF IsCut
  <2> QED
    BY <1>3, <2>1, <2>7
<1>6. k \in T
  <2>1. 0 .. n \subseteq T
    BY <1>2, <1>4, <1>5, Induction
  <2> QED
    BY <1>1, <2>1
<1> QED
  BY <1>3, <1>6

(* So the values a pattern finds are those of the cuts of the text by it.  *)
LEMMA SplitsAreCuts ==
  ASSUME NEW p, p \in Seq(PatternParts), NEW s \in Seq(Letters), NEW v
  PROVE  v \in Matcher!Splits(p, s) <=>
           \E c : CutTo(c, p, s, Len(p)) /\ v = ValuesTo(c, p, s, Len(p))
<1>1. PICK n : n = Len(p)
  OBVIOUS
<1>2. PICK tr : tr \in [0 .. Len(p) -> SUBSET Ways(s)] /\ WaysTrace(tr, p, s)
  BY SplitsTrace
<1>3. n \in 0 .. Len(p)
  BY <1>1
<1>4. \A w : w \in tr[n] <=> \E c : CutTo(c, p, s, n) /\ w = Matcher!Way(c[n], ValuesTo(c, p, s, n))
  BY <1>2, <1>3, WaysAreCuts
<1>5. v \in Matcher!Splits(p, s) <=> \E w \in tr[n] : v = w.values
  BY <1>1, <1>2 DEF WaysTrace
<1>6. \A c : Matcher!Way(c[n], ValuesTo(c, p, s, n)).values = ValuesTo(c, p, s, n)
  BY DEF Matcher!Way
<1>7. ASSUME NEW w \in tr[n], v = w.values
      PROVE  \E c : CutTo(c, p, s, n) /\ v = ValuesTo(c, p, s, n)
  <2>1. PICK c : CutTo(c, p, s, n) /\ w = Matcher!Way(c[n], ValuesTo(c, p, s, n))
    BY <1>4, <1>7
  <2> QED
    BY <1>6, <1>7, <2>1
<1>8. ASSUME NEW c, CutTo(c, p, s, n), v = ValuesTo(c, p, s, n)
      PROVE  \E w \in tr[n] : v = w.values
  <2>1. PICK w : w = Matcher!Way(c[n], ValuesTo(c, p, s, n))
    OBVIOUS
  <2> QED
    BY <1>4, <1>6, <1>8, <2>1
<1> QED
  BY <1>1, <1>5, <1>7, <1>8

(* Where two cuts differ for the first time a group ends: nothing else can *)
(* end in two places. The longer of its values is the greedier.            *)
LEMMA LongerIsGreedier ==
  ASSUME NEW p, p \in Seq(PatternParts), NEW s \in Seq(Letters), NEW c, NEW d,
         CutTo(c, p, s, Len(p)), CutTo(d, p, s, Len(p)),
         NEW h \in 0 .. Len(p), d[h] < c[h], \A i \in 0 .. h - 1 : d[i] = c[i]
  PROVE  Matcher!Greedier(ValuesTo(c, p, s, Len(p)), ValuesTo(d, p, s, Len(p)))
<1>1. PICK n : n = Len(p)
  OBVIOUS
<1>2. n \in Nat /\ DOMAIN p = 1 .. n /\ \A i \in 1 .. n : p[i] \in PatternParts
  BY <1>1
<1>3. /\ c \in [0 .. n -> 0 .. Len(s)] /\ d \in [0 .. n -> 0 .. Len(s)] /\ c[0] = 0 /\ d[0] = 0
      /\ \A i \in 1 .. n : Goes(p[i], s, c[i - 1], c[i]) /\ Goes(p[i], s, d[i - 1], d[i])
  BY <1>1 DEF CutTo
<1>4. h \in 1 .. n /\ h - 1 \in 0 .. h - 1 /\ d[h - 1] = c[h - 1]
  BY <1>1, <1>2, <1>3
<1>5. PICK a, x, y, q : a = c[h - 1] /\ x = c[h] /\ y = d[h] /\ q = p[h]
  OBVIOUS
<1>6. /\ a \in Nat /\ x \in 0 .. Len(s) /\ y \in 0 .. Len(s) /\ y < x
      /\ Goes(q, s, a, x) /\ Goes(q, s, a, y) /\ q \in PatternParts
  <2>1. h \in 0 .. n /\ h - 1 \in 0 .. n /\ h \in 1 .. n
    BY <1>2, <1>4
  <2>2. a \in 0 .. Len(s) /\ x \in 0 .. Len(s) /\ y \in 0 .. Len(s)
    BY <1>3, <1>5, <2>1
  <2>3. y < x /\ Goes(q, s, a, x) /\ Goes(q, s, a, y) /\ q \in PatternParts
    BY <1>2, <1>3, <1>4, <1>5, <2>1
  <2> QED
    BY <2>2, <2>3
<1>7. IsGroup(q)
  BY ONLY <1>6 DEF Goes
<1>8. PICK r : r = Len(q.rest) /\ r \in Nat
  <2>1. q.rest \in Seq(Letters)
    BY <1>6 DEF PatternParts
  <2> QED
    BY ONLY <2>1
<1>9. x - r \in a + 1 .. Len(s) /\ y - r \in a + 1 .. Len(s)
  BY <1>6, <1>7, <1>8 DEF Goes, IsGroup
<1>10. PICK order : order = OrderTo(p, n)
  OBVIOUS
<1>11. AreInOrder(order, n, Grouped(p))
  BY <1>2, <1>10, PlacesInOrder DEF OrderTo
<1>12. PICK j \in DOMAIN order : order[j] = h
  BY <1>2, <1>4, <1>5, <1>7, <1>11 DEF AreInOrder, Grouped
<1>13. PICK u, v : u = ValuesTo(c, p, s, n) /\ v = ValuesTo(d, p, s, n)
  OBVIOUS
<1>14. /\ DOMAIN u = DOMAIN order
       /\ \A i \in DOMAIN order : /\ u[i] = Value(p[order[i]], s, c[order[i] - 1], c[order[i]])
                                  /\ v[i] = Value(p[order[i]], s, d[order[i] - 1], d[order[i]])
  BY <1>10, <1>13 DEF ValuesTo
<1>15. u[j] = SubSeq(s, a + 1, x - r) /\ v[j] = SubSeq(s, a + 1, y - r)
  BY <1>4, <1>5, <1>8, <1>12, <1>14 DEF Value
<1>16. Len(SubSeq(s, a + 1, x - r)) = (x - r) - a /\ Len(SubSeq(s, a + 1, y - r)) = (y - r) - a
  BY <1>6, <1>8, <1>9
<1>17. Len(u[j]) > Len(v[j])
  <2>1. (x - r) - a > (y - r) - a
    BY <1>6, <1>8
  <2> QED
    BY ONLY <1>15, <1>16, <2>1
<1>18. ASSUME NEW i \in 1 .. j - 1 PROVE u[i] = v[i]
  <2>0. order \in Seq(1 .. n) /\ j \in DOMAIN order /\ i \in 1 .. j - 1
    BY <1>11, <1>12 DEF AreInOrder
  <2>1. i \in DOMAIN order /\ order[i] \in 1 .. n
    <3>1. Len(order) \in Nat /\ DOMAIN order = 1 .. Len(order) /\ j \in 1 .. Len(order)
      BY ONLY <2>0
    <3>2. i \in 1 .. Len(order)
      BY ONLY <2>0, <3>1
    <3> QED
      BY ONLY <1>2, <2>0, <3>1, <3>2
  <2>2. order[i] < h
    BY <1>11, <1>12, <2>1 DEF AreInOrder
  <2>3. order[i] \in 0 .. h - 1 /\ order[i] - 1 \in 0 .. h - 1
    BY <1>4, <2>1, <2>2
  <2> QED
    BY <1>14, <2>1, <2>3
<1> QED
  BY <1>1, <1>12, <1>13, <1>14, <1>17, <1>18 DEF Matcher!Greedier

(* So when a text can be matched there is a way that is greedier than all  *)
(* the others, and a cut that gives it.                                    *)
LEMMA BestIsCut ==
  ASSUME NEW p, p \in Seq(PatternParts), NEW s \in Seq(Letters), Matcher!IsMatch(p, s)
  PROVE  \E c : /\ CutTo(c, p, s, Len(p))
                /\ ValuesTo(c, p, s, Len(p)) =
                     CHOOSE u \in Matcher!Splits(p, s) : \A v \in Matcher!Splits(p, s) :
                        u = v \/ Matcher!Greedier(u, v)
<1>1. PICK n, m : n = Len(p) /\ m = Len(s)
  OBVIOUS
<1>2. n \in Nat /\ m \in Nat
  BY <1>1
<1>3. PICK D : D = {c \in [0 .. n -> 0 .. m] : CutTo(c, p, s, n)}
  OBVIOUS
<1>4. PICK all : all = Matcher!Splits(p, s)
  OBVIOUS
<1>5. \A v : v \in all <=> \E c \in D : v = ValuesTo(c, p, s, n)
  <2>1. \A v : v \in all <=> \E c : CutTo(c, p, s, n) /\ v = ValuesTo(c, p, s, n)
    BY <1>1, <1>4, SplitsAreCuts
  <2>2. \A c : CutTo(c, p, s, n) <=> c \in D
    BY <1>1, <1>3 DEF CutTo
  <2> QED
    BY <2>1, <2>2
<1>6. D \subseteq [0 .. n -> 0 .. m] /\ D # {}
  BY <1>3, <1>4, <1>5 DEF Matcher!IsMatch
<1>7. PICK c \in D : ComesLast(c, D, n)
  BY ONLY <1>2, <1>6, LastInOrder
<1>8. PICK best : best = ValuesTo(c, p, s, n)
  OBVIOUS
<1>9. ASSUME NEW v \in all PROVE best = v \/ Matcher!Greedier(best, v)
  <2>1. PICK d \in D : v = ValuesTo(d, p, s, n)
    BY <1>5
  <2>2. CASE d = c
    BY <1>8, <2>1, <2>2
  <2>3. CASE \E h \in 0 .. n : d[h] < c[h] /\ \A i \in 0 .. h - 1 : d[i] = c[i]
    BY <1>1, <1>3, <1>8, <2>1, <2>3, LongerIsGreedier
  <2> QED
    BY <1>7, <2>2, <2>3 DEF ComesLast
<1>10. PICK w : w = CHOOSE u \in all : \A v \in all : u = v \/ Matcher!Greedier(u, v)
  OBVIOUS
<1>11. w \in all
  BY <1>5, <1>8, <1>9, <1>10
<1>12. PICK e \in D : w = ValuesTo(e, p, s, n)
  BY <1>5, <1>11
<1> QED
  BY <1>1, <1>3, <1>4, <1>10, <1>12

(* Matcher's names and places are those of SequenceFacts.                  *)
LEMMA SameInMatcher ==
  /\ \A s, set : Matcher!Only(s, set) = Only(s, set)
  /\ \A ss : Matcher!Flattened(ss) = Flattened(ss)
<1>1. \A s, set : Matcher!Only(s, set) = Only(s, set)
  BY DEF Matcher!Only, Only, Matcher!FoldLeft, Matcher!MapThenFoldSet, FoldLeft, MapThenFoldSet,
         Matcher!Max, Max
<1>2. \A ss : Matcher!Flattened(ss) = Flattened(ss)
  BY DEF Matcher!Flattened, Flattened, Matcher!FoldLeft, Matcher!MapThenFoldSet, FoldLeft,
         MapThenFoldSet, Matcher!Max, Max
<1> QED
  BY <1>1, <1>2

(* The names of the elements at some places, in the order of the places.   *)
AreNames(names, s, places) ==
  /\ names \in Seq(Seq(Letters))
  /\ \E order : /\ AreInOrder(order, Len(s), places)
                /\ DOMAIN names = DOMAIN order
                /\ \A k \in DOMAIN names : names[k] = s[order[k]].name

(* NamesAt gives those.                                                    *)
LEMMA NamesAtAre ==
  ASSUME NEW S, \A x \in S : x.name \in Seq(Letters), NEW s \in Seq(S), NEW places
  PROVE  AreNames(Matcher!NamesAt(s, places), s, places)
<1>1. PICK n : n = Len(s)
  OBVIOUS
<1>2. n \in Nat /\ DOMAIN s = 1 .. n /\ \A i \in 1 .. n : s[i].name \in Seq(Letters)
  BY <1>1
<1>3. PICK order : order = Only([i \in 1 .. n |-> i], places)
  OBVIOUS
<1>4. AreInOrder(order, n, places)
  BY ONLY <1>2, <1>3, PlacesInOrder
<1>5. PICK names : names = Matcher!NamesAt(s, places)
  OBVIOUS
<1>6. names = [k \in DOMAIN order |-> s[order[k]].name]
  BY <1>2, <1>3, <1>5, SameInMatcher DEF Matcher!NamesAt
<1>7. order \in Seq(1 .. n)
  BY <1>4 DEF AreInOrder
<1>8. \A k \in DOMAIN order : s[order[k]].name \in Seq(Letters)
  BY <1>2, <1>7
<1>9. names \in Seq(Seq(Letters))
  BY ONLY <1>6, <1>7, <1>8
<1>10. DOMAIN names = DOMAIN order /\ \A k \in DOMAIN names : names[k] = s[order[k]].name
  BY ONLY <1>6
<1> QED
  BY <1>1, <1>4, <1>5, <1>9, <1>10 DEF AreNames

-----------------------------------------------------------------------------
(* Paths. A path of pieces that is standardized has a slash at both ends.  *)
Framed(p) ==
  /\ p \in Seq(PathPieces) /\ Len(p) >= 2
  /\ p[1] = Matcher!Slash /\ p[Len(p)] = Matcher!Slash

(* One of them is a sequence.                                              *)
LEMMA OneLetter == <<"/">> \in Seq(Letters) /\ <<":">> \in Seq(Letters)
<1>1. \A E : \A x \in E : <<x>> \in Seq(E)
  OBVIOUS
<1>2. "/" \in Letters /\ ":" \in Letters
  BY DEF Letters
<1> HIDE DEF Letters
<1> QED
  BY <1>1, <1>2

(* The characters of a piece and the slash are typed.                      *)
LEMMA PiecesTyped ==
  /\ Matcher!Slash \in PathPieces
  /\ Matcher!Slash.kind = "char"
  /\ \A x \in PathPieces : /\ x.kind \in {"char", "colon", "star"} /\ x.name \in Seq(Letters)
                               /\ Matcher!Spelled(x) \in Seq(Letters)
<1>1. Matcher!Slash \in PathPieces /\ Matcher!Slash.kind = "char"
  <2>1. PICK u : u = <<"/">>
    OBVIOUS
  <2>2. u \in Seq(Letters)
    BY ONLY <2>1, OneLetter
  <2>3. Matcher!Slash = [kind |-> "char", name |-> u]
    BY <2>1 DEF Matcher!Slash, Matcher!Char, Matcher!Piece
  <2> QED
    BY ONLY <2>2, <2>3 DEF PathPieces
<1>2. ASSUME NEW x \in PathPieces
      PROVE  /\ x.kind \in {"char", "colon", "star"} /\ x.name \in Seq(Letters)
             /\ Matcher!Spelled(x) \in Seq(Letters)
  <2>1. x.kind \in {"char", "colon", "star"} /\ x.name \in Seq(Letters)
    BY DEF PathPieces
  <2>2. <<":">> \o x.name \in Seq(Letters)
    <3>1. PICK u, v : u = <<":">> /\ v = x.name
      OBVIOUS
    <3>2. u \in Seq(Letters) /\ v \in Seq(Letters)
      BY ONLY <2>1, <3>1, OneLetter
    <3>3. u \o v \in Seq(Letters)
      BY ONLY <3>2
    <3> QED
      BY ONLY <3>1, <3>3
  <2> QED
    BY <2>1, <2>2 DEF Matcher!Spelled
<1> QED
  BY <1>1, <1>2

(* The least of some places of a sequence.                                 *)
LEMMA MinIs ==
  ASSUME NEW S, S \subseteq Nat, S # {}
  PROVE  Matcher!Min(S) \in S /\ \A x \in S : Matcher!Min(S) <= x
<1>1. \E x \in S : \A y \in S : x <= y
  BY LeastElement
<1> QED
  BY <1>1 DEF Matcher!Min

(* And the greatest, of places up to n.                                    *)
LEMMA MaxIs ==
  ASSUME NEW n \in Nat, NEW S, S \subseteq 1 .. n, S # {}
  PROVE  Matcher!Max(S) \in S /\ \A x \in S : Matcher!Max(S) >= x
<1>1. PICK T : T = {n - x : x \in S}
  OBVIOUS
<1>2. T \subseteq Nat /\ T # {}
  <2>1. \A x \in S : n - x \in Nat
    OBVIOUS
  <2> QED
    BY <1>1, <2>1
<1>3. PICK t \in T : \A u \in T : t <= u
  BY <1>2, LeastElement
<1>4. PICK x \in S : t = n - x
  BY <1>1
<1>5. \A y \in S : y \in 1 .. n /\ n - y \in T
  BY <1>1
<1>6. \A y \in S : x >= y
  BY <1>3, <1>4, <1>5
<1> QED
  BY <1>4, <1>6 DEF Matcher!Max

(* What is left when the slashes at both ends are gone.                    *)
LEMMA TrimmedIs ==
  ASSUME NEW E, NEW s, s \in Seq(E), NEW slash
  PROVE  \/ /\ Matcher!Trimmed(s, slash) = <<>>
            /\ \A i \in DOMAIN s : s[i] = slash
         \/ \E a, b \in DOMAIN s :
              /\ a <= b /\ s[a] # slash /\ s[b] # slash
              /\ \A i \in DOMAIN s : i < a \/ i > b => s[i] = slash
              /\ Matcher!Trimmed(s, slash) = SubSeq(s, a, b)
<1>1. PICK n : n = Len(s)
  OBVIOUS
<1>2. n \in Nat /\ DOMAIN s = 1 .. n
  BY <1>1
<1>3. PICK kept : kept = {i \in 1 .. n : s[i] # slash}
  OBVIOUS
<1>4. Matcher!Trimmed(s, slash) = IF kept = {} THEN <<>>
                                  ELSE SubSeq(s, Matcher!Min(kept), Matcher!Max(kept))
  BY <1>2, <1>3 DEF Matcher!Trimmed
<1>5. CASE kept = {}
  <2>1. \A i \in DOMAIN s : s[i] = slash
    BY ONLY <1>2, <1>3, <1>5
  <2>2. Matcher!Trimmed(s, slash) = <<>>
    BY ONLY <1>4, <1>5
  <2> QED
    BY <2>1, <2>2
<1>6. CASE kept # {}
  <2>1. PICK a, b : a = Matcher!Min(kept) /\ b = Matcher!Max(kept)
    OBVIOUS
  <2>2. kept \subseteq 1 .. n /\ kept \subseteq Nat
    BY ONLY <1>2, <1>3
  <2>3. /\ a \in kept /\ b \in kept /\ \A x \in kept : a <= x /\ b >= x
    BY ONLY <1>2, <1>6, <2>1, <2>2, MinIs, MaxIs
  <2>4. /\ a \in DOMAIN s /\ b \in DOMAIN s /\ a <= b /\ s[a] # slash /\ s[b] # slash
        /\ \A i \in DOMAIN s : i < a \/ i > b => s[i] = slash
    <3>1. a \in 1 .. n /\ b \in 1 .. n /\ s[a] # slash /\ s[b] # slash /\ a <= b
      BY ONLY <1>3, <2>3
    <3>2. ASSUME NEW i \in 1 .. n, i < a \/ i > b PROVE s[i] = slash
      <4>1. i \notin kept
        BY ONLY <1>2, <2>3, <3>1, <3>2, i \in 1 .. n
      <4> QED
        BY ONLY <1>3, <4>1, i \in 1 .. n
    <3> QED
      BY ONLY <1>2, <3>1, <3>2
  <2>5. Matcher!Trimmed(s, slash) = SubSeq(s, a, b)
    BY ONLY <1>4, <1>6, <2>1
  <2> QED
    BY <2>4, <2>5
<1> QED
  BY <1>5, <1>6

(* So it is a sequence of the same elements.                               *)
LEMMA TrimmedTyped ==
  ASSUME NEW E, NEW s, s \in Seq(E), NEW slash
  PROVE  Matcher!Trimmed(s, slash) \in Seq(E)
<1>1. CASE Matcher!Trimmed(s, slash) = <<>>
  BY ONLY <1>1
<1>2. ASSUME NEW a \in DOMAIN s, NEW b \in DOMAIN s, Matcher!Trimmed(s, slash) = SubSeq(s, a, b)
      PROVE  Matcher!Trimmed(s, slash) \in Seq(E)
  <2>1. SubSeq(s, a, b) \in Seq(E)
    BY ONLY s \in Seq(E), a \in DOMAIN s, b \in DOMAIN s
  <2> QED
    BY ONLY <1>2, <2>1
<1> QED
  BY <1>1, <1>2, TrimmedIs

(* A sequence with a slash at both ends.                                   *)
HasEnds(s, E, slash) == s \in Seq(E) /\ Len(s) >= 2 /\ s[1] = slash /\ s[Len(s)] = slash

(* With a slash at both ends again it is standardized.                     *)
LEMMA StandardizedIs ==
  ASSUME NEW E, NEW s, s \in Seq(E), NEW slash, slash \in E
  PROVE  HasEnds(Matcher!Standardized(s, slash), E, slash)
<1>1. PICK u, v : u = Matcher!Trimmed(s, slash) /\ v = <<slash>> \o u \o <<slash>>
  OBVIOUS
<1>2. u \in Seq(E)
  BY ONLY <1>1, s \in Seq(E), TrimmedTyped
<1>3. v \in Seq(E) /\ Len(v) = Len(u) + 2 /\ v[1] = slash /\ v[Len(u) + 2] = slash /\ Len(u) \in Nat
  BY ONLY <1>1, <1>2, slash \in E
<1>4. Matcher!Standardized(s, slash) = v
  BY ONLY <1>1 DEF Matcher!Standardized
<1> QED
  BY ONLY <1>3, <1>4 DEF HasEnds

(* The holes of a path are its wildcards and its variables.                *)
LEMMA HolesAre ==
  ASSUME NEW p, Framed(p), NEW i \in DOMAIN p
  PROVE  /\ i \in Matcher!Holes(p) <=> p[i].kind = "star" \/ Matcher!IsVariable(p, i)
         /\ Matcher!IsVariable(p, i) => p[i].kind = "colon"
<1>1. PICK n : n = Len(p)
  OBVIOUS
<1>2. /\ n \in Nat /\ DOMAIN p = 1 .. n /\ p \in Seq(PathPieces) /\ i \in 1 .. n
      /\ p[1].kind = "char" /\ p[n].kind = "char"
  BY <1>1, PiecesTyped DEF Framed
<1>3. Matcher!IsVariable(p, i) <=>
        /\ p[i].kind = "colon" /\ i - 1 \in DOMAIN p /\ p[i - 1] = Matcher!Slash
        /\ i + 1 \in DOMAIN p /\ p[i + 1] = Matcher!Slash
  BY DEF Matcher!IsVariable
<1>4. i \in Matcher!Holes(p) <=>
        \/ p[i].kind = "star"
        \/ p[i].kind = "colon" /\ SubSeq(p, i - 1, i + 1) = <<Matcher!Slash, p[i], Matcher!Slash>>
  BY DEF Matcher!Holes
<1>5. ASSUME p[i].kind = "colon"
      PROVE  /\ i - 1 \in DOMAIN p /\ i + 1 \in DOMAIN p
             /\ SubSeq(p, i - 1, i + 1) = <<Matcher!Slash, p[i], Matcher!Slash>> <=>
                  p[i - 1] = Matcher!Slash /\ p[i + 1] = Matcher!Slash
  <2>1. i # 1 /\ i # n
    BY <1>2, <1>5
  <2>2. i - 1 \in 1 .. n /\ i + 1 \in 1 .. n
    BY <1>2, <2>1
  <2>3. PICK q : q = SubSeq(p, i - 1, i + 1)
    OBVIOUS
  <2>4. q = <<p[i - 1], p[i], p[i + 1]>>
    <3>1. q \in Seq(PathPieces) /\ Len(q) = 3
      BY ONLY <1>1, <1>2, <2>2, <2>3
    <3>2. \A j \in 1 .. 3 : q[j] = p[(i - 1) + j - 1]
      BY ONLY <1>1, <1>2, <2>2, <2>3
    <3>3. (i - 1) + 1 - 1 = i - 1 /\ (i - 1) + 2 - 1 = i /\ (i - 1) + 3 - 1 = i + 1
      BY ONLY <1>2
    <3>4. q[1] = p[i - 1] /\ q[2] = p[i] /\ q[3] = p[i + 1]
      BY ONLY <3>2, <3>3
    <3> QED
      BY ONLY <3>1, <3>4
  <2>5. q = <<Matcher!Slash, p[i], Matcher!Slash>> <=>
          p[i - 1] = Matcher!Slash /\ p[i + 1] = Matcher!Slash
    BY ONLY <2>4
  <2> QED
    BY <1>2, <2>2, <2>3, <2>5
<1> QED
  BY <1>3, <1>4, <1>5

(* The names found in a path are those of its holes, in some order.        *)
Named(names, p, holes) ==
  /\ names \in Seq(Seq(Letters))
  /\ \A k \in DOMAIN names : \E i \in holes : names[k] = p[i].name
  /\ \A i \in holes : \E k \in DOMAIN names : names[k] = p[i].name

NoNameTwice(p, holes) ==
  /\ \A i \in holes : p[i].name # <<>>
  /\ \A i, j \in holes : p[i].name = p[j].name => i = j

(* NameError finds nothing wrong only if all names are there and differ.   *)
LEMMA NamesGood ==
  ASSUME NEW names \in Seq(Seq(Letters)), Matcher!NameError(names) = "none"
  PROVE  /\ \A k \in DOMAIN names : names[k] # <<>>
         /\ \A k, l \in DOMAIN names : names[k] = names[l] => k = l
<1> DEFINE missing == {i \in DOMAIN names : names[i] = <<>>}
           twice == {i \in DOMAIN names : \E j \in 1 .. (i - 1) : names[j] = names[i]}
<1>1. missing \cup twice = {}
  BY DEF Matcher!NameError
<1>2. \A k \in DOMAIN names : names[k] # <<>> /\ \A j \in 1 .. (k - 1) : names[j] # names[k]
  BY <1>1
<1>3. \A k, l \in DOMAIN names : k < l => k \in 1 .. (l - 1)
  OBVIOUS
<1>4. \A k, l \in DOMAIN names : k < l \/ l < k \/ k = l
  OBVIOUS
<1> QED
  BY ONLY <1>2, <1>3, <1>4

(* The names of a path, and of its variables only.                         *)
LEMMA NamesOfHoles ==
  ASSUME NEW p, Framed(p)
  PROVE  /\ Named(Matcher!Wildcards(p) \o Matcher!Variables(p), p, Matcher!Holes(p))
         /\ Named(Matcher!Variables(p), p, {i \in DOMAIN p : Matcher!IsVariable(p, i)})
         /\ Matcher!NameError(Matcher!Wildcards(p) \o Matcher!Variables(p)) = "none"
              => NoNameTwice(p, Matcher!Holes(p))
<1>1. PICK n : n = Len(p)
  OBVIOUS
<1>2. /\ n \in Nat /\ DOMAIN p = 1 .. n /\ p \in Seq(PathPieces)
      /\ \A x \in PathPieces : x.name \in Seq(Letters)
  BY <1>1, PiecesTyped DEF Framed
<1>3. PICK stars, colons : /\ stars = {i \in DOMAIN p : p[i].kind = "star"}
                           /\ colons = {i \in DOMAIN p : Matcher!IsVariable(p, i)}
  OBVIOUS
<1>4. PICK w, v : w = Matcher!Wildcards(p) /\ v = Matcher!Variables(p)
  OBVIOUS
<1>5. w = Matcher!NamesAt(p, stars) /\ v = Matcher!NamesAt(p, colons)
  BY <1>3, <1>4 DEF Matcher!Wildcards, Matcher!Variables
<1>6. AreNames(w, p, stars) /\ AreNames(v, p, colons)
  BY ONLY <1>2, <1>5, NamesAtAre
<1>7. PICK a : /\ AreInOrder(a, n, stars) /\ DOMAIN w = DOMAIN a
               /\ \A k \in DOMAIN w : w[k] = p[a[k]].name
  BY <1>1, <1>6 DEF AreNames
<1>8. PICK b : /\ AreInOrder(b, n, colons) /\ DOMAIN v = DOMAIN b
               /\ \A k \in DOMAIN v : v[k] = p[b[k]].name
  BY <1>1, <1>6 DEF AreNames
<1>9. /\ \A k \in DOMAIN w : a[k] \in stars
      /\ \A i \in stars : \E m \in DOMAIN w : a[m] = i
      /\ \A k \in DOMAIN v : b[k] \in colons
      /\ \A i \in colons : \E m \in DOMAIN v : b[m] = i
  <2>1. stars \subseteq 1 .. n /\ colons \subseteq 1 .. n
    BY ONLY <1>2, <1>3
  <2>2. a \in Seq(1 .. n) /\ b \in Seq(1 .. n)
    BY <1>7, <1>8 DEF AreInOrder
  <2>3. \A k \in DOMAIN a : a[k] \in 1 .. n
    BY ONLY <1>2, <2>2
  <2>4. \A k \in DOMAIN b : b[k] \in 1 .. n
    BY ONLY <1>2, <2>2
  <2>5. /\ \A i \in 1 .. n : i \in stars <=> \E m \in DOMAIN a : a[m] = i
        /\ \A i \in 1 .. n : i \in colons <=> \E m \in DOMAIN b : b[m] = i
    BY <1>7, <1>8 DEF AreInOrder
  <2> QED
    BY ONLY <1>7, <1>8, <2>1, <2>3, <2>4, <2>5
<1>10. \A i \in DOMAIN p : i \in Matcher!Holes(p) <=> i \in stars \/ i \in colons
  BY <1>3, HolesAre
<1>11. Matcher!Holes(p) = stars \cup colons
  BY <1>3, <1>10 DEF Matcher!Holes
<1>12. PICK c : c = w \o v
  OBVIOUS
<1>13. PICK x, y : x = Len(w) /\ y = Len(v)
  OBVIOUS
<1>14. /\ w \in Seq(Seq(Letters)) /\ v \in Seq(Seq(Letters))
       /\ x \in Nat /\ y \in Nat /\ DOMAIN w = 1 .. x /\ DOMAIN v = 1 .. y
  <2>1. w \in Seq(Seq(Letters)) /\ v \in Seq(Seq(Letters))
    BY <1>6 DEF AreNames
  <2> QED
    BY ONLY <1>13, <2>1
<1>15. /\ c \in Seq(Seq(Letters)) /\ DOMAIN c = 1 .. x + y
       /\ \A k \in 1 .. x : c[k] = w[k] /\ k \in 1 .. x + y
       /\ \A k \in 1 .. y : c[x + k] = v[k] /\ x + k \in 1 .. x + y
       /\ \A k \in 1 .. x + y : k \in 1 .. x \/ (k - x \in 1 .. y /\ x + (k - x) = k)
  <2>1. c \in Seq(Seq(Letters)) /\ Len(c) = x + y
    BY ONLY <1>12, <1>13, <1>14
  <2>2. \A k \in 1 .. x : c[k] = w[k] /\ k \in 1 .. x + y
    BY ONLY <1>12, <1>13, <1>14
  <2>3. \A k \in 1 .. y : c[x + k] = v[k] /\ x + k \in 1 .. x + y
    BY ONLY <1>12, <1>13, <1>14
  <2>4. \A k \in 1 .. x + y : k \in 1 .. x \/ (k - x \in 1 .. y /\ x + (k - x) = k)
    BY ONLY <1>14
  <2>5. DOMAIN c = 1 .. x + y
    BY ONLY <2>1
  <2> QED
    BY ONLY <2>1, <2>2, <2>3, <2>4, <2>5
<1>16. ASSUME NEW k \in DOMAIN c PROVE \E i \in Matcher!Holes(p) : c[k] = p[i].name
  <2>1. CASE k \in 1 .. x
    <3>1. a[k] \in stars /\ c[k] = w[k] /\ w[k] = p[a[k]].name
      BY ONLY <1>7, <1>9, <1>14, <1>15, <2>1
    <3> QED
      BY ONLY <1>11, <3>1
  <2>2. CASE k - x \in 1 .. y /\ x + (k - x) = k
    <3>1. k - x \in DOMAIN v /\ c[k] = v[k - x]
      BY ONLY <1>14, <1>15, <2>2
    <3>2. b[k - x] \in colons /\ v[k - x] = p[b[k - x]].name
      BY ONLY <1>8, <1>9, <3>1
    <3> QED
      BY ONLY <1>11, <3>1, <3>2
  <2> QED
    BY <1>15, <2>1, <2>2
<1>17. /\ \A i \in stars : \E k \in 1 .. x : a[k] = i /\ c[k] = p[i].name /\ k \in DOMAIN c
       /\ \A i \in colons : \E k \in 1 .. y : b[k] = i /\ c[x + k] = p[i].name /\ x + k \in DOMAIN c
  <2>1. ASSUME NEW i \in stars
        PROVE  \E k \in 1 .. x : a[k] = i /\ c[k] = p[i].name /\ k \in DOMAIN c
    <3>1. PICK k \in DOMAIN w : a[k] = i
      BY ONLY <1>9, i \in stars
    <3>2. c[k] = w[k] /\ w[k] = p[i].name
      BY <1>7, <1>14, <1>15, <3>1
    <3> QED
      BY <1>14, <1>15, <3>1, <3>2
  <2>2. ASSUME NEW i \in colons
        PROVE  \E k \in 1 .. y : b[k] = i /\ c[x + k] = p[i].name /\ x + k \in DOMAIN c
    <3>1. PICK k \in DOMAIN v : b[k] = i
      BY ONLY <1>9, i \in colons
    <3>2. c[x + k] = v[k] /\ v[k] = p[i].name
      BY <1>8, <1>14, <1>15, <3>1
    <3> QED
      BY <1>14, <1>15, <3>1, <3>2
  <2> QED
    BY <2>1, <2>2
<1>18. Named(c, p, Matcher!Holes(p))
  BY <1>11, <1>15, <1>16, <1>17 DEF Named
<1>19. Named(v, p, colons)
  <2>1. \A k \in DOMAIN v : \E i \in colons : v[k] = p[i].name
    BY <1>8, <1>9
  <2>2. \A i \in colons : \E k \in DOMAIN v : v[k] = p[i].name
    BY ONLY <1>8, <1>9
  <2> QED
    BY <1>14, <2>1, <2>2 DEF Named
<1>20. ASSUME Matcher!NameError(c) = "none" PROVE NoNameTwice(p, Matcher!Holes(p))
  <2>1. /\ \A k \in DOMAIN c : c[k] # <<>>
        /\ \A k, l \in DOMAIN c : c[k] = c[l] => k = l
    BY <1>15, <1>20, NamesGood
  <2>2. \A i \in Matcher!Holes(p) : p[i].name # <<>>
    BY <1>11, <1>17, <2>1
  <2>3. ASSUME NEW i \in Matcher!Holes(p), NEW j \in Matcher!Holes(p), p[i].name = p[j].name
        PROVE  i = j
    <3>1. CASE i \in stars /\ j \in stars
      BY <1>17, <2>1, <2>3, <3>1
    <3>2. CASE i \in colons /\ j \in colons
      <4>1. PICK k \in 1 .. y : b[k] = i /\ c[x + k] = p[i].name /\ x + k \in DOMAIN c
        BY <1>17, <3>2
      <4>2. PICK l \in 1 .. y : b[l] = j /\ c[x + l] = p[j].name /\ x + l \in DOMAIN c
        BY <1>17, <3>2
      <4>3. x + k = x + l
        BY <2>1, <2>3, <4>1, <4>2
      <4>4. k = l
        BY ONLY <1>14, <4>3, k \in 1 .. y, l \in 1 .. y
      <4> QED
        BY <4>1, <4>2, <4>4
    <3>3. ASSUME NEW g \in stars, NEW h \in colons, p[g].name = p[h].name PROVE FALSE
      <4>1. PICK k \in 1 .. x : c[k] = p[g].name /\ k \in DOMAIN c
        BY <1>17
      <4>2. PICK l \in 1 .. y : c[x + l] = p[h].name /\ x + l \in DOMAIN c
        BY <1>17
      <4>3. k = x + l
        BY <2>1, <3>3, <4>1, <4>2
      <4> QED
        BY ONLY <1>14, <4>3, k \in 1 .. x, l \in 1 .. y
    <3> QED
      BY <1>11, <2>3, <3>1, <3>2, <3>3
  <2> QED
    BY <2>2, <2>3 DEF NoNameTwice
<1> QED
  BY <1>3, <1>4, <1>12, <1>18, <1>19, <1>20

(* A prefix of a name has its first characters.                            *)
LEMMA PrefixIs ==
  ASSUME NEW E, NEW u \in Seq(E), NEW v \in Seq(E)
  PROVE  Matcher!IsPrefix(u, v) <=> Len(u) <= Len(v) /\ \A i \in 1 .. Len(u) : u[i] = v[i]
<1>1. PICK m, n : m = Len(u) /\ n = Len(v)
  OBVIOUS
<1>2. m \in Nat /\ n \in Nat
  BY <1>1
<1>3. CASE m <= n
  <2>1. PICK x, y : x = SubSeq(u, 1, m) /\ y = SubSeq(v, 1, m)
    OBVIOUS
  <2>2. x \in Seq(E) /\ Len(x) = m /\ \A i \in 1 .. m : x[i] = u[i]
    BY <1>1, <2>1
  <2>3. y \in Seq(E) /\ Len(y) = m /\ \A i \in 1 .. m : y[i] = v[i]
    BY <1>1, <1>3, <2>1
  <2>4. x = y <=> \A i \in 1 .. m : u[i] = v[i]
    BY ONLY <1>2, <2>2, <2>3
  <2> QED
    BY ONLY <1>1, <1>3, <2>1, <2>4 DEF Matcher!IsPrefix
<1>4. CASE ~(m <= n)
  BY ONLY <1>1, <1>4 DEF Matcher!IsPrefix
<1> QED
  BY <1>3, <1>4

(* A name is a prefix of itself, and prefixes of prefixes are prefixes.    *)
LEMMA PrefixOrder ==
  ASSUME NEW E, NEW u \in Seq(E), NEW v \in Seq(E), NEW w \in Seq(E)
  PROVE  /\ Matcher!IsPrefix(u, u)
         /\ Matcher!IsPrefix(u, v) /\ Matcher!IsPrefix(v, w) => Matcher!IsPrefix(u, w)
<1>1. Matcher!IsPrefix(u, u)
  BY PrefixIs
<1>2. ASSUME Matcher!IsPrefix(u, v), Matcher!IsPrefix(v, w) PROVE Matcher!IsPrefix(u, w)
  <2>1. Len(u) <= Len(v) /\ \A i \in 1 .. Len(u) : u[i] = v[i]
    BY <1>2, PrefixIs
  <2>2. Len(v) <= Len(w) /\ \A i \in 1 .. Len(v) : v[i] = w[i]
    BY <1>2, PrefixIs
  <2>3. Len(u) <= Len(w) /\ \A i \in 1 .. Len(u) : u[i] = w[i]
    BY <2>1, <2>2
  <2> QED
    BY <2>3, PrefixIs
<1> QED
  BY <1>1, <1>2

(* The first variable that a name begins with.                             *)
FirstHit(m, vs, name) ==
  /\ m \in DOMAIN vs /\ Matcher!IsPrefix(vs[m], name)
  /\ \A k \in DOMAIN vs : Matcher!IsPrefix(vs[k], name) => m <= k

(* What a piece is rewritten to.                                           *)
IsRewritten(r, x, vs) ==
  /\ r \in PatternParts
  /\ x.kind = "star" => r = Matcher!Part("any", x.name, <<>>)
  /\ \/ r = Matcher!Part("none", <<>>, Matcher!Spelled(x))
     \/ x.kind = "star"
     \/ \E m : FirstHit(m, vs, x.name)
  /\ \A m : x.kind = "colon" /\ FirstHit(m, vs, x.name) =>
       r = Matcher!Part("segment", vs[m], SubSeq(x.name, Len(vs[m]) + 1, Len(x.name)))
  /\ x.kind = "char" => r = Matcher!Part("none", <<>>, Matcher!Spelled(x))

(* Rewritten does that.                                                    *)
LEMMA RewrittenIs ==
  ASSUME NEW x \in PathPieces, NEW vs, vs \in Seq(Seq(Letters))
  PROVE  IsRewritten(Matcher!Rewritten(x, vs), x, vs)
<1>1. PICK r, name : r = Matcher!Rewritten(x, vs) /\ name = x.name
  OBVIOUS
<1>2. PICK hits : hits = {i \in DOMAIN vs : Matcher!IsPrefix(vs[i], name)}
  OBVIOUS
<1>3. /\ x.kind \in {"char", "colon", "star"} /\ name \in Seq(Letters)
      /\ Matcher!Spelled(x) \in Seq(Letters) /\ <<>> \in Seq(Letters)
  BY <1>1, PiecesTyped
<1>4. \A i \in DOMAIN vs : i \in Nat /\ vs[i] \in Seq(Letters)
  OBVIOUS
<1>5. \A group, n, rest : Matcher!Part(group, n, rest) = [group |-> group, name |-> n, rest |-> rest]
  BY DEF Matcher!Part
<1>6. CASE x.kind = "star"
  <2>1. r = Matcher!Part("any", name, <<>>)
    BY <1>1, <1>6 DEF Matcher!Rewritten
  <2>2. r \in PatternParts
    BY ONLY <1>3, <1>5, <2>1 DEF PatternParts
  <2> QED
    BY ONLY <1>1, <1>6, <2>1, <2>2 DEF IsRewritten
<1>7. CASE x.kind # "star" /\ (x.kind # "colon" \/ hits = {})
  <2>1. r = Matcher!Part("none", <<>>, Matcher!Spelled(x))
    BY <1>1, <1>2, <1>7 DEF Matcher!Rewritten
  <2>2. r \in PatternParts
    BY ONLY <1>3, <1>5, <2>1 DEF PatternParts
  <2>3. \A m : FirstHit(m, vs, name) => m \in hits
    BY ONLY <1>2 DEF FirstHit
  <2> QED
    BY ONLY <1>1, <1>7, <2>1, <2>2, <2>3 DEF IsRewritten
<1>8. CASE x.kind = "colon" /\ hits # {}
  <2>1. PICK m : m = Matcher!Min(hits)
    OBVIOUS
  <2>2. m \in hits /\ \A k \in hits : m <= k
    <3>1. hits \subseteq Nat
      BY ONLY <1>2, <1>4
    <3> QED
      BY ONLY <1>8, <2>1, <3>1, MinIs
  <2>3. r = Matcher!Part("segment", vs[m], SubSeq(name, Len(vs[m]) + 1, Len(name)))
    BY <1>1, <1>2, <1>8, <2>1 DEF Matcher!Rewritten
  <2>4. FirstHit(m, vs, name)
    BY ONLY <1>2, <2>2 DEF FirstHit
  <2>5. vs[m] \in Seq(Letters) /\ m \in Nat
    BY ONLY <1>2, <1>4, <2>2
  <2>6. SubSeq(name, Len(vs[m]) + 1, Len(name)) \in Seq(Letters)
    <3>1. PICK a : a = Len(vs[m]) /\ a \in Nat
      BY ONLY <2>5
    <3>2. a <= Len(name)
      BY <1>3, <2>4, <2>5, <3>1, PrefixIs DEF FirstHit
    <3>3. SubSeq(name, a + 1, Len(name)) \in Seq(Letters)
      BY ONLY <1>3, <3>1, <3>2
    <3> QED
      BY ONLY <3>1, <3>3
  <2>7. r \in PatternParts
    BY ONLY <1>5, <2>3, <2>5, <2>6 DEF PatternParts
  <2>8. \A l : FirstHit(l, vs, name) => l = m
    <3> SUFFICES ASSUME NEW l, FirstHit(l, vs, name) PROVE l = m
      OBVIOUS
    <3>1. l \in hits /\ l \in Nat
      BY <1>2, <1>4 DEF FirstHit
    <3>2. m <= l
      BY <2>2, <3>1
    <3>3. l <= m
      BY <1>2, <2>2 DEF FirstHit
    <3> QED
      BY ONLY <2>5, <3>1, <3>2, <3>3
  <2>9. IsRewritten(r, x, vs)
    BY ONLY <1>1, <1>8, <2>3, <2>4, <2>7, <2>8 DEF IsRewritten
  <2> QED
    BY <1>1, <2>9
<1> QED
  BY <1>1, <1>3, <1>6, <1>7, <1>8

(* The groups of a pattern that builds have different names.               *)
LEMMA GroupsApart ==
  ASSUME NEW p, p \in Seq(PatternParts), Matcher!IsInjective(Matcher!Groups(p)),
         NEW i \in Grouped(p), NEW j \in Grouped(p), p[i].name = p[j].name
  PROVE  i = j
<1>1. PICK names : names = Matcher!Groups(p)
  OBVIOUS
<1>2. PICK n : n = Len(p)
  OBVIOUS
<1>3. n \in Nat /\ DOMAIN p = 1 .. n
  BY <1>2
<1>4. AreNames(names, p, Grouped(p))
  <2>1. \A x \in PatternParts : x.name \in Seq(Letters)
    BY DEF PatternParts
  <2>2. names = Matcher!NamesAt(p, Grouped(p))
    BY <1>1 DEF Matcher!Groups, Grouped, IsGroup
  <2> QED
    BY <2>1, <2>2, NamesAtAre
<1>5. PICK order : /\ AreInOrder(order, n, Grouped(p)) /\ DOMAIN names = DOMAIN order
                   /\ \A k \in DOMAIN names : names[k] = p[order[k]].name
  BY <1>2, <1>4 DEF AreNames
<1>6. i \in 1 .. n /\ j \in 1 .. n
  BY <1>3 DEF Grouped
<1>7. PICK k \in DOMAIN order : order[k] = i
  BY <1>5, <1>6 DEF AreInOrder
<1>8. PICK l \in DOMAIN order : order[l] = j
  BY <1>5, <1>6 DEF AreInOrder
<1>9. names[k] = names[l]
  BY <1>5, <1>7, <1>8
<1>10. \A a, b \in DOMAIN names : names[a] = names[b] => a = b
  BY <1>1 DEF Matcher!IsInjective
<1> QED
  BY <1>5, <1>7, <1>8, <1>9, <1>10

(* Every hole becomes a group of its own, and nothing else does.           *)
IsPatternOf(q, p) ==
  /\ q \in Seq(PatternParts) /\ Len(q) = Len(p) + 1 /\ q[Len(p) + 1] = Matcher!End
  /\ \A i \in DOMAIN p :
       /\ i \in Matcher!Holes(p) =>
            q[i] = Matcher!Part(IF p[i].kind = "star" THEN "any" ELSE "segment", p[i].name, <<>>)
       /\ i \notin Matcher!Holes(p) => q[i] = Matcher!Part("none", <<>>, Matcher!Spelled(p[i]))

(* The pieces of a pattern.                                                *)
LEMMA PatternIs ==
  ASSUME NEW p, Framed(p)
  PROVE  /\ Matcher!Pattern(p) \in Seq(PatternParts) /\ Len(Matcher!Pattern(p)) = Len(p)
         /\ \A i \in DOMAIN p :
              IsRewritten(Matcher!Pattern(p)[i], p[i], Matcher!Variables(p))
<1>1. PICK n : n = Len(p)
  OBVIOUS
<1>2. n \in Nat /\ DOMAIN p = 1 .. n /\ \A i \in 1 .. n : p[i] \in PathPieces
  BY <1>1 DEF Framed
<1>3. PICK vs : vs = Matcher!Variables(p)
  OBVIOUS
<1>4. vs \in Seq(Seq(Letters))
  BY <1>3, NamesOfHoles DEF Named
<1>5. PICK q : q = Matcher!Pattern(p)
  OBVIOUS
<1>6. q = [i \in 1 .. n |-> Matcher!Rewritten(p[i], vs)]
  BY <1>2, <1>3, <1>5 DEF Matcher!Pattern
<1>7. \A i \in 1 .. n : IsRewritten(Matcher!Rewritten(p[i], vs), p[i], vs)
  BY ONLY <1>2, <1>4, RewrittenIs
<1>8. \A i \in 1 .. n : IsRewritten(q[i], p[i], vs) /\ q[i] \in PatternParts
  BY ONLY <1>6, <1>7 DEF IsRewritten
<1>9. q \in Seq(PatternParts) /\ Len(q) = n
  BY ONLY <1>2, <1>6, <1>8
<1> QED
  BY <1>1, <1>2, <1>3, <1>5, <1>8, <1>9

(* Where the first variable a piece begins with comes from.                *)
LEMMA HitIsHole ==
  ASSUME NEW p, Framed(p), NEW i \in DOMAIN p, p[i].kind = "colon",
         NEW m, FirstHit(m, Matcher!Variables(p), p[i].name)
  PROVE  \E h \in DOMAIN p :
            /\ h \in Matcher!Holes(p) /\ p[h].kind = "colon"
            /\ p[h].name = Matcher!Variables(p)[m]
            /\ Matcher!IsPrefix(p[h].name, p[i].name)
            /\ FirstHit(m, Matcher!Variables(p), p[h].name)
<1>1. PICK vs : vs = Matcher!Variables(p)
  OBVIOUS
<1>2. Named(vs, p, {j \in DOMAIN p : Matcher!IsVariable(p, j)})
  BY <1>1, NamesOfHoles
<1>3. m \in DOMAIN vs /\ Matcher!IsPrefix(vs[m], p[i].name)
  BY <1>1 DEF FirstHit
<1>4. PICK h \in DOMAIN p : Matcher!IsVariable(p, h) /\ vs[m] = p[h].name
  BY <1>2, <1>3 DEF Named
<1>5. h \in Matcher!Holes(p) /\ p[h].kind = "colon"
  BY <1>4, HolesAre
<1>6. /\ p[i].name \in Seq(Letters) /\ p[h].name \in Seq(Letters)
      /\ \A k \in DOMAIN vs : vs[k] \in Seq(Letters)
  <2>1. p[i] \in PathPieces /\ p[h] \in PathPieces
    BY DEF Framed
  <2>2. vs \in Seq(Seq(Letters))
    BY <1>2 DEF Named
  <2> QED
    BY <2>1, <2>2, PiecesTyped
<1>7. Matcher!IsPrefix(p[h].name, p[h].name)
  BY <1>6, PrefixOrder
<1>8. ASSUME NEW k \in DOMAIN vs, Matcher!IsPrefix(vs[k], p[h].name) PROVE m <= k
  <2>1. Matcher!IsPrefix(vs[k], p[i].name)
    BY <1>3, <1>4, <1>6, <1>8, PrefixOrder
  <2> QED
    BY <1>1, <2>1 DEF FirstHit
<1> QED
  BY <1>1, <1>3, <1>4, <1>5, <1>7, <1>8 DEF FirstHit

(* The pattern of a path whose names are good and whose regular expression *)
(* builds.                                                                 *)
LEMMA OwnGroups ==
  ASSUME NEW p, Framed(p), Matcher!Builds(Matcher!Pattern(p))
  PROVE  IsPatternOf(Matcher!Anchored(Matcher!Pattern(p)), p)
<1>1. PICK n : n = Len(p)
  OBVIOUS
<1>2. PICK q, vs : q = Matcher!Pattern(p) /\ vs = Matcher!Variables(p)
  OBVIOUS
<1>3. /\ n \in Nat /\ DOMAIN p = 1 .. n /\ q \in Seq(PatternParts) /\ Len(q) = n /\ DOMAIN q = 1 .. n
      /\ \A i \in 1 .. n : IsRewritten(q[i], p[i], vs) /\ p[i] \in PathPieces
  BY <1>1, <1>2, PatternIs DEF Framed
<1>4. \A i, j \in Grouped(q) : q[i].name = q[j].name => i = j
  BY <1>2, <1>3, GroupsApart DEF Matcher!Builds
<1>5. \A group, name, rest : Matcher!Part(group, name, rest)
                               = [group |-> group, name |-> name, rest |-> rest]
  BY DEF Matcher!Part
<1>6. ASSUME NEW i \in 1 .. n, p[i].kind = "colon", NEW m, FirstHit(m, vs, p[i].name)
      PROVE  /\ i \in Matcher!Holes(p) /\ q[i] = Matcher!Part("segment", p[i].name, <<>>)
  <2>1. PICK h \in 1 .. n :
            /\ h \in Matcher!Holes(p) /\ p[h].kind = "colon" /\ p[h].name = vs[m]
            /\ FirstHit(m, vs, p[h].name)
    BY <1>2, <1>3, <1>6, HitIsHole
  <2>2. /\ q[i] = Matcher!Part("segment", vs[m], SubSeq(p[i].name, Len(vs[m]) + 1, Len(p[i].name)))
        /\ q[h] = Matcher!Part("segment", vs[m], SubSeq(p[h].name, Len(vs[m]) + 1, Len(p[h].name)))
    BY <1>3, <1>6, <2>1 DEF IsRewritten
  <2>3. i \in Grouped(q) /\ h \in Grouped(q) /\ q[i].name = q[h].name
    BY ONLY <1>3, <1>5, <2>2, i \in 1 .. n DEF Grouped, IsGroup
  <2>4. h = i
    BY <1>4, <2>3
  <2>5. p[i].name \in Seq(Letters)
    BY <1>3, PiecesTyped
  <2>6. SubSeq(p[i].name, Len(p[i].name) + 1, Len(p[i].name)) = <<>>
    BY ONLY <2>5
  <2> QED
    BY <2>1, <2>2, <2>4, <2>6
<1>7. ASSUME NEW i \in 1 .. n, Matcher!IsVariable(p, i)
      PROVE  \E m : FirstHit(m, vs, p[i].name)
  <2>1. Named(vs, p, {j \in DOMAIN p : Matcher!IsVariable(p, j)})
    BY <1>2, NamesOfHoles
  <2>2. PICK k \in DOMAIN vs : vs[k] = p[i].name
    BY <1>3, <1>7, <2>1 DEF Named
  <2>3. PICK hits : hits = {j \in DOMAIN vs : Matcher!IsPrefix(vs[j], p[i].name)}
    OBVIOUS
  <2>4. p[i].name \in Seq(Letters) /\ vs \in Seq(Seq(Letters))
    BY <1>3, <2>1, PiecesTyped DEF Named
  <2>5. k \in hits
    BY <2>2, <2>3, <2>4, PrefixOrder
  <2>6. hits \subseteq Nat /\ hits # {}
    <3>1. DOMAIN vs \subseteq Nat
      BY ONLY <2>4
    <3> QED
      BY ONLY <2>3, <2>5, <3>1
  <2>7. PICK m \in hits : \A x \in hits : m <= x
    BY ONLY <2>6, LeastElement
  <2> QED
    BY <2>3, <2>7 DEF FirstHit
<1>8. ASSUME NEW i \in 1 .. n
      PROVE  /\ i \in Matcher!Holes(p) =>
                  q[i] = Matcher!Part(IF p[i].kind = "star" THEN "any" ELSE "segment", p[i].name, <<>>)
             /\ i \notin Matcher!Holes(p) => q[i] = Matcher!Part("none", <<>>, Matcher!Spelled(p[i]))
  <2>1. /\ i \in Matcher!Holes(p) <=> p[i].kind = "star" \/ Matcher!IsVariable(p, i)
        /\ Matcher!IsVariable(p, i) => p[i].kind = "colon"
    BY <1>3, HolesAre
  <2>2. IsRewritten(q[i], p[i], vs) /\ p[i].kind \in {"char", "colon", "star"}
    BY <1>3, PiecesTyped
  <2>3. CASE p[i].kind = "star"
    BY <2>1, <2>2, <2>3 DEF IsRewritten
  <2>4. CASE p[i].kind = "char"
    BY <2>1, <2>2, <2>4 DEF IsRewritten
  <2>5. CASE p[i].kind = "colon" /\ \E m : FirstHit(m, vs, p[i].name)
    BY <1>6, <2>5
  <2>6. CASE p[i].kind = "colon" /\ ~\E m : FirstHit(m, vs, p[i].name)
    <3>1. q[i] = Matcher!Part("none", <<>>, Matcher!Spelled(p[i]))
      BY <2>2, <2>6 DEF IsRewritten
    <3>2. i \notin Matcher!Holes(p)
      BY <1>7, <2>1, <2>6
    <3> QED
      BY <3>1, <3>2
  <2> QED
    BY <2>2, <2>3, <2>4, <2>5, <2>6
<1>9. PICK all : all = Matcher!Anchored(q)
  OBVIOUS
<1>10. /\ all \in Seq(PatternParts) /\ Len(all) = n + 1 /\ all[n + 1] = Matcher!End
       /\ \A i \in 1 .. n : all[i] = q[i]
  <2>1. Matcher!End \in PatternParts
    BY DEF Matcher!End, Matcher!Part, PatternParts
  <2>2. all = q \o <<Matcher!End>>
    BY <1>9 DEF Matcher!Anchored
  <2> QED
    BY ONLY <1>3, <2>1, <2>2
<1> QED
  BY <1>1, <1>2, <1>3, <1>8, <1>9, <1>10 DEF IsPatternOf

(* What from_str makes of a path.                                          *)
LEMMA FromStrIs ==
  ASSUME NEW raw, raw \in Seq(PathPieces)
  PROVE  \E p : /\ p = Matcher!Standardized(raw, Matcher!Slash) /\ Framed(p)
                /\ Matcher!FromStr(raw).path = p
                /\ Matcher!FromStr(raw).kind \in {"static", "dynamic", "missing", "conflict", "panic"}
                /\ Matcher!FromStr(raw).kind = "static" => Matcher!Holes(p) = {}
                /\ Matcher!FromStr(raw).kind = "dynamic" =>
                     IsPatternOf(Matcher!FromStr(raw).pattern, p) /\ NoNameTwice(p, Matcher!Holes(p))
                /\ Matcher!FromStr(raw).kind = "panic" =>
                     ~Matcher!Builds(Matcher!Pattern(p)) /\ NoNameTwice(p, Matcher!Holes(p))
<1>1. PICK p : p = Matcher!Standardized(raw, Matcher!Slash)
  OBVIOUS
<1>2. Framed(p)
  <2>1. Matcher!Slash \in PathPieces
    BY PiecesTyped
  <2>2. PICK slash : slash = Matcher!Slash
    OBVIOUS
  <2>3. slash \in PathPieces
    BY ONLY <2>1, <2>2
  <2>4. PICK made : made = Matcher!Standardized(raw, slash)
    OBVIOUS
  <2>5. /\ made \in Seq(PathPieces) /\ Len(made) >= 2
        /\ made[1] = slash /\ made[Len(made)] = slash
    <3>1. HasEnds(Matcher!Standardized(raw, slash), PathPieces, slash)
      BY ONLY <2>3, raw \in Seq(PathPieces), StandardizedIs, Zenon
    <3> QED
      BY ONLY <2>4, <3>1 DEF HasEnds
  <2> QED
    BY ONLY <1>1, <2>2, <2>4, <2>5 DEF Framed
<1>3. PICK names : names = Matcher!Wildcards(p) \o Matcher!Variables(p)
  OBVIOUS
<1>4. /\ Named(names, p, Matcher!Holes(p))
      /\ Matcher!NameError(names) = "none" => NoNameTwice(p, Matcher!Holes(p))
  BY <1>2, <1>3, NamesOfHoles
<1>5. PICK r : r = Matcher!FromStr(raw)
  OBVIOUS
<1>6. \A kind, x, pattern, set :
         /\ Matcher!Parsed(kind, x, pattern, set).kind = kind
         /\ Matcher!Parsed(kind, x, pattern, set).path = x
         /\ Matcher!Parsed(kind, x, pattern, set).pattern = pattern
  BY DEF Matcher!Parsed
<1>7. Matcher!NameError(names) \in {"none", "missing", "conflict"}
  BY DEF Matcher!NameError
<1>8. \/ names = <<>> /\ r = Matcher!Parsed("static", p, <<>>, {})
      \/ /\ Matcher!NameError(names) # "none"
         /\ r = Matcher!Parsed(Matcher!NameError(names), p, <<>>, {})
      \/ /\ Matcher!NameError(names) = "none" /\ ~Matcher!Builds(Matcher!Pattern(p))
         /\ r = Matcher!Parsed("panic", p, <<>>, {})
      \/ /\ Matcher!NameError(names) = "none" /\ Matcher!Builds(Matcher!Pattern(p))
         /\ r = Matcher!Parsed("dynamic", p, Matcher!Anchored(Matcher!Pattern(p)),
                               Matcher!ToSet(names))
  BY <1>1, <1>3, <1>5, <1>7 DEF Matcher!FromStr
<1>9. names = <<>> => Matcher!Holes(p) = {}
  BY <1>4 DEF Named
<1>10. /\ r.path = p /\ r.kind \in {"static", "dynamic", "missing", "conflict", "panic"}
       /\ r.kind = "static" => names = <<>>
       /\ r.kind = "dynamic" => /\ Matcher!NameError(names) = "none" /\ Matcher!Builds(Matcher!Pattern(p))
                                /\ r.pattern = Matcher!Anchored(Matcher!Pattern(p))
       /\ r.kind = "panic" => Matcher!NameError(names) = "none" /\ ~Matcher!Builds(Matcher!Pattern(p))
  BY ONLY <1>6, <1>7, <1>8
<1>11. r.kind = "dynamic" => IsPatternOf(r.pattern, p)
  BY <1>2, <1>10, OwnGroups
<1> QED
  BY <1>1, <1>2, <1>4, <1>5, <1>9, <1>10, <1>11

(* How the parts of such a pattern match a text: a hole takes characters   *)
(* that are allowed in it, at least one, anything else what it spells.     *)
Fills(piece, s, a, b) ==
  /\ b \in a + 1 .. Len(s)
  /\ \A m \in a + 1 .. b : s[m] # " " /\ (piece.kind = "colon" => s[m] # "/")

Spells(piece, s, a, b) ==
  /\ b = a + Len(Matcher!Spelled(piece)) /\ b <= Len(s)
  /\ SubSeq(s, a + 1, b) = Matcher!Spelled(piece)

(* So does a hole,                                                         *)
LEMMA HoleGoes ==
  ASSUME NEW p, Framed(p), NEW q, IsPatternOf(q, p), NEW s, s \in Seq(Letters),
         NEW a, a \in Nat, NEW b, b \in Nat, NEW i, i \in Matcher!Holes(p)
  PROVE  Goes(q[i], s, a, b) <=> Fills(p[i], s, a, b)
<1>1. \A group, name, rest : Matcher!Part(group, name, rest)
                               = [group |-> group, name |-> name, rest |-> rest]
  BY DEF Matcher!Part
<1>2. PICK n : n = Len(s) /\ n \in Nat
  OBVIOUS
<1>3. i \in DOMAIN p /\ p[i].kind \in {"star", "colon"}
  BY DEF Matcher!Holes
<1>4. PICK g : g = IF p[i].kind = "star" THEN "any" ELSE "segment"
  OBVIOUS
<1>5. q[i] = Matcher!Part(g, p[i].name, <<>>)
  BY <1>3, <1>4 DEF IsPatternOf
<1>6. q[i].group = g /\ q[i].rest = <<>> /\ g \in {"any", "segment"} /\ g # "end" /\ g # "none"
  BY ONLY <1>1, <1>4, <1>5
<1>7. Matcher!Reads(s, b, <<>>) <=> b <= n
  <2>1. SubSeq(s, b + 1, b + 0) = <<>>
    BY ONLY s \in Seq(Letters), b \in Nat
  <2>2. Len(<<>>) = 0 /\ b + 0 = b
    BY ONLY b \in Nat
  <2> QED
    BY ONLY <1>2, <2>1, <2>2 DEF Matcher!Reads
<1>8. b - Len(<<>>) = b
  BY ONLY b \in Nat
<1>9. Goes(q[i], s, a, b) <=>
        /\ b \in a + 1 .. n /\ Matcher!Reads(s, b, <<>>)
        /\ \A m \in a + 1 .. b : s[m] \notin Matcher!Refused(g)
  BY ONLY <1>2, <1>6, <1>8 DEF Goes, IsGroup
<1>10. \A x : x \notin Matcher!Refused(g) <=> x # " " /\ (p[i].kind = "colon" => x # "/")
  BY ONLY <1>3, <1>4 DEF Matcher!Refused
<1>11. b \in a + 1 .. n => b <= n
  BY ONLY <1>2, a \in Nat, b \in Nat
<1> QED
  BY ONLY <1>2, <1>7, <1>9, <1>10, <1>11 DEF Fills

(* so does anything else,                                                  *)
LEMMA SpelledGoes ==
  ASSUME NEW p, Framed(p), NEW q, IsPatternOf(q, p), NEW s, s \in Seq(Letters),
         NEW a, a \in Nat, NEW b, b \in Nat, NEW i, i \in DOMAIN p, i \notin Matcher!Holes(p)
  PROVE  Goes(q[i], s, a, b) <=> Spells(p[i], s, a, b)
<1>1. \A group, name, rest : Matcher!Part(group, name, rest)
                               = [group |-> group, name |-> name, rest |-> rest]
  BY DEF Matcher!Part
<1>2. q[i] = Matcher!Part("none", <<>>, Matcher!Spelled(p[i]))
  BY DEF IsPatternOf
<1>3. q[i].group = "none" /\ q[i].rest = Matcher!Spelled(p[i])
  BY ONLY <1>1, <1>2
<1> QED
  BY ONLY <1>3 DEF Goes, IsGroup, Matcher!Reads, Spells

(* and the end only the end of the text.                                   *)
LEMMA EndGoes ==
  ASSUME NEW p, Framed(p), NEW q, IsPatternOf(q, p), NEW s, NEW a, NEW b
  PROVE  Goes(q[Len(p) + 1], s, a, b) <=> a = Len(s) /\ b = a
<1>1. q[Len(p) + 1].group = "end"
  BY DEF IsPatternOf, Matcher!End, Matcher!Part
<1> QED
  BY ONLY <1>1 DEF Goes, IsGroup

(* The path of a route with values for its holes.                          *)
Replaced(values, p) ==
  [i \in DOMAIN p |-> IF i \in Matcher!Holes(p) THEN values[p[i].name] ELSE Matcher!Spelled(p[i])]

(* Substituted puts them together.                                         *)
LEMMA SubstitutedIs ==
  ASSUME Framed(parsed.path), NEW values
  PROVE  Matcher!Substituted(values) = Flattened(Replaced(values, parsed.path))
<1>1. PICK p : p = parsed.path
  OBVIOUS
<1> DEFINE value(i) == CASE p[i].kind = "char" -> p[i].name
                         [] i \in Matcher!Holes(p) -> values[p[i].name]
                         [] p[i].kind = "colon" /\ i \notin Matcher!Holes(p) -> <<":">> \o p[i].name
<1>2. Matcher!Substituted(values) = Matcher!Flattened([i \in DOMAIN p |-> value(i)])
  BY <1>1 DEF Matcher!Substituted
<1>3. \A i \in DOMAIN p :
         value(i) = IF i \in Matcher!Holes(p) THEN values[p[i].name] ELSE Matcher!Spelled(p[i])
  <2> SUFFICES ASSUME NEW i \in DOMAIN p
               PROVE  value(i) = IF i \in Matcher!Holes(p) THEN values[p[i].name]
                                 ELSE Matcher!Spelled(p[i])
    OBVIOUS
  <2>1. p[i].kind \in {"char", "colon", "star"}
    BY <1>1, PiecesTyped DEF Framed
  <2>2. i \in Matcher!Holes(p) => p[i].kind # "char"
    BY DEF Matcher!Holes
  <2>3. p[i].kind = "star" => i \in Matcher!Holes(p)
    BY DEF Matcher!Holes
  <2>4. CASE i \in Matcher!Holes(p)
    BY <2>2, <2>4
  <2>5. CASE i \notin Matcher!Holes(p) /\ p[i].kind = "char"
    BY <2>5 DEF Matcher!Spelled
  <2>6. CASE i \notin Matcher!Holes(p) /\ p[i].kind = "colon"
    BY <2>6 DEF Matcher!Spelled
  <2> QED
    BY <2>1, <2>3, <2>4, <2>5, <2>6
<1> HIDE DEF value
<1>4. [i \in DOMAIN p |-> value(i)] = Replaced(values, p)
  BY <1>3 DEF Replaced
<1> QED
  BY <1>1, <1>2, <1>4, SameInMatcher

(* The groups of such a pattern are the holes of the path, in order.       *)
GroupsAt(names, order, p, q) ==
  /\ order = OrderTo(q, Len(p) + 1) /\ names = Matcher!Groups(q) /\ DOMAIN names = DOMAIN order
  /\ \A k \in DOMAIN order : order[k] \in Matcher!Holes(p) /\ names[k] = p[order[k]].name
  /\ \A i \in Matcher!Holes(p) : q[i].rest = <<>>
  /\ \A i \in Matcher!Holes(p) : \E k \in DOMAIN order : order[k] = i
  /\ \A k, l \in DOMAIN names : names[k] = names[l] => k = l
  /\ \A x : x \in Matcher!ToSet(names) <=> \E k \in DOMAIN order : x = names[k]
  /\ \A x : x \in Matcher!ToSet(names) <=> x \in Matcher!Declared(p)

(* They are what is captured.                                              *)
LEMMA GroupsAreHoles ==
  ASSUME NEW p, Framed(p), NEW q, IsPatternOf(q, p), NoNameTwice(p, Matcher!Holes(p))
  PROVE  \E order, names : GroupsAt(names, order, p, q)
<1>1. PICK n : n = Len(p)
  OBVIOUS
<1>2. /\ n \in Nat /\ DOMAIN p = 1 .. n /\ q \in Seq(PatternParts) /\ Len(q) = n + 1
      /\ DOMAIN q = 1 .. n + 1
  BY <1>1 DEF Framed, IsPatternOf
<1>3. PICK names : names = Matcher!Groups(q)
  OBVIOUS
<1>4. Grouped(q) = Matcher!Holes(p) /\ \A i \in Matcher!Holes(p) : q[i].name = p[i].name /\ q[i].rest = <<>>
  <2>1. \A group, name, rest : Matcher!Part(group, name, rest)
                                 = [group |-> group, name |-> name, rest |-> rest]
    BY DEF Matcher!Part
  <2>2. ASSUME NEW i \in 1 .. n, i \in Matcher!Holes(p)
        PROVE  IsGroup(q[i]) /\ q[i].name = p[i].name /\ q[i].rest = <<>>
    <3>1. PICK g : g = IF p[i].kind = "star" THEN "any" ELSE "segment"
      OBVIOUS
    <3>2. q[i] = Matcher!Part(g, p[i].name, <<>>)
      BY <1>2, <2>2, <3>1 DEF IsPatternOf
    <3> QED
      BY ONLY <2>1, <3>1, <3>2 DEF IsGroup
  <2>3. ASSUME NEW i \in 1 .. n, i \notin Matcher!Holes(p) PROVE ~IsGroup(q[i])
    <3>1. q[i] = Matcher!Part("none", <<>>, Matcher!Spelled(p[i]))
      BY <1>2, <2>3 DEF IsPatternOf
    <3> QED
      BY ONLY <2>1, <3>1 DEF IsGroup
  <2>4. ~IsGroup(q[n + 1])
    <3>1. q[n + 1] = Matcher!Part("end", <<>>, <<>>)
      BY <1>1 DEF IsPatternOf, Matcher!End
    <3> QED
      BY ONLY <2>1, <3>1 DEF IsGroup
  <2>5. Matcher!Holes(p) \subseteq 1 .. n
    BY <1>2 DEF Matcher!Holes
  <2>6. \A i \in 1 .. n + 1 : i \in 1 .. n \/ i = n + 1
    BY <1>2
  <2>7. \A i \in 1 .. n : i \in 1 .. n + 1
    BY <1>2
  <2>8. \A i : i \in Grouped(q) <=> i \in Matcher!Holes(p)
    BY ONLY <1>2, <2>2, <2>3, <2>4, <2>5, <2>6, <2>7 DEF Grouped
  <2>9. Grouped(q) = Matcher!Holes(p)
    BY ONLY <2>8
  <2> QED
    BY <2>2, <2>5, <2>9
<1>5. PICK order : order = OrderTo(q, n + 1)
  OBVIOUS
<1>6. AreInOrder(order, n + 1, Matcher!Holes(p))
  <2>1. n + 1 \in Nat
    BY <1>2
  <2> QED
    BY ONLY <1>4, <1>5, <2>1, PlacesInOrder DEF OrderTo
<1>7. names = [k \in DOMAIN order |-> q[order[k]].name]
  <2>1. names = Matcher!NamesAt(q, Grouped(q))
    BY <1>3 DEF Matcher!Groups, Grouped, IsGroup
  <2> QED
    BY <1>2, <1>5, <2>1, SameInMatcher DEF Matcher!NamesAt, OrderTo
<1>8. /\ \A k \in DOMAIN order : order[k] \in Matcher!Holes(p)
      /\ \A i \in Matcher!Holes(p) : \E k \in DOMAIN order : order[k] = i
      /\ \A k, l \in DOMAIN order : order[k] = order[l] => k = l
  <2>1. order \in Seq(1 .. n + 1) /\ Matcher!Holes(p) \subseteq 1 .. n + 1
    BY <1>2, <1>6 DEF AreInOrder, Matcher!Holes
  <2>2. /\ \A k \in DOMAIN order : order[k] \in 1 .. n + 1
        /\ \A k, l \in DOMAIN order : k < l \/ l < k \/ k = l
    BY ONLY <1>2, <2>1
  <2>3. \A k, l \in DOMAIN order : k < l => order[k] < order[l]
    BY <1>6 DEF AreInOrder
  <2>4. \A x \in 1 .. n + 1 : x \in Matcher!Holes(p) <=> \E k \in DOMAIN order : order[k] = x
    BY <1>6 DEF AreInOrder
  <2>5. \A x \in 1 .. n + 1 : ~(x < x)
    BY <1>2
  <2>6. \A k, l \in DOMAIN order : order[k] = order[l] => k = l
    BY ONLY <2>2, <2>3, <2>5
  <2>7. \A k \in DOMAIN order : order[k] \in Matcher!Holes(p)
    BY ONLY <2>2, <2>4
  <2>8. \A i \in Matcher!Holes(p) : \E k \in DOMAIN order : order[k] = i
    BY ONLY <2>1, <2>4
  <2> QED
    BY ONLY <2>6, <2>7, <2>8
<1>9. /\ DOMAIN names = DOMAIN order
      /\ \A k \in DOMAIN order : names[k] = p[order[k]].name
  BY <1>4, <1>7, <1>8
<1>10. \A k, l \in DOMAIN order : names[k] = names[l] => k = l
  BY <1>8, <1>9 DEF NoNameTwice
<1>11. \A x : x \in Matcher!ToSet(names) <=> \E k \in DOMAIN order : x = names[k]
  BY <1>9 DEF Matcher!ToSet
<1>12. \A x : x \in Matcher!Declared(p) <=> \E i \in Matcher!Holes(p) : x = p[i].name
  BY DEF Matcher!Declared
<1>13. \A x : x \in Matcher!ToSet(names) <=> x \in Matcher!Declared(p)
  <2>1. ASSUME NEW k \in DOMAIN order PROVE names[k] \in Matcher!Declared(p)
    BY <1>8, <1>9, <1>12
  <2>2. ASSUME NEW i \in Matcher!Holes(p) PROVE p[i].name \in Matcher!ToSet(names)
    <3>1. PICK k \in DOMAIN order : order[k] = i
      BY <1>8
    <3> QED
      BY <1>9, <1>11, <3>1
  <2> QED
    BY <1>11, <1>12, <2>1, <2>2
<1> QED
  BY <1>1, <1>3, <1>4, <1>5, <1>8, <1>9, <1>10, <1>11, <1>13 DEF GroupsAt

(* What is captured is what a cut gives the holes.                         *)
LEMMA CaptureIsCut ==
  ASSUME NEW p, Framed(p), NEW q, IsPatternOf(q, p), NoNameTwice(p, Matcher!Holes(p)),
         NEW s, s \in Seq(Letters), Matcher!IsMatch(q, s)
  PROVE  \E c : /\ CutTo(c, q, s, Len(p) + 1)
                /\ DOMAIN Matcher!Captures(q, s) = Matcher!Declared(p)
                /\ \A i \in Matcher!Holes(p) :
                     Matcher!Captures(q, s)[p[i].name] = SubSeq(s, c[i - 1] + 1, c[i])
<1>1. PICK n : n = Len(p)
  OBVIOUS
<1>2. /\ n \in Nat /\ DOMAIN p = 1 .. n /\ q \in Seq(PatternParts) /\ Len(q) = n + 1
      /\ DOMAIN q = 1 .. n + 1
  BY <1>1 DEF Framed, IsPatternOf
<1>3. PICK best : best = CHOOSE u \in Matcher!Splits(q, s) : \A v \in Matcher!Splits(q, s) :
                            u = v \/ Matcher!Greedier(u, v)
  OBVIOUS
<1>4. PICK c : CutTo(c, q, s, n + 1) /\ ValuesTo(c, q, s, n + 1) = best
  BY <1>2, <1>3, BestIsCut
<1>5. PICK order, names : GroupsAt(names, order, p, q)
  BY GroupsAreHoles
<1>6. /\ order = OrderTo(q, n + 1) /\ names = Matcher!Groups(q) /\ DOMAIN names = DOMAIN order
      /\ \A k \in DOMAIN order : names[k] = p[order[k]].name
      /\ \A i \in Matcher!Holes(p) : q[i].rest = <<>>
      /\ \A i \in Matcher!Holes(p) : \E k \in DOMAIN order : order[k] = i
      /\ \A k, l \in DOMAIN names : names[k] = names[l] => k = l
      /\ \A x : x \in Matcher!ToSet(names) <=> \E k \in DOMAIN order : x = names[k]
      /\ \A x : x \in Matcher!ToSet(names) <=> x \in Matcher!Declared(p)
  BY <1>1, <1>5 DEF GroupsAt
<1>7. best = [k \in DOMAIN order |-> Value(q[order[k]], s, c[order[k] - 1], c[order[k]])]
  BY <1>4, <1>6 DEF ValuesTo
<1>8. PICK values : values = Matcher!Captures(q, s)
  OBVIOUS
<1>9. values = [x \in Matcher!ToSet(names) |-> best[CHOOSE k \in DOMAIN names : names[k] = x]]
  BY <1>3, <1>6, <1>8 DEF Matcher!Captures
<1>10. DOMAIN values = Matcher!Declared(p)
  BY ONLY <1>6, <1>9
<1>11. ASSUME NEW i \in Matcher!Holes(p)
       PROVE  values[p[i].name] = SubSeq(s, c[i - 1] + 1, c[i])
  <2>1. PICK k \in DOMAIN order : order[k] = i
    BY <1>6
  <2>2. names[k] = p[i].name
    BY <1>6, <2>1
  <2>3. (CHOOSE l \in DOMAIN names : names[l] = p[i].name) = k
    BY <1>6, <2>1, <2>2
  <2>4. p[i].name \in Matcher!ToSet(names)
    BY <1>6, <2>1, <2>2
  <2>5. values[p[i].name] = best[k]
    BY <1>9, <2>3, <2>4
  <2>6. best[k] = Value(q[i], s, c[i - 1], c[i])
    BY <1>7, <2>1
  <2>7. q[i].rest = <<>>
    BY <1>6
  <2>8. c[i] \in Nat
    <3>1. c \in [0 .. n + 1 -> 0 .. Len(s)] /\ i \in 0 .. n + 1 /\ Len(s) \in Nat
      BY <1>2, <1>4 DEF CutTo, Matcher!Holes
    <3> QED
      BY ONLY <3>1
  <2>9. c[i] - Len(<<>>) = c[i]
    BY ONLY <2>8
  <2> QED
    BY <2>5, <2>6, <2>7, <2>9 DEF Value
<1> QED
  BY <1>1, <1>4, <1>8, <1>10, <1>11

(* The invariant: a path is parsed and a text matched as the code does it. *)
MatchInv ==
  /\ path \in Paths
  /\ \/ parsed = Matcher!Unparsed /\ text = <<>> /\ found = {}
     \/ parsed = Matcher!FromStr(path)
  /\ \/ text = <<>> /\ found = {}
     \/ /\ parsed.kind = "dynamic"
        /\ \E t \in Texts :
             /\ text = Matcher!Standardized(t, "/")
             /\ found = IF Matcher!IsMatch(parsed.pattern, text)
                        THEN {Matcher!Captures(parsed.pattern, text)} ELSE {}

(* A dynamic route that is matched against the path of a request.          *)
Matched(p, q, s) ==
  /\ p = parsed.path /\ Framed(p) /\ q = parsed.pattern /\ IsPatternOf(q, p)
  /\ NoNameTwice(p, Matcher!Holes(p)) /\ s = text /\ s \in Seq(Letters)

(* What is captured makes the path of the request.                         *)
LEMMA CapturesRebuild ==
  ASSUME NEW p, NEW q, NEW s, Matched(p, q, s),
         found \in {{}, {Matcher!Captures(q, s)}}, found # {} => Matcher!IsMatch(q, s)
  PROVE  Matcher!CapturesRebuildRequest
<1> SUFFICES ASSUME NEW values, values = Matcher!Captures(q, s), Matcher!IsMatch(q, s)
             PROVE  /\ values \in [Matcher!Declared(p) -> Matcher!Substrings]
                    /\ Matcher!Allowed(values) /\ Matcher!Substituted(values) = text
  BY Zenon DEF Matcher!CapturesRebuildRequest, Matched
<1>1. PICK n, m : n = Len(p) /\ m = Len(s)
  OBVIOUS
<1>2. /\ n \in Nat /\ m \in Nat /\ DOMAIN p = 1 .. n /\ p = parsed.path /\ s = text /\ Framed(p)
      /\ IsPatternOf(q, p) /\ NoNameTwice(p, Matcher!Holes(p)) /\ s \in Seq(Letters)
      /\ DOMAIN s = 1 .. m /\ Matcher!Holes(p) \subseteq 1 .. n
  <2>1. /\ p = parsed.path /\ s = text /\ Framed(p)
        /\ IsPatternOf(q, p) /\ NoNameTwice(p, Matcher!Holes(p)) /\ s \in Seq(Letters)
    BY DEF Matched
  <2>2. p \in Seq(PathPieces)
    BY <2>1 DEF Framed
  <2>3. n \in Nat /\ m \in Nat /\ DOMAIN p = 1 .. n /\ DOMAIN s = 1 .. m
    BY ONLY <1>1, <2>1, <2>2
  <2>4. Matcher!Holes(p) \subseteq 1 .. n
    BY <2>3 DEF Matcher!Holes
  <2> QED
    BY <2>1, <2>3, <2>4
<1>3. PICK c : /\ CutTo(c, q, s, n + 1) /\ DOMAIN values = Matcher!Declared(p)
               /\ \A i \in Matcher!Holes(p) : values[p[i].name] = SubSeq(s, c[i - 1] + 1, c[i])
  BY <1>1, <1>2, CaptureIsCut
<1>4. /\ c[0] = 0 /\ \A k \in 0 .. n + 1 : c[k] \in 0 .. m
      /\ \A i \in 1 .. n + 1 : Goes(q[i], s, c[i - 1], c[i])
  <2>1. Len(q) = n + 1
    BY <1>1, <1>2 DEF IsPatternOf
  <2> QED
    BY <1>1, <1>2, <1>3, <2>1 DEF CutTo
<1>5. \A i \in 1 .. n + 1 : c[i - 1] \in Nat /\ c[i] \in Nat /\ i - 1 \in 0 .. n + 1
  <2>1. \A i \in 1 .. n + 1 : i \in 0 .. n + 1 /\ i - 1 \in 0 .. n + 1
    BY ONLY <1>2
  <2> QED
    BY ONLY <1>2, <1>4, <2>1
<1>6. \A i \in 1 .. n : i \in 1 .. n + 1 /\ Goes(q[i], s, c[i - 1], c[i])
  <2>1. \A i \in 1 .. n : i \in 1 .. n + 1
    BY ONLY <1>2
  <2> QED
    BY <1>4, <2>1
<1>7. ASSUME NEW i \in Matcher!Holes(p)
      PROVE  /\ i \in 1 .. n /\ c[i] \in c[i - 1] + 1 .. m /\ c[i - 1] \in Nat /\ c[i] \in Nat
             /\ \A k \in c[i - 1] + 1 .. c[i] : s[k] # " " /\ (p[i].kind = "colon" => s[k] # "/")
  <2>1. i \in 1 .. n /\ c[i - 1] \in Nat /\ c[i] \in Nat
    BY <1>2, <1>5, <1>6
  <2>2. PICK a, b : a = c[i - 1] /\ b = c[i]
    OBVIOUS
  <2>3. Goes(q[i], s, a, b) /\ a \in Nat /\ b \in Nat
    BY <1>6, <2>1, <2>2
  <2>4. Fills(p[i], s, a, b)
    BY ONLY <1>2, <2>3, i \in Matcher!Holes(p), HoleGoes, Zenon
  <2> QED
    BY ONLY <1>1, <2>1, <2>2, <2>4 DEF Fills
<1>8. ASSUME NEW i \in 1 .. n, i \notin Matcher!Holes(p)
      PROVE  /\ c[i] = c[i - 1] + Len(Matcher!Spelled(p[i])) /\ c[i] <= m
             /\ SubSeq(s, c[i - 1] + 1, c[i]) = Matcher!Spelled(p[i])
             /\ c[i - 1] \in Nat /\ c[i] \in Nat
  <2>1. PICK a, b : a = c[i - 1] /\ b = c[i]
    OBVIOUS
  <2>2. a \in Nat /\ b \in Nat /\ Goes(q[i], s, a, b)
    BY <1>5, <1>6, <2>1
  <2>3. i \in DOMAIN p /\ i \notin Matcher!Holes(p)
    BY <1>2, <1>8
  <2>4. Spells(p[i], s, a, b)
    BY ONLY <1>2, <2>2, <2>3, SpelledGoes, Zenon
  <2> QED
    BY ONLY <1>1, <2>1, <2>2, <2>4 DEF Spells
<1>9. c[n] = m
  <2>1. n + 1 \in 1 .. n + 1 /\ (n + 1) - 1 = n
    BY ONLY <1>2
  <2>2. Goes(q[n + 1], s, c[n], c[n + 1])
    BY <1>4, <2>1
  <2>3. PICK a, b : a = c[n] /\ b = c[n + 1]
    OBVIOUS
  <2>4. Goes(q[Len(p) + 1], s, a, b)
    BY <1>1, <2>2, <2>3
  <2> QED
    <3>1. a = Len(s)
      BY ONLY <1>2, <2>4, EndGoes, Zenon
    <3> QED
      BY ONLY <1>1, <2>3, <3>1
<1>10. ASSUME NEW i \in Matcher!Holes(p)
       PROVE  /\ values[p[i].name] \in Matcher!Substrings
              /\ values[p[i].name] \in Seq(Letters)
              /\ Len(values[p[i].name]) = c[i] - c[i - 1]
              /\ \A k \in 1 .. c[i] - c[i - 1] : values[p[i].name][k] = s[c[i - 1] + k]
  <2>1. PICK a, b, v : a = c[i - 1] /\ b = c[i] /\ v = values[p[i].name]
    OBVIOUS
  <2>2. a \in Nat /\ b \in Nat /\ b \in a + 1 .. m /\ v = SubSeq(s, a + 1, b)
    BY <1>3, <1>7, <2>1
  <2>3. v \in Seq(Letters) /\ Len(v) = b - a /\ \A k \in 1 .. b - a : v[k] = s[a + k]
    BY ONLY <1>1, <1>2, <2>2
  <2>4. a + 1 \in DOMAIN s /\ b \in DOMAIN s /\ v # <<>>
    BY ONLY <1>2, <2>2, <2>3
  <2>5. v \in Matcher!Substrings
    <3>1. PICK f : f = a + 1
      OBVIOUS
    <3>2. v = SubSeq(text, f, b) /\ f \in DOMAIN text /\ b \in DOMAIN text
      BY ONLY <1>2, <2>2, <2>4, <3>1
    <3> QED
      <4> DEFINE all == {SubSeq(text, g, h) : g, h \in DOMAIN text}
      <4>1. all = {SubSeq(text, g, h) : g, h \in DOMAIN text}
        BY ONLY DEF all
      <4>2. Matcher!Substrings = all \ {<<>>}
        BY ONLY DEF Matcher!Substrings, all
      <4> HIDE DEF all
      <4>3. \A w : w \in all <=> \E g, h \in DOMAIN text : w = SubSeq(text, g, h)
        BY ONLY <4>1, SMT
      <4>4. v \in all
        BY ONLY <3>2, <4>3, Zenon
      <4> QED
        BY ONLY <2>4, <4>2, <4>4
  <2> QED
    BY ONLY <2>1, <2>3, <2>5
<1>11. values \in [Matcher!Declared(p) -> Matcher!Substrings]
  <2>1. \A x \in Matcher!Declared(p) : values[x] \in Matcher!Substrings
    BY <1>10 DEF Matcher!Declared
  <2>2. values = [x \in DOMAIN values |-> values[x]]
    <3>1. values = [x \in Matcher!ToSet(Matcher!Groups(q)) |-> values[x]]
      BY DEF Matcher!Captures
    <3> QED
      BY <3>1
  <2> QED
    BY <1>3, <2>1, <2>2
<1>12. Matcher!Allowed(values)
  <2>1. ASSUME NEW i \in Matcher!Holes(p)
        PROVE  /\ " " \notin Matcher!ToSet(values[p[i].name])
               /\ (p[i].kind = "colon" => "/" \notin Matcher!ToSet(values[p[i].name]))
    <3>1. PICK a, b, v : a = c[i - 1] /\ b = c[i] /\ v = values[p[i].name]
      OBVIOUS
    <3>2. /\ a \in Nat /\ b \in Nat /\ b \in a + 1 .. m /\ v \in Seq(Letters) /\ Len(v) = b - a
          /\ \A k \in 1 .. b - a : v[k] = s[a + k]
          /\ \A k \in a + 1 .. b : s[k] # " " /\ (p[i].kind = "colon" => s[k] # "/")
      BY <1>7, <1>10, <3>1
    <3>3. a \in Nat /\ b \in Nat
      BY ONLY <3>2
    <3>4. \A k \in 1 .. b - a : a + k \in a + 1 .. b
      BY ONLY <3>3
    <3>5. DOMAIN v = 1 .. b - a
      <4>1. v \in Seq(Letters) /\ Len(v) = b - a
        BY ONLY <3>2
      <4> QED
        BY ONLY <4>1
    <3>6. \A k \in DOMAIN v : v[k] # " " /\ (p[i].kind = "colon" => v[k] # "/")
      BY ONLY <3>2, <3>4, <3>5
    <3> QED
      BY <3>1, <3>6 DEF Matcher!ToSet
  <2> QED
    BY <1>2, <2>1 DEF Matcher!Allowed
<1>13. PICK ss : ss = Replaced(values, p)
  OBVIOUS
<1>14. /\ ss \in Seq(Seq(Letters)) /\ Len(ss) = n
       /\ \A i \in 1 .. n : /\ c[i - 1] \in Nat /\ c[i] \in Nat
                            /\ c[i] = c[i - 1] + Len(ss[i]) /\ c[i] <= m
                            /\ SubSeq(s, c[i - 1] + 1, c[i]) = ss[i]
  <2>1. ss = [i \in 1 .. n |-> IF i \in Matcher!Holes(p) THEN values[p[i].name]
                               ELSE Matcher!Spelled(p[i])]
    BY <1>2, <1>13 DEF Replaced
  <2>2. ASSUME NEW i \in 1 .. n
        PROVE  /\ c[i - 1] \in Nat /\ c[i] \in Nat /\ ss[i] \in Seq(Letters)
               /\ c[i] = c[i - 1] + Len(ss[i]) /\ c[i] <= m
               /\ SubSeq(s, c[i - 1] + 1, c[i]) = ss[i]
    <3>1. CASE i \in Matcher!Holes(p)
      <4>1. PICK a, b, v : a = c[i - 1] /\ b = c[i] /\ v = values[p[i].name]
        OBVIOUS
      <4>2. ss[i] = v
        BY <2>1, <3>1, <4>1
      <4>3. /\ a \in Nat /\ b \in Nat /\ b \in a + 1 .. m /\ v \in Seq(Letters) /\ Len(v) = b - a
            /\ v = SubSeq(s, a + 1, b)
        BY <1>3, <1>7, <1>10, <3>1, <4>1
      <4>4. b = a + Len(v) /\ b <= m
        BY ONLY <1>2, <4>3
      <4> QED
        BY ONLY <4>1, <4>2, <4>3, <4>4
    <3>2. CASE i \notin Matcher!Holes(p)
      <4>1. ss[i] = Matcher!Spelled(p[i])
        BY <2>1, <3>2
      <4>2. Matcher!Spelled(p[i]) \in Seq(Letters)
        BY <1>2, PiecesTyped DEF Framed
      <4> QED
        BY <1>8, <3>2, <4>1, <4>2
    <3> QED
      BY <3>1, <3>2
  <2>3. ss \in Seq(Seq(Letters)) /\ Len(ss) = n
    BY ONLY <1>2, <2>1, <2>2
  <2> QED
    BY <2>2, <2>3
<1>15. Flattened(ss) = SubSeq(s, 1, c[n])
  <2>1. IsLaid(c, ss, s)
    BY <1>1, <1>4, <1>14 DEF IsLaid
  <2> QED
    BY <1>2, <1>14, <2>1, LaidIsFlattened
<1>16. SubSeq(s, 1, m) = s
  BY ONLY <1>1, <1>2
<1>17. Matcher!Substituted(values) = text
  BY <1>2, <1>9, <1>13, <1>15, <1>16, SubstitutedIs
<1> QED
  BY <1>11, <1>12, <1>17

(* A text that is not matched cannot be made of the path of the route.     *)
LEMMA MissesOthers ==
  ASSUME NEW p, NEW q, NEW s, Matched(p, q, s), ~Matcher!IsMatch(q, s)
  PROVE  Matcher!MissesOnlyOthers
<1> SUFFICES ASSUME NEW values \in [Matcher!Declared(p) -> Matcher!Substrings],
                    Matcher!Allowed(values), Matcher!Substituted(values) = text
             PROVE  FALSE
  BY Zenon DEF Matcher!MissesOnlyOthers, Matched
<1>1. PICK n, m : n = Len(p) /\ m = Len(s)
  OBVIOUS
<1>2. /\ n \in Nat /\ m \in Nat /\ DOMAIN p = 1 .. n /\ p = parsed.path /\ s = text /\ Framed(p)
      /\ IsPatternOf(q, p) /\ s \in Seq(Letters)
      /\ DOMAIN s = 1 .. m /\ Matcher!Holes(p) \subseteq 1 .. n
  <2>1. /\ p = parsed.path /\ s = text /\ Framed(p) /\ IsPatternOf(q, p) /\ s \in Seq(Letters)
    BY DEF Matched
  <2>2. p \in Seq(PathPieces)
    BY <2>1 DEF Framed
  <2>3. n \in Nat /\ m \in Nat /\ DOMAIN p = 1 .. n /\ DOMAIN s = 1 .. m
    BY ONLY <1>1, <2>1, <2>2
  <2>4. Matcher!Holes(p) \subseteq 1 .. n
    BY <2>3 DEF Matcher!Holes
  <2> QED
    BY <2>1, <2>3, <2>4
<1>3. ASSUME NEW i \in Matcher!Holes(p)
      PROVE  /\ values[p[i].name] \in Seq(Letters) /\ values[p[i].name] # <<>>
             /\ \A k \in DOMAIN values[p[i].name] :
                  /\ values[p[i].name][k] # " "
                  /\ p[i].kind = "colon" => values[p[i].name][k] # "/"
  <2>1. PICK v : v = values[p[i].name]
    OBVIOUS
  <2>2. v \in Matcher!Substrings
    BY <2>1 DEF Matcher!Declared
  <2>3. PICK a \in DOMAIN s, b \in DOMAIN s : v = SubSeq(s, a, b) /\ v # <<>>
    BY <1>2, <2>2 DEF Matcher!Substrings
  <2>4. v \in Seq(Letters)
    BY ONLY <1>2, <2>3, a \in DOMAIN s, b \in DOMAIN s, <1>1
  <2>5. " " \notin Matcher!ToSet(v) /\ (p[i].kind = "colon" => "/" \notin Matcher!ToSet(v))
    BY <1>2, <2>1 DEF Matcher!Allowed
  <2>6. \A k \in DOMAIN v : v[k] \in Matcher!ToSet(v)
    BY DEF Matcher!ToSet
  <2>7. \A k \in DOMAIN v : v[k] # " " /\ (p[i].kind = "colon" => v[k] # "/")
    BY ONLY <2>5, <2>6
  <2> QED
    BY ONLY <2>1, <2>3, <2>4, <2>7
<1>4. PICK ss : ss = Replaced(values, p)
  OBVIOUS
<1>5. /\ ss \in Seq(Seq(Letters)) /\ Len(ss) = n
      /\ \A i \in 1 .. n : ss[i] = IF i \in Matcher!Holes(p) THEN values[p[i].name]
                                   ELSE Matcher!Spelled(p[i])
  <2>1. ss = [i \in 1 .. n |-> IF i \in Matcher!Holes(p) THEN values[p[i].name]
                               ELSE Matcher!Spelled(p[i])]
    BY <1>2, <1>4 DEF Replaced
  <2>2. \A i \in 1 .. n : Matcher!Spelled(p[i]) \in Seq(Letters)
    BY <1>2, PiecesTyped DEF Framed
  <2>3. \A i \in 1 .. n : ss[i] \in Seq(Letters)
    BY ONLY <1>3, <2>1, <2>2
  <2> QED
    BY ONLY <1>2, <2>1, <2>3
<1>6. Flattened(ss) = s
  BY <1>2, <1>4, SubstitutedIs
<1>7. PICK c : c \in [0 .. n -> Nat] /\ c[n] = m /\ IsLaid(c, ss, s)
  BY <1>1, <1>5, <1>6, FlattenedIsLaid
<1>8. /\ c[0] = 0
      /\ \A i \in 1 .. n : /\ c[i - 1] \in Nat /\ c[i] \in Nat
                           /\ c[i] = c[i - 1] + Len(ss[i]) /\ c[i] <= m
                           /\ SubSeq(s, c[i - 1] + 1, c[i]) = ss[i]
  BY <1>1, <1>5, <1>7 DEF IsLaid
<1>9. PICK d : d = [k \in 0 .. n + 1 |-> IF k = n + 1 THEN m ELSE c[k]]
  OBVIOUS
<1>10. /\ d \in [0 .. n + 1 -> 0 .. m] /\ d[0] = 0 /\ d[n + 1] = m
       /\ \A k \in 0 .. n : d[k] = c[k]
  <2>1. \A k \in 0 .. n : k \in 0 .. n + 1 /\ k # n + 1
    BY ONLY <1>2
  <2>2. \A k \in 0 .. n + 1 : k \in 0 .. n \/ k = n + 1
    BY ONLY <1>2
  <2>3. \A k \in 0 .. n : k = 0 \/ k \in 1 .. n
    BY ONLY <1>2
  <2>4. \A k \in 0 .. n : c[k] \in 0 .. m
    BY ONLY <1>2, <1>8, <2>3
  <2>5. n + 1 \in 0 .. n + 1 /\ 0 \in 0 .. n /\ m \in 0 .. m
    BY ONLY <1>2
  <2> QED
    BY ONLY <1>8, <1>9, <2>1, <2>2, <2>4, <2>5
<1>11. ASSUME NEW i \in 1 .. n PROVE Goes(q[i], s, d[i - 1], d[i])
  <2>1. PICK a, b : a = c[i - 1] /\ b = c[i]
    OBVIOUS
  <2>2. d[i - 1] = a /\ d[i] = b
    <3>1. i - 1 \in 0 .. n /\ i \in 0 .. n
      BY ONLY <1>2, i \in 1 .. n
    <3> QED
      BY <1>10, <2>1, <3>1
  <2>3. a \in Nat /\ b \in Nat /\ b = a + Len(ss[i]) /\ b <= m /\ SubSeq(s, a + 1, b) = ss[i]
    BY <1>8, <2>1
  <2>4. CASE i \in Matcher!Holes(p)
    <3>1. PICK v : v = ss[i]
      OBVIOUS
    <3>2. /\ v \in Seq(Letters) /\ v # <<>>
          /\ \A k \in DOMAIN v : v[k] # " " /\ (p[i].kind = "colon" => v[k] # "/")
      BY <1>3, <1>5, <2>4, <3>1
    <3>3. Len(v) \in Nat /\ Len(v) # 0 /\ DOMAIN v = 1 .. Len(v)
      <4>1. v \in Seq(Letters) /\ v # <<>>
        BY ONLY <3>2
      <4> QED
        BY ONLY <4>1
    <3>4. b \in a + 1 .. m /\ b = a + Len(v)
      BY ONLY <1>2, <2>3, <3>1, <3>3
    <3>5. ASSUME NEW k \in a + 1 .. b PROVE s[k] # " " /\ (p[i].kind = "colon" => s[k] # "/")
      <4>1. k - a \in DOMAIN v
        BY ONLY <2>3, <3>3, <3>4, k \in a + 1 .. b
      <4>2. v[k - a] = s[k]
        <5>1. SubSeq(s, a + 1, b)[k - a] = s[(a + 1) + (k - a) - 1]
          BY ONLY <1>1, <1>2, <2>3, k \in a + 1 .. b
        <5>2. (a + 1) + (k - a) - 1 = k
          BY ONLY <2>3, k \in a + 1 .. b
        <5> QED
          BY ONLY <2>3, <3>1, <5>1, <5>2
      <4> QED
        BY ONLY <3>2, <4>1, <4>2
    <3>6. b \in a + 1 .. Len(s)
      BY ONLY <1>1, <3>4
    <3> QED
      <4> Fills(p[i], s, a, b)
        BY ONLY <3>5, <3>6 DEF Fills
      <4>1. Goes(q[i], s, a, b)
        BY ONLY <1>2, <2>3, <2>4, Fills(p[i], s, a, b), HoleGoes, Zenon
      <4> QED
        BY ONLY <2>2, <4>1
  <2>5. CASE i \notin Matcher!Holes(p)
    <3>1. ss[i] = Matcher!Spelled(p[i])
      BY <1>5, <2>5
    <3>2. i \in DOMAIN p /\ b <= Len(s)
      BY <1>1, <1>2, <2>3
    <3> QED
      <4>1. Spells(p[i], s, a, b)
        BY ONLY <2>3, <3>1, <3>2 DEF Spells
      <4>2. Goes(q[i], s, a, b)
        BY ONLY <1>2, <2>3, <2>5, <3>2, <4>1, SpelledGoes, Zenon
      <4> QED
        BY ONLY <2>2, <4>2
  <2> QED
    BY <2>4, <2>5
<1>12. Goes(q[n + 1], s, d[n], d[n + 1])
  <2>1. d[n] = m /\ d[n + 1] = m
    BY <1>2, <1>7, <1>10
  <2> QED
    <3>1. Goes(q[Len(p) + 1], s, m, m)
      BY ONLY <1>1, <1>2, EndGoes, Zenon
    <3> QED
      BY <1>1, <2>1, <3>1
<1>13. Len(q) = n + 1 /\ q \in Seq(PatternParts)
  BY <1>1, <1>2 DEF IsPatternOf
<1>14. CutTo(d, q, s, Len(q))
  <2>1. \A i \in 1 .. n + 1 : i \in 1 .. n \/ (i = n + 1 /\ i - 1 = n)
    BY ONLY <1>2
  <2>2. \A i \in 1 .. n + 1 : Goes(q[i], s, d[i - 1], d[i])
    BY ONLY <1>11, <1>12, <2>1
  <2> QED
    BY ONLY <1>1, <1>10, <1>13, <2>2 DEF CutTo
<1>15. ValuesTo(d, q, s, Len(q)) \in Matcher!Splits(q, s)
  BY <1>2, <1>13, <1>14, SplitsAreCuts
<1> QED
  BY <1>15 DEF Matcher!IsMatch

(* A path panics only for the name of one of its holes.                    *)
LEMMA PanicsOnPrefixes ==
  ASSUME NEW p, p = parsed.path, Framed(p), ~Matcher!Builds(Matcher!Pattern(p)),
         NoNameTwice(p, Matcher!Holes(p))
  PROVE  Matcher!PanicsOnlyOnPrefixes
<1> SUFFICES \E i \in DOMAIN p :
               /\ i \in Matcher!Holes(p)
               /\ \/ p[i].name[1] \in InvalidStart
                  \/ \E j \in DOMAIN p \ {i} :
                       /\ p[j].kind = "colon"
                       /\ Matcher!IsPrefix(p[i].name, p[j].name)
                       /\ j \in Matcher!Holes(p) => p[i].name # p[j].name
  BY DEF Matcher!PanicsOnlyOnPrefixes
<1>1. PICK n : n = Len(p)
  OBVIOUS
<1>2. PICK q, vs : q = Matcher!Pattern(p) /\ vs = Matcher!Variables(p)
  OBVIOUS
<1>3. /\ n \in Nat /\ DOMAIN p = 1 .. n /\ q \in Seq(PatternParts) /\ Len(q) = n /\ DOMAIN q = 1 .. n
      /\ \A i \in 1 .. n : IsRewritten(q[i], p[i], vs) /\ p[i] \in PathPieces
  BY <1>1, <1>2, PatternIs DEF Framed
<1>4. PICK names : names = Matcher!Groups(q)
  OBVIOUS
<1>5. AreNames(names, q, Grouped(q))
  <2>1. \A x \in PatternParts : x.name \in Seq(Letters)
    BY DEF PatternParts
  <2>2. names = Matcher!NamesAt(q, Grouped(q))
    BY <1>4 DEF Matcher!Groups, Grouped, IsGroup
  <2> QED
    BY <1>3, <2>1, <2>2, NamesAtAre
<1>6. PICK order : /\ AreInOrder(order, n, Grouped(q)) /\ DOMAIN names = DOMAIN order
                   /\ \A k \in DOMAIN names : names[k] = q[order[k]].name
  BY <1>3, <1>5 DEF AreNames
<1>7. /\ \A k \in DOMAIN names : order[k] \in Grouped(q) /\ order[k] \in 1 .. n
      /\ \A k, l \in DOMAIN names : order[k] = order[l] => k = l
  <2>1. order \in Seq(1 .. n)
    BY <1>6 DEF AreInOrder
  <2>2. /\ \A k \in DOMAIN order : order[k] \in 1 .. n
        /\ \A k, l \in DOMAIN order : k < l \/ l < k \/ k = l
        /\ \A x \in 1 .. n : ~(x < x)
    BY ONLY <1>3, <2>1
  <2>3. /\ \A k, l \in DOMAIN order : k < l => order[k] < order[l]
        /\ \A x \in 1 .. n : x \in Grouped(q) <=> \E k \in DOMAIN order : order[k] = x
    BY <1>6 DEF AreInOrder
  <2> QED
    BY ONLY <1>6, <2>2, <2>3
<1>8. \A group, name, rest : Matcher!Part(group, name, rest)
                               = [group |-> group, name |-> name, rest |-> rest]
  BY DEF Matcher!Part
<1>9. ASSUME NEW i \in Grouped(q)
      PROVE  /\ i \in 1 .. n
             /\ \/ p[i].kind = "star" /\ i \in Matcher!Holes(p) /\ q[i].name = p[i].name
                \/ /\ p[i].kind = "colon"
                   /\ \E h \in 1 .. n : /\ h \in Matcher!Holes(p) /\ p[h].kind = "colon"
                                        /\ p[h].name = q[i].name
                                        /\ Matcher!IsPrefix(q[i].name, p[i].name)
  <2>1. i \in 1 .. n /\ IsGroup(q[i])
    BY <1>3 DEF Grouped
  <2>2. IsRewritten(q[i], p[i], vs) /\ p[i].kind \in {"char", "colon", "star"}
    BY <1>3, <2>1, PiecesTyped
  <2>3. CASE p[i].kind = "star"
    <3>1. q[i] = Matcher!Part("any", p[i].name, <<>>)
      BY <2>2, <2>3 DEF IsRewritten
    <3>2. i \in Matcher!Holes(p)
      BY <1>3, <2>1, <2>3 DEF Matcher!Holes
    <3> QED
      BY ONLY <1>8, <2>1, <2>3, <3>1, <3>2
  <2>4. CASE p[i].kind # "star"
    <3>1. q[i] # Matcher!Part("none", <<>>, Matcher!Spelled(p[i]))
      BY ONLY <1>8, <2>1 DEF IsGroup
    <3>2. p[i].kind = "colon"
      BY <2>2, <2>4, <3>1 DEF IsRewritten
    <3>3. PICK m : FirstHit(m, vs, p[i].name)
      BY <2>2, <2>4, <3>1 DEF IsRewritten
    <3>4. q[i] = Matcher!Part("segment", vs[m], SubSeq(p[i].name, Len(vs[m]) + 1, Len(p[i].name)))
      BY <2>2, <3>2, <3>3 DEF IsRewritten
    <3>5. q[i].name = vs[m]
      BY ONLY <1>8, <3>4
    <3>6. PICK h \in DOMAIN p : /\ h \in Matcher!Holes(p) /\ p[h].kind = "colon"
                                /\ p[h].name = vs[m] /\ Matcher!IsPrefix(p[h].name, p[i].name)
      BY <1>2, <1>3, <2>1, <3>2, <3>3, HitIsHole
    <3> QED
      BY <1>3, <2>1, <3>2, <3>5, <3>6
  <2> QED
    BY <2>3, <2>4
<1>10. CASE \E k \in DOMAIN names : names[k][1] \in InvalidStart
  <2>1. PICK k \in DOMAIN names : names[k][1] \in InvalidStart
    BY <1>10
  <2>2. PICK i : i = order[k] /\ i \in Grouped(q) /\ q[i].name[1] \in InvalidStart
    BY <1>6, <1>7, <2>1
  <2>3. \E h \in 1 .. n : h \in Matcher!Holes(p) /\ p[h].name = q[i].name
    BY <1>9, <2>2
  <2> QED
    BY <1>3, <2>2, <2>3
<1>11. CASE ~Matcher!IsInjective(names)
  <2>1. PICK k \in DOMAIN names, l \in DOMAIN names : names[k] = names[l] /\ k # l
    BY <1>11 DEF Matcher!IsInjective
  <2>2. PICK i, j : /\ i = order[k] /\ j = order[l] /\ i \in Grouped(q) /\ j \in Grouped(q)
                    /\ i # j /\ q[i].name = q[j].name
    BY <1>6, <1>7, <2>1
  <2>3. \A g, h \in Matcher!Holes(p) : p[g].name = p[h].name => g = h
    BY DEF NoNameTwice
  <2>4. ASSUME NEW g \in Grouped(q), NEW h \in Grouped(q), g # h, q[g].name = q[h].name
        PROVE  p[g].kind = "colon" /\ p[g].kind # "star"
    <3>1. SUFFICES ASSUME p[g].kind = "star" PROVE FALSE
      BY <1>9
    <3>2. g \in Matcher!Holes(p) /\ p[g].name = q[g].name
      BY <1>9, <3>1
    <3>3. CASE p[h].kind = "star"
      <4>1. h \in Matcher!Holes(p) /\ p[h].name = q[h].name
        BY <1>9, <3>3
      <4> QED
        BY <2>3, <2>4, <3>2, <4>1
    <3>4. CASE p[h].kind = "colon"
      <4>1. PICK x \in 1 .. n : x \in Matcher!Holes(p) /\ p[x].kind = "colon" /\ p[x].name = q[h].name
        BY <1>9, <3>4
      <4>2. x = g
        BY <2>3, <2>4, <3>2, <4>1
      <4> QED
        BY <3>1, <4>1, <4>2
    <3> QED
      BY <1>9, <3>3, <3>4
  <2>5. PICK h \in 1 .. n : /\ h \in Matcher!Holes(p) /\ p[h].name = q[i].name
    BY <1>9, <2>2
  <2>6. /\ p[i].kind = "colon" /\ Matcher!IsPrefix(q[i].name, p[i].name) /\ i \in 1 .. n
        /\ p[j].kind = "colon" /\ Matcher!IsPrefix(q[j].name, p[j].name) /\ j \in 1 .. n
    BY <1>9, <2>2, <2>4
  <2>7. PICK x : x \in {i, j} /\ x # h
    BY <2>2
  <2>8. /\ x \in DOMAIN p \ {h} /\ p[x].kind = "colon" /\ Matcher!IsPrefix(p[h].name, p[x].name)
        /\ x \in Matcher!Holes(p) => p[h].name # p[x].name
    BY <1>3, <2>2, <2>3, <2>5, <2>6, <2>7
  <2> QED
    BY <1>3, <2>5, <2>8
<1>12. ~Matcher!IsInjective(names) \/ \E k \in DOMAIN names : names[k][1] \in InvalidStart
  BY <1>2, <1>4 DEF Matcher!Builds
<1> QED
  BY <1>10, <1>11, <1>12

(* The invariant says what is checked.                                     *)
LEMMA MatchSays ==
  ASSUME Matcher!PathsAssumption, MatchInv
  PROVE  Matcher!MatchedAsWritten
<1>1. CASE parsed = Matcher!Unparsed /\ text = <<>> /\ found = {}
  <2>1. parsed.kind # "panic"
    BY <1>1 DEF Matcher!Unparsed, Matcher!Parsed
  <2> QED
    BY <1>1, <2>1 DEF Matcher!MatchedAsWritten, Matcher!CapturesRebuildRequest,
                      Matcher!MissesOnlyOthers, Matcher!PanicsOnlyOnPrefixes
<1>2. CASE parsed = Matcher!FromStr(path)
  <2>1. path \in Seq(PathPieces)
    <3>1. Matcher!Pieces \subseteq PathPieces
      <4>1. \A n : n \in Seq(STRING) => n \in Seq(Letters)
        BY DEF Letters
      <4> QED
        BY <4>1 DEF Matcher!Pieces, PathPieces
    <3>2. path \in Seq(Matcher!Pieces)
      BY DEF MatchInv, Matcher!PathsAssumption
    <3> QED
      BY ONLY <3>1, <3>2
  <2>2. PICK p : /\ Framed(p) /\ parsed.path = p
                 /\ parsed.kind = "dynamic" =>
                      IsPatternOf(parsed.pattern, p) /\ NoNameTwice(p, Matcher!Holes(p))
                 /\ parsed.kind = "panic" =>
                      ~Matcher!Builds(Matcher!Pattern(p)) /\ NoNameTwice(p, Matcher!Holes(p))
    BY <1>2, <2>1, FromStrIs
  <2>3. Matcher!PanicsOnlyOnPrefixes
    <3>1. CASE parsed.kind = "panic"
      BY <2>2, <3>1, PanicsOnPrefixes
    <3>2. CASE parsed.kind # "panic"
      BY <3>2 DEF Matcher!PanicsOnlyOnPrefixes
    <3> QED
      BY <3>1, <3>2
  <2>4. CASE text = <<>> /\ found = {}
    BY <2>3, <2>4 DEF Matcher!MatchedAsWritten, Matcher!CapturesRebuildRequest,
                      Matcher!MissesOnlyOthers
  <2>5. ASSUME NEW t \in Texts, text = Matcher!Standardized(t, "/"), parsed.kind = "dynamic",
               found = IF Matcher!IsMatch(parsed.pattern, text)
                       THEN {Matcher!Captures(parsed.pattern, text)} ELSE {}
        PROVE  Matcher!MatchedAsWritten
    <3>1. text \in Seq(Letters)
      <4>1. t \in Seq(STRING)
        BY DEF Matcher!PathsAssumption
      <4>2. t \in Seq(Letters)
        BY ONLY <4>1 DEF Letters
      <4>3. PICK slash : slash = "/"
        OBVIOUS
      <4>4. slash \in Letters
        BY <4>3 DEF Letters
      <4>5. HasEnds(Matcher!Standardized(t, slash), Letters, slash)
        BY ONLY <4>2, <4>4, StandardizedIs, Zenon
      <4> QED
        BY <2>5, <4>3, <4>5 DEF HasEnds
    <3>2. PICK q : q = parsed.pattern
      OBVIOUS
    <3>3. PICK s : s = text
      OBVIOUS
    <3>4. Matched(p, q, s)
      BY <2>2, <2>5, <3>1, <3>2, <3>3 DEF Matched
    <3>5. Matcher!CapturesRebuildRequest
      <4>1. found \in {{}, {Matcher!Captures(q, s)}} /\ (found # {} => Matcher!IsMatch(q, s))
        BY <2>5, <3>2, <3>3
      <4> QED
        BY ONLY <3>4, <4>1, CapturesRebuild
    <3>6. Matcher!MissesOnlyOthers
      <4>1. CASE Matcher!IsMatch(q, s)
        <5>1. found # {}
          BY <2>5, <3>2, <3>3, <4>1
        <5> QED
          BY <5>1 DEF Matcher!MissesOnlyOthers
      <4>2. CASE ~Matcher!IsMatch(q, s)
        BY ONLY <3>4, <4>2, MissesOthers
      <4> QED
        BY <4>1, <4>2
    <3> QED
      BY <2>3, <3>5, <3>6 DEF Matcher!MatchedAsWritten
  <2> QED
    BY <2>4, <2>5 DEF MatchInv
<1> QED
  BY <1>1, <1>2 DEF MatchInv

(* Parsing and matching do what it says.                                   *)
LEMMA MatchSteps ==
  ASSUME MatchInv, [Matcher!Next]_(Matcher!vars)
  PROVE  MatchInv'
<1>1. Matcher!Unparsed.kind = "unparsed"
  BY DEF Matcher!Unparsed, Matcher!Parsed
<1>2. CASE Matcher!Parse
  <2>1. parsed' = Matcher!FromStr(path) /\ UNCHANGED <<path, text, found>>
        /\ parsed.kind # "dynamic"
    BY <1>1, <1>2 DEF Matcher!Parse
  <2>2. text' = <<>> /\ found' = {} /\ path' \in Paths /\ path' = path
    BY <2>1 DEF MatchInv
  <2> QED
    BY <2>1, <2>2 DEF MatchInv
<1>3. CASE Matcher!Match
  <2>1. /\ parsed.kind = "dynamic" /\ UNCHANGED <<path, parsed>>
        /\ \E t \in Texts :
             /\ text' = Matcher!Standardized(t, "/")
             /\ found' = IF Matcher!IsMatch(parsed.pattern, text')
                         THEN {Matcher!Captures(parsed.pattern, text')} ELSE {}
    BY <1>3 DEF Matcher!Match
  <2>2. parsed = Matcher!FromStr(path)
    BY <1>1, <2>1 DEF MatchInv
  <2>3. parsed' = parsed /\ path' = path /\ path \in Paths
    BY <2>1 DEF MatchInv
  <2> QED
    BY <2>1, <2>2, <2>3 DEF MatchInv
<1>4. CASE UNCHANGED Matcher!vars
  BY <1>4 DEF Matcher!vars, MatchInv
<1> QED
  BY <1>2, <1>3, <1>4 DEF Matcher!Next

(* For any paths of routes and any paths of requests: what is captured is  *)
(* allowed in its place and makes the path of the request out of the path  *)
(* of the route; a request that is not matched cannot be made of it by any *)
(* values; and a path whose names are good panics only for a name that     *)
(* begins with a digit or begins the text of another one.                  *)
THEOREM MatchesAsWritten == Spec => []MatchedAsWritten
<1> DEFINE Inv == part = "path" => MatchInv
<1>1. Init => Inv
  <2> SUFFICES ASSUME Matcher!Init PROVE MatchInv
    BY DEF Init
  <2> QED
    BY DEF Matcher!Init, MatchInv
<1>2. Inv /\ [Next]_vars => Inv'
  BY PartsApart, MatchSteps
<1>3. Inv => MatchedAsWritten
  BY MatchSays, Assumptions DEF MatchedAsWritten
<1> QED
  BY <1>1, <1>2, <1>3, PTL DEF Spec

=============================================================================
