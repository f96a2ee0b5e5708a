--------------------------------- MODULE Jwt ----------------------------------
(* roa::jwt on one request: guards, claims and verify in any order a chain of *)
(* layers can run them, while the clock runs and layers replace the           *)
(* authorization header. A layer outside may recover from what was thrown.    *)
EXTENDS Naturals, Sequences

CONSTANTS Secrets,        \* keys of guards and of the issuers of tokens
          MaxNow,         \* bound on the clock
          MaxCalls        \* bound on the calls of guards, claims and verify

TimeAssumption == MaxNow \in Nat \ {0} /\ MaxCalls \in Nat

VARIABLES now,            \* the time
          header,         \* the token of the authorization header, or NoToken
          store,          \* JwtScope of the storage of the context
          status,         \* "ok", or the status that travels outwards
          challenge,      \* WWW-Authenticate
          passed,         \* history: the guards passed
          answer          \* history: the last call of claims or verify

vars == <<now, header, store, status, challenge, passed, answer>>

NoToken == [secret |-> "none"]

\* A token: who signed it, when it expires and whether its claims fit the type
\* the handlers deserialize.
Tokens == [secret : Secrets, exp : 0 .. MaxNow - 1, fits : BOOLEAN]

\* A validation may or may not check exp; Validation::default does.
Validations == [exp : BOOLEAN]

decode(token, secret, validation) ==
    token.secret = secret /\ (validation.exp => now <= token.exp)

Empty == [secret |-> {}, token |-> {}, value |-> {}]
NoAnswer == [call |-> "none"]

Init == /\ now = 0
        /\ header \in Tokens \cup {NoToken}
        /\ store = Empty
        /\ status = "ok"
        /\ challenge = FALSE
        /\ passed = <<>>
        /\ answer = NoAnswer

\* A call that a layer makes; what fails is thrown.
Calls == Len(passed) + (IF answer = NoAnswer THEN 0 ELSE answer.nth)

Answer(call, validation, token, outcome) ==
    answer' = [call |-> call, nth |-> (IF answer = NoAnswer THEN 1 ELSE answer.nth + 1),
               validation |-> validation, token |-> token, outcome |-> outcome, at |-> now,
                guards |-> Len(passed)]

Thrown(code) == status' = code

Unauthorized == Thrown("401") /\ challenge' = TRUE

-----------------------------------------------------------------------------

\* JwtGuard::handle. Storing and the call of next are one poll.
Stored_SecretOnce(secret, token) ==                     \* mutant: the first guard's key stays
    [secret |-> IF store.secret = {} THEN {secret} ELSE store.secret,
     token |-> {token}, value |-> {token}]

Stored(secret, token) == [secret |-> {secret}, token |-> {token}, value |-> {token}]

\* JwtGuard::verify.
Verified(token, secret, validation) == decode(token, secret, validation)

guard(secret, validation) ==
    /\ status = "ok" /\ Calls < MaxCalls
    /\ header # NoToken /\ Verified(header, secret, validation)
    /\ store' = Stored(secret, header)
    /\ passed' = Append(passed, [secret |-> secret, token |-> header,
                                 validation |-> validation, at |-> now])
    /\ UNCHANGED <<now, header, status, challenge, answer>>

Refuse(secret, validation) ==
    /\ status = "ok" /\ Calls < MaxCalls
    /\ header # NoToken => ~Verified(header, secret, validation)
    /\ Unauthorized
    /\ answer' = NoAnswer
    /\ UNCHANGED <<now, header, store, passed>>

\* JwtVerifier::claims reads the stored value; a type that does not fit is an
\* internal error here.
claims ==
    /\ status = "ok" /\ Calls < MaxCalls
    /\ \/ \E token \in store.value :
             IF token.fits THEN Answer("claims", {}, {token}, "ok") /\ UNCHANGED status
                           ELSE Answer("claims", {}, {token}, "500") /\ Thrown("500")
       \/ store.value = {} /\ Answer("claims", {}, {}, "not_set") /\ Thrown("500")
    /\ UNCHANGED <<now, header, store, challenge, passed>>

\* JwtVerifier::verify decodes the stored token again, at this time.
Accepted(token, secret, validation) == decode(token, secret, validation) /\ token.fits

verify(validation) ==
    /\ status = "ok" /\ Calls < MaxCalls
    /\ \/ \E secret \in store.secret, token \in store.token :
             IF Accepted(token, secret, validation)
             THEN /\ Answer("verify", {validation}, {token}, "ok")
                  /\ UNCHANGED <<status, challenge>>
             ELSE Answer("verify", {validation}, {token}, "401") /\ Unauthorized
       \/ /\ store.secret = {} \/ store.token = {}
          /\ Answer("verify", {validation}, {}, "not_set")
          /\ Thrown("500") /\ UNCHANGED challenge
    /\ UNCHANGED <<now, header, store, passed>>

-----------------------------------------------------------------------------
\* Other layers: one recovers what the layers inside it threw, one replaces the
\* header before it calls next.
Recover ==
    /\ status # "ok"
    /\ status' = "ok"
    /\ UNCHANGED <<now, header, store, challenge, passed, answer>>

ReplaceHeader ==
    /\ status = "ok"
    /\ header' \in Tokens \cup {NoToken}
    /\ UNCHANGED <<now, store, status, challenge, passed, answer>>

Tick == /\ now < MaxNow
        /\ now' = now + 1
        /\ UNCHANGED <<header, store, status, challenge, passed, answer>>

Next == \/ \E secret \in Secrets, validation \in Validations :
               guard(secret, validation) \/ Refuse(secret, validation)
        \/ claims
        \/ \E validation \in Validations : verify(validation)
        \/ Recover
        \/ ReplaceHeader
        \/ Tick

Spec == Init /\ [][Next]_vars

-----------------------------------------------------------------------------
Valid(p) == p.token.secret = p.secret /\ (p.validation.exp => p.at <= p.token.exp)

\* What claims and verify judge is the token that the last guard passed before
\* them accepted when it was valid, even if the header was replaced afterwards.
AnswersWereGuarded ==
    (answer # NoAnswer /\ answer.outcome # "not_set") =>
        LET g == answer.guards
        IN  g > 0 /\ answer.token = {passed[g].token} /\ Valid(passed[g])

\* verify accepts no expired token, unless its validation tells it not to look.
NoExpiredVerify ==
    (answer # NoAnswer /\ answer.call = "verify" /\ answer.outcome = "ok") =>
        \A token \in answer.token, v \in answer.validation : v.exp => answer.at <= token.exp

\* verify fails behind a guard only if the token has expired or its claims have
\* another type: key and token always stem from the same guard.
VerifyFailsOnlyByTime ==
    (answer # NoAnswer /\ answer.call = "verify" /\ answer.outcome = "401") =>
        \E token \in answer.token, v \in answer.validation :
            ~token.fits \/ (v.exp /\ answer.at > token.exp)

\* "JwtGuard is not set correctly" is reported only when no guard was passed.
GuardNotSetIsTrue ==
    (answer # NoAnswer /\ answer.outcome = "not_set") => answer.guards = 0

\* A 401 never leaves without its challenge.
ChallengeOnUnauthorized == status = "401" => challenge

\* What handlers are told of a token is what a guard has checked, no less than
\* the clock allows.
TokensChecked ==
    /\ AnswersWereGuarded /\ NoExpiredVerify /\ VerifyFailsOnlyByTime
    /\ GuardNotSetIsTrue /\ ChallengeOnUnauthorized
=============================================================================
