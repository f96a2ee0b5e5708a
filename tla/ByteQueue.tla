------------------------------ MODULE ByteQueue ------------------------------
(***************************************************************************)
(* What a response body promises: the bytes the handlers wrote reach the   *)
(* client once each, in the order of the writes, and the body ends well    *)
(* only when nothing is left.  Bytes are numbered from 1 as written, so a  *)
(* prefix is a number.                                                     *)
(***************************************************************************)
EXTENDS Naturals

VARIABLES written, \* bytes written by the handlers
          sent,    \* bytes the client was given
          phase    \* "open", "streaming", "complete" or "aborted"

queueVars == <<written, sent, phase>>

Init == written = 0 /\ sent = 0 /\ phase = "open"

Write == /\ phase = "open"
         /\ written' \in Nat /\ written' >= written
         /\ UNCHANGED <<sent, phase>>

Start == /\ phase = "open"
         /\ phase' = "streaming"
         /\ UNCHANGED <<written, sent>>

Send == /\ phase = "streaming"
        /\ sent' \in (sent + 1)..written
        /\ UNCHANGED <<written, phase>>

Complete == /\ phase = "streaming" /\ sent = written
            /\ phase' = "complete"
            /\ UNCHANGED <<written, sent>>

Abort == /\ phase \in {"open", "streaming"}
         /\ phase' = "aborted"
         /\ UNCHANGED <<written, sent>>

Next == Write \/ Start \/ Send \/ Complete \/ Abort

Spec == Init /\ [][Next]_queueVars
=============================================================================
