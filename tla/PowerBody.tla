------------------------------- MODULE PowerBody -------------------------------
(* roa::body::PowerBody and the endpoints built on it (RpcEndpoint, GraphQL)  *)
(* on one context: layers read the request body and write the response body   *)
(* one after another; the request arrives in pieces, may break off, and a     *)
(* layer outside may drop what it awaits and go on by itself.                 *)
EXTENDS Naturals, Sequences

CONSTANTS Chunks,         \* the pieces of the request body
          Files,          \* names of files
          Missing,        \* files that cannot be opened
          Nameless,       \* paths such as "a/..": directories, which can be opened
          Odd,            \* files with characters that are not allowed in a header
          MaxCalls        \* bound on the calls of reads and writes

BodyAssumption ==
    /\ Chunks \in Nat \ {0} /\ MaxCalls \in Nat
    /\ Missing \subseteq Files /\ Nameless \subseteq Files \ Missing /\ Odd \subseteq Files
    /\ Files \cap {"none", "json", "html", "text", "reader", "application/json", "text/html",
                   "text/plain", "application/octet-stream"} = {}

VARIABLES request,        \* whether the body is a document and its type multipart
          body,           \* the body of ctx.req
          op,             \* the read that runs, or Idle
          resp,           \* the response: what was written and its headers
          status,         \* "ok", or what travels outwards
          wrote,          \* history: the writes that succeeded
          seen,           \* history: the data handlers were given
          calls           \* history: the number of calls

vars == <<request, body, op, resp, status, wrote, seen, calls>>

All == [i \in 1 .. Chunks |-> i]
Idle == [kind |-> "idle"]
None == "none"

Readers == {"bytes", "json", "form", "multipart", "rpc", "graphql"}

Init == /\ request \in [document : BOOLEAN, multipart : BOOLEAN]
        /\ body = All
        /\ op = Idle
        /\ resp = [chunks |-> <<>>, type |-> None, disposition |-> None]
        /\ status = "ok"
        /\ wrote = <<>>
        /\ seen = {}
        /\ calls = 0

MayCall == status = "ok" /\ op = Idle /\ calls < MaxCalls

-----------------------------------------------------------------------------
\* Request::raw_body: the reader owns the body, ctx.req keeps an empty one.
Start(kind) ==
    /\ MayCall
    /\ kind = "multipart" => request.multipart
    /\ op' = [kind |-> kind, stream |-> body, data |-> <<>>]
    /\ body' = <<>>
    /\ calls' = calls + 1
    /\ UNCHANGED <<request, resp, status, wrote, seen>>

\* read_multipart checks the content type before it touches the body.
RefuseMultipart ==
    /\ MayCall /\ ~request.multipart
    /\ status' = "400"
    /\ calls' = calls + 1
    /\ UNCHANGED <<request, body, op, resp, wrote, seen>>

Reading == op.kind \in Readers

\* read_to_end gets the next piece.
Arrive ==
    /\ Reading /\ op.stream # <<>>
    /\ op' = [op EXCEPT !.stream = Tail(@), !.data = Append(@, Head(op.stream))]
    /\ UNCHANGED <<request, body, resp, status, wrote, seen, calls>>

\* What a reader leaves in ctx.req when it is dropped.
Left_InPlace(reader) == reader.stream                   \* mutant: reads through &mut self.body
Left(reader) == <<>>

\* The connection breaks off: reader().read_to_end(..).await?
Break ==
    /\ Reading /\ op.stream # <<>>
    /\ op' = Idle
    /\ body' = Left(op)
    /\ status' = "500"
    /\ UNCHANGED <<request, resp, wrote, seen, calls>>

\* A layer outside drops the layers it awaits.
Cancel ==
    /\ op # Idle
    /\ op' = Idle
    /\ body' = IF Reading THEN Left(op) ELSE body
    /\ status' = "cancelled"
    /\ UNCHANGED <<request, resp, wrote, seen, calls>>

IsDocument(data) == request.document /\ data = All

Given == seen' = seen \cup {[kind |-> op.kind, data |-> op.data]}

Whole == Reading /\ op.stream = <<>> /\ op.kind # "multipart"

\* read.
ReadBytes == /\ Whole /\ op.kind = "bytes"
             /\ Given
             /\ op' = Idle
             /\ UNCHANGED <<request, body, resp, status, wrote, calls>>

\* read_json and read_form; no form at all may be a form.
Parse == /\ Whole /\ op.kind \in {"json", "form"}
         /\ \/ IsDocument(op.data) /\ Given /\ UNCHANGED status
            \/ op.kind = "form" /\ op.data = <<>> /\ Given /\ UNCHANGED status
            \/ ~(op.kind = "json" /\ IsDocument(op.data)) /\ status' = "400" /\ UNCHANGED seen
         /\ op' = Idle
         /\ UNCHANGED <<request, body, resp, wrote, calls>>

\* A handler takes the fields it wants and drops the Multipart.
DropMultipart ==
    /\ Reading /\ op.kind = "multipart"
    /\ op' = Idle
    /\ body' = Left(op)
    /\ UNCHANGED <<request, resp, status, wrote, seen, calls>>

\* RpcEndpoint::call hands over what it read, GraphQL::call a request.
Dispatch ==
    /\ Whole /\ op.kind \in {"rpc", "graphql"}
    /\ \/ /\ op.kind = "rpc" \/ IsDocument(op.data)
          /\ Given
          /\ op' = [kind |-> "execute"]
          /\ UNCHANGED status
       \/ /\ op.kind = "graphql" /\ ~IsDocument(op.data)
          /\ op' = Idle
          /\ status' = "400"
          /\ UNCHANGED seen
    /\ UNCHANGED <<request, body, resp, wrote, calls>>

-----------------------------------------------------------------------------
Written(chunk, type) == [resp EXCEPT !.chunks = Append(@, chunk), !.type = type]
Wrote(chunk, type) == wrote' = Append(wrote, [chunk |-> chunk, type |-> type])

\* serde_json::to_vec(data)? and data.render()? come first.
Unserialized(type) == resp

\* write_json and render.
Serialize(chunk, type) ==
    \/ resp' = Written(chunk, type) /\ Wrote(chunk, type) /\ UNCHANGED status
    \/ resp' = Unserialized(type) /\ status' = "500" /\ UNCHANGED wrote

write_json == MayCall /\ calls' = calls + 1 /\ Serialize("json", "application/json")
              /\ UNCHANGED <<request, body, op, seen>>

render == MayCall /\ calls' = calls + 1 /\ Serialize("html", "text/html")
          /\ UNCHANGED <<request, body, op, seen>>

Respond == /\ op.kind = "execute"
           /\ op' = Idle
           /\ Serialize("json", "application/json")
           /\ UNCHANGED <<request, body, seen, calls>>

\* write and write_reader cannot fail.
write(chunk, type) ==
    /\ MayCall
    /\ calls' = calls + 1
    /\ resp' = Written(chunk, type)
    /\ Wrote(chunk, type)
    /\ UNCHANGED <<request, body, op, status, seen>>

\* HTTP_VALUE percent-encodes controls and reserved characters, utf8_percent_encode
\* everything that is no ASCII: what is left makes a header value.
CharsOf(file) == IF file \in Odd THEN {"letter", "control", "reserved", "unicode"} ELSE {"letter"}
Encoded(chars) == {IF c = "letter" THEN c ELSE "escape" : c \in chars}
IsHeaderValue(chars) == chars \cap {"control"} = {}

\* The type of a file is named after it. A path without a file name gets no headers.
TypeOf(file) == file

Attached(file) == [Written(file, TypeOf(file)) EXCEPT !.disposition = file]

\* File::open(path).await? comes before everything else.
write_file(file) ==
    /\ MayCall
    /\ calls' = calls + 1
    /\ \/ /\ file \notin Missing \cup Nameless
          /\ IF IsHeaderValue(Encoded(CharsOf(file)))
             THEN resp' = Attached(file) /\ Wrote(file, TypeOf(file)) /\ UNCHANGED status
             ELSE resp' = Written(file, TypeOf(file)) /\ status' = "500" /\ UNCHANGED wrote
       \/ /\ file \in Nameless
          /\ resp' = Written(file, resp.type)
          /\ Wrote(file, None)
          /\ UNCHANGED status
       \/ /\ file \in Missing
          /\ status' = "500"
          /\ UNCHANGED <<resp, wrote>>
    /\ UNCHANGED <<request, body, op, seen>>

Recover == /\ status # "ok"
           /\ status' = "ok"
           /\ UNCHANGED <<request, body, op, resp, wrote, seen, calls>>

Next == \/ \E kind \in Readers : Start(kind)
        \/ RefuseMultipart \/ Arrive \/ Break \/ Cancel
        \/ ReadBytes \/ Parse \/ DropMultipart \/ Dispatch
        \/ write_json \/ render \/ Respond
        \/ write("text", "text/plain")
        \/ write("reader", "application/octet-stream")
        \/ \E file \in Files : write_file(file)
        \/ Recover

Spec == Init /\ [][Next]_vars

-----------------------------------------------------------------------------
\* A handler is given the whole request body or, after somebody else took it,
\* nothing; never a part of it, also after a read that broke off, was dropped
\* half way, or left fields of a form unread.
WholeOrNothing == \A s \in seen : s.data \in {All, <<>>}

\* A JSON or GraphQL handler never runs on a body that was consumed before.
DocumentsAreWhole == \A s \in seen : s.kind \in {"json", "graphql"} => s.data = All

\* Type and body of the response agree also after failures: the body holds the
\* writes that succeeded and Content-Type is that of the last one that has a type.
TypeOfLastWrite ==
    LET typed == {i \in DOMAIN wrote : wrote[i].type # None}
    IN  /\ resp.chunks = [i \in DOMAIN wrote |-> wrote[i].chunk]
        /\ \A i \in typed : (\A k \in typed : k <= i) => resp.type = wrote[i].type
        /\ typed = {} => resp.type = None

\* Content-Disposition names a file that is in the body, the last one written.
DispositionInBody ==
    resp.disposition # None =>
        \E i \in DOMAIN resp.chunks :
            /\ resp.chunks[i] = resp.disposition
            /\ \A k \in DOMAIN resp.chunks : resp.chunks[k] \in Files \ Nameless => k <= i

\* Bodies are read and described as a whole, whatever failed before.
BodiesWhole == WholeOrNothing /\ DocumentsAreWhole /\ TypeOfLastWrite /\ DispositionInBody
=============================================================================
