------------------------------- MODULE Compress -------------------------------
(* roa::compress: a stack of middlewares around an endpoint. Compress layers  *)
(* encode on the way out what the layers inside them left in the body; the    *)
(* other layers write to the body before and after next, throw and recover.   *)
(* A chunk of the body remembers when it was written and how it was encoded.  *)
EXTENDS Integers, Filter

CONSTANTS MaxLayers,      \* bound on the middlewares around the endpoint
          MaxAccept,      \* bound on the entries of Accept-Encoding
          Names,          \* encodings the client may name
          QVals           \* q-values, in tenths, and BadQ

LayersAssumption == MaxLayers \in Nat /\ MaxAccept \in Nat /\ QVals \subseteq Int

BadQ == 99                \* a q-value that is no number

VARIABLES layers,         \* the middlewares, the outermost first
          accept,         \* the entries of the Accept-Encoding headers
          at,             \* the layer that runs; Len(layers) + 1 is the endpoint
          way,            \* "in", "out" or "sent"
          result,         \* what the layer inside returned
          body,           \* the chunks of the response body
          content,        \* the Content-Encoding headers
          done            \* history: the layers that encoded and what they selected

vars == <<layers, accept, at, way, result, body, content, done>>

Supported == {"gzip", "deflate", "br", "zstd", "identity"}
Encoders == Supported \ {"identity"}

\* An entry: a name and a q-value, 10 when it is left out. The name "opaque"
\* stands for a header with bytes that are not visible ASCII; "other" for every
\* name parse refuses, "gzip; q=1" with its blank among them.
Entries == [name : Names, q : QVals]

-----------------------------------------------------------------------------
\* Encoding::parse maps "*" to None.
None == "none"
Known(e) == e.name \in Supported \cup {"*"}
Encoding(e) == IF e.name = "*" THEN None ELSE e.name

\* accept_encodings ignores unknown encodings before it looks at their q-values.
Readable(entries) ==
    \A i \in DOMAIN entries : /\ entries[i].name # "opaque"
                              /\ Known(entries[i]) => entries[i].q # BadQ

accept_encodings(entries) == Only(entries, {e \in Entries : Known(e)})

\* A preference is replaced by a strictly greater q-value only.
Better(best, e) == IF e.q > best.q THEN e ELSE best

select_encoding(entries) ==
    Encoding(FoldLeft(Better, [name |-> "*", q |-> 0], accept_encodings(entries)))

\* handle compresses with gzip when nothing is selected.
Applied(selected) == IF selected = None THEN "gzip" ELSE selected

\* A write: after is how many layers have encoded already.
Chunk == [after |-> Len(done), encs |-> <<>>]

\* The encoder takes the whole body; identity leaves it as it is.
Encode_LastOnly(chunks, enc) ==                         \* mutant: one segment
    [chunks EXCEPT ![Len(chunks)].encs = Append(@, enc)]

Encode(chunks, enc) == [i \in DOMAIN chunks |->
    IF enc = "identity" THEN chunks[i] ELSE [chunks[i] EXCEPT !.encs = Append(@, enc)]]

-----------------------------------------------------------------------------
Init == /\ layers \in UNION {[1 .. n -> {"compress", "other"}] : n \in 0 .. MaxLayers}
        /\ accept \in UNION {[1 .. n -> Entries] : n \in 0 .. MaxAccept}
        /\ at = 1
        /\ way = "in"
        /\ result = "ok"
        /\ body = <<>>
        /\ content = <<>>
        /\ done = <<>>

IsLayer(kind) == at \in DOMAIN layers /\ layers[at] = kind

\* On the way in Compress only awaits next; the others may write first.
Enter ==
    /\ way = "in" /\ at \in DOMAIN layers
    /\ at' = at + 1
    /\ \/ UNCHANGED body
       \/ layers[at] = "other" /\ body' = Append(body, Chunk)
    /\ UNCHANGED <<layers, accept, way, result, content, done>>

Outward == IF at = 1 THEN way' = "sent" /\ UNCHANGED at
                     ELSE way' = "out" /\ at' = at - 1

Endpoint ==
    /\ way = "in" /\ at = Len(layers) + 1
    /\ Outward
    /\ \/ body' = Append(body, Chunk) /\ result' = "ok"
       \/ body' = body /\ result' \in {"ok", "hidden", "exposed"}
    /\ UNCHANGED <<layers, accept, content, done>>

\* next.await? : an error leaves through the layer.
Failed_Ignored(r) == FALSE                              \* mutant: next.await.ok()
Failed(r) == r # "ok"

PassError ==
    /\ way = "out" /\ IsLayer("compress") /\ Failed(result)
    /\ Outward
    /\ UNCHANGED <<layers, accept, result, body, content, done>>

\* select_encoding(&ctx.req.headers)? : 400, before the body is taken.
BadAccept ==
    /\ way = "out" /\ IsLayer("compress") /\ ~Failed(result) /\ ~Readable(accept)
    /\ result' = "exposed"
    /\ Outward
    /\ UNCHANGED <<layers, accept, body, content, done>>

\* headers.append keeps the encodings that are there already.
Listed(headers, enc) == Append(headers, enc)

Compressed ==
    /\ way = "out" /\ IsLayer("compress") /\ ~Failed(result) /\ Readable(accept)
    /\ LET selected == select_encoding(accept)
       IN  /\ body' = Encode(body, Applied(selected))
           /\ content' = Listed(content, Applied(selected))
           /\ done' = Append(done, [layer |-> at, selected |-> selected])
    /\ Outward
    /\ UNCHANGED <<layers, accept, result>>

\* Another layer returns: it may write, throw or recover.
OtherReturns ==
    /\ way = "out" /\ IsLayer("other")
    /\ Outward
    /\ result' \in {"ok", result, "exposed"}
    /\ body' \in {body, Append(body, Chunk)}
    /\ UNCHANGED <<layers, accept, content, done>>

\* HttpService::serve writes an exposed message behind what the body holds.
Expose == /\ way = "sent" /\ result = "exposed"
          /\ body' = Append(body, Chunk)
          /\ result' = "hidden"
          /\ UNCHANGED <<layers, accept, at, way, content, done>>

Next == Enter \/ Endpoint \/ PassError \/ BadAccept \/ Compressed \/ OtherReturns \/ Expose

Spec == Init /\ [][Next]_vars

-----------------------------------------------------------------------------
\* Every byte is encoded by exactly the Compress layers that return after it was
\* written, in the order in which they return, whatever was written before and
\* after next, thrown and recovered: nothing is encoded twice or left out.
EncodedByLaterLayers ==
    \A i \in DOMAIN body : LET after == body[i].after IN
        body[i].encs = Only([j \in 1 .. Len(done) - after |-> Applied(done[after + j].selected)],
                            Encoders)

\* Content-Encoding lists the encodings in the order in which they were applied:
\* a client that undoes them from the last to the first gets back the bytes of
\* the endpoint and of everything else written before the first layer encoded.
HeaderDecodesBody ==
    \A i \in DOMAIN body :
        body[i].after = 0 => body[i].encs = Only(content, Encoders)

\* A layer encodes only a response that comes back without an error and only for
\* an Accept-Encoding that it can read; an error that leaves through it changes
\* neither the body nor the headers.
ErrorPasses ==
    (way = "out" /\ layers[at] = "compress" /\ (result # "ok" \/ ~Readable(accept)))
        => UNCHANGED <<body, content>> /\ result' # "ok"

Accepted == {i \in DOMAIN accept : Known(accept[i]) /\ accept[i].q > 0}

\* If the client accepts anything that is supported, or "*", with a q-value above
\* 0, every layer selects the first of those with the greatest q-value. What a
\* client gets that accepts nothing of the kind is the subject of NoneIfUnasked.
FirstOfTheBest ==
    Accepted # {} => \A d \in DOMAIN done : \E i \in Accepted :
        /\ done[d].selected = (IF accept[i].name = "*" THEN None ELSE accept[i].name)
        /\ \A k \in Accepted : /\ accept[k].q <= accept[i].q
                               /\ k < i => accept[k].q < accept[i].q

\* The headers tell the client what to undo, and a client that accepts encodings
\* gets the one it likes best.
EncodedAsNegotiated == EncodedByLaterLayers /\ HeaderDecodesBody /\ FirstOfTheBest

\* The comment of accept_encodings: None, for which gzip is applied, means that no
\* preference is expressed: "Either the `Accept-Encoding` header is not present,
\* or `*` is set as the most preferred encoding." A client whose only wish is to
\* have no gzip ("gzip;q=0") gets None, and so gzip.
NoneIfUnasked ==
    \A d \in DOMAIN done : done[d].selected = None =>
        \/ accept = <<>>
        \/ \E i \in DOMAIN accept :
              /\ accept[i].name = "*"
              /\ \A k \in DOMAIN accept : Known(accept[k]) => accept[k].q <= accept[i].q
=============================================================================
