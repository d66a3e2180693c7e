------------------------------ MODULE HttpDoor ------------------------------
(***************************************************************************)
(* HTTP requests that pass through runIdempotent                           *)
(* (packages/core/src/http/run.ts, request.ts), directly or behind the     *)
(* gate of a webhook receiver (packages/webhooks/src/receiver.ts).         *)
(*                                                                         *)
(* A worker is one request at a time at one of the doors, which all share  *)
(* one store.  What comes before execute (reading the body, verifying,     *)
(* looking the key up, hashing) waits for nobody but the request itself    *)
(* and touches nothing that is shared, so it is one step, Receive.         *)
(* execute is Engine's, and the handler's answer HttpCapture's.            *)
(*                                                                         *)
(* The requests here have the same scope, so that an operation is told by  *)
(* its key; Scopes has the rest.  What a stored result and a replay look   *)
(* like is Replay's, and what a problem does ProblemAnswers'.              *)
(***************************************************************************)
EXTENDS HttpCapture, Scopes, Replay, ProblemAnswers

CONSTANTS
    Doors,             \* the options of each door
    HttpRequests,      \* the requests that arrive
    NoHeader,          \* what Headers.get finds where there is no key header
    NoTime,            \* the timestamp of a request without a numeric one
    NoBody,            \* the body that an idle worker handles
    Streaming,         \* bound: the workers whose handlers answer with a body
    MaxRequestBytes,   \* the option maxRequestBytes
    Secrets,           \* the secrets of standardWebhooksVerify
    Tolerance          \* toleranceSeconds

\* The options of a door.  A principal can only be required where there is a
\* function to find it.
ResolvedHttpOptions ==
    [ kind : {"http", "webhook"}, required : BOOLEAN, syntax : Syntaxes,
      principal : {"none", "optional", "required"},
      fingerprint : {"body", "jcs", "alone"}, verify : {"none", "verify", "marker"} ]

ASSUME DoorAssumption == Doors \subseteq ResolvedHttpOptions
ASSUME RequestAssumption ==
    \A q \in HttpRequests :
        /\ {q.listed, q.skip, q.principal, q.marked, q.throws} \subseteq BOOLEAN
        /\ {q.declared, q.bytes} \subseteq Nat
        /\ NoBody # q.body
        /\ q.at = NoTime \/ q.at \in Int
        /\ q.values \in Seq(Seq(Chars)) /\ Len(q.values) <= 2
ASSUME HttpBoundAssumption == {MaxRequestBytes, Tolerance} \subseteq Nat

VARIABLES
    request,   \* the body of the request that each worker handles
    origin     \* history: the body of the request whose result each row keeps

httpVars == <<vars, capture, client, request, origin>>

HttpInit ==
    /\ Init
    /\ capture = [w \in Workers |-> NoCapture]
    /\ client = [w \in Workers |-> NoClient]
    /\ request = [w \in Workers |-> NoBody]
    /\ origin = [k \in Keys |-> NoBody]

-----------------------------------------------------------------------------
(* Before execute                                                          *)

\* The second part of the first pair whose first part is true: checks are made
\* in their order.
First(checks) ==
    LET holds == { i \in DOMAIN checks : checks[i][1] } IN
    checks[CHOOSE i \in holds : \A j \in holds : i <= j][2]

\* A body is refused for what it declares, or for what has been read of it.
readBody(q) == q.declared <= MaxRequestBytes /\ q.bytes <= MaxRequestBytes

\* What Headers.get finds of the key header, whose field is sent as often as there
\* are values, at most twice.
headersGet(q) ==
    CASE Len(q.values) = 0 -> NoHeader
      [] Len(q.values) = 1 -> q.values[1]
      [] OTHER -> Joined(q.values[1], q.values[2])

\* What a key header is taken for.
lookupKey(q, syntax) ==
    LET raw == headersGet(q)
        parsed == parseKey(IF raw = NoHeader THEN <<>> ELSE raw, syntax)
    IN  [ kind |-> CASE raw = NoHeader -> "missing"
                     [] raw # NoHeader /\ parsed.ok -> "ok"
                     [] OTHER -> "invalid",
          key |-> parsed.key ]

\* The key of a webhook, with the default header and no callback: the id that is
\* signed.  An empty id counts as none, and it is read leniently.
resolveKey(q) ==
    IF headersGet(q) = <<>> THEN [kind |-> "missing", key |-> <<>>] ELSE lookupKey(q, "lenient")

KeyLookup(door, q) ==
    IF door.kind = "webhook" THEN resolveKey(q) ELSE lookupKey(q, door.syntax)

\* Whether the request has a scope; which one does not matter here.
HasScope(door, q) ==
    LET principal == IF door.principal # "none" /\ q.principal THEN <<"letter">> ELSE <<>> IN
    resolveScope(<<>>, principal, door.principal = "required").ok

\* What runIdempotent does before it calls execute.
runIdempotent(door, q) ==
    LET lookup == KeyLookup(door, q) IN
    First(<< << ~q.listed \/ q.skip, "pass" >>,
             << lookup.kind = "missing" /\ ~door.required, "pass" >>,
             << lookup.kind = "missing", "missing-key" >>,
             << lookup.kind = "invalid", "invalid-key" >>,
             << ~HasScope(door, q), "missing-principal" >>,
             << ~readBody(q), "payload-too-large" >>,
             << TRUE, "execute" >> >>)

\* Mutant: the signature is compared for the id and the time only.
VerifyWithoutBody(q, now) ==
    /\ headersGet(q) # NoHeader /\ q.at # NoTime
    /\ now - q.at <= Tolerance /\ q.at - now <= Tolerance
    /\ \E s \in q.signatures : s.secret \in Secrets /\ s.id = headersGet(q) /\ s.at = q.at

\* A signature is its content, signed with a secret: id, timestamp and body, which
\* are joined with dots (ids here have none, so that the parts are told apart).
standardWebhooksVerify(q, now) ==
    /\ headersGet(q) # NoHeader /\ q.at # NoTime
    /\ now - q.at <= Tolerance /\ q.at - now <= Tolerance
    /\ \E secret \in Secrets :
         [secret |-> secret, id |-> headersGet(q), at |-> q.at, body |-> q.body] \in q.signatures

\* The marker is kept beside the request, and nothing in the request can set it.
isVerified(q) == q.marked

\* The callback wins over the marker.
Verified(door, q, now) ==
    IF door.verify = "verify" THEN standardWebhooksVerify(q, now) ELSE isVerified(q)

\* What webhookReceiver does before it calls runIdempotent.
webhookReceiver(door, q, now) ==
    First(<< << door.verify = "none", "configuration-error" >>,
             << ~q.listed, "pass" >>,
             << ~readBody(q), "payload-too-large" >>,
             << door.verify = "verify" /\ q.throws, "configuration-error" >>,
             << ~Verified(door, q, now), "signature-invalid" >>,
             << TRUE, runIdempotent(door, q) >> >>)

Enter(door, q, now) ==
    IF door.kind = "webhook" THEN webhookReceiver(door, q, now) ELSE runIdempotent(door, q)

\* A JSON body is the sequence of its members, told by positive numbers; the
\* canonical form has them in the order of their names.
canonicalize(body) == SortSeq(body, <)

isJson(body) == \A i \in DOMAIN body : body[i] > 0

\* A digest is told by what it is the digest of: there are no collisions.
sha256Hex(bytes) == [sha256 |-> bytes]

\* Method, path and body; all requests here have the same method and path.
httpFingerprint(body) == sha256Hex(<<"method", "path">> \o body)

\* What the canonical form is taken for, that it is one; and a delivery's body is
\* never what a request's method, path and body read like, so that the fingerprints
\* of the two are told apart (as are their rows: Scopes).
ASSUME BodyAssumption ==
    \A b, c \in { q.body : q \in HttpRequests } :
        /\ {b, canonicalize(b)} \subseteq Seq(Nat)
        /\ canonicalize(canonicalize(b)) = canonicalize(b)
        /\ b \notin { <<"method", "path">> \o c, <<"method", "path">> \o canonicalize(c) }

\* Mutant: the body is not part of what is hashed.
requestFingerprintNoBody(door, q) == httpFingerprint(<<0>>)

\* The body as it is, or the canonical form of a JSON body; by default a webhook's
\* is the body alone.
requestFingerprint(door, q) ==
    CASE door.fingerprint = "alone" -> sha256Hex(q.body)
      [] door.fingerprint = "jcs" /\ isJson(q.body) -> httpFingerprint(canonicalize(q.body))
      [] OTHER -> httpFingerprint(q.body)

\* The calls of execute that the requests come to, by the time they arrive.
Calls ==
    [ now \in (0 - Skew) .. (MaxTime + Skew) |->
        { [key |-> KeyLookup(e[1], e[2]).key, fingerprint |-> requestFingerprint(e[1], e[2]),
           body |-> e[2].body] :
          e \in { e \in Doors \X HttpRequests : Enter(e[1], e[2], now) = "execute" } } ]

\* The keys and the fingerprints are those of the calls.
ASSUME CallAssumption ==
    \A now \in DOMAIN Calls : \A call \in Calls[now] :
        call.key \in Keys /\ call.fingerprint \in Fingerprints

\* A request arrives that comes to a call of execute.  One that is answered by a
\* check, or goes past the layer to the handler, leaves nothing behind.
Receive(w) ==
    /\ request[w] = NoBody
    /\ \E now \in Readings : \E call \in Calls[now] :
         /\ Request(w, call.key, call.fingerprint)
         /\ request' = [request EXCEPT ![w] = call.body]
    /\ UNCHANGED <<capture, client, origin>>

-----------------------------------------------------------------------------
(* execute                                                                 *)

\* A call of the store is answered, or fails.
StoreCall(w) ==
    /\ pc[w] # "run"
    /\ WorkerStep(w) \/ BeginError(w) \/ CompleteError(w) \/ AbandonError(w)
    /\ origin' = [k \in Keys |->
                    CASE records'[k] # records[k] /\ records'[k].state = "completed" -> request[w]
                      [] records'[k].state # "completed" -> NoBody
                      [] OTHER -> origin[k]]
    /\ UNCHANGED <<capture, client, request>>

\* The handler returns its response; the client has it at once if it streams.
HandlerReturns(w) ==
    /\ pc[w] = "run" /\ ~Captured(w)
    /\ \/ /\ w \in Streaming
          /\ \E n \in 0 .. MaxChunks, fails \in BOOLEAN : captureStreaming(w, n, fails)
       \/ captureBodiless(w)
    /\ UNCHANGED <<vars, request, origin>>

\* It throws instead.
HandlerThrows(w) ==
    /\ ~Captured(w)
    /\ RunFailed(w) \/ RunUnclaimed(w)
    /\ out'[w] = "threw"
    /\ UNCHANGED <<capture, client, request, origin>>

\* The copy is there, and execute goes on with it: it is stored, over the cap
\* without its body; or the policy does not want it, or throws.
CopyResolved(w) ==
    /\ capture[w].settled = "resolved"
    /\ \/ RunStored(w) /\ sent'[w].result.omitted = (Len(capture[w].chunks) > Cap)
       \/ (RunFailed(w) \/ RunUnclaimed(w)) /\ out'[w] = "unstored"
       \/ StoreResultThrows(w)
    /\ UNCHANGED <<capture, client, request, origin>>

\* The source broke off, which to execute is a handler that throws.
CopyRejected(w) ==
    /\ capture[w].settled = "rejected"
    /\ RunFailed(w) \/ RunUnclaimed(w)
    /\ out'[w] = "threw"
    /\ UNCHANGED <<capture, client, request, origin>>

-----------------------------------------------------------------------------
(* After execute                                                           *)

Returned(w) == pc[w] = "idle" /\ out[w] # "none"

\* executed, or an error that comes after the response: the capture is closed or
\* failed, and the response returned if the client does not have it yet.
AnswerCaptured(w) ==
    /\ Returned(w) /\ Captured(w)
    /\ IF out[w] = "threw" THEN fail(w) ELSE close(w)
    /\ out' = [out EXCEPT ![w] = "none"]
    /\ UNCHANGED <<clock, records, pc, op, fence, sent, holder, orphan, request, origin>>

\* A replay, a problem or the handler's error, which is all there is to answer.
AnswerOther(w) ==
    /\ Returned(w) /\ ~Captured(w)
    /\ out' = [out EXCEPT ![w] = "none"]
    /\ request' = [request EXCEPT ![w] = NoBody]
    /\ UNCHANGED <<clock, records, pc, op, fence, sent, holder, orphan, capture, client, origin>>

\* The client of a response has all of it, or has gone.
Over(w) ==
    /\ request[w] # NoBody /\ pc[w] = "idle" /\ out[w] = "none"
    /\ client[w].state # "open" /\ client[w].stream # "cancelling"
    /\ capture' = [capture EXCEPT ![w] = NoCapture]
    /\ client' = [client EXCEPT ![w] = NoClient]
    /\ request' = [request EXCEPT ![w] = NoBody]
    /\ UNCHANGED <<vars, origin>>

\* The process dies, and its connection with it.
Dies(w) ==
    /\ Crash(w)
    /\ client' = [client EXCEPT ![w] =
                    [client[w] EXCEPT !.state = IF @ = "open" THEN "broken" ELSE @,
                                      !.stream = "closed", !.queue = <<>>]]
    /\ capture' = [capture EXCEPT ![w] = finish([@ EXCEPT !.clientOpen = FALSE], "rejected")]
    /\ UNCHANGED <<request, origin>>

-----------------------------------------------------------------------------
DoorStep(w) ==
    \/ StoreCall(w)
    \/ HandlerReturns(w) \/ HandlerThrows(w)
    \/ CopyResolved(w) \/ CopyRejected(w)
    \/ AnswerCaptured(w) \/ AnswerOther(w) \/ Over(w)

StreamStep(w) == SourceStep(w) \/ Cancel(w)

HttpNext ==
    \/ \E w \in Workers : Receive(w) \/ DoorStep(w) \/ Dies(w)
    \/ \E w \in Workers :
         (StreamStep(w) \/ ClientStep(w) \/ ClientCancels(w)) /\ UNCHANGED <<request, origin>>
    \/ (Tick \/ Purge) /\ UNCHANGED <<capture, client, request>>
       /\ origin' = [k \in Keys |-> IF records'[k].state = "completed" THEN origin[k] ELSE NoBody]

HttpSpec == HttpInit /\ [][HttpNext]_httpVars

\* Calls are answered, handlers end, sources yield, and clients read on as long
\* as they do not cancel: a server cancels for a client whose connection is gone.
HttpFairSpec ==
    /\ HttpSpec
    /\ \A w \in Workers :
         /\ WF_httpVars(DoorStep(w))
         /\ WF_httpVars(StreamStep(w) /\ UNCHANGED <<request, origin>>)
         /\ WF_httpVars(ClientStep(w) /\ UNCHANGED <<request, origin>>)

-----------------------------------------------------------------------------
(* Properties                                                              *)

\* The state of the door is well typed.
HttpTypeOK ==
    /\ TypeOK
    /\ capture \in [Workers ->
         [ streaming : BOOLEAN, length : 0 .. MaxChunks, fails : BOOLEAN, at : 0 .. MaxChunks,
           chunks : Seq(1 .. MaxChunks), reads : Seq({"pull", "drain"}),
           clientOpen : BOOLEAN, settled : {"none", "no", "resolved", "rejected"} ]]
    /\ client \in [Workers ->
         [ state : {"none", "open", "ended", "broken", "left"},
           stream : {"none", "open", "closing", "cancelling", "closed"},
           queue : Seq(1 .. MaxChunks), got : Seq(1 .. MaxChunks) ]]

\* What the clients are promised.
Promise == INSTANCE Exchange WITH
    Clients <- Workers,
    state <- [w \in Workers |-> client[w].state],
    length <- [w \in Workers |-> capture[w].length],
    got <- [w \in Workers |-> client[w].got],
    settled <- [w \in Workers |-> pc[w] = "idle"]

\* The door keeps the promise: the client of a captured response has the chunks in
\* order, and finds the body at its end only when it has all of them and execute
\* has returned, so that the record is settled before a retry can be sent.
KeepsPromise == Promise!ExchangeSpec

\* A replay answers the request it is given for: the result it returns was made
\* for the same JSON value, if not for the same bytes.
ReplayAnswersRequest ==
    [][\A w \in Workers :
         pc[w] = "begin" /\ out'[w] = "replayed" =>
             canonicalize(origin[op[w].key]) = canonicalize(request[w])]_httpVars

\* Every request that has come to execute is answered, and its exchange comes to
\* an end, even when the client cancels and nobody pulls any more.
RequestsEnd == \A w \in Workers : request[w] # NoBody ~> request[w] = NoBody

\* The requests that a webhook's receiver lets through at this time are authentic.
AdmitsOnlyAuthentic(now) ==
    \A door \in Doors, q \in HttpRequests :
        /\ door.kind = "webhook" /\ q.listed
        /\ Enter(door, q, now) \notin Problems
        => \/ /\ door.verify = "verify"
              /\ \E s \in q.signatures :
                   /\ s.secret \in Secrets /\ s.id = headersGet(q) /\ s.body = q.body
                   /\ s.at = q.at /\ now \in (s.at - Tolerance) .. (s.at + Tolerance)
           \/ door.verify = "marker" /\ q.marked

AuthenticTimes == { now \in 0 .. MaxTime : AdmitsOnlyAuthentic(now) }

\* A delivery reaches the store or the handler of a webhook only if a holder of a
\* secret has signed its id and its body not long ago, or a verifier in front of
\* the receiver has marked it: no other option, a skip and a missing id included,
\* opens a way around the gate.
GateHolds == clock \in AuthenticTimes

\* Rows are kept under legal keys only, and a header value is accepted exactly
\* when it is a legal key in one of the forms a client may write it in, and then
\* it means that key: no two keys are ever taken for each other, whatever they
\* contain.  Two keys in a repeated header are refused, although lookupKey does not
\* see that it is repeated; what else a repeated header may be is RepeatedRefused's.
KeyParsing ==
    \A k \in Keys :
        Present(records[k]) => k \in LegalKeys /\ ParsesAsWritten /\ RefusesTwoKeys

\* "a repeated header fails parseKey on its own": whatever execute is called for is
\* the key of a request that sends its key header once.
RepeatedRefused ==
    \A w \in Workers : pc[w] # "idle" =>
        \E door \in Doors, q \in HttpRequests :
            /\ Len(q.values) = 1
            /\ KeyLookup(door, q).key = op[w].key /\ q.body = request[w]

\* No row is made before it is clear whose it is: in every store, requests share
\* a row exactly if they agree in endpoint, principal and key, whatever the
\* principal's name contains; so do the deliveries of a webhook's sources, which
\* never share one with a request.
RecordsApart ==
    \A k \in Keys : Present(records[k]) => RowsApart

\* A completed row is replayed as the response it was made of: with its status,
\* its allowed headers and every byte of its body, or marked as being without it,
\* from whichever store it comes and however the body was cut into chunks.
ReplayFaithful ==
    \A k \in Keys : records[k].state = "completed" => ReplaysFaithfully

\* Whoever meets a row in flight is told a time to come back at which its lease
\* has ended.
RetryOutlivesLease ==
    \A w \in Workers : out[w] = "conflict" => AdvisesRetry

=============================================================================
