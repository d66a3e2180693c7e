------------------------------- MODULE Replay -------------------------------
(***************************************************************************)
(* What is kept of a handler's response, in which form each store keeps    *)
(* it, and the response that a replay makes of it: capture.ts and          *)
(* engine.ts before the store, memory.ts, codec.ts and the stores in it,   *)
(* capture.ts again after it.                                              *)
(*                                                                         *)
(* A member that is undefined, or null, is no element of a record's        *)
(* DOMAIN.  Headers are a set of pairs: a name may occur twice, and they   *)
(* have no order.  A byte is a number below 256.                           *)
(***************************************************************************)
EXTENDS Naturals, Sequences, FiniteSets, SequencesExt

CONSTANTS
    ReplayHeaders,   \* the header fields of handlers' responses: [name, value]
    ReplayBytes,     \* the bytes of their bodies
    ReplayCaps       \* the values of maxResultBytes

ASSUME ReplayAssumption ==
    /\ \A h \in ReplayHeaders : h.value \in STRING
    /\ ReplayBytes \subseteq 0 .. 255
    /\ ReplayCaps \subseteq Nat

NULL_BODY_STATUS == {204, 205, 304}

\* The members ms of a record that are there.
Members(r, ms) == [m \in DOMAIN r \cap ms |-> r[m]]

\* A record with one more member.
With(r, m, value) == [n \in DOMAIN r \cup {m} |-> IF n = m THEN value ELSE r[n]]

-----------------------------------------------------------------------------
(* From the response to what is handed to the store                        *)

\* Mutant: the allowlist decides about Set-Cookie, too.
storedHeadersCookies(headers, allow) == {h \in headers : h.name \in allow}

storedHeaders(headers, allow) ==
    {h \in headers : h.name # "set-cookie" /\ h.name \in allow}

concat(chunks) == FlattenSeq(chunks)

\* The chunks that the copy has: none after the one that makes it too large.
Recorded(chunks, cap) ==
    LET large(i) == Len(concat(SubSeq(chunks, 1, i))) > cap
        kept == {i \in 0 .. Len(chunks) : i < Len(chunks) => large(i)}
    IN  SubSeq(chunks, 1, CHOOSE i \in kept : \A j \in kept : i <= j)

\* What a capture resolves to.
captureResponse(res, allow, cap) ==
    [ kind |-> "http", status |-> res.status, headers |-> storedHeaders(res.headers, allow),
      body |-> IF "body" \notin DOMAIN res \/ res.status \in NULL_BODY_STATUS THEN <<>>
               ELSE concat(Recorded(res.body, cap)) ]

defaultStoreResult(result) ==
    result.kind = "message" \/ ("status" \in DOMAIN result /\ result.status < 500)

resultSize(result) == IF "body" \in DOMAIN result THEN Len(result.body) ELSE 0

omitBody(result) == With(Members(result, {"kind", "status", "headers"}), "omitted", TRUE)

isOmitted(result) == "omitted" \in DOMAIN result

\* What execute hands to complete.
Payload(result, cap) == IF resultSize(result) > cap THEN omitBody(result) ELSE result

-----------------------------------------------------------------------------
(* The stores: what complete keeps, and what begin returns of it later     *)

copyResult(result) == Members(result, {"kind", "status", "headers", "body", "outcome", "error"})
omittedToStored(result) == Members(result, {"kind", "status", "headers"})

\* The in-process store keeps a copy, and hands out another one.
copyRecord(rec) == With(rec, "result", copyResult(rec.result))
MemoryRecord(result) ==
    copyRecord(IF isOmitted(result)
               THEN [result |-> omittedToStored(result), resultOmitted |-> TRUE]
               ELSE [result |-> copyResult(result)])

\* The others keep two columns and a mark.  The first is JSON text.
encodeResultMeta(result) == [json |-> Members(result, {"kind", "status", "headers", "outcome", "error"})]
decodeResultMeta(text) == Members(text.json, {"kind", "status", "headers", "outcome", "error"})

BodyColumn(result) ==
    IF "body" \in DOMAIN result /\ ~isOmitted(result) THEN <<result.body>> ELSE <<>>

\* Where the body is text, it is written in base64: the digits 0 .. 63, and 64
\* for the sign that fills the last group of four.
bytesToBase64(bytes) ==
    LET byte(n) == IF n \in DOMAIN bytes THEN bytes[n] ELSE 0
        word(g) == 65536 * byte(3 * g + 1) + 256 * byte(3 * g + 2) + byte(3 * g + 3)
        digit(g, j) == IF j >= 2 /\ 3 * g + j > Len(bytes) THEN 64
                       ELSE (word(g) \div <<262144, 4096, 64, 1>>[j + 1]) % 64
    IN  [n \in 1 .. 4 * ((Len(bytes) + 2) \div 3) |-> digit((n - 1) \div 4, (n - 1) % 4)]

base64ToBytes(text) ==
    LET digit(n) == IF text[n] = 64 THEN 0 ELSE text[n]
        word(g) == 262144 * digit(4 * g + 1) + 4096 * digit(4 * g + 2)
                     + 64 * digit(4 * g + 3) + digit(4 * g + 4)
        size == 3 * (Len(text) \div 4) - Cardinality({n \in DOMAIN text : text[n] = 64})
        byte(g, j) == (word(g) \div <<65536, 256, 1>>[j + 1]) % 256
    IN  [n \in 1 .. size |-> byte((n - 1) \div 3, (n - 1) % 3)]

\* The sign for no body in the arguments of COMPLETE_LUA, which is no digit.
Dash == <<65>>

\* A column is a sequence of at most one value.  The hash of Redis has no field
\* result_body when complete was given the dash.
RedisBody(result) ==
    LET arg == IF BodyColumn(result) = <<>> THEN Dash ELSE bytesToBase64(Head(BodyColumn(result)))
        field == IF arg = Dash THEN <<>> ELSE <<arg>>
    IN  [n \in DOMAIN field |-> base64ToBytes(field[n])]

\* The row of a store: D1 and Durable Objects, Postgres, DynamoDB and Redis
\* differ in how the body is kept only.
RowOfResult(store, result) ==
    [ result_meta |-> encodeResultMeta(result),
      result_body |-> IF store = "redis" THEN RedisBody(result) ELSE BodyColumn(result),
      result_omitted |-> IF isOmitted(result) THEN 1 ELSE 0 ]

rowToRecord(row) ==
    LET meta == decodeResultMeta(row.result_meta)
        rec == [result |-> IF row.result_body = <<>> THEN meta
                           ELSE With(meta, "body", Head(row.result_body))]
    IN  IF row.result_omitted = 1 THEN With(rec, "resultOmitted", TRUE) ELSE rec

ReplayStores == {"memory", "sql", "dynamodb", "redis"}

\* The record that a duplicate finds.
RecordIn(store, result) ==
    IF store = "memory" THEN MemoryRecord(result) ELSE rowToRecord(RowOfResult(store, result))

-----------------------------------------------------------------------------
(* The replay                                                              *)

\* Headers.set.
SetHeader(headers, name, value) ==
    {h \in headers : h.name # name} \cup {[name |-> name, value |-> value]}

replayResponse(rec) ==
    LET omitted == "resultOmitted" \in DOMAIN rec
        marked == SetHeader(rec.result.headers, "idempotency-replayed", "true")
        useBody == /\ ~omitted /\ "body" \in DOMAIN rec.result /\ rec.result.body # <<>>
                   /\ rec.result.status \notin NULL_BODY_STATUS
    IN  [ status |-> rec.result.status,
          headers |-> IF omitted THEN SetHeader(marked, "idempotency-replay", "omitted") ELSE marked,
          body |-> IF useBody THEN rec.result.body ELSE <<>> ]

-----------------------------------------------------------------------------
(* What a replay promises                                                  *)

\* Responses without a body, and with one of a few chunks, empty ones included.
HandlerResponses ==
    LET bytes == UNION {[1 .. n -> ReplayBytes] : n \in 0 .. 2}
        bodies == UNION {[1 .. n -> bytes] : n \in 0 .. 2}
    IN  [status : {200, 204, 404, 503}, headers : SUBSET ReplayHeaders]
          \cup [status : {200, 404, 503}, headers : SUBSET ReplayHeaders, body : bodies]

\* The bytes that the first client has.
BytesSent(res) == IF "body" \in DOMAIN res THEN FlattenSeq(res.body) ELSE <<>>

\* The replay of res by a store has its status, the headers that are allowed and
\* no cookie, the mark in place of any header of its name, and every byte of res;
\* or, if these are more than the cap, none of them and another mark.
FaithfulReplay(store, res, allow, cap) ==
    LET result == captureResponse(res, allow, cap)
        replay == replayResponse(RecordIn(store, Payload(result, cap)))
        whole == Len(BytesSent(res)) <= cap
        marks == [name : {"idempotency-replayed"}, value : {"true"}]
                   \cup IF whole THEN {} ELSE [name : {"idempotency-replay"}, value : {"omitted"}]
    IN  defaultStoreResult(result) =>
          /\ replay.status = res.status
          /\ replay.headers =
               marks \cup {h \in res.headers :
                 h.name \in allow \ {"set-cookie"} /\ \A m \in marks : h.name # m.name}
          /\ replay.body = IF whole THEN BytesSent(res) ELSE <<>>

\* An allowlist of everything, of all but one name, and of nothing.
Allowlists ==
    LET names == {h.name : h \in ReplayHeaders} IN {{}, names} \cup {names \ {n} : n \in names}

ReplaysFaithfully ==
    \A store \in ReplayStores, res \in HandlerResponses, allow \in Allowlists, cap \in ReplayCaps :
        FaithfulReplay(store, res, allow, cap)

=============================================================================
