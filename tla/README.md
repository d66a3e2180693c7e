# A TLA+ verification of anyonce

anyonce runs a handler at most once per idempotency key while the key's record
is alive, and replays the stored result to every retry. The same design is
written twice, in TypeScript (`packages/`) and in Go (`go/`). This directory
models its core in TLA+, checks it with TLC on small instances, and proves the
main results with TLAPS for every instance.

## 1. Inventory

| Component | State it keeps | Operations | Hard behaviours | What makes it correct |
|---|---|---|---|---|
| Store contract, in-process stores (`core/src/types.ts`, `memory.ts`; `go/store/memory`) | one row per (scope, key): state, fingerprint, fence, lease, expiry, result | `begin`, `complete`, `abandon`, `purge`, `get` | caller-supplied clock readings; deletion of the fence with the row | one live claim per key; the fence stops late writers; a completed row stays as it is |
| Engine (`core/src/engine.ts`, `go/anyonce/engine.go`) | the attempt's local state | `execute` | interleaved callers, errors after the effect, crashes, lease overrun, fail-open | a result is stored by the claim that produced it, for its payload; no key stays stuck |
| SQL stores (`go/store/internal/sqlstore`, `stores/src/postgres.ts`, `d1.ts`, `sql.ts`) | the table | one conditional write, then a SELECT that names the reason; three rounds of begin | the gap between the two statements | a call amounts to one atomic call of the contract |
| Redis store (`stores/src/redis.ts`, `go/store/redis`) | a hash per key, native expiry | Lua scripts, EVALSHA then EVAL | native expiry, resent scripts | as the contract |
| DynamoDB store (`stores/src/dynamodb.ts`, `go/store/dynamodb`) | an item per key, native TTL | conditional writes that return the old item | SDK retries; a TTL in seconds, by another clock | as the contract; no item goes that a caller's clock shows alive |
| Durable Objects store | the table, a sweep table, one alarm | `begin` ... `purge`, `alarm` | wall clock beside the callers' clock; when the alarm is moved | every row is removed in the end, none before its time |
| HTTP door and capture (`core/src/http`) | the captured copy of the body, its settlement | the checks before `execute`; pull, cancel, drain, close, fail; replay | cancel racing a pull; client gone before the end; the order of settlement and end of body | the record settles exactly once, with the whole body or none, and before the client sees the end |
| Go HTTP door (`go/internal/httpx`, `httpmw`) | the tee writer's copy | write, flush, hijack, panic | panics and hijacks after part of the body | as the HTTP door |
| Queue doors (`packages/anyq`, `go/anyqmw`) | the last untranslated in-flight error | park, acknowledge, dead-letter | concurrent deliveries, redelivery | no message is lost under `retry`; a parked duplicate comes back after the lease |
| Webhook receivers (`packages/webhooks`, `go/webhookmw`) | once-only log lines, the verified marker | verification gate, then the HTTP door | order of the checks | nothing reaches the store or the handler before the gate |
| Hono adapter (`packages/hono`) | none | the scope of the matched route | | callers share a row exactly when they should |
| Keys, fingerprints, JCS, structured-field strings | none | pure functions | escapes and quotes at the edges, repeated headers | accept exactly the documented syntax; equal fingerprints only for equal requests |
| Row codecs (`stores/src/codec.ts`) | none | encode and decode a result | empty, missing and omitted bodies | a replay is the response it was made of |
| Conformance runner (`packages/conformance`, `go/conformance`) | what is pending, what was judged | send, settle, judge, report | concurrent steps, failing requests, a vector that errors half-way | a pass is earned, the exit code is true |
| Scripts | none | | | build tooling |

How they interact: a door builds an operation (scope, key, fingerprint) and
calls `execute`; `execute` calls `begin`, runs the handler when the claim was
acquired, and then calls `complete` or `abandon` with the claim's fence. The
store is the only state that callers share. Every store must behave like the
in-process one.

## 2. Modules

| Module | Models |
|---|---|
| `ClaimStore` | the row and what `begin`, `complete`, `abandon` and `purge` make of it, as operators (from `memory.ts`) |
| `Engine` | any number of workers that call `execute` on one store; time, crashes, errors, resent calls, purge and native expiry |
| `SqlStatements` | the SQL text that the SQL stores and the Durable Object share: WHERE clauses, the written rows, the verdict on a refused write |
| `SqlEngine` | `execute` on a SQL store, one step per statement |
| `DurableEngine` | `execute` on a Durable Object: its table, its sweep table and its alarm |
| `KeyValueEngine` | `execute` on Redis and DynamoDB: scripts and conditional writes on encoded items, native expiry; and, as two more of its backends, `SqlEngine` and the store in memory |
| `QueueDoor` | wrapped message handlers on a broker: `execute` behind deliveries, park, acknowledge, dead letter, redelivery |
| `HttpCapture` | the copy of a response's body, shared by the client's pulls, its cancel and the drain |
| `KeySyntax` | the key parsers, and how keys may be written |
| `Scopes` | the scope of a request or a webhook, and the name each store makes of scope and key |
| `Replay` | what is kept of a response, in which form each store keeps it, and the replay |
| `ProblemAnswers` | the status and headers of the answers that are problems |
| `HttpDoor` | requests at HTTP doors and webhook receivers: the checks before `execute`, `Engine` with `HttpCapture`, the answers after it |
| `Exchange` | the abstract specification of what an HTTP client is promised |
| `ConformanceRunner` | the conformance runner on a target that answers in any order, its command line, exit code and report |
| `EngineProofs`, `SqlProofs`, `KeyValueProofs`, `DurableProofs`, `QueueProofs`, `CodecProofs`, `HttpProofs`, `ConformanceProofs` | the theorems |
| `MCEngine`, `MCSqlEngine`, `MCKeyValueEngine`, `MCDurableEngine`, `MCQueueDoor`, `MCHttpDoor`, `MCConformanceRunner` | the symmetry, requests, messages and vectors of the instances TLC checks |

`SqlEngine`, `DurableEngine`, `QueueDoor` and `HttpCapture` extend `Engine`, and
`KeyValueEngine` extends `SqlEngine`. The stores replace the store calls and are
shown to implement `Engine`, which is the abstract specification of every store.
The doors put `execute`'s real callers in the place of `Engine`'s arbitrary ones.
`HttpDoor` extends `HttpCapture` and the four modules of pure operators beside it,
and instantiates `Exchange` with a refinement mapping: the client's view of its
stream, and `pc[w] = "idle"` for a settled attempt.

Definitions whose comment begins with "Mutant" are the definition that follows
them with a plausible mistake in it. No specification uses them: they show that
each property can fail.

### From the code to the state

- `records[k]` is the row; a missing row is `Absent`, with fence 0.
- `pc[w]` says where worker w stands in `execute`: "begin", "complete" and
  "abandon" mean that this store call is sent and not answered, "run" that the
  handler runs. `op[w]` is its operation with the `now` it passed to `begin`,
  `fence[w]` its claim (0 without one, as in fail-open), `sent[w]` the
  arguments of its `complete`, `out[w]` what `execute` answers.
- `holder` and `orphan` are history variables that no guard reads. `holder[k]`
  is the worker whose `begin` wrote the row; `orphan[w]` says that the row of
  w's key was deleted while w had a claim on it.
- A store call takes effect in one step, at any time after the worker read its
  clock. `Readings` is what a clock can show: the true time, off by at most
  `Skew`.
- An error of a call (`BeginError`, `CompleteError`, `AbandonError`) comes with
  or without the call's effect. A call that takes effect only after its worker
  has seen an error is not modelled separately.
- `Crash` loses the worker's local state and nothing of the store's. A call
  whose effect came before the crash is the error step with the effect, after
  which the worker, idle again, keeps no claim: the store cannot tell the two
  apart.
- `BeginResent`, `CompleteResent` and `AbandonResent` are a client library that
  repeats a call whose answer was lost, before the worker hears of either.
- `StoreResultThrows` is `policy.storeResult` throwing, which `execute` calls
  outside its try blocks.
- `NativeSweep` is the expiry by which a server drops a row itself, some grace
  after its life; `KeyValueEngine` has its details.

In `SqlEngine`, `stage[w]` says whether the call's write or its SELECT comes
next and `tries[w]` counts `begin`'s rounds. `SqlStatements` is translated from
the SQL text; nothing is taken from `ClaimStore` but the shape of a row.

In `KeyValueEngine`, `backend` names the store a behaviour is about and never
changes, so that one run covers the four kinds (`MemoryCall` are the calls of `Engine`). `items` is what the server
keeps, with the result split as `codec.ts` splits it; `records` is always its
decoding, so that every property of `Engine` is about what a caller would read
back. `evict` is the native expiry: on Redis the time of the script plus life and
grace, on DynamoDB the caller's clock plus life and grace, rounded down to whole
seconds (`Second` is a second in units of the clock). `script` says whether Redis
is called by hash or with the text. The time `Date.now()` in DynamoDB's `begin` is
taken to be the `now` of the operation: a later one makes the item stay longer,
which the model allows anyway, since the server may drop an item late.
DynamoDB's three rounds of `begin` never go past the first, because the
condition and the old item it returns are one step.

In `DurableEngine` a method of the object is one step: the platform delivers no
other event to an object that waits for its storage (`requirements.md:258`).
`sweep` is the sweep table, `alarm` the object's one alarm. `Alarm` removes the
rows that are due and sets the alarm for the next one; against `Engine` it is a
`NativeSweep`. Life and grace are the same for all rows of an object. The set of
objects that the Worker remembers for `purge` (`touched`) is abstracted to purge
happening or not; the platform's retries of a failing alarm, and a crash between
a write and its `setAlarm`, are not modelled.

In `QueueDoor` a worker is one concurrent delivery. `box[d]` is what the broker
holds of delivery d, `taken[w]` the delivery that w handles, `met[w]` the end of
the lease its `begin` was refused for, `thrown[w]` the error that anyq has yet to
decide about. `handled` and `parkedOn` are history. The door stores no result but
`ok` (`OkResult`). A consumer that the broker has given up goes on, and what it
reports then is void (`Owns`); this is also how a consumer that dies after
`execute` and before the acknowledgement looks from outside. `Underivable` stands
for every way in which scope, key or fingerprint cannot be had. `OnInFlight` and
`HasStrategy` are the options of each consumer. The clock counts milliseconds;
Go's is finer and its delay is rounded down to a millisecond, so that a parked
copy may come back early and park again (`services_test.go:354` says so too); this
is left out. So is `pending`, `warned` and the warning they lead to, a log line
that decides nothing.

In `HttpCapture` a chunk is a number and one unit of the size. `reads` are the
outstanding reads of the source, answered in the order they were asked in: one
read of a pull, and the drain's behind it. `client[w].queue` is the stream's own
queue (one chunk, the default high-water mark), `got` what the client has. A
client that cancels is "cancelling" until the callback runs, which covers runtimes
whose callback is not synchronous (`capture.ts:158`). `settled` is the promise
`stored`.

In `HttpDoor` a worker is one request at a time at one of the `Doors`. Everything
before `execute` waits for the request alone and is one step, `Receive`; `First`
keeps the order of the checks. `Calls` lists the calls of `execute` that the
requests can come to. A request that a check answers, or that goes past the layer,
changes nothing, so that the checks are looked at by the invariants instead
(`GateHolds`). `origin` is history: the body of the request whose result a row
keeps. A signature is its content together with the secret; two signatures are
equal when these are. All requests of the run have one method, path and scope:
`Scopes` compares scopes by itself. `Dies` is the process: the connection breaks
with it.

`KeySyntax`, `Scopes`, `Replay` and `ProblemAnswers` are operators. The invariants
that use them evaluate them in states in which the door relies on them (a row is
there, a row is completed, a worker met a conflict), over all inputs within the
bounds.

In `ConformanceRunner` a request is a pair (vector, step); `flight` says what has
become of it, whichever vector the runner is at, since a vector that errors leaves
requests behind. `pending` is the set of steps in the code's Map; its insertion order,
which is that of the steps, comes back when it is settled (`InOrder`). `ran` and `counter` are the target's. `delayMs` is not modelled:
requests are answered at any time anyway. A rejection that nothing handles yet may
end the process (phase "crashed").

## 3. Runs

| Run | Instance | Shows |
|---|---|---|
| `within_lease` | the stores in memory, SQL, Redis and DynamoDB; 2 workers, 1 key, 2 payloads, Lease 3, Ttl 4, Skew 1, a native grace of 2 and seconds of 2 units, fail-open, faults, 3 rounds | types; `ExclusiveWhileLeased`, `ReplayMatchesPayload`, `StoredByHolder`, `StoredAnswerTrue` while attempts end within their leases; `ImplementsEngine`: each store refines `Engine`'s `Spec` |
| `overrun` | Lease 2, Ttl 3, Skew 1, fail-closed, attempts overrun, calls are resent | `FenceWitnessesClaim`, `LateWriterFenced`, `LiveClaimRemovedByHolder`, `CompletedStable`, `PayloadFixedWhileAlive` |
| `liveness` | 1 payload, Lease 2, Ttl 8 (longer than the run), fail-open, so that a claim may be left behind by a `begin` that threw, faults until time 4 | `NoStuckKey` under `FairSpec` |
| `superseded_writer` | Lease 2, Ttl 8, no faults, no skew | finding 1 |
| `stores_overrun` | the same stores; Lease 1, Ttl 2, fail-open, attempts overrun, calls are resent, faults | `LateWriterFenced`, `CompletedStable`; `EvictsOnlyDead`: native expiry takes no item that a caller's clock shows alive |
| `sql_false_ok` | Lease 1, Ttl 8, no faults | finding 2 |
| `durable_sweep` | 1 worker, 2 keys, Lease 1, Ttl 1, Skew 1, Grace 2, attempts overrun, faults until time 2 of 4, so that entries fall due at 3 and at 4 | types; `DurableImplementsEngine`; `AlarmCoversRows`: the alarm is set for the first row or earlier; `SweepsOnlyDead`; `RowsForgotten` under `DurableFairSpec`: no entry stays for good past its time, purge or not |
| `queue_retry` | 2 messages with one key and different payloads, 2 consumers, of which one acknowledges duplicates and lacks the strategy; Lease 2, Ttl 3, fail-closed, faults at the start | types; `AckedMeansHandled`: the other consumer acknowledges nothing unhandled; `ReentersAfterLease`: a parked copy does not meet the same lease again |
| `queue_liveness` | 1 message, 2 consumers with `retry` and the strategy, Lease 2, fail-open, faults until time 2 of 4 | `DeliveriesSettle` under `DoorFairSpec` |
| `http` | 2 workers, one of them with bodies of up to 3 chunks; cap 3 of which the store holds 2; 2 HTTP doors and 3 webhook receivers; requests with every combination of flags, keys, sizes, bodies, times and signatures of `MCHttpDoor` | types; `CopyWhole`, `KeepsPromise` (refinement of `Exchange`), `RequestsEnd`; `GateHolds`; `ReplayAnswersRequest`; `KeyParsing`, `RecordsApart`, `ReplayFaithful`, `RetryOutlivesLease` |
| `repeated_header` | the doors of `http`, requests that send their key header once or twice, no faults | finding 3 |
| `conformance` | 5 vectors, 6 command lines, 3 answers and failures | types; `PassIsEarned`, `JudgedOnce`, `CountIsOwn`, `ExitZeroMeansPassed`, `RunEnds` |

Bounds. A worker starts as many attempts as time allows, so two workers give any
number of successive claims; a late writer, its successor and a third attempt
need only two. Rows of different keys never meet in any operation, so one key is
enough, except for the Durable Object, whose rows share one alarm: two keys make
it be moved and set again. Their entries can fall due at two different times there,
so that after the first sweep the alarm has to be set again, and ring, for the other
row to go: a sweep that forgets to set it breaks `RowsForgotten`. `MaxTime` stops the clock after one life of a row and
the claim that follows it in `within_lease` and `overrun`; the fence stays finite because every
claim on a live row needs a lapsed lease. Calls are not resent in `within_lease`,
because an `abandon` that is applied twice breaks exclusiveness; that the stores
refine `Engine` with resends too is `KeyValueRefinement`'s. `FaultHorizon` above `MaxTime` means
faults at any time. Workers and payloads are interchangeable (symmetry), except
in the runs with a liveness property, which use none, and in `queue_retry`, whose consumers have
different options: there the two messages are, each with its payload. `MaxAttempts` 2 lets a delivery fail and
come back once before anyq dead-letters it; at `MaxTime` every park ends, and
`ReentersAfterLease` says nothing of that moment. The queue runs have no skew: a
consumer whose clock is ahead asks for too short a park, and merely parks again.

In `http` one worker streams and the other answers without a body, so that a
streamed attempt meets duplicates, replays and conflicts of the other; two streams
never touch each other. Three chunks, of which the store takes two, give a body
below, at and above the cap, a pull and a drain that share a source, and a break in
every place. The door is fail-closed there: an attempt without a claim behind the
capture differs from one with a claim in nothing that the capture sees. Key headers
have at most 5 characters of an alphabet with a letter, quote, backslash, comma,
blanks and a control character, and keys at most 4: every rule of the parsers is
about one character, its neighbour or the limit. A request sends its key header at
most twice, as more values only make the joined one longer. The rows of a webhook's
sources are compared at one route at a time: `webhookScope` joins route and source
with a slash, so that `/hooks` with the source `a/b` and `/hooks/a` with the source
`b` have one scope, if an application has both routes and names its sources so. The
key of a delivery is the signed id; another `idHeader` and a `key` callback
(`receiver.ts:113`) are left out. Only requests with the first body
carry the marker, which keeps the calls of `execute` few: two doors that fingerprint
differently, and three bodies of which two are the same JSON value. In `conformance`
the vectors have chained, doubled and missing partners, which are all the shapes of
`concurrentWith`; it is the one run that may stop (a run of the tool ends).

Fairness (`FairSpec`). Time passes; a call is answered, and a handler ends, in
the end (`WF` of each worker's own steps); callers retry every key with every
payload. Nothing is assumed of `purge` and of native expiry, and faults are not
fair: they need not happen, and cease at the horizon, which is placed so that one
whole lease fits after it. `NoStuckKey` holds although `Ttl` is never reached: it
is the takeover that frees the key.

`DurableFairSpec` assumes that time passes and that an alarm which is due rings,
which is the platform's promise; nothing of workers or purge. `DoorFairSpec`
assumes that time passes, that what has begun ends, that the broker delivers what
is queued in the end (strong fairness, since workers may be busy at times), and
that it delivers again what a dead consumer has left. `HttpFairSpec` assumes that
calls are answered, handlers end, sources yield, and that a client either reads on
or goes away (a server cancels the stream of a lost connection); not that it cancels.
`RunnerSpec` assumes that the runner goes on and that every request is answered or
fails: a target that hangs hangs the runner, which sets no time limit
(`conformance/src/run.ts:123`).

## 4. Findings

1. *The fence restarts.* `abandon` deletes the row and with it the fence
   (`memory.ts:113` and every other store), so the next claim has fence 1 again.
   A worker stalled under fence 1, superseded under fence 2 by an attempt that
   abandons, later completes into the row of a third attempt. By the same path
   its `abandon` would delete the third attempt's live claim.
   `docs/semantics.md:147` says such a `complete` "is refused as `stale_fence`",
   `requirements.md:389` that the fence "invalidates completions from a
   superseded lease holder". (`superseded_writer`)
2. *A false ok.* In the SQL stores another worker can insert a row with the same
   fence between the refused UPDATE and the SELECT; `complete` then answers `ok`
   for a row that is in flight (`sqlstore.go:266`, whose comment says "the row is
   already completed at this fence"). (`sql_false_ok`)
3. *A repeated header.* `lookupKey` leaves it to `parseKey` to refuse a header that was
   sent twice, whose values `Headers.get` joins with a comma and a space. Two keys are
   refused (`KeyParsing`), but a key and an empty value are joined to `a, `, which is
   trimmed to the key `a,`, and `"a` and `b"` to the quoted key `a, b`: both requests are
   served. The comment at `core/src/http/request.ts:15` says that "a repeated header fails
   parseKey on its own", `docs/semantics.md:91` and `docs/problems.md:10` that it is
   answered with `invalid-key`, which is what the Go door does
   (`go/internal/httpx/request.go:31`). (`repeated_header`)

The first two need an attempt that outlives its lease. `LateWriterFenced` and
`FenceWitnessesClaim` state exactly what remains true then: the fence protects
as long as no row was deleted under the late worker.

Two observations without a run. `anyq`'s wrapper keeps one `pending` error for all
concurrent deliveries: one that begins after an in-flight error was thrown and
before anyq has asked the strategy about it warns of a missing strategy that is
there (`go/anyqmw/middleware.go:39` says "A strategy marks the error translated
before the next delivery arrives."); only a log line depends on it. And
`dynamodb.ts:68`, "a scope never contains one, a key may", is the other way round
for HTTP: `KeySyntax` lets no separator into a key, while a principal may have one
(`ItemsNamed` therefore assumes that it has not; no two callers share a row either
way, since the key after the last separator cannot contain one).

## 5. Proofs

Assumptions on the constants are the named ASSUMEs of the modules, which TLC evaluates
on the instances of the runs: positive lease, life and seconds; natural skew, grace, sizes
and bounds; special values that are not ordinary ones; requests, messages and options
of their types. Two say more. `NativeGraceAssumption` (`KeyValueEngine`): the native
grace is at least the grace plus a second (less one tick), which is what the rounding of a TTL to
seconds costs. `BodyAssumption` (`HttpDoor`): the canonical form of a canonical form is
itself, and no body is one that already has the method and path in front, as a
fingerprint of a request without canonical form would have it. The sets of workers,
keys, payloads, deliveries and requests may be of any size, infinite ones included.

- `TypeCorrect`: `Spec => []TypeOK`. The inductive invariant `TypeInv` adds
  `AttemptShape`, which relates `pc` to `op`, `fence` and `sent`: a worker that
  is not idle has a key, and one that completes or abandons has a claim.
- `FencingCorrect`, `LateWriters`: `FenceWitnessesClaim` is inductive together
  with `TypeInv`. Every step either leaves rows and claims alone, raises a fence
  and names its holder, or deletes a row and marks the claims on it as orphans.
  No assumption on leases or clocks is needed.
- `LeaseExclusive`, `ReplayCorrect`, `StoredCorrect` assume `WithinLease`:
  attempts do not overrun, calls are not resent, and twice the skew is less than
  the lease and than the life. The inductive invariant `LeaseInv` says that no
  clock has reached the end of an attempt's claim (`Timely`) and that a claim's
  row is exactly as its own `begin` wrote it (`ClaimHeld`). Then every other
  `begin` is refused, every purge and sweep passes the row by, and no two
  claims are on one key. Resent calls are excluded for a reason: an `abandon`
  applied twice can delete the claim made in between.
- `ReplayStable`: `CompletedStable` from `PastInv`: an outstanding `begin`
  carries a reading of the past, at most `Skew` ahead.
- `PayloadFixed`, `LiveRowsKept`: from `PastInv` and `FenceWitnessesClaim`, with
  attempts of any length and resent calls: a live row keeps its payload, and only
  its holder, or a worker that was orphaned before, removes it. `StoredTruth`:
  under `WithinLease` an answer "stored" is given in the very step that stores it.
- `SqlRefinement`: under `WithinLease`, with faults possible at all times,
  `SqlSpec => ImplementsEngine`. Each statement maps to a step of `Engine` or a
  stutter: the granted write is the call; a refused write stutters and its
  SELECT is the call, judged on the row the SELECT sees; three unsettled rounds
  are a failing `begin`. `SqlShape` keeps the facts that make this so: a missing
  row is `Absent`, and a `complete` never gets to its SELECT, because its row is
  still the worker's own. `SqlExclusive` carries `LeaseExclusive` over.
- The last part of `EngineProofs` relates the SQL text to the contract: when the row is
  `Absent` wherever it is missing (`NoGhostRows`), the upsert writes exactly when
  `begin` grants, and the verdict on a refused write is the contract's outcome.
- `KeyValueRefinement`: while `backend` is not "sql", `StoreSpec => ImplementsEngine`,
  with attempts of any length, since a script or a conditional write is one step.
  The store in memory is among them. The inductive invariant `KvInv` says that every item is the encoding of a row,
  that `records` is the decoding of the items, and that an item's native end is no
  earlier than its own end plus grace, minus the skew. `StoresRefine` puts it together
  with `SqlRefinement` for all backends under `WithinLease`, `KeyValueFencing` carries
  the fence over, and `EvictionSafe` needs `Grace >= 2 * Skew`.
- `DurableRefinement`: `DurableSpec => DurableImplementsEngine` without any
  assumption on leases, since a method is one step. `DurableInv` adds to `PastInv`
  and `NoGhostRows` that every row has a sweep entry no earlier than its end plus
  grace minus the skew (`SweepShape`), and that the alarm is set for no later than
  the first entry (`AlarmShape`). `AlarmCovers` and `SweepSafe` follow, the latter
  with `Grace >= 2 * Skew`; `SWEEP_NEXT`'s minimum exists by well-foundedness of
  the naturals. `DurableFencing` carries the fence over, and `DurableTypes`
  is its type correctness.
- `CapturedCopyWhole`: `HttpSpec => []CopyWhole`, from the shape of chunks alone
  (`ChunkAssumption`). `CopyWhole` looks only at a record once it is resolved, so the
  inductive invariant `CopyInv` follows the copy before that (`CopyFollows`): it is
  exactly what was read of the source, up to the chunk that went over the cap, and a
  record is resolved only when the source was read to its end.
  Who reads, a pull of the client or the drain after its cancel, makes no difference
  to either part, which is why their interleavings cannot lose or repeat a chunk.

- `DoorTypeCorrect`, `NothingLost`, `DoorExclusive`: a delivery's step is a step of
  `Engine` or leaves it alone, so `LeaseInv` carries over; `DoorShape` ties an attempt to
  the delivery its worker took, and `Witnessed` says that a handler returned for every
  completed row, every result on its way to the store and every answer that will be
  acknowledged. `AckedMeansHandled` follows under `WithinLease`: in an overrun, an
  acknowledged duplicate may replay another message's result (finding 1).
  `ParkSuffices`: with clocks that agree a parked copy does not meet its lease again;
  `ParkNearly`: with skew it comes back at most twice the skew before that lease is over.
- `HttpTypeCorrect`, `PromiseKept`: the door refines `Exchange`. `ShapeInv` relates a
  client's stream to the capture that feeds it (`StreamShape`: at most one read of a pull
  and then one of the drain; the client has what was read but for the queued chunk) and
  the capture to the attempt (`ExchangeShape`: nothing is stored or refused before the
  copy is whole). That the end of the body comes after the settlement is exactly the
  mapping of its last step.
- `GateSound`: `GateHolds` for all doors, requests, secrets and tolerances. It is about
  the order of the checks, not about steps; what it needs of the state is that the clock
  is a number.
- `AdviceHolds`: `RetryOutlivesLease`, from the rounding up of `Retry-After` to seconds.
- `ReplayRight`: `ReplayAnswersRequest` under `WithinLease`. `OriginInv` says that the
  fingerprint of a row is that of the body it came from, at some door, and that a
  worker's operation carries the fingerprint of the request it holds. Equal fingerprints
  then mean equal canonical values, at whichever doors, by `BodyAssumption`.

- `RunnerTypeCorrect`, `StepsJudgedOnce`, `PassesEarned`, `CountsOwn`, `ExitCodeTrue`: the
  conformance runner, for any vectors that the schema and its test admit
  (`VectorAssumption`). `RunnerInv` says that a step that was sent is pending, awaited or
  judged and only one of them, and that these are all the steps before `at` (`Placed`);
  that nothing is sent before its turn (`Fresh`), so that no answer is overwritten; that
  an outcome without failures is one of an answer that meets the expectation
  (`Founded`; the count of handler runs it is compared with included); that without an error only the vector at hand has requests under way
  (`Own`); and that there is one result per vector asked for so far (`Tallied`). That
  the settled steps are all of the pending ones is a count: an ascending sequence as
  long as the set leaves none out (`OrderFacts`).

- `KeysRight`: `HttpSpec => []KeyParsing`. That rows are kept under legal keys only is
  inductive with `LegalInv`, which says it of rows and of attempts: the checks of
  `runIdempotent` and `webhookReceiver` are made in order, so that a request which comes
  to `execute` has a key that was parsed (`ExecutesLegal`, `EntersLegal`), and a call of
  the store writes no row but that of its attempt's key. The rest is about the parser,
  for header values of any length: `WrittenKeysAreAccepted`, `AcceptedKeysAreWritten` and
  `JoinedKeysAreRefused` (two values that are each a key; see finding 3), put together in `KeysAreParsed`. The argument for the quoted
  form is that what is parsed from the i-th character on is valid exactly when the
  characters from there on are the escaped form of a key and a quote, and that a string
  can have nothing after the end of such a form: of two joined values, the first is a
  quoted form with more after it, or there is a space in what would be a bare key.
- `RecordsKeptApart`: `HttpSpec => []RecordsApart`, from `RowsAreApart`. For HTTP requests
  `RequestsShareRows` says it of names of any length over any alphabet: a key has no
  separator, so the last separator of a store's name is where the key begins, and an
  endpoint has no hash sign (a URL's fragment is not sent), so the first one of a scope
  is where the principal begins, whatever it contains. For sets of callers, `RowsApart`
  compares cardinalities, and equal images have equal cardinalities (`SameImages`).
- `ReplaysKeptFaithful`: `HttpSpec => []ReplayFaithful`, from `EveryReplayIsFaithful`,
  which holds for responses with any headers and chunks, every store, allowlist and cap.
  It rests on `Base64RoundTrip` for the stores that keep text, and on the running
  concatenation of the capture being the flattened body (`ConcatIs`, `FlattensOnce`).
  The proof found one case that the property used not to state: a stored header with
  the name of a mark (`idempotency-replayed`, `idempotency-replay`) is replaced by the
  mark, which is what `headers.set` does.

The theorems about pure functions need inductions, and the induction theorems of the
library take an operator as a parameter, which the provers cannot instantiate.
`CodecProofs` goes around it: a set of numbers has a least member (`LeastNat`, from the
well-foundedness of the naturals), so a set of numbers with 0 and the successor of each
of its members has them all (`SetInduction`), and every induction names the set of the
numbers for which its claim holds. That a recursively defined function meets its
equation is shown once, for the iteration of a step (`Iterates`): a function that
meets it exists for every length, and the definition chooses one.

Only model-checked: `NoStuckKey`, `RowsForgotten`, `DeliveriesSettle`, `RequestsEnd` and
`RunEnds`, because liveness under fairness is out of the prover's reach. Of `RowsForgotten` the
safety half is proved: the alarm is never later than the first entry (`AlarmCovers`), so
that what is left to fairness is that a due alarm rings. Every other
property of a passing run is stated by a theorem.

## 6. Plan

Done: the contract, the engine, every store, the queue doors, the HTTP door with its
capture and replay, the webhook gate, the key parsers and the conformance runner; and
every safety property of theirs proved. Left, in this order:

1. The Go HTTP door: the tee writer's panic and hijack paths.
2. Streams at both workers, and fail-open, in `http`; the theorems about the door
   already cover both.
3. Canonical JSON as more than the order of its members: `BodyAssumption` states what
   the theorems take from it.

## 7. Not modelled

Hooks (they cannot change the engine's state) and log lines; creation times (no
decision reads them); HMAC, SHA-256 and base64 of signatures and digests (equal
exactly when their inputs are); the JSON text of encodings, and numbers and escapes
in canonical JSON; schema creation; the Go HTTP door, whose tee writer is another
design than the TypeScript capture; the Go twins of doors and runner where they
differ; loading of conformance vectors and the Markdown report; key generation
(random); examples, benchmarks and scripts.
`leaseMs` above `ttlMs` is not refused by the code; `ClaimEnd` takes the smaller
of the two, and the theorems hold for both orders.
