--------------------------- MODULE KeyValueEngine ---------------------------
(***************************************************************************)
(* Workers that call execute on a store of items: Redis                    *)
(* (packages/stores/src/redis.ts) or DynamoDB (dynamodb.ts).               *)
(*                                                                         *)
(* A call is one atomic step at the server, a Lua script or a conditional  *)
(* write that returns the item it was refused by.  What the server keeps   *)
(* is not the record but its encoding: the result is split into the        *)
(* attributes result_meta, result_body and result_omitted, and missing     *)
(* attributes mean something.  items holds the encoded rows and            *)
(* rowToRecord decodes them.  Nobody purges: the server drops an item by   *)
(* its own clock, at evict[k].                                             *)
(*                                                                         *)
(* backend says which store this behaviour is about, the SQL stores of     *)
(* SqlEngine and the store in memory included, so that one run compares    *)
(* all of them with the contract.                                          *)
(***************************************************************************)
EXTENDS SqlEngine

CONSTANTS
    NoText,        \* an attribute that is not there
    Never,         \* the native expiry of a key without an item
    NativeGrace,   \* nativeTtlGraceMs
    Second         \* how many units of the clock DynamoDB's ttl is rounded to

ASSUME TextAssumption == NoText \notin Workers \X Fingerprints
ASSUME NeverAssumption == Never \notin Int
ASSUME SecondAssumption == Second \in Nat \ {0}
ASSUME NativeGraceAssumption == NativeGrace \in Nat /\ Grace + Second - 1 <= NativeGrace

VARIABLES
    backend,   \* which store it is; never changes
    items,     \* what a key-value server keeps
    evict,     \* when the server may drop each item
    script     \* how Redis is called: by the script's hash, or with its text

kvVars == <<sqlVars, backend, items, evict, script>>

-----------------------------------------------------------------------------
(* The encoding of a row                                                   *)

NoItem ==
    [ state |-> "absent", fingerprint |-> NoFingerprint, fence |-> 0,
      lease_until |-> 0, expires_at |-> 0,
      result_meta |-> NoText, result_body |-> NoText, result_omitted |-> 0 ]

\* Everything of a result but its body.
encodeResultMeta(result) == <<result.by, result.of>>

\* The body, or the mark for none: the body of the run that has this meta.
encodeBody(result) == IF result.omitted THEN NoText ELSE encodeResultMeta(result)

\* Mutant: the mark of an omitted body is not read back.
rowToRecordForgetsOmitted(item) ==
    [ state |-> item.state, fingerprint |-> item.fingerprint, fence |-> item.fence,
      leaseUntil |-> item.lease_until, expiresAt |-> item.expires_at,
      result |-> IF item.result_meta = NoText THEN NoResult
                 ELSE [ by |-> item.result_meta[1], of |-> item.result_meta[2],
                        omitted |-> FALSE ] ]

\* The record that an item stands for.
rowToRecord(item) ==
    [ state |-> item.state, fingerprint |-> item.fingerprint, fence |-> item.fence,
      leaseUntil |-> item.lease_until, expiresAt |-> item.expires_at,
      result |-> IF item.result_meta = NoText THEN NoResult
                 ELSE [ by |-> item.result_meta[1], of |-> item.result_meta[2],
                        omitted |-> item.result_omitted = 1 ] ]

\* A claim writes every attribute, and leaves no result.
ClaimedItem(f, fc, now) ==
    [ state |-> "in_flight", fingerprint |-> f, fence |-> fc,
      lease_until |-> now + Lease, expires_at |-> now + Ttl,
      result_meta |-> NoText, result_body |-> NoText, result_omitted |-> 0 ]

\* A complete adds the attributes of the result.
CompletedItem(item, result) ==
    [ item EXCEPT !.state = "completed",
        !.result_meta = encodeResultMeta(result),
        !.result_body = encodeBody(result),
        !.result_omitted = IF result.omitted THEN 1 ELSE 0 ]

-----------------------------------------------------------------------------
(* Redis: the three scripts                                                *)

\* What BEGIN_LUA returns first.
BEGIN_LUA(item, f, now) ==
    LET alive == item.state # "absent" /\ item.expires_at > now IN
    CASE alive /\ item.fingerprint # f -> "mismatch"
      [] alive /\ item.fingerprint = f /\ item.state = "completed" -> "completed"
      [] alive /\ item.fingerprint = f /\ item.state = "in_flight"
           /\ item.lease_until > now -> "in_flight"
      [] OTHER -> "acquired"

\* HSET and HDEL.
LuaClaim(item, f, now) ==
    ClaimedItem(f, IF item.state = "absent" THEN 1 ELSE item.fence + 1, now)

COMPLETE_LUA(item, fc, now) ==
    CASE item.state = "absent" \/ item.expires_at <= now -> "not_found"
      [] item.state # "absent" /\ item.expires_at > now /\ item.fence # fc -> "stale_fence"
      [] OTHER -> "ok"

ABANDON_LUA(item, fc) ==
    CASE item.state # "in_flight" -> "not_found"
      [] item.state = "in_flight" /\ item.fence # fc -> "stale_fence"
      [] OTHER -> "ok"

-----------------------------------------------------------------------------
(* DynamoDB: the conditions, and what a refusal's old item is taken for    *)

BEGIN_CONDITION(item, f, now) ==
    \/ item.state = "absent"
    \/ item.expires_at <= now
    \/ item.fingerprint = f /\ item.state = "in_flight" /\ item.lease_until <= now

\* Mutant: the update sets the first fence again.
BEGIN_UPDATEFenceRestarts(item, f, now) == ClaimedItem(f, 1, now)

\* if_not_exists(fence, :zero) + :one, and REMOVE of the result.
BEGIN_UPDATE(item, f, now) == ClaimedItem(f, item.fence + 1, now)

\* The old item tells why it refused: one that had expired would not have.
BeginReply(item, f, now) ==
    IF BEGIN_CONDITION(item, f, now) THEN "acquired"
    ELSE ClaimVerdict(rowToRecord(item), f, now)

\* Mutant: the condition does not name the state.
COMPLETE_CONDITIONAnyState(item, fc, now) ==
    item.state # "absent" /\ item.fence = fc /\ item.expires_at > now

COMPLETE_CONDITION(item, fc, now) ==
    item.state = "in_flight" /\ item.fence = fc /\ item.expires_at > now

CompleteReply(item, fc, now) ==
    IF COMPLETE_CONDITION(item, fc, now) THEN "ok"
    ELSE CompleteVerdict(rowToRecord(item), fc, now)

ABANDON_CONDITION(item, fc) == item.state = "in_flight" /\ item.fence = fc

-----------------------------------------------------------------------------
(* One call, on either server                                              *)

Redis == backend = "redis"
DynamoDb == backend = "dynamodb"
KeyValue == Redis \/ DynamoDb

\* Mutant: the ttl attribute leaves out the grace.
NativeTtlNoGrace(now) ==
    IF Redis THEN clock + Ttl ELSE ((now + Ttl) \div Second) * Second

\* PEXPIRE counts from the script's run on the server's clock; the ttl attribute
\* comes from the caller's clock, in whole seconds.
NativeTtl(now) ==
    IF Redis THEN clock + Ttl + NativeGrace
    ELSE ((now + Ttl + NativeGrace) \div Second) * Second

\* The server now keeps item under k, and drops it at t.
Put(k, item, t) ==
    /\ items' = [items EXCEPT ![k] = item]
    /\ records' = [records EXCEPT ![k] = IF item = NoItem THEN Absent ELSE rowToRecord(item)]
    /\ evict' = [evict EXCEPT ![k] = t]

\* What begin answers.
KvOutcome(w) ==
    LET item == items[op[w].key] IN
    IF Redis THEN BEGIN_LUA(item, op[w].fingerprint, op[w].begunAt)
    ELSE BeginReply(item, op[w].fingerprint, op[w].begunAt)

KvClaim(w) ==
    LET k == op[w].key
        f == op[w].fingerprint
        now == op[w].begunAt
    IN  /\ KvOutcome(w) = "acquired"
        /\ Put(k, IF Redis THEN LuaClaim(items[k], f, now)
                  ELSE BEGIN_UPDATE(items[k], f, now), NativeTtl(now))
        /\ holder' = [holder EXCEPT ![k] = w]

\* What complete answers.
KvCompleteStatus(w) ==
    LET item == items[op[w].key] IN
    IF Redis THEN COMPLETE_LUA(item, fence[w], sent[w].at)
    ELSE CompleteReply(item, fence[w], sent[w].at)

\* Does complete write?  A second complete is ok and changes nothing.
KvWrites(w) ==
    LET item == items[op[w].key] IN
    IF Redis THEN COMPLETE_LUA(item, fence[w], sent[w].at) = "ok" /\ item.state # "completed"
    ELSE COMPLETE_CONDITION(item, fence[w], sent[w].at)

KvComplete(w) ==
    LET k == op[w].key IN
    IF KvWrites(w)
    THEN Put(k, CompletedItem(items[k], sent[w].result), evict[k])
    ELSE UNCHANGED <<items, records, evict>>

KvAbandon(w) ==
    LET k == op[w].key
        deletes == IF Redis THEN ABANDON_LUA(items[k], fence[w]) = "ok"
                   ELSE ABANDON_CONDITION(items[k], fence[w])
    IN  IF deletes
        THEN /\ Put(k, NoItem, Never)
             /\ holder' = [holder EXCEPT ![k] = Nobody]
             /\ orphan' = Orphaned({k})
        ELSE UNCHANGED <<items, records, evict, holder, orphan>>

\* The call is answered: the next one names its script by the hash again.
Replied(w) ==
    /\ script' = [script EXCEPT ![w] = "sha"]
    /\ UNCHANGED <<clock, stage, tries, backend>>

-----------------------------------------------------------------------------
(* Steps                                                                   *)

KvBeginStep(w) ==
    /\ KeyValue /\ pc[w] = "begin"
    /\ \/ /\ KvClaim(w)
          /\ fence' = [fence EXCEPT ![w] = items'[op[w].key].fence]
          /\ pc' = [pc EXCEPT ![w] = "run"]
          /\ orphan' = [orphan EXCEPT ![w] = FALSE]
          /\ UNCHANGED <<op, sent, out>>
       \/ /\ KvOutcome(w) # "acquired"
          /\ Return(w, Refusal[KvOutcome(w)])
          /\ UNCHANGED <<records, holder, orphan, items, evict>>
    /\ Replied(w)

KvCompleteStep(w) ==
    /\ KeyValue /\ pc[w] = "complete"
    /\ KvComplete(w)
    /\ Return(w, IF KvCompleteStatus(w) = "ok" THEN "stored" ELSE "unstored")
    /\ orphan' = [orphan EXCEPT ![w] = FALSE]
    /\ UNCHANGED holder
    /\ Replied(w)

KvAbandonStep(w) ==
    /\ KeyValue /\ pc[w] = "abandon"
    /\ KvAbandon(w)
    /\ Return(w, out[w])
    /\ Replied(w)

\* Redis does not know the script: nothing was run, and the text is sent.
NoScript(w) ==
    /\ Redis /\ pc[w] \in {"begin", "complete", "abandon"}
    /\ script[w] = "sha"
    /\ script' = [script EXCEPT ![w] = "text"]
    /\ UNCHANGED <<sqlVars, backend, items, evict>>

\* The call throws: the answer was lost, before or after the server ran the
\* call; for DynamoDB's complete, also because the body is too large for an item.
KvError(w) ==
    /\ KeyValue /\ FaultsAllowed
    /\ \/ /\ pc[w] = "begin"
          /\ KvClaim(w) \/ UNCHANGED <<records, holder, items, evict>>
          /\ BeginFails(w)
          /\ UNCHANGED orphan
       \/ /\ pc[w] = "complete"
          /\ KvComplete(w) \/ UNCHANGED <<records, items, evict>>
          /\ Return(w, "unstored")
          /\ orphan' = [orphan EXCEPT ![w] = FALSE]
          /\ UNCHANGED holder
       \/ /\ pc[w] = "abandon"
          /\ KvAbandon(w) \/ UNCHANGED <<records, holder, orphan, items, evict>>
          /\ Return(w, out[w])
    /\ Replied(w)

\* The SDK sends a call again whose answer was lost.
SdkResends(w) ==
    /\ DynamoDb /\ Resend /\ FaultsAllowed
    /\ \/ pc[w] = "begin" /\ KvClaim(w) /\ UNCHANGED orphan
       \/ pc[w] = "complete" /\ KvComplete(w) /\ UNCHANGED <<holder, orphan>>
       \/ pc[w] = "abandon" /\ KvAbandon(w)
    /\ UNCHANGED <<clock, worker, stage, tries, backend, script>>

\* The server drops an item whose time has come, at once or much later.
NativeExpiry(k) ==
    /\ evict[k] # Never /\ evict[k] <= clock
    /\ Put(k, NoItem, Never)
    /\ holder' = [holder EXCEPT ![k] = Nobody]
    /\ orphan' = Orphaned({k})
    /\ UNCHANGED <<clock, worker, stage, tries, backend, script>>

-----------------------------------------------------------------------------
StoreInit ==
    /\ SqlInit
    /\ backend \in {"memory", "sql", "redis", "dynamodb"}
    /\ items = [k \in Keys |-> NoItem]
    /\ evict = [k \in Keys |-> Never]
    /\ script = [w \in Workers |-> "sha"]

KvStep(w) == KvBeginStep(w) \/ KvCompleteStep(w) \/ KvAbandonStep(w) \/ NoScript(w)

\* The steps that are the same on every store.
Apart ==
    \/ \E w \in Workers, k \in Keys, f \in Fingerprints :
         Request(w, k, f) /\ UNCHANGED <<stage, tries, script>>
    \/ \E w \in Workers :
         \/ Elsewhere(w) /\ UNCHANGED script
         \/ StoreResultThrows(w) /\ UNCHANGED <<stage, tries, script>>
         \/ Crash(w) /\ CallOver(w) /\ script' = [script EXCEPT ![w] = "sha"]
    \/ Tick /\ UNCHANGED <<stage, tries, script>>

\* The statements of the SQL stores.
SqlCall ==
    \/ \E w \in Workers :
         \/ SqlBeginWrite(w) \/ SqlBeginRead(w)
         \/ SqlCompleteWrite(w) \/ SqlCompleteRead(w)
         \/ SqlAbandonWrite(w) \/ SqlAbandonRead(w)
         \/ SqlBeginError(w) \/ SqlCompleteError(w) \/ SqlAbandonError(w)
    \/ SqlPurge

\* The calls of the store in memory, which are the contract's.
MemoryCall ==
    \/ \E w \in Workers :
         \/ BeginAcquired(w) \/ BeginRefused(w) \/ Complete(w) \/ Abandon(w)
         \/ BeginError(w) \/ CompleteError(w) \/ AbandonError(w)
    \/ Purge

StoreNext ==
    \/ Apart /\ UNCHANGED <<backend, items, evict>>
    \/ /\ backend = "memory" /\ MemoryCall
       /\ UNCHANGED <<stage, tries, backend, items, evict, script>>
    \/ backend = "sql" /\ SqlCall /\ UNCHANGED <<backend, items, evict, script>>
    \/ \E w \in Workers : KvStep(w) \/ KvError(w) \/ SdkResends(w)
    \/ \E k \in Keys : NativeExpiry(k)

StoreSpec == StoreInit /\ [][StoreNext]_kvVars

-----------------------------------------------------------------------------
(* Properties                                                              *)

\* No caller finds its item gone while its own clock shows it alive: the native
\* expiry of Redis and DynamoDB, counted by other clocks and rounded down to
\* seconds, takes only items that are dead for every worker.
EvictsOnlyDead ==
    [][\A k \in Keys : NativeExpiry(k) => ~Live(records[k], clock - Skew)]_kvVars

=============================================================================
