--------------------------- MODULE KeyValueProofs ---------------------------
(***************************************************************************)
(* Redis and DynamoDB implement the store contract, with attempts and      *)
(* clocks of any kind; so does every store while attempts end within their *)
(* leases.  The native expiry drops dead items only.                       *)
(***************************************************************************)
EXTENDS KeyValueEngine, SqlProofs

-----------------------------------------------------------------------------
(* The encoding                                                            *)

Metas == Workers \X Fingerprints

\* What the attributes of an item hold.
Items ==
    [ state          : {"absent", "in_flight", "completed"},
      fingerprint    : Fingerprints \cup {NoFingerprint},
      fence          : Nat,
      lease_until    : Int,
      expires_at     : Int,
      result_meta    : Metas \cup {NoText},
      result_body    : Metas \cup {NoText},
      result_omitted : {0, 1} ]

\* A row is told by its fields.
LEMMA RowsEqual ==
    ASSUME NEW row \in Row(Results), NEW other \in Row(Results),
           row.state = other.state, row.fingerprint = other.fingerprint,
           row.fence = other.fence, row.leaseUntil = other.leaseUntil,
           row.expiresAt = other.expiresAt, row.result = other.result
    PROVE  row = other
BY DEF Row

\* No item is the encoding of no row.
LEMMA NoItemDecodes == NoItem \in Items /\ rowToRecord(NoItem) = Absent
BY DEF NoItem, Items, rowToRecord, Absent

\* What rowToRecord keeps of an item.
LEMMA DecodedRow ==
    ASSUME NEW item \in Items
    PROVE  /\ rowToRecord(item) \in Row(Results)
           /\ rowToRecord(item).state = item.state
           /\ rowToRecord(item).fingerprint = item.fingerprint
           /\ rowToRecord(item).fence = item.fence
           /\ rowToRecord(item).leaseUntil = item.lease_until
           /\ rowToRecord(item).expiresAt = item.expires_at
<1>1. item.result_meta # NoText =>
        [ by |-> item.result_meta[1], of |-> item.result_meta[2],
          omitted |-> item.result_omitted = 1 ] \in Results
  BY DEF Items, Metas, Results
<1>2. (IF item.result_meta = NoText THEN NoResult
       ELSE [ by |-> item.result_meta[1], of |-> item.result_meta[2],
              omitted |-> item.result_omitted = 1 ]) \in Results \cup {NoResult}
  BY <1>1
<1>3. /\ item.state \in {"absent", "in_flight", "completed"}
      /\ item.fingerprint \in Fingerprints \cup {NoFingerprint}
      /\ item.fence \in Nat /\ item.lease_until \in Int /\ item.expires_at \in Int
  BY DEF Items
<1> QED BY <1>2, <1>3 DEF rowToRecord, Row

\* A result survives its encoding.
LEMMA EncodedResult ==
    ASSUME NEW result \in Results
    PROVE  /\ encodeResultMeta(result) \in Metas
           /\ encodeResultMeta(result) # NoText
           /\ encodeBody(result) \in Metas \cup {NoText}
           /\ [ by |-> encodeResultMeta(result)[1], of |-> encodeResultMeta(result)[2],
                omitted |-> (IF result.omitted THEN 1 ELSE 0) = 1 ] = result
<1>1. encodeResultMeta(result) \in Metas
  BY DEF encodeResultMeta, Metas, Results
<1>2. encodeResultMeta(result) # NoText
  BY <1>1, TextAssumption DEF Metas
<1>3. encodeBody(result) \in Metas \cup {NoText}
  BY <1>1 DEF encodeBody
<1>4. [ by |-> encodeResultMeta(result)[1], of |-> encodeResultMeta(result)[2],
        omitted |-> (IF result.omitted THEN 1 ELSE 0) = 1 ] = result
  BY DEF encodeResultMeta, Results
<1> QED BY <1>1, <1>2, <1>3, <1>4

-----------------------------------------------------------------------------
(* The servers' calls on one item                                          *)

\* BEGIN_LUA answers what begin does.
LEMMA LuaBegins ==
    ASSUME NEW item \in Items, NEW f, NEW now \in Int
    PROVE  BEGIN_LUA(item, f, now) = BeginOutcome(rowToRecord(item), f, now)
<1> DEFINE row == rowToRecord(item)
<1>1. /\ row.state = item.state /\ row.fingerprint = item.fingerprint
      /\ row.leaseUntil = item.lease_until /\ row.expiresAt = item.expires_at
  BY DecodedRow
<1> HIDE DEF row
<1> SUFFICES BEGIN_LUA(item, f, now) = BeginOutcome(row, f, now)
  BY DEF row
<1> QED BY <1>1 DEF BEGIN_LUA, BeginOutcome, Live, Present

\* The condition of DynamoDB's begin, or what its refusal shows, answers it too.
LEMMA ConditionBegins ==
    ASSUME NEW item \in Items, NEW f, NEW now \in Int
    PROVE  BeginReply(item, f, now) = BeginOutcome(rowToRecord(item), f, now)
<1> DEFINE row == rowToRecord(item)
<1>1. /\ row \in Row(Results)
      /\ row.state = item.state /\ row.fingerprint = item.fingerprint
      /\ row.leaseUntil = item.lease_until /\ row.expiresAt = item.expires_at
  BY DecodedRow
<1> HIDE DEF row
<1>2. BEGIN_CONDITION(item, f, now) <=> ClaimWhere(row, f, now)
  BY <1>1 DEF BEGIN_CONDITION, ClaimWhere, Present
<1>3. CASE ClaimWhere(row, f, now)
  BY <1>1, <1>2, <1>3, ClaimWhereAcquires DEF BeginReply, row
<1>4. CASE ~ClaimWhere(row, f, now)
  <2>1. BeginOutcome(row, f, now) = ClaimVerdict(row, f, now)
    BY <1>1, <1>4, RefusalIsSettled, VerdictIsOutcome
  <2> QED BY <1>2, <1>4, <2>1 DEF BeginReply, row
<1> QED BY <1>3, <1>4

\* The item that either server writes for a claim.
LEMMA ClaimWrites ==
    ASSUME NEW item \in Items, item.state = "absent" => item = NoItem,
           NEW f \in Fingerprints, NEW now \in Int,
           NEW new \in {LuaClaim(item, f, now), BEGIN_UPDATE(item, f, now)}
    PROVE  /\ new \in Items /\ new.state = "in_flight"
           /\ new.expires_at = now + Ttl
           /\ rowToRecord(new) = ClaimedRow(rowToRecord(item), f, now)
<1>1. (IF item.state = "absent" THEN 1 ELSE item.fence + 1) = item.fence + 1
  BY DEF NoItem
<1>2. new = ClaimedItem(f, item.fence + 1, now)
  BY <1>1 DEF LuaClaim, BEGIN_UPDATE
<1>3. new \in Items /\ new.state = "in_flight" /\ new.expires_at = now + Ttl
  BY <1>2, LeaseAssumption, TtlAssumption DEF ClaimedItem, Items
<1>4. rowToRecord(item).fence = item.fence
  BY DecodedRow
<1>5. rowToRecord(new) = ClaimedRow(rowToRecord(item), f, now)
  BY <1>2, <1>4 DEF ClaimedItem, rowToRecord, ClaimedRow
<1> QED BY <1>3, <1>5

\* The item that either server writes for a result.
LEMMA CompleteWrites ==
    ASSUME NEW item \in Items, item.state = "in_flight", NEW result \in Results,
           NEW new, new = CompletedItem(item, result)
    PROVE  /\ new \in Items /\ new.state = "completed"
           /\ new.expires_at = item.expires_at
           /\ rowToRecord(new) =
                [rowToRecord(item) EXCEPT !.state = "completed", !.result = result]
<1> DEFINE mark == IF result.omitted THEN 1 ELSE 0
<1>1. /\ new.state = "completed" /\ new.result_meta = encodeResultMeta(result)
      /\ new.result_body = encodeBody(result) /\ new.result_omitted = mark
      /\ new.fingerprint = item.fingerprint /\ new.fence = item.fence
      /\ new.lease_until = item.lease_until /\ new.expires_at = item.expires_at
  BY DEF Items, CompletedItem
<1>2. new \in Items
  BY EncodedResult DEF Items, CompletedItem
<1>3. rowToRecord(new) =
        [ state |-> "completed", fingerprint |-> item.fingerprint, fence |-> item.fence,
          leaseUntil |-> item.lease_until, expiresAt |-> item.expires_at, result |-> result ]
  <2>1. new.result_meta # NoText
    BY <1>1, EncodedResult
  <2>2. [ by |-> new.result_meta[1], of |-> new.result_meta[2],
          omitted |-> new.result_omitted = 1 ] = result
    BY <1>1, EncodedResult
  <2> QED BY <1>1, <2>1, <2>2 DEF rowToRecord
<1>4. rowToRecord(new) = [rowToRecord(item) EXCEPT !.state = "completed", !.result = result]
  <2> DEFINE row == rowToRecord(item)
             after == [row EXCEPT !.state = "completed", !.result = result]
  <2>1. /\ row \in Row(Results)
        /\ row.fingerprint = item.fingerprint /\ row.fence = item.fence
        /\ row.leaseUntil = item.lease_until /\ row.expiresAt = item.expires_at
    BY DecodedRow
  <2> HIDE DEF row
  <2>2. after \in Row(Results) /\ rowToRecord(new) \in Row(Results)
    BY <1>2, <2>1, DecodedRow DEF Row
  <2>3. /\ after.state = "completed" /\ after.result = result
        /\ after.fingerprint = row.fingerprint /\ after.fence = row.fence
        /\ after.leaseUntil = row.leaseUntil /\ after.expiresAt = row.expiresAt
    BY <2>1 DEF Row
  <2> HIDE DEF after
  <2>4. after = rowToRecord(new)
    BY <1>3, <2>1, <2>2, <2>3, RowsEqual
  <2> QED BY <2>4 DEF row, after
<1> QED BY <1>1, <1>2, <1>4

\* What complete answers, and whether it writes.
LEMMA CompleteAnswers ==
    ASSUME NEW item \in Items, NEW fc, NEW now \in Int
    PROVE  LET row == rowToRecord(item) IN
           /\ COMPLETE_LUA(item, fc, now) = CompleteStatus(row, fc, now)
           /\ CompleteReply(item, fc, now) = CompleteStatus(row, fc, now)
           /\ COMPLETE_LUA(item, fc, now) = "ok" /\ item.state # "completed"
                <=> CompleteStatus(row, fc, now) = "ok" /\ row.state = "in_flight"
           /\ COMPLETE_CONDITION(item, fc, now)
                <=> CompleteStatus(row, fc, now) = "ok" /\ row.state = "in_flight"
<1> DEFINE row == rowToRecord(item)
<1>1. /\ row \in Row(Results)
      /\ row.state = item.state /\ row.fence = item.fence /\ row.expiresAt = item.expires_at
      /\ item.expires_at \in Int /\ item.state \in {"absent", "in_flight", "completed"}
  BY DecodedRow DEF Items
<1> HIDE DEF row
<1>2. COMPLETE_LUA(item, fc, now) = CompleteStatus(row, fc, now)
  BY <1>1 DEF COMPLETE_LUA, CompleteStatus, Live, Present
<1>3. COMPLETE_CONDITION(item, fc, now)
        <=> CompleteStatus(row, fc, now) = "ok" /\ row.state = "in_flight"
  BY <1>1 DEF COMPLETE_CONDITION, CompleteStatus, Live, Present
<1>4. CompleteVerdict(row, fc, now) = CompleteStatus(row, fc, now)
  BY <1>1 DEF CompleteVerdict, CompleteStatus, Live, Present
<1>5. CompleteReply(item, fc, now) = CompleteStatus(row, fc, now)
  BY <1>3, <1>4 DEF CompleteReply, row
<1>6. COMPLETE_LUA(item, fc, now) = "ok" /\ item.state # "completed"
        <=> CompleteStatus(row, fc, now) = "ok" /\ row.state = "in_flight"
  BY <1>1, <1>2 DEF CompleteStatus, Live, Present
<1> QED BY <1>2, <1>3, <1>5, <1>6 DEF row

\* When abandon deletes.
LEMMA AbandonAnswers ==
    ASSUME NEW item \in Items, NEW fc
    PROVE  LET row == rowToRecord(item) IN
           /\ ABANDON_LUA(item, fc) = "ok" <=> AbandonStatus(row, fc) = "ok"
           /\ ABANDON_CONDITION(item, fc) <=> AbandonStatus(row, fc) = "ok"
<1>1. rowToRecord(item).state = item.state /\ rowToRecord(item).fence = item.fence
  BY DecodedRow
<1> QED BY <1>1 DEF ABANDON_LUA, ABANDON_CONDITION, AbandonStatus

\* DynamoDB's ttl is rounded down by less than a second.
LEMMA RoundedTtl ==
    ASSUME NEW t \in Int
    PROVE  /\ (t \div Second) * Second \in Int
           /\ t - (Second - 1) <= (t \div Second) * Second
<1>1. t \div Second \in Int /\ t % Second \in 0 .. Second - 1
      /\ t = Second * (t \div Second) + (t % Second)
  BY SecondAssumption
<1> QED BY <1>1, SecondAssumption

-----------------------------------------------------------------------------
(* The inductive invariant                                                 *)

\* The rows are what the items stand for; a key without an item has nothing; and
\* an item is dropped no earlier than its end plus grace, less the skew of the
\* clock that wrote it.
ItemShape ==
    /\ items \in [Keys -> Items]
    /\ evict \in [Keys -> Int \cup {Never}]
    /\ \A k \in Keys :
         /\ records[k] = rowToRecord(items[k])
         /\ items[k].state = "absent" =>
              items[k] = NoItem /\ evict[k] = Never /\ holder[k] = Nobody
         /\ items[k].state # "absent" =>
              evict[k] \in Int /\ items[k].expires_at + Grace <= evict[k] + Skew

KvInv == KeyValue /\ PastInv /\ ItemShape

\* What is known of an outstanding call and its item.
LEMMA KvCall ==
    ASSUME KvInv, NEW w \in Workers, pc[w] # "idle"
    PROVE  /\ op[w].key \in Keys /\ op[w].begunAt \in Int /\ sent[w].at \in Int
           /\ op[w].fingerprint \in Fingerprints
           /\ op[w].begunAt <= clock + Skew
           /\ items[op[w].key] \in Items
           /\ items[op[w].key].state = "absent" => items[op[w].key] = NoItem
           /\ RowOf(w) = rowToRecord(items[op[w].key])
           /\ RowOf(w) = records[op[w].key]
BY DEF KvInv, PastInv, PastReadings, ItemShape, TypeInv, TypeOK, AttemptShape, RowOf

\* Putting an item changes the row of its key to what the item stands for.
LEMMA PutRow ==
    ASSUME NEW k \in Keys, NEW item, NEW t, Put(k, item, t)
    PROVE  records' = [records EXCEPT ![k] = rowToRecord(item)]
BY NoItemDecodes DEF Put

\* An item that is there, and lives long enough, may be put.
LEMMA PutKeepsShape ==
    ASSUME KvInv, NEW k \in Keys, NEW item \in Items, NEW t \in Int \cup {Never}, Put(k, item, t),
           \A j \in Keys \ {k} : holder'[j] = holder[j],
           item.state = "absent" => item = NoItem /\ t = Never /\ holder'[k] = Nobody,
           item.state # "absent" => t \in Int /\ item.expires_at + Grace <= t + Skew
    PROVE  ItemShape'
<1>1. records' = [records EXCEPT ![k] = rowToRecord(item)]
  BY PutRow
<1>2. records \in [Keys -> Row(Results)] /\ items \in [Keys -> Items]
      /\ evict \in [Keys -> Int \cup {Never}]
  BY DEF KvInv, PastInv, TypeInv, TypeOK, ItemShape
<1>3. items' = [items EXCEPT ![k] = item] /\ evict' = [evict EXCEPT ![k] = t]
  BY DEF Put
<1>4. items' \in [Keys -> Items] /\ evict' \in [Keys -> Int \cup {Never}]
  BY <1>2, <1>3
<1>5. records'[k] = rowToRecord(item) /\ items'[k] = item /\ evict'[k] = t
  BY <1>1, <1>2, <1>3
<1>6. \A j \in Keys \ {k} : /\ records'[j] = records[j] /\ items'[j] = items[j]
                            /\ evict'[j] = evict[j]
  BY <1>1, <1>2, <1>3
<1> QED BY <1>4, <1>5, <1>6 DEF KvInv, ItemShape

\* The native time to live of a claim is long enough.
LEMMA NativeTtlLong ==
    ASSUME KvInv, NEW now \in Int, now <= clock + Skew
    PROVE  NativeTtl(now) \in Int /\ now + Ttl + Grace <= NativeTtl(now) + Skew
<1>0. /\ clock \in Int /\ Ttl \in Int /\ Grace \in Int /\ Skew \in Nat /\ Second \in Int /\ Second >= 1
      /\ NativeGrace \in Int /\ Grace + Second - 1 <= NativeGrace
  BY SkewAssumption, GraceAssumption, TtlAssumption, SecondAssumption, NativeGraceAssumption
     DEF KvInv, PastInv, TypeInv, TypeOK
<1>1. CASE Redis
  BY <1>0, <1>1 DEF NativeTtl
<1>2. CASE ~Redis
  <2> DEFINE t == now + Ttl + NativeGrace
             rounded == (t \div Second) * Second
  <2>1. t \in Int /\ t = now + Ttl + NativeGrace
    BY <1>0
  <2>2. rounded \in Int /\ t - (Second - 1) <= rounded
    BY <2>1, RoundedTtl
  <2>3. NativeTtl(now) = rounded
    BY <1>2 DEF NativeTtl
  <2> HIDE DEF t, rounded
  <2> QED BY <1>0, <2>1, <2>2, <2>3
<1> QED BY <1>1, <1>2

-----------------------------------------------------------------------------
(* The servers' calls are the contract's operations.                       *)

\* Both servers answer begin as the contract does.
LEMMA KvOutcomeRight ==
    ASSUME KvInv, NEW w \in Workers, pc[w] = "begin"
    PROVE  KvOutcome(w) = Outcome(w)
<1>1. /\ items[op[w].key] \in Items /\ op[w].begunAt \in Int
      /\ RowOf(w) = rowToRecord(items[op[w].key])
  BY KvCall
<1>2. CASE Redis
  BY <1>1, <1>2, LuaBegins DEF KvOutcome, Outcome
<1>3. CASE ~Redis
  BY <1>1, <1>3, ConditionBegins DEF KvOutcome, Outcome
<1> QED BY <1>2, <1>3

\* A claim at the server is an applied begin, and the item will live long enough.
LEMMA KvClaimApplied ==
    ASSUME KvInv, NEW w \in Workers, pc[w] = "begin", KvClaim(w)
    PROVE  /\ Outcome(w) = "acquired" /\ ApplyBegin(w) /\ ItemShape'
           /\ items'[op[w].key].fence = records'[op[w].key].fence
<1> DEFINE k == op[w].key
           f == op[w].fingerprint
           now == op[w].begunAt
           new == IF Redis THEN LuaClaim(items[k], f, now) ELSE BEGIN_UPDATE(items[k], f, now)
<1>1. /\ k \in Keys /\ f \in Fingerprints /\ now \in Int /\ now <= clock + Skew
      /\ items[k] \in Items /\ (items[k].state = "absent" => items[k] = NoItem)
      /\ records[k] = rowToRecord(items[k])
  BY KvCall
<1>2. /\ new \in Items /\ new.state = "in_flight" /\ new.expires_at = now + Ttl
      /\ rowToRecord(new) = ClaimedRow(records[k], f, now)
  BY <1>1, ClaimWrites
<1>3. Put(k, new, NativeTtl(now)) /\ holder' = [holder EXCEPT ![k] = w]
  BY DEF KvClaim
<1>4. Outcome(w) = "acquired"
  BY KvOutcomeRight DEF KvClaim
<1> HIDE DEF new
<1>5. records' = [records EXCEPT ![k] = ClaimedRow(records[k], f, now)]
  BY <1>1, <1>2, <1>3, PutRow
<1>6. ApplyBegin(w)
  BY <1>3, <1>4, <1>5 DEF ApplyBegin
<1>7. \A j \in Keys \ {k} : holder'[j] = holder[j]
  BY <1>1, <1>3 DEF KvInv, PastInv, TypeInv, TypeOK
<1>8. NativeTtl(now) \in Int /\ new.expires_at + Grace <= NativeTtl(now) + Skew
  BY <1>1, <1>2, NativeTtlLong
<1>9. ItemShape'
  BY <1>1, <1>2, <1>3, <1>7, <1>8, PutKeepsShape
<1>10. items'[k].fence = records'[k].fence
  BY <1>1, <1>9, DecodedRow DEF ItemShape
<1> QED BY <1>4, <1>6, <1>9, <1>10

\* A complete at the server, whether it writes or not, is an applied complete.
LEMMA KvCompleteApplied ==
    ASSUME KvInv, NEW w \in Workers, pc[w] = "complete", KvComplete(w), UNCHANGED holder
    PROVE  /\ ApplyComplete(w) /\ ItemShape'
           /\ KvCompleteStatus(w) = CompleteStatus(RowOf(w), fence[w], sent[w].at)
<1> DEFINE k == op[w].key
           result == sent[w].result
           status == CompleteStatus(records[k], fence[w], sent[w].at)
           new == CompletedItem(items[k], result)
<1>1. /\ k \in Keys /\ sent[w].at \in Int /\ items[k] \in Items
      /\ records[k] = rowToRecord(items[k]) /\ RowOf(w) = records[k]
      /\ result \in Results
  BY KvCall DEF KvInv, PastInv, TypeInv, AttemptShape
<1>2. /\ KvWrites(w) <=> status = "ok" /\ records[k].state = "in_flight"
      /\ KvCompleteStatus(w) = status
  <2>1. CASE Redis
    BY <1>1, <2>1, CompleteAnswers DEF KvWrites, KvCompleteStatus
  <2>2. CASE ~Redis
    BY <1>1, <2>2, CompleteAnswers DEF KvWrites, KvCompleteStatus
  <2> QED BY <2>1, <2>2
<1>3. CASE KvWrites(w)
  <2>1. items[k].state = "in_flight" /\ records[k].state = "in_flight" /\ status = "ok"
    BY <1>1, <1>2, <1>3, DecodedRow
  <2>2. /\ new \in Items /\ new.state = "completed" /\ new.expires_at = items[k].expires_at
        /\ rowToRecord(new) = [records[k] EXCEPT !.state = "completed", !.result = result]
    <3> DEFINE item == items[k]
    <3>1. item \in Items /\ item.state = "in_flight" /\ result \in Results
      BY <1>1, <2>1
    <3>2. new = CompletedItem(item, result)
      OBVIOUS
    <3>3. records[k] = rowToRecord(item)
      BY <1>1
    <3> HIDE DEF new, item, result
    <3>4. /\ new \in Items /\ new.state = "completed" /\ new.expires_at = item.expires_at
          /\ rowToRecord(new) =
               [rowToRecord(item) EXCEPT !.state = "completed", !.result = result]
      BY <3>1, <3>2, CompleteWrites, Zenon
    <3>5. rowToRecord(new) = [records[k] EXCEPT !.state = "completed", !.result = result]
      BY <3>3, <3>4, Zenon
    <3>6. new.expires_at = items[k].expires_at
      BY <3>4 DEF item
    <3> QED BY <3>4, <3>5, <3>6
  <2>3. Put(k, new, evict[k])
    BY <1>3 DEF KvComplete
  <2> HIDE DEF new
  <2>4. records' = [records EXCEPT ![k] = CompletedRow(records[k], fence[w], sent[w].at, result)]
    BY <1>1, <2>1, <2>2, <2>3, PutRow DEF CompletedRow
  <2>5. ApplyComplete(w)
    BY <2>4 DEF ApplyComplete
  <2>6. evict[k] \in Int /\ new.expires_at + Grace <= evict[k] + Skew
    BY <1>1, <2>1, <2>2 DEF KvInv, ItemShape
  <2>7. ItemShape'
    BY <1>1, <2>2, <2>3, <2>6, PutKeepsShape
  <2> QED BY <1>1, <1>2, <2>5, <2>7
<1>4. CASE ~KvWrites(w)
  <2>1. UNCHANGED <<items, records, evict>>
    BY <1>4 DEF KvComplete
  <2>2. CompletedRow(records[k], fence[w], sent[w].at, result) = records[k]
    BY <1>2, <1>4 DEF CompletedRow
  <2>3. ApplyComplete(w)
    BY <1>1, <2>1, <2>2 DEF ApplyComplete, KvInv, PastInv, TypeInv, TypeOK
  <2>4. ItemShape'
    BY <2>1 DEF KvInv, ItemShape
  <2> QED BY <1>1, <1>2, <2>3, <2>4
<1> QED BY <1>3, <1>4

\* An abandon at the server, whether it deletes or not, is an applied abandon.
LEMMA KvAbandonApplied ==
    ASSUME KvInv, NEW w \in Workers, pc[w] = "abandon", KvAbandon(w)
    PROVE  ApplyAbandon(w) /\ ItemShape'
<1> DEFINE k == op[w].key
           deletes == IF Redis THEN ABANDON_LUA(items[k], fence[w]) = "ok"
                      ELSE ABANDON_CONDITION(items[k], fence[w])
<1>1. k \in Keys /\ items[k] \in Items /\ records[k] = rowToRecord(items[k])
  BY KvCall
<1>2. holder \in [Keys -> Workers \cup {Nobody}] /\ records \in [Keys -> Row(Results)]
      /\ orphan \in [Workers -> BOOLEAN]
  BY DEF KvInv, PastInv, TypeInv, TypeOK
<1>3. deletes <=> AbandonStatus(records[k], fence[w]) = "ok"
  BY <1>1, AbandonAnswers
<1>4. CASE deletes
  <2>1. Put(k, NoItem, Never) /\ holder' = [holder EXCEPT ![k] = Nobody]
        /\ orphan' = Orphaned({k})
    BY <1>4 DEF KvAbandon
  <2>2. records' = [records EXCEPT ![k] = AbandonedRow(records[k], fence[w])]
    BY <1>1, <1>3, <1>4, <2>1, PutRow, NoItemDecodes DEF AbandonedRow
  <2>3. holder' = [j \in Keys |-> IF j \in {k} THEN Nobody ELSE holder[j]]
    BY <1>1, <1>2, <2>1
  <2>4. ApplyAbandon(w)
    BY <1>3, <1>4, <2>1, <2>2, <2>3 DEF ApplyAbandon
  <2>5. ItemShape'
    <3>1. \A j \in Keys \ {k} : holder'[j] = holder[j]
      BY <1>2, <2>1
    <3>2. holder'[k] = Nobody
      BY <1>1, <1>2, <2>1
    <3>3. NoItem \in Items /\ NoItem.state = "absent"
      BY NoItemDecodes DEF NoItem
    <3> QED BY <1>1, <2>1, <3>1, <3>2, <3>3, PutKeepsShape
  <2> QED BY <2>4, <2>5
<1>5. CASE ~deletes
  <2>1. UNCHANGED <<items, records, evict, holder, orphan>>
    BY <1>5 DEF KvAbandon
  <2>2. AbandonedRow(records[k], fence[w]) = records[k]
    BY <1>3, <1>5 DEF AbandonedRow
  <2>3. holder' = [j \in Keys |-> IF j \in {} THEN Nobody ELSE holder[j]]
    BY <1>2, <2>1
  <2>4. orphan' = Orphaned({})
    BY <1>2, <2>1 DEF Orphaned
  <2>5. ApplyAbandon(w)
    BY <1>1, <1>2, <1>3, <1>5, <2>1, <2>2, <2>3, <2>4 DEF ApplyAbandon
  <2>6. ItemShape'
    BY <2>1 DEF KvInv, ItemShape
  <2> QED BY <2>5, <2>6
<1> QED BY <1>4, <1>5

-----------------------------------------------------------------------------
(* Every step on Redis or DynamoDB is a step on the contract's store, or   *)
(* none, and keeps ItemShape.                                              *)

\* A step that leaves the store alone keeps ItemShape.
LEMMA ShapeKept ==
    ASSUME KvInv, UNCHANGED <<records, holder, items, evict>>
    PROVE  ItemShape'
BY DEF KvInv, ItemShape

\* An answered begin.
LEMMA KvBeginRefines ==
    ASSUME KvInv, NEW w \in Workers, KvBeginStep(w)
    PROVE  (BeginAcquired(w) \/ BeginRefused(w)) /\ ItemShape'
<1>0. pc[w] = "begin" /\ UNCHANGED clock
  BY DEF KvBeginStep, Replied
<1>1. CASE KvClaim(w) /\ fence' = [fence EXCEPT ![w] = items'[op[w].key].fence]
  <2>1. /\ Outcome(w) = "acquired" /\ ApplyBegin(w) /\ ItemShape'
        /\ items'[op[w].key].fence = records'[op[w].key].fence
    BY <1>0, <1>1, KvClaimApplied
  <2>2. fence' = [fence EXCEPT ![w] = records'[op[w].key].fence]
    BY <1>1, <2>1
  <2>3. /\ pc' = [pc EXCEPT ![w] = "run"] /\ orphan' = [orphan EXCEPT ![w] = FALSE]
        /\ UNCHANGED <<op, sent, out>>
    BY <1>1 DEF KvBeginStep, KvClaim
  <2> QED BY <1>0, <2>1, <2>2, <2>3 DEF BeginAcquired
<1>2. CASE /\ KvOutcome(w) # "acquired" /\ Return(w, Refusal[KvOutcome(w)])
           /\ UNCHANGED <<records, holder, orphan, items, evict>>
  BY <1>0, <1>2, KvOutcomeRight, ShapeKept DEF BeginRefused
<1> QED BY <1>1, <1>2 DEF KvBeginStep

\* An answered complete.
LEMMA KvCompleteRefines ==
    ASSUME KvInv, NEW w \in Workers, KvCompleteStep(w)
    PROVE  Complete(w) /\ ItemShape'
<1>1. /\ pc[w] = "complete" /\ KvComplete(w) /\ UNCHANGED <<clock, holder>>
      /\ Return(w, IF KvCompleteStatus(w) = "ok" THEN "stored" ELSE "unstored")
      /\ orphan' = [orphan EXCEPT ![w] = FALSE]
  BY DEF KvCompleteStep, Replied
<1>2. /\ ApplyComplete(w) /\ ItemShape'
      /\ KvCompleteStatus(w) = CompleteStatus(RowOf(w), fence[w], sent[w].at)
  BY <1>1, KvCompleteApplied
<1> QED BY <1>1, <1>2 DEF Complete

\* An answered abandon.
LEMMA KvAbandonRefines ==
    ASSUME KvInv, NEW w \in Workers, KvAbandonStep(w)
    PROVE  Abandon(w) /\ ItemShape'
<1>1. pc[w] = "abandon" /\ KvAbandon(w) /\ Return(w, out[w]) /\ UNCHANGED clock
  BY DEF KvAbandonStep, Replied
<1> QED BY <1>1, KvAbandonApplied DEF Abandon

\* A call that throws, whether or not the server ran it.
LEMMA KvErrorRefines ==
    ASSUME KvInv, NEW w \in Workers, KvError(w)
    PROVE  (BeginError(w) \/ CompleteError(w) \/ AbandonError(w)) /\ ItemShape'
<1>0. FaultsAllowed /\ UNCHANGED clock
  BY DEF KvError, Replied
<1>1. CASE /\ pc[w] = "begin" /\ BeginFails(w) /\ UNCHANGED orphan
           /\ KvClaim(w) \/ UNCHANGED <<records, holder, items, evict>>
  <2>1. (ApplyBegin(w) \/ UNCHANGED <<records, holder>>) /\ ItemShape'
    BY <1>1, KvClaimApplied, ShapeKept
  <2> QED BY <1>0, <1>1, <2>1 DEF BeginFails, BeginError
<1>2. CASE /\ pc[w] = "complete" /\ Return(w, "unstored") /\ UNCHANGED holder
           /\ orphan' = [orphan EXCEPT ![w] = FALSE]
           /\ KvComplete(w) \/ UNCHANGED <<records, items, evict>>
  <2>1. (ApplyComplete(w) \/ UNCHANGED records) /\ ItemShape'
    BY <1>2, KvCompleteApplied, ShapeKept
  <2> QED BY <1>0, <1>2, <2>1 DEF CompleteError
<1>3. CASE /\ pc[w] = "abandon" /\ Return(w, out[w])
           /\ KvAbandon(w) \/ UNCHANGED <<records, holder, orphan, items, evict>>
  <2>1. (ApplyAbandon(w) \/ UNCHANGED <<records, holder, orphan>>) /\ ItemShape'
    BY <1>3, KvAbandonApplied, ShapeKept
  <2> QED BY <1>0, <1>3, <2>1 DEF AbandonError
<1> QED BY <1>1, <1>2, <1>3 DEF KvError

\* A call that the SDK sends again.
LEMMA SdkRefines ==
    ASSUME KvInv, NEW w \in Workers, SdkResends(w)
    PROVE  (BeginResent(w) \/ CompleteResent(w) \/ AbandonResent(w)) /\ ItemShape'
<1>0. Resend /\ FaultsAllowed /\ UNCHANGED <<clock, worker>>
  BY DEF SdkResends
<1>1. CASE pc[w] = "begin" /\ KvClaim(w) /\ UNCHANGED orphan
  BY <1>0, <1>1, KvClaimApplied DEF BeginResent
<1>2. CASE pc[w] = "complete" /\ KvComplete(w) /\ UNCHANGED <<holder, orphan>>
  BY <1>0, <1>2, KvCompleteApplied DEF CompleteResent
<1>3. CASE pc[w] = "abandon" /\ KvAbandon(w)
  BY <1>0, <1>3, KvAbandonApplied DEF AbandonResent
<1> QED BY <1>1, <1>2, <1>3 DEF SdkResends

\* An item that the server drops has been dead for the grace, less the skew.
LEMMA DroppedIsDead ==
    ASSUME KvInv, NEW k \in Keys, NativeExpiry(k)
    PROVE  /\ Present(records[k]) /\ records[k].expiresAt \in Int
           /\ records[k].expiresAt + Grace <= clock + Skew
<1>1. evict[k] # Never /\ evict[k] <= clock /\ items[k] \in Items /\ clock \in Int
  BY DEF NativeExpiry, KvInv, ItemShape, PastInv, TypeInv, TypeOK
<1>2. items[k].state # "absent" /\ evict[k] \in Int
      /\ items[k].expires_at + Grace <= evict[k] + Skew
  BY <1>1 DEF KvInv, ItemShape
<1>3. records[k].state = items[k].state /\ records[k].expiresAt = items[k].expires_at
      /\ items[k].expires_at \in Int
  BY <1>1, DecodedRow DEF KvInv, ItemShape, Items
<1> QED BY <1>1, <1>2, <1>3, SkewAssumption, GraceAssumption DEF Present

\* The native expiry is the contract's.
LEMMA ExpiryRefines ==
    ASSUME KvInv, NEW k \in Keys, NativeExpiry(k)
    PROVE  NativeSweep({k}) /\ ItemShape'
<1> DEFINE purged == [j \in Keys |-> Absent]
<1>1. /\ Put(k, NoItem, Never) /\ holder' = [holder EXCEPT ![k] = Nobody]
      /\ orphan' = Orphaned({k}) /\ UNCHANGED <<clock, worker>>
  BY DEF NativeExpiry
<1>2. holder \in [Keys -> Workers \cup {Nobody}] /\ records \in [Keys -> Row(Results)]
  BY DEF KvInv, PastInv, TypeInv, TypeOK
<1>3. records' = [records EXCEPT ![k] = Absent]
  BY <1>1, PutRow, NoItemDecodes
<1>4. records' = [j \in Keys |-> IF j \in {k} THEN purged[j] ELSE records[j]]
  BY <1>2, <1>3
<1>5. \A j \in Keys : ~Present(records[j]) => holder[j] = Nobody
  BY DecodedRow DEF KvInv, ItemShape, Present
<1>6. holder' = [j \in Keys |-> IF Present(records'[j]) THEN holder[j] ELSE Nobody]
  <2>1. ASSUME NEW j \in Keys
        PROVE  holder'[j] = IF Present(records'[j]) THEN holder[j] ELSE Nobody
    BY <1>1, <1>2, <1>3, <1>5 DEF Present, Absent
  <2>2. holder' = [j \in Keys |-> holder'[j]]
    BY <1>1, <1>2
  <2> QED BY <2>1, <2>2
<1>7. Present(records[k]) /\ clock + Skew >= records[k].expiresAt + Grace
  BY DroppedIsDead, SkewAssumption, GraceAssumption DEF KvInv, PastInv, TypeInv, TypeOK
<1>8. {j \in {k} : Present(records[j]) /\ ~Present(purged[j])} = {k}
  BY <1>7 DEF Present, Absent
<1>9. RemoveRows({k}, purged)
  BY <1>1, <1>4, <1>6, <1>8 DEF RemoveRows
<1>10. NativeSweep({k})
  BY <1>7, <1>9 DEF NativeSweep
<1>11. ItemShape'
  <2>1. \A j \in Keys \ {k} : holder'[j] = holder[j]
    BY <1>1, <1>2
  <2>2. holder'[k] = Nobody
    BY <1>1, <1>2
  <2>3. NoItem \in Items /\ NoItem.state = "absent"
    BY NoItemDecodes DEF NoItem
  <2> QED BY <1>1, <2>1, <2>2, <2>3, PutKeepsShape
<1> QED BY <1>10, <1>11

\* The steps that are the same on every store are the engine's.
LEMMA ApartRefines ==
    ASSUME Apart
    PROVE  Next /\ UNCHANGED <<records, holder>>
<1>1. ASSUME NEW w \in Workers, NEW k \in Keys, NEW f \in Fingerprints, Request(w, k, f)
      PROVE  Next /\ UNCHANGED <<records, holder>>
  BY <1>1 DEF Next, Request
<1>2. ASSUME NEW w \in Workers, Elsewhere(w) PROVE Next /\ UNCHANGED <<records, holder>>
  BY <1>2 DEF Elsewhere, Next, WorkerStep, RunUnclaimed, RunStored, RunFailed
<1>3. ASSUME NEW w \in Workers, StoreResultThrows(w) \/ Crash(w)
      PROVE  Next /\ UNCHANGED <<records, holder>>
  BY <1>3 DEF Next, Fault, StoreResultThrows, Crash
<1>4. ASSUME Tick PROVE Next /\ UNCHANGED <<records, holder>>
  BY <1>4 DEF Next, Tick
<1> QED BY <1>1, <1>2, <1>3, <1>4 DEF Apart

\* Redis and DynamoDB: one step, and what it keeps.
LEMMA KvNextRefines ==
    ASSUME KvInv, [StoreNext]_kvVars
    PROVE  [Next]_vars /\ KvInv'
<1> SUFFICES [Next]_vars /\ ItemShape' /\ UNCHANGED backend
  <2>1. [Next]_vars => PastInv'
    BY PastStep DEF KvInv
  <2> QED BY <2>1 DEF KvInv, KeyValue, Redis, DynamoDb
<1>1. CASE Apart /\ UNCHANGED <<backend, items, evict>>
  BY <1>1, ApartRefines, ShapeKept
<1>2. ASSUME NEW w \in Workers, KvStep(w) PROVE [Next]_vars /\ ItemShape' /\ UNCHANGED backend
  <2>1. CASE KvBeginStep(w)
    BY <2>1, KvBeginRefines DEF KvBeginStep, Replied, Next, WorkerStep
  <2>2. CASE KvCompleteStep(w)
    BY <2>2, KvCompleteRefines DEF KvCompleteStep, Replied, Next, WorkerStep
  <2>3. CASE KvAbandonStep(w)
    BY <2>3, KvAbandonRefines DEF KvAbandonStep, Replied, Next, WorkerStep
  <2>4. CASE NoScript(w)
    BY <2>4, ShapeKept DEF NoScript, sqlVars, vars
  <2> QED BY <1>2, <2>1, <2>2, <2>3, <2>4 DEF KvStep
<1>3. ASSUME NEW w \in Workers, KvError(w) PROVE [Next]_vars /\ ItemShape' /\ UNCHANGED backend
  BY <1>3, KvErrorRefines DEF KvError, Replied, Next, Fault
<1>4. ASSUME NEW w \in Workers, SdkResends(w)
      PROVE  [Next]_vars /\ ItemShape' /\ UNCHANGED backend
  BY <1>4, SdkRefines DEF SdkResends, Next, Fault
<1>5. ASSUME NEW k \in Keys, NativeExpiry(k)
      PROVE  [Next]_vars /\ ItemShape' /\ UNCHANGED backend
  <2>1. {k} \in SUBSET Keys
    OBVIOUS
  <2> QED BY <1>5, <2>1, ExpiryRefines DEF NativeExpiry, Next
<1>6. CASE UNCHANGED kvVars
  BY <1>6, ShapeKept DEF kvVars, sqlVars, vars
<1>7. backend \notin {"memory", "sql"}
  BY DEF KvInv, KeyValue, Redis, DynamoDb
<1> QED BY <1>1, <1>2, <1>3, <1>4, <1>5, <1>6, <1>7 DEF StoreNext

LEMMA KvInvInit == StoreInit /\ KeyValue => Init /\ KvInv
<1> SUFFICES ASSUME StoreInit, KeyValue PROVE Init /\ KvInv
  OBVIOUS
<1>1. Init /\ TypeInv
  BY TypeInit DEF StoreInit, SqlInit
<1>2. PastInv
  BY <1>1 DEF PastInv, PastReadings, Init
<1>3. ItemShape
  BY <1>1, NoItemDecodes DEF StoreInit, ItemShape, Init, NoItem
<1> QED BY <1>1, <1>2, <1>3 DEF KvInv

-----------------------------------------------------------------------------
(* A behaviour about a SQL store or the store in memory: the statements of *)
(* SqlEngine, or the contract's calls, and nothing that a server drops.    *)

NothingToDrop == backend \in {"memory", "sql"} /\ \A k \in Keys : evict[k] = Never

\* Every step on a SQL store is one of SqlEngine, and every step on the store in
\* memory one of Engine.
LEMMA OtherStep ==
    ASSUME NothingToDrop, [StoreNext]_kvVars
    PROVE  /\ NothingToDrop' /\ UNCHANGED backend
           /\ backend = "sql" => [SqlNext]_sqlVars
           /\ backend = "memory" => [Next]_vars
<1>0. ~KeyValue /\ ~Redis /\ ~DynamoDb
  BY DEF NothingToDrop, KeyValue, Redis, DynamoDb
<1>1. CASE Apart /\ UNCHANGED <<backend, items, evict>>
  <2>1. SqlNext
    BY <1>1 DEF Apart, SqlNext, SqlStep, SqlFault
  <2>2. Next
    BY <1>1, ApartRefines
  <2> QED BY <1>1, <2>1, <2>2 DEF NothingToDrop
<1>2. CASE backend = "sql" /\ SqlCall /\ UNCHANGED <<backend, items, evict, script>>
  <2>1. SqlNext
    BY <1>2 DEF SqlCall, SqlNext, SqlStep, SqlFault
  <2> QED BY <1>2, <2>1 DEF NothingToDrop
<1>3. CASE /\ backend = "memory" /\ MemoryCall
           /\ UNCHANGED <<stage, tries, backend, items, evict, script>>
  <2>1. Next
    BY <1>3 DEF MemoryCall, Next, WorkerStep, Fault
  <2> QED BY <1>3, <2>1 DEF NothingToDrop
<1>4. ASSUME NEW w \in Workers, KvStep(w) \/ KvError(w) \/ SdkResends(w) PROVE FALSE
  BY <1>0, <1>4 DEF KvStep, KvBeginStep, KvCompleteStep, KvAbandonStep, NoScript, KvError, SdkResends
<1>5. ASSUME NEW k \in Keys, NativeExpiry(k) PROVE FALSE
  BY <1>5 DEF NothingToDrop, NativeExpiry
<1>6. CASE UNCHANGED kvVars
  BY <1>6 DEF kvVars, sqlVars, NothingToDrop
<1> QED BY <1>1, <1>2, <1>3, <1>4, <1>5, <1>6 DEF StoreNext

LEMMA OtherInit == StoreInit /\ ~KeyValue => NothingToDrop /\ SqlInit
BY DEF StoreInit, NothingToDrop, KeyValue, Redis, DynamoDb

-----------------------------------------------------------------------------
(* Theorems                                                                *)

\* Redis and DynamoDB implement the store contract, whatever is lost, sent
\* twice, late or out of time: no assumption on leases or clocks is made.
THEOREM KeyValueRefinement == StoreSpec /\ KeyValue => ImplementsEngine
<1>1. KvInv /\ [StoreNext]_kvVars => KvInv' /\ [Next]_vars
  BY KvNextRefines
<1> QED BY <1>1, KvInvInit, PTL DEF StoreSpec, Spec, ImplementsEngine

\* As long as attempts end within their lease, every store implements the
\* contract: one engine, and so one behaviour, in memory and on SQL, Redis and
\* DynamoDB.
THEOREM StoresRefine == ASSUME SqlWithinLease PROVE StoreSpec => ImplementsEngine
<1> DEFINE OnSql == NothingToDrop /\ backend = "sql"
           InMemory == NothingToDrop /\ backend = "memory"
<1>1. OnSql /\ [StoreNext]_kvVars => OnSql' /\ [SqlNext]_sqlVars
  BY OtherStep
<1>2. InMemory /\ [StoreNext]_kvVars => InMemory' /\ [Next]_vars
  BY OtherStep
<1>3. StoreInit /\ ~KeyValue => SqlInit /\ Init /\ (OnSql \/ InMemory)
  BY OtherInit DEF NothingToDrop, SqlInit
<1> HIDE DEF OnSql, InMemory
<1>4. StoreSpec /\ OnSql /\ SqlInit => ImplementsEngine
  BY <1>1, SqlRefinement, PTL DEF StoreSpec, SqlSpec
<1>5. StoreSpec /\ InMemory /\ Init => ImplementsEngine
  BY <1>2, PTL DEF StoreSpec, Spec, ImplementsEngine
<1> QED BY <1>3, <1>4, <1>5, KeyValueRefinement, PTL DEF StoreSpec

\* With a grace of twice the skew, beyond what rounding to seconds takes, the
\* native expiry drops no item that any caller's clock could still show alive.
THEOREM EvictionSafe == ASSUME Grace >= 2 * Skew PROVE StoreSpec => EvictsOnlyDead
<1> DEFINE Dead == \A k \in Keys : NativeExpiry(k) => ~Live(records[k], clock - Skew)
<1>1. ASSUME KvInv PROVE Dead
  <2> SUFFICES ASSUME NEW k \in Keys, NativeExpiry(k), Live(records[k], clock - Skew)
               PROVE  FALSE
    OBVIOUS
  <2>1. records[k].expiresAt \in Int /\ records[k].expiresAt + Grace <= clock + Skew
    BY <1>1, DroppedIsDead
  <2>2. clock \in Int /\ records[k].expiresAt > clock - Skew
    BY <1>1 DEF KvInv, PastInv, TypeInv, TypeOK, Live
  <2> QED BY <2>1, <2>2, SkewAssumption, GraceAssumption
<1>2. ASSUME NothingToDrop PROVE Dead
  BY <1>2 DEF NothingToDrop, NativeExpiry
<1> HIDE DEF Dead
<1>3. KvInv /\ [StoreNext]_kvVars => KvInv' /\ [Dead]_kvVars
  BY <1>1, KvNextRefines
<1>4. NothingToDrop /\ [StoreNext]_kvVars => NothingToDrop' /\ [Dead]_kvVars
  BY <1>2, OtherStep
<1>5. StoreInit => KvInv \/ NothingToDrop
  BY KvInvInit, OtherInit
<1>6. StoreSpec => [][Dead]_kvVars
  BY <1>3, <1>4, <1>5, PTL DEF StoreSpec
<1> QED BY <1>6 DEF Dead, EvictsOnlyDead

\* So the fence is as faithful on Redis and DynamoDB as on the contract's store:
\* a late complete is refused, completed items stay as they are, and an item
\* alive for every clock goes only when its own worker abandons it.
THEOREM KeyValueFencing ==
    StoreSpec /\ KeyValue =>
        []FenceWitnessesClaim /\ LateWriterFenced /\ CompletedStable /\ LiveClaimRemovedByHolder
BY KeyValueRefinement, FencingCorrect, LateWriters, ReplayStable, LiveRowsKept, PTL
   DEF ImplementsEngine

=============================================================================
