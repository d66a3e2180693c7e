------------------------------ MODULE SqlProofs -----------------------------
(***************************************************************************)
(* The SQL store implements the store contract: as long as attempts end    *)
(* within their lease, every behaviour of execute on the two-statement     *)
(* store is a behaviour of execute on the contract's atomic store, and so  *)
(* keeps all that is proved of it.                                         *)
(***************************************************************************)
EXTENDS SqlEngine, EngineProofs

-----------------------------------------------------------------------------
(* The inductive invariant.  Beyond LeaseInv it says when an outstanding   *)
(* call can be at its SELECT: a complete never is, because within its      *)
(* lease a claim's UPDATE always finds its row.                            *)

\* Which statement comes next, and how old a complete's clock reading is.
StageShape ==
    \A w \in Workers :
        /\ pc[w] \in {"idle", "run", "complete"} => stage[w] = "write"
        /\ pc[w] = "complete" => sent[w].at <= clock + Skew

SqlShape ==
    /\ clock <= MaxTime
    /\ stage \in [Workers -> {"write", "read"}]
    /\ NoGhostRows
    /\ StageShape

SqlInv == LeaseInv /\ SqlShape

\* Attempts end within their lease, and nothing keeps the environment from
\* failing: a begin that does not settle is a failure at any time.
SqlWithinLease == WithinLease /\ MaxTime < FaultHorizon

\* What is known of the row of an outstanding call.
LEMMA CallFacts ==
    ASSUME SqlInv, NEW w \in Workers, pc[w] # "idle"
    PROVE  /\ op[w].key \in Keys /\ op[w].begunAt \in Int
           /\ RowOf(w) \in Row(Results) /\ RowOf(w) = records[op[w].key]
           /\ sent[w].at \in Int
           /\ ~Present(RowOf(w)) => RowOf(w).fence = 0
BY DEF SqlInv, SqlShape, NoGhostRows, LeaseInv, TypeInv, TypeOK, AttemptShape, RowOf, Absent

\* Faults are possible as long as time runs.
LEMMA AlwaysFaults ==
    ASSUME SqlWithinLease, SqlInv
    PROVE  FaultsAllowed
BY BoundAssumption DEF SqlWithinLease, SqlInv, SqlShape, FaultsAllowed, LeaseInv, TypeInv, TypeOK

\* The upsert is an applied begin.
LEMMA ClaimIsApplied ==
    ASSUME SqlInv, NEW w \in Workers, pc[w] = "begin", SqlClaim(w)
    PROVE  Outcome(w) = "acquired" /\ ApplyBegin(w)
<1> DEFINE k == op[w].key
<1>1. k \in Keys /\ op[w].begunAt \in Int /\ records[k] \in Row(Results)
      /\ RowOf(w) = records[k] /\ (~Present(records[k]) => records[k].fence = 0)
  BY CallFacts
<1>2. Outcome(w) = "acquired"
  BY <1>1, ClaimWhereAcquires DEF SqlClaim, Outcome
<1>3. UpsertedRow(records[k], op[w].fingerprint, op[w].begunAt)
        = ClaimedRow(records[k], op[w].fingerprint, op[w].begunAt)
  BY <1>1, UpsertedIsClaimed
<1> QED BY <1>1, <1>2, <1>3 DEF SqlClaim, ApplyBegin

\* The UPDATE is an applied complete.
LEMMA UpdateIsApplied ==
    ASSUME SqlInv, NEW w \in Workers, pc[w] = "complete", SqlComplete(w)
    PROVE  /\ ApplyComplete(w)
           /\ CompleteStatus(RowOf(w), fence[w], sent[w].at) = "ok"
<1> DEFINE k == op[w].key
<1>1. k \in Keys /\ sent[w].at \in Int /\ records[k] \in Row(Results) /\ RowOf(w) = records[k]
  BY CallFacts
<1>2. /\ CompleteStatus(records[k], fence[w], sent[w].at) = "ok"
      /\ CompletedRow(records[k], fence[w], sent[w].at, sent[w].result)
           = UpdatedRow(records[k], sent[w].result)
  BY <1>1, CompleteWhereWrites DEF SqlComplete
<1> QED BY <1>1, <1>2 DEF SqlComplete, ApplyComplete

\* The DELETE is an applied abandon.
LEMMA DeleteIsApplied ==
    ASSUME SqlInv, NEW w \in Workers, pc[w] = "abandon", SqlAbandon(w)
    PROVE  ApplyAbandon(w)
<1> DEFINE k == op[w].key
<1>1. k \in Keys
  BY CallFacts
<1>2. AbandonStatus(records[k], fence[w]) = "ok"
  BY DEF SqlAbandon, AbandonWhere, AbandonStatus
<1>3. AbandonedRow(records[k], fence[w]) = Absent
  BY <1>2 DEF AbandonedRow
<1>4. [holder EXCEPT ![k] = Nobody] = [j \in Keys |-> IF j \in {k} THEN Nobody ELSE holder[j]]
  BY <1>1 DEF SqlInv, LeaseInv, TypeInv, TypeOK
<1> QED BY <1>2, <1>3, <1>4 DEF SqlAbandon, ApplyAbandon

\* Within its lease the UPDATE of a claim finds its row.
LEMMA UpdateFindsRow ==
    ASSUME SqlInv, NEW w \in Workers, pc[w] = "complete"
    PROVE  CompleteWhere(RowOf(w), fence[w], sent[w].at)
<1>1. Claiming(w)
  BY DEF SqlInv, LeaseInv, TypeInv, AttemptShape, Claiming
<1>2. /\ RowOf(w).state = "in_flight" /\ RowOf(w).fence = fence[w]
      /\ RowOf(w).expiresAt = op[w].begunAt + Ttl
  BY <1>1 DEF SqlInv, LeaseInv, ClaimHeld
<1>3. sent[w].at < op[w].begunAt + Ttl
  <2>1. /\ clock + Skew < op[w].begunAt + Ttl
        /\ sent[w].at <= clock + Skew
    BY DEF SqlInv, SqlShape, NoGhostRows, StageShape, LeaseInv, Timely
  <2>2. sent[w].at \in Int /\ op[w].begunAt \in Int /\ clock \in Int
    BY DEF SqlInv, LeaseInv, TypeInv, TypeOK
  <2> QED BY <2>1, <2>2, SkewAssumption, TtlAssumption
<1>4. op[w].begunAt \in Int /\ sent[w].at \in Int
  BY DEF SqlInv, LeaseInv, TypeInv, TypeOK
<1> QED BY <1>2, <1>3, <1>4, TtlAssumption DEF CompleteWhere, Present

\* purge's DELETE is the contract's purge.
LEMMA PurgeIsApplied ==
    ASSUME SqlInv, SqlPurge
    PROVE  Purge
<1>1. PICK r \in Readings :
        LET dead == {k \in Keys : PurgeWhere(records[k], r)} IN
        /\ records' = [k \in Keys |-> IF k \in dead THEN Absent ELSE records[k]]
        /\ holder' = [k \in Keys |-> IF k \in dead THEN Nobody ELSE holder[k]]
        /\ orphan' = Orphaned(dead)
  BY DEF SqlPurge
<1> DEFINE purged == [k \in Keys |-> PurgedRow(records[k], r)]
           dead == {k \in Keys : PurgeWhere(records[k], r)}
           gone == {k \in Keys : Present(records[k]) /\ ~Present(purged[k])}
<1>2. r \in Int /\ \A k \in Keys : records[k].expiresAt \in Int
  BY <1>1, ReadingType DEF SqlInv, LeaseInv, TypeInv, TypeOK, Row
<1>3. ASSUME NEW k \in Keys
      PROVE  purged[k] = IF k \in dead THEN Absent ELSE records[k]
  <2>1. CASE Present(records[k])
    BY <1>2, <2>1 DEF PurgedRow, PurgeWhere, Live
  <2>2. CASE ~Present(records[k])
    BY <2>2 DEF PurgedRow, PurgeWhere, Live, SqlInv, SqlShape, NoGhostRows, StageShape
  <2> QED BY <2>1, <2>2
<1>4. records' = [k \in Keys |-> IF k \in Keys THEN purged[k] ELSE records[k]]
  BY <1>1, <1>3
<1>5. gone = dead
  BY <1>3 DEF Present, Absent, PurgeWhere
<1>6. holder' = [k \in Keys |-> IF Present(records'[k]) THEN holder[k] ELSE Nobody]
  <2>1. ASSUME NEW k \in Keys
        PROVE  (IF k \in dead THEN Nobody ELSE holder[k])
                 = IF Present(records'[k]) THEN holder[k] ELSE Nobody
    BY <1>1 DEF Present, Absent, SqlInv, SqlShape, NoGhostRows, StageShape
  <2> QED BY <1>1, <2>1
<1>7. RemoveRows(Keys, purged)
  BY <1>1, <1>4, <1>5, <1>6 DEF RemoveRows, SqlPurge
<1> QED BY <1>7 DEF Purge

-----------------------------------------------------------------------------
(* Every step of the SQL store is a step of the contract's, or none.       *)

\* A worker's statement is a whole call, or leaves the engine's state alone.
LEMMA StepRefines ==
    ASSUME SqlWithinLease, SqlInv, NEW w \in Workers, SqlStep(w)
    PROVE  Next \/ UNCHANGED vars
<1>0. FaultsAllowed
  BY AlwaysFaults
<1>1. ASSUME SqlBeginWrite(w) PROVE BeginAcquired(w) \/ UNCHANGED vars
  <2>1. CASE SqlClaim(w)
    BY <1>1, <2>1, ClaimIsApplied DEF SqlBeginWrite, BeginAcquired, SqlClaim, WriteRefused, RowOf
  <2>2. CASE ~SqlClaim(w)
    BY <1>1, <2>2 DEF SqlBeginWrite, WriteRefused
  <2> QED BY <2>1, <2>2
<1>2. ASSUME SqlBeginRead(w) PROVE BeginRefused(w) \/ BeginError(w) \/ UNCHANGED vars
  <2> DEFINE verdict == ClaimVerdict(RowOf(w), op[w].fingerprint, op[w].begunAt)
  <2>1. CASE verdict # "again"
    <3>1. Outcome(w) = verdict /\ verdict # "acquired"
      BY <1>2, <2>1, CallFacts, VerdictIsOutcome DEF Outcome, SqlBeginRead
    <3>2. Return(w, Refusal[verdict]) /\ pc[w] = "begin"
          /\ UNCHANGED <<clock, records, holder, orphan>>
      BY <1>2, <2>1 DEF SqlBeginRead
    <3> HIDE DEF verdict
    <3> QED BY <3>1, <3>2 DEF BeginRefused
  <2>2. CASE verdict = "again"
    BY <1>0, <1>2, <2>2 DEF SqlBeginRead, BeginFails, BeginError
  <2> QED BY <2>1, <2>2
<1>3. ASSUME SqlCompleteWrite(w) PROVE Complete(w)
  <2>1. SqlComplete(w) /\ Return(w, "stored") /\ pc[w] = "complete"
        /\ orphan' = [orphan EXCEPT ![w] = FALSE] /\ UNCHANGED <<clock, holder>>
    BY <1>3, UpdateFindsRow DEF SqlCompleteWrite
  <2> QED BY <2>1, UpdateIsApplied DEF Complete
<1>4. ASSUME SqlCompleteRead(w) PROVE FALSE
  BY <1>4 DEF SqlCompleteRead, SqlInv, SqlShape, NoGhostRows, StageShape
<1>5. ASSUME SqlAbandonWrite(w) PROVE Abandon(w) \/ UNCHANGED vars
  <2>1. CASE SqlAbandon(w)
    BY <1>5, <2>1, DeleteIsApplied DEF SqlAbandonWrite, Abandon, SqlAbandon, RowOf
  <2>2. CASE ~SqlAbandon(w)
    BY <1>5, <2>2 DEF SqlAbandonWrite, WriteRefused
  <2> QED BY <2>1, <2>2
<1>6. ASSUME SqlAbandonRead(w) PROVE AbandonError(w)
  BY <1>0, <1>6 DEF SqlAbandonRead, AbandonError
<1>7. ASSUME Elsewhere(w) PROVE RunUnclaimed(w) \/ RunStored(w) \/ RunFailed(w)
  BY <1>7 DEF Elsewhere
<1> QED BY <1>1, <1>2, <1>3, <1>4, <1>5, <1>6, <1>7 DEF SqlStep, Next, WorkerStep, Fault

\* A failing statement is a failing call.
LEMMA FaultRefines ==
    ASSUME SqlWithinLease, SqlInv, NEW w \in Workers, SqlFault(w)
    PROVE  Next
<1>1. ASSUME SqlBeginError(w) PROVE BeginError(w)
  <2>1. ApplyBegin(w) \/ UNCHANGED <<records, holder>>
    BY <1>1, ClaimIsApplied DEF SqlBeginError
  <2> QED BY <1>1, <2>1 DEF SqlBeginError, BeginFails, BeginError
<1>2. ASSUME SqlCompleteError(w) PROVE CompleteError(w)
  BY <1>2, UpdateIsApplied DEF SqlCompleteError, CompleteError
<1>3. ASSUME SqlAbandonError(w) PROVE AbandonError(w)
  BY <1>3, DeleteIsApplied DEF SqlAbandonError, AbandonError
<1> QED BY <1>1, <1>2, <1>3 DEF SqlFault, Next, Fault

\* Every step of the SQL store is one of the engine on the contract's store.
LEMMA SqlNextRefines ==
    ASSUME SqlWithinLease, SqlInv, [SqlNext]_sqlVars
    PROVE  [Next]_vars
<1>1. CASE UNCHANGED sqlVars
  BY <1>1 DEF sqlVars, vars
<1>2. CASE SqlNext
  BY <1>2, StepRefines, FaultRefines, PurgeIsApplied DEF SqlNext, Next
<1> QED BY <1>1, <1>2

-----------------------------------------------------------------------------
(* SqlShape is kept.                                                       *)

\* A statement that deletes a row deletes all of it.
LEMMA GhostRows ==
    ASSUME SqlInv,
           \/ UNCHANGED <<records, holder>>
           \/ \E w \in Workers : pc[w] # "idle" /\ SqlClaim(w)
           \/ \E w \in Workers : pc[w] # "idle" /\ SqlComplete(w) /\ UNCHANGED holder
           \/ \E w \in Workers : pc[w] # "idle" /\ SqlAbandon(w)
           \/ SqlPurge
    PROVE  NoGhostRows'
<1> USE DEF NoGhostRows
<1>0. NoGhostRows /\ records \in [Keys -> Row(Results)] /\ holder \in [Keys -> Workers \cup {Nobody}]
  BY DEF SqlInv, SqlShape, NoGhostRows, StageShape, LeaseInv, TypeInv, TypeOK
<1>1. CASE UNCHANGED <<records, holder>>
  BY <1>0, <1>1
<1>2. ASSUME NEW w \in Workers, pc[w] # "idle", SqlClaim(w) PROVE NoGhostRows'
  BY <1>0, <1>2 DEF SqlClaim, UpsertedRow, Present
<1>3. ASSUME NEW w \in Workers, pc[w] # "idle", SqlComplete(w), UNCHANGED holder
      PROVE  NoGhostRows'
  <2>1. \A row \in Row(Results) : \A res : Present(UpdatedRow(row, res))
    BY DEF UpdatedRow, Present, Row
  <2> QED BY <1>0, <1>3, <2>1 DEF SqlComplete
<1>4. ASSUME NEW w \in Workers, pc[w] # "idle", SqlAbandon(w) PROVE NoGhostRows'
  BY <1>0, <1>4 DEF SqlAbandon, Present, Absent
<1>5. CASE SqlPurge
  BY <1>0, <1>5 DEF SqlPurge, Present, Absent
<1> QED BY <1>1, <1>2, <1>3, <1>4, <1>5

\* A worker whose call is over, or that moves between the two statements of a
\* begin or an abandon, keeps StageShape.
LEMMA StageKept ==
    ASSUME SqlInv, TypeOK', clock' = clock, NEW w \in Workers,
           \A v \in Workers \ {w} :
               pc'[v] = pc[v] /\ sent'[v] = sent[v] /\ stage'[v] = stage[v],
           pc'[w] \in {"idle", "run"} => stage'[w] = "write",
           pc'[w] # "complete"
    PROVE  StageShape'
BY DEF SqlInv, SqlShape, NoGhostRows, StageShape

\* Every step of a worker keeps SqlShape.
LEMMA WorkerShape ==
    ASSUME SqlInv, LeaseInv', NEW w \in Workers, SqlStep(w) \/ SqlFault(w)
    PROVE  SqlShape'
<1>0. TypeOK /\ TypeOK' /\ stage \in [Workers -> {"write", "read"}] /\ clock <= MaxTime
      /\ StageShape
  BY DEF SqlInv, SqlShape, NoGhostRows, StageShape, LeaseInv, TypeInv
<1>1. clock' = clock
  BY DEF SqlStep, SqlFault, SqlBeginWrite, SqlBeginRead, SqlCompleteWrite, SqlCompleteRead,
         SqlAbandonWrite, SqlAbandonRead, Elsewhere, RunUnclaimed, RunStored, RunFailed,
         SqlBeginError, SqlCompleteError, SqlAbandonError, StoreResultThrows, Crash,
         WriteRefused, vars
<1>2. stage' \in [Workers -> {"write", "read"}]
  BY <1>0 DEF SqlStep, SqlFault, SqlBeginWrite, SqlBeginRead, SqlCompleteWrite,
         SqlCompleteRead, SqlAbandonWrite, SqlAbandonRead, Elsewhere,
         SqlBeginError, SqlCompleteError, SqlAbandonError, WriteRefused, CallOver
<1>3. NoGhostRows'
  <2>1. \/ UNCHANGED <<records, holder>>
        \/ pc[w] # "idle" /\ SqlClaim(w)
        \/ pc[w] # "idle" /\ SqlComplete(w) /\ UNCHANGED holder
        \/ pc[w] # "idle" /\ SqlAbandon(w)
    BY DEF SqlStep, SqlFault, SqlBeginWrite, SqlBeginRead, SqlCompleteWrite, SqlCompleteRead,
           SqlAbandonWrite, SqlAbandonRead, Elsewhere, RunUnclaimed, RunStored, RunFailed,
           SqlBeginError, SqlCompleteError, SqlAbandonError, StoreResultThrows, Crash,
           WriteRefused, vars
  <2> QED BY <2>1, GhostRows
<1>4. StageShape'
  <2>a. ASSUME NEW answer, Return(w, answer), CallOver(w) PROVE StageShape'
    BY <1>0, <1>1, <2>a, StageKept DEF Return, CallOver, TypeOK
  <2>1. CASE SqlBeginWrite(w)
    <3>1. CASE pc' = [pc EXCEPT ![w] = "run"] /\ UNCHANGED sent /\ CallOver(w)
      BY <1>0, <1>1, <3>1, StageKept DEF CallOver, TypeOK
    <3>2. CASE WriteRefused(w)
      BY <1>0, <1>1, <2>1, <3>2, StageKept DEF SqlBeginWrite, WriteRefused, vars, TypeOK
    <3> QED BY <2>1, <3>1, <3>2 DEF SqlBeginWrite
  <2>2. ASSUME BeginFails(w), CallOver(w) PROVE StageShape'
    <3>1. CASE FailOpen
      BY <1>0, <1>1, <2>2, <3>1, StageKept DEF BeginFails, CallOver, TypeOK
    <3>2. CASE ~FailOpen
      BY <2>2, <2>a, <3>2 DEF BeginFails
    <3> QED BY <3>1, <3>2
  <2>3. CASE SqlBeginRead(w)
    <3>1. ASSUME stage' = [stage EXCEPT ![w] = "write"], UNCHANGED vars PROVE StageShape'
      BY <1>0, <1>1, <2>3, <3>1, StageKept DEF SqlBeginRead, vars, TypeOK
    <3> QED BY <2>2, <2>3, <2>a, <3>1 DEF SqlBeginRead
  <2>4. CASE SqlCompleteWrite(w)
    <3>1. CompleteWhere(RowOf(w), fence[w], sent[w].at)
      BY <2>4, UpdateFindsRow DEF SqlCompleteWrite
    <3> QED BY <2>4, <2>a, <3>1 DEF SqlCompleteWrite
  <2>5. CASE SqlCompleteRead(w)
    BY <2>5, <2>a DEF SqlCompleteRead
  <2>6. CASE SqlAbandonWrite(w)
    <3>1. CASE WriteRefused(w)
      BY <1>0, <1>1, <2>6, <3>1, StageKept DEF SqlAbandonWrite, WriteRefused, vars, TypeOK
    <3> QED BY <2>6, <2>a, <3>1 DEF SqlAbandonWrite
  <2>7. CASE SqlAbandonRead(w)
    BY <2>7, <2>a DEF SqlAbandonRead
  <2>8. ASSUME NEW answer, Return(w, answer), UNCHANGED stage, pc[w] = "run" PROVE StageShape'
    BY <1>0, <1>1, <2>8, StageKept DEF Return, TypeOK, StageShape
  <2>9. CASE Elsewhere(w)
    <3>1. CASE RunUnclaimed(w)
      BY <2>8, <2>9, <3>1 DEF Elsewhere, RunUnclaimed
    <3>2. CASE RunFailed(w)
      BY <1>0, <1>1, <2>9, <3>2, StageKept DEF Elsewhere, RunFailed, TypeOK
    <3>3. CASE RunStored(w)
      <4>1. PICK r \in Readings, omitted \in BOOLEAN :
              sent' = [sent EXCEPT ![w] =
                         [ at |-> r,
                           result |-> [ by |-> w, of |-> op[w].fingerprint,
                                        omitted |-> omitted ] ]]
        BY <3>3 DEF RunStored
      <4>2. sent'[w].at = r /\ r <= clock + Skew
        BY <1>0, <4>1, SkewAssumption DEF TypeOK, Readings
      <4>3. \A v \in Workers : v # w => sent'[v] = sent[v] /\ pc'[v] = pc[v]
        BY <1>0, <3>3, <4>1 DEF RunStored, TypeOK
      <4>4. pc[w] = "run" /\ UNCHANGED stage
        BY <2>9, <3>3 DEF RunStored, Elsewhere
      <4> QED BY <1>0, <1>1, <4>2, <4>3, <4>4 DEF StageShape
    <3> QED BY <2>9, <3>1, <3>2, <3>3 DEF Elsewhere
  <2>10. CASE SqlFault(w)
    BY <2>2, <2>8, <2>10, <2>a DEF SqlFault, SqlBeginError, SqlCompleteError, SqlAbandonError,
                                  StoreResultThrows, Crash
  <2> QED BY <2>1, <2>3, <2>4, <2>5, <2>6, <2>7, <2>9, <2>10 DEF SqlStep
<1> QED BY <1>0, <1>1, <1>2, <1>3, <1>4 DEF SqlShape, NoGhostRows, StageShape

\* Every step keeps the inductive invariant.
LEMMA SqlInvStep ==
    ASSUME SqlWithinLease, SqlInv, [SqlNext]_sqlVars
    PROVE  SqlInv'
<1>0. LeaseInv' /\ TypeOK /\ TypeOK'
  BY SqlNextRefines, LeaseStep DEF SqlWithinLease, SqlInv, LeaseInv, TypeInv
<1> SUFFICES SqlShape'
  BY <1>0 DEF SqlInv
<1>1. ASSUME NEW w \in Workers, NEW k \in Keys, NEW f \in Fingerprints,
             Request(w, k, f), UNCHANGED <<stage, tries>>
      PROVE  SqlShape'
  <2>1. \A v \in Workers : pc'[v] = pc[v] \/ (pc[v] = "idle" /\ pc'[v] = "begin")
    BY <1>0, <1>1 DEF Request, TypeOK
  <2>2. UNCHANGED <<clock, records, holder, sent>>
    BY <1>1 DEF Request
  <2> QED BY <1>1, <2>1, <2>2 DEF SqlInv, SqlShape, NoGhostRows, StageShape
<1>2. ASSUME NEW w \in Workers, SqlStep(w) \/ SqlFault(w) PROVE SqlShape'
  BY <1>0, <1>2, WorkerShape
<1>3. ASSUME Tick, UNCHANGED <<stage, tries>> PROVE SqlShape'
  <2>1. /\ clock \in Int /\ clock' = clock + 1 /\ clock' <= MaxTime
        /\ \A w \in Workers : sent[w].at \in Int
    BY <1>0, <1>3, BoundAssumption DEF Tick, TypeOK
  <2>2. UNCHANGED <<records, holder, pc, sent>>
    BY <1>3 DEF Tick, worker
  <2> QED BY <1>3, <2>1, <2>2, SkewAssumption DEF SqlInv, SqlShape, NoGhostRows, StageShape
<1>4. CASE SqlPurge
  <2>1. UNCHANGED <<clock, pc, sent, stage>>
    BY <1>4 DEF SqlPurge, worker
  <2>2. NoGhostRows'
    BY <1>4, GhostRows
  <2> QED BY <2>1, <2>2 DEF SqlInv, SqlShape, StageShape
<1>5. CASE UNCHANGED sqlVars
  BY <1>5 DEF sqlVars, vars, SqlInv, SqlShape, NoGhostRows, StageShape
<1> QED BY <1>1, <1>2, <1>3, <1>4, <1>5 DEF SqlNext

\* The two-statement store implements the contract's atomic store: whatever
\* interleaving of statements, crash or broken connection, and for every number
\* of begin's rounds.
THEOREM SqlRefinement == ASSUME SqlWithinLease PROVE SqlSpec => ImplementsEngine
<1>1. SqlInit => SqlInv /\ Init
  <2> SUFFICES ASSUME SqlInit PROVE SqlInv /\ Init
    OBVIOUS
  <2>1. Init
    BY DEF SqlInit
  <2>2. LeaseInv
    BY <2>1, LeaseInit
  <2>3. SqlShape
    BY BoundAssumption DEF SqlInit, Init, SqlShape, NoGhostRows, StageShape
  <2> QED BY <2>1, <2>2, <2>3 DEF SqlInv
<1>2. SqlInv /\ [SqlNext]_sqlVars => SqlInv'
  BY SqlInvStep
<1>3. SqlInv /\ [SqlNext]_sqlVars => [Next]_vars
  BY SqlNextRefines
<1> QED BY <1>1, <1>2, <1>3, PTL DEF SqlSpec, Spec, ImplementsEngine

\* So a SQL store is exclusive within leases, as the contract's store is.
THEOREM SqlExclusive == ASSUME SqlWithinLease PROVE SqlSpec => []ExclusiveWhileLeased
BY SqlRefinement, LeaseExclusive, PTL DEF ImplementsEngine, SqlWithinLease

=============================================================================
