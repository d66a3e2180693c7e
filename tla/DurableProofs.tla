---------------------------- MODULE DurableProofs ---------------------------
(***************************************************************************)
(* Proofs about the Durable Object: it implements the store contract, its  *)
(* alarm always covers its rows, and its sweep takes dead rows only.  No   *)
(* assumption on leases or on the lengths of attempts is needed.           *)
(***************************************************************************)
EXTENDS DurableEngine, EngineProofs, WellFoundedInduction

-----------------------------------------------------------------------------
(* The inductive invariant                                                 *)

\* The sweep table lists the rows, each for a time at which every clock is
\* past the row's end by the grace, less the skew of the clock that wrote it.
SweepShape ==
    /\ sweep \in [Keys -> Nat \cup {Unset}]
    /\ \A k \in Keys : Present(records[k]) <=> Listed(k)
    /\ \A k \in Keys : Listed(k) => records[k].expiresAt + Grace <= sweep[k] + Skew

\* The alarm is set for the first entry or for a time before it.
AlarmShape ==
    /\ alarm \in Nat \cup {Unset}
    /\ \A k \in Keys : Listed(k) => alarm # Unset /\ alarm <= sweep[k]

ObjectInv == NoGhostRows /\ SweepShape

DurableInv == PastInv /\ ObjectInv /\ AlarmShape

\* What is known of an outstanding call and its row.
LEMMA OutstandingCall ==
    ASSUME PastInv, NoGhostRows, NEW w \in Workers, pc[w] # "idle"
    PROVE  /\ op[w].key \in Keys /\ op[w].begunAt \in Int /\ sent[w].at \in Int
           /\ op[w].begunAt <= clock + Skew
           /\ RowOf(w) \in Row(Results) /\ RowOf(w) = records[op[w].key]
           /\ ~Present(RowOf(w)) => RowOf(w).fence = 0
BY DEF PastInv, PastReadings, NoGhostRows, TypeInv, TypeOK, AttemptShape, RowOf, Absent

-----------------------------------------------------------------------------
(* The object's methods are the contract's operations.                     *)

\* An upsert in the object is an applied begin.
LEMMA ObjectClaimApplied ==
    ASSUME PastInv, NoGhostRows, NEW w \in Workers, pc[w] = "begin", ObjectClaim(w)
    PROVE  Outcome(w) = "acquired" /\ ApplyBegin(w)
<1> DEFINE k == op[w].key
<1>1. k \in Keys /\ op[w].begunAt \in Int /\ records[k] \in Row(Results)
      /\ RowOf(w) = records[k] /\ (~Present(records[k]) => records[k].fence = 0)
  BY OutstandingCall
<1>2. Outcome(w) = "acquired"
  BY <1>1, ClaimWhereAcquires DEF ObjectClaim, Outcome
<1>3. UpsertedRow(records[k], op[w].fingerprint, op[w].begunAt)
        = ClaimedRow(records[k], op[w].fingerprint, op[w].begunAt)
  BY <1>1, UpsertedIsClaimed
<1> QED BY <1>1, <1>2, <1>3 DEF ObjectClaim, ApplyBegin

\* A claim that the object refuses is refused by the contract, with the same
\* reason: no other method of the object runs before its SELECT.
LEMMA ObjectRefusal ==
    ASSUME PastInv, NoGhostRows, NEW w \in Workers, pc[w] = "begin",
           ~ClaimWhere(RowOf(w), op[w].fingerprint, op[w].begunAt)
    PROVE  /\ Outcome(w) # "acquired"
           /\ Outcome(w) = ClaimVerdict(RowOf(w), op[w].fingerprint, op[w].begunAt)
<1> DEFINE row == RowOf(w)
           f == op[w].fingerprint
           now == op[w].begunAt
<1>1. row \in Row(Results) /\ now \in Int
  BY OutstandingCall
<1>2. ClaimVerdict(row, f, now) # "again"
  BY <1>1, RefusalIsSettled
<1>3. Outcome(w) = ClaimVerdict(row, f, now) /\ Outcome(w) # "acquired"
  BY <1>1, <1>2, VerdictIsOutcome DEF Outcome
<1> QED BY <1>3

\* An UPDATE in the object, whether it matches or not, is an applied complete.
LEMMA ObjectCompleteApplied ==
    ASSUME PastInv, NoGhostRows, NEW w \in Workers, pc[w] = "complete", ObjectComplete(w)
    PROVE  /\ ApplyComplete(w)
           /\ CompleteStatus(RowOf(w), fence[w], sent[w].at) = "ok"
                <=> \/ CompleteWhere(RowOf(w), fence[w], sent[w].at)
                    \/ CompleteVerdict(RowOf(w), fence[w], sent[w].at) = "ok"
<1> DEFINE k == op[w].key
<1>1. k \in Keys /\ sent[w].at \in Int /\ records[k] \in Row(Results) /\ RowOf(w) = records[k]
  BY OutstandingCall
<1>2. CASE CompleteWhere(records[k], fence[w], sent[w].at)
  <2>1. /\ CompleteStatus(records[k], fence[w], sent[w].at) = "ok"
        /\ CompletedRow(records[k], fence[w], sent[w].at, sent[w].result)
             = UpdatedRow(records[k], sent[w].result)
    BY <1>1, <1>2, CompleteWhereWrites
  <2> QED BY <1>1, <1>2, <2>1 DEF ObjectComplete, ApplyComplete
<1>3. CASE ~CompleteWhere(records[k], fence[w], sent[w].at)
  <2>1. /\ CompleteStatus(records[k], fence[w], sent[w].at)
             = CompleteVerdict(records[k], fence[w], sent[w].at)
        /\ CompletedRow(records[k], fence[w], sent[w].at, sent[w].result) = records[k]
    BY <1>1, <1>3, CompleteVerdictAnswers
  <2> QED BY <1>1, <1>3, <2>1 DEF ObjectComplete, ApplyComplete
<1> QED BY <1>2, <1>3

\* A DELETE in the object, whether it matches or not, is an applied abandon.
LEMMA ObjectAbandonApplied ==
    ASSUME PastInv, NoGhostRows, NEW w \in Workers, pc[w] = "abandon", ObjectAbandon(w)
    PROVE  ApplyAbandon(w)
<1> DEFINE k == op[w].key
           gone == IF AbandonStatus(records[k], fence[w]) = "ok" THEN {k} ELSE {}
           ks == {j \in {k} : AbandonWhere(records[j], fence[w])}
<1>1. k \in Keys
  BY OutstandingCall
<1>2. ks = gone /\ {j \in ks : Present(records[j])} = gone
  BY AbandonWhereDeletes DEF AbandonWhere, Present
<1>3. DeleteRows(ks)
  BY DEF ObjectAbandon
<1>4. records' = [records EXCEPT ![k] = AbandonedRow(@, fence[w])]
  BY <1>1, <1>2, <1>3 DEF DeleteRows, AbandonedRow, PastInv, TypeInv, TypeOK
<1>5. holder' = [j \in Keys |-> IF j \in gone THEN Nobody ELSE holder[j]]
  BY <1>2, <1>3 DEF DeleteRows
<1>6. orphan' = Orphaned(gone)
  BY <1>2, <1>3 DEF DeleteRows
<1> QED BY <1>4, <1>5, <1>6 DEF ApplyAbandon

\* Rows deleted in the object are rows removed from the contract's store.
LEMMA DeletionRemoves ==
    ASSUME PastInv, NoGhostRows, NEW ks \in SUBSET Keys, DeleteRows(ks),
           UNCHANGED <<clock, worker>>
    PROVE  RemoveRows(ks, [k \in Keys |-> Absent])
<1> DEFINE purged == [k \in Keys |-> Absent]
<1>1. records' = [k \in Keys |-> IF k \in ks THEN purged[k] ELSE records[k]]
  BY DEF DeleteRows
<1>2. holder' = [k \in Keys |-> IF Present(records'[k]) THEN holder[k] ELSE Nobody]
  <2>1. ASSUME NEW k \in Keys
        PROVE  (IF k \in ks THEN Nobody ELSE holder[k])
                 = IF Present(records'[k]) THEN holder[k] ELSE Nobody
    BY <1>1 DEF Present, Absent, NoGhostRows
  <2> QED BY <2>1 DEF DeleteRows
<1>3. {k \in ks : Present(records[k])} = {k \in ks : Present(records[k]) /\ ~Present(purged[k])}
  BY DEF Present, Absent
<1>4. orphan' = Orphaned({k \in ks : Present(records[k]) /\ ~Present(purged[k])})
  BY <1>3 DEF DeleteRows
<1> QED BY <1>1, <1>2, <1>4 DEF RemoveRows

\* purge in the object is the contract's purge.
LEMMA ObjectPurgeApplied ==
    ASSUME PastInv, NoGhostRows, DurablePurge
    PROVE  Purge
<1>1. PICK r \in Readings : DeleteRows({k \in Keys : PurgeWhere(records[k], r)})
  BY DEF DurablePurge
<1> DEFINE dead == {k \in Keys : PurgeWhere(records[k], r)}
           purged == [k \in Keys |-> PurgedRow(records[k], r)]
<1>2. r \in Int /\ \A k \in Keys : records[k].expiresAt \in Int
  BY <1>1, ReadingType DEF PastInv, TypeInv, TypeOK, Row
<1>3. ASSUME NEW k \in Keys
      PROVE  purged[k] = IF k \in dead THEN Absent ELSE records[k]
  <2>1. CASE Present(records[k])
    BY <1>2, <2>1 DEF PurgedRow, PurgeWhere, Live
  <2>2. CASE ~Present(records[k])
    BY <2>2 DEF PurgedRow, PurgeWhere, Live, NoGhostRows
  <2> QED BY <2>1, <2>2
<1>4. RemoveRows(dead, [k \in Keys |-> Absent])
  BY <1>1, DeletionRemoves DEF DurablePurge
<1>5. records' = [k \in Keys |-> IF k \in Keys THEN purged[k] ELSE records[k]]
  BY <1>3, <1>4 DEF RemoveRows
<1>6. {k \in dead : Present(records[k]) /\ ~Present(Absent)}
        = {k \in Keys : Present(records[k]) /\ ~Present(purged[k])}
  BY <1>3 DEF Present, Absent, PurgeWhere
<1>7. orphan' = Orphaned({k \in Keys : Present(records[k]) /\ ~Present(purged[k])})
  <2>1. {k \in dead : Present(records[k]) /\ ~Present([j \in Keys |-> Absent][k])}
          = {k \in dead : Present(records[k]) /\ ~Present(Absent)}
    OBVIOUS
  <2> QED BY <1>4, <1>6, <2>1 DEF RemoveRows
<1>8. RemoveRows(Keys, purged)
  BY <1>4, <1>5, <1>7 DEF RemoveRows
<1> QED BY <1>8 DEF Purge

\* A row that is due has been dead for the grace, less the skew.
LEMMA DueIsDead ==
    ASSUME PastInv, SweepShape, NEW k \in Due(clock)
    PROVE  /\ k \in Keys /\ Present(records[k])
           /\ records[k].expiresAt \in Int
           /\ records[k].expiresAt + Grace <= clock + Skew
<1>1. k \in Keys /\ Listed(k) /\ sweep[k] <= clock
  BY DEF Due
<1>2. sweep[k] \in Nat /\ clock \in Nat /\ records[k].expiresAt \in Int
  BY <1>1 DEF SweepShape, Listed, PastInv, TypeInv, TypeOK, Row
<1>3. Present(records[k]) /\ records[k].expiresAt + Grace <= sweep[k] + Skew
  BY <1>1 DEF SweepShape
<1> QED BY <1>1, <1>2, <1>3, SkewAssumption, GraceAssumption

\* The alarm is the native sweep.
LEMMA AlarmSweeps ==
    ASSUME PastInv, ObjectInv, Alarm
    PROVE  NativeSweep(Due(clock))
<1>1. Due(clock) \in SUBSET Keys
  BY DEF Due
<1>2. RemoveRows(Due(clock), [k \in Keys |-> Absent])
  BY <1>1, DeletionRemoves DEF Alarm, ObjectInv
<1>3. \A k \in Due(clock) : Present(records[k]) /\ clock + Skew >= records[k].expiresAt + Grace
  <2> SUFFICES ASSUME NEW k \in Due(clock)
               PROVE  Present(records[k]) /\ clock + Skew >= records[k].expiresAt + Grace
    OBVIOUS
  <2>1. /\ Present(records[k]) /\ records[k].expiresAt \in Int
        /\ records[k].expiresAt + Grace <= clock + Skew
    BY DueIsDead DEF ObjectInv
  <2> QED BY <2>1, SkewAssumption, GraceAssumption DEF PastInv, TypeInv, TypeOK
<1> QED BY <1>2, <1>3 DEF NativeSweep

-----------------------------------------------------------------------------
(* Every step of the object and its callers is a step of the engine.       *)

\* A method call of a worker is the same call on the contract's store.
LEMMA DurableStepRefines ==
    ASSUME PastInv, NoGhostRows, NEW w \in Workers, DurableStep(w)
    PROVE  WorkerStep(w)
<1>1. ASSUME DurableAcquired(w) PROVE BeginAcquired(w)
  BY <1>1, ObjectClaimApplied DEF DurableAcquired, BeginAcquired
<1>2. ASSUME DurableRefused(w) PROVE BeginRefused(w)
  <2> DEFINE verdict == ClaimVerdict(RowOf(w), op[w].fingerprint, op[w].begunAt)
  <2>1. /\ pc[w] = "begin" /\ Return(w, Refusal[verdict])
        /\ UNCHANGED <<clock, records, holder, orphan>>
    BY <1>2 DEF DurableRefused
  <2>2. Outcome(w) = verdict /\ Outcome(w) # "acquired"
    BY <1>2, ObjectRefusal DEF DurableRefused
  <2> HIDE DEF verdict
  <2> QED BY <2>1, <2>2 DEF BeginRefused
<1>3. ASSUME DurableComplete(w) PROVE Complete(w)
  <2> DEFINE answer == IF CompleteStatus(RowOf(w), fence[w], sent[w].at) = "ok"
                       THEN "stored" ELSE "unstored"
  <2>1. /\ pc[w] = "complete" /\ ObjectComplete(w)
        /\ orphan' = [orphan EXCEPT ![w] = FALSE] /\ UNCHANGED <<clock, holder>>
    BY <1>3 DEF DurableComplete
  <2>2. ApplyComplete(w)
    BY <2>1, ObjectCompleteApplied
  <2>3. Return(w, answer)
    <3>1. answer = IF \/ CompleteWhere(RowOf(w), fence[w], sent[w].at)
                      \/ CompleteVerdict(RowOf(w), fence[w], sent[w].at) = "ok"
                   THEN "stored" ELSE "unstored"
      BY <2>1, ObjectCompleteApplied
    <3> HIDE DEF answer
    <3> QED BY <1>3, <3>1 DEF DurableComplete
  <2> QED BY <2>1, <2>2, <2>3 DEF Complete
<1>4. ASSUME DurableAbandon(w) PROVE Abandon(w)
  BY <1>4, ObjectAbandonApplied DEF DurableAbandon, Abandon
<1>5. ASSUME DurableElsewhere(w) PROVE RunUnclaimed(w) \/ RunStored(w) \/ RunFailed(w)
  BY <1>5 DEF DurableElsewhere
<1> QED BY <1>1, <1>2, <1>3, <1>4, <1>5 DEF DurableStep, WorkerStep

\* A failing method call is a failing call of the contract's store.
LEMMA DurableFaultRefines ==
    ASSUME PastInv, NoGhostRows, NEW w \in Workers, DurableFault(w)
    PROVE  Fault(w)
<1>1. ASSUME DurableBeginError(w) PROVE BeginError(w)
  <2>1. ApplyBegin(w) \/ UNCHANGED <<records, holder>>
    BY <1>1, ObjectClaimApplied DEF DurableBeginError
  <2> QED BY <1>1, <2>1 DEF DurableBeginError, BeginError
<1>2. ASSUME DurableCompleteError(w) PROVE CompleteError(w)
  BY <1>2, ObjectCompleteApplied DEF DurableCompleteError, CompleteError
<1>3. ASSUME DurableAbandonError(w) PROVE AbandonError(w)
  BY <1>3, ObjectAbandonApplied DEF DurableAbandonError, AbandonError
<1> QED BY <1>1, <1>2, <1>3 DEF DurableFault, Fault

\* Every step of DurableEngine is a step of Engine, or changes nothing of it.
LEMMA DurableNextRefines ==
    ASSUME PastInv, ObjectInv, [DurableNext]_durableVars
    PROVE  [Next]_vars
<1>0. NoGhostRows
  BY DEF ObjectInv
<1>1. CASE UNCHANGED durableVars
  BY <1>1 DEF durableVars, vars
<1>2. ASSUME NEW w \in Workers, NEW k \in Keys, NEW f \in Fingerprints, Request(w, k, f)
      PROVE  Next
  BY <1>2 DEF Next
<1>3. ASSUME NEW w \in Workers, DurableStep(w) \/ DurableFault(w) PROVE Next
  BY <1>0, <1>3, DurableStepRefines, DurableFaultRefines DEF Next
<1>4. CASE DurablePurge
  BY <1>0, <1>4, ObjectPurgeApplied DEF Next
<1>5. CASE Alarm
  <2>1. NativeSweep(Due(clock)) /\ Due(clock) \in SUBSET Keys
    BY <1>5, AlarmSweeps DEF Due
  <2> QED BY <2>1 DEF Next
<1>6. CASE Tick
  BY <1>6 DEF Next
<1> QED BY <1>1, <1>2, <1>3, <1>4, <1>5, <1>6 DEF DurableNext

-----------------------------------------------------------------------------
(* What the methods do to the rows and the sweep table.                    *)

\* A begin lists its row, for a time that no clock's reading makes too early.
LEMMA ClaimKeepsObject ==
    ASSUME PastInv, ObjectInv, AlarmShape, NEW w \in Workers, pc[w] = "begin", ObjectClaim(w)
    PROVE  ObjectInv' /\ AlarmShape'
<1> DEFINE k == op[w].key
           wall == clock + Ttl + Grace
<1>1. /\ k \in Keys /\ op[w].begunAt \in Int /\ op[w].begunAt <= clock + Skew
      /\ clock \in Nat /\ records \in [Keys -> Row(Results)]
      /\ holder \in [Keys -> Workers \cup {Nobody}]
  BY OutstandingCall DEF ObjectInv, PastInv, TypeInv, TypeOK
<1>2. wall \in Nat /\ wall # Unset
  BY <1>1, TtlAssumption, GraceAssumption, UnsetAssumption
<1>3. /\ sweep' = [sweep EXCEPT ![k] = wall]
      /\ alarm' = IF alarm = Unset \/ alarm > wall THEN wall ELSE alarm
  BY DEF ObjectClaim, ScheduleSweep
<1>4. /\ Present(records'[k]) /\ records'[k].expiresAt = op[w].begunAt + Ttl
      /\ \A j \in Keys \ {k} : records'[j] = records[j] /\ holder'[j] = holder[j]
  BY <1>1 DEF ObjectClaim, UpsertedRow, Present
<1>5. NoGhostRows'
  BY <1>4 DEF ObjectInv, NoGhostRows
<1> HIDE DEF wall
<1>6. SweepShape'
  <2>1. sweep' \in [Keys -> Nat \cup {Unset}]
    BY <1>1, <1>2, <1>3 DEF ObjectInv, SweepShape
  <2>2. sweep'[k] = wall /\ \A j \in Keys \ {k} : sweep'[j] = sweep[j]
    BY <1>1, <1>3 DEF ObjectInv, SweepShape
  <2>3. records'[k].expiresAt + Grace <= wall + Skew
    BY <1>1, <1>4, SkewAssumption, TtlAssumption, GraceAssumption DEF wall
  <2> QED BY <1>2, <1>4, <2>1, <2>2, <2>3 DEF ObjectInv, SweepShape, Listed
<1>7. AlarmShape'
  <2>1. sweep'[k] = wall /\ \A j \in Keys \ {k} : sweep'[j] = sweep[j]
    BY <1>1, <1>3 DEF ObjectInv, SweepShape
  <2>2. alarm' \in Nat /\ alarm' <= wall /\ (alarm # Unset => alarm' <= alarm)
    BY <1>2, <1>3 DEF AlarmShape
  <2>3. \A j \in Keys : Listed(j) => sweep[j] \in Nat /\ alarm \in Nat
    BY DEF ObjectInv, SweepShape, AlarmShape, Listed
  <2>4. alarm' # Unset
    BY <2>2, UnsetAssumption
  <2>5. ASSUME NEW j \in Keys, sweep'[j] # Unset PROVE alarm' <= sweep'[j]
    <3>1. CASE j = k
      BY <2>1, <2>2, <3>1
    <3>2. CASE j # k
      <4>1. sweep'[j] = sweep[j] /\ Listed(j)
        BY <2>1, <2>5, <3>2 DEF Listed
      <4>2. alarm # Unset /\ alarm <= sweep[j] /\ sweep[j] \in Nat /\ alarm \in Nat
        BY <2>3, <4>1 DEF AlarmShape
      <4> QED BY <2>2, <4>1, <4>2
    <3> QED BY <3>1, <3>2
  <2> QED BY <2>2, <2>4, <2>5 DEF AlarmShape, Listed
<1> QED BY <1>5, <1>6, <1>7 DEF ObjectInv

\* A complete changes neither which rows are there nor when they end.
LEMMA CompleteKeepsObject ==
    ASSUME PastInv, ObjectInv, AlarmShape, NEW w \in Workers, pc[w] = "complete",
           ObjectComplete(w), UNCHANGED <<holder, sweep, alarm>>
    PROVE  ObjectInv' /\ AlarmShape'
<1>1. records \in [Keys -> Row(Results)]
  BY DEF PastInv, TypeInv, TypeOK
<1>2. \A row \in Row(Results) : \A res :
        Present(UpdatedRow(row, res)) /\ UpdatedRow(row, res).expiresAt = row.expiresAt
  BY DEF UpdatedRow, Present, Row
<1>3. ASSUME NEW k \in Keys
      PROVE  /\ Present(records'[k]) <=> Present(records[k])
             /\ records'[k].expiresAt = records[k].expiresAt
             /\ ~Present(records[k]) => records'[k] = records[k]
  BY <1>1, <1>2 DEF ObjectComplete, CompleteWhere
<1> QED BY <1>3 DEF ObjectInv, NoGhostRows, SweepShape, AlarmShape, Listed

\* Rows leave the table and the sweep table together.
LEMMA DeletionKeepsObject ==
    ASSUME PastInv, ObjectInv, NEW ks \in SUBSET Keys, DeleteRows(ks)
    PROVE  /\ ObjectInv'
           /\ \A k \in Keys : sweep'[k] # Unset => k \notin ks /\ sweep'[k] = sweep[k]
<1>1. ASSUME NEW k \in Keys
      PROVE  IF k \in ks
             THEN records'[k] = Absent /\ holder'[k] = Nobody /\ sweep'[k] = Unset
             ELSE records'[k] = records[k] /\ holder'[k] = holder[k] /\ sweep'[k] = sweep[k]
  BY DEF DeleteRows
<1>2. ~Present(Absent)
  BY DEF Present, Absent
<1>3. sweep' \in [Keys -> Nat \cup {Unset}]
  BY DEF DeleteRows, ObjectInv, SweepShape
<1> QED BY <1>1, <1>2, <1>3 DEF ObjectInv, NoGhostRows, SweepShape, Listed

\* A set of times has an earliest one.
LEMMA EarliestTime ==
    ASSUME NEW T \in SUBSET Nat, T # {}
    PROVE  \E t \in T : \A u \in T : t <= u
<1> DEFINE Less == {p \in Nat \X Nat : p[1] < p[2]}
<1>1. IsWellFoundedOn(Less, Nat)
  BY NatLessThanWellFounded, Zenon DEF OpToRel
<1>2. \A a, b \in Nat : a < b => <<a, b>> \in Less
  OBVIOUS
<1> HIDE DEF Less
<1>3. PICK t \in T : \A u \in T : ~(<<u, t>> \in Less)
  BY <1>1, WFMin, Zenon
<1>4. \A u \in T : ~(u < t)
  BY <1>2, <1>3, Zenon
<1>5. \A u \in T : t <= u
  BY <1>4
<1> QED BY <1>5

\* After a sweep the alarm is set for the first entry that is left.
LEMMA AlarmKeepsObject ==
    ASSUME PastInv, ObjectInv, AlarmShape, Alarm
    PROVE  ObjectInv' /\ AlarmShape'
<1> DEFINE left == {k \in Keys : Listed(k)} \ Due(clock)
           times == {sweep[k] : k \in left}
<1>1. Due(clock) \in SUBSET Keys
  BY DEF Due
<1>2. /\ ObjectInv'
      /\ \A k \in Keys : sweep'[k] # Unset => k \notin Due(clock) /\ sweep'[k] = sweep[k]
  BY <1>1, DeletionKeepsObject DEF Alarm
<1>3. alarm' = IF left = {} THEN Unset
               ELSE CHOOSE t \in times : \A k \in left : t <= sweep[k]
  BY DEF Alarm, Rearmed, Earliest
<1>4. \A k \in left : k \in Keys /\ sweep[k] \in Nat
  BY DEF ObjectInv, SweepShape, Listed
<1>5. \A k \in Keys : sweep'[k] # Unset => k \in left /\ sweep'[k] = sweep[k]
  BY <1>2 DEF Listed
<1> HIDE DEF left
<1>6. CASE left = {}
  BY <1>2, <1>3, <1>5, <1>6 DEF AlarmShape, Listed
<1>7. CASE left # {}
  <2>1. times \in SUBSET Nat /\ times # {}
    BY <1>4, <1>7
  <2>2. \E t \in times : \A k \in left : t <= sweep[k]
    <3>1. \A k \in left : sweep[k] \in times
      OBVIOUS
    <3> HIDE DEF times
    <3>2. PICK t \in times : \A u \in times : t <= u
      BY <2>1, EarliestTime
    <3> QED BY <3>1, <3>2
  <2>3. alarm' \in times /\ \A k \in left : alarm' <= sweep[k]
    BY <1>3, <1>7, <2>2
  <2>4. alarm' \in Nat /\ alarm' # Unset
    BY <2>1, <2>3, UnsetAssumption
  <2> QED BY <1>2, <1>5, <2>3, <2>4 DEF AlarmShape, Listed
<1> QED BY <1>2, <1>6, <1>7

-----------------------------------------------------------------------------
(* The invariant is kept.                                                  *)

LEMMA DurableInvStep == DurableInv /\ [DurableNext]_durableVars => DurableInv'
<1> SUFFICES ASSUME DurableInv, [DurableNext]_durableVars PROVE DurableInv'
  OBVIOUS
<1>0. PastInv /\ ObjectInv /\ AlarmShape /\ NoGhostRows
  BY DEF DurableInv, ObjectInv
<1>1. PastInv'
  BY <1>0, DurableNextRefines, PastStep
<1> SUFFICES ObjectInv' /\ AlarmShape'
  BY <1>1 DEF DurableInv
<1>2. ASSUME UNCHANGED <<records, holder, sweep, alarm>> PROVE ObjectInv' /\ AlarmShape'
  BY <1>0, <1>2 DEF ObjectInv, NoGhostRows, SweepShape, AlarmShape, Listed
<1>3. ASSUME NEW ks \in SUBSET Keys, DeleteRows(ks), UNCHANGED alarm
      PROVE  ObjectInv' /\ AlarmShape'
  BY <1>0, <1>3, DeletionKeepsObject DEF AlarmShape, Listed
<1>4. ASSUME NEW w \in Workers, DurableStep(w) PROVE ObjectInv' /\ AlarmShape'
  <2>1. CASE DurableAcquired(w)
    BY <1>0, <2>1, ClaimKeepsObject DEF DurableAcquired
  <2>2. CASE DurableRefused(w)
    BY <1>2, <2>2 DEF DurableRefused
  <2>3. CASE DurableComplete(w)
    BY <1>0, <2>3, CompleteKeepsObject DEF DurableComplete
  <2>4. CASE DurableAbandon(w)
    <3>1. op[w].key \in Keys
      BY <1>0, <2>4, OutstandingCall DEF DurableAbandon
    <3> QED BY <1>3, <2>4, <3>1 DEF DurableAbandon, ObjectAbandon
  <2>5. CASE DurableElsewhere(w)
    BY <1>2, <2>5 DEF DurableElsewhere, RunUnclaimed, RunStored, RunFailed
  <2> QED BY <1>4, <2>1, <2>2, <2>3, <2>4, <2>5 DEF DurableStep
<1>5. ASSUME NEW w \in Workers, DurableFault(w) PROVE ObjectInv' /\ AlarmShape'
  <2>1. CASE DurableBeginError(w)
    BY <1>0, <1>2, <2>1, ClaimKeepsObject DEF DurableBeginError
  <2>2. CASE DurableCompleteError(w)
    BY <1>0, <1>2, <2>2, CompleteKeepsObject DEF DurableCompleteError
  <2>3. CASE DurableAbandonError(w)
    <3>1. op[w].key \in Keys
      BY <1>0, <2>3, OutstandingCall DEF DurableAbandonError
    <3> QED BY <1>2, <1>3, <2>3, <3>1 DEF DurableAbandonError, ObjectAbandon
  <2>4. CASE (StoreResultThrows(w) \/ Crash(w)) /\ UNCHANGED <<sweep, alarm>>
    BY <1>2, <2>4 DEF StoreResultThrows, Crash
  <2> QED BY <1>5, <2>1, <2>2, <2>3, <2>4 DEF DurableFault
<1>6. ASSUME NEW w \in Workers, NEW k \in Keys, NEW f \in Fingerprints, Request(w, k, f),
             UNCHANGED <<sweep, alarm>>
      PROVE  ObjectInv' /\ AlarmShape'
  BY <1>2, <1>6 DEF Request
<1>7. CASE Tick /\ UNCHANGED <<sweep, alarm>>
  BY <1>2, <1>7 DEF Tick
<1>8. CASE DurablePurge
  BY <1>3, <1>8 DEF DurablePurge
<1>9. CASE Alarm
  BY <1>0, <1>9, AlarmKeepsObject
<1>10. CASE UNCHANGED durableVars
  BY <1>2, <1>10 DEF durableVars, vars
<1> QED BY <1>4, <1>5, <1>6, <1>7, <1>8, <1>9, <1>10 DEF DurableNext

LEMMA DurableInvInit == DurableInit => DurableInv
<1> SUFFICES ASSUME DurableInit PROVE DurableInv
  OBVIOUS
<1>1. Init /\ TypeInv
  BY TypeInit DEF DurableInit
<1>2. PastInv
  BY <1>1 DEF PastInv, PastReadings, Init
<1>3. \A k \in Keys : ~Present(records[k]) /\ ~Listed(k) /\ records[k] = Absent
                      /\ holder[k] = Nobody
  BY DEF DurableInit, Init, Listed, Present, Absent
<1>4. ObjectInv /\ AlarmShape
  BY <1>3 DEF ObjectInv, NoGhostRows, SweepShape, AlarmShape, DurableInit
<1> QED BY <1>2, <1>4 DEF DurableInv

LEMMA DurableInvariant == DurableSpec => []DurableInv
BY DurableInvInit, DurableInvStep, PTL DEF DurableSpec

-----------------------------------------------------------------------------
(* Theorems                                                                *)

\* The object's rows, sweep table and alarm keep their types.
THEOREM DurableTypes == DurableSpec => []DurableTypeOK
<1>1. DurableInv => DurableTypeOK
  BY DEF DurableInv, PastInv, TypeInv, ObjectInv, SweepShape, AlarmShape, DurableTypeOK
<1> QED BY <1>1, DurableInvariant, PTL

\* begin, complete, abandon, purge and alarm of the Durable Object are, step by
\* step, what the store contract allows, with attempts of any length.
THEOREM DurableRefinement == DurableSpec => DurableImplementsEngine
<1>1. DurableInit => Init
  BY DEF DurableInit
<1>2. DurableInv /\ [DurableNext]_durableVars => [Next]_vars
  BY DurableNextRefines DEF DurableInv
<1> QED BY <1>1, <1>2, DurableInvariant, PTL DEF DurableSpec, Spec, DurableImplementsEngine

\* The object never has a row that its alarm will not come for: begin moves the
\* alarm forward when it must, and a sweep sets it again.
THEOREM AlarmCovers == DurableSpec => []AlarmCoversRows
<1>1. DurableInv => AlarmCoversRows
  BY DEF DurableInv, ObjectInv, SweepShape, AlarmShape, AlarmCoversRows
<1> QED BY <1>1, DurableInvariant, PTL

\* With a grace of twice the skew the alarm deletes no row that any caller's
\* clock could still show alive.
THEOREM SweepSafe == ASSUME Grace >= 2 * Skew PROVE DurableSpec => SweepsOnlyDead
<1> DEFINE Dead == Alarm => \A k \in Keys : Live(records[k], clock - Skew)
                                               => records'[k] = records[k]
<1>1. ASSUME DurableInv PROVE Dead
  <2> SUFFICES ASSUME Alarm, NEW k \in Keys, Live(records[k], clock - Skew)
               PROVE  records'[k] = records[k]
    OBVIOUS
  <2>1. k \notin Due(clock)
    <3> SUFFICES ASSUME k \in Due(clock) PROVE FALSE
      OBVIOUS
    <3>1. records[k].expiresAt \in Int /\ records[k].expiresAt + Grace <= clock + Skew
      BY <1>1, DueIsDead DEF DurableInv, ObjectInv
    <3>2. clock \in Int /\ records[k].expiresAt > clock - Skew
      BY <1>1 DEF DurableInv, PastInv, TypeInv, TypeOK, Live
    <3> QED BY <3>1, <3>2, SkewAssumption, GraceAssumption
  <2> QED BY <2>1 DEF Alarm, DeleteRows
<1>2. DurableInv /\ [DurableNext]_durableVars => [Dead]_durableVars
  BY <1>1
<1> QED BY <1>2, DurableInvariant, PTL DEF DurableSpec, SweepsOnlyDead

\* So the fence is as faithful on a Durable Object as on the contract's store,
\* and completed rows stay as they are.
THEOREM DurableFencing ==
    DurableSpec => []FenceWitnessesClaim /\ LateWriterFenced /\ CompletedStable
BY DurableRefinement, FencingCorrect, LateWriters, ReplayStable, PTL DEF DurableImplementsEngine

=============================================================================
