---------------------------- MODULE EngineProofs ----------------------------
(***************************************************************************)
(* Proofs about Engine, for every number of workers, keys and payloads and *)
(* every lease, time to live, skew and bound; and, for the proofs of the   *)
(* stores, about the statements of the SQL text.                           *)
(***************************************************************************)
EXTENDS Engine, SqlStatements, TLAPS

-----------------------------------------------------------------------------
(* What the row operators return.                                          *)

\* begin answers one of the four outcomes of BeginOutcome (types.ts).
LEMMA OutcomeType ==
    ASSUME NEW row, NEW f, NEW now
    PROVE  BeginOutcome(row, f, now) \in {"acquired", "completed", "in_flight", "mismatch"}
BY DEF BeginOutcome

\* A missing row is a row.
LEMMA AbsentType == Absent \in Row(Results)
BY DEF Absent, Row

\* Every transition of the store turns a row into a row.
LEMMA RowTransitions ==
    ASSUME NEW row \in Row(Results)
    PROVE  /\ \A f \in Fingerprints, now \in Int : ClaimedRow(row, f, now) \in Row(Results)
           /\ \A fc, now : \A res \in Results :
                CompletedRow(row, fc, now, res) \in Row(Results)
           /\ \A fc : AbandonedRow(row, fc) \in Row(Results)
           /\ \A now : PurgedRow(row, now) \in Row(Results)
<1>1. \A f \in Fingerprints, now \in Int : ClaimedRow(row, f, now) \in Row(Results)
  BY LeaseAssumption, TtlAssumption DEF ClaimedRow, Row
<1>2. \A fc, now : \A res \in Results : CompletedRow(row, fc, now, res) \in Row(Results)
  BY DEF CompletedRow, Row
<1>3. \A fc : AbandonedRow(row, fc) \in Row(Results)
  BY AbsentType DEF AbandonedRow
<1>4. \A now : PurgedRow(row, now) \in Row(Results)
  BY AbsentType DEF PurgedRow
<1> QED BY <1>1, <1>2, <1>3, <1>4

-----------------------------------------------------------------------------
(* Type correctness.  TypeOK is not inductive by itself: that an attempt   *)
(* has a key, and a complete a payload, depends on where the attempt is.   *)

\* The shape of an attempt at each step of execute.
AttemptShape ==
    \A w \in Workers :
        /\ pc[w] \in {"idle", "begin"} => fence[w] = 0
        /\ pc[w] \in {"complete", "abandon"} => fence[w] # 0
        /\ pc[w] # "idle" => op[w].key \in Keys /\ op[w].fingerprint \in Fingerprints
        /\ pc[w] = "abandon" => out[w] \in {"unstored", "threw"}
        /\ pc[w] = "complete" =>
             /\ sent[w].result \in Results
             /\ sent[w].result.by = w
             /\ sent[w].result.of = op[w].fingerprint

TypeInv == TypeOK /\ AttemptShape

\* A clock reading is an integer.
LEMMA ReadingType == TypeOK => Readings \subseteq Int
BY SkewAssumption DEF TypeOK, Readings

\* An attempt that returns leaves a well-formed idle worker behind.
LEMMA ReturnType ==
    ASSUME TypeInv, NEW w \in Workers, NEW answer \in Answers, Return(w, answer)
    PROVE  /\ pc' \in [Workers -> Steps]
           /\ op' \in [Workers -> [ key : Keys \cup {NoKey},
                                    fingerprint : Fingerprints \cup {NoFingerprint},
                                    begunAt : Int ]]
           /\ fence' \in [Workers -> Nat]
           /\ sent' \in [Workers -> [at : Int, result : Results \cup {NoResult}]]
           /\ out' \in [Workers -> Answers]
           /\ AttemptShape'
<1> USE DEF TypeInv, TypeOK
<1>1. /\ pc' \in [Workers -> Steps]
      /\ fence' \in [Workers -> Nat]
      /\ out' \in [Workers -> Answers]
  BY DEF Return, Steps
<1>2. op' \in [Workers -> [ key : Keys \cup {NoKey},
                            fingerprint : Fingerprints \cup {NoFingerprint},
                            begunAt : Int ]]
  BY DEF Return, NoOp
<1>3. sent' \in [Workers -> [at : Int, result : Results \cup {NoResult}]]
  BY DEF Return, NoSent
<1>4. AttemptShape'
  BY DEF Return, AttemptShape
<1> QED BY <1>1, <1>2, <1>3, <1>4

\* The three calls leave rows and a history of the right types.
LEMMA ApplyType ==
    ASSUME TypeInv, NEW w \in Workers, pc[w] # "idle"
    PROVE  /\ ApplyBegin(w) => /\ records' \in [Keys -> Row(Results)]
                               /\ holder' \in [Keys -> Workers \cup {Nobody}]
           /\ pc[w] = "complete" /\ ApplyComplete(w) => records' \in [Keys -> Row(Results)]
           /\ ApplyAbandon(w) => /\ records' \in [Keys -> Row(Results)]
                                 /\ holder' \in [Keys -> Workers \cup {Nobody}]
                                 /\ orphan' \in [Workers -> BOOLEAN]
<1>1. /\ op[w].key \in Keys /\ op[w].fingerprint \in Fingerprints
      /\ op[w].begunAt \in Int
      /\ RowOf(w) \in Row(Results)
      /\ pc[w] = "complete" => sent[w].result \in Results
  BY DEF TypeInv, TypeOK, AttemptShape, RowOf
<1>2. ASSUME ApplyBegin(w)
      PROVE  /\ records' \in [Keys -> Row(Results)]
             /\ holder' \in [Keys -> Workers \cup {Nobody}]
  <2>1. ClaimedRow(RowOf(w), op[w].fingerprint, op[w].begunAt) \in Row(Results)
    BY <1>1, RowTransitions
  <2> QED BY <1>1, <1>2, <2>1 DEF ApplyBegin, RowOf, TypeInv, TypeOK
<1>3. ASSUME pc[w] = "complete", ApplyComplete(w)
      PROVE  records' \in [Keys -> Row(Results)]
  <2>1. CompletedRow(RowOf(w), fence[w], sent[w].at, sent[w].result) \in Row(Results)
    BY <1>1, <1>3, RowTransitions
  <2> QED BY <1>1, <1>3, <2>1 DEF ApplyComplete, RowOf, TypeInv, TypeOK
<1>4. ASSUME ApplyAbandon(w)
      PROVE  /\ records' \in [Keys -> Row(Results)]
             /\ holder' \in [Keys -> Workers \cup {Nobody}]
             /\ orphan' \in [Workers -> BOOLEAN]
  <2>1. AbandonedRow(RowOf(w), fence[w]) \in Row(Results)
    BY <1>1, RowTransitions
  <2>2. records' \in [Keys -> Row(Results)]
    BY <1>1, <1>4, <2>1 DEF ApplyAbandon, RowOf, TypeInv, TypeOK
  <2>3. holder' \in [Keys -> Workers \cup {Nobody}]
    BY <1>4 DEF ApplyAbandon, TypeInv, TypeOK
  <2>4. orphan' \in [Workers -> BOOLEAN]
    BY <1>4, Zenon DEF ApplyAbandon, Orphaned, TypeInv, TypeOK
  <2> QED BY <2>2, <2>3, <2>4
<1> QED BY <1>2, <1>3, <1>4

\* Deleting rows leaves rows and a history of the right types.
LEMMA RemoveType ==
    ASSUME TypeInv, NEW ks \in SUBSET Keys, NEW purged \in [Keys -> Row(Results)],
           RemoveRows(ks, purged)
    PROVE  TypeInv'
<1>1. /\ records' \in [Keys -> Row(Results)]
      /\ holder' \in [Keys -> Workers \cup {Nobody}]
  BY DEF RemoveRows, TypeInv, TypeOK
<1>2. orphan' \in [Workers -> BOOLEAN]
  BY Zenon DEF RemoveRows, Orphaned, TypeInv, TypeOK
<1>3. UNCHANGED <<clock, pc, op, fence, sent, out>>
  BY DEF RemoveRows, worker
<1> QED BY <1>1, <1>2, <1>3 DEF TypeInv, TypeOK, AttemptShape

\* Every step of execute, of its surroundings and of the store keeps TypeInv.
LEMMA TypeStep == TypeInv /\ [Next]_vars => TypeInv'
<1> SUFFICES ASSUME TypeInv, [Next]_vars PROVE TypeInv'
  OBVIOUS
<1> USE DEF TypeInv
<1>0. TypeOK /\ AttemptShape
  OBVIOUS
<1>1. ASSUME NEW w \in Workers, NEW k \in Keys, NEW f \in Fingerprints, Request(w, k, f)
      PROVE  TypeInv'
  <2>1. PICK r \in Readings :
          op' = [op EXCEPT ![w] = [key |-> k, fingerprint |-> f, begunAt |-> r]]
    BY <1>1 DEF Request
  <2>2. r \in Int
    BY <2>1, ReadingType
  <2>3. TypeOK'
    BY <1>0, <1>1, <2>1, <2>2 DEF Request, TypeOK, Steps, Answers
  <2>4. AttemptShape'
    BY <1>0, <1>1, <2>1 DEF Request, TypeOK, AttemptShape
  <2> QED BY <2>3, <2>4
<1>2. ASSUME NEW w \in Workers, BeginAcquired(w) PROVE TypeInv'
  <2>1. /\ records' \in [Keys -> Row(Results)]
        /\ holder' \in [Keys -> Workers \cup {Nobody}]
    BY <1>2, ApplyType DEF BeginAcquired
  <2>2. fence' \in [Workers -> Nat]
    BY <1>0, <1>2, <2>1 DEF BeginAcquired, TypeOK, AttemptShape, Row
  <2>3. TypeOK'
    BY <1>0, <1>2, <2>1, <2>2 DEF BeginAcquired, TypeOK, Steps
  <2>4. \A v \in Workers : v # w => fence'[v] = fence[v] /\ pc'[v] = pc[v]
    BY <1>0, <1>2 DEF BeginAcquired, TypeOK
  <2>5. pc'[w] = "run" /\ pc[w] = "begin" /\ UNCHANGED <<op, sent, out>>
    BY <1>0, <1>2 DEF BeginAcquired, TypeOK
  <2>6. AttemptShape'
    BY <1>0, <2>4, <2>5 DEF AttemptShape
  <2> QED BY <2>3, <2>6
<1>3. ASSUME NEW w \in Workers, BeginRefused(w) PROVE TypeInv'
  <2>1. Outcome(w) \in {"completed", "in_flight", "mismatch"}
    BY <1>3, OutcomeType DEF BeginRefused, Outcome
  <2>2. PICK answer \in Answers : Return(w, answer)
    BY <1>3, <2>1 DEF BeginRefused, Refusal, Answers
  <2> QED BY <1>0, <1>3, <2>2, ReturnType DEF BeginRefused, TypeOK
<1>4. ASSUME NEW w \in Workers, BeginError(w) PROVE TypeInv'
  <2>1. /\ records' \in [Keys -> Row(Results)]
        /\ holder' \in [Keys -> Workers \cup {Nobody}]
    BY <1>0, <1>4, ApplyType DEF BeginError, TypeOK
  <2>2. CASE FailOpen
    <3>1. TypeOK'
      BY <1>0, <1>4, <2>1, <2>2 DEF BeginError, TypeOK, Steps
    <3>2. /\ pc[w] = "begin" /\ pc' = [pc EXCEPT ![w] = "run"]
          /\ UNCHANGED <<op, fence, sent, out>>
      BY <1>4, <2>2 DEF BeginError
    <3>3. AttemptShape'
      BY <1>0, <3>2 DEF AttemptShape, TypeOK
    <3> QED BY <3>1, <3>3
  <2>3. CASE ~FailOpen
    <3>1. Return(w, "store_error") /\ "store_error" \in Answers
      BY <1>4, <2>3 DEF BeginError, Answers
    <3> QED BY <1>0, <1>4, <2>1, <3>1, ReturnType DEF BeginError, TypeOK
  <2> QED BY <2>2, <2>3
<1>5. ASSUME NEW w \in Workers, BeginResent(w) PROVE TypeInv'
  BY <1>0, <1>5, ApplyType DEF BeginResent, worker, TypeOK, AttemptShape
<1>6. ASSUME NEW w \in Workers, RunUnclaimed(w) PROVE TypeInv'
  <2>1. PICK answer \in Answers : Return(w, answer)
    BY <1>6 DEF RunUnclaimed, Answers
  <2> QED BY <1>0, <1>6, <2>1, ReturnType DEF RunUnclaimed, TypeOK
<1>7. ASSUME NEW w \in Workers, RunStored(w) PROVE TypeInv'
  <2>1. PICK r \in Readings, omitted \in BOOLEAN :
          sent' = [sent EXCEPT ![w] =
                     [ at |-> r,
                       result |-> [ by |-> w, of |-> op[w].fingerprint,
                                    omitted |-> omitted ] ]]
    BY <1>7 DEF RunStored
  <2>2. r \in Int
    BY <2>1, ReadingType
  <2>3. [by |-> w, of |-> op[w].fingerprint, omitted |-> omitted] \in Results
    BY <1>0, <1>7 DEF RunStored, AttemptShape, Results
  <2>4. TypeOK'
    BY <1>0, <1>7, <2>1, <2>2, <2>3 DEF RunStored, TypeOK, Steps
  <2>5. AttemptShape'
    BY <1>0, <1>7, <2>1, <2>3 DEF RunStored, TypeOK, AttemptShape, Claiming
  <2> QED BY <2>4, <2>5
<1>8. ASSUME NEW w \in Workers, RunFailed(w) PROVE TypeInv'
  BY <1>0, <1>8 DEF RunFailed, TypeOK, AttemptShape, Steps, Answers, Claiming
<1>9. ASSUME NEW w \in Workers, StoreResultThrows(w) PROVE TypeInv'
  <2>1. "threw" \in Answers
    BY DEF Answers
  <2> QED BY <1>0, <1>9, <2>1, ReturnType DEF StoreResultThrows, TypeOK
<1>10. ASSUME NEW w \in Workers, Complete(w) \/ CompleteError(w) PROVE TypeInv'
  <2>1. PICK answer \in Answers : Return(w, answer)
    BY <1>10 DEF Complete, CompleteError, Answers
  <2>2. records' \in [Keys -> Row(Results)]
    BY <1>0, <1>10, ApplyType DEF Complete, CompleteError, TypeOK
  <2> QED BY <1>0, <1>10, <2>1, <2>2, ReturnType DEF Complete, CompleteError, TypeOK
<1>11. ASSUME NEW w \in Workers, CompleteResent(w) PROVE TypeInv'
  BY <1>0, <1>11, ApplyType DEF CompleteResent, worker, TypeOK, AttemptShape
<1>12. ASSUME NEW w \in Workers, Abandon(w) \/ AbandonError(w) PROVE TypeInv'
  <2>1. Return(w, out[w]) /\ out[w] \in Answers
    BY <1>0, <1>12 DEF Abandon, AbandonError, TypeOK
  <2>2. /\ records' \in [Keys -> Row(Results)]
        /\ holder' \in [Keys -> Workers \cup {Nobody}]
        /\ orphan' \in [Workers -> BOOLEAN]
    BY <1>0, <1>12, ApplyType DEF Abandon, AbandonError, TypeOK
  <2> QED BY <1>0, <1>12, <2>1, <2>2, ReturnType DEF Abandon, AbandonError, TypeOK
<1>13. ASSUME NEW w \in Workers, AbandonResent(w) PROVE TypeInv'
  BY <1>0, <1>13, ApplyType DEF AbandonResent, worker, TypeOK, AttemptShape
<1>14. ASSUME NEW w \in Workers, Crash(w) PROVE TypeInv'
  <2>1. "none" \in Answers
    BY DEF Answers
  <2> QED BY <1>0, <1>14, <2>1, ReturnType DEF Crash, TypeOK
<1>15. ASSUME Tick PROVE TypeInv'
  BY <1>0, <1>15 DEF Tick, worker, TypeOK, AttemptShape
<1>16. ASSUME Purge PROVE TypeInv'
  <2>1. PICK r \in Readings : RemoveRows(Keys, [k \in Keys |-> PurgedRow(records[k], r)])
    BY <1>16 DEF Purge
  <2>2. [k \in Keys |-> PurgedRow(records[k], r)] \in [Keys -> Row(Results)]
    BY <1>0, RowTransitions DEF TypeOK
  <2> QED BY <2>1, <2>2, RemoveType
<1>17. ASSUME NEW ks \in SUBSET Keys, NativeSweep(ks) PROVE TypeInv'
  <2>1. [j \in Keys |-> Absent] \in [Keys -> Row(Results)]
    BY AbsentType
  <2> QED BY <1>17, <2>1, RemoveType DEF NativeSweep
<1>18. CASE UNCHANGED vars
  BY <1>0, <1>18 DEF vars, TypeOK, AttemptShape
<1> QED BY <1>1, <1>2, <1>3, <1>4, <1>5, <1>6, <1>7, <1>8, <1>9, <1>10, <1>11, <1>12,
          <1>13, <1>14, <1>15, <1>16, <1>17, <1>18 DEF Next, WorkerStep, Fault

\* The initial state has the right types.
LEMMA TypeInit == Init => TypeInv
<1> SUFFICES ASSUME Init PROVE TypeInv
  OBVIOUS
<1>1. TypeOK
  BY AbsentType DEF Init, TypeOK, NoOp, NoSent, Steps, Answers
<1>2. AttemptShape
  BY DEF Init, AttemptShape
<1> QED BY <1>1, <1>2 DEF TypeInv

\* Type correctness of the engine and its store, whatever fails.
THEOREM TypeCorrect == Spec => []TypeOK
<1>1. Spec => []TypeInv
  BY TypeInit, TypeStep, PTL DEF Spec
<1>2. TypeInv => TypeOK
  BY DEF TypeInv
<1> QED BY <1>1, <1>2, PTL

-----------------------------------------------------------------------------
(* The fence.  As long as no row is deleted, rows keep their fences or     *)
(* raise them, and only a begin that becomes the holder raises one.        *)

FenceInv == TypeInv /\ FenceWitnessesClaim

\* Steps that leave claims alone, or drop some, and move fences only forward.
LEMMA FenceKept ==
    ASSUME FenceInv, TypeInv',
           \A w \in Workers : fence'[w] # 0 =>
               /\ fence'[w] = fence[w] /\ op'[w] = op[w]
               /\ orphan'[w] = orphan[w],
           \A k \in Keys : Present(records[k]) =>
               /\ Present(records'[k])
               /\ \/ records'[k].fence > records[k].fence
                  \/ records'[k].fence = records[k].fence /\ holder'[k] = holder[k]
    PROVE  FenceWitnessesClaim'
<1> SUFFICES ASSUME NEW w \in Workers, fence'[w] # 0, ~orphan'[w]
             PROVE  /\ Present(records'[op'[w].key])
                    /\ \/ records'[op'[w].key].fence > fence'[w]
                       \/ records'[op'[w].key].fence = fence'[w] /\ holder'[op'[w].key] = w
  BY DEF FenceWitnessesClaim, Claiming, RowOf
<1> DEFINE k == op[w].key
<1>1. fence'[w] = fence[w] /\ op'[w] = op[w] /\ ~orphan[w]
  OBVIOUS
<1>2. k \in Keys
  BY <1>1 DEF FenceInv, TypeInv, TypeOK, AttemptShape, Steps
<1>3. /\ Present(records[k])
      /\ \/ records[k].fence > fence[w]
         \/ records[k].fence = fence[w] /\ holder[k] = w
  BY <1>1 DEF FenceInv, FenceWitnessesClaim, Claiming, RowOf
<1>4. fence[w] \in Nat /\ records[k].fence \in Nat /\ records'[k].fence \in Nat
  BY <1>2 DEF FenceInv, TypeInv, TypeOK, Row
<1> QED BY <1>1, <1>2, <1>3, <1>4

\* An applied begin keeps every row's fence or raises it.
LEMMA BeginRaisesFence ==
    ASSUME TypeInv, NEW w \in Workers, pc[w] = "begin", ApplyBegin(w)
    PROVE  \A k \in Keys :
             /\ Present(records[k]) => Present(records'[k])
             /\ \/ records'[k].fence > records[k].fence
                \/ records'[k].fence = records[k].fence /\ holder'[k] = holder[k]
<1>1. op[w].key \in Keys /\ records[op[w].key].fence \in Nat
  BY DEF TypeInv, TypeOK, AttemptShape, Row
<1>2. CASE Outcome(w) = "acquired"
  BY <1>1, <1>2 DEF ApplyBegin, ClaimedRow, Present, TypeInv, TypeOK
<1>3. CASE Outcome(w) # "acquired"
  BY <1>3 DEF ApplyBegin
<1> QED BY <1>2, <1>3

\* An applied complete moves no fence.
LEMMA CompleteKeepsFence ==
    ASSUME TypeInv, NEW w \in Workers, pc[w] = "complete", ApplyComplete(w)
    PROVE  \A k \in Keys : Present(records[k]) =>
             Present(records'[k]) /\ records'[k].fence = records[k].fence
<1>1. \A row \in Row(Results) : \A fc, now, res :
        Present(row) => /\ Present(CompletedRow(row, fc, now, res))
                        /\ CompletedRow(row, fc, now, res).fence = row.fence
  BY DEF CompletedRow, Present, Row
<1>2. op[w].key \in Keys
  BY DEF TypeInv, AttemptShape
<1> QED BY <1>1, <1>2 DEF ApplyComplete, TypeInv, TypeOK

\* Whoever claims a deleted row is an orphan from then on.
LEMMA RemovalOrphans ==
    ASSUME FenceInv, TypeInv', NEW ks \in SUBSET Keys,
           orphan' = Orphaned(ks),
           \A w \in Workers : fence'[w] # 0 => fence'[w] = fence[w] /\ op'[w] = op[w],
           \A k \in Keys \ ks : Present(records[k]) =>
               records'[k] = records[k] /\ holder'[k] = holder[k]
    PROVE  FenceWitnessesClaim'
<1> SUFFICES ASSUME NEW w \in Workers, fence'[w] # 0, ~orphan'[w]
             PROVE  /\ Present(records'[op'[w].key])
                    /\ \/ records'[op'[w].key].fence > fence'[w]
                       \/ records'[op'[w].key].fence = fence'[w] /\ holder'[op'[w].key] = w
  BY DEF FenceWitnessesClaim, Claiming, RowOf
<1> DEFINE k == op[w].key
<1>1. fence'[w] = fence[w] /\ op'[w] = op[w]
  OBVIOUS
<1>2. ~orphan[w] /\ k \notin ks
  BY <1>1, Zenon DEF Orphaned, Claiming
<1>3. k \in Keys
  BY <1>1 DEF FenceInv, TypeInv, TypeOK, AttemptShape, Steps
<1>4. /\ Present(records[k])
      /\ \/ records[k].fence > fence[w]
         \/ records[k].fence = fence[w] /\ holder[k] = w
  BY <1>1, <1>2 DEF FenceInv, FenceWitnessesClaim, Claiming, RowOf
<1> QED BY <1>1, <1>2, <1>3, <1>4

\* Every step keeps the fence a faithful witness.
LEMMA FenceStep == FenceInv /\ [Next]_vars => FenceInv'
<1> SUFFICES ASSUME FenceInv, [Next]_vars PROVE FenceInv'
  OBVIOUS
<1>0. TypeInv /\ TypeInv' /\ TypeOK /\ TypeOK' /\ AttemptShape
  BY TypeStep DEF FenceInv, TypeInv
<1> SUFFICES FenceWitnessesClaim'
  BY <1>0 DEF FenceInv
<1>a. ASSUME NEW w \in Workers, NEW answer, Return(w, answer)
      PROVE  \A v \in Workers : fence'[v] # 0 =>
               v # w /\ fence'[v] = fence[v] /\ op'[v] = op[v]
  BY <1>0, <1>a DEF Return, TypeOK
<1>1. ASSUME NEW w \in Workers, NEW k \in Keys, NEW f \in Fingerprints, Request(w, k, f)
      PROVE  FenceWitnessesClaim'
  <2>1. \A v \in Workers : fence'[v] # 0 => fence'[v] = fence[v] /\ op'[v] = op[v]
    BY <1>0, <1>1 DEF Request, TypeOK, AttemptShape
  <2> QED BY <1>0, <1>1, <2>1, FenceKept DEF Request
<1>2. ASSUME NEW w \in Workers, BeginAcquired(w) PROVE FenceWitnessesClaim'
  <2>1. /\ op[w].key \in Keys
        /\ records'[op[w].key] = ClaimedRow(RowOf(w), op[w].fingerprint, op[w].begunAt)
        /\ holder'[op[w].key] = w
        /\ fence'[w] = records'[op[w].key].fence
        /\ op' = op
    BY <1>0, <1>2 DEF BeginAcquired, ApplyBegin, RowOf, TypeOK, AttemptShape
  <2>2. Present(records'[op[w].key])
    BY <2>1 DEF ClaimedRow, Present
  <2>3. ASSUME NEW v \in Workers, v # w, fence'[v] # 0, ~orphan'[v]
        PROVE  /\ Present(records'[op'[v].key])
               /\ \/ records'[op'[v].key].fence > fence'[v]
                  \/ records'[op'[v].key].fence = fence'[v] /\ holder'[op'[v].key] = v
    <3> DEFINE j == op[v].key
    <3>1. fence'[v] = fence[v] /\ ~orphan[v]
      BY <1>0, <1>2, <2>3 DEF BeginAcquired, TypeOK
    <3>2. j \in Keys
      BY <1>0, <2>3, <3>1 DEF TypeOK, AttemptShape, Steps
    <3>3. /\ Present(records[j])
          /\ records[j].fence > fence[v] \/ (records[j].fence = fence[v] /\ holder[j] = v)
      BY <2>3, <3>1 DEF FenceInv, FenceWitnessesClaim, Claiming, RowOf
    <3>4. /\ Present(records'[j])
          /\ \/ records'[j].fence > records[j].fence
             \/ records'[j].fence = records[j].fence /\ holder'[j] = holder[j]
      BY <1>0, <1>2, <3>2, <3>3, BeginRaisesFence DEF BeginAcquired
    <3>5. fence[v] \in Nat /\ records[j].fence \in Nat /\ records'[j].fence \in Nat
      BY <1>0, <3>2 DEF TypeOK, Row
    <3> QED BY <2>1, <3>1, <3>3, <3>4, <3>5
  <2> QED BY <2>1, <2>2, <2>3 DEF FenceWitnessesClaim, Claiming, RowOf
<1>3. ASSUME NEW w \in Workers, BeginRefused(w) PROVE FenceWitnessesClaim'
  BY <1>0, <1>3, <1>a, FenceKept DEF BeginRefused
<1>4. ASSUME NEW w \in Workers, BeginError(w) PROVE FenceWitnessesClaim'
  <2>1. \A v \in Workers : fence'[v] # 0 => fence'[v] = fence[v] /\ op'[v] = op[v]
    BY <1>4, <1>a DEF BeginError
  <2>2. \A k \in Keys : Present(records[k]) =>
          /\ Present(records'[k])
          /\ \/ records'[k].fence > records[k].fence
             \/ records'[k].fence = records[k].fence /\ holder'[k] = holder[k]
    BY <1>0, <1>4, BeginRaisesFence DEF BeginError
  <2> QED BY <1>0, <1>4, <2>1, <2>2, FenceKept DEF BeginError
<1>5. ASSUME NEW w \in Workers, BeginResent(w) PROVE FenceWitnessesClaim'
  <2>1. \A k \in Keys : Present(records[k]) =>
          /\ Present(records'[k])
          /\ \/ records'[k].fence > records[k].fence
             \/ records'[k].fence = records[k].fence /\ holder'[k] = holder[k]
    BY <1>0, <1>5, BeginRaisesFence DEF BeginResent
  <2> QED BY <1>0, <1>5, <2>1, FenceKept DEF BeginResent, worker
<1>6. ASSUME NEW w \in Workers, RunUnclaimed(w) PROVE FenceWitnessesClaim'
  <2>1. \A v \in Workers : fence'[v] # 0 => fence'[v] = fence[v] /\ op'[v] = op[v]
    BY <1>6, <1>a DEF RunUnclaimed
  <2> QED BY <1>0, <1>6, <2>1, FenceKept DEF RunUnclaimed
<1>7. ASSUME NEW w \in Workers, RunStored(w) \/ RunFailed(w) PROVE FenceWitnessesClaim'
  BY <1>0, <1>7, FenceKept DEF RunStored, RunFailed
<1>8. ASSUME NEW w \in Workers, StoreResultThrows(w) \/ Crash(w) PROVE FenceWitnessesClaim'
  <2>1. \A v \in Workers : fence'[v] # 0 => v # w /\ fence'[v] = fence[v] /\ op'[v] = op[v]
    BY <1>8, <1>a DEF StoreResultThrows, Crash
  <2>2. \A v \in Workers : v # w => orphan'[v] = orphan[v]
    BY <1>0, <1>8 DEF StoreResultThrows, Crash, TypeOK
  <2> QED BY <1>0, <1>8, <2>1, <2>2, FenceKept DEF StoreResultThrows, Crash
<1>9. ASSUME NEW w \in Workers, Complete(w) \/ CompleteError(w) PROVE FenceWitnessesClaim'
  <2>1. \A v \in Workers : fence'[v] # 0 => v # w /\ fence'[v] = fence[v] /\ op'[v] = op[v]
    BY <1>9, <1>a DEF Complete, CompleteError
  <2>2. \A v \in Workers : v # w => orphan'[v] = orphan[v]
    BY <1>0, <1>9 DEF Complete, CompleteError, TypeOK
  <2>3. \A k \in Keys : Present(records[k]) =>
          Present(records'[k]) /\ records'[k].fence = records[k].fence
    BY <1>0, <1>9, CompleteKeepsFence DEF Complete, CompleteError
  <2> QED BY <1>0, <1>9, <2>1, <2>2, <2>3, FenceKept DEF Complete, CompleteError
<1>10. ASSUME NEW w \in Workers, CompleteResent(w) PROVE FenceWitnessesClaim'
  <2>1. \A k \in Keys : Present(records[k]) =>
          Present(records'[k]) /\ records'[k].fence = records[k].fence
    BY <1>0, <1>10, CompleteKeepsFence DEF CompleteResent
  <2> QED BY <1>0, <1>10, <2>1, FenceKept DEF CompleteResent, worker
<1>11. ASSUME NEW w \in Workers, ApplyAbandon(w), op[w].key \in Keys,
              \A v \in Workers : fence'[v] # 0 => fence'[v] = fence[v] /\ op'[v] = op[v]
       PROVE  FenceWitnessesClaim'
  <2> DEFINE k == op[w].key
             gone == IF AbandonStatus(records[k], fence[w]) = "ok" THEN {k} ELSE {}
  <2>1. orphan' = Orphaned(gone)
    BY <1>11 DEF ApplyAbandon
  <2>2. \A j \in Keys \ gone : records'[j] = records[j] /\ holder'[j] = holder[j]
    BY <1>0, <1>11 DEF ApplyAbandon, AbandonedRow, TypeOK
  <2>3. gone \in SUBSET Keys
    BY <1>11
  <2> HIDE DEF gone
  <2> QED BY <1>0, <1>11, <2>1, <2>2, <2>3, RemovalOrphans
<1>12. ASSUME NEW w \in Workers, Abandon(w) \/ AbandonError(w) PROVE FenceWitnessesClaim'
  <2>1. \A v \in Workers : fence'[v] # 0 => v # w /\ fence'[v] = fence[v] /\ op'[v] = op[v]
    BY <1>12, <1>a DEF Abandon, AbandonError
  <2>2. CASE ApplyAbandon(w)
    BY <1>0, <1>11, <1>12, <2>1, <2>2 DEF Abandon, AbandonError, AttemptShape
  <2>3. CASE UNCHANGED <<records, holder, orphan>>
    BY <1>0, <2>1, <2>3, FenceKept
  <2> QED BY <1>12, <2>2, <2>3 DEF Abandon, AbandonError
<1>13. ASSUME NEW w \in Workers, AbandonResent(w) PROVE FenceWitnessesClaim'
  BY <1>0, <1>11, <1>13 DEF AbandonResent, worker, AttemptShape
<1>14. ASSUME Tick PROVE FenceWitnessesClaim'
  BY <1>0, <1>14, FenceKept DEF Tick, worker
<1>15. ASSUME NEW ks \in SUBSET Keys, NEW purged, RemoveRows(ks, purged),
              \A k \in ks : Present(records[k]) =>
                  ~Present(purged[k]) \/ purged[k] = records[k]
       PROVE  FenceWitnessesClaim'
  <2> DEFINE gone == {k \in ks : Present(records[k]) /\ ~Present(purged[k])}
  <2>1. orphan' = Orphaned(gone) /\ gone \in SUBSET Keys
    BY <1>15 DEF RemoveRows
  <2>2. \A j \in Keys \ gone : Present(records[j]) =>
          records'[j] = records[j] /\ holder'[j] = holder[j]
    BY <1>15 DEF RemoveRows
  <2>3. UNCHANGED <<op, fence>>
    BY <1>15 DEF RemoveRows, worker
  <2> HIDE DEF gone
  <2> QED BY <1>0, <2>1, <2>2, <2>3, RemovalOrphans
<1>16. ASSUME Purge PROVE FenceWitnessesClaim'
  <2>1. PICK r \in Readings : RemoveRows(Keys, [k \in Keys |-> PurgedRow(records[k], r)])
    BY <1>16 DEF Purge
  <2>2. \A k \in Keys : ~Present(PurgedRow(records[k], r)) \/ PurgedRow(records[k], r) = records[k]
    BY DEF PurgedRow, Present, Absent
  <2> QED BY <1>15, <2>1, <2>2
<1>17. ASSUME NEW ks \in SUBSET Keys, NativeSweep(ks) PROVE FenceWitnessesClaim'
  <2>1. RemoveRows(ks, [j \in Keys |-> Absent]) /\ ~Present(Absent)
    BY <1>17 DEF NativeSweep, Present, Absent
  <2> QED BY <1>15, <2>1
<1>18. CASE UNCHANGED vars
  BY <1>0, <1>18, FenceKept DEF vars
<1> QED BY <1>1, <1>2, <1>3, <1>4, <1>5, <1>6, <1>7, <1>8, <1>9, <1>10, <1>12, <1>13,
          <1>14, <1>16, <1>17, <1>18 DEF Next, WorkerStep, Fault

\* FenceInv is an invariant of the engine.
LEMMA FenceInvariant == Spec => []FenceInv
<1>1. Init => FenceInv
  BY TypeInit DEF Init, FenceInv, FenceWitnessesClaim, Claiming
<1> QED BY <1>1, FenceStep, PTL DEF Spec

\* Whatever crashes, is lost, sent twice or late, and however far clocks are
\* off: the fence tells a superseded worker from the holder until a row is
\* deleted.
THEOREM FencingCorrect == Spec => []FenceWitnessesClaim
<1>1. FenceInv => FenceWitnessesClaim
  BY DEF FenceInv
<1> QED BY <1>1, FenceInvariant, PTL

-----------------------------------------------------------------------------
(* What follows for late writers.                                          *)

\* The row of k when w's complete is applied: only a live row in flight under
\* w's fence becomes completed, and then with w's result.
LEMMA CompletionEffect ==
    ASSUME FenceInv, NEW w \in Workers, pc[w] = "complete", ApplyComplete(w),
           NEW k \in Keys, records[k].state = "in_flight", records'[k].state = "completed"
    PROVE  /\ records'[k].result.by = w
           /\ holder[k] = w \/ orphan[w]
<1>1. k = op[w].key /\ records'[k] = CompletedRow(records[k], fence[w], sent[w].at, sent[w].result)
  BY DEF ApplyComplete, FenceInv, TypeInv, TypeOK
<1>2. /\ CompleteStatus(records[k], fence[w], sent[w].at) = "ok"
      /\ records'[k] = [records[k] EXCEPT !.state = "completed", !.result = sent[w].result]
  BY <1>1 DEF CompletedRow
<1>3. Live(records[k], sent[w].at) /\ records[k].fence = fence[w]
  BY <1>2 DEF CompleteStatus
<1>4. fence[w] \in Nat
  BY DEF FenceInv, TypeInv, TypeOK
<1>5. records[k] \in Row(Results)
  BY DEF FenceInv, TypeInv, TypeOK
<1>6. records'[k].result = sent[w].result
  BY <1>2, <1>5 DEF Row
<1>7. records'[k].result.by = w
  BY <1>6 DEF FenceInv, TypeInv, AttemptShape
<1>8. ASSUME ~orphan[w], fence[w] # 0 PROVE holder[k] = w
  BY <1>1, <1>3, <1>4, <1>8 DEF FenceInv, FenceWitnessesClaim, Claiming, RowOf
<1>9. fence[w] # 0
  BY DEF FenceInv, TypeInv, AttemptShape
<1> QED BY <1>7, <1>8, <1>9

\* No other call of the store completes a row.
LEMMA OnlyCompleteCompletes ==
    ASSUME FenceInv, [Next]_vars, NEW k \in Keys,
           records[k].state = "in_flight", records'[k].state = "completed"
    PROVE  \E w \in Workers : pc[w] = "complete" /\ ApplyComplete(w)
<1>0. TypeInv /\ TypeOK /\ AttemptShape
  BY DEF FenceInv, TypeInv
<1>1. ASSUME NEW w \in Workers, ApplyBegin(w) PROVE FALSE
  BY <1>0, <1>1 DEF ApplyBegin, ClaimedRow, TypeOK
<1>2. ASSUME NEW w \in Workers, ApplyAbandon(w) PROVE FALSE
  BY <1>0, <1>2 DEF ApplyAbandon, AbandonedRow, Absent, TypeOK
<1>3. ASSUME NEW ks, NEW purged, RemoveRows(ks, purged),
             \A j \in Keys : j \in ks => purged[j] \in {records[j], Absent}
      PROVE  FALSE
  BY <1>3 DEF RemoveRows, Absent
<1>4. ASSUME Purge PROVE FALSE
  <2>1. PICK r \in Readings : RemoveRows(Keys, [j \in Keys |-> PurgedRow(records[j], r)])
    BY <1>4 DEF Purge
  <2>2. \A j \in Keys : PurgedRow(records[j], r) \in {records[j], Absent}
    BY DEF PurgedRow
  <2> QED BY <1>3, <2>1, <2>2
<1>5. ASSUME NEW ks \in SUBSET Keys, NativeSweep(ks) PROVE FALSE
  BY <1>3, <1>5 DEF NativeSweep
<1>6. ~Tick /\ ~UNCHANGED vars
  BY DEF Tick, vars
<1>7. \A w \in Workers, j \in Keys, f \in Fingerprints : ~Request(w, j, f)
  BY DEF Request
<1>8. ASSUME NEW w \in Workers, WorkerStep(w)
      PROVE  pc[w] = "complete" /\ ApplyComplete(w)
  BY <1>1, <1>2, <1>8 DEF WorkerStep, BeginAcquired, BeginRefused, RunUnclaimed,
                          RunStored, RunFailed, Complete, Abandon
<1>9. ASSUME NEW w \in Workers, Fault(w)
      PROVE  pc[w] = "complete" /\ ApplyComplete(w)
  BY <1>1, <1>2, <1>9 DEF Fault, BeginError, BeginResent, StoreResultThrows,
                          CompleteError, CompleteResent, AbandonError, AbandonResent, Crash
<1> QED BY <1>4, <1>5, <1>6, <1>7, <1>8, <1>9 DEF Next

\* A worker that outlived its lease can write into another worker's row only
\* after a row was deleted under it.
THEOREM LateWriters == Spec => LateWriterFenced
<1>1. ASSUME FenceInv, [Next]_vars
      PROVE  \A k \in Keys :
               records[k].state = "in_flight" /\ records'[k].state = "completed" =>
                   \/ records'[k].result.by = holder[k]
                   \/ orphan[records'[k].result.by]
  BY <1>1, CompletionEffect, OnlyCompleteCompletes
<1> QED BY <1>1, FenceInvariant, PTL DEF Spec, LateWriterFenced

-----------------------------------------------------------------------------
(* Attempts that end within their lease.  Then a claim is never superseded *)
(* at all: while an attempt lasts, no clock shows the end of its lease or  *)
(* of its row's life, so begin refuses everyone else and purge leaves the  *)
(* row alone.                                                              *)

\* No attempt outlives its lease, no call is sent twice, and a lease is
\* longer than the clocks are apart.
WithinLease == ~Overrun /\ ~Resend /\ 2 * Skew < Lease /\ 2 * Skew < Ttl

\* No clock has reached the end of an attempt's lease or of its row's life.
Timely ==
    \A w \in Workers : pc[w] # "idle" =>
        /\ op[w].begunAt <= clock + Skew
        /\ clock + Skew < op[w].begunAt + Lease
        /\ clock + Skew < op[w].begunAt + Ttl

\* The row of a claim is exactly as the claim's own begin wrote it.
ClaimHeld ==
    \A w \in Workers : Claiming(w) =>
        /\ RowOf(w).state = "in_flight"
        /\ RowOf(w).fence = fence[w]
        /\ RowOf(w).fingerprint = op[w].fingerprint
        /\ RowOf(w).leaseUntil = op[w].begunAt + Lease
        /\ RowOf(w).expiresAt = op[w].begunAt + Ttl
        /\ holder[op[w].key] = w

LeaseInv == TypeInv /\ Timely /\ ClaimHeld /\ ReplayMatchesPayload /\ StoredByHolder

\* A claim is on a key.
LEMMA ClaimKey ==
    ASSUME LeaseInv, NEW w \in Workers, Claiming(w)
    PROVE  pc[w] # "idle" /\ op[w].key \in Keys
BY DEF LeaseInv, TypeInv, TypeOK, AttemptShape, Claiming, Steps

\* begin refuses whoever asks for a key that is claimed.
LEMMA ClaimRefusesOthers ==
    ASSUME LeaseInv, NEW v \in Workers, pc[v] = "begin",
           NEW w \in Workers, Claiming(w), op[v].key = op[w].key
    PROVE  Outcome(v) # "acquired"
<1>1. pc[w] # "idle"
  BY DEF LeaseInv, TypeInv, AttemptShape, Claiming
<1>2. /\ op[v].begunAt \in Int /\ op[w].begunAt \in Int /\ clock \in Nat
      /\ RowOf(v) = RowOf(w)
  BY DEF LeaseInv, TypeInv, TypeOK, RowOf
<1>3. op[v].begunAt < op[w].begunAt + Lease /\ op[v].begunAt < op[w].begunAt + Ttl
  BY <1>1, <1>2, SkewAssumption, LeaseAssumption, TtlAssumption DEF LeaseInv, Timely
<1>4. /\ RowOf(v).state = "in_flight"
      /\ RowOf(v).leaseUntil > op[v].begunAt
      /\ RowOf(v).expiresAt > op[v].begunAt
  BY <1>2, <1>3, LeaseAssumption, TtlAssumption DEF LeaseInv, ClaimHeld
<1>5. Live(RowOf(v), op[v].begunAt)
  BY <1>4 DEF Live, Present
<1> QED BY <1>4, <1>5 DEF Outcome, BeginOutcome

\* Steps that drop claims or leave them, and leave the rows of those that
\* remain, keep the rows of all claims.
LEMMA ClaimHeldKept ==
    ASSUME LeaseInv,
           \A w \in Workers : fence'[w] # 0 =>
               /\ fence'[w] = fence[w] /\ op'[w] = op[w]
               /\ records'[op[w].key] = records[op[w].key]
               /\ holder'[op[w].key] = holder[op[w].key]
    PROVE  ClaimHeld'
BY DEF LeaseInv, ClaimHeld, Claiming, RowOf

\* Attempts that end or go on while the clock stands still stay timely.
LEMMA TimelyKept ==
    ASSUME LeaseInv, clock' = clock,
           \A w \in Workers : pc'[w] # "idle" => pc[w] # "idle" /\ op'[w] = op[w]
    PROVE  Timely'
BY DEF LeaseInv, Timely

\* An applied begin leaves every claimed row alone, and the completed rows.
LEMMA BeginLeavesClaims ==
    ASSUME LeaseInv, NEW v \in Workers, pc[v] = "begin",
           ApplyBegin(v) \/ UNCHANGED <<records, holder>>
    PROVE  /\ \A w \in Workers : Claiming(w) =>
                /\ records'[op[w].key] = records[op[w].key]
                /\ holder'[op[w].key] = holder[op[w].key]
           /\ ReplayMatchesPayload' /\ StoredByHolder'
<1>1. \A w \in Workers : Claiming(w) =>
        /\ records'[op[w].key] = records[op[w].key]
        /\ holder'[op[w].key] = holder[op[w].key]
  <2> SUFFICES ASSUME NEW w \in Workers, Claiming(w)
               PROVE  /\ records'[op[w].key] = records[op[w].key]
                      /\ holder'[op[w].key] = holder[op[w].key]
    OBVIOUS
  <2>1. op[w].key \in Keys
    BY ClaimKey
  <2>2. CASE Outcome(v) = "acquired"
    <3>1. op[v].key # op[w].key
      BY <2>2, ClaimRefusesOthers
    <3> QED BY <2>1, <2>2, <3>1 DEF ApplyBegin, LeaseInv, TypeInv, TypeOK
  <2>3. CASE Outcome(v) # "acquired"
    BY <2>3 DEF ApplyBegin
  <2> QED BY <2>2, <2>3
<1>2. \A k \in Keys : records'[k].state = "completed" =>
        records'[k] = records[k] /\ holder'[k] = holder[k]
  BY DEF ApplyBegin, ClaimedRow, LeaseInv, TypeInv, TypeOK
<1>3. ReplayMatchesPayload' /\ StoredByHolder'
  BY <1>2 DEF LeaseInv, ReplayMatchesPayload, StoredByHolder
<1> QED BY <1>1, <1>3

\* Two claims are never on one key.
LEMMA ClaimsApart ==
    ASSUME LeaseInv, NEW v \in Workers, NEW w \in Workers, v # w, Claiming(v), Claiming(w)
    PROVE  op[v].key # op[w].key
BY DEF LeaseInv, ClaimHeld

\* An applied complete stores the claim's own result and touches no other row.
LEMMA CompleteOwn ==
    ASSUME LeaseInv, NEW v \in Workers, pc[v] = "complete",
           ApplyComplete(v) \/ UNCHANGED records, UNCHANGED holder
    PROVE  /\ \A w \in Workers : Claiming(w) /\ w # v =>
                records'[op[w].key] = records[op[w].key]
           /\ ReplayMatchesPayload' /\ StoredByHolder'
<1> DEFINE k == op[v].key
<1>1. /\ Claiming(v) /\ k \in Keys /\ records[k] \in Row(Results)
      /\ sent[v].result.by = v /\ sent[v].result.of = op[v].fingerprint
      /\ holder[k] = v /\ records[k].fingerprint = op[v].fingerprint
  BY DEF LeaseInv, TypeInv, TypeOK, AttemptShape, ClaimHeld, Claiming, RowOf
<1>2. \A w \in Workers : Claiming(w) /\ w # v => records'[op[w].key] = records[op[w].key]
  <2> SUFFICES ASSUME NEW w \in Workers, Claiming(w), w # v
               PROVE  records'[op[w].key] = records[op[w].key]
    OBVIOUS
  <2>1. op[w].key # k /\ op[w].key \in Keys
    BY <1>1, ClaimsApart, ClaimKey
  <2> QED BY <2>1 DEF ApplyComplete, LeaseInv, TypeInv, TypeOK
<1>3. \/ records'[k] = records[k]
      \/ /\ records'[k].fingerprint = records[k].fingerprint
         /\ records'[k].result = sent[v].result
  <2>1. \A row \in Row(Results) : \A fc, now, res :
          \/ CompletedRow(row, fc, now, res) = row
          \/ /\ CompletedRow(row, fc, now, res).fingerprint = row.fingerprint
             /\ CompletedRow(row, fc, now, res).result = res
    BY DEF CompletedRow, Row
  <2> QED BY <1>1, <2>1 DEF ApplyComplete, LeaseInv, TypeInv, TypeOK
<1>4. \A j \in Keys : j # k => records'[j] = records[j]
  BY DEF ApplyComplete, LeaseInv, TypeInv, TypeOK
<1>5. ReplayMatchesPayload' /\ StoredByHolder'
  BY <1>1, <1>3, <1>4 DEF LeaseInv, ReplayMatchesPayload, StoredByHolder
<1> QED BY <1>2, <1>5

\* An applied abandon deletes at most the row of its own claim.
LEMMA AbandonOwn ==
    ASSUME LeaseInv, NEW v \in Workers, pc[v] = "abandon",
           ApplyAbandon(v) \/ UNCHANGED <<records, holder>>
    PROVE  /\ \A w \in Workers : Claiming(w) /\ w # v =>
                /\ records'[op[w].key] = records[op[w].key]
                /\ holder'[op[w].key] = holder[op[w].key]
           /\ ReplayMatchesPayload' /\ StoredByHolder'
<1> DEFINE k == op[v].key
<1>1. Claiming(v) /\ k \in Keys
  BY DEF LeaseInv, TypeInv, AttemptShape, Claiming
<1>2. \A j \in Keys : j # k => records'[j] = records[j] /\ holder'[j] = holder[j]
  BY <1>1 DEF ApplyAbandon, LeaseInv, TypeInv, TypeOK
<1>3. records'[k] = Absent \/ (records'[k] = records[k] /\ holder'[k] = holder[k])
  BY <1>1 DEF ApplyAbandon, AbandonedRow, LeaseInv, TypeInv, TypeOK
<1>4. \A w \in Workers : Claiming(w) /\ w # v => op[w].key \in Keys /\ op[w].key # k
  BY <1>1, ClaimsApart DEF LeaseInv, TypeInv, TypeOK, AttemptShape, Claiming, Steps
<1>5. ReplayMatchesPayload' /\ StoredByHolder'
  BY <1>2, <1>3 DEF LeaseInv, ReplayMatchesPayload, StoredByHolder, Absent
<1> QED BY <1>2, <1>4, <1>5

\* What remains true of claims when rows are deleted for their age.
LEMMA RemovalLeavesClaims ==
    ASSUME LeaseInv, NEW ks, NEW purged, RemoveRows(ks, purged),
           \A k \in Keys : k \in ks => purged[k] \in {records[k], Absent},
           \A k \in Keys : k \in ks /\ Present(records[k]) /\ purged[k] # records[k] =>
               records[k].expiresAt <= clock + Skew
    PROVE  ClaimHeld' /\ ReplayMatchesPayload' /\ StoredByHolder'
<1>1. \A k \in Keys : \/ records'[k] = Absent
                      \/ records'[k] = records[k] /\ (Present(records[k]) => holder'[k] = holder[k])
  BY DEF RemoveRows, Absent, Present
<1>2. ReplayMatchesPayload' /\ StoredByHolder'
  BY <1>1 DEF LeaseInv, ReplayMatchesPayload, StoredByHolder, Present, Absent
<1>3. ASSUME NEW w \in Workers, Claiming(w)
      PROVE  records'[op[w].key] = records[op[w].key] /\ holder'[op[w].key] = holder[op[w].key]
  <2> DEFINE k == op[w].key
  <2>1. k \in Keys /\ pc[w] # "idle"
    BY <1>3, ClaimKey
  <2>2. records[k].expiresAt > clock + Skew
    BY <1>3, <2>1, SkewAssumption, TtlAssumption
    DEF LeaseInv, TypeInv, TypeOK, Timely, ClaimHeld, RowOf
  <2>3. Present(records[k])
    BY <1>3 DEF LeaseInv, ClaimHeld, RowOf, Present
  <2>4. k \in ks => purged[k] = records[k]
    <3>1. records[k].expiresAt \in Int /\ clock \in Int
      BY <2>1 DEF LeaseInv, TypeInv, TypeOK, Row
    <3> QED BY <2>1, <2>2, <2>3, <3>1, SkewAssumption
  <2>5. records'[k] = records[k]
    BY <2>1, <2>4 DEF RemoveRows
  <2> QED BY <2>1, <2>3, <2>5 DEF RemoveRows
<1>4. UNCHANGED <<fence, op>>
  BY DEF RemoveRows, worker
<1>5. ClaimHeld'
  BY <1>3, <1>4, ClaimHeldKept DEF Claiming
<1> QED BY <1>2, <1>5

\* Every step keeps the rows of claims as their begin wrote them.
LEMMA LeaseStep ==
    ASSUME WithinLease, LeaseInv, [Next]_vars
    PROVE  LeaseInv'
<1>0. TypeInv /\ TypeInv' /\ TypeOK /\ TypeOK' /\ AttemptShape
  BY TypeStep DEF LeaseInv, TypeInv
<1> SUFFICES Timely' /\ ClaimHeld' /\ ReplayMatchesPayload' /\ StoredByHolder'
  BY <1>0 DEF LeaseInv
<1>a. ASSUME NEW w \in Workers, NEW answer, Return(w, answer), clock' = clock
      PROVE  /\ Timely'
             /\ \A v \in Workers : fence'[v] # 0 =>
                  v # w /\ fence'[v] = fence[v] /\ op'[v] = op[v]
  <2>1. \A v \in Workers : pc'[v] # "idle" => pc[v] # "idle" /\ op'[v] = op[v]
    BY <1>0, <1>a DEF Return, TypeOK
  <2>2. \A v \in Workers : fence'[v] # 0 => v # w /\ fence'[v] = fence[v] /\ op'[v] = op[v]
    BY <1>0, <1>a DEF Return, TypeOK
  <2> QED BY <1>a, <2>1, <2>2, TimelyKept
<1>b. ASSUME UNCHANGED <<records, holder>> PROVE ReplayMatchesPayload' /\ StoredByHolder'
  BY <1>b DEF LeaseInv, ReplayMatchesPayload, StoredByHolder
<1>1. ASSUME NEW w \in Workers, NEW k \in Keys, NEW f \in Fingerprints, Request(w, k, f)
      PROVE  Timely' /\ ClaimHeld' /\ ReplayMatchesPayload' /\ StoredByHolder'
  <2>1. PICK r \in Readings :
          op' = [op EXCEPT ![w] = [key |-> k, fingerprint |-> f, begunAt |-> r]]
    BY <1>1 DEF Request
  <2>2. /\ r \in Int /\ r <= clock + Skew
        /\ clock + Skew < r + Lease /\ clock + Skew < r + Ttl
    BY <1>0, <2>1, SkewAssumption, LeaseAssumption, TtlAssumption
    DEF Readings, TypeOK, WithinLease
  <2>3. Timely'
    <3>1. op'[w].begunAt = r /\ clock' = clock
      BY <1>0, <1>1, <2>1 DEF Request, TypeOK
    <3>2. \A v \in Workers : v # w => op'[v] = op[v] /\ pc'[v] = pc[v]
      BY <1>0, <1>1, <2>1 DEF Request, TypeOK
    <3> QED BY <2>2, <3>1, <3>2 DEF LeaseInv, Timely
  <2>4. \A v \in Workers : fence'[v] # 0 => fence'[v] = fence[v] /\ op'[v] = op[v]
    BY <1>0, <1>1 DEF Request, TypeOK, AttemptShape
  <2> QED BY <1>1, <1>b, <2>3, <2>4, ClaimHeldKept DEF Request
<1>2. ASSUME NEW w \in Workers, BeginAcquired(w)
      PROVE  Timely' /\ ClaimHeld' /\ ReplayMatchesPayload' /\ StoredByHolder'
  <2>1. /\ \A v \in Workers : Claiming(v) =>
             /\ records'[op[v].key] = records[op[v].key]
             /\ holder'[op[v].key] = holder[op[v].key]
        /\ ReplayMatchesPayload' /\ StoredByHolder'
    BY <1>2, BeginLeavesClaims DEF BeginAcquired
  <2>2. Timely'
    BY <1>0, <1>2, TimelyKept DEF BeginAcquired, TypeOK
  <2>3. /\ op' = op
        /\ \A v \in Workers : v # w => fence'[v] = fence[v]
        /\ fence'[w] = records'[op[w].key].fence
    BY <1>0, <1>2 DEF BeginAcquired, TypeOK
  <2>4. /\ records'[op[w].key] = ClaimedRow(RowOf(w), op[w].fingerprint, op[w].begunAt)
        /\ holder'[op[w].key] = w
    BY <1>0, <1>2 DEF BeginAcquired, ApplyBegin, RowOf, TypeOK, AttemptShape
  <2>5. ASSUME NEW v \in Workers, fence'[v] # 0
        PROVE  /\ records'[op'[v].key].state = "in_flight"
               /\ records'[op'[v].key].fence = fence'[v]
               /\ records'[op'[v].key].fingerprint = op'[v].fingerprint
               /\ records'[op'[v].key].leaseUntil = op'[v].begunAt + Lease
               /\ records'[op'[v].key].expiresAt = op'[v].begunAt + Ttl
               /\ holder'[op'[v].key] = v
    <3>1. CASE v = w
      BY <2>3, <2>4, <3>1 DEF ClaimedRow
    <3>2. CASE v # w
      BY <2>1, <2>3, <2>5, <3>2 DEF LeaseInv, ClaimHeld, Claiming, RowOf
    <3> QED BY <3>1, <3>2
  <2>6. ClaimHeld'
    BY <2>5 DEF ClaimHeld, Claiming, RowOf
  <2> QED BY <2>1, <2>2, <2>6
<1>3. ASSUME NEW w \in Workers, BeginRefused(w)
      PROVE  Timely' /\ ClaimHeld' /\ ReplayMatchesPayload' /\ StoredByHolder'
  BY <1>3, <1>a, <1>b, ClaimHeldKept DEF BeginRefused
<1>4. ASSUME NEW w \in Workers, BeginError(w)
      PROVE  Timely' /\ ClaimHeld' /\ ReplayMatchesPayload' /\ StoredByHolder'
  <2>1. \A v \in Workers : fence'[v] # 0 => fence'[v] = fence[v] /\ op'[v] = op[v]
    BY <1>4, <1>a DEF BeginError
  <2>2. Timely'
    <3>1. CASE FailOpen
      BY <1>0, <1>4, <3>1, TimelyKept DEF BeginError, TypeOK
    <3>2. CASE ~FailOpen
      BY <1>4, <1>a, <3>2 DEF BeginError
    <3> QED BY <3>1, <3>2
  <2>3. /\ \A v \in Workers : Claiming(v) =>
             /\ records'[op[v].key] = records[op[v].key]
             /\ holder'[op[v].key] = holder[op[v].key]
        /\ ReplayMatchesPayload' /\ StoredByHolder'
    BY <1>4, BeginLeavesClaims DEF BeginError
  <2>4. ClaimHeld'
    BY <2>1, <2>3, ClaimHeldKept DEF Claiming
  <2> QED BY <2>2, <2>3, <2>4
<1>5. ASSUME NEW w \in Workers, RunUnclaimed(w)
      PROVE  Timely' /\ ClaimHeld' /\ ReplayMatchesPayload' /\ StoredByHolder'
  <2>1. PICK answer : Return(w, answer) /\ UNCHANGED <<clock, records, holder>>
    BY <1>5 DEF RunUnclaimed
  <2> QED BY <1>a, <1>b, <2>1, ClaimHeldKept
<1>6. ASSUME NEW w \in Workers, RunStored(w) \/ RunFailed(w)
      PROVE  Timely' /\ ClaimHeld' /\ ReplayMatchesPayload' /\ StoredByHolder'
  <2>1. UNCHANGED <<clock, records, op, fence, holder>> /\ pc[w] = "run"
    BY <1>6 DEF RunStored, RunFailed
  <2>2. \A v \in Workers : pc'[v] # "idle" => pc[v] # "idle"
    BY <1>0, <1>6, <2>1 DEF RunStored, RunFailed, TypeOK
  <2> QED BY <1>b, <2>1, <2>2, ClaimHeldKept, TimelyKept
<1>7. ASSUME NEW w \in Workers, StoreResultThrows(w) \/ Crash(w)
      PROVE  Timely' /\ ClaimHeld' /\ ReplayMatchesPayload' /\ StoredByHolder'
  <2>1. PICK answer : Return(w, answer) /\ UNCHANGED <<clock, records, holder>>
    BY <1>7 DEF StoreResultThrows, Crash
  <2> QED BY <1>a, <1>b, <2>1, ClaimHeldKept
<1>8. ASSUME NEW w \in Workers, Complete(w) \/ CompleteError(w)
      PROVE  Timely' /\ ClaimHeld' /\ ReplayMatchesPayload' /\ StoredByHolder'
  <2>1. PICK answer : Return(w, answer) /\ UNCHANGED <<clock, holder>>
    BY <1>8 DEF Complete, CompleteError
  <2>2. /\ \A v \in Workers : Claiming(v) /\ v # w =>
             records'[op[v].key] = records[op[v].key]
        /\ ReplayMatchesPayload' /\ StoredByHolder'
    BY <1>8, CompleteOwn DEF Complete, CompleteError
  <2>3. Timely' /\ \A v \in Workers : fence'[v] # 0 =>
                     v # w /\ fence'[v] = fence[v] /\ op'[v] = op[v]
    BY <1>a, <2>1
  <2>4. ClaimHeld'
    BY <2>1, <2>2, <2>3, ClaimHeldKept DEF Claiming
  <2> QED BY <2>2, <2>3, <2>4
<1>9. ASSUME NEW w \in Workers, Abandon(w) \/ AbandonError(w)
      PROVE  Timely' /\ ClaimHeld' /\ ReplayMatchesPayload' /\ StoredByHolder'
  <2>1. Return(w, out[w]) /\ UNCHANGED clock
    BY <1>9 DEF Abandon, AbandonError
  <2>2. /\ \A v \in Workers : Claiming(v) /\ v # w =>
             /\ records'[op[v].key] = records[op[v].key]
             /\ holder'[op[v].key] = holder[op[v].key]
        /\ ReplayMatchesPayload' /\ StoredByHolder'
    BY <1>9, AbandonOwn DEF Abandon, AbandonError
  <2>3. Timely' /\ \A v \in Workers : fence'[v] # 0 =>
                     v # w /\ fence'[v] = fence[v] /\ op'[v] = op[v]
    BY <1>a, <2>1
  <2>4. ClaimHeld'
    BY <2>2, <2>3, ClaimHeldKept DEF Claiming
  <2> QED BY <2>2, <2>3, <2>4
<1>10. ASSUME NEW w \in Workers, BeginResent(w) \/ CompleteResent(w) \/ AbandonResent(w)
       PROVE  FALSE
  BY <1>10 DEF WithinLease, BeginResent, CompleteResent, AbandonResent
<1>11. ASSUME Tick
       PROVE  Timely' /\ ClaimHeld' /\ ReplayMatchesPayload' /\ StoredByHolder'
  <2>1. UNCHANGED <<records, pc, op, fence, holder>> /\ clock' = clock + 1
    BY <1>11 DEF Tick, worker
  <2>2. \A w \in Workers : pc[w] # "idle" => clock + 1 + Skew < ClaimEnd(w)
    BY <1>11 DEF Tick, WithinLease
  <2>3. ASSUME NEW w \in Workers, pc[w] # "idle"
        PROVE  /\ op[w].begunAt <= clock' + Skew
               /\ clock' + Skew < op[w].begunAt + Lease
               /\ clock' + Skew < op[w].begunAt + Ttl
    <3>1. op[w].begunAt \in Int /\ clock \in Int /\ op[w].begunAt <= clock + Skew
      BY <1>0, <2>3 DEF TypeOK, LeaseInv, Timely
    <3> QED BY <2>1, <2>2, <2>3, <3>1, SkewAssumption, LeaseAssumption, TtlAssumption
            DEF ClaimEnd
  <2>4. Timely'
    BY <2>1, <2>3 DEF Timely
  <2> QED BY <1>b, <2>1, <2>4, ClaimHeldKept
<1>12. ASSUME NEW ks, NEW purged, RemoveRows(ks, purged) PROVE Timely'
  BY <1>12, TimelyKept DEF RemoveRows, worker
<1>13. ASSUME Purge
       PROVE  Timely' /\ ClaimHeld' /\ ReplayMatchesPayload' /\ StoredByHolder'
  <2>1. PICK r \in Readings : RemoveRows(Keys, [k \in Keys |-> PurgedRow(records[k], r)])
    BY <1>13 DEF Purge
  <2>2. \A k \in Keys : PurgedRow(records[k], r) \in {records[k], Absent}
    BY DEF PurgedRow
  <2>3. ASSUME NEW k \in Keys, Present(records[k]), PurgedRow(records[k], r) # records[k]
        PROVE  records[k].expiresAt <= clock + Skew
    <3>1. r \in Int /\ r <= clock + Skew /\ clock \in Int /\ records[k].expiresAt \in Int
      BY <1>0, <2>1, SkewAssumption DEF Readings, TypeOK, Row
    <3> QED BY <2>3, <3>1, SkewAssumption DEF PurgedRow, Live
  <2> QED BY <1>12, <2>1, <2>2, <2>3, RemovalLeavesClaims
<1>14. ASSUME NEW ks \in SUBSET Keys, NativeSweep(ks)
       PROVE  Timely' /\ ClaimHeld' /\ ReplayMatchesPayload' /\ StoredByHolder'
  <2>1. RemoveRows(ks, [j \in Keys |-> Absent])
    BY <1>14 DEF NativeSweep
  <2>2. \A k \in ks : records[k].expiresAt <= clock + Skew
    BY <1>0, <1>14, SkewAssumption, GraceAssumption DEF NativeSweep, TypeOK, Row
  <2> QED BY <1>12, <2>1, <2>2, RemovalLeavesClaims
<1>15. CASE UNCHANGED vars
  BY <1>b, <1>15, ClaimHeldKept, TimelyKept DEF vars
<1> QED BY <1>1, <1>2, <1>3, <1>4, <1>5, <1>6, <1>7, <1>8, <1>9, <1>10, <1>11, <1>13,
          <1>14, <1>15 DEF Next, WorkerStep, Fault

\* Nothing is claimed or stored in the initial state.
LEMMA LeaseInit == Init => LeaseInv
<1> SUFFICES ASSUME Init PROVE LeaseInv
  OBVIOUS
<1>1. Timely /\ ClaimHeld
  BY DEF Init, Timely, ClaimHeld, Claiming
<1>2. ReplayMatchesPayload /\ StoredByHolder
  BY DEF Init, ReplayMatchesPayload, StoredByHolder, Absent
<1> QED BY <1>1, <1>2, TypeInit DEF LeaseInv

\* LeaseInv is an invariant of an engine whose attempts end within their lease.
LEMMA LeaseInvariant == ASSUME WithinLease PROVE Spec => []LeaseInv
<1>1. LeaseInv /\ [Next]_vars => LeaseInv'
  BY LeaseStep
<1> QED BY <1>1, LeaseInit, PTL DEF Spec

\* The lease is exclusive: as long as attempts end within their lease, no two
\* workers ever run a handler for one key at once, whatever crashes or fails.
THEOREM LeaseExclusive == ASSUME WithinLease PROVE Spec => []ExclusiveWhileLeased
<1>1. LeaseInv => ExclusiveWhileLeased
  BY ClaimsApart DEF ExclusiveWhileLeased
<1> QED BY <1>1, LeaseInvariant, PTL

\* As long as attempts end within their lease, what is replayed was produced
\* for the payload that asks for it.
THEOREM ReplayCorrect == ASSUME WithinLease PROVE Spec => []ReplayMatchesPayload
<1>1. LeaseInv => ReplayMatchesPayload
  BY DEF LeaseInv
<1> QED BY <1>1, LeaseInvariant, PTL

\* As long as attempts end within their lease, a row's result is its holder's.
THEOREM StoredCorrect == ASSUME WithinLease PROVE Spec => []StoredByHolder
<1>1. LeaseInv => StoredByHolder
  BY DEF LeaseInv
<1> QED BY <1>1, LeaseInvariant, PTL

-----------------------------------------------------------------------------
(* Completed rows.  No assumption on leases is needed: begin compares the  *)
(* row's end of life with a clock reading, and readings are of the past or *)
(* at most Skew ahead.                                                     *)

PastReadings == \A w \in Workers : pc[w] # "idle" => op[w].begunAt <= clock + Skew

PastInv == TypeInv /\ PastReadings

\* Clock readings stay in the past.
LEMMA PastStep == PastInv /\ [Next]_vars => PastInv'
<1> SUFFICES ASSUME PastInv, [Next]_vars PROVE PastInv'
  OBVIOUS
<1>0. TypeInv' /\ TypeOK /\ TypeOK'
  BY TypeStep DEF PastInv, TypeInv
<1> SUFFICES PastReadings'
  BY <1>0 DEF PastInv
<1>1. ASSUME clock' = clock,
             \A w \in Workers : pc'[w] # "idle" => pc[w] # "idle" /\ op'[w] = op[w]
      PROVE  PastReadings'
  BY <1>1 DEF PastInv, PastReadings
<1>2. ASSUME NEW w \in Workers, NEW answer, Return(w, answer), clock' = clock
      PROVE  PastReadings'
  BY <1>0, <1>1, <1>2 DEF Return, TypeOK
<1>3. ASSUME NEW w \in Workers, NEW k \in Keys, NEW f \in Fingerprints, Request(w, k, f)
      PROVE  PastReadings'
  <2>1. PICK r \in Readings :
          op' = [op EXCEPT ![w] = [key |-> k, fingerprint |-> f, begunAt |-> r]]
    BY <1>3 DEF Request
  <2>2. op'[w].begunAt = r /\ r <= clock + Skew /\ clock' = clock
    BY <1>0, <1>3, <2>1, SkewAssumption DEF Request, Readings, TypeOK
  <2>3. \A v \in Workers : v # w => op'[v] = op[v] /\ pc'[v] = pc[v]
    BY <1>0, <1>3, <2>1 DEF Request, TypeOK
  <2> QED BY <2>2, <2>3 DEF PastInv, PastReadings
<1>4. ASSUME NEW w \in Workers, WorkerStep(w) PROVE PastReadings'
  <2>1. CASE BeginAcquired(w)
    BY <1>0, <1>1, <2>1 DEF BeginAcquired, TypeOK
  <2>2. CASE RunStored(w) \/ RunFailed(w)
    BY <1>0, <1>1, <2>2 DEF RunStored, RunFailed, TypeOK
  <2>3. CASE BeginRefused(w) \/ RunUnclaimed(w) \/ Complete(w) \/ Abandon(w)
    BY <1>2, <2>3 DEF BeginRefused, RunUnclaimed, Complete, Abandon
  <2> QED BY <1>4, <2>1, <2>2, <2>3 DEF WorkerStep
<1>5. ASSUME NEW w \in Workers, Fault(w) PROVE PastReadings'
  <2>1. CASE BeginError(w)
    <3>1. CASE FailOpen
      BY <1>0, <1>1, <2>1, <3>1 DEF BeginError, TypeOK
    <3>2. CASE ~FailOpen
      BY <1>2, <2>1, <3>2 DEF BeginError
    <3> QED BY <3>1, <3>2
  <2>2. CASE BeginResent(w) \/ CompleteResent(w) \/ AbandonResent(w)
    BY <1>1, <2>2 DEF BeginResent, CompleteResent, AbandonResent, worker
  <2>3. CASE StoreResultThrows(w) \/ CompleteError(w) \/ AbandonError(w) \/ Crash(w)
    BY <1>2, <2>3 DEF StoreResultThrows, CompleteError, AbandonError, Crash
  <2> QED BY <1>5, <2>1, <2>2, <2>3 DEF Fault
<1>6. CASE Tick
  <2>1. UNCHANGED <<pc, op>> /\ clock' = clock + 1 /\ clock \in Int
        /\ \A w \in Workers : op[w].begunAt \in Int
    BY <1>0, <1>6 DEF Tick, worker, TypeOK
  <2> QED BY <2>1, SkewAssumption DEF PastInv, PastReadings
<1>7. ASSUME NEW ks, NEW purged, RemoveRows(ks, purged) PROVE PastReadings'
  BY <1>1, <1>7 DEF RemoveRows, worker
<1>8. CASE UNCHANGED vars
  BY <1>1, <1>8 DEF vars
<1> QED BY <1>3, <1>4, <1>5, <1>6, <1>7, <1>8 DEF Next, Purge, NativeSweep

\* No call and no removal touches a completed row that every clock sees alive.
LEMMA CompletedKept ==
    ASSUME PastInv, [Next]_vars, NEW k \in Keys,
           records[k].state = "completed", records[k].expiresAt > clock + Skew
    PROVE  records'[k] = records[k]
<1>0. TypeOK /\ AttemptShape /\ PastReadings
  BY DEF PastInv, TypeInv
<1>1. records[k].expiresAt \in Int /\ clock \in Int
  BY <1>0 DEF TypeOK, Row
<1>2. ASSUME NEW now \in Int, now <= clock + Skew PROVE Live(records[k], now)
  BY <1>1, <1>2, SkewAssumption DEF Live, Present
<1>3. ASSUME NEW w \in Workers, pc[w] = "begin", ApplyBegin(w) PROVE records'[k] = records[k]
  <2>1. CASE op[w].key = k
    <3>1. Live(records[k], op[w].begunAt)
      BY <1>0, <1>2, <1>3 DEF PastReadings, TypeOK
    <3>2. Outcome(w) # "acquired"
      BY <2>1, <3>1 DEF Outcome, RowOf, BeginOutcome
    <3> QED BY <1>3, <3>2 DEF ApplyBegin
  <2>2. CASE op[w].key # k
    BY <1>0, <1>3, <2>2 DEF ApplyBegin, TypeOK
  <2> QED BY <2>1, <2>2
<1>4. ASSUME NEW w \in Workers, ApplyComplete(w) PROVE records'[k] = records[k]
  <2>1. CompletedRow(records[k], fence[w], sent[w].at, sent[w].result) = records[k]
    BY DEF CompletedRow
  <2> QED BY <1>0, <1>4, <2>1 DEF ApplyComplete, TypeOK
<1>5. ASSUME NEW w \in Workers, ApplyAbandon(w) PROVE records'[k] = records[k]
  BY <1>0, <1>5 DEF ApplyAbandon, AbandonedRow, AbandonStatus, TypeOK
<1>6. ASSUME Purge PROVE records'[k] = records[k]
  <2>1. PICK r \in Readings : RemoveRows(Keys, [j \in Keys |-> PurgedRow(records[j], r)])
    BY <1>6 DEF Purge
  <2>2. r \in Int /\ r <= clock + Skew
    BY <1>1, <2>1, SkewAssumption DEF Readings
  <2>3. PurgedRow(records[k], r) = records[k]
    BY <1>2, <2>2 DEF PurgedRow
  <2> QED BY <2>1, <2>3 DEF RemoveRows
<1>7. ASSUME NEW ks \in SUBSET Keys, NativeSweep(ks) PROVE records'[k] = records[k]
  <2>1. k \notin ks
    BY <1>1, <1>7, SkewAssumption, GraceAssumption DEF NativeSweep
  <2> QED BY <1>7, <2>1 DEF NativeSweep, RemoveRows
<1>8. CASE Tick \/ UNCHANGED vars \/ \E w \in Workers, j \in Keys, f \in Fingerprints : Request(w, j, f)
  BY <1>8 DEF Tick, vars, Request
<1>9. ASSUME NEW w \in Workers, WorkerStep(w) PROVE records'[k] = records[k]
  BY <1>3, <1>4, <1>5, <1>9 DEF WorkerStep, BeginAcquired, BeginRefused, RunUnclaimed,
                                RunStored, RunFailed, Complete, Abandon
<1>10. ASSUME NEW w \in Workers, Fault(w) PROVE records'[k] = records[k]
  BY <1>3, <1>4, <1>5, <1>10 DEF Fault, BeginError, BeginResent, StoreResultThrows,
                                 CompleteError, CompleteResent, AbandonError, AbandonResent, Crash
<1> QED BY <1>6, <1>7, <1>8, <1>9, <1>10 DEF Next

\* Replay is stable: late, repeated or superseded calls and purge leave a
\* completed row as it is until its time to live has run out.
THEOREM ReplayStable == Spec => CompletedStable
<1>1. Init => PastInv
  BY TypeInit DEF Init, PastInv, PastReadings
<1>2. Spec => []PastInv
  BY <1>1, PastStep, PTL DEF Spec
<1>3. ASSUME PastInv, [Next]_vars
      PROVE  \A k \in Keys :
               records[k].state = "completed" /\ records[k].expiresAt > clock + Skew
                 => records'[k] = records[k]
  BY <1>3, CompletedKept
<1> QED BY <1>2, <1>3, PTL DEF Spec, CompletedStable

-----------------------------------------------------------------------------
(* Rows that every clock sees alive.  The two invariants meet here: the    *)
(* fence tells whose abandon it is, and past readings keep begin and purge *)
(* from taking a live row for a dead one.                                  *)

LiveInv == FenceInv /\ PastInv

\* Both parts of LiveInv are invariants.
LEMMA LiveInvariant == Spec => []LiveInv
<1>1. Init => PastInv
  BY TypeInit DEF Init, PastInv, PastReadings
<1>2. Spec => []PastInv
  BY <1>1, PastStep, PTL DEF Spec
<1>3. FenceInv /\ PastInv => LiveInv
  BY DEF LiveInv
<1> QED BY <1>2, <1>3, FenceInvariant, PTL

\* What the calls of the store and the removals do to a live row: it keeps its
\* fingerprint, or is deleted by an abandon under its own fence.
LEMMA LiveRowStep ==
    ASSUME LiveInv, [Next]_vars, NEW k \in Keys, Live(records[k], clock + Skew)
    PROVE  \/ /\ Present(records'[k])
              /\ records'[k].fingerprint = records[k].fingerprint
           \/ \E w \in Workers :
                /\ pc[w] = "abandon" /\ op[w].key = k
                /\ AbandonStatus(records[k], fence[w]) = "ok"
                /\ ~Present(records'[k])
<1> DEFINE kept == Present(records'[k]) /\ records'[k].fingerprint = records[k].fingerprint
           deletes(w) == /\ pc[w] = "abandon" /\ op[w].key = k
                         /\ AbandonStatus(records[k], fence[w]) = "ok"
                         /\ ~Present(records'[k])
<1> SUFFICES kept \/ \E w \in Workers : deletes(w)
  OBVIOUS
<1>0. TypeOK /\ AttemptShape /\ PastReadings /\ records[k] \in Row(Results)
  BY DEF LiveInv, PastInv, TypeInv, TypeOK
<1>1. records[k].expiresAt \in Int /\ clock \in Int /\ Present(records[k])
  BY <1>0 DEF TypeOK, Row, Live
<1>2. ASSUME NEW now \in Int, now <= clock + Skew PROVE Live(records[k], now)
  BY <1>1, <1>2, SkewAssumption DEF Live
<1>3. ASSUME records'[k] = records[k] PROVE kept
  BY <1>1, <1>3
<1>4. ASSUME NEW w \in Workers, pc[w] = "begin", ApplyBegin(w) PROVE kept
  <2>1. CASE op[w].key = k /\ Outcome(w) = "acquired"
    <3>1. Live(records[k], op[w].begunAt)
      BY <1>0, <1>2, <1>4 DEF PastReadings, TypeOK
    <3>2. records[k].fingerprint = op[w].fingerprint
      BY <2>1, <3>1 DEF Outcome, RowOf, BeginOutcome
    <3>3. records'[k] = ClaimedRow(records[k], op[w].fingerprint, op[w].begunAt)
      BY <1>0, <1>4, <2>1 DEF ApplyBegin, TypeOK
    <3> QED BY <3>2, <3>3 DEF ClaimedRow, Present
  <2>2. CASE op[w].key # k \/ Outcome(w) # "acquired"
    BY <1>0, <1>3, <1>4, <2>2 DEF ApplyBegin, TypeOK
  <2> QED BY <2>1, <2>2
<1>5. ASSUME NEW w \in Workers, ApplyComplete(w) PROVE kept
  <2>1. CASE records'[k] = records[k]
    BY <1>3, <2>1
  <2>2. CASE records'[k] = CompletedRow(records[k], fence[w], sent[w].at, sent[w].result)
    BY <1>0, <1>1, <2>2 DEF CompletedRow, Present, Row
  <2> QED BY <1>0, <1>5, <2>1, <2>2 DEF ApplyComplete, TypeOK
<1>6. ASSUME NEW w \in Workers, pc[w] = "abandon", ApplyAbandon(w) PROVE kept \/ deletes(w)
  <2>1. CASE op[w].key = k
    <3>1. records'[k] = AbandonedRow(records[k], fence[w])
      BY <1>0, <1>6, <2>1 DEF ApplyAbandon, TypeOK
    <3> QED BY <1>3, <1>6, <2>1, <3>1 DEF AbandonedRow, Absent, Present
  <2>2. CASE op[w].key # k
    BY <1>0, <1>3, <1>6, <2>2 DEF ApplyAbandon, TypeOK
  <2> QED BY <2>1, <2>2
<1>7. ASSUME Purge PROVE kept
  <2>1. PICK r \in Readings : RemoveRows(Keys, [j \in Keys |-> PurgedRow(records[j], r)])
    BY <1>7 DEF Purge
  <2>2. r \in Int /\ r <= clock + Skew
    BY <1>1, <2>1, SkewAssumption DEF Readings
  <2>3. PurgedRow(records[k], r) = records[k]
    BY <1>2, <2>2 DEF PurgedRow
  <2> QED BY <1>3, <2>1, <2>3 DEF RemoveRows
<1>8. ASSUME NEW ks \in SUBSET Keys, NativeSweep(ks) PROVE kept
  <2>1. k \notin ks
    BY <1>1, <1>8, SkewAssumption, GraceAssumption DEF NativeSweep, Live
  <2> QED BY <1>3, <1>8, <2>1 DEF NativeSweep, RemoveRows
<1>9. CASE Tick \/ UNCHANGED vars \/ \E w \in Workers, j \in Keys, f \in Fingerprints : Request(w, j, f)
  BY <1>3, <1>9 DEF Tick, vars, Request
<1>10. ASSUME NEW w \in Workers, WorkerStep(w) PROVE kept \/ deletes(w)
  <2> HIDE DEF kept, deletes
  <2> QED BY <1>3, <1>4, <1>5, <1>6, <1>10
          DEF WorkerStep, BeginAcquired, BeginRefused, RunUnclaimed,
              RunStored, RunFailed, Complete, Abandon
<1>11. ASSUME NEW w \in Workers, Fault(w) PROVE kept \/ deletes(w)
  <2> HIDE DEF kept, deletes
  <2> QED BY <1>3, <1>4, <1>5, <1>6, <1>11
          DEF Fault, BeginError, BeginResent, StoreResultThrows,
              CompleteError, CompleteResent, AbandonError, AbandonResent, Crash
<1> HIDE DEF kept, deletes
<1> QED BY <1>7, <1>8, <1>9, <1>10, <1>11 DEF Next

\* A takeover never runs another payload: with attempts and clocks of any kind
\* a key is bound to one payload until its row dies or is abandoned.
THEOREM PayloadFixed == Spec => PayloadFixedWhileAlive
<1>1. ASSUME LiveInv, [Next]_vars
      PROVE  \A k \in Keys :
               Live(records[k], clock + Skew) /\ Present(records'[k])
                 => records'[k].fingerprint = records[k].fingerprint
  BY <1>1, LiveRowStep
<1> QED BY <1>1, LiveInvariant, PTL DEF Spec, PayloadFixedWhileAlive

\* A live row goes only by the abandon of the worker that holds it, or of one
\* whose own row was deleted before: no late abandon, no purge and no native
\* expiry takes it away.
THEOREM LiveRowsKept == Spec => LiveClaimRemovedByHolder
<1>1. ASSUME LiveInv, NEW k \in Keys, NEW w \in Workers, pc[w] = "abandon", op[w].key = k,
             AbandonStatus(records[k], fence[w]) = "ok"
      PROVE  holder[k] = w \/ orphan[w]
  <2>1. records[k].fence = fence[w] /\ fence[w] \in Nat /\ fence[w] # 0
    BY <1>1 DEF AbandonStatus, LiveInv, FenceInv, TypeInv, TypeOK, AttemptShape
  <2>2. ~orphan[w] => holder[k] = w
    BY <1>1, <2>1 DEF LiveInv, FenceInv, FenceWitnessesClaim, Claiming, RowOf
  <2> QED BY <2>2
<1>2. ASSUME LiveInv, [Next]_vars
      PROVE  \A k \in Keys :
               Live(records[k], clock + Skew) /\ ~Present(records'[k]) =>
                   \E w \in Workers :
                       /\ pc[w] = "abandon" /\ op[w].key = k
                       /\ holder[k] = w \/ orphan[w]
  BY <1>1, <1>2, LiveRowStep
<1> QED BY <1>2, LiveInvariant, PTL DEF Spec, LiveClaimRemovedByHolder

-----------------------------------------------------------------------------
(* What execute reports as stored is stored.                               *)

\* Only an answered complete reports a result as stored.
LEMMA OnlyCompleteStores ==
    ASSUME TypeInv, [Next]_vars, NEW w \in Workers,
           pc[w] = "complete", pc'[w] = "idle", out'[w] = "stored"
    PROVE  Complete(w)
<1>0. TypeOK
  BY DEF TypeInv
<1>1. ASSUME NEW v \in Workers, NEW answer, Return(v, answer), v # w PROVE FALSE
  BY <1>0, <1>1 DEF Return, TypeOK
<1>2. ASSUME NEW answer, Return(w, answer) PROVE answer = "stored"
  BY <1>0, <1>2 DEF Return, TypeOK
<1>3. ASSUME NEW v \in Workers, WorkerStep(v) PROVE Complete(w)
  <2>1. ~BeginAcquired(v) /\ ~RunStored(v) /\ ~RunFailed(v)
    BY <1>0 DEF BeginAcquired, RunStored, RunFailed, TypeOK
  <2>2. ~BeginRefused(v) /\ ~RunUnclaimed(v) /\ ~Abandon(v)
    BY <1>1 DEF BeginRefused, RunUnclaimed, Abandon
  <2> QED BY <1>1, <1>3, <2>1, <2>2 DEF WorkerStep, Complete
<1>4. ASSUME NEW v \in Workers, Fault(v) PROVE FALSE
  <2>1. ~BeginError(v)
    BY <1>0, <1>1 DEF BeginError, TypeOK
  <2>2. ~BeginResent(v) /\ ~CompleteResent(v) /\ ~AbandonResent(v)
    BY <1>0 DEF BeginResent, CompleteResent, AbandonResent, worker
  <2>3. ~StoreResultThrows(v) /\ ~CompleteError(v) /\ ~AbandonError(v) /\ ~Crash(v)
    BY <1>1, <1>2 DEF StoreResultThrows, CompleteError, AbandonError, Crash
  <2> QED BY <1>4, <2>1, <2>2, <2>3 DEF Fault
<1>5. ASSUME UNCHANGED pc PROVE FALSE
  BY <1>5
<1>6. ~Tick /\ ~Purge /\ ~UNCHANGED vars /\ \A ks \in SUBSET Keys : ~NativeSweep(ks)
  BY <1>5 DEF Tick, Purge, NativeSweep, RemoveRows, worker, vars
<1>7. \A v \in Workers, j \in Keys, f \in Fingerprints : ~Request(v, j, f)
  BY <1>0 DEF Request, TypeOK
<1> QED BY <1>3, <1>4, <1>6, <1>7 DEF Next

\* As long as attempts end within their lease, a caller that is told its result
\* was stored can count on it: the row is completed with that very result.
THEOREM StoredTruth == ASSUME WithinLease PROVE Spec => StoredAnswerTrue
<1>1. ASSUME LeaseInv, NEW w \in Workers, Complete(w)
      PROVE  /\ records'[op[w].key].state = "completed" \/ out'[w] # "stored"
             /\ records'[op[w].key].result = sent[w].result \/ out'[w] # "stored"
  <2> DEFINE k == op[w].key
  <2>1. pc[w] = "complete" /\ TypeOK /\ k \in Keys /\ fence[w] # 0 /\ w \in DOMAIN out
    BY <1>1 DEF Complete, LeaseInv, TypeInv, TypeOK, AttemptShape
  <2>2. records[k].state = "in_flight" /\ RowOf(w) = records[k] /\ records[k] \in Row(Results)
    BY <1>1, <2>1 DEF LeaseInv, ClaimHeld, Claiming, RowOf, TypeOK
  <2>3. records'[k] = CompletedRow(records[k], fence[w], sent[w].at, sent[w].result)
    BY <1>1, <2>1 DEF Complete, ApplyComplete, TypeOK
  <2>4. CASE CompleteStatus(records[k], fence[w], sent[w].at) = "ok"
    BY <2>2, <2>3, <2>4 DEF CompletedRow, Row
  <2>5. CASE CompleteStatus(records[k], fence[w], sent[w].at) # "ok"
    BY <1>1, <2>1, <2>2, <2>5 DEF Complete, Return, TypeOK
  <2> QED BY <2>4, <2>5
<1>2. ASSUME LeaseInv, [Next]_vars
      PROVE  \A w \in Workers :
               pc[w] = "complete" /\ pc'[w] = "idle" /\ out'[w] = "stored" =>
                   /\ records'[op[w].key].state = "completed"
                   /\ records'[op[w].key].result = sent[w].result
  BY <1>1, <1>2, OnlyCompleteStores DEF LeaseInv
<1> QED BY <1>2, LeaseInvariant, PTL DEF Spec, StoredAnswerTrue

-----------------------------------------------------------------------------
(* What the doors take from here.                                          *)

\* The door forgets the answer of an attempt that is over.
Forgets(w) ==
    /\ pc[w] = "idle"
    /\ out' = [out EXCEPT ![w] = "none"]
    /\ UNCHANGED <<clock, records, pc, op, fence, sent, holder, orphan>>

\* No invariant of the engine depends on it.
LEMMA ForgetKeeps ==
    ASSUME NEW w \in Workers, Forgets(w), TypeInv
    PROVE  TypeInv' /\ (LeaseInv => LeaseInv')
<1>1. \A v \in Workers : pc[v] # "idle" => out'[v] = out[v]
  BY DEF Forgets, TypeInv, TypeOK
<1>2. out' \in [Workers -> Answers]
  BY DEF Forgets, TypeInv, TypeOK, Answers
<1>3. TypeInv'
  BY <1>1, <1>2 DEF Forgets, TypeInv, TypeOK, AttemptShape
<1>4. ASSUME LeaseInv PROVE LeaseInv'
  BY <1>3, <1>4 DEF Forgets, LeaseInv, Timely, ClaimHeld, ReplayMatchesPayload,
                    StoredByHolder, Claiming, RowOf
<1> QED BY <1>3, <1>4

\* Returning ends the attempt and touches no other worker.
LEMMA ReturnFrame ==
    ASSUME TypeOK, NEW w \in Workers, NEW answer, Return(w, answer)
    PROVE  /\ pc'[w] = "idle" /\ out'[w] = answer
           /\ \A v \in Workers \ {w} : pc'[v] = pc[v] /\ op'[v] = op[v] /\ out'[v] = out[v]
BY DEF Return, TypeOK

\* Of the steps of a worker, only the complete of the claim that wrote a row turns it
\* into a completed one.
LEMMA CompletedBy ==
    ASSUME LeaseInv, NEW w \in Workers, WorkerStep(w) \/ Fault(w),
           NEW k \in Keys, records'[k].state = "completed", records'[k] # records[k]
    PROVE  pc[w] = "complete" /\ op[w].key = k /\ records'[k].fingerprint = op[w].fingerprint
<1>0. TypeInv /\ TypeOK /\ AttemptShape
  BY DEF LeaseInv, TypeInv
<1>1. ~ApplyBegin(w)
  BY <1>0 DEF ApplyBegin, ClaimedRow, TypeOK
<1>2. ~ApplyAbandon(w)
  BY <1>0 DEF ApplyAbandon, AbandonedRow, Absent, TypeOK
<1>3. ASSUME pc[w] = "complete", ApplyComplete(w)
      PROVE  op[w].key = k /\ records'[k].fingerprint = op[w].fingerprint
  <2>1. op[w].key \in Keys /\ Claiming(w)
    BY <1>0, <1>3 DEF AttemptShape, Claiming
  <2>2. op[w].key = k
    BY <1>0, <1>3, <2>1 DEF ApplyComplete, TypeOK
  <2>3. records[k].fingerprint = op[w].fingerprint /\ records[k] \in Row(Results)
    BY <1>0, <2>1, <2>2 DEF LeaseInv, ClaimHeld, RowOf, TypeOK
  <2>4. records'[k] = CompletedRow(records[k], fence[w], sent[w].at, sent[w].result)
    BY <1>0, <1>3, <2>1, <2>2 DEF ApplyComplete, TypeOK
  <2>5. records'[k].fingerprint = records[k].fingerprint
    BY <2>3, <2>4 DEF CompletedRow, Row
  <2> QED BY <2>2, <2>3, <2>5
<1>4. records' # records
  OBVIOUS
<1>5. pc[w] = "complete" /\ ApplyComplete(w)
  BY <1>1, <1>2, <1>4 DEF WorkerStep, BeginAcquired, BeginRefused, RunUnclaimed, RunStored,
        RunFailed, Complete, Abandon, Fault, BeginError, BeginResent, StoreResultThrows,
        CompleteError, CompleteResent, AbandonError, AbandonResent, Crash
<1> QED BY <1>3, <1>5

\* A row that is removed is no completed one afterwards.
LEMMA RemovedNotCompleted ==
    ASSUME Purge \/ (\E ks \in SUBSET Keys : NativeSweep(ks)),
           NEW k \in Keys, records'[k].state = "completed"
    PROVE  records'[k] = records[k]
<1>1. ASSUME NEW ks, NEW purged, RemoveRows(ks, purged),
             \A j \in Keys : j \in ks => purged[j] \in {records[j], Absent}
      PROVE  records'[k] = records[k]
  BY <1>1 DEF RemoveRows, Absent
<1>2. CASE Purge
  <2>1. PICK r \in Readings : RemoveRows(Keys, [j \in Keys |-> PurgedRow(records[j], r)])
    BY <1>2 DEF Purge
  <2>2. \A j \in Keys : PurgedRow(records[j], r) \in {records[j], Absent}
    BY DEF PurgedRow
  <2> QED BY <1>1, <2>1, <2>2
<1>3. ASSUME NEW ks \in SUBSET Keys, NativeSweep(ks) PROVE records'[k] = records[k]
  BY <1>1, <1>3 DEF NativeSweep
<1> QED BY <1>2, <1>3

\* A row is completed by the complete of the claim that wrote it, if it was not
\* completed before.
LEMMA CompletedCause ==
    ASSUME LeaseInv, [Next]_vars, NEW k \in Keys, records'[k].state = "completed"
    PROVE  \/ records'[k] = records[k]
           \/ \E w \in Workers :
                /\ pc[w] = "complete" /\ op[w].key = k
                /\ records'[k].fingerprint = op[w].fingerprint
<1>1. CASE Tick \/ UNCHANGED vars
  BY <1>1 DEF Tick, vars
<1>2. ASSUME NEW w \in Workers, NEW j \in Keys, NEW f \in Fingerprints, Request(w, j, f)
      PROVE  records'[k] = records[k]
  BY <1>2 DEF Request
<1> QED BY <1>1, <1>2, CompletedBy, RemovedNotCompleted DEF Next

-----------------------------------------------------------------------------
(* The SQL statements do to one row what the store contract's operations   *)
(* do to it: shared by the proofs about the stores that send them.         *)

\* The upsert's WHERE clause matches exactly when begin acquires.
LEMMA ClaimWhereAcquires ==
    ASSUME NEW row \in Row(Results), NEW f, NEW now \in Int
    PROVE  ClaimWhere(row, f, now) <=> BeginOutcome(row, f, now) = "acquired"
<1>1. row.expiresAt \in Int /\ row.leaseUntil \in Int
      /\ row.state \in {"absent", "in_flight", "completed"}
  BY DEF Row
<1>2. CASE Live(row, now) /\ row.fingerprint # f
  BY <1>1, <1>2 DEF ClaimWhere, BeginOutcome, Live, Present
<1>3. CASE Live(row, now) /\ row.fingerprint = f
  BY <1>1, <1>3 DEF ClaimWhere, BeginOutcome, Live, Present
<1>4. CASE ~Live(row, now)
  BY <1>1, <1>4 DEF ClaimWhere, BeginOutcome, Live, Present
<1> QED BY <1>2, <1>3, <1>4

\* The upserted row is the claimed row, if a missing row has fence 0.
LEMMA UpsertedIsClaimed ==
    ASSUME NEW row \in Row(Results), NEW f, NEW now,
           ~Present(row) => row.fence = 0
    PROVE  UpsertedRow(row, f, now) = ClaimedRow(row, f, now)
BY DEF UpsertedRow, ClaimedRow

\* The SELECT's verdict on a refused claim is what begin would answer now.
LEMMA VerdictIsOutcome ==
    ASSUME NEW row \in Row(Results), NEW f, NEW now \in Int,
           ClaimVerdict(row, f, now) # "again"
    PROVE  /\ BeginOutcome(row, f, now) = ClaimVerdict(row, f, now)
           /\ ClaimVerdict(row, f, now) \in {"mismatch", "completed", "in_flight"}
<1>1. row.expiresAt \in Int
  BY DEF Row
<1>2. Live(row, now)
  BY <1>1 DEF ClaimVerdict, Live
<1>3. CASE row.fingerprint # f
  BY <1>1, <1>2, <1>3 DEF ClaimVerdict, BeginOutcome, Live
<1>4. CASE row.fingerprint = f
  BY <1>1, <1>2, <1>4 DEF ClaimVerdict, BeginOutcome, Live
<1> QED BY <1>3, <1>4

\* A row that refuses a claim tells why, if nothing comes in between.
LEMMA RefusalIsSettled ==
    ASSUME NEW row \in Row(Results), NEW f, NEW now \in Int, ~ClaimWhere(row, f, now)
    PROVE  ClaimVerdict(row, f, now) # "again"
<1>1. /\ row.expiresAt \in Int /\ row.leaseUntil \in Int
      /\ row.state \in {"absent", "in_flight", "completed"}
  BY DEF Row
<1>2. Live(row, now)
  BY <1>1 DEF ClaimWhere, Live
<1>3. CASE row.fingerprint # f
  BY <1>1, <1>2, <1>3 DEF ClaimVerdict, Live
<1>4. CASE row.fingerprint = f
  BY <1>1, <1>2, <1>4 DEF ClaimVerdict, ClaimWhere, Live, Present
<1> QED BY <1>3, <1>4

-----------------------------------------------------------------------------
(* complete and abandon                                                    *)

\* The UPDATE's WHERE clause matches exactly when complete writes.
LEMMA CompleteWhereWrites ==
    ASSUME NEW row \in Row(Results), NEW fc, NEW now \in Int, NEW res,
           CompleteWhere(row, fc, now)
    PROVE  /\ CompleteStatus(row, fc, now) = "ok"
           /\ CompletedRow(row, fc, now, res) = UpdatedRow(row, res)
BY DEF CompleteWhere, CompleteStatus, CompletedRow, UpdatedRow, Live

\* When the UPDATE matches nothing, complete writes nothing either, and the
\* SELECT's verdict is complete's answer.
LEMMA CompleteVerdictAnswers ==
    ASSUME NEW row \in Row(Results), NEW fc, NEW now \in Int, NEW res,
           ~CompleteWhere(row, fc, now)
    PROVE  /\ CompleteStatus(row, fc, now) = CompleteVerdict(row, fc, now)
           /\ CompletedRow(row, fc, now, res) = row
<1>1. row.expiresAt \in Int
  BY DEF Row
<1> QED BY <1>1 DEF CompleteWhere, CompleteStatus, CompleteVerdict, CompletedRow, Live, Present

\* The DELETE of abandon matches exactly when abandon deletes.
LEMMA AbandonWhereDeletes ==
    ASSUME NEW row, NEW fc
    PROVE  AbandonWhere(row, fc) <=> AbandonStatus(row, fc) = "ok"
BY DEF AbandonWhere, AbandonStatus

-----------------------------------------------------------------------------
(* Deletion                                                                *)

\* A row that is gone is gone with its fence and its holder.
NoGhostRows == \A k \in Keys : ~Present(records[k]) => records[k] = Absent /\ holder[k] = Nobody

=============================================================================
