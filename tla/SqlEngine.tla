----------------------------- MODULE SqlEngine ------------------------------
(***************************************************************************)
(* Workers that call execute on a SQL store (go/store/internal/sqlstore;   *)
(* packages/stores/src/postgres.ts and d1.ts send the same statements).    *)
(*                                                                         *)
(* A store call is no longer one step.  It is one conditional write, and,  *)
(* when the write matched no row, one SELECT that tells why; nothing holds *)
(* the row between the two.  begin runs up to three such rounds, all with  *)
(* the clock reading of the first.  stage[w] says which statement of the   *)
(* outstanding call comes next, and tries[w] counts begin's rounds.        *)
(*                                                                         *)
(* That the calls made of these statements do what the store contract says *)
(* is the property ImplementsEngine.                                       *)
(***************************************************************************)
EXTENDS Engine, SqlStatements

CONSTANT MaxTries    \* begin's attempts (3 in the code)

ASSUME MaxTriesAssumption == MaxTries \in Nat \ {0}

VARIABLES stage, tries

sqlVars == <<vars, stage, tries>>

SqlInit ==
    /\ Init
    /\ stage = [w \in Workers |-> "write"]
    /\ tries = [w \in Workers |-> 0]

\* The call is over, and the next one starts with its write.
CallOver(w) ==
    /\ stage' = [stage EXCEPT ![w] = "write"]
    /\ tries' = [tries EXCEPT ![w] = 0]

\* The write matched no row: the SELECT comes next.
WriteRefused(w) ==
    /\ stage' = [stage EXCEPT ![w] = "read"]
    /\ UNCHANGED <<vars, tries>>

-----------------------------------------------------------------------------
(* begin                                                                   *)

SqlClaim(w) ==
    LET k == op[w].key IN
    /\ ClaimWhere(records[k], op[w].fingerprint, op[w].begunAt)
    /\ records' = [records EXCEPT ![k] =
                     UpsertedRow(@, op[w].fingerprint, op[w].begunAt)]
    /\ holder' = [holder EXCEPT ![k] = w]

SqlBeginWrite(w) ==
    /\ pc[w] = "begin" /\ stage[w] = "write"
    /\ \/ /\ SqlClaim(w)
          /\ fence' = [fence EXCEPT ![w] = records'[op[w].key].fence]
          /\ pc' = [pc EXCEPT ![w] = "run"]
          /\ orphan' = [orphan EXCEPT ![w] = FALSE]
          /\ UNCHANGED <<clock, op, sent, out>>
          /\ CallOver(w)
       \/ /\ ~ClaimWhere(RowOf(w), op[w].fingerprint, op[w].begunAt)
          /\ WriteRefused(w)

\* What execute does with an error of begin.
BeginFails(w) ==
    IF FailOpen
    THEN pc' = [pc EXCEPT ![w] = "run"] /\ UNCHANGED <<op, fence, sent, out>>
    ELSE Return(w, "store_error")

SqlBeginRead(w) ==
    LET verdict == ClaimVerdict(RowOf(w), op[w].fingerprint, op[w].begunAt) IN
    /\ pc[w] = "begin" /\ stage[w] = "read"
    /\ \/ /\ verdict # "again"
          /\ Return(w, Refusal[verdict])
          /\ UNCHANGED <<clock, records, holder, orphan>>
          /\ CallOver(w)
       \/ /\ verdict = "again" /\ tries[w] + 1 < MaxTries
          /\ tries' = [tries EXCEPT ![w] = @ + 1]
          /\ stage' = [stage EXCEPT ![w] = "write"]
          /\ UNCHANGED vars
       \/ /\ verdict = "again" /\ tries[w] + 1 >= MaxTries
          /\ BeginFails(w)
          /\ UNCHANGED <<clock, records, holder, orphan>>
          /\ CallOver(w)

-----------------------------------------------------------------------------
(* complete and abandon                                                    *)

SqlComplete(w) ==
    LET k == op[w].key IN
    /\ CompleteWhere(records[k], fence[w], sent[w].at)
    /\ records' = [records EXCEPT ![k] = UpdatedRow(@, sent[w].result)]

SqlCompleteWrite(w) ==
    /\ pc[w] = "complete" /\ stage[w] = "write"
    /\ \/ /\ SqlComplete(w)
          /\ Return(w, "stored")
          /\ orphan' = [orphan EXCEPT ![w] = FALSE]
          /\ UNCHANGED <<clock, holder>>
          /\ CallOver(w)
       \/ /\ ~CompleteWhere(RowOf(w), fence[w], sent[w].at)
          /\ WriteRefused(w)

SqlCompleteRead(w) ==
    /\ pc[w] = "complete" /\ stage[w] = "read"
    /\ Return(w, IF CompleteVerdict(RowOf(w), fence[w], sent[w].at) = "ok"
                 THEN "stored" ELSE "unstored")
    /\ orphan' = [orphan EXCEPT ![w] = FALSE]
    /\ UNCHANGED <<clock, records, holder>>
    /\ CallOver(w)

SqlAbandon(w) ==
    LET k == op[w].key IN
    /\ AbandonWhere(records[k], fence[w])
    /\ records' = [records EXCEPT ![k] = Absent]
    /\ holder' = [holder EXCEPT ![k] = Nobody]
    /\ orphan' = Orphaned({k})

SqlAbandonWrite(w) ==
    /\ pc[w] = "abandon" /\ stage[w] = "write"
    /\ \/ SqlAbandon(w) /\ Return(w, out[w]) /\ UNCHANGED clock /\ CallOver(w)
       \/ ~AbandonWhere(RowOf(w), fence[w]) /\ WriteRefused(w)

\* The SELECT only names the reason, and execute ignores it.
SqlAbandonRead(w) ==
    /\ pc[w] = "abandon" /\ stage[w] = "read"
    /\ Return(w, out[w])
    /\ UNCHANGED <<clock, records, holder, orphan>>
    /\ CallOver(w)

-----------------------------------------------------------------------------
(* A statement fails: the connection breaks before or after the database   *)
(* has run it.                                                             *)

SqlBeginError(w) ==
    /\ FaultsAllowed
    /\ pc[w] = "begin"
    /\ \/ stage[w] = "write" /\ SqlClaim(w)
       \/ UNCHANGED <<records, holder>>
    /\ BeginFails(w)
    /\ UNCHANGED <<clock, orphan>>
    /\ CallOver(w)

SqlCompleteError(w) ==
    /\ FaultsAllowed
    /\ pc[w] = "complete"
    /\ \/ stage[w] = "write" /\ SqlComplete(w)
       \/ UNCHANGED records
    /\ Return(w, "unstored")
    /\ orphan' = [orphan EXCEPT ![w] = FALSE]
    /\ UNCHANGED <<clock, holder>>
    /\ CallOver(w)

SqlAbandonError(w) ==
    /\ FaultsAllowed
    /\ pc[w] = "abandon"
    /\ \/ stage[w] = "write" /\ SqlAbandon(w)
       \/ UNCHANGED <<records, holder, orphan>>
    /\ Return(w, out[w])
    /\ UNCHANGED clock
    /\ CallOver(w)

-----------------------------------------------------------------------------
SqlPurge ==
    /\ \E r \in Readings :
         LET dead == {k \in Keys : PurgeWhere(records[k], r)} IN
         /\ records' = [k \in Keys |-> IF k \in dead THEN Absent ELSE records[k]]
         /\ holder' = [k \in Keys |-> IF k \in dead THEN Nobody ELSE holder[k]]
         /\ orphan' = Orphaned(dead)
    /\ UNCHANGED <<clock, worker, stage, tries>>

\* The steps of execute that call no store.
Elsewhere(w) ==
    /\ RunUnclaimed(w) \/ RunStored(w) \/ RunFailed(w)
    /\ UNCHANGED <<stage, tries>>

SqlFault(w) ==
    \/ SqlBeginError(w) \/ SqlCompleteError(w) \/ SqlAbandonError(w)
    \/ StoreResultThrows(w) /\ UNCHANGED <<stage, tries>>
    \/ Crash(w) /\ CallOver(w)

SqlStep(w) ==
    \/ SqlBeginWrite(w) \/ SqlBeginRead(w)
    \/ SqlCompleteWrite(w) \/ SqlCompleteRead(w)
    \/ SqlAbandonWrite(w) \/ SqlAbandonRead(w)
    \/ Elsewhere(w)

SqlNext ==
    \/ \E w \in Workers, k \in Keys, f \in Fingerprints :
         Request(w, k, f) /\ UNCHANGED <<stage, tries>>
    \/ \E w \in Workers : SqlStep(w) \/ SqlFault(w)
    \/ Tick /\ UNCHANGED <<stage, tries>>
    \/ SqlPurge

SqlSpec == SqlInit /\ [][SqlNext]_sqlVars

-----------------------------------------------------------------------------
(* Properties                                                              *)

\* The two statements of a call amount to one atomic call: every behaviour of
\* execute on the SQL store is one of execute on the contract's store.
ImplementsEngine == Spec

\* "Otherwise the row is already completed at this fence and completing twice is
\* ok": when complete answers ok, the row is completed under the call's fence.
OkMeansCompleted ==
    [][\A w \in Workers :
         pc[w] = "complete" /\ pc'[w] = "idle" /\ out'[w] = "stored" =>
             /\ records'[op[w].key].state = "completed"
             /\ records'[op[w].key].fence = fence[w]]_vars

=============================================================================
