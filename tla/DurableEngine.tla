---------------------------- MODULE DurableEngine ---------------------------
(***************************************************************************)
(* Workers that call execute on a Durable Object                           *)
(* (packages/stores/src/durable-objects.ts).                               *)
(*                                                                         *)
(* The object is a single writer: the platform delivers no other event     *)
(* while one of its methods waits for the object's storage, so a method is *)
(* one step here, however many statements it runs.  Rows carry times of    *)
(* the callers' clocks; beside each row the object keeps, in the sweep     *)
(* table, the time by its own clock at which the row may go, and it asks   *)
(* the platform for one alarm.                                             *)
(***************************************************************************)
EXTENDS Engine, SqlStatements

CONSTANT Unset    \* no alarm, or no entry in the sweep table

ASSUME UnsetAssumption == Unset \notin Int

VARIABLES
    sweep,   \* the sweep table: expires_wall of each key
    alarm    \* the time of the object's alarm

durableVars == <<vars, sweep, alarm>>

DurableInit ==
    /\ Init
    /\ sweep = [k \in Keys |-> Unset]
    /\ alarm = Unset

\* The sweep table has an entry for k.
Listed(k) == sweep[k] # Unset

-----------------------------------------------------------------------------
(* begin                                                                   *)

\* Mutant: the alarm is always moved.
ScheduleSweepPostpones(k) ==
    LET wall == clock + Ttl + Grace IN
    /\ sweep' = [sweep EXCEPT ![k] = wall]
    /\ alarm' = wall

\* Mutant: the grace is left out.
ScheduleSweepNoGrace(k) ==
    LET wall == clock + Ttl IN
    /\ sweep' = [sweep EXCEPT ![k] = wall]
    /\ alarm' = IF alarm = Unset \/ alarm > wall THEN wall ELSE alarm

\* The claimed row may go once its time to live and the grace have passed on
\* the object's clock; the alarm is moved when that is earlier.
ScheduleSweep(k) ==
    LET wall == clock + Ttl + Grace IN
    /\ sweep' = [sweep EXCEPT ![k] = wall]
    /\ alarm' = IF alarm = Unset \/ alarm > wall THEN wall ELSE alarm

ObjectClaim(w) ==
    LET k == op[w].key IN
    /\ ClaimWhere(records[k], op[w].fingerprint, op[w].begunAt)
    /\ records' = [records EXCEPT ![k] =
                     UpsertedRow(@, op[w].fingerprint, op[w].begunAt)]
    /\ holder' = [holder EXCEPT ![k] = w]
    /\ ScheduleSweep(k)

DurableAcquired(w) ==
    /\ pc[w] = "begin"
    /\ ObjectClaim(w)
    /\ fence' = [fence EXCEPT ![w] = records'[op[w].key].fence]
    /\ orphan' = [orphan EXCEPT ![w] = FALSE]
    /\ pc' = [pc EXCEPT ![w] = "run"]
    /\ UNCHANGED <<clock, op, sent, out>>

\* The SELECT sees the row that refused the claim, so it always finds a reason.
DurableRefused(w) ==
    LET row == RowOf(w) IN
    /\ pc[w] = "begin"
    /\ ~ClaimWhere(row, op[w].fingerprint, op[w].begunAt)
    /\ Return(w, Refusal[ClaimVerdict(row, op[w].fingerprint, op[w].begunAt)])
    /\ UNCHANGED <<clock, records, holder, orphan, sweep, alarm>>

\* The call to the object fails, before or after the object has run begin.
DurableBeginError(w) ==
    /\ FaultsAllowed
    /\ pc[w] = "begin"
    /\ ObjectClaim(w) \/ UNCHANGED <<records, holder, sweep, alarm>>
    /\ IF FailOpen
       THEN pc' = [pc EXCEPT ![w] = "run"] /\ UNCHANGED <<op, fence, sent, out>>
       ELSE Return(w, "store_error")
    /\ UNCHANGED <<clock, orphan>>

-----------------------------------------------------------------------------
(* complete and abandon                                                    *)

ObjectComplete(w) ==
    LET k == op[w].key IN
    records' = [records EXCEPT ![k] =
                  IF CompleteWhere(@, fence[w], sent[w].at)
                  THEN UpdatedRow(@, sent[w].result) ELSE @]

DurableComplete(w) ==
    /\ pc[w] = "complete"
    /\ ObjectComplete(w)
    /\ Return(w, IF \/ CompleteWhere(RowOf(w), fence[w], sent[w].at)
                    \/ CompleteVerdict(RowOf(w), fence[w], sent[w].at) = "ok"
                 THEN "stored" ELSE "unstored")
    /\ orphan' = [orphan EXCEPT ![w] = FALSE]
    /\ UNCHANGED <<clock, holder, sweep, alarm>>

DurableCompleteError(w) ==
    /\ FaultsAllowed
    /\ pc[w] = "complete"
    /\ ObjectComplete(w) \/ UNCHANGED records
    /\ Return(w, "unstored")
    /\ orphan' = [orphan EXCEPT ![w] = FALSE]
    /\ UNCHANGED <<clock, holder, sweep, alarm>>

\* Rows of ks are deleted together with their entries in the sweep table.
DeleteRows(ks) ==
    /\ records' = [k \in Keys |-> IF k \in ks THEN Absent ELSE records[k]]
    /\ holder' = [k \in Keys |-> IF k \in ks THEN Nobody ELSE holder[k]]
    /\ orphan' = Orphaned({k \in ks : Present(records[k])})
    /\ sweep' = [k \in Keys |-> IF k \in ks THEN Unset ELSE sweep[k]]

\* The alarm stays where it is.
ObjectAbandon(w) ==
    /\ DeleteRows({k \in {op[w].key} : AbandonWhere(records[k], fence[w])})
    /\ UNCHANGED alarm

DurableAbandon(w) ==
    /\ pc[w] = "abandon"
    /\ ObjectAbandon(w)
    /\ Return(w, out[w])
    /\ UNCHANGED clock

DurableAbandonError(w) ==
    /\ FaultsAllowed
    /\ pc[w] = "abandon"
    /\ ObjectAbandon(w) \/ UNCHANGED <<records, holder, orphan, sweep, alarm>>
    /\ Return(w, out[w])
    /\ UNCHANGED clock

-----------------------------------------------------------------------------
(* Removal                                                                 *)

\* purge goes by the caller's clock, and drops the entries whose row is gone.
DurablePurge ==
    /\ \E r \in Readings : DeleteRows({k \in Keys : PurgeWhere(records[k], r)})
    /\ UNCHANGED <<clock, worker, alarm>>

\* The earliest time among the entries of keys ks.
Earliest(ks) ==
    IF ks = {} THEN Unset
    ELSE CHOOSE t \in {sweep[k] : k \in ks} : \A k \in ks : t <= sweep[k]

\* Mutant: the alarm is not set again after a sweep.
RearmedNever(left) == Unset

\* The alarm after a sweep that leaves the entries of the keys left.
Rearmed(left) == Earliest(left)

\* The keys whose entries are due.
Due(now) == {k \in Keys : Listed(k) /\ sweep[k] <= now}

\* The platform fires the alarm, which is unset from then on: the rows that are
\* due on the object's clock go, whatever they hold, and the alarm is set for
\* the earliest of the others.
Alarm ==
    /\ alarm # Unset /\ alarm <= clock
    /\ DeleteRows(Due(clock))
    /\ alarm' = Rearmed({k \in Keys : Listed(k)} \ Due(clock))
    /\ UNCHANGED <<clock, worker>>

-----------------------------------------------------------------------------
\* The steps of execute that call no store.
DurableElsewhere(w) ==
    /\ RunUnclaimed(w) \/ RunStored(w) \/ RunFailed(w)
    /\ UNCHANGED <<sweep, alarm>>

DurableStep(w) ==
    \/ DurableAcquired(w) \/ DurableRefused(w)
    \/ DurableComplete(w) \/ DurableAbandon(w)
    \/ DurableElsewhere(w)

DurableFault(w) ==
    \/ DurableBeginError(w) \/ DurableCompleteError(w) \/ DurableAbandonError(w)
    \/ (StoreResultThrows(w) \/ Crash(w)) /\ UNCHANGED <<sweep, alarm>>

DurableNext ==
    \/ \E w \in Workers, k \in Keys, f \in Fingerprints :
         Request(w, k, f) /\ UNCHANGED <<sweep, alarm>>
    \/ \E w \in Workers : DurableStep(w) \/ DurableFault(w)
    \/ Tick /\ UNCHANGED <<sweep, alarm>>
    \/ DurablePurge
    \/ Alarm

DurableSpec == DurableInit /\ [][DurableNext]_durableVars

\* Time passes, and the platform fires an alarm whose time has come.
DurableFairSpec ==
    /\ DurableSpec
    /\ WF_durableVars(Tick /\ UNCHANGED <<sweep, alarm>>)
    /\ WF_durableVars(Alarm)

-----------------------------------------------------------------------------
(* Properties                                                              *)

\* The object's own state is well typed.
DurableTypeOK ==
    /\ TypeOK
    /\ sweep \in [Keys -> Int \cup {Unset}]
    /\ alarm \in Int \cup {Unset}

\* execute on a Durable Object is execute on the contract's store: the alarm is
\* the native sweep, and deletes nothing before the end of its life and a grace.
DurableImplementsEngine == Spec

\* The alarm is never later than the first row that is due: every row is
\* listed, and while rows are listed the alarm is set for the first of them or
\* for a time before it.
AlarmCoversRows ==
    /\ \A k \in Keys : Present(records[k]) <=> Listed(k)
    /\ \A k \in Keys : Listed(k) => alarm # Unset /\ alarm <= sweep[k]

\* No caller finds its row gone while its own clock shows the row alive: the
\* alarm only takes rows that are dead for every clock.  This needs a grace of
\* twice the skew.
SweepsOnlyDead ==
    [][Alarm => \A k \in Keys : Live(records[k], clock - Skew) => records'[k] = records[k]]_durableVars

\* The object forgets, without anybody's purge: again and again no entry of the
\* sweep table is overdue, whenever the entries were made and however often the
\* alarm has fired before, so that the table does not grow with the keys ever used.
RowsForgotten == []<>(\A k \in Keys : ~(Listed(k) /\ sweep[k] <= clock))

=============================================================================
