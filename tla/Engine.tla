------------------------------- MODULE Engine -------------------------------
(***************************************************************************)
(* Workers that call execute (packages/core/src/engine.ts) on one shared   *)
(* claim store.                                                            *)
(*                                                                         *)
(* A store call is atomic at the store, but the worker reads its clock,    *)
(* sends the call and hears the answer at three different moments, and     *)
(* everything can happen in between: other workers' calls, the passing of  *)
(* time, a crash, an error in place of the answer (whether or not the      *)
(* store had already applied the call), a client library that sends the    *)
(* call a second time.  One attempt is the path                            *)
(*                                                                         *)
(*      idle -> begin -> run -> complete or abandon -> idle                *)
(*                                                                         *)
(* where pc[w] = "begin", "complete" or "abandon" says that this call is   *)
(* sent and unanswered, and "run" that the handler runs.                   *)
(*                                                                         *)
(* holder and orphan are history variables: holder[k] is the worker whose  *)
(* begin wrote the row of k, and orphan[w] says that the row of w's key    *)
(* has been deleted since w acquired its claim.  No guard reads them.      *)
(***************************************************************************)
EXTENDS ClaimStore, FiniteSets

CONSTANTS
    Workers,       \* the processes that call execute
    Keys,          \* (scope, key) pairs
    NoKey,         \* the key of an idle worker
    Nobody,        \* the holder of a key without a row
    Skew,          \* how far a worker's clock reading may be off
    Grace,         \* nativeTtlGraceMs: how much longer a store keeps a dead row
    Overrun,       \* may an attempt outlive its lease?
    Resend,        \* may the store's client library send a call twice?
    FailOpen,      \* onStoreError = 'fail-open'
    MaxTime,       \* bound: the clock stops here
    FaultHorizon   \* bound: no fault happens from this time on

ASSUME SkewAssumption == Skew \in Nat
ASSUME GraceAssumption == Grace \in Nat
ASSUME BoundAssumption == MaxTime \in Nat /\ FaultHorizon \in Nat
ASSUME FlagAssumption == {Overrun, Resend, FailOpen} \subseteq BOOLEAN
ASSUME NoKeyAssumption == NoKey \notin Keys
ASSUME NobodyAssumption == Nobody \notin Workers

VARIABLES
    clock,    \* the true time
    records,  \* the store's rows
    pc,       \* where each worker's attempt is
    op,       \* each attempt's key, fingerprint and begin reading
    fence,    \* the fence of the claim each worker holds; 0 without one
    sent,     \* the payload of an outstanding complete and its clock reading
    out,      \* the answer of execute (meant for the caller once pc = "idle")
    holder,   \* history: whose begin wrote the row
    orphan    \* history: the row was deleted since the worker claimed it

worker == <<pc, op, fence, sent, out>>
vars == <<clock, records, pc, op, fence, sent, out, holder, orphan>>

\* What a handler's run can leave in the store: whose run it was, the payload
\* it ran for, and whether its body was over maxResultBytes and left out.
Results == [by : Workers, of : Fingerprints, omitted : BOOLEAN]

Steps == {"idle", "begin", "run", "complete", "abandon"}

Answers == {"none", "stored", "unstored", "replayed", "conflict",
            "mismatch", "store_error", "threw"}

NoOp == [key |-> NoKey, fingerprint |-> NoFingerprint, begunAt |-> 0]
NoSent == [at |-> 0, result |-> NoResult]

\* What a worker's clock may show now.
Readings == (clock - Skew) .. (clock + Skew)

\* The row of the key that w's attempt is about.
RowOf(w) == records[op[w].key]

\* The answer of w's outstanding begin.
Outcome(w) == BeginOutcome(RowOf(w), op[w].fingerprint, op[w].begunAt)

\* w runs, completes or abandons under a claim.
Claiming(w) == fence[w] # 0

\* Faults stop at the horizon.
FaultsAllowed == clock < FaultHorizon

-----------------------------------------------------------------------------
Init ==
    /\ clock = 0
    /\ records = [k \in Keys |-> Absent]
    /\ pc = [w \in Workers |-> "idle"]
    /\ op = [w \in Workers |-> NoOp]
    /\ fence = [w \in Workers |-> 0]
    /\ sent = [w \in Workers |-> NoSent]
    /\ out = [w \in Workers |-> "none"]
    /\ holder = [k \in Keys |-> Nobody]
    /\ orphan = [w \in Workers |-> FALSE]

\* execute returns (or throws) to its caller: the attempt is over.
Return(w, answer) ==
    /\ pc' = [pc EXCEPT ![w] = "idle"]
    /\ op' = [op EXCEPT ![w] = NoOp]
    /\ fence' = [fence EXCEPT ![w] = 0]
    /\ sent' = [sent EXCEPT ![w] = NoSent]
    /\ out' = [out EXCEPT ![w] = answer]

\* The store applies w's begin.
ApplyBegin(w) ==
    LET k == op[w].key IN
    IF Outcome(w) = "acquired"
    THEN /\ records' = [records EXCEPT ![k] =
                          ClaimedRow(@, op[w].fingerprint, op[w].begunAt)]
         /\ holder' = [holder EXCEPT ![k] = w]
    ELSE UNCHANGED <<records, holder>>

\* The store applies w's complete.
ApplyComplete(w) ==
    records' = [records EXCEPT ![op[w].key] =
                  CompletedRow(@, fence[w], sent[w].at, sent[w].result)]

\* Whoever claims a key of ks has lost the row that held its fence.
Orphaned(ks) ==
    [v \in Workers |-> orphan[v] \/ (Claiming(v) /\ op[v].key \in ks)]

\* The store applies w's abandon.
ApplyAbandon(w) ==
    LET k == op[w].key
        gone == IF AbandonStatus(records[k], fence[w]) = "ok" THEN {k} ELSE {}
    IN  /\ records' = [records EXCEPT ![k] = AbandonedRow(@, fence[w])]
        /\ holder' = [j \in Keys |-> IF j \in gone THEN Nobody ELSE holder[j]]
        /\ orphan' = Orphaned(gone)

-----------------------------------------------------------------------------
(* begin                                                                   *)

\* A caller enters execute, reads its clock and sends begin.
Request(w, k, f) ==
    /\ pc[w] = "idle"
    /\ \E r \in Readings :
         op' = [op EXCEPT ![w] = [key |-> k, fingerprint |-> f, begunAt |-> r]]
    /\ pc' = [pc EXCEPT ![w] = "begin"]
    /\ out' = [out EXCEPT ![w] = "none"]
    /\ UNCHANGED <<clock, records, fence, sent, holder, orphan>>

\* begin answers "acquired": the handler runs under the row's new fence.
BeginAcquired(w) ==
    /\ pc[w] = "begin"
    /\ Outcome(w) = "acquired"
    /\ ApplyBegin(w)
    /\ fence' = [fence EXCEPT ![w] = records'[op[w].key].fence]
    /\ orphan' = [orphan EXCEPT ![w] = FALSE]
    /\ pc' = [pc EXCEPT ![w] = "run"]
    /\ UNCHANGED <<clock, op, sent, out>>

\* Mutant: the store's words are passed on as they are.
RefusalUntranslated ==
    [completed |-> "completed", in_flight |-> "in_flight", mismatch |-> "mismatch"]

\* How execute names the outcomes that do not run the handler.
Refusal == [completed |-> "replayed", in_flight |-> "conflict", mismatch |-> "mismatch"]

\* begin answers with what it found, and execute passes that on.
BeginRefused(w) ==
    /\ pc[w] = "begin"
    /\ Outcome(w) # "acquired"
    /\ Return(w, Refusal[Outcome(w)])
    /\ UNCHANGED <<clock, records, holder, orphan>>

\* begin throws, whether or not the store has applied it.  Fail-closed answers
\* store_error; fail-open runs the handler without a claim.
BeginError(w) ==
    /\ FaultsAllowed
    /\ pc[w] = "begin"
    /\ ApplyBegin(w) \/ UNCHANGED <<records, holder>>
    /\ IF FailOpen
       THEN /\ pc' = [pc EXCEPT ![w] = "run"]
            /\ UNCHANGED <<op, fence, sent, out>>
       ELSE Return(w, "store_error")
    /\ UNCHANGED <<clock, orphan>>

\* The store applies begin, its answer is lost, and the client library sends
\* the same begin again.
BeginResent(w) ==
    /\ Resend /\ FaultsAllowed
    /\ pc[w] = "begin"
    /\ Outcome(w) = "acquired"
    /\ ApplyBegin(w)
    /\ UNCHANGED <<clock, worker, orphan>>

-----------------------------------------------------------------------------
(* The handler                                                             *)

\* Without a claim the result, or the error, goes straight to the caller.
RunUnclaimed(w) ==
    /\ pc[w] = "run"
    /\ ~Claiming(w)
    /\ \E answer \in {"unstored", "threw"} : Return(w, answer)
    /\ UNCHANGED <<clock, records, holder, orphan>>

\* The handler returns a result the policy stores, with or without its body:
\* execute reads its clock again and sends complete.
RunStored(w) ==
    /\ pc[w] = "run"
    /\ Claiming(w)
    /\ \E r \in Readings, omitted \in BOOLEAN :
         sent' = [sent EXCEPT ![w] =
                    [ at |-> r,
                      result |-> [ by |-> w, of |-> op[w].fingerprint,
                                   omitted |-> omitted ] ]]
    /\ pc' = [pc EXCEPT ![w] = "complete"]
    /\ UNCHANGED <<clock, records, op, fence, out, holder, orphan>>

\* The policy does not store the result, or the handler throws: execute sends
\* abandon, and will answer its caller after it.
RunFailed(w) ==
    /\ pc[w] = "run"
    /\ Claiming(w)
    /\ \E answer \in {"unstored", "threw"} : out' = [out EXCEPT ![w] = answer]
    /\ pc' = [pc EXCEPT ![w] = "abandon"]
    /\ UNCHANGED <<clock, records, op, fence, sent, holder, orphan>>

\* policy.storeResult itself throws, outside every try: the claim stays.
StoreResultThrows(w) ==
    /\ FaultsAllowed
    /\ pc[w] = "run"
    /\ Claiming(w)
    /\ Return(w, "threw")
    /\ orphan' = [orphan EXCEPT ![w] = FALSE]
    /\ UNCHANGED <<clock, records, holder>>

-----------------------------------------------------------------------------
(* complete and abandon                                                    *)

Complete(w) ==
    /\ pc[w] = "complete"
    /\ ApplyComplete(w)
    /\ Return(w, IF CompleteStatus(RowOf(w), fence[w], sent[w].at) = "ok"
                 THEN "stored" ELSE "unstored")
    /\ orphan' = [orphan EXCEPT ![w] = FALSE]
    /\ UNCHANGED <<clock, holder>>

CompleteError(w) ==
    /\ FaultsAllowed
    /\ pc[w] = "complete"
    /\ ApplyComplete(w) \/ UNCHANGED records
    /\ Return(w, "unstored")
    /\ orphan' = [orphan EXCEPT ![w] = FALSE]
    /\ UNCHANGED <<clock, holder>>

CompleteResent(w) ==
    /\ Resend /\ FaultsAllowed
    /\ pc[w] = "complete"
    /\ ApplyComplete(w)
    /\ UNCHANGED <<clock, worker, holder, orphan>>

\* The answer of abandon is ignored.
Abandon(w) ==
    /\ pc[w] = "abandon"
    /\ ApplyAbandon(w)
    /\ Return(w, out[w])
    /\ UNCHANGED clock

\* So is its error: only a hook hears of it.
AbandonError(w) ==
    /\ FaultsAllowed
    /\ pc[w] = "abandon"
    /\ ApplyAbandon(w) \/ UNCHANGED <<records, holder, orphan>>
    /\ Return(w, out[w])
    /\ UNCHANGED clock

AbandonResent(w) ==
    /\ Resend /\ FaultsAllowed
    /\ pc[w] = "abandon"
    /\ ApplyAbandon(w)
    /\ UNCHANGED <<clock, worker>>

-----------------------------------------------------------------------------
(* The surroundings: crashes, time, and the removal of dead rows           *)

\* The process dies.  A call it had sent was applied before or never is.
Crash(w) ==
    /\ FaultsAllowed
    /\ pc[w] # "idle"
    /\ Return(w, "none")
    /\ orphan' = [orphan EXCEPT ![w] = FALSE]
    /\ UNCHANGED <<clock, records, holder>>

\* The first moment at which w's claim can be taken over or count as dead.
ClaimEnd(w) == op[w].begunAt + (IF Lease <= Ttl THEN Lease ELSE Ttl)

\* Time passes.  Unless attempts may overrun, they end before any clock shows
\* the end of their claim ("Choose leaseMs longer than the slowest handler").
Tick ==
    /\ clock < MaxTime
    /\ Overrun \/ \A w \in Workers :
                    pc[w] # "idle" => clock + 1 + Skew < ClaimEnd(w)
    /\ clock' = clock + 1
    /\ UNCHANGED <<records, worker, holder, orphan>>

\* A row goes, and with it the fence that the next claim would continue.
RemoveRows(ks, purged) ==
    /\ records' = [k \in Keys |-> IF k \in ks THEN purged[k] ELSE records[k]]
    /\ holder' = [k \in Keys |-> IF Present(records'[k]) THEN holder[k] ELSE Nobody]
    /\ orphan' = Orphaned({k \in ks : Present(records[k]) /\ ~Present(purged[k])})
    /\ UNCHANGED <<clock, worker>>

\* A maintenance job calls purge with its own reading of the clock.
Purge ==
    \E r \in Readings :
        RemoveRows(Keys, [k \in Keys |-> PurgedRow(records[k], r)])

\* The store's native TTL deletes rows, Grace after the end of their lives as
\* counted from the moment of the write.
NativeSweep(ks) ==
    /\ \A k \in ks : Present(records[k]) /\ clock + Skew >= records[k].expiresAt + Grace
    /\ RemoveRows(ks, [k \in Keys |-> Absent])

-----------------------------------------------------------------------------
WorkerStep(w) ==
    \/ BeginAcquired(w) \/ BeginRefused(w)
    \/ RunUnclaimed(w) \/ RunStored(w) \/ RunFailed(w)
    \/ Complete(w) \/ Abandon(w)

Fault(w) ==
    \/ BeginError(w) \/ BeginResent(w)
    \/ StoreResultThrows(w)
    \/ CompleteError(w) \/ CompleteResent(w)
    \/ AbandonError(w) \/ AbandonResent(w)
    \/ Crash(w)

Next ==
    \/ \E w \in Workers, k \in Keys, f \in Fingerprints : Request(w, k, f)
    \/ \E w \in Workers : WorkerStep(w)
    \/ \E w \in Workers : Fault(w)
    \/ Tick
    \/ Purge
    \/ \E ks \in SUBSET Keys : NativeSweep(ks)

Spec == Init /\ [][Next]_vars

\* Time passes, calls are answered, handlers end, and callers keep retrying
\* every key.  Nothing is assumed of purge and of the native sweep.
Fairness ==
    /\ WF_vars(Tick)
    /\ \A w \in Workers : WF_vars(WorkerStep(w))
    /\ \A k \in Keys : \A f \in Fingerprints :
         WF_vars(\E w \in Workers : Request(w, k, f))

FairSpec == Spec /\ Fairness

-----------------------------------------------------------------------------
(* Properties                                                              *)

\* The type invariant of the engine's and the store's state.
TypeOK ==
    /\ clock \in Nat
    /\ records \in [Keys -> Row(Results)]
    /\ pc \in [Workers -> Steps]
    /\ op \in [Workers -> [ key : Keys \cup {NoKey},
                            fingerprint : Fingerprints \cup {NoFingerprint},
                            begunAt : Int ]]
    /\ fence \in [Workers -> Nat]
    /\ sent \in [Workers -> [at : Int, result : Results \cup {NoResult}]]
    /\ out \in [Workers -> Answers]
    /\ holder \in [Keys -> Workers \cup {Nobody}]
    /\ orphan \in [Workers -> BOOLEAN]

\* The lease is how long a claim is exclusive: two attempts that claim the same
\* key never both stand within their leases, so no two handlers of one key run
\* at once while leases are respected.
ExclusiveWhileLeased ==
    \A v, w \in Workers :
        /\ v # w
        /\ Claiming(v) /\ Claiming(w)
        /\ op[v].key = op[w].key
        => op[v].begunAt + Lease <= clock \/ op[w].begunAt + Lease <= clock

\* A stored result was produced for the very payload its row is kept for: what
\* a replay returns answers the request that is being replayed.
ReplayMatchesPayload ==
    \A k \in Keys :
        records[k].state = "completed" => records[k].result.of = records[k].fingerprint

\* The fence invalidates completions from a superseded lease holder: a stored
\* result comes from the worker whose begin wrote the row.
StoredByHolder ==
    \A k \in Keys :
        records[k].state = "completed" => records[k].result.by = holder[k]

\* As long as no row was deleted under it, a worker's fence is a faithful
\* witness: its row is still there, and either the fence has moved on or the
\* row is the worker's own.
FenceWitnessesClaim ==
    \A w \in Workers :
        Claiming(w) /\ ~orphan[w] =>
            /\ Present(RowOf(w))
            /\ \/ RowOf(w).fence > fence[w]
               \/ RowOf(w).fence = fence[w] /\ holder[op[w].key] = w

\* A superseded worker can store a result in another worker's row only after
\* the row it had claimed was deleted.
LateWriterFenced ==
    [][\A k \in Keys :
         records[k].state = "in_flight" /\ records'[k].state = "completed" =>
             \/ records'[k].result.by = holder[k]
             \/ orphan[records'[k].result.by]]_vars

\* A row that is alive for every clock goes only when its own worker abandons
\* it, or when a worker does whose row was deleted before.
LiveClaimRemovedByHolder ==
    [][\A k \in Keys :
         Live(records[k], clock + Skew) /\ ~Present(records'[k]) =>
             \E w \in Workers :
                 /\ pc[w] = "abandon" /\ op[w].key = k
                 /\ holder[k] = w \/ orphan[w]]_vars

\* A completed row never changes and never goes before its time to live has
\* run out: every replay of a key returns the same result.
CompletedStable ==
    [][\A k \in Keys :
         records[k].state = "completed" /\ records[k].expiresAt > clock + Skew
             => records'[k] = records[k]]_vars

\* Until it dies or is abandoned a key stays bound to one payload, even once
\* its lease has lapsed: a takeover never runs another payload.
PayloadFixedWhileAlive ==
    [][\A k \in Keys :
         Live(records[k], clock + Skew) /\ Present(records'[k])
             => records'[k].fingerprint = records[k].fingerprint]_vars

\* When execute reports its result as stored, the store holds that very result.
StoredAnswerTrue ==
    [][\A w \in Workers :
         pc[w] = "complete" /\ pc'[w] = "idle" /\ out'[w] = "stored" =>
             /\ records'[op[w].key].state = "completed"
             /\ records'[op[w].key].result = sent[w].result]_vars

\* No stuck keys: whatever crashed, a claim does not stay in flight for ever,
\* long before its row would die.
NoStuckKey ==
    \A k \in Keys : records[k].state = "in_flight" ~> records[k].state # "in_flight"

=============================================================================
