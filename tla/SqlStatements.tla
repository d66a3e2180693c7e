---------------------------- MODULE SqlStatements ---------------------------
(***************************************************************************)
(* The SQL statements of the stores that keep their rows in a table        *)
(* (packages/stores/src/sql.ts and go/store/internal/sqlstore, which share *)
(* the text): which row a conditional write finds, what it makes of the    *)
(* row, and what the caller reads out of the SELECT that follows a write   *)
(* that found none.  Only the shape of a row is taken from ClaimStore.     *)
(***************************************************************************)
EXTENDS ClaimStore

-----------------------------------------------------------------------------
(* begin                                                                   *)

\* When INSERT ... ON CONFLICT DO UPDATE ... WHERE writes the row.
ClaimWhere(row, f, now) ==
    \/ ~Present(row)
    \/ row.expiresAt <= now
    \/ row.fingerprint = f /\ row.state = "in_flight" /\ row.leaseUntil <= now

\* Mutant: the conflict branch starts the fence over.
UpsertedRowFenceRestarts(row, f, now) ==
    [ state |-> "in_flight", fingerprint |-> f, fence |-> 1,
      leaseUntil |-> now + Lease, expiresAt |-> now + Ttl, result |-> NoResult ]

\* The row it writes: VALUES for a new row, the SET list for an old one.
UpsertedRow(row, f, now) ==
    [ state |-> "in_flight", fingerprint |-> f,
      fence |-> IF Present(row) THEN row.fence + 1 ELSE 1,
      leaseUntil |-> now + Lease, expiresAt |-> now + Ttl, result |-> NoResult ]

\* What the SELECT makes of a refused claim: an outcome, or another round.
ClaimVerdict(row, f, now) ==
    CASE ~Present(row) \/ row.expiresAt <= now -> "again"
      [] Live(row, now) /\ row.fingerprint # f -> "mismatch"
      [] Live(row, now) /\ row.fingerprint = f /\ row.state = "completed" -> "completed"
      [] Live(row, now) /\ row.fingerprint = f /\ row.state = "in_flight"
           /\ row.leaseUntil > now -> "in_flight"
      [] OTHER -> "again"

-----------------------------------------------------------------------------
(* complete, abandon and purge                                             *)

\* When UPDATE ... SET state = 'completed' finds its row.
CompleteWhere(row, fc, now) ==
    Present(row) /\ row.fence = fc /\ row.expiresAt > now /\ row.state = "in_flight"

\* The row it writes.
UpdatedRow(row, res) == [row EXCEPT !.state = "completed", !.result = res]

\* What the SELECT makes of a refused UPDATE.
CompleteVerdict(row, fc, now) ==
    IF ~Present(row) \/ row.expiresAt <= now THEN "not_found"
    ELSE IF row.fence # fc THEN "stale_fence" ELSE "ok"

\* When DELETE finds its row.
AbandonWhere(row, fc) == row.fence = fc /\ row.state = "in_flight"

\* When purge's DELETE finds a row.
PurgeWhere(row, now) == Present(row) /\ row.expiresAt <= now

=============================================================================
