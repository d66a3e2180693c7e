----------------------------- MODULE ClaimStore -----------------------------
(***************************************************************************)
(* The claim store's row and its three transitions, as the in-process      *)
(* store computes them (packages/core/src/memory.ts).  Every other store   *)
(* must agree with these operators: they are the store contract that       *)
(* packages/core/src/types.ts states in words.                             *)
(*                                                                         *)
(* A row is kept per (scope, key).  A missing row is the record Absent,    *)
(* whose fence is 0, so that one formula gives the fence of a first claim  *)
(* (1) and of a later one (the old fence plus 1).  The creation time is    *)
(* left out: no decision reads it.                                         *)
(***************************************************************************)
EXTENDS Integers

CONSTANTS
    Fingerprints,   \* payload fingerprints
    NoFingerprint,  \* the fingerprint of a missing row
    NoResult,       \* the result of a row that is not completed
    Lease,          \* leaseMs: how long a claim is exclusive
    Ttl             \* ttlMs: how long a row is alive

ASSUME LeaseAssumption == Lease \in Nat \ {0}
ASSUME TtlAssumption == Ttl \in Nat \ {0}
ASSUME NoFingerprintAssumption == NoFingerprint \notin Fingerprints

-----------------------------------------------------------------------------
(* Rows.                                                                   *)

Row(results) ==
    [ state       : {"absent", "in_flight", "completed"},
      fingerprint : Fingerprints \cup {NoFingerprint},
      fence       : Nat,
      leaseUntil  : Int,
      expiresAt   : Int,
      result      : results \cup {NoResult} ]

Absent ==
    [ state |-> "absent", fingerprint |-> NoFingerprint, fence |-> 0,
      leaseUntil |-> 0, expiresAt |-> 0, result |-> NoResult ]

Present(row) == row.state # "absent"

\* A row whose time to live has run out counts as absent.
Live(row, now) == Present(row) /\ row.expiresAt > now

-----------------------------------------------------------------------------
(* begin                                                                   *)

\* Mutant: a lapsed lease is taken over whatever the fingerprint is.
BeginOutcomeLeaseFirst(row, f, now) ==
    CASE Live(row, now) /\ row.state = "in_flight" /\ row.leaseUntil <= now -> "acquired"
      [] Live(row, now) /\ (row.state = "completed" \/ row.leaseUntil > now) ->
           IF row.fingerprint # f THEN "mismatch" ELSE row.state
      [] OTHER -> "acquired"

\* Mutant: the lease also decides for a completed row.
BeginOutcomeLeaseOfCompleted(row, f, now) ==
    CASE Live(row, now) /\ row.fingerprint # f -> "mismatch"
      [] Live(row, now) /\ row.fingerprint = f /\ row.leaseUntil > now ->
           IF row.state = "completed" THEN "completed" ELSE "in_flight"
      [] OTHER -> "acquired"

\* Mutant: a lease that ends now counts as live one moment too little.
BeginOutcomeLeaseOffByOne(row, f, now) ==
    CASE Live(row, now) /\ row.fingerprint # f -> "mismatch"
      [] Live(row, now) /\ row.fingerprint = f /\ row.state = "completed" -> "completed"
      [] Live(row, now) /\ row.fingerprint = f /\ row.state = "in_flight"
           /\ row.leaseUntil > now + 1 -> "in_flight"
      [] OTHER -> "acquired"

\* Mutant: a lapsed lease is never taken over.
BeginOutcomeNoTakeover(row, f, now) ==
    CASE Live(row, now) /\ row.fingerprint # f -> "mismatch"
      [] Live(row, now) /\ row.fingerprint = f -> row.state
      [] OTHER -> "acquired"

\* What begin answers: expiry first, then the fingerprint, then state and lease.
BeginOutcome(row, f, now) ==
    CASE Live(row, now) /\ row.fingerprint # f -> "mismatch"
      [] Live(row, now) /\ row.fingerprint = f /\ row.state = "completed" -> "completed"
      [] Live(row, now) /\ row.fingerprint = f /\ row.state = "in_flight"
           /\ row.leaseUntil > now -> "in_flight"
      [] OTHER -> "acquired"

\* Mutant: a takeover restarts the fence although the row is still there.
ClaimedRowFenceRestarts(row, f, now) ==
    [ state |-> "in_flight", fingerprint |-> f, fence |-> 1,
      leaseUntil |-> now + Lease, expiresAt |-> now + Ttl, result |-> NoResult ]

\* Mutant: a claim on a row that is still there keeps the row's fingerprint.
ClaimedRowKeepsPayload(row, f, now) ==
    [ state |-> "in_flight", fence |-> row.fence + 1,
      fingerprint |-> IF Present(row) THEN row.fingerprint ELSE f,
      leaseUntil |-> now + Lease, expiresAt |-> now + Ttl, result |-> NoResult ]

\* The row begin writes when it answers "acquired".
ClaimedRow(row, f, now) ==
    [ state |-> "in_flight", fingerprint |-> f, fence |-> row.fence + 1,
      leaseUntil |-> now + Lease, expiresAt |-> now + Ttl, result |-> NoResult ]

-----------------------------------------------------------------------------
(* complete and abandon                                                    *)

\* Mutant: complete does not compare the fence.
CompleteStatusNoFence(row, fc, now) ==
    IF Live(row, now) THEN "ok" ELSE "not_found"

\* What complete answers.  A row already completed under this fence is "ok".
CompleteStatus(row, fc, now) ==
    IF ~Live(row, now) THEN "not_found"
    ELSE IF row.fence # fc THEN "stale_fence" ELSE "ok"

\* Mutant: a result whose body was left out is answered "ok" and not stored.
CompletedRowSkipsOmitted(row, fc, now, res) ==
    IF CompleteStatus(row, fc, now) = "ok" /\ row.state = "in_flight" /\ ~res.omitted
    THEN [row EXCEPT !.state = "completed", !.result = res]
    ELSE row

\* The row complete leaves behind.
CompletedRow(row, fc, now, res) ==
    IF CompleteStatus(row, fc, now) = "ok" /\ row.state = "in_flight"
    THEN [row EXCEPT !.state = "completed", !.result = res]
    ELSE row

\* Mutant: abandon does not compare the fence.
AbandonStatusNoFence(row, fc) ==
    IF row.state # "in_flight" THEN "not_found" ELSE "ok"

\* What abandon answers.
AbandonStatus(row, fc) ==
    IF row.state # "in_flight" THEN "not_found"
    ELSE IF row.fence # fc THEN "stale_fence" ELSE "ok"

\* The row abandon leaves behind: the row is deleted, and with it its fence.
AbandonedRow(row, fc) ==
    IF AbandonStatus(row, fc) = "ok" THEN Absent ELSE row

-----------------------------------------------------------------------------
(* purge                                                                   *)

\* Mutant: purge also clears what is in flight.
PurgedRowInFlight(row, now) ==
    IF Live(row, now) /\ row.state = "completed" THEN row ELSE Absent

\* What purge leaves of a row.
PurgedRow(row, now) ==
    IF Live(row, now) THEN row ELSE Absent

=============================================================================
