--------------------------- MODULE ProblemAnswers ---------------------------
(***************************************************************************)
(* The answers of the HTTP doors to requests that do not come to a handler *)
(* (packages/core/src/http/problems.ts, and fail in run.ts and in          *)
(* receiver.ts): a problem, which the application may render itself.       *)
(* Titles, details and links are left out.                                 *)
(*                                                                         *)
(* Headers are a record of the fields that are there.                      *)
(***************************************************************************)
EXTENDS Naturals, TLC

CONSTANTS
    Second,      \* how many units of the clock a second has
    MaxLease     \* bound: the latest time that is looked at

ASSUME AnswerAssumption == Second \in Nat \ {0} /\ MaxLease \in Nat

\* ProblemCode.
Problems ==
    {"missing-key", "invalid-key", "conflict", "fingerprint-mismatch", "payload-too-large",
     "store-unavailable", "missing-principal", "configuration-error", "signature-invalid"}

PROBLEM_STATUS ==
    [ code \in Problems |->
        CASE code \in {"missing-key", "invalid-key"} -> 400
          [] code = "signature-invalid" -> 401
          [] code = "conflict" -> 409
          [] code = "payload-too-large" -> 413
          [] code = "fingerprint-mismatch" -> 422
          [] code \in {"missing-principal", "configuration-error"} -> 500
          [] code = "store-unavailable" -> 503 ]

\* Mutant: the rest of a second is cut off.
retryAfterSecondsFloor(leaseUntil, now) ==
    IF leaseUntil < now + Second THEN 1 ELSE (leaseUntil - now) \div Second

\* The rest of the lease in whole seconds, rounded up, and one at least.
retryAfterSeconds(leaseUntil, now) ==
    IF leaseUntil <= now THEN 1 ELSE (leaseUntil - now + Second - 1) \div Second

\* The second record's fields, where the first does not have them.
Merged(own, headers) ==
    [n \in DOMAIN own \cup DOMAIN headers |-> IF n \in DOMAIN own THEN own[n] ELSE headers[n]]

problemResponse(code, headers) ==
    [ status |-> PROBLEM_STATUS[code], bodyUsed |-> FALSE, copyable |-> TRUE,
      headers |-> Merged(headers, [content_type |-> "problem", cache_control |-> "no-store"]) ]

\* An answer that the application has made keeps what it says itself.  One whose
\* body is used, or that cannot be copied, stays as it is.
withProtocolHeaders(res, headers) ==
    IF res.bodyUsed \/ ~res.copyable THEN res
    ELSE [res EXCEPT !.headers = Merged(@, headers)]

\* rendered is what onError returns for the problem: nothing if there is none.
failWith(code, headers, rendered) ==
    IF rendered = {} THEN problemResponse(code, headers)
    ELSE withProtocolHeaders(CHOOSE res \in rendered : TRUE,
                             Merged(headers, [cache_control |-> "no-store"]))

\* The headers that come with the answers to what execute returns.
ProtocolHeaders(code, leaseUntil, now) ==
    CASE code = "conflict" -> [retry_after |-> retryAfterSeconds(leaseUntil, now)]
      [] code = "store-unavailable" -> [retry_after |-> 1]
      [] OTHER -> <<>>

-----------------------------------------------------------------------------
(* What a problem says                                                     *)

\* No onError, or one whose response has nothing of its own, or its own idea of
\* either header.
Renderings(status) ==
    {{}} \cup { {[status |-> status, headers |-> headers, bodyUsed |-> FALSE, copyable |-> TRUE]} :
                  headers \in {<<>>, [cache_control |-> "max-age"], [retry_after |-> 0]} }

\* A client that waits for as long as a conflict's answer says comes back when
\* the lease it met has ended, and less than two seconds after that; and no cache
\* keeps the conflict for it.  Only what the application says itself is different.
AdvisesRetry ==
    \A lease, now \in 0 .. MaxLease : \A rendered \in Renderings(409) :
        LET own == IF rendered = {} THEN <<>> ELSE (CHOOSE r \in rendered : TRUE).headers
            res == failWith("conflict", ProtocolHeaders("conflict", lease, now), rendered)
        IN  /\ res.status = 409
            /\ "cache_control" \notin DOMAIN own => res.headers.cache_control = "no-store"
            /\ "retry_after" \notin DOMAIN own =>
                 LET back == now + Second * res.headers.retry_after IN
                 /\ back >= lease
                 /\ now <= lease => back < lease + 2 * Second

=============================================================================
