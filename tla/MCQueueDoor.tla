---------------------------- MODULE MCQueueDoor -----------------------------
(***************************************************************************)
(* Small queues: one message, and two that share a key but not their       *)
(* payload.  Copies come of the broker's delivering a message again.       *)
(***************************************************************************)
EXTENDS QueueDoor, TLC

CONSTANTS k1, f1, f2, d1, d2, w1, w2

OneMessage == [d \in {d1} |-> [key |-> k1, fingerprint |-> f1]]

ReusedKey == [d \in {d1, d2} |-> [key |-> k1, fingerprint |-> IF d = d1 THEN f1 ELSE f2]]

\* The two messages are interchangeable, with their payloads.
Symmetry == {(d1 :> d2) @@ (d2 :> d1) @@ (f1 :> f2) @@ (f2 :> f1)}

AllRetry == [w \in Workers |-> "retry"]
OneAcks == [w \in Workers |-> IF w = w1 THEN "retry" ELSE "ack"]

AllHaveStrategy == [w \in Workers |-> TRUE]
OneHasStrategy == [w \in Workers |-> w = w1]

=============================================================================
