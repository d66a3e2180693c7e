------------------------------ MODULE Exchange ------------------------------
(***************************************************************************)
(* What an HTTP client is promised of an answer that an idempotent handler *)
(* gives it (REQ-HTTP-7): its body arrives chunk by chunk, in order; it    *)
(* ends only when all of it has arrived and the fate of its record is      *)
(* settled, so that a retry after the end meets no attempt in progress.    *)
(* An answer may break off, and the client may leave; whatever the client  *)
(* does, the record is settled in its own time.                            *)
(***************************************************************************)
EXTENDS Naturals, Sequences

CONSTANTS
    Clients,     \* those who are answered, each one answer at a time
    MaxChunks    \* the longest body

VARIABLES
    state,     \* how each answer stands in the eyes of its client
    length,    \* how many chunks it has
    got,       \* the chunks that have arrived
    settled    \* the idempotency layer is through with the attempt

exchange == <<state, length, got, settled>>

ExchangeInit ==
    /\ state = [c \in Clients |-> "none"]
    /\ length = [c \in Clients |-> 0]
    /\ got = [c \in Clients |-> <<>>]
    /\ settled = [c \in Clients |-> TRUE]

\* A request is taken up, and the layer begins an attempt.
Begin(c) ==
    /\ state[c] = "none" /\ settled[c]
    /\ settled' = [settled EXCEPT ![c] = FALSE]
    /\ UNCHANGED <<state, length, got>>

\* The handler's answer is there.
Open(c) ==
    /\ state[c] = "none" /\ ~settled[c]
    /\ state' = [state EXCEPT ![c] = "open"]
    /\ \E n \in 0 .. MaxChunks : length' = [length EXCEPT ![c] = n]
    /\ UNCHANGED <<got, settled>>

\* The next chunk arrives.
Arrive(c) ==
    /\ state[c] = "open" /\ Len(got[c]) < length[c]
    /\ got' = [got EXCEPT ![c] = Append(@, Len(@) + 1)]
    /\ UNCHANGED <<state, length, settled>>

\* The attempt is over, whatever has become of the client.
Settle(c) ==
    /\ ~settled[c]
    /\ settled' = [settled EXCEPT ![c] = TRUE]
    /\ UNCHANGED <<state, length, got>>

\* The process that answers dies: the attempt and the connection go at once.
Die(c) ==
    /\ ~settled[c]
    /\ settled' = [settled EXCEPT ![c] = TRUE]
    /\ state' = [state EXCEPT ![c] = IF @ = "open" THEN "broken" ELSE @]
    /\ UNCHANGED <<length, got>>

\* The body ends.
End(c) ==
    /\ state[c] = "open"
    /\ settled[c] /\ Len(got[c]) = length[c]
    /\ state' = [state EXCEPT ![c] = "ended"]
    /\ UNCHANGED <<length, got, settled>>

\* The answer breaks off, or its client goes away.
Interrupt(c) ==
    /\ state[c] = "open"
    /\ \E s \in {"broken", "left"} : state' = [state EXCEPT ![c] = s]
    /\ UNCHANGED <<length, got, settled>>

\* Nothing is left of the exchange.
Forget(c) ==
    /\ state[c] # "open" /\ settled[c]
    /\ state' = [state EXCEPT ![c] = "none"]
    /\ length' = [length EXCEPT ![c] = 0]
    /\ got' = [got EXCEPT ![c] = <<>>]
    /\ UNCHANGED settled

ExchangeNext ==
    \E c \in Clients :
        \/ Begin(c) \/ Open(c) \/ Arrive(c) \/ Settle(c) \/ Die(c)
        \/ End(c) \/ Interrupt(c) \/ Forget(c)

ExchangeSpec == ExchangeInit /\ [][ExchangeNext]_exchange

=============================================================================
