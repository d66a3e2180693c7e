----------------------------- MODULE QueueDoor ------------------------------
(***************************************************************************)
(* Message handlers wrapped by the queue door (packages/anyq and           *)
(* go/anyqmw): a delivery becomes an operation, execute runs the handler   *)
(* under it, and the door tells anyq what became of the message.           *)
(*                                                                         *)
(* A worker is one concurrent delivery to one wrapped handler.  anyq and   *)
(* the broker are modelled as far as the door relies on them: a delivery   *)
(* that was not acknowledged comes back, at once, after a park, or because *)
(* the broker has given its consumer up.  A duplicate of a message is      *)
(* another delivery with the same key.  The once-only warning about a      *)
(* missing strategy decides nothing and is left out.                       *)
(***************************************************************************)
EXTENDS Engine

CONSTANTS
    Deliveries,    \* what is on the queue
    NoDelivery,    \* of a worker that handles none
    Message,       \* the identity and the payload of each delivery
    OnInFlight,    \* what each consumer does with a duplicate: "retry" or "ack"
    HasStrategy,   \* does each consumer have the companion strategy?
    MaxAttempts    \* bound: failed attempts before anyq's own dead letter

ASSUME DeliveryAssumption == NoDelivery \notin Deliveries
ASSUME MessageAssumption ==
    Message \in [Deliveries -> [key : Keys, fingerprint : Fingerprints]]
ASSUME OptionsAssumption ==
    OnInFlight \in [Workers -> {"retry", "ack"}] /\ HasStrategy \in [Workers -> BOOLEAN]
ASSUME AttemptsAssumption == MaxAttempts \in Nat \ {0}

VARIABLES
    box,       \* the broker's view of each delivery
    taken,     \* the delivery each worker handles
    met,       \* the end of the lease that refused each worker's begin
    thrown,    \* the error the door has thrown to anyq, before anyq's decision
    handled,   \* history: the messages whose handler has returned
    parkedOn   \* history: the end of the lease a delivery was last parked for

door == <<box, taken, met, thrown, handled, parkedOn>>
doorVars == <<vars, box, taken, met, thrown, handled, parkedOn>>

NoError == [kind |-> "none", delay |-> 0]

DoorInit ==
    /\ Init
    /\ box = [d \in Deliveries |-> [state |-> "queued", at |-> 0, by |-> Nobody, failed |-> 0]]
    /\ taken = [w \in Workers |-> NoDelivery]
    /\ met = [w \in Workers |-> 0]
    /\ thrown = [w \in Workers |-> NoError]
    /\ handled = {}
    /\ parkedOn = [d \in Deliveries |-> 0]

-----------------------------------------------------------------------------
(* A delivery comes in.                                                    *)

\* The time a park ends has come; past the bound of time every park ends.
Due(d) == box[d].at <= clock \/ clock = MaxTime

\* anyq calls the wrapped handler, which derives the operation and executes it.
Deliver(w, d) ==
    /\ taken[w] = NoDelivery
    /\ box[d].state = "queued" /\ Due(d)
    /\ box' = [box EXCEPT ![d].state = "out", ![d].by = w]
    /\ taken' = [taken EXCEPT ![w] = d]
    /\ Request(w, Message[d].key, Message[d].fingerprint)
    /\ UNCHANGED <<met, thrown, handled, parkedOn>>

\* The key or the fingerprint cannot be had, and the error goes to anyq: execute
\* is never called.
Underivable(w, d) ==
    /\ FaultsAllowed
    /\ taken[w] = NoDelivery
    /\ box[d].state = "queued" /\ Due(d)
    /\ box' = [box EXCEPT ![d].state = "out", ![d].by = w]
    /\ taken' = [taken EXCEPT ![w] = d]
    /\ thrown' = [thrown EXCEPT ![w] = [kind |-> "other", delay |-> 0]]
    /\ UNCHANGED <<vars, met, handled, parkedOn>>

-----------------------------------------------------------------------------
(* execute                                                                 *)

\* w's handler returns without an error in this step.
HandlerReturns(w) == pc[w] = "run" /\ out'[w] # "threw"

\* What the door makes of a handler that returns is always to be stored, and has
\* no body to leave out.
OkResult(w) ==
    /\ pc'[w] = "complete" => ~sent'[w].result.omitted
    /\ pc'[w] = "abandon" => out'[w] = "threw"

\* A step of execute; a conflict reports the lease it met.
Execute(w) ==
    /\ WorkerStep(w) \/ BeginError(w) \/ CompleteError(w) \/ AbandonError(w)
    /\ OkResult(w)
    /\ met' = IF out'[w] = "conflict" THEN [met EXCEPT ![w] = RowOf(w).leaseUntil] ELSE met
    /\ handled' = IF HandlerReturns(w) THEN handled \cup {Message[taken[w]]} ELSE handled
    /\ UNCHANGED <<box, taken, thrown, parkedOn>>

-----------------------------------------------------------------------------
(* The door answers anyq.                                                  *)

\* execute has returned and the door has not.
Answered(w) == taken[w] # NoDelivery /\ pc[w] = "idle" /\ thrown[w] = NoError

\* Mutant: a failure of the handler is swallowed.
AckedAnswersAll(w) == {"stored", "unstored", "replayed", "threw"}

\* The results of execute on which the door returns without an error.
AckedAnswers(w) ==
    {"stored", "unstored", "replayed"}
      \cup (IF OnInFlight[w] = "ack" THEN {"conflict"} ELSE {})

\* w is done with its delivery.
LetGo(w) ==
    /\ taken' = [taken EXCEPT ![w] = NoDelivery]
    /\ met' = [met EXCEPT ![w] = 0]
    /\ thrown' = [thrown EXCEPT ![w] = NoError]
    /\ out' = [out EXCEPT ![w] = "none"]
    /\ UNCHANGED <<clock, records, pc, op, fence, sent, holder, orphan>>

\* The broker still takes w for the consumer of its delivery.
Owns(w) == box[taken[w]].state = "out" /\ box[taken[w]].by = w

\* What w reports counts, unless the broker has given w up.
Report(w, new) ==
    box' = [box EXCEPT ![taken[w]] = IF Owns(w) THEN new ELSE @]

Entry(state, at, failed) == [state |-> state, at |-> at, by |-> Nobody, failed |-> failed]

\* The handler returns, and anyq acknowledges the message.
Acknowledge(w) ==
    /\ Answered(w)
    /\ out[w] \in AckedAnswers(w)
    /\ Report(w, [Entry("acked", 0, 0) EXCEPT !.by = w])
    /\ LetGo(w)
    /\ UNCHANGED <<handled, parkedOn>>

\* Mutant: the duplicate comes back after the shortest delay.
DelayShortest(until, now) == 1

\* How long the in-flight error asks to park: the rest of the lease, at least 1.
Delay(until, now) == IF until - now < 1 THEN 1 ELSE until - now

\* A duplicate of a message in flight is reported with the rest of its lease.
ThrowInFlight(w) ==
    /\ Answered(w)
    /\ out[w] = "conflict" /\ OnInFlight[w] = "retry"
    /\ \E r \in Readings :
         thrown' = [thrown EXCEPT ![w] = [kind |-> "in-flight", delay |-> Delay(met[w], r)]]
    /\ UNCHANGED <<vars, box, taken, met, handled, parkedOn>>

\* Every other answer is an error of its own kind.
ThrowOther(w) ==
    /\ Answered(w)
    /\ out[w] \notin AckedAnswers(w) \cup {"conflict"}
    /\ thrown' = [thrown EXCEPT ![w] =
                    [kind |-> IF out[w] = "mismatch" THEN "mismatch" ELSE "other", delay |-> 0]]
    /\ UNCHANGED <<vars, box, taken, met, handled, parkedOn>>

-----------------------------------------------------------------------------
(* anyq asks its strategy about the error.                                 *)

\* The companion strategy parks a duplicate for the rest of the lease it met.
Park(w) ==
    /\ thrown[w].kind = "in-flight" /\ HasStrategy[w]
    /\ Report(w, Entry("queued", clock + thrown[w].delay, box[taken[w]].failed))
    /\ parkedOn' = [parkedOn EXCEPT ![taken[w]] = IF Owns(w) THEN met[w] ELSE @]
    /\ LetGo(w)
    /\ UNCHANGED handled

\* It dead-letters a message that came with another payload.
DeadLetterMismatch(w) ==
    /\ thrown[w].kind = "mismatch" /\ HasStrategy[w]
    /\ Report(w, Entry("dead", 0, 0))
    /\ LetGo(w)
    /\ UNCHANGED <<handled, parkedOn>>

\* anyq's own policy, for the other errors and without the companion strategy:
\* again, until the message has failed too often.
Delegate(w) ==
    LET failed == box[taken[w]].failed + 1 IN
    /\ thrown[w].kind = "other" \/ (thrown[w] # NoError /\ ~HasStrategy[w])
    /\ Report(w, IF failed < MaxAttempts THEN Entry("queued", 0, failed)
                 ELSE Entry("dead", 0, 0))
    /\ LetGo(w)
    /\ UNCHANGED <<handled, parkedOn>>

-----------------------------------------------------------------------------
(* The consumer dies; the broker gives a consumer up, dead or only slow.   *)

Dies(w) ==
    /\ Crash(w)
    /\ taken' = [taken EXCEPT ![w] = NoDelivery]
    /\ met' = [met EXCEPT ![w] = 0]
    /\ UNCHANGED <<box, thrown, handled, parkedOn>>

\* The worker that the broker gave d to handles it no more.
Forsaken(d) == box[d].state = "out" /\ taken[box[d].by] # d

Redeliver(d) ==
    /\ Forsaken(d) \/ (FaultsAllowed /\ box[d].state = "out")
    /\ box' = [box EXCEPT ![d].state = "queued", ![d].by = Nobody, ![d].at = 0]
    /\ UNCHANGED <<vars, taken, met, thrown, handled, parkedOn>>

-----------------------------------------------------------------------------
DoorStep(w) ==
    \/ Execute(w)
    \/ Acknowledge(w) \/ ThrowInFlight(w) \/ ThrowOther(w)
    \/ Park(w) \/ DeadLetterMismatch(w) \/ Delegate(w)

DoorNext ==
    \/ \E w \in Workers, d \in Deliveries : Deliver(w, d) \/ Underivable(w, d)
    \/ \E w \in Workers : DoorStep(w) \/ Dies(w)
    \/ \E d \in Deliveries : Redeliver(d)
    \/ (Tick \/ Purge) /\ UNCHANGED door

DoorSpec == DoorInit /\ [][DoorNext]_doorVars

\* Time passes, what has begun ends, and the broker delivers again what was not
\* acknowledged.
DoorFairSpec ==
    /\ DoorSpec
    /\ WF_doorVars(Tick /\ UNCHANGED door)
    /\ \A w \in Workers : WF_doorVars(DoorStep(w))
    /\ \A d \in Deliveries : SF_doorVars(\E w \in Workers : Deliver(w, d))
    /\ \A d \in Deliveries : WF_doorVars(Forsaken(d) /\ Redeliver(d))

-----------------------------------------------------------------------------
(* Properties                                                              *)

\* The door's state is well typed.
DoorTypeOK ==
    /\ TypeOK
    /\ box \in [Deliveries -> [ state : {"queued", "out", "acked", "dead"}, at : Nat,
                                by : Workers \cup {Nobody}, failed : 0 .. MaxAttempts ]]
    /\ taken \in [Workers -> Deliveries \cup {NoDelivery}]
    /\ met \in [Workers -> Int]
    /\ thrown \in [Workers -> [kind : {"none", "in-flight", "mismatch", "other"}, delay : Nat]]
    /\ handled \subseteq [key : Keys, fingerprint : Fingerprints]
    /\ parkedOn \in [Deliveries -> Int]

\* A consumer with onInFlight "retry" loses no message, whatever the others do
\* with theirs: it acknowledges a delivery only after a handler has returned for
\* its key and its payload.
AckedMeansHandled ==
    \A d \in Deliveries :
        box[d].state = "acked" /\ OnInFlight[box[d].by] = "retry" => Message[d] \in handled

\* A parked delivery comes back when the lease it met is over: it is never
\* refused by that lease again.
ReentersAfterLease ==
    [][\A w \in Workers :
         pc[w] = "begin" /\ Owns(w) /\ out'[w] = "conflict" /\ clock < MaxTime
           => RowOf(w).leaseUntil > parkedOn[taken[w]]]_doorVars

\* Every delivery is acknowledged or dead-lettered in the end.
DeliveriesSettle ==
    \A d \in Deliveries : <>(box[d].state \in {"acked", "dead"})

=============================================================================
