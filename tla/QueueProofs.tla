---------------------------- MODULE QueueProofs -----------------------------
(***************************************************************************)
(* The queue door acknowledges only what was handled, parks a duplicate    *)
(* until the lease it met is over, and keeps what the engine promises.     *)
(***************************************************************************)
EXTENDS QueueDoor, EngineProofs

-----------------------------------------------------------------------------
(* The inductive invariants                                                *)

\* An attempt is about the delivery its worker has taken; an error is thrown
\* after the attempt; and what execute will answer is open until then.
DoorShape ==
    \A w \in Workers :
        /\ pc[w] # "idle" =>
             /\ taken[w] \in Deliveries /\ thrown[w] = NoError
             /\ op[w].key = Message[taken[w]].key
             /\ op[w].fingerprint = Message[taken[w]].fingerprint
        /\ thrown[w] # NoError => taken[w] \in Deliveries
        /\ pc[w] \in {"begin", "run", "complete"} => out[w] = "none"
        /\ pc[w] = "abandon" => out[w] = "threw"
        /\ taken[w] = NoDelivery => out[w] = "none"

DoorInv == TypeInv /\ DoorTypeOK /\ DoorShape

\* Every completed row, every result on its way to the store and every answer
\* that will be acknowledged has a handler that returned.
Witnessed ==
    /\ \A k \in Keys : records[k].state = "completed" =>
         [key |-> k, fingerprint |-> records[k].fingerprint] \in handled
    /\ \A w \in Workers : pc[w] = "complete" => Message[taken[w]] \in handled
    /\ \A w \in Workers :
         pc[w] = "idle" /\ taken[w] \in Deliveries
           /\ out[w] \in {"stored", "unstored", "replayed"} => Message[taken[w]] \in handled

HandledInv == LeaseInv /\ DoorInv /\ Witnessed /\ AckedMeansHandled

\* The lease that a delivery was parked for is over, give or take the clocks,
\* once its time has come, once it is out, and once its begin is sent.
ParkShape ==
    /\ clock <= MaxTime
    /\ clock < MaxTime =>
         /\ \A d \in Deliveries :
              /\ box[d].state = "out" => parkedOn[d] <= clock + Skew
              /\ box[d].state = "queued" =>
                   parkedOn[d] <= box[d].at + Skew \/ parkedOn[d] <= clock + Skew
         /\ \A w \in Workers :
              pc[w] = "begin" /\ Owns(w) => parkedOn[taken[w]] <= op[w].begunAt + 2 * Skew
    /\ \A w \in Workers :
         thrown[w].kind = "in-flight" => met[w] <= clock + Skew + thrown[w].delay

ParkInv == DoorInv /\ ParkShape

-----------------------------------------------------------------------------
(* The door's steps are steps of execute, but for the answers it forgets.  *)

\* Whoever reports to anyq is done with execute.
LEMMA ReportsIdle ==
    ASSUME DoorInv, NEW w \in Workers,
           Acknowledge(w) \/ Park(w) \/ DeadLetterMismatch(w) \/ Delegate(w)
    PROVE  pc[w] = "idle" /\ taken[w] \in Deliveries /\ Forgets(w) /\ LetGo(w)
<1>1. CASE Acknowledge(w)
  BY <1>1 DEF Acknowledge, Answered, LetGo, Forgets, DoorInv, DoorTypeOK
<1>2. CASE Park(w) \/ DeadLetterMismatch(w) \/ Delegate(w)
  <2>1. thrown[w] # NoError /\ LetGo(w)
    BY <1>2 DEF Park, DeadLetterMismatch, Delegate, NoError
  <2> QED BY <2>1 DEF DoorInv, DoorShape, LetGo, Forgets
<1> QED BY <1>1, <1>2

\* A step of execute in the door is one of the engine.
LEMMA ExecuteNext ==
    ASSUME NEW w \in Workers, Execute(w)
    PROVE  Next
BY DEF Execute, Next, Fault

\* Every step of the door is one of the engine, or forgets an answer.
LEMMA DoorEngine ==
    ASSUME DoorInv, [DoorNext]_doorVars
    PROVE  [Next]_vars \/ \E w \in Workers : Forgets(w)
<1>1. ASSUME NEW w \in Workers, NEW d \in Deliveries, Deliver(w, d) PROVE Next
  <2>1. Message[d].key \in Keys /\ Message[d].fingerprint \in Fingerprints
    BY MessageAssumption
  <2> QED BY <1>1, <2>1 DEF Deliver, Next
<1>2. ASSUME NEW w \in Workers, NEW d \in Deliveries, Underivable(w, d) PROVE UNCHANGED vars
  BY <1>2 DEF Underivable
<1>3. ASSUME NEW w \in Workers, DoorStep(w) PROVE [Next]_vars \/ Forgets(w)
  BY <1>3, ExecuteNext, ReportsIdle DEF DoorStep, ThrowInFlight, ThrowOther
<1>4. ASSUME NEW w \in Workers, Dies(w) PROVE Next
  BY <1>4 DEF Dies, Next, Fault
<1>5. ASSUME NEW d \in Deliveries, Redeliver(d) PROVE UNCHANGED vars
  BY <1>5 DEF Redeliver
<1>6. CASE UNCHANGED doorVars
  BY <1>6 DEF doorVars
<1> QED BY <1>1, <1>2, <1>3, <1>4, <1>5, <1>6 DEF DoorNext, Next

\* So the engine's invariants carry over.
LEMMA DoorKeepsEngine ==
    ASSUME DoorInv, [DoorNext]_doorVars
    PROVE  TypeInv' /\ (WithinLease /\ LeaseInv => LeaseInv')
<1>1. TypeInv
  BY DEF DoorInv
<1> QED BY <1>1, DoorEngine, ForgetKeeps, TypeStep, LeaseStep

-----------------------------------------------------------------------------
(* What a step of execute does to its worker.                              *)

\* The other workers keep their attempts and answers.
LEMMA ExecuteFrame ==
    ASSUME TypeOK, NEW w \in Workers, Execute(w)
    PROVE  /\ clock' = clock /\ pc[w] # "idle"
           /\ \A v \in Workers \ {w} : pc'[v] = pc[v] /\ op'[v] = op[v] /\ out'[v] = out[v]
           /\ pc'[w] # "begin"
           /\ pc'[w] # "idle" => op'[w] = op[w]
           /\ pc'[w] = "run" => pc[w] = "begin" /\ out'[w] = out[w]
           /\ pc'[w] = "complete" => pc[w] = "run" /\ out'[w] = out[w]
           /\ pc'[w] = "abandon" => out'[w] = "threw"
<1>0. OkResult(w)
  BY DEF Execute
<1>1. CASE BeginAcquired(w)
  BY <1>1 DEF BeginAcquired, TypeOK
<1>2. CASE BeginRefused(w)
  BY <1>2, ReturnFrame DEF BeginRefused
<1>3. CASE RunUnclaimed(w)
  BY <1>3, ReturnFrame DEF RunUnclaimed
<1>4. CASE RunStored(w)
  BY <1>4 DEF RunStored, TypeOK
<1>5. CASE RunFailed(w)
  BY <1>0, <1>5 DEF RunFailed, TypeOK, OkResult
<1>6. CASE Complete(w) \/ CompleteError(w)
  BY <1>6, ReturnFrame DEF Complete, CompleteError
<1>7. CASE Abandon(w) \/ AbandonError(w)
  BY <1>7, ReturnFrame DEF Abandon, AbandonError
<1>8. CASE BeginError(w)
  <2>1. CASE FailOpen
    BY <1>8, <2>1 DEF BeginError, TypeOK
  <2>2. CASE ~FailOpen
    BY <1>8, <2>2, ReturnFrame DEF BeginError
  <2> QED BY <2>1, <2>2
<1> QED BY <1>1, <1>2, <1>3, <1>4, <1>5, <1>6, <1>7, <1>8 DEF Execute, WorkerStep

\* Where an answer that the door acknowledges comes from.
LEMMA AnswerCause ==
    ASSUME DoorInv, NEW w \in Workers, Execute(w), pc'[w] = "idle",
           out'[w] \in {"stored", "unstored", "replayed"}
    PROVE  \/ pc[w] = "complete"
           \/ HandlerReturns(w)
           \/ pc[w] = "begin" /\ Outcome(w) = "completed"
<1>0. TypeOK
  BY DEF DoorInv, TypeInv
<1>1. CASE BeginAcquired(w) \/ RunStored(w) \/ RunFailed(w)
  BY <1>0, <1>1 DEF BeginAcquired, RunStored, RunFailed, TypeOK
<1>2. CASE BeginRefused(w)
  <2>1. out'[w] = Refusal[Outcome(w)] /\ pc[w] = "begin" /\ Outcome(w) # "acquired"
    BY <1>0, <1>2, ReturnFrame DEF BeginRefused
  <2>2. Outcome(w) \in {"acquired", "completed", "in_flight", "mismatch"}
    BY OutcomeType DEF Outcome
  <2> QED BY <2>1, <2>2 DEF Refusal
<1>3. CASE RunUnclaimed(w)
  BY <1>3 DEF RunUnclaimed, HandlerReturns
<1>4. CASE Complete(w) \/ CompleteError(w)
  BY <1>4 DEF Complete, CompleteError
<1>5. CASE Abandon(w) \/ AbandonError(w)
  BY <1>0, <1>5, ReturnFrame DEF Abandon, AbandonError, DoorInv, DoorShape
<1>6. CASE BeginError(w)
  <2>1. CASE FailOpen
    BY <1>0, <1>6, <2>1 DEF BeginError, TypeOK
  <2>2. CASE ~FailOpen
    BY <1>0, <1>6, <2>2, ReturnFrame DEF BeginError
  <2> QED BY <2>1, <2>2
<1> QED BY <1>1, <1>2, <1>3, <1>4, <1>5, <1>6 DEF Execute, WorkerStep

-----------------------------------------------------------------------------
(* DoorInv is kept.                                                        *)

\* What the broker knows of a delivery.
Entries ==
    [ state : {"queued", "out", "acked", "dead"}, at : Nat,
      by : Workers \cup {Nobody}, failed : 0 .. MaxAttempts ]

Errors == [kind : {"none", "in-flight", "mismatch", "other"}, delay : Nat]

\* DoorTypeOK without the engine's part.
DoorTypes ==
    /\ box \in [Deliveries -> Entries]
    /\ taken \in [Workers -> Deliveries \cup {NoDelivery}]
    /\ met \in [Workers -> Int]
    /\ thrown \in [Workers -> Errors]
    /\ handled \subseteq [key : Keys, fingerprint : Fingerprints]
    /\ parkedOn \in [Deliveries -> Int]

LEMMA DoorTypesOK == DoorTypeOK <=> TypeOK /\ DoorTypes
BY DEF DoorTypeOK, DoorTypes, Entries, Errors

\* Handing a delivery to w.
LEMMA BoxHanded ==
    ASSUME box \in [Deliveries -> Entries], NEW w \in Workers, NEW d \in Deliveries,
           box' = [box EXCEPT ![d].state = "out", ![d].by = w]
    PROVE  /\ box' \in [Deliveries -> Entries]
           /\ box'[d].state = "out" /\ box'[d].by = w
           /\ \A e \in Deliveries \ {d} : box'[e] = box[e]
BY DEF Entries

\* Taking a delivery back.
LEMMA BoxTakenBack ==
    ASSUME box \in [Deliveries -> Entries], NEW d \in Deliveries,
           box' = [box EXCEPT ![d].state = "queued", ![d].by = Nobody, ![d].at = 0]
    PROVE  /\ box' \in [Deliveries -> Entries]
           /\ box'[d].state = "queued"
           /\ \A e \in Deliveries \ {d} : box'[e] = box[e]
BY DEF Entries

\* A report is heard only from the owner.
LEMMA BoxReported ==
    ASSUME box \in [Deliveries -> Entries], NEW w \in Workers, taken[w] \in Deliveries,
           NEW new \in Entries, Report(w, new)
    PROVE  /\ box' \in [Deliveries -> Entries]
           /\ box'[taken[w]] = IF Owns(w) THEN new ELSE box[taken[w]]
           /\ \A e \in Deliveries \ {taken[w]} : box'[e] = box[e]
BY DEF Report

\* What is reported is an entry.
LEMMA ReportTypes ==
    ASSUME DoorInv, NEW w \in Workers, taken[w] \in Deliveries
    PROVE  /\ [Entry("acked", 0, 0) EXCEPT !.by = w] \in Entries
           /\ [Entry("acked", 0, 0) EXCEPT !.by = w].state = "acked"
           /\ [Entry("acked", 0, 0) EXCEPT !.by = w].by = w
           /\ Entry("dead", 0, 0) \in Entries
           /\ Entry("queued", clock + thrown[w].delay, box[taken[w]].failed) \in Entries
           /\ box[taken[w]].failed + 1 < MaxAttempts =>
                Entry("queued", 0, box[taken[w]].failed + 1) \in Entries
<1>1. /\ box[taken[w]].failed \in 0 .. MaxAttempts /\ clock \in Nat /\ thrown[w].delay \in Nat
      /\ MaxAttempts \in Nat
  BY AttemptsAssumption, DoorTypesOK DEF DoorInv, TypeOK, DoorTypes, Entries, Errors
<1> QED BY <1>1 DEF Entry, Entries

\* Letting go of a delivery.
LEMMA LetGoKeeps ==
    ASSUME DoorInv, NEW w \in Workers, LetGo(w), pc[w] = "idle"
    PROVE  /\ taken' \in [Workers -> Deliveries \cup {NoDelivery}]
           /\ met' \in [Workers -> Int]
           /\ thrown' \in [Workers -> Errors]
           /\ DoorShape'
<1>1. TypeOK /\ DoorTypes /\ DoorShape
  BY DoorTypesOK DEF DoorInv
<1>2. /\ taken' \in [Workers -> Deliveries \cup {NoDelivery}] /\ met' \in [Workers -> Int]
      /\ thrown' \in [Workers -> Errors]
  BY <1>1 DEF LetGo, DoorTypes, NoError, Errors
<1>3. /\ taken'[w] = NoDelivery /\ thrown'[w] = NoError /\ out'[w] = "none" /\ pc'[w] = "idle"
      /\ \A v \in Workers \ {w} :
           /\ taken'[v] = taken[v] /\ thrown'[v] = thrown[v] /\ out'[v] = out[v]
           /\ pc'[v] = pc[v] /\ op'[v] = op[v]
  BY <1>1 DEF LetGo, TypeOK, DoorTypes
<1>4. DoorShape'
  BY <1>1, <1>3, DeliveryAssumption DEF DoorShape
<1> QED BY <1>2, <1>4

\* A step of execute keeps the door's state in shape.
LEMMA ExecuteKeeps ==
    ASSUME DoorInv, NEW w \in Workers, Execute(w)
    PROVE  DoorTypes' /\ DoorShape'
<1>1. TypeOK /\ DoorTypes /\ DoorShape /\ AttemptShape
  BY DoorTypesOK DEF DoorInv, TypeInv
<1>2. UNCHANGED <<box, taken, thrown, parkedOn>>
  BY DEF Execute
<1>3. pc[w] # "idle" /\ taken[w] \in Deliveries /\ op[w].key \in Keys
  BY <1>1, ExecuteFrame DEF DoorShape, AttemptShape
<1>4. RowOf(w).leaseUntil \in Int
  BY <1>1, <1>3 DEF RowOf, TypeOK, Row
<1>5. met' \in [Workers -> Int]
  BY <1>1, <1>4 DEF Execute, DoorTypes
<1>6. handled' \subseteq [key : Keys, fingerprint : Fingerprints]
  BY <1>1, <1>3, MessageAssumption DEF Execute, DoorTypes
<1>7. DoorTypes'
  BY <1>1, <1>2, <1>5, <1>6 DEF DoorTypes
<1>8. DoorShape'
  <2> SUFFICES ASSUME NEW v \in Workers
               PROVE  /\ pc'[v] # "idle" =>
                           /\ taken[v] \in Deliveries /\ thrown[v] = NoError
                           /\ op'[v].key = Message[taken[v]].key
                           /\ op'[v].fingerprint = Message[taken[v]].fingerprint
                      /\ thrown[v] # NoError => taken[v] \in Deliveries
                      /\ pc'[v] \in {"begin", "run", "complete"} => out'[v] = "none"
                      /\ pc'[v] = "abandon" => out'[v] = "threw"
                      /\ taken[v] = NoDelivery => out'[v] = "none"
    BY <1>2 DEF DoorShape
  <2>1. CASE v # w
    BY <1>1, <2>1, ExecuteFrame DEF DoorShape
  <2>2. CASE v = w
    BY <1>1, <1>3, <2>2, ExecuteFrame, DeliveryAssumption DEF DoorShape
  <2> QED BY <2>1, <2>2
<1> QED BY <1>7, <1>8

\* A park is at least as long as the rest of the lease.
LEMMA DelayLong ==
    ASSUME NEW until \in Int, NEW now \in Int
    PROVE  Delay(until, now) \in Nat /\ until - now <= Delay(until, now)
BY DEF Delay

\* Every step keeps DoorInv.
LEMMA DoorStepKeeps == DoorInv /\ [DoorNext]_doorVars => DoorInv'
<1> SUFFICES ASSUME DoorInv, [DoorNext]_doorVars PROVE DoorInv'
  OBVIOUS
<1>0. TypeOK /\ DoorTypes /\ DoorShape /\ TypeInv' /\ TypeOK'
  BY DoorTypesOK, DoorKeepsEngine DEF DoorInv, TypeInv
<1> SUFFICES DoorTypes' /\ DoorShape'
  <2>1. DoorTypes' => DoorTypeOK'
    BY <1>0 DEF DoorTypeOK, DoorTypes, Entries, Errors
  <2> QED BY <1>0, <2>1 DEF DoorInv
<1>1. ASSUME NEW w \in Workers, NEW d \in Deliveries, Deliver(w, d)
      PROVE  DoorTypes' /\ DoorShape'
  <2>1. /\ box' = [box EXCEPT ![d].state = "out", ![d].by = w]
        /\ taken' = [taken EXCEPT ![w] = d] /\ UNCHANGED <<met, thrown, handled, parkedOn>>
        /\ Request(w, Message[d].key, Message[d].fingerprint) /\ taken[w] = NoDelivery
    BY <1>1 DEF Deliver
  <2>2. DoorTypes'
    <3>1. box \in [Deliveries -> Entries]
      BY <1>0 DEF DoorTypes
    <3>2. box' \in [Deliveries -> Entries]
      BY <2>1, <3>1, BoxHanded, Zenon
    <3> QED BY <1>0, <2>1, <3>2 DEF DoorTypes
  <2>3. /\ pc'[w] = "begin" /\ out'[w] = "none"
        /\ op'[w].key = Message[d].key /\ op'[w].fingerprint = Message[d].fingerprint
    BY <1>0, <2>1 DEF Request, TypeOK
  <2>4. \A v \in Workers \ {w} :
          pc'[v] = pc[v] /\ op'[v] = op[v] /\ out'[v] = out[v] /\ taken'[v] = taken[v]
    BY <1>0, <2>1 DEF Request, TypeOK, DoorTypes
  <2>5. taken'[w] = d /\ thrown'[w] = NoError
    BY <1>0, <2>1, DeliveryAssumption DEF DoorTypes, DoorShape
  <2>6. DoorShape'
    BY <1>0, <2>1, <2>3, <2>4, <2>5, DeliveryAssumption DEF DoorShape
  <2> QED BY <2>2, <2>6
<1>2. ASSUME NEW w \in Workers, NEW d \in Deliveries, Underivable(w, d)
      PROVE  DoorTypes' /\ DoorShape'
  <2>1. /\ box' = [box EXCEPT ![d].state = "out", ![d].by = w]
        /\ taken' = [taken EXCEPT ![w] = d]
        /\ thrown' = [thrown EXCEPT ![w] = [kind |-> "other", delay |-> 0]]
        /\ UNCHANGED <<vars, met, handled, parkedOn>> /\ taken[w] = NoDelivery
    BY <1>2 DEF Underivable
  <2>2. DoorTypes'
    <3>1. box \in [Deliveries -> Entries]
      BY <1>0 DEF DoorTypes
    <3>2. box' \in [Deliveries -> Entries]
      BY <2>1, <3>1, BoxHanded, Zenon
    <3> QED BY <1>0, <2>1, <3>2 DEF DoorTypes, Errors
  <2>3. pc[w] = "idle"
    BY <1>0, <2>1, DeliveryAssumption DEF DoorShape, TypeOK
  <2>4. DoorShape'
    BY <1>0, <2>1, <2>3, DeliveryAssumption DEF DoorShape, DoorTypes, vars
  <2> QED BY <2>2, <2>4
<1>3. ASSUME NEW w \in Workers, ThrowInFlight(w) \/ ThrowOther(w)
      PROVE  DoorTypes' /\ DoorShape'
  <2>1. Answered(w) /\ UNCHANGED <<vars, box, taken, met, handled, parkedOn>>
    BY <1>3 DEF ThrowInFlight, ThrowOther
  <2>2. PICK e \in Errors : thrown' = [thrown EXCEPT ![w] = e]
    <3>1. CASE ThrowInFlight(w)
      <4>1. PICK r \in Readings :
              thrown' = [thrown EXCEPT ![w] = [kind |-> "in-flight", delay |-> Delay(met[w], r)]]
        BY <3>1 DEF ThrowInFlight
      <4>2. Delay(met[w], r) \in Nat
        BY <1>0, <4>1, ReadingType, DelayLong DEF DoorTypes
      <4> QED BY <4>1, <4>2 DEF Errors
    <3>2. CASE ThrowOther(w)
      <4>1. [kind |-> IF out[w] = "mismatch" THEN "mismatch" ELSE "other", delay |-> 0] \in Errors
        BY DEF Errors
      <4> QED BY <3>2, <4>1 DEF ThrowOther
    <3> QED BY <1>3, <3>1, <3>2
  <2>3. DoorTypes'
    BY <1>0, <2>1, <2>2 DEF DoorTypes
  <2>4. pc[w] = "idle" /\ taken[w] \in Deliveries
    BY <1>0, <2>1 DEF Answered, DoorTypes
  <2>5. DoorShape'
    BY <1>0, <2>1, <2>2, <2>4 DEF DoorShape, DoorTypes, vars
  <2> QED BY <2>3, <2>5
<1>4. ASSUME NEW w \in Workers,
             Acknowledge(w) \/ Park(w) \/ DeadLetterMismatch(w) \/ Delegate(w)
      PROVE  DoorTypes' /\ DoorShape'
  <2>1. taken[w] \in Deliveries /\ LetGo(w) /\ pc[w] = "idle"
    BY <1>4, ReportsIdle
  <2>2. \E new \in Entries : Report(w, new)
    BY <1>4, <2>1, ReportTypes DEF Acknowledge, Park, DeadLetterMismatch, Delegate
  <2>3. box' \in [Deliveries -> Entries]
    BY <1>0, <2>1, <2>2, BoxReported DEF DoorTypes
  <2>4. handled' = handled
    BY <1>4 DEF Acknowledge, Park, DeadLetterMismatch, Delegate
  <2>5. parkedOn' \in [Deliveries -> Int]
    BY <1>0, <1>4 DEF Acknowledge, Park, DeadLetterMismatch, Delegate, DoorTypes
  <2>6. DoorTypes'
    BY <1>0, <2>1, <2>3, <2>4, <2>5, LetGoKeeps DEF DoorTypes
  <2> QED BY <2>1, <2>6, LetGoKeeps
<1>5. ASSUME NEW w \in Workers, Dies(w) PROVE DoorTypes' /\ DoorShape'
  <2>1. /\ taken' = [taken EXCEPT ![w] = NoDelivery] /\ met' = [met EXCEPT ![w] = 0]
        /\ UNCHANGED <<box, thrown, handled, parkedOn>> /\ pc[w] # "idle" /\ Return(w, "none")
    BY <1>5 DEF Dies, Crash
  <2>2. DoorTypes'
    BY <1>0, <2>1 DEF DoorTypes
  <2>3. thrown[w] = NoError /\ taken'[w] = NoDelivery
        /\ \A v \in Workers \ {w} : taken'[v] = taken[v]
    BY <1>0, <2>1 DEF DoorShape, DoorTypes
  <2>4. DoorShape'
    BY <1>0, <2>1, <2>3, ReturnFrame, DeliveryAssumption DEF DoorShape
  <2> QED BY <2>2, <2>4
<1>6. ASSUME NEW d \in Deliveries, Redeliver(d) PROVE DoorTypes' /\ DoorShape'
  <2>1. /\ box' = [box EXCEPT ![d].state = "queued", ![d].by = Nobody, ![d].at = 0]
        /\ UNCHANGED <<vars, taken, met, thrown, handled, parkedOn>>
    BY <1>6 DEF Redeliver
  <2>2. box' \in [Deliveries -> Entries]
    <3>1. box \in [Deliveries -> Entries]
      BY <1>0 DEF DoorTypes
    <3> QED BY <2>1, <3>1, BoxTakenBack, Zenon
  <2> QED BY <1>0, <2>1, <2>2 DEF DoorTypes, DoorShape, vars
<1>7. ASSUME (Tick \/ Purge) /\ UNCHANGED door PROVE DoorTypes' /\ DoorShape'
  BY <1>0, <1>7 DEF Tick, Purge, RemoveRows, worker, door, DoorTypes, DoorShape
<1>8. CASE UNCHANGED doorVars
  BY <1>0, <1>8 DEF doorVars, vars, DoorTypes, DoorShape
<1> QED BY <1>1, <1>2, <1>3, <1>4, <1>5, <1>6, <1>7, <1>8, ExecuteKeeps DEF DoorNext, DoorStep

LEMMA DoorInvInit == DoorInit => DoorInv
<1> SUFFICES ASSUME DoorInit PROVE DoorInv
  OBVIOUS
<1>1. TypeInv /\ TypeOK
  BY TypeInit DEF DoorInit, TypeInv
<1>2. DoorTypes
  BY AttemptsAssumption DEF DoorInit, DoorTypes, Entries, Errors, NoError
<1>3. DoorShape
  BY DEF DoorInit, Init, DoorShape
<1> QED BY <1>1, <1>2, <1>3, DoorTypesOK DEF DoorInv

LEMMA DoorInvariant == DoorSpec => []DoorInv
BY DoorInvInit, DoorStepKeeps, PTL DEF DoorSpec

\* The state of the door, of execute and of the store keeps its types.
THEOREM DoorTypeCorrect == DoorSpec => []DoorTypeOK
<1>1. DoorInv => DoorTypeOK
  BY DEF DoorInv
<1> QED BY <1>1, DoorInvariant, PTL

-----------------------------------------------------------------------------
(* What is acknowledged was handled.                                       *)

\* A delivery's message is the key and the payload of the attempt.
LEMMA AttemptMessage ==
    ASSUME DoorInv, NEW w \in Workers, pc[w] # "idle"
    PROVE  Message[taken[w]] = [key |-> op[w].key, fingerprint |-> op[w].fingerprint]
<1>1. taken[w] \in Deliveries /\ op[w].key = Message[taken[w]].key
      /\ op[w].fingerprint = Message[taken[w]].fingerprint
  BY DEF DoorInv, DoorShape
<1>2. Message[taken[w]] \in [key : Keys, fingerprint : Fingerprints]
  BY <1>1, MessageAssumption
<1> QED BY <1>1, <1>2

\* What was handled stays handled.
LEMMA HandledGrows ==
    ASSUME [DoorNext]_doorVars
    PROVE  handled \subseteq handled'
<1>1. ASSUME NEW w \in Workers, Execute(w) PROVE handled \subseteq handled'
  BY <1>1 DEF Execute
<1>2. ASSUME NEW w \in Workers, DoorStep(w), ~Execute(w) PROVE UNCHANGED handled
  BY <1>2 DEF DoorStep, Acknowledge, ThrowInFlight, ThrowOther, Park, DeadLetterMismatch, Delegate
<1>3. ASSUME NEW w \in Workers, NEW d \in Deliveries,
             Deliver(w, d) \/ Underivable(w, d)
      PROVE  UNCHANGED handled
  BY <1>3 DEF Deliver, Underivable
<1>4. ASSUME NEW w \in Workers, Dies(w) PROVE UNCHANGED handled
  BY <1>4 DEF Dies
<1>5. ASSUME NEW d \in Deliveries, Redeliver(d) PROVE UNCHANGED handled
  BY <1>5 DEF Redeliver
<1>6. ASSUME UNCHANGED door \/ UNCHANGED doorVars PROVE UNCHANGED handled
  BY <1>6 DEF door, doorVars
<1> QED BY <1>1, <1>2, <1>3, <1>4, <1>5, <1>6 DEF DoorNext

\* A completed row has a handler that returned.
LEMMA RowsWitnessed ==
    ASSUME HandledInv, [DoorNext]_doorVars, NEW k \in Keys, records'[k].state = "completed"
    PROVE  [key |-> k, fingerprint |-> records'[k].fingerprint] \in handled'
<1>1. \/ records'[k] = records[k]
      \/ \E w \in Workers : /\ pc[w] = "complete" /\ op[w].key = k
                            /\ records'[k].fingerprint = op[w].fingerprint
  BY DoorEngine, CompletedCause DEF HandledInv, Forgets
<1>2. CASE records'[k] = records[k]
  BY <1>2, HandledGrows DEF HandledInv, Witnessed
<1>3. ASSUME NEW w \in Workers, pc[w] = "complete", op[w].key = k,
             records'[k].fingerprint = op[w].fingerprint
      PROVE  [key |-> k, fingerprint |-> records'[k].fingerprint] \in handled'
  <2>1. Message[taken[w]] = [key |-> op[w].key, fingerprint |-> op[w].fingerprint]
    BY <1>3, AttemptMessage DEF HandledInv
  <2>2. Message[taken[w]] \in handled
    BY <1>3 DEF HandledInv, Witnessed
  <2> QED BY <1>3, <2>1, <2>2, HandledGrows
<1> QED BY <1>1, <1>2, <1>3

\* A worker that neither starts to complete nor gets an answer needs no new
\* witness.
LEMMA WitnessKept ==
    ASSUME HandledInv, [DoorNext]_doorVars,
           \A v \in Workers : pc'[v] = "complete" => pc[v] = "complete" /\ taken'[v] = taken[v],
           \A v \in Workers :
             pc'[v] = "idle" /\ taken'[v] \in Deliveries
               /\ out'[v] \in {"stored", "unstored", "replayed"} =>
                 pc[v] = "idle" /\ taken'[v] = taken[v] /\ out'[v] = out[v]
    PROVE  Witnessed'
<1>1. Witnessed /\ handled \subseteq handled'
  BY HandledGrows DEF HandledInv
<1>2. \A k \in Keys : records'[k].state = "completed" =>
        [key |-> k, fingerprint |-> records'[k].fingerprint] \in handled'
  BY RowsWitnessed
<1>3. \A v \in Workers : pc'[v] = "complete" => Message[taken'[v]] \in handled'
  BY <1>1 DEF Witnessed
<1>4. \A v \in Workers :
        pc'[v] = "idle" /\ taken'[v] \in Deliveries
          /\ out'[v] \in {"stored", "unstored", "replayed"} => Message[taken'[v]] \in handled'
  BY <1>1 DEF Witnessed
<1> QED BY <1>2, <1>3, <1>4 DEF Witnessed

\* Steps that acknowledge nothing.
LEMMA AckedKept ==
    ASSUME HandledInv, [DoorNext]_doorVars,
           \A d \in Deliveries : box'[d].state = "acked" => box'[d] = box[d]
    PROVE  AckedMeansHandled'
BY HandledGrows DEF HandledInv, AckedMeansHandled

\* A step of execute leaves a witness for what it starts to store, and for what
\* it answers.
LEMMA ExecuteWitnessed ==
    ASSUME HandledInv, NEW w \in Workers, Execute(w)
    PROVE  Witnessed' /\ AckedMeansHandled'
<1>0. DoorInv /\ TypeOK /\ DoorTypes /\ DoorShape /\ AttemptShape /\ [DoorNext]_doorVars
  BY DoorTypesOK DEF HandledInv, DoorInv, TypeInv, DoorNext, DoorStep
<1>1. pc[w] # "idle" /\ UNCHANGED <<box, taken>>
  BY <1>0, ExecuteFrame DEF Execute
<1>2. AckedMeansHandled'
  BY <1>0, <1>1, AckedKept
<1>3. handled \subseteq handled' /\ (HandlerReturns(w) => Message[taken[w]] \in handled')
  BY DEF Execute
<1>4. \A k \in Keys : records'[k].state = "completed" =>
        [key |-> k, fingerprint |-> records'[k].fingerprint] \in handled'
  BY <1>0, RowsWitnessed
<1>5. ASSUME NEW v \in Workers, pc'[v] = "complete" PROVE Message[taken'[v]] \in handled'
  <2>1. CASE v = w
    <3>1. pc[w] = "run" /\ out'[w] = "none"
      BY <1>0, <1>5, <2>1, ExecuteFrame DEF DoorShape
    <3> QED BY <1>1, <1>3, <2>1, <3>1 DEF HandlerReturns
  <2>2. CASE v # w
    <3>1. pc[v] = "complete"
      BY <1>0, <1>5, <2>2, ExecuteFrame
    <3> QED BY <1>1, <1>3, <3>1 DEF HandledInv, Witnessed
  <2> QED BY <2>1, <2>2
<1>6. ASSUME NEW v \in Workers, pc'[v] = "idle", taken'[v] \in Deliveries,
             out'[v] \in {"stored", "unstored", "replayed"}
      PROVE  Message[taken'[v]] \in handled'
  <2>1. CASE v = w
    <3>1. \/ pc[w] = "complete"
          \/ HandlerReturns(w)
          \/ pc[w] = "begin" /\ Outcome(w) = "completed"
      BY <1>0, <1>6, <2>1, AnswerCause
    <3>2. CASE pc[w] = "complete"
      BY <1>1, <1>3, <2>1, <3>2 DEF HandledInv, Witnessed
    <3>3. CASE HandlerReturns(w)
      BY <1>1, <1>3, <2>1, <3>3
    <3>4. CASE pc[w] = "begin" /\ Outcome(w) = "completed"
      <4>1. op[w].key \in Keys /\ RowOf(w) = records[op[w].key]
        BY <1>0, <3>4 DEF AttemptShape, RowOf
      <4>2. RowOf(w).state = "completed" /\ RowOf(w).fingerprint = op[w].fingerprint
        BY <3>4 DEF Outcome, BeginOutcome
      <4>3. [key |-> op[w].key, fingerprint |-> op[w].fingerprint] \in handled
        BY <4>1, <4>2 DEF HandledInv, Witnessed
      <4> QED BY <1>0, <1>1, <1>3, <2>1, <3>4, <4>3, AttemptMessage
    <3> QED BY <3>1, <3>2, <3>3, <3>4
  <2>2. CASE v # w
    <3>1. pc[v] = "idle" /\ out'[v] = out[v]
      BY <1>0, <1>6, <2>2, ExecuteFrame
    <3> QED BY <1>1, <1>3, <1>6, <3>1 DEF HandledInv, Witnessed
  <2> QED BY <2>1, <2>2
<1>7. Witnessed'
  BY <1>4, <1>5, <1>6 DEF Witnessed
<1> QED BY <1>2, <1>7

\* Every step keeps HandledInv.
LEMMA HandledStep ==
    ASSUME WithinLease, HandledInv, [DoorNext]_doorVars
    PROVE  HandledInv'
<1>0. DoorInv /\ TypeOK /\ DoorTypes /\ DoorShape
  BY DoorTypesOK DEF HandledInv, DoorInv, TypeInv
<1>1. LeaseInv' /\ DoorInv'
  BY <1>0, DoorKeepsEngine, DoorStepKeeps DEF HandledInv
<1> SUFFICES Witnessed' /\ AckedMeansHandled'
  BY <1>1 DEF HandledInv
<1>2. ASSUME NEW w \in Workers, NEW d \in Deliveries, Deliver(w, d) \/ Underivable(w, d)
      PROVE  Witnessed' /\ AckedMeansHandled'
  <2>1. /\ box' = [box EXCEPT ![d].state = "out", ![d].by = w]
        /\ taken' = [taken EXCEPT ![w] = d] /\ taken[w] = NoDelivery
    BY <1>2 DEF Deliver, Underivable
  <2>2. box \in [Deliveries -> Entries]
    BY <1>0 DEF DoorTypes
  <2>3. box'[d].state = "out" /\ \A e \in Deliveries \ {d} : box'[e] = box[e]
    BY <2>1, <2>2, BoxHanded, Zenon
  <2>4. AckedMeansHandled'
    BY <2>3, AckedKept
  <2>5. out'[w] = "none" /\ pc'[w] # "complete"
    BY <1>0, <1>2, <2>1, DeliveryAssumption DEF Deliver, Request, Underivable, vars, DoorShape, TypeOK
  <2>6. \A v \in Workers \ {w} : pc'[v] = pc[v] /\ out'[v] = out[v] /\ taken'[v] = taken[v]
    BY <1>0, <1>2, <2>1 DEF Deliver, Request, Underivable, vars, TypeOK, DoorTypes
  <2>7. Witnessed'
    BY <2>5, <2>6, WitnessKept
  <2> QED BY <2>4, <2>7
<1>3. ASSUME NEW w \in Workers, ThrowInFlight(w) \/ ThrowOther(w)
      PROVE  Witnessed' /\ AckedMeansHandled'
  BY <1>3, WitnessKept, AckedKept DEF ThrowInFlight, ThrowOther, vars
<1>4. ASSUME NEW w \in Workers,
             Acknowledge(w) \/ Park(w) \/ DeadLetterMismatch(w) \/ Delegate(w)
      PROVE  Witnessed' /\ AckedMeansHandled'
  <2>1. taken[w] \in Deliveries /\ LetGo(w) /\ pc[w] = "idle"
    BY <1>0, <1>4, ReportsIdle
  <2>2. /\ UNCHANGED pc /\ taken'[w] = NoDelivery
        /\ \A v \in Workers \ {w} : taken'[v] = taken[v] /\ out'[v] = out[v]
    BY <1>0, <2>1 DEF LetGo, TypeOK, DoorTypes
  <2>3. Witnessed'
    BY <2>1, <2>2, WitnessKept, DeliveryAssumption
  <2>4. box \in [Deliveries -> Entries]
    BY <1>0 DEF DoorTypes
  <2>5. CASE Acknowledge(w)
    <3> DEFINE new == [Entry("acked", 0, 0) EXCEPT !.by = w]
    <3>1. new \in Entries /\ new.by = w
      BY <1>0, <2>1, ReportTypes
    <3>2. Report(w, new)
      BY <2>5 DEF Acknowledge
    <3> HIDE DEF new
    <3>3. /\ box'[taken[w]] = IF Owns(w) THEN new ELSE box[taken[w]]
          /\ \A e \in Deliveries \ {taken[w]} : box'[e] = box[e]
      BY <2>1, <2>4, <3>1, <3>2, BoxReported
    <3>4. OnInFlight[w] = "retry" => Message[taken[w]] \in handled
      BY <2>1, <2>5 DEF Acknowledge, AckedAnswers, HandledInv, Witnessed
    <3>5. AckedMeansHandled'
      BY <3>1, <3>3, <3>4, HandledGrows DEF HandledInv, AckedMeansHandled
    <3> QED BY <2>3, <3>5
  <2>6. CASE Park(w) \/ DeadLetterMismatch(w) \/ Delegate(w)
    <3>1. PICK new \in Entries : Report(w, new) /\ new.state # "acked"
      <4> DEFINE parked == Entry("queued", clock + thrown[w].delay, box[taken[w]].failed)
                 again == Entry("queued", 0, box[taken[w]].failed + 1)
                 dead == Entry("dead", 0, 0)
      <4>1. /\ parked.state # "acked" /\ again.state # "acked" /\ dead.state # "acked"
            /\ parked \in Entries /\ dead \in Entries
            /\ box[taken[w]].failed + 1 < MaxAttempts => again \in Entries
        BY <1>0, <2>1, ReportTypes DEF Entry
      <4>2. CASE Park(w)
        <5>1. Report(w, parked)
          BY <4>2 DEF Park
        <5> QED BY <4>1, <5>1
      <4>3. CASE DeadLetterMismatch(w)
        <5>1. Report(w, dead)
          BY <4>3 DEF DeadLetterMismatch
        <5> QED BY <4>1, <5>1
      <4>4. CASE Delegate(w)
        <5>1. Report(w, IF box[taken[w]].failed + 1 < MaxAttempts THEN again ELSE dead)
          BY <4>4 DEF Delegate
        <5> HIDE DEF again, dead
        <5> QED BY <4>1, <5>1
      <4> QED BY <2>6, <4>2, <4>3, <4>4
    <3>2. /\ box'[taken[w]] = IF Owns(w) THEN new ELSE box[taken[w]]
          /\ \A e \in Deliveries \ {taken[w]} : box'[e] = box[e]
      BY <2>1, <2>4, <3>1, BoxReported
    <3>3. AckedMeansHandled'
      BY <3>1, <3>2, AckedKept
    <3> QED BY <2>3, <3>3
  <2> QED BY <1>4, <2>5, <2>6
<1>5. ASSUME NEW w \in Workers, Dies(w) PROVE Witnessed' /\ AckedMeansHandled'
  <2>1. Return(w, "none") /\ taken' = [taken EXCEPT ![w] = NoDelivery] /\ UNCHANGED box
    BY <1>5 DEF Dies, Crash
  <2>2. \A v \in Workers \ {w} : taken'[v] = taken[v]
    BY <1>0, <2>1 DEF DoorTypes
  <2> QED BY <1>0, <2>1, <2>2, ReturnFrame, WitnessKept, AckedKept
<1>6. ASSUME NEW d \in Deliveries, Redeliver(d) PROVE Witnessed' /\ AckedMeansHandled'
  <2>1. /\ box' = [box EXCEPT ![d].state = "queued", ![d].by = Nobody, ![d].at = 0]
        /\ UNCHANGED <<vars, taken>>
    BY <1>6 DEF Redeliver
  <2>2. box \in [Deliveries -> Entries]
    BY <1>0 DEF DoorTypes
  <2>3. box'[d].state = "queued" /\ \A e \in Deliveries \ {d} : box'[e] = box[e]
    BY <2>1, <2>2, BoxTakenBack, Zenon
  <2> QED BY <2>1, <2>3, WitnessKept, AckedKept DEF vars
<1>7. ASSUME (Tick \/ Purge) /\ UNCHANGED door PROVE Witnessed' /\ AckedMeansHandled'
  <2>1. UNCHANGED <<pc, out, box, taken>>
    BY <1>7 DEF Tick, Purge, RemoveRows, worker, door
  <2> QED BY <2>1, WitnessKept, AckedKept
<1>8. CASE UNCHANGED doorVars
  BY <1>8, WitnessKept, AckedKept DEF doorVars, vars
<1> QED BY <1>2, <1>3, <1>4, <1>5, <1>6, <1>7, <1>8, ExecuteWitnessed DEF DoorNext, DoorStep

LEMMA HandledInit == DoorInit => HandledInv
<1> SUFFICES ASSUME DoorInit PROVE HandledInv
  OBVIOUS
<1>1. LeaseInv /\ DoorInv
  BY LeaseInit, DoorInvInit DEF DoorInit
<1>2. Witnessed
  BY DEF DoorInit, Init, Absent, Witnessed
<1>3. AckedMeansHandled
  BY DEF DoorInit, AckedMeansHandled
<1> QED BY <1>1, <1>2, <1>3 DEF HandledInv

LEMMA HandledInvariant == ASSUME WithinLease PROVE DoorSpec => []HandledInv
<1>1. HandledInv /\ [DoorNext]_doorVars => HandledInv'
  BY HandledStep
<1> QED BY <1>1, HandledInit, PTL DEF DoorSpec

\* As long as attempts end within their lease, a consumer with onInFlight "retry"
\* acknowledges only what a handler has handled: no crash, redelivery, duplicate
\* or failing store loses a message.
THEOREM NothingLost == ASSUME WithinLease PROVE DoorSpec => []AckedMeansHandled
<1>1. HandledInv => AckedMeansHandled
  BY DEF HandledInv
<1> QED BY <1>1, HandledInvariant, PTL

\* And no two consumers handle messages with one key at once.
THEOREM DoorExclusive == ASSUME WithinLease PROVE DoorSpec => []ExclusiveWhileLeased
<1>1. HandledInv => ExclusiveWhileLeased
  BY ClaimsApart DEF HandledInv, ExclusiveWhileLeased
<1> QED BY <1>1, HandledInvariant, PTL

-----------------------------------------------------------------------------
(* A park ends when the lease does.                                        *)

\* The numbers that ParkShape compares.
LEMMA ParkNumbers ==
    ASSUME DoorInv
    PROVE  /\ clock \in Int /\ MaxTime \in Int /\ Skew \in Int /\ Skew >= 0
           /\ \A d \in Deliveries : parkedOn[d] \in Int /\ box[d].at \in Int
           /\ \A w \in Workers :
                met[w] \in Int /\ thrown[w].delay \in Int /\ op[w].begunAt \in Int
<1>1. TypeOK /\ DoorTypes
  BY DoorTypesOK DEF DoorInv
<1> QED BY <1>1, SkewAssumption, BoundAssumption DEF TypeOK, DoorTypes, Entries, Errors

\* Steps that move no clock, hand out no delivery and throw no error.
LEMMA ParkKept ==
    ASSUME ParkInv, clock' = clock,
           \A d \in Deliveries :
             /\ box'[d].state = "out" => box[d].state = "out" /\ parkedOn'[d] = parkedOn[d]
             /\ box'[d].state = "queued" =>
                  \/ box[d] = box'[d] /\ parkedOn'[d] = parkedOn[d]
                  \/ box[d].state = "out" /\ parkedOn'[d] = parkedOn[d]
                  \/ parkedOn'[d] <= box'[d].at + Skew,
           \A v \in Workers : pc'[v] = "begin" /\ Owns(v)' =>
             /\ pc[v] = "begin" /\ Owns(v) /\ taken'[v] = taken[v] /\ op'[v] = op[v]
             /\ parkedOn'[taken[v]] = parkedOn[taken[v]],
           \A v \in Workers : thrown'[v].kind = "in-flight" =>
             thrown'[v] = thrown[v] /\ met'[v] = met[v]
    PROVE  ParkShape'
BY DEF ParkInv, ParkShape

\* A delivery that is handed out has sat out its park.
LEMMA HandedOut ==
    ASSUME ParkInv, NEW w \in Workers, NEW d \in Deliveries, Deliver(w, d) \/ Underivable(w, d)
    PROVE  ParkShape'
<1>0. DoorInv /\ TypeOK /\ DoorTypes /\ DoorShape /\ ParkShape
  BY DoorTypesOK DEF ParkInv, DoorInv
<1>1. /\ box' = [box EXCEPT ![d].state = "out", ![d].by = w]
      /\ taken' = [taken EXCEPT ![w] = d] /\ taken[w] = NoDelivery
      /\ box[d].state = "queued" /\ Due(d) /\ UNCHANGED <<clock, met, parkedOn>>
  BY DEF Deliver, Underivable, Request, vars
<1>2. box \in [Deliveries -> Entries]
  BY <1>0 DEF DoorTypes
<1>3. /\ box'[d].state = "out" /\ box'[d].by = w
      /\ \A e \in Deliveries \ {d} : box'[e] = box[e]
  BY <1>1, <1>2, BoxHanded, Zenon
<1>4. clock < MaxTime => parkedOn[d] <= clock + Skew
  BY <1>0, <1>1, ParkNumbers DEF ParkShape, Due
<1>5. taken'[w] = d /\ \A v \in Workers \ {w} : taken'[v] = taken[v]
  BY <1>0, <1>1 DEF DoorTypes
<1>6. \A v \in Workers \ {w} : pc'[v] = pc[v] /\ op'[v] = op[v]
  BY <1>0 DEF Deliver, Underivable, Request, vars, TypeOK
<1>7. pc'[w] = "begin" => op'[w].begunAt \in Int /\ clock - Skew <= op'[w].begunAt
  <2>1. CASE Deliver(w, d)
    <3>1. PICK r \in Readings :
            op' = [op EXCEPT ![w] = [ key |-> Message[d].key,
                                      fingerprint |-> Message[d].fingerprint, begunAt |-> r ]]
      BY <2>1 DEF Deliver, Request
    <3>2. op'[w].begunAt = r
      BY <1>0, <3>1 DEF TypeOK
    <3>3. r \in Int /\ clock - Skew <= r
      BY <1>0, ParkNumbers DEF Readings
    <3> QED BY <3>2, <3>3
  <2>2. CASE Underivable(w, d)
    BY <1>0, <1>1, <2>2, DeliveryAssumption DEF Underivable, vars, DoorShape
  <2> QED BY <2>1, <2>2
<1>8. ASSUME NEW v \in Workers, pc'[v] = "begin", Owns(v)', clock < MaxTime
      PROVE  parkedOn'[taken'[v]] <= op'[v].begunAt + 2 * Skew
  <2>1. CASE v = w
    BY <1>0, <1>1, <1>4, <1>5, <1>7, <1>8, <2>1, ParkNumbers
  <2>2. CASE v # w
    <3>1. pc[v] = "begin" /\ taken'[v] = taken[v] /\ op'[v] = op[v] /\ taken[v] \in Deliveries
      BY <1>0, <1>5, <1>6, <1>8, <2>2 DEF DoorShape
    <3>2. taken[v] # d /\ box'[taken[v]] = box[taken[v]]
      BY <1>3, <1>8, <2>2, <3>1 DEF Owns
    <3>3. Owns(v)
      BY <1>8, <3>1, <3>2 DEF Owns
    <3> QED BY <1>0, <1>1, <1>8, <3>1, <3>3 DEF ParkShape
  <2> QED BY <2>1, <2>2
<1>9. ASSUME NEW v \in Workers, thrown'[v].kind = "in-flight" PROVE thrown'[v] = thrown[v]
  <2>1. CASE Deliver(w, d)
    BY <2>1 DEF Deliver
  <2>2. CASE Underivable(w, d)
    BY <1>0, <1>9, <2>2 DEF Underivable, DoorTypes
  <2> QED BY <2>1, <2>2
<1>10. \A e \in Deliveries : clock < MaxTime =>
         /\ box'[e].state = "out" => parkedOn'[e] <= clock' + Skew
         /\ box'[e].state = "queued" =>
              parkedOn'[e] <= box'[e].at + Skew \/ parkedOn'[e] <= clock' + Skew
  BY <1>0, <1>1, <1>3, <1>4 DEF ParkShape
<1> QED BY <1>0, <1>1, <1>8, <1>9, <1>10 DEF ParkShape

\* A report puts a delivery back for no less than the rest of the lease it met.
LEMMA ReportParks ==
    ASSUME ParkInv, NEW w \in Workers,
           Acknowledge(w) \/ Park(w) \/ DeadLetterMismatch(w) \/ Delegate(w)
    PROVE  ParkShape'
<1> DEFINE d == taken[w]
<1>0. DoorInv /\ TypeOK /\ DoorTypes /\ DoorShape /\ ParkShape
  BY DoorTypesOK DEF ParkInv, DoorInv
<1>1. d \in Deliveries /\ LetGo(w) /\ pc[w] = "idle"
  BY <1>0, ReportsIdle
<1>2. /\ UNCHANGED <<clock, pc, op>> /\ taken'[w] = NoDelivery /\ thrown'[w] = NoError
      /\ \A v \in Workers \ {w} :
           taken'[v] = taken[v] /\ thrown'[v] = thrown[v] /\ met'[v] = met[v]
  BY <1>0, <1>1 DEF LetGo, DoorTypes
<1>3. box \in [Deliveries -> Entries] /\ parkedOn \in [Deliveries -> Int]
  BY <1>0 DEF DoorTypes
<1>4. PICK new \in Entries :
        /\ Report(w, new) /\ new.state # "out"
        /\ new.state = "queued" /\ Owns(w) =>
             \/ parkedOn'[d] = parkedOn[d]
             \/ parkedOn'[d] <= new.at + Skew
  <2> DEFINE parked == Entry("queued", clock + thrown[w].delay, box[d].failed)
             again == Entry("queued", 0, box[d].failed + 1)
             dead == Entry("dead", 0, 0)
             acked == [Entry("acked", 0, 0) EXCEPT !.by = w]
  <2>1. /\ parked.state = "queued" /\ parked.at = clock + thrown[w].delay
        /\ again.state = "queued" /\ dead.state = "dead"
    BY DEF Entry
  <2>2. /\ parked \in Entries /\ dead \in Entries /\ acked \in Entries /\ acked.state = "acked"
        /\ box[d].failed + 1 < MaxAttempts => again \in Entries
    BY <1>0, <1>1, ReportTypes
  <2>3. CASE Park(w)
    <3>1. /\ Report(w, parked) /\ thrown[w].kind = "in-flight"
          /\ parkedOn' = [parkedOn EXCEPT ![d] = IF Owns(w) THEN met[w] ELSE @]
      BY <2>3 DEF Park
    <3>2. Owns(w) => parkedOn'[d] = met[w]
      BY <1>1, <1>3, <3>1
    <3>3. met[w] <= clock + Skew + thrown[w].delay
      BY <1>0, <3>1 DEF ParkShape
    <3>4. met[w] <= parked.at + Skew
      BY <1>0, <2>1, <3>3, ParkNumbers
    <3> HIDE DEF parked
    <3> QED BY <2>1, <2>2, <3>1, <3>2, <3>4
  <2>4. CASE Acknowledge(w)
    <3>1. Report(w, acked)
      BY <2>4 DEF Acknowledge
    <3> HIDE DEF acked
    <3> QED BY <2>2, <3>1
  <2>5. CASE DeadLetterMismatch(w)
    <3>1. Report(w, dead)
      BY <2>5 DEF DeadLetterMismatch
    <3> HIDE DEF dead
    <3> QED BY <2>1, <2>2, <3>1
  <2>6. CASE Delegate(w)
    <3>1. Report(w, IF box[d].failed + 1 < MaxAttempts THEN again ELSE dead) /\ UNCHANGED parkedOn
      BY <2>6 DEF Delegate
    <3> HIDE DEF again, dead
    <3> QED BY <2>1, <2>2, <3>1
  <2> QED BY <2>3, <2>4, <2>5, <2>6
<1>5. /\ box'[d] = IF Owns(w) THEN new ELSE box[d]
      /\ \A e \in Deliveries \ {d} : box'[e] = box[e]
  BY <1>1, <1>3, <1>4, BoxReported
<1>6. \A e \in Deliveries : e # d \/ ~Owns(w) => parkedOn'[e] = parkedOn[e]
  BY <1>1, <1>3 DEF Acknowledge, Park, DeadLetterMismatch, Delegate
<1>7. Owns(w) => box[d].state = "out"
  BY DEF Owns
<1> HIDE DEF d
<1>8. \A e \in Deliveries :
        /\ box'[e].state = "out" => box[e].state = "out" /\ parkedOn'[e] = parkedOn[e]
        /\ box'[e].state = "queued" =>
             \/ box[e] = box'[e] /\ parkedOn'[e] = parkedOn[e]
             \/ box[e].state = "out" /\ parkedOn'[e] = parkedOn[e]
             \/ parkedOn'[e] <= box'[e].at + Skew
  BY <1>4, <1>5, <1>6, <1>7
<1>9. ASSUME NEW v \in Workers, pc'[v] = "begin", Owns(v)'
      PROVE  /\ pc[v] = "begin" /\ Owns(v) /\ taken'[v] = taken[v] /\ op'[v] = op[v]
             /\ parkedOn'[taken[v]] = parkedOn[taken[v]]
  <2>1. v # w /\ pc[v] = "begin" /\ taken'[v] = taken[v] /\ op'[v] = op[v]
    BY <1>1, <1>2, <1>9
  <2>2. taken[v] \in Deliveries
    BY <1>0, <2>1 DEF DoorShape
  <2>3. box'[taken[v]].state = "out" /\ box'[taken[v]].by = v
    BY <1>9, <2>1 DEF Owns
  <2>4. taken[v] # d \/ ~Owns(w)
    BY <1>4, <1>5, <2>3
  <2>5. box'[taken[v]] = box[taken[v]]
    BY <1>5, <2>2, <2>4
  <2> QED BY <1>6, <2>1, <2>2, <2>3, <2>4, <2>5 DEF Owns
<1>10. \A v \in Workers : thrown'[v].kind = "in-flight" =>
         thrown'[v] = thrown[v] /\ met'[v] = met[v]
  BY <1>2 DEF NoError
<1> QED BY <1>2, <1>8, <1>9, <1>10, ParkKept

\* Every step keeps ParkInv.
LEMMA ParkStep == ParkInv /\ [DoorNext]_doorVars => ParkInv'
<1> SUFFICES ASSUME ParkInv, [DoorNext]_doorVars PROVE ParkInv'
  OBVIOUS
<1>0. DoorInv /\ TypeOK /\ DoorTypes /\ DoorShape /\ ParkShape /\ DoorInv'
  BY DoorTypesOK, DoorStepKeeps DEF ParkInv, DoorInv
<1> SUFFICES ParkShape'
  BY <1>0 DEF ParkInv
<1>1. ASSUME NEW w \in Workers, Execute(w) PROVE ParkShape'
  <2>1. UNCHANGED <<box, taken, thrown, parkedOn, clock>>
    BY <1>0, <1>1, ExecuteFrame DEF Execute
  <2>2. \A v \in Workers : pc'[v] = "begin" => pc[v] = "begin" /\ op'[v] = op[v]
    BY <1>0, <1>1, ExecuteFrame
  <2>3. thrown[w] = NoError
    BY <1>0, <1>1, ExecuteFrame DEF DoorShape
  <2>4. \A v \in Workers \ {w} : met'[v] = met[v]
    BY <1>0, <1>1 DEF Execute, DoorTypes
  <2>5. \A v \in Workers : thrown'[v].kind = "in-flight" => met'[v] = met[v]
    BY <2>1, <2>3, <2>4 DEF NoError
  <2>6. \A v \in Workers : Owns(v)' <=> Owns(v)
    BY <2>1 DEF Owns
  <2> QED BY <2>1, <2>2, <2>5, <2>6, ParkKept
<1>2. ASSUME NEW w \in Workers, ThrowInFlight(w) \/ ThrowOther(w) PROVE ParkShape'
  <2>1. UNCHANGED <<clock, pc, op, box, taken, met, parkedOn>>
    BY <1>2 DEF ThrowInFlight, ThrowOther, vars
  <2>2. thrown'[w].kind = "in-flight" => met[w] <= clock + Skew + thrown'[w].delay
    <3>1. CASE ThrowInFlight(w)
      <4>1. PICK r \in Readings :
              thrown' = [thrown EXCEPT ![w] = [kind |-> "in-flight", delay |-> Delay(met[w], r)]]
        BY <3>1 DEF ThrowInFlight
      <4>2. thrown'[w].delay = Delay(met[w], r)
        BY <1>0, <4>1 DEF DoorTypes
      <4>3. r \in Int /\ r <= clock + Skew
        BY <1>0, ParkNumbers DEF Readings
      <4>4. Delay(met[w], r) \in Nat /\ met[w] - r <= Delay(met[w], r)
        BY <1>0, <4>3, ParkNumbers, DelayLong
      <4> QED BY <1>0, <4>2, <4>3, <4>4, ParkNumbers
    <3>2. CASE ThrowOther(w)
      BY <1>0, <3>2 DEF ThrowOther, DoorTypes
    <3> QED BY <1>2, <3>1, <3>2
  <2>3. \A v \in Workers \ {w} : thrown'[v] = thrown[v]
    BY <1>0, <1>2 DEF ThrowInFlight, ThrowOther, DoorTypes
  <2>4. \A v \in Workers : Owns(v)' <=> Owns(v)
    BY <2>1 DEF Owns
  <2> QED BY <1>0, <2>1, <2>2, <2>3, <2>4 DEF ParkShape
<1>3. ASSUME NEW w \in Workers, Dies(w) PROVE ParkShape'
  <2>1. /\ Return(w, "none") /\ pc[w] # "idle" /\ UNCHANGED <<clock, box, thrown, parkedOn>>
        /\ taken' = [taken EXCEPT ![w] = NoDelivery] /\ met' = [met EXCEPT ![w] = 0]
    BY <1>3 DEF Dies, Crash
  <2>2. \A v \in Workers \ {w} : taken'[v] = taken[v] /\ met'[v] = met[v]
    BY <1>0, <2>1 DEF DoorTypes
  <2>3. thrown[w].kind # "in-flight"
    BY <1>0, <2>1 DEF DoorShape, NoError
  <2>4. \A v \in Workers : pc'[v] = "begin" =>
          v # w /\ pc[v] = "begin" /\ op'[v] = op[v] /\ taken'[v] = taken[v]
    BY <1>0, <2>1, <2>2, ReturnFrame
  <2>5. \A v \in Workers : pc'[v] = "begin" /\ Owns(v)' => Owns(v)
    BY <2>1, <2>4 DEF Owns
  <2> QED BY <2>1, <2>2, <2>3, <2>4, <2>5, ParkKept
<1>4. ASSUME NEW d \in Deliveries, Redeliver(d) PROVE ParkShape'
  <2>1. /\ box' = [box EXCEPT ![d].state = "queued", ![d].by = Nobody, ![d].at = 0]
        /\ UNCHANGED <<vars, taken, met, thrown, parkedOn>> /\ box[d].state = "out"
    BY <1>4 DEF Redeliver, Forsaken
  <2>2. box \in [Deliveries -> Entries]
    BY <1>0 DEF DoorTypes
  <2>3. box'[d].state = "queued" /\ \A e \in Deliveries \ {d} : box'[e] = box[e]
    BY <2>1, <2>2, BoxTakenBack, Zenon
  <2>4. ASSUME NEW v \in Workers, pc[v] = "begin", Owns(v)' PROVE Owns(v)
    <3>1. taken[v] \in Deliveries /\ taken'[v] = taken[v]
      BY <1>0, <2>1, <2>4 DEF DoorShape
    <3>2. taken[v] # d
      BY <2>3, <2>4, <3>1 DEF Owns
    <3>3. box'[taken[v]] = box[taken[v]]
      BY <2>3, <3>1, <3>2
    <3> QED BY <2>4, <3>1, <3>3 DEF Owns
  <2>5. UNCHANGED <<clock, pc, op>>
    BY <2>1 DEF vars
  <2> QED BY <2>1, <2>3, <2>4, <2>5, ParkKept
<1>5. ASSUME Tick, UNCHANGED door PROVE ParkShape'
  <2>1. clock' = clock + 1 /\ clock < MaxTime /\ UNCHANGED <<pc, op>>
    BY <1>5 DEF Tick, worker
  <2>2. UNCHANGED <<box, taken, met, thrown, parkedOn>>
    BY <1>5 DEF door
  <2>3. \A v \in Workers : Owns(v)' <=> Owns(v)
    BY <2>2 DEF Owns
  <2> QED BY <1>0, <2>1, <2>2, <2>3, ParkNumbers DEF ParkShape
<1>6. ASSUME UNCHANGED <<clock, pc, op>>, UNCHANGED door PROVE ParkShape'
  <2>1. \A v \in Workers : Owns(v)' <=> Owns(v)
    BY <1>6 DEF Owns, door
  <2> QED BY <1>6, <2>1, ParkKept DEF door
<1>7. ASSUME Purge, UNCHANGED door PROVE ParkShape'
  BY <1>6, <1>7 DEF Purge, RemoveRows, worker
<1>8. CASE UNCHANGED doorVars
  BY <1>6, <1>8 DEF doorVars, door, vars
<1> QED BY <1>1, <1>2, <1>3, <1>4, <1>5, <1>7, <1>8, HandedOut, ReportParks DEF DoorNext, DoorStep

LEMMA ParkInvariant == DoorSpec => []ParkInv
<1>1. DoorInit => ParkInv
  <2> SUFFICES ASSUME DoorInit PROVE ParkInv
    OBVIOUS
  <2>1. DoorInv
    BY DoorInvInit
  <2>2. ParkShape
    BY SkewAssumption, BoundAssumption DEF DoorInit, Init, ParkShape, NoError
  <2> QED BY <2>1, <2>2 DEF ParkInv
<1> QED BY <1>1, ParkStep, PTL DEF DoorSpec

\* Only a begin that met a live lease answers "conflict".
LEMMA ConflictCause ==
    ASSUME DoorInv, [DoorNext]_doorVars, NEW w \in Workers, pc[w] = "begin",
           out'[w] = "conflict"
    PROVE  RowOf(w).leaseUntil > op[w].begunAt
<1>0. TypeOK /\ DoorTypes /\ DoorShape /\ out[w] = "none"
  BY DoorTypesOK DEF DoorInv, DoorShape
<1>1. ASSUME NEW v \in Workers, NEW answer, Return(v, answer) PROVE v = w /\ answer = "conflict"
  BY <1>0, <1>1, ReturnFrame
<1>2. ~UNCHANGED out
  BY <1>0
<1>3. ASSUME NEW v \in Workers, BeginRefused(v) PROVE RowOf(w).leaseUntil > op[w].begunAt
  <2>1. v = w /\ Refusal[Outcome(v)] = "conflict" /\ Outcome(v) # "acquired"
    BY <1>1, <1>3 DEF BeginRefused
  <2>2. Outcome(w) \in {"acquired", "completed", "in_flight", "mismatch"}
    BY OutcomeType DEF Outcome
  <2>3. Outcome(w) = "in_flight"
    BY <2>1, <2>2 DEF Refusal
  <2> QED BY <2>3 DEF Outcome, BeginOutcome
<1>4. ASSUME NEW v \in Workers, Execute(v) PROVE BeginRefused(v)
  <2>1. ~BeginAcquired(v) /\ ~RunStored(v)
    BY <1>2 DEF BeginAcquired, RunStored
  <2>2. ~RunFailed(v) /\ ~RunUnclaimed(v)
    BY <1>0, <1>1 DEF RunFailed, RunUnclaimed, TypeOK
  <2>3. ~Complete(v) /\ ~CompleteError(v) /\ ~BeginError(v)
    BY <1>1, <1>2 DEF Complete, CompleteError, BeginError
  <2>4. ~Abandon(v) /\ ~AbandonError(v)
    BY <1>1 DEF Abandon, AbandonError
  <2> QED BY <1>4, <2>1, <2>2, <2>3, <2>4 DEF Execute, WorkerStep
<1>5. ASSUME NEW v \in Workers, LetGo(v) PROVE FALSE
  BY <1>0, <1>5 DEF LetGo, TypeOK
<1>6. ASSUME NEW v \in Workers, DoorStep(v) PROVE Execute(v)
  BY <1>2, <1>5, <1>6 DEF DoorStep, Acknowledge, ThrowInFlight, ThrowOther, Park,
                          DeadLetterMismatch, Delegate, vars
<1>7. ASSUME NEW v \in Workers, NEW d \in Deliveries, Deliver(v, d) \/ Underivable(v, d) PROVE FALSE
  BY <1>0, <1>2, <1>7 DEF Deliver, Underivable, Request, vars, TypeOK
<1>8. ASSUME NEW v \in Workers, Dies(v) PROVE FALSE
  BY <1>1, <1>8 DEF Dies, Crash
<1>9. ASSUME NEW d \in Deliveries, Redeliver(d) PROVE FALSE
  BY <1>2, <1>9 DEF Redeliver, vars
<1>10. ~Tick /\ ~Purge /\ ~UNCHANGED doorVars
  BY <1>2 DEF Tick, Purge, RemoveRows, worker, doorVars, vars
<1> QED BY <1>3, <1>4, <1>6, <1>7, <1>8, <1>9, <1>10 DEF DoorNext

\* A begin of a delivery that was parked is refused only by a lease that ends
\* later than the one it was parked for, give or take what two readings of
\* different clocks can differ by.
LEMMA RefusedByLater ==
    ASSUME ParkInv, [DoorNext]_doorVars, NEW w \in Workers, pc[w] = "begin", Owns(w),
           out'[w] = "conflict", clock < MaxTime
    PROVE  /\ RowOf(w).leaseUntil \in Int /\ parkedOn[taken[w]] \in Int
           /\ RowOf(w).leaseUntil + 2 * Skew > parkedOn[taken[w]]
<1>1. parkedOn[taken[w]] <= op[w].begunAt + 2 * Skew
  BY DEF ParkInv, ParkShape
<1>2. RowOf(w).leaseUntil > op[w].begunAt
  BY ConflictCause DEF ParkInv
<1>3. /\ taken[w] \in Deliveries /\ op[w].key \in Keys /\ parkedOn[taken[w]] \in Int
      /\ op[w].begunAt \in Int
  BY ParkNumbers DEF ParkInv, DoorInv, DoorShape, TypeInv, AttemptShape
<1>4. RowOf(w).leaseUntil \in Int
  BY <1>3 DEF ParkInv, DoorInv, TypeInv, TypeOK, RowOf, Row
<1> QED BY <1>1, <1>2, <1>3, <1>4, SkewAssumption

\* With clocks that differ: the delivery comes back, by the clock of whoever takes
\* it, at most twice the skew before the lease that it was parked for is over.
THEOREM ParkNearly ==
    DoorSpec =>
        [](\A w \in Workers :
             pc[w] = "begin" /\ Owns(w) /\ clock < MaxTime
               => parkedOn[taken[w]] <= op[w].begunAt + 2 * Skew)
<1>1. ParkInv => \A w \in Workers :
                   pc[w] = "begin" /\ Owns(w) /\ clock < MaxTime
                     => parkedOn[taken[w]] <= op[w].begunAt + 2 * Skew
  BY DEF ParkInv, ParkShape
<1> QED BY <1>1, ParkInvariant, PTL

\* Where clocks agree, a duplicate that was parked for the rest of a lease is
\* not refused by that lease again, whatever else holds the key by then.
THEOREM ParkSuffices == ASSUME Skew = 0 PROVE DoorSpec => ReentersAfterLease
<1>1. ASSUME ParkInv, [DoorNext]_doorVars
      PROVE  \A w \in Workers :
               pc[w] = "begin" /\ Owns(w) /\ out'[w] = "conflict" /\ clock < MaxTime
                 => RowOf(w).leaseUntil > parkedOn[taken[w]]
  <2> SUFFICES ASSUME NEW w \in Workers, pc[w] = "begin", Owns(w), out'[w] = "conflict",
                      clock < MaxTime
               PROVE  RowOf(w).leaseUntil > parkedOn[taken[w]]
    OBVIOUS
  <2> QED BY <1>1, RefusedByLater
<1> QED BY <1>1, ParkInvariant, PTL DEF DoorSpec, ReentersAfterLease

=============================================================================
