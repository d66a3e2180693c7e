------------------------- MODULE ConformanceProofs --------------------------
(***************************************************************************)
(* The conformance runner, for any vectors, command lines and answers, in  *)
(* whatever order the answers come: a vector that passes or fails has      *)
(* judged each of its steps once, a pass is earned, the count compared is  *)
(* the vector's own, and the exit code and the report are true.            *)
(***************************************************************************)
EXTENDS ConformanceRunner, FiniteSetTheorems, SequenceTheorems, TLAPS

-----------------------------------------------------------------------------
(* The inductive invariant                                                 *)

Statuses == {"pass", "fail", "not-applicable", "error"}
Checks == {"status", "headers", "body", "json", "bytes", "invocations"}
Outcomes == [step : Nat, failures : SUBSET Checks]
Results == [vector : Nat, status : Statuses]
Whereabouts == DOMAIN Responses \cup {"unsent", "sent", "failed", "over"}

\* What the variables hold.
RunnerTypes ==
    /\ vec \in 1 .. Len(Vectors) + 1 /\ at \in Nat
    /\ phase \in {"vector", "reset", "step", "await", "counter", "crashed"}
    /\ pending \subseteq Nat
    /\ group \in Seq(Nat)
    /\ outcomes \in Seq(Outcomes)
    /\ results \in Seq(Results)
    /\ awaited \subseteq Requests
    /\ ran \subseteq Requests /\ IsFiniteSet(ran)
    /\ counter \in Nat
    /\ flight \in [Requests -> Whereabouts]

\* The runner is at the steps of a vector.
AtSteps == phase \in {"step", "await", "counter"}

\* A step that was sent is pending, awaited or judged, and only one of them.
Placed ==
    /\ IsInjective(group) /\ pending \cap ToSet(group) = {}
    /\ phase \in {"vector", "reset"} => at = 1 /\ pending = {}
    /\ phase \in {"vector", "reset", "step"} => group = <<>>
    /\ AtSteps \/ phase = "reset" => vec \in DOMAIN Vectors
    /\ AtSteps =>
         /\ at \in 1 .. Len(Steps(vec)) + 1
         /\ pending \cup ToSet(group) \cup Judged = 1 .. at - 1
         /\ Judged \cap (pending \cup ToSet(group)) = {}
         /\ \A m, n \in DOMAIN outcomes : outcomes[m].step = outcomes[n].step => m = n

\* Nothing is sent ahead of its turn.
Fresh ==
    \A v \in DOMAIN Vectors : \A i \in DOMAIN Steps(v) :
        v > vec \/ (v = vec /\ i >= at) => flight[<<v, i>>] = "unsent"

\* The answers to the steps judged are there and stay, and an outcome without
\* failures is one of an answer that meets the expectation.
Founded ==
    /\ phase = "counter" => \A i \in ToSet(group) : Answered(<<vec, i>>)
    /\ AtSteps => \A n \in DOMAIN outcomes :
         /\ Answered(<<vec, outcomes[n].step>>)
         /\ outcomes[n].failures = {} => Meets(vec, outcomes[n].step)

\* Until a vector ends in an error, only the vector at hand has requests that are
\* under way or were run.
Own ==
    (\A n \in DOMAIN results : results[n].status # "error") =>
        /\ \A r \in Requests : flight[r] = "sent" => r[1] = vec /\ phase \notin {"vector", "reset"}
        /\ AtSteps => counter = Cardinality(ran) /\ \A r \in ran : r[1] = vec

\* There is one result for each vector so far that was asked for, and no other.
Tallied ==
    /\ \A n \in DOMAIN results :
         /\ results[n].vector \in 1 .. vec - 1 /\ Selected(results[n].vector)
         /\ results[n].status = "not-applicable" => ~Applicable(results[n].vector)
    /\ \A m, n \in DOMAIN results : results[m].vector = results[n].vector => m = n
    /\ \A v \in 1 .. vec - 1 :
         Selected(v) => \E n \in DOMAIN results : results[n].vector = v
    /\ AtSteps \/ phase = "reset" => Selected(vec)

RunnerInv ==
    RunnerTypes /\ Placed /\ Fresh /\ Founded /\ Own /\ Tallied /\ PassIsEarned /\ JudgedOnce

-----------------------------------------------------------------------------
(* Vectors and answers                                                     *)

\* Vectors and steps are numbered from 1.
LEMMA VectorFacts ==
    /\ Len(Vectors) \in Nat /\ DOMAIN Vectors = 1 .. Len(Vectors)
    /\ \A v \in DOMAIN Vectors :
         /\ Len(Steps(v)) \in Nat /\ DOMAIN Steps(v) = 1 .. Len(Steps(v))
         /\ \A i \in DOMAIN Steps(v) :
              /\ Steps(v)[i].concurrentWith \in Seq(1 .. i - 1)
              /\ IsInjective(Steps(v)[i].concurrentWith)
<1>1. Len(Vectors) \in Nat /\ DOMAIN Vectors = 1 .. Len(Vectors)
  BY VectorAssumption, LenProperties
<1>2. ASSUME NEW v \in DOMAIN Vectors
      PROVE  Len(Steps(v)) \in Nat /\ DOMAIN Steps(v) = 1 .. Len(Steps(v))
  <2>1. Steps(v) \in Seq(ToSet(Steps(v)))
    BY VectorAssumption DEF Steps
  <2> QED BY <2>1, LenProperties
<1>3. ASSUME NEW v \in DOMAIN Vectors, NEW i \in DOMAIN Steps(v)
      PROVE  /\ Steps(v)[i].concurrentWith \in Seq(1 .. i - 1)
             /\ IsInjective(Steps(v)[i].concurrentWith)
  BY VectorAssumption DEF Steps
<1> QED BY <1>1, <1>2, <1>3

\* The requests are the steps of the vectors.
LEMMA RequestForm ==
    ASSUME NEW v, NEW i
    PROVE  <<v, i>> \in Requests <=> v \in DOMAIN Vectors /\ i \in DOMAIN Steps(v)
  BY DEF Requests

\* Answers that are there stay, and so do the runs that are counted.
AnswersStay ==
    /\ \A r \in Requests : Answered(r) => flight'[r] = flight[r]
    /\ counter \in Nat => counter' \in Nat /\ counter <= counter'

\* What was not sent is not sent.
UnsentStays == \A r \in Requests : flight[r] = "unsent" => flight'[r] = "unsent"

\* Nor is a step of a later vector.
LaterUnsent ==
    \A r \in Requests : r[1] > vec /\ flight[r] = "unsent" => flight'[r] = "unsent"

\* An expectation that is met stays met.
LEMMA MeetsStays ==
    ASSUME AnswersStay, counter \in Nat,
           NEW v \in DOMAIN Vectors, NEW i \in DOMAIN Steps(v), Answered(<<v, i>>)
    PROVE  Answered(<<v, i>>)' /\ (Meets(v, i) => Meets(v, i)')
<1>1. \A j \in DOMAIN Steps(v) : Answered(<<v, j>>) =>
        Answered(<<v, j>>)' /\ Observed(<<v, j>>)' = Observed(<<v, j>>)
  BY RequestForm DEF AnswersStay, Answered, Observed
<1>2. \A n : n \in 0 .. counter => n \in 0 .. counter'
  BY DEF AnswersStay
<1> QED BY <1>1, <1>2 DEF Meets

\* Requests are sent, answered and given up, but an answer is kept.
LEMMA EndsOnce ==
    ASSUME RunnerTypes, NEW r \in Requests, Answer(r) \/ RequestFails(r)
    PROVE  /\ AnswersStay /\ UnsentStays /\ flight' \in [Requests -> Whereabouts]
           /\ \A q \in Requests : flight'[q] = "sent" => flight[q] = "sent"
<1>1. PICK what \in Whereabouts \ {"sent"} : flight' = [flight EXCEPT ![r] = what]
  BY ResponseAssumption DEF Answer, RequestFails, Settles, Whereabouts
<1>2. flight[r] = "sent" /\ ~Answered(r)
  BY ResponseAssumption DEF Answer, RequestFails, UnderWay, Answered
<1>3. counter \in Nat /\ counter' = counter
  BY DEF RunnerTypes, Answer, RequestFails
<1>4. \A q \in Requests : Answered(q) => flight'[q] = flight[q]
  BY <1>1, <1>2 DEF RunnerTypes
<1>5. AnswersStay
  BY <1>3, <1>4 DEF AnswersStay
<1> QED BY <1>1, <1>2, <1>5 DEF UnsentStays, RunnerTypes

-----------------------------------------------------------------------------
(* What does not change                                                    *)

\* The vectors that are asked for are settled with the command line.
LEMMA AskedForever ==
    ASSUME argv' = argv
    PROVE  \A v : (Selected(v)' <=> Selected(v)) /\ (Applicable(v)' <=> Applicable(v))
  BY DEF Selected, Applicable, AskedFor, Values

\* A step's turn comes only once.
LEMMA FreshFrame ==
    ASSUME RunnerTypes, Fresh, UnsentStays, vec' = vec, at' = at \/ at' = at + 1
    PROVE  Fresh'
  BY RequestForm, VectorFacts DEF RunnerTypes, Fresh, UnsentStays

\* The tally is about results alone.
LEMMA TallyFrame ==
    ASSUME Tallied, argv' = argv, vec' = vec, results' = results,
           AtSteps' \/ phase' = "reset" => AtSteps \/ phase = "reset"
    PROVE  Tallied'
  BY AskedForever DEF Tallied

\* A report stands until the next vector is begun.
LEMMA ReportFrame ==
    ASSUME RunnerInv, AnswersStay, vec' = vec, results' = results, outcomes' = outcomes,
           phase' = "vector" => phase = "vector"
    PROVE  PassIsEarned' /\ JudgedOnce'
<1>1. \A status : Reported(status)' => Reported(status)
  BY DEF Reported
<1>2. ASSUME NEW status, Reported(status) PROVE vec - 1 \in DOMAIN Vectors
  <2>1. Len(results) \in DOMAIN results /\ Last(results).vector = vec - 1
    BY <1>2, LenProperties, EmptySeq DEF Reported, RunnerInv, RunnerTypes
  <2>2. vec - 1 \in 1 .. vec - 1
    BY <2>1 DEF RunnerInv, Tallied, Last
  <2> QED BY <2>2, VectorFacts DEF RunnerInv, RunnerTypes
<1>3. PassIsEarned'
  BY <1>1, <1>2, MeetsStays DEF RunnerInv, RunnerTypes, PassIsEarned
<1>4. JudgedOnce'
  BY <1>1 DEF RunnerInv, JudgedOnce, Judged
<1> QED BY <1>3, <1>4

\* The steps of a vector that were sent.
LEMMA SentSteps ==
    ASSUME RunnerInv, AtSteps
    PROVE  /\ pending \cup ToSet(group) \cup Judged \subseteq DOMAIN Steps(vec)
           /\ vec \in DOMAIN Vectors /\ DOMAIN Steps(vec) = 1 .. Len(Steps(vec))
           /\ Len(Steps(vec)) \in Nat /\ at \in 1 .. Len(Steps(vec)) + 1
  BY VectorFacts DEF RunnerInv, Placed

\* What was judged stays founded.
LEMMA FoundedFrame ==
    ASSUME RunnerInv, AnswersStay, vec' = vec, outcomes' = outcomes,
           AtSteps' => AtSteps, phase' = "counter" => phase = "counter" /\ group' = group
    PROVE  Founded'
<1>1. ASSUME AtSteps, NEW n \in DOMAIN outcomes
      PROVE  outcomes[n].step \in DOMAIN Steps(vec) /\ vec \in DOMAIN Vectors
  BY <1>1, SentSteps DEF Judged
<1>2. ASSUME phase = "counter", NEW i \in ToSet(group)
      PROVE  i \in DOMAIN Steps(vec) /\ vec \in DOMAIN Vectors
  BY <1>2, SentSteps DEF AtSteps
<1>3. ASSUME phase' = "counter", NEW i \in ToSet(group') PROVE Answered(<<vec, i>>)'
  BY <1>2, <1>3, MeetsStays DEF RunnerInv, RunnerTypes, Founded
<1>4. ASSUME AtSteps', NEW n \in DOMAIN outcomes
      PROVE  /\ Answered(<<vec, outcomes[n].step>>)'
             /\ outcomes[n].failures = {} => Meets(vec, outcomes[n].step)'
  BY <1>1, <1>4, MeetsStays DEF RunnerInv, RunnerTypes, Founded
<1> QED BY <1>3, <1>4 DEF Founded

-----------------------------------------------------------------------------
(* The target's steps                                                      *)

LEMMA TargetStep ==
    ASSUME RunnerInv, argv' = argv, NEW r \in Requests,
           HandlerRuns(r) \/ Answer(r) \/ RequestFails(r)
    PROVE  RunnerInv'
<1>0. RunnerTypes /\ Placed /\ Founded /\ Own /\ Tallied
  BY DEF RunnerInv
<1>1. /\ vec' = vec /\ at' = at /\ pending' = pending /\ group' = group
      /\ outcomes' = outcomes /\ results' = results /\ awaited' = awaited
      /\ phase' = phase \/ phase' = "crashed"
  BY DEF HandlerRuns, Answer, RequestFails, local
<1>2. /\ AnswersStay /\ UnsentStays /\ flight' \in [Requests -> Whereabouts]
      /\ \A q \in Requests : flight'[q] = "sent" => flight[q] = "sent"
  <2>1. CASE HandlerRuns(r)
    BY <1>0, <2>1 DEF HandlerRuns, AnswersStay, UnsentStays, RunnerTypes
  <2> QED BY <1>0, <2>1, EndsOnce
<1>3. \/ ran' = ran /\ counter' = counter
      \/ /\ flight[r] = "sent" /\ r \notin ran /\ ran' = ran \cup {r} /\ counter' = counter + 1
         /\ phase' = phase
  BY DEF HandlerRuns, Answer, RequestFails, UnderWay
<1>4. /\ ran' \subseteq Requests /\ IsFiniteSet(ran') /\ counter' \in Nat
      /\ counter = Cardinality(ran) => counter' = Cardinality(ran')
  BY <1>0, <1>3, FS_AddElement DEF RunnerTypes
<1>5. RunnerTypes'
  BY <1>0, <1>1, <1>2, <1>4 DEF RunnerTypes
<1>6. Placed'
  BY <1>0, <1>1 DEF Placed, AtSteps, Judged
<1>7. Fresh'
  BY <1>0, <1>1, <1>2, FreshFrame DEF RunnerInv
<1>8. Founded'
  BY <1>1, <1>2, FoundedFrame DEF AtSteps
<1>9. Own'
  <2> SUFFICES ASSUME \A n \in DOMAIN results : results[n].status # "error"
               PROVE  /\ \A q \in Requests : flight'[q] = "sent" =>
                           q[1] = vec /\ phase' \notin {"vector", "reset"}
                      /\ AtSteps' => counter' = Cardinality(ran') /\ \A q \in ran' : q[1] = vec
    BY <1>1 DEF Own
  <2>1. \A q \in Requests : flight'[q] = "sent" => q[1] = vec /\ phase' \notin {"vector", "reset"}
    BY <1>0, <1>1, <1>2 DEF Own
  <2>2. ASSUME AtSteps' PROVE counter' = Cardinality(ran') /\ \A q \in ran' : q[1] = vec
    BY <1>0, <1>1, <1>3, <1>4, <2>2 DEF Own, AtSteps
  <2> QED BY <2>1, <2>2
<1>10. Tallied'
  BY <1>0, <1>1, TallyFrame DEF AtSteps
<1>11. PassIsEarned' /\ JudgedOnce'
  BY <1>1, <1>2, ReportFrame
<1> QED BY <1>5, <1>6, <1>8, <1>9, <1>10, <1>11, <1>7 DEF RunnerInv

-----------------------------------------------------------------------------
(* From vector to vector                                                   *)

\* What is so after every report.
LEMMA Reports ==
    ASSUME RunnerInv, argv' = argv, vec \in DOMAIN Vectors, Selected(vec),
           NEW status \in Statuses, NEW steps \in Seq(Outcomes), Report(status, steps),
           status = "not-applicable" => ~Applicable(vec),
           awaited' \subseteq Requests, ran' \subseteq Requests, IsFiniteSet(ran'),
           counter' \in Nat, flight' \in [Requests -> Whereabouts], LaterUnsent
    PROVE  /\ RunnerTypes' /\ Placed' /\ Fresh' /\ Founded' /\ Tallied'
           /\ \A s : Reported(s)' => s = status
           /\ (\A n \in DOMAIN results' : results'[n].status # "error") =>
                status # "error" /\ \A n \in DOMAIN results : results[n].status # "error"
<1>0. RunnerTypes /\ Tallied
  BY DEF RunnerInv
<1> DEFINE result == [vector |-> vec, status |-> status]
<1>1. /\ results' = Append(results, result) /\ outcomes' = steps /\ vec' = vec + 1
      /\ phase' = "vector" /\ at' = 1 /\ pending' = {} /\ group' = <<>>
  BY DEF Report
<1>2. vec \in Nat \ {0} /\ vec' \in 1 .. Len(Vectors) + 1 /\ result \in Results
      /\ result.vector = vec /\ result.status = status
  BY <1>0, <1>1, VectorFacts DEF RunnerTypes, Results
<1> HIDE DEF result
<1>3. /\ results' \in Seq(Results) /\ Len(results) \in Nat /\ DOMAIN results = 1 .. Len(results)
      /\ DOMAIN results' = 1 .. Len(results) + 1 /\ results'[Len(results) + 1] = result
      /\ Len(results') = Len(results) + 1
      /\ \A n \in 1 .. Len(results) : results'[n] = results[n]
  BY <1>0, <1>1, <1>2, AppendProperties, LenProperties DEF RunnerTypes
<1>4. RunnerTypes'
  BY <1>1, <1>2, <1>3, EmptySeq DEF RunnerTypes
<1>5. Placed'
  BY <1>1 DEF Placed, AtSteps, IsInjective, ToSet
<1>6. Founded'
  BY <1>1 DEF Founded, AtSteps
<1>7. Tallied'
  <2>1. \A n \in DOMAIN results' :
          \/ n \in DOMAIN results /\ results'[n] = results[n]
          \/ n = Len(results) + 1 /\ results'[n] = result
    BY <1>3
  <2>2. \A n \in DOMAIN results :
          /\ results[n].vector \in 1 .. vec - 1 /\ Selected(results[n].vector)
          /\ results[n].status = "not-applicable" => ~Applicable(results[n].vector)
    BY <1>0 DEF Tallied
  <2>3. \A n \in DOMAIN results' :
          /\ results'[n].vector \in 1 .. vec' - 1 /\ Selected(results'[n].vector)
          /\ results'[n].status = "not-applicable" => ~Applicable(results'[n].vector)
    <3> SUFFICES ASSUME NEW n \in DOMAIN results'
                 PROVE  /\ results'[n].vector \in 1 .. vec' - 1 /\ Selected(results'[n].vector)
                        /\ results'[n].status = "not-applicable" => ~Applicable(results'[n].vector)
      OBVIOUS
    <3>1. CASE results'[n] = result
      BY <1>1, <1>2, <3>1
    <3>2. CASE n \in DOMAIN results /\ results'[n] = results[n]
      BY <1>1, <1>2, <2>2, <3>2
    <3> QED BY <2>1, <3>1, <3>2
  <2>4. \A m, n \in DOMAIN results' : results'[m].vector = results'[n].vector => m = n
    BY <1>0, <1>2, <1>3, <2>1, <2>2 DEF Tallied
  <2>5. ASSUME NEW v \in 1 .. vec' - 1, Selected(v)
        PROVE  \E n \in DOMAIN results' : results'[n].vector = v
    <3>1. CASE v = vec
      BY <1>2, <1>3, <3>1
    <3>2. CASE v \in 1 .. vec - 1
      <4>1. PICK n \in DOMAIN results : results[n].vector = v
        BY <1>0, <2>5, <3>2 DEF Tallied
      <4> QED BY <1>3, <4>1
    <3> QED BY <1>1, <1>2, <2>5, <3>1, <3>2
  <2> QED BY <1>1, <2>3, <2>4, <2>5, AskedForever DEF Tallied, AtSteps
<1>8. \A s : Reported(s)' => s = status
  BY <1>2, <1>3 DEF Reported, Last
<1>9. (\A n \in DOMAIN results' : results'[n].status # "error") =>
        status # "error" /\ \A n \in DOMAIN results : results[n].status # "error"
  BY <1>2, <1>3
<1>10. Fresh'
  <2> SUFFICES ASSUME NEW v \in DOMAIN Vectors, NEW i \in DOMAIN Steps(v),
                      v > vec' \/ (v = vec' /\ i >= at')
               PROVE  flight'[<<v, i>>] = "unsent"
    BY DEF Fresh
  <2>1. v \in Nat /\ v > vec
    BY <1>1, <1>2, VectorFacts
  <2>2. <<v, i>> \in Requests /\ flight[<<v, i>>] = "unsent"
    BY <2>1, RequestForm DEF RunnerInv, Fresh
  <2> QED BY <2>1, <2>2 DEF LaterUnsent
<1> QED BY <1>4, <1>5, <1>6, <1>7, <1>8, <1>9, <1>10

\* A report of a vector that was not judged to its end.
LEMMA ReportsUnjudged ==
    ASSUME RunnerInv, argv' = argv, vec \in DOMAIN Vectors, Selected(vec),
           NEW status \in {"error", "not-applicable"}, NEW steps \in Seq(Outcomes),
           Report(status, steps),
           status = "not-applicable" => ~Applicable(vec) /\ phase = "vector" /\ flight' = flight,
           awaited' \subseteq Requests, ran' \subseteq Requests, IsFiniteSet(ran'),
           counter' \in Nat, flight' \in [Requests -> Whereabouts], LaterUnsent
    PROVE  RunnerInv'
<1>1. status \in Statuses /\ status \notin {"pass", "fail"}
  BY DEF Statuses
<1>2. /\ RunnerTypes' /\ Placed' /\ Fresh' /\ Founded' /\ Tallied'
      /\ \A s : Reported(s)' => s = status
      /\ (\A n \in DOMAIN results' : results'[n].status # "error") =>
           status # "error" /\ \A n \in DOMAIN results : results[n].status # "error"
  BY <1>1, Reports
<1>3. PassIsEarned' /\ JudgedOnce'
  BY <1>1, <1>2 DEF PassIsEarned, JudgedOnce
<1>4. Own'
  <2>1. phase' = "vector"
    BY DEF Report
  <2> QED BY <1>2, <2>1 DEF RunnerInv, Own, AtSteps
<1> QED BY <1>2, <1>3, <1>4 DEF RunnerInv

LEMMA SelectStep == ASSUME RunnerInv, argv' = argv, SelectVector PROVE RunnerInv'
<1>0. RunnerTypes /\ Placed /\ Founded /\ Own /\ Tallied
  BY DEF RunnerInv
<1>1. /\ phase = "vector" /\ vec \in DOMAIN Vectors /\ awaited' = awaited
      /\ flight' = flight /\ ran' = ran /\ counter' = counter
  BY DEF SelectVector, target
<1>2. vec \in 1 .. Len(Vectors) /\ Len(Vectors) \in Nat
  BY <1>1, VectorFacts
<1>3. LaterUnsent
  BY <1>1 DEF LaterUnsent
<1>4. CASE ~Selected(vec)
  <2>1. /\ vec' = vec + 1 /\ phase' = phase /\ at' = at /\ pending' = pending /\ group' = group
        /\ outcomes' = outcomes /\ results' = results
    BY <1>4 DEF SelectVector, local
  <2>2. RunnerTypes'
    BY <1>0, <1>1, <1>2, <2>1 DEF RunnerTypes
  <2>3. Placed' /\ Founded' /\ Own'
    BY <1>0, <1>1, <2>1 DEF Placed, Founded, Own, AtSteps
  <2>4. Fresh'
    BY <1>1, <1>2, <2>1, VectorFacts DEF RunnerInv, Fresh
  <2>5. ASSUME NEW status, Reported(status)' PROVE FALSE
    <3>1. Len(results) \in DOMAIN results
      BY <1>0, <2>1, <2>5, LenProperties, EmptySeq DEF Reported, RunnerTypes
    <3>2. results[Len(results)].vector \in 1 .. vec - 1
      BY <1>0, <3>1 DEF Tallied
    <3> QED BY <1>2, <2>1, <2>5, <3>2 DEF Reported, Last
  <2>6. PassIsEarned' /\ JudgedOnce'
    BY <2>5 DEF PassIsEarned, JudgedOnce
  <2>7. Tallied'
    <3>1. \A v \in 1 .. vec' - 1 : v = vec \/ v \in 1 .. vec - 1
      BY <1>2, <2>1
    <3>2. \A v \in 1 .. vec' - 1 :
            Selected(v) => \E n \in DOMAIN results' : results'[n].vector = v
      BY <1>0, <1>4, <2>1, <3>1 DEF Tallied
    <3>3. \A n \in DOMAIN results' :
            /\ results'[n].vector \in 1 .. vec' - 1 /\ Selected(results'[n].vector)
            /\ results'[n].status = "not-applicable" => ~Applicable(results'[n].vector)
      BY <1>0, <1>2, <2>1 DEF Tallied
    <3>4. \A m, n \in DOMAIN results' : results'[m].vector = results'[n].vector => m = n
      BY <1>0, <2>1 DEF Tallied
    <3> QED BY <1>1, <2>1, <3>2, <3>3, <3>4, AskedForever DEF Tallied, AtSteps
  <2> QED BY <2>2, <2>3, <2>6, <2>7, <2>4 DEF RunnerInv
<1>5. CASE Selected(vec) /\ ~Applicable(vec)
  <2>1. Report("not-applicable", <<>>) /\ <<>> \in Seq(Outcomes)
    BY <1>5, EmptySeq DEF SelectVector
  <2> QED BY <1>0, <1>1, <1>5, <1>3, <2>1, ReportsUnjudged DEF RunnerTypes
<1>6. CASE Selected(vec) /\ Applicable(vec)
  <2>1. /\ phase' = "reset" /\ vec' = vec /\ at' = at /\ pending' = pending /\ group' = group
        /\ outcomes' = outcomes /\ results' = results
    BY <1>6 DEF SelectVector, local
  <2>2. RunnerTypes'
    BY <1>0, <1>1, <2>1 DEF RunnerTypes
  <2>3. Placed' /\ Founded' /\ Own'
    BY <1>0, <1>1, <2>1 DEF Placed, Founded, Own, AtSteps
  <2>4. Fresh'
    BY <1>1, <1>2, <2>1, VectorFacts DEF RunnerInv, Fresh
  <2>5. Tallied'
    BY <1>0, <1>6, <2>1, AskedForever DEF Tallied
  <2>6. PassIsEarned' /\ JudgedOnce'
    BY <2>1 DEF PassIsEarned, JudgedOnce, Reported
  <2> QED BY <2>2, <2>3, <2>5, <2>6, <2>4 DEF RunnerInv
<1> QED BY <1>4, <1>5, <1>6

LEMMA ResetStep == ASSUME RunnerInv, argv' = argv, ResetTarget PROVE RunnerInv'
<1>0. RunnerTypes /\ Placed /\ Fresh /\ Own /\ Tallied /\ phase = "reset"
  BY DEF RunnerInv, ResetTarget
<1>1. vec \in DOMAIN Vectors /\ Selected(vec)
  BY <1>0 DEF Placed, Tallied
<1>2. /\ flight' = [r \in Requests |->
                     IF Answered(r) \/ flight[r] = "failed" THEN "over" ELSE flight[r]]
      /\ ran' = {r \in ran : flight[r] = "sent"}
      /\ awaited' = {r \in awaited : flight[r] = "sent"}
  BY DEF ResetTarget
<1>3. flight' \in [Requests -> Whereabouts]
  BY <1>0, <1>2 DEF RunnerTypes, Whereabouts
<1>4. UnsentStays /\ \A r \in Requests : flight'[r] = "sent" => flight[r] = "sent"
  BY <1>2, ResponseAssumption DEF UnsentStays, Answered
<1>5. awaited' \subseteq Requests /\ ran' \subseteq Requests /\ IsFiniteSet(ran')
  BY <1>0, <1>2, FS_Subset DEF RunnerTypes
<1>6. counter' \in Nat
  BY <1>0 DEF ResetTarget, ResetRefused, RunnerTypes
<1>7. CASE Report("error", <<>>)
  <2>1. LaterUnsent
    BY <1>4 DEF UnsentStays, LaterUnsent
  <2> QED BY <1>1, <1>3, <1>5, <1>6, <1>7, <2>1, EmptySeq, ReportsUnjudged
<1>8. CASE BeginSteps /\ counter' = 0
  <2>1. /\ phase' = "step" /\ outcomes' = <<>> /\ vec' = vec /\ at' = at /\ pending' = pending
        /\ group' = group /\ results' = results
    BY <1>8 DEF BeginSteps
  <2>2. RunnerTypes'
    BY <1>0, <1>3, <1>5, <1>6, <2>1, EmptySeq DEF RunnerTypes
  <2>3. Placed'
    <3>1. Len(Steps(vec)) \in Nat /\ at = 1 /\ pending = {} /\ group = <<>>
      BY <1>0, <1>1, VectorFacts DEF Placed
    <3>2. Judged' = {} /\ ToSet(group) = {}
      BY <2>1, <3>1 DEF Judged, ToSet
    <3> QED BY <1>0, <1>1, <2>1, <3>1, <3>2 DEF Placed
  <2>4. Fresh'
    BY <1>0, <1>4, <2>1, FreshFrame
  <2>5. Founded'
    BY <2>1 DEF Founded
  <2>6. Own'
    <3> SUFFICES ASSUME \A n \in DOMAIN results : results[n].status # "error"
                 PROVE  /\ \A r \in Requests : flight'[r] # "sent"
                        /\ ran' = {} /\ counter' = Cardinality(ran')
      BY <2>1 DEF Own
    <3>1. \A r \in Requests : flight[r] # "sent"
      BY <1>0 DEF Own
    <3>2. ran' = {}
      BY <1>0, <1>2, <3>1 DEF RunnerTypes
    <3> QED BY <1>4, <1>8, <3>1, <3>2, FS_EmptySet
  <2>7. Tallied'
    BY <1>0, <2>1, TallyFrame
  <2>8. PassIsEarned' /\ JudgedOnce'
    BY <2>1 DEF PassIsEarned, JudgedOnce, Reported
  <2> QED BY <2>2, <2>3, <2>4, <2>5, <2>6, <2>7, <2>8 DEF RunnerInv
<1> QED BY <1>7, <1>8 DEF ResetTarget, ResetRefused

-----------------------------------------------------------------------------
(* The steps of a vector                                                   *)

\* How many there are up to n.
LEMMA UpTo == ASSUME NEW n \in Nat PROVE IsFiniteSet(1 .. n) /\ Cardinality(1 .. n) = n
  BY FS_Interval

\* The order in which steps were sent names each of them once.
LEMMA OrderFacts ==
    ASSUME NEW is \in SUBSET Nat, IsFiniteSet(is), NEW s \in InOrder(is)
    PROVE  s \in Seq(Nat) /\ IsInjective(s) /\ ToSet(s) = is
<1> DEFINE n == Cardinality(is)
<1>1. n \in Nat /\ s \in [1 .. n -> is] /\ \A l, m \in DOMAIN s : l < m => s[l] < s[m]
  BY FS_CardinalityType DEF InOrder
<1> HIDE DEF n
<1>2. IsInjective(s)
  <2> SUFFICES ASSUME NEW l \in 1 .. n, NEW m \in 1 .. n, s[l] = s[m] PROVE l = m
    BY <1>1 DEF IsInjective
  <2>0. s[l] \in is /\ s[m] \in is
    BY <1>1
  <2>1. s[l] \in Nat /\ s[m] \in Nat
    BY <2>0
  <2>2. l \in Int /\ m \in Int
    BY <1>1
  <2>3. ~(l < m) /\ ~(m < l)
    BY <1>1, <2>1, <2>2
  <2> QED BY <2>2, <2>3
<1>3. s \in Injection(1 .. n, is)
  BY <1>1, <1>2 DEF Injection
<1>4. Cardinality(1 .. n) = n
  BY <1>1, UpTo
<1>5. s \in Surjection(1 .. n, is)
  BY <1>3, <1>4, FS_Injection DEF n
<1>6. ToSet(s) = is
  BY <1>1, <1>5 DEF Surjection, ToSet
<1>7. s \in Seq(Nat)
  <2>1. s \in [1 .. n -> Nat]
    BY <1>1
  <2> QED BY <1>1, <2>1, SeqDef
<1> QED BY <1>2, <1>6, <1>7

LEMMA SettleStep == ASSUME RunnerInv, argv' = argv, SettlePending PROVE RunnerInv'
<1>0. RunnerTypes /\ Placed /\ Fresh /\ Own /\ Tallied /\ phase = "step" /\ AtSteps
  BY DEF RunnerInv, SettlePending, AtSteps
<1>1. PICK s \in InOrder(pending) : AwaitGroup(s)
  BY DEF SettlePending
<1>2. /\ group' = s /\ phase' = "await" /\ awaited' = awaited \cup {<<vec, i>> : i \in ToSet(s)}
      /\ pending' = {} /\ vec' = vec /\ at' = at /\ outcomes' = outcomes /\ results' = results
      /\ flight' = flight /\ ran' = ran /\ counter' = counter
  BY <1>1 DEF SettlePending, AwaitGroup, Settled, target
<1>3. /\ at - 1 \in Nat /\ pending \subseteq 1 .. at - 1 /\ group = <<>>
      /\ pending \subseteq DOMAIN Steps(vec) /\ vec \in DOMAIN Vectors
  BY <1>0, SentSteps DEF Placed
<1>4. IsFiniteSet(pending)
  <2>1. IsFiniteSet(1 .. at - 1)
    BY <1>3, FS_Interval
  <2> QED BY <1>3, <2>1, FS_Subset
<1>5. s \in Seq(Nat) /\ IsInjective(s) /\ ToSet(s) = pending
  BY <1>0, <1>4, OrderFacts DEF RunnerTypes
<1>6. RunnerTypes'
  BY <1>0, <1>2, <1>3, <1>5, RequestForm DEF RunnerTypes
<1>7. Placed'
  <2>1. ToSet(group) = {} /\ Judged' = Judged /\ AtSteps'
    BY <1>2, <1>3 DEF ToSet, Judged, AtSteps
  <2> QED BY <1>0, <1>2, <1>5, <2>1 DEF Placed
<1>8. AnswersStay /\ UnsentStays
  BY <1>2 DEF AnswersStay, UnsentStays
<1>9. Fresh'
  BY <1>0, <1>2, <1>8, FreshFrame
<1>10. Founded'
  BY <1>0, <1>2, <1>8, FoundedFrame
<1>11. Own'
  BY <1>0, <1>2 DEF Own, AtSteps
<1>12. Tallied'
  BY <1>0, <1>2, TallyFrame
<1>13. PassIsEarned' /\ JudgedOnce'
  BY <1>2 DEF PassIsEarned, JudgedOnce, Reported
<1> QED BY <1>6, <1>7, <1>9, <1>10, <1>11, <1>12, <1>13 DEF RunnerInv

\* One more element.
LEMMA AppendSet ==
    ASSUME NEW S, NEW s \in Seq(S), NEW x
    PROVE  /\ ToSet(Append(s, x)) = ToSet(s) \cup {x}
           /\ IsInjective(s) /\ x \notin ToSet(s) => IsInjective(Append(s, x))
<1> DEFINE t == Append(s, x)
<1>1. /\ Len(s) \in Nat /\ DOMAIN s = 1 .. Len(s) /\ DOMAIN t = 1 .. Len(s) + 1
      /\ t[Len(s) + 1] = x /\ \A n \in 1 .. Len(s) : t[n] = s[n]
  BY SMT
<1> HIDE DEF t
<1>2. ToSet(t) = ToSet(s) \cup {x}
  BY <1>1 DEF ToSet
<1>3. ASSUME IsInjective(s), x \notin ToSet(s) PROVE IsInjective(t)
  BY <1>1, <1>3 DEF IsInjective, ToSet
<1> QED BY <1>2, <1>3 DEF t

LEMMA SendingStep == ASSUME RunnerInv, argv' = argv, SendStep PROVE RunnerInv'
<1>0. RunnerTypes /\ Placed /\ Fresh /\ Own /\ Tallied /\ phase = "step" /\ AtSteps
  BY DEF RunnerInv, SendStep, AtSteps
<1>1. /\ at \in DOMAIN Steps(vec) /\ ran' = ran /\ counter' = counter
      /\ flight' = [flight EXCEPT ![<<vec, at>>] = "sent"]
  BY DEF SendStep
<1>2. /\ vec \in DOMAIN Vectors /\ vec \in Nat /\ group = <<>> /\ ToSet(group) = {}
      /\ Len(Steps(vec)) \in Nat /\ at \in 1 .. Len(Steps(vec))
      /\ pending \cup Judged = 1 .. at - 1 /\ Judged \cap pending = {}
      /\ <<vec, at>> \in Requests /\ flight[<<vec, at>>] = "unsent"
  <2>1. group = <<>> /\ ToSet(group) = {}
    BY <1>0 DEF Placed, ToSet
  <2>2. vec \in DOMAIN Vectors /\ DOMAIN Steps(vec) = 1 .. Len(Steps(vec)) /\ Len(Steps(vec)) \in Nat
    BY <1>0, SentSteps
  <2>3. <<vec, at>> \in Requests /\ flight[<<vec, at>>] = "unsent"
    BY <1>0, <1>1, <2>2, RequestForm DEF Fresh, RunnerTypes
  <2> QED BY <1>0, <1>1, <2>1, <2>2, <2>3 DEF Placed, RunnerTypes
<1>3. /\ flight' \in [Requests -> Whereabouts] /\ AnswersStay /\ LaterUnsent
      /\ \A r \in Requests : flight'[r] = "sent" => r[1] = vec \/ flight[r] = "sent"
  <2>1. flight' \in [Requests -> Whereabouts]
    BY <1>0, <1>1, <1>2 DEF RunnerTypes, Whereabouts
  <2>2. AnswersStay
    <3>1. \A r \in Requests : Answered(r) => flight'[r] = flight[r]
      BY <1>0, <1>1, <1>2, ResponseAssumption DEF RunnerTypes, Answered
    <3> QED BY <1>0, <1>1, <3>1 DEF RunnerTypes, AnswersStay
  <2>3. LaterUnsent /\ \A r \in Requests : flight'[r] = "sent" => r[1] = vec \/ flight[r] = "sent"
    BY <1>0, <1>1, <1>2 DEF RunnerTypes, LaterUnsent
  <2> QED BY <2>1, <2>2, <2>3
\* What is so when the vector goes on.
<1>4. ASSUME vec' = vec, at' = at + 1, outcomes' = outcomes, results' = results,
             phase' \in {"step", "await"},
             group' \in Seq(Nat), IsInjective(group'), phase' = "step" => group' = <<>>,
             pending' \cap ToSet(group') = {}, awaited' \subseteq Requests,
             pending' \cup ToSet(group') = pending \cup {at}
      PROVE  RunnerInv'
  <2>1. RunnerTypes'
    BY <1>0, <1>1, <1>2, <1>3, <1>4 DEF RunnerTypes
  <2>2. Placed'
    <3>1. Judged' = Judged /\ AtSteps'
      BY <1>4 DEF Judged, AtSteps
    <3>2. pending' \cup ToSet(group') \cup Judged = 1 .. at' - 1
      BY <1>2, <1>4
    <3>3. Judged \cap (pending' \cup ToSet(group')) = {}
      BY <1>2, <1>4
    <3>4. at' \in 1 .. Len(Steps(vec)) + 1
      BY <1>2, <1>4
    <3> QED BY <1>0, <1>2, <1>4, <3>1, <3>2, <3>3, <3>4 DEF Placed
  <2>3. Fresh'
    <3> SUFFICES ASSUME NEW v \in DOMAIN Vectors, NEW i \in DOMAIN Steps(v),
                        v > vec \/ (v = vec /\ i >= at + 1)
                 PROVE  flight'[<<v, i>>] = "unsent"
      BY <1>4 DEF Fresh
    <3>1. v \in Nat /\ i \in Nat /\ <<v, i>> \in Requests
      BY VectorFacts, RequestForm
    <3>2. flight[<<v, i>>] = "unsent" /\ <<v, i>> # <<vec, at>>
      BY <1>0, <1>2, <3>1 DEF Fresh
    <3> QED BY <1>0, <1>1, <3>1, <3>2 DEF RunnerTypes
  <2>4. Founded'
    BY <1>0, <1>3, <1>4, FoundedFrame
  <2>5. Own'
    BY <1>0, <1>1, <1>3, <1>4 DEF Own, AtSteps
  <2>6. Tallied'
    BY <1>0, <1>4, TallyFrame
  <2>7. PassIsEarned' /\ JudgedOnce'
    BY <1>4 DEF PassIsEarned, JudgedOnce, Reported
  <2> QED BY <2>1, <2>2, <2>3, <2>4, <2>5, <2>6, <2>7 DEF RunnerInv
<1>5. CASE /\ at \in deferredIds
           /\ pending' = pending \cup {at} /\ at' = at + 1
           /\ UNCHANGED <<vec, phase, group, outcomes, results, awaited>>
  <2>1. /\ vec' = vec /\ phase' = phase /\ group' = group /\ outcomes' = outcomes
        /\ results' = results /\ awaited' = awaited
    BY <1>5
  <2> QED BY <1>0, <1>2, <1>4, <1>5, <2>1 DEF RunnerTypes, Placed
<1>6. CASE /\ ToSet(Partners(at)) \subseteq pending
           /\ AwaitGroup(Append(Partners(at), at))
           /\ pending' = Unpend(Partners(at)) /\ at' = at + 1
           /\ UNCHANGED <<vec, outcomes, results>>
  <2> DEFINE ps == Partners(at)
  <2>1. ps \in Seq(1 .. at - 1) /\ IsInjective(ps)
    BY <1>1, <1>2, VectorFacts DEF Partners
  <2> HIDE DEF ps
  <2>2. ToSet(ps) \subseteq pending /\ at \notin pending /\ at \notin Judged
    BY <1>2, <1>6 DEF ps
  <2>3. /\ group' = Append(ps, at) /\ phase' = "await" /\ pending' = pending \ ToSet(ps)
        /\ awaited' = awaited \cup {<<vec, i>> : i \in ToSet(group')}
        /\ vec' = vec /\ outcomes' = outcomes /\ results' = results /\ at' = at + 1
    BY <1>6 DEF AwaitGroup, Unpend, ps
  <2>4. ToSet(group') = ToSet(ps) \cup {at} /\ IsInjective(group')
    BY <2>1, <2>2, <2>3, AppendSet
  <2>5. group' \in Seq(Nat)
    <3>1. ps \in Seq(Nat) /\ at \in Nat
      BY <1>2, <2>1, SeqMonotonic
    <3> QED BY <2>3, <3>1, AppendProperties
  <2>6. ToSet(group') \subseteq DOMAIN Steps(vec)
    BY <1>1, <1>0, <2>2, <2>4, SentSteps
  <2>7. awaited' \subseteq Requests
    BY <1>0, <1>2, <2>3, <2>6, RequestForm DEF RunnerTypes
  <2>8. pending' \cap ToSet(group') = {} /\ pending' \cup ToSet(group') = pending \cup {at}
    BY <2>2, <2>3, <2>4
  <2> QED BY <1>4, <2>3, <2>4, <2>5, <2>7, <2>8
<1>7. CASE Report("error", outcomes) /\ UNCHANGED awaited
  BY <1>0, <1>1, <1>2, <1>3, <1>7, ReportsUnjudged DEF RunnerTypes, Tallied
<1> QED BY <1>5, <1>6, <1>7 DEF SendStep

\* The checks that an outcome without failures stands for.
LEMMA NoFailures ==
    ASSUME NEW expect, NEW observed, NEW prior, NEW invocations
    PROVE  /\ evaluateExpect(expect, observed, prior, invocations) \subseteq Checks
           /\ evaluateExpect(expect, observed, prior, invocations) = {} =>
                /\ observed.status = expect.status
                /\ \A h \in DOMAIN expect.headers :
                     checkHeader(expect.headers[h], observed.headers[h])
                /\ checkBodyEquals(expect, observed.body, prior)
                /\ expect.json # Absent => checkBodyJson(expect.json, observed.body)
                /\ expect.bytes # Absent => observed.body.bytes = expect.bytes
                /\ expect.invocations # Absent => invocations = expect.invocations
<1> DEFINE holds ==
             [status |-> observed.status = expect.status,
              headers |-> \A n \in DOMAIN expect.headers :
                            checkHeader(expect.headers[n], observed.headers[n]),
              body |-> checkBodyEquals(expect, observed.body, prior),
              json |-> expect.json # Absent => checkBodyJson(expect.json, observed.body),
              bytes |-> expect.bytes # Absent => observed.body.bytes = expect.bytes,
              invocations |-> expect.invocations # Absent => invocations = expect.invocations]
           failures == evaluateExpect(expect, observed, prior, invocations)
<1>1. failures = {c \in DOMAIN holds : ~holds[c]}
  BY DEF evaluateExpect
<1>2. DOMAIN holds = Checks
  BY DEF Checks
<1>3. /\ holds["status"] = (observed.status = expect.status)
      /\ holds["headers"] = \A h \in DOMAIN expect.headers :
                               checkHeader(expect.headers[h], observed.headers[h])
      /\ holds["body"] = checkBodyEquals(expect, observed.body, prior)
      /\ holds["json"] = (expect.json # Absent => checkBodyJson(expect.json, observed.body))
      /\ holds["bytes"] = (expect.bytes # Absent => observed.body.bytes = expect.bytes)
      /\ holds["invocations"] = (expect.invocations # Absent => invocations = expect.invocations)
  BY Zenon
<1> HIDE DEF holds, failures
<1>4. failures = {} => holds["status"] /\ holds["headers"] /\ holds["body"]
                        /\ holds["json"] /\ holds["bytes"] /\ holds["invocations"]
  BY <1>1, <1>2 DEF Checks
<1> QED BY <1>1, <1>2, <1>3, <1>4, Zenon DEF failures

\* A group that was answered is judged: its steps move from the awaited to the
\* judged ones.
LEMMA GroupJudged ==
    ASSUME RunnerInv, argv' = argv, phase \in {"await", "counter"},
           \A n \in DOMAIN group : Answered(<<vec, group[n]>>),
           NEW invocations \in {counter, Absent}, evaluateGroup(invocations),
           awaited' = awaited, flight' = flight, ran' = ran, counter' = counter
    PROVE  RunnerInv'
<1>0. RunnerTypes /\ Placed /\ Fresh /\ Founded /\ Own /\ Tallied /\ AtSteps
  BY DEF RunnerInv, AtSteps
<1> DEFINE judgements == [n \in DOMAIN group |-> StepOutcome(n, invocations)]
<1>1. /\ outcomes' = outcomes \o judgements /\ group' = <<>> /\ phase' = "step"
      /\ vec' = vec /\ at' = at /\ pending' = pending /\ results' = results
  BY DEF evaluateGroup
<1>2. /\ Len(group) \in Nat /\ DOMAIN group = 1 .. Len(group)
      /\ \A n \in DOMAIN group : group[n] \in Nat
  BY <1>0, LenProperties, ElementOfSeq DEF RunnerTypes
<1>3. ASSUME NEW n \in DOMAIN group
      PROVE  /\ StepOutcome(n, invocations) \in Outcomes
             /\ StepOutcome(n, invocations).step = group[n]
             /\ StepOutcome(n, invocations).failures = {} => Meets(vec, group[n])
  <2> DEFINE known == Judged \cup {group[m] : m \in 1 .. n - 1}
             prior == [i \in known |-> Observed(<<vec, i>>).body]
             expect == Steps(vec)[group[n]].expect
             observed == Observed(<<vec, group[n]>>)
             failures == evaluateExpect(expect, observed, prior, invocations)
  <2>1. StepOutcome(n, invocations) = [step |-> group[n], failures |-> failures]
    BY DEF StepOutcome
  <2>2. \A i \in known : i \in DOMAIN Steps(vec) /\ Answered(<<vec, i>>)
    <3>1. \A m \in 1 .. n - 1 : m \in DOMAIN group /\ group[m] \in ToSet(group)
      BY <1>2 DEF ToSet
    <3>2. \A i \in Judged : i \in DOMAIN Steps(vec) /\ Answered(<<vec, i>>)
      BY <1>0, SentSteps DEF Founded, Judged
    <3>3. \A i \in ToSet(group) : i \in DOMAIN Steps(vec)
      BY <1>0, SentSteps
    <3> QED BY <3>1, <3>2, <3>3
  <2>3. DOMAIN prior = known /\ \A i \in known : prior[i] = Observed(<<vec, i>>).body
    OBVIOUS
  <2> HIDE DEF known, prior
  <2>4. /\ failures \in SUBSET Checks
        /\ failures = {} =>
             /\ observed.status = expect.status
             /\ \A h \in DOMAIN expect.headers :
                  checkHeader(expect.headers[h], observed.headers[h])
             /\ checkBodyEquals(expect, observed.body, prior)
             /\ expect.json # Absent => checkBodyJson(expect.json, observed.body)
             /\ expect.bytes # Absent => observed.body.bytes = expect.bytes
             /\ expect.invocations # Absent => invocations = expect.invocations
    BY NoFailures
  <2> HIDE DEF failures
  <2>5. \A c : c = counter => c \in 0 .. counter
    BY <1>0 DEF RunnerTypes
  <2>6. failures = {} => (expect.invocations # Absent => expect.invocations \in 0 .. counter)
    BY <2>4, <2>5
  <2>7. failures = {} => Meets(vec, group[n])
    BY <2>2, <2>3, <2>4, <2>6 DEF Meets, checkBodyEquals
  <2> QED BY <1>2, <2>1, <2>4, <2>7 DEF Outcomes
<1>4. /\ judgements \in Seq(Outcomes) /\ Len(judgements) = Len(group)
      /\ \A n \in 1 .. Len(group) :
           /\ judgements[n].step = group[n]
           /\ judgements[n].failures = {} => Meets(vec, group[n])
  <2>1. judgements \in [1 .. Len(group) -> Outcomes]
    BY <1>2, <1>3
  <2>2. judgements \in Seq(Outcomes)
    BY <1>2, <2>1, SeqDef
  <2>3. Len(judgements) = Len(group)
    BY <1>2, <2>1, <2>2, LenProperties
  <2> QED BY <1>2, <1>3, <2>2, <2>3
<1> HIDE DEF judgements
<1>5. /\ outcomes' \in Seq(Outcomes) /\ Len(outcomes) \in Nat /\ DOMAIN outcomes = 1 .. Len(outcomes)
      /\ DOMAIN outcomes' = 1 .. Len(outcomes) + Len(group)
      /\ \A n \in 1 .. Len(outcomes) + Len(group) :
           outcomes'[n] = IF n <= Len(outcomes) THEN outcomes[n] ELSE judgements[n - Len(outcomes)]
  <2>1. outcomes \in Seq(Outcomes) /\ Len(outcomes) \in Nat /\ DOMAIN outcomes = 1 .. Len(outcomes)
    BY <1>0, LenProperties DEF RunnerTypes
  <2>2. /\ outcomes \o judgements \in Seq(Outcomes)
        /\ Len(outcomes \o judgements) = Len(outcomes) + Len(judgements)
        /\ \A n \in 1 .. Len(outcomes) + Len(judgements) :
             (outcomes \o judgements)[n] =
               IF n <= Len(outcomes) THEN outcomes[n] ELSE judgements[n - Len(outcomes)]
    BY <1>4, <2>1, ConcatProperties, Zenon
  <2>3. DOMAIN outcomes' = 1 .. Len(outcomes')
    BY <1>1, <2>2, LenProperties
  <2> QED BY <1>1, <1>4, <2>1, <2>2, <2>3
\* An outcome is an earlier one, or one of the group.
<1>6. ASSUME NEW n \in DOMAIN outcomes'
      PROVE  \/ n \in DOMAIN outcomes /\ outcomes'[n] = outcomes[n]
             \/ /\ n - Len(outcomes) \in DOMAIN group /\ n \notin DOMAIN outcomes
                /\ outcomes'[n] = judgements[n - Len(outcomes)]
  BY <1>2, <1>5
<1>7. ASSUME NEW n \in DOMAIN group
      PROVE  /\ n + Len(outcomes) \in DOMAIN outcomes'
             /\ outcomes'[n + Len(outcomes)].step = group[n]
  BY <1>2, <1>4, <1>5
<1>8. Judged' = Judged \cup ToSet(group)
  <2>1. \A i \in Judged' : i \in Judged \cup ToSet(group)
    BY <1>2, <1>4, <1>6 DEF Judged, ToSet
  <2>2. \A i \in Judged : i \in Judged'
    BY <1>2, <1>5 DEF Judged
  <2>3. \A i \in ToSet(group) : i \in Judged'
    BY <1>7 DEF Judged, ToSet
  <2> QED BY <2>1, <2>2, <2>3
<1>9. \A m, n \in DOMAIN outcomes' : outcomes'[m].step = outcomes'[n].step => m = n
  <2> SUFFICES ASSUME NEW m \in DOMAIN outcomes', NEW n \in DOMAIN outcomes',
                      outcomes'[m].step = outcomes'[n].step
               PROVE  m = n
    OBVIOUS
  <2>1. \A l \in DOMAIN outcomes : outcomes[l].step \in Judged
    BY DEF Judged
  <2>2. \A l \in DOMAIN group : group[l] \in ToSet(group) /\ judgements[l].step = group[l]
    BY <1>2, <1>4 DEF ToSet
  <2>3. Judged \cap ToSet(group) = {}
    BY <1>0 DEF Placed
  <2>4. CASE m \in DOMAIN outcomes /\ n \in DOMAIN outcomes
    BY <1>0, <1>6, <2>4 DEF Placed
  <2>5. CASE m \notin DOMAIN outcomes /\ n \notin DOMAIN outcomes
    <3>1. m - Len(outcomes) = n - Len(outcomes)
      BY <1>0, <1>6, <2>2, <2>5 DEF Placed, IsInjective
    <3> QED BY <1>2, <1>5, <3>1
  <2>6. CASE (m \in DOMAIN outcomes) # (n \in DOMAIN outcomes)
    BY <1>6, <2>1, <2>2, <2>3, <2>6
  <2> QED BY <2>4, <2>5, <2>6
<1>10. RunnerTypes'
  BY <1>0, <1>1, <1>5, EmptySeq DEF RunnerTypes
<1>11. Placed'
  <2>1. ToSet(group') = {} /\ IsInjective(group') /\ AtSteps'
    BY <1>1 DEF ToSet, IsInjective, AtSteps
  <2> QED BY <1>0, <1>1, <1>8, <1>9, <2>1 DEF Placed
<1>12. Founded'
  <2>1. \A v, i : (Meets(v, i)' <=> Meets(v, i)) /\ (Answered(<<v, i>>)' <=> Answered(<<v, i>>))
    BY DEF Meets, Answered, Observed
  <2>2. ASSUME NEW n \in DOMAIN outcomes'
        PROVE  /\ Answered(<<vec, outcomes'[n].step>>)
               /\ outcomes'[n].failures = {} => Meets(vec, outcomes'[n].step)
    BY <1>0, <1>2, <1>4, <1>6 DEF Founded
  <2> QED BY <1>1, <2>1, <2>2 DEF Founded
<1>13. Fresh'
  BY <1>0, <1>1, FreshFrame DEF UnsentStays
<1>14. Own'
  BY <1>0, <1>1 DEF Own, AtSteps
<1>15. Tallied'
  BY <1>0, <1>1, TallyFrame
<1>16. PassIsEarned' /\ JudgedOnce'
  BY <1>1 DEF PassIsEarned, JudgedOnce, Reported
<1> QED BY <1>10, <1>11, <1>12, <1>13, <1>14, <1>15, <1>16 DEF RunnerInv

LEMMA AnsweredStep == ASSUME RunnerInv, argv' = argv, GroupAnswered PROVE RunnerInv'
<1>0. RunnerTypes /\ Placed /\ Fresh /\ Founded /\ Own /\ Tallied /\ phase = "await"
  BY DEF RunnerInv, GroupAnswered
<1>1. /\ awaited' = awaited /\ flight' = flight /\ ran' = ran /\ counter' = counter
      /\ \A n \in DOMAIN group : Answered(<<vec, group[n]>>)
  BY DEF GroupAnswered, target
<1>2. CASE evaluateGroup(Absent)
  BY <1>0, <1>1, <1>2, GroupJudged
<1>3. CASE phase' = "counter" /\ UNCHANGED <<vec, local, results>>
  <2>1. /\ vec' = vec /\ at' = at /\ pending' = pending /\ group' = group
        /\ outcomes' = outcomes /\ results' = results
    BY <1>3 DEF local
  <2>2. RunnerTypes'
    BY <1>0, <1>1, <1>3, <2>1 DEF RunnerTypes
  <2>3. Placed'
    BY <1>0, <1>3, <2>1 DEF Placed, AtSteps, Judged
  <2>4. Fresh'
    BY <1>0, <1>1, <2>1, FreshFrame DEF UnsentStays
  <2>5. Founded'
    <3>1. \A v, i : (Meets(v, i)' <=> Meets(v, i)) /\ (Answered(<<v, i>>)' <=> Answered(<<v, i>>))
      BY <1>1 DEF Meets, Answered, Observed
    <3> QED BY <1>0, <1>1, <2>1, <3>1 DEF Founded, AtSteps, ToSet
  <2>6. Own'
    BY <1>0, <1>1, <1>3, <2>1 DEF Own, AtSteps
  <2>7. Tallied'
    BY <1>0, <2>1, TallyFrame DEF AtSteps
  <2>8. PassIsEarned' /\ JudgedOnce'
    BY <1>3 DEF PassIsEarned, JudgedOnce, Reported
  <2> QED BY <2>2, <2>3, <2>4, <2>5, <2>6, <2>7, <2>8 DEF RunnerInv
<1> QED BY <1>2, <1>3 DEF GroupAnswered

LEMMA RejectedStep == ASSUME RunnerInv, argv' = argv, GroupRejected PROVE RunnerInv'
<1>1. /\ phase = "await" /\ Report("error", outcomes) /\ awaited' = awaited
      /\ flight' = flight /\ ran' = ran /\ counter' = counter
  BY DEF GroupRejected, target
<1>2. vec \in DOMAIN Vectors /\ Selected(vec) /\ LaterUnsent
  BY <1>1 DEF RunnerInv, Placed, Tallied, AtSteps, LaterUnsent
<1> QED BY <1>1, <1>2, ReportsUnjudged DEF RunnerInv, RunnerTypes

LEMMA CounterStep == ASSUME RunnerInv, argv' = argv, readCounter PROVE RunnerInv'
<1>1. /\ phase = "counter" /\ awaited' = awaited
      /\ flight' = flight /\ ran' = ran /\ counter' = counter
  BY DEF readCounter, target
<1>2. CASE Report("error", outcomes)
  <2>1. vec \in DOMAIN Vectors /\ Selected(vec) /\ LaterUnsent
    BY <1>1 DEF RunnerInv, Placed, Tallied, AtSteps, LaterUnsent
  <2> QED BY <1>1, <1>2, <2>1, ReportsUnjudged DEF RunnerInv, RunnerTypes
<1>3. ASSUME NEW invocations \in {counter, Absent}, evaluateGroup(invocations) PROVE RunnerInv'
  <2>1. \A n \in DOMAIN group : Answered(<<vec, group[n]>>)
    BY <1>1 DEF RunnerInv, Founded, ToSet
  <2> QED BY <1>1, <1>3, <2>1, GroupJudged
<1> QED BY <1>2, <1>3 DEF readCounter

\* At the end of a vector every step has been judged, once.
LEMMA AllJudged ==
    ASSUME RunnerInv, Verdict
    PROVE  /\ Judged = DOMAIN Steps(vec) /\ Len(outcomes) = Len(Steps(vec))
           /\ \A i \in DOMAIN Steps(vec) :
                \E n \in DOMAIN outcomes : outcomes[n].step = i /\ Answered(<<vec, i>>)
<1>0. RunnerTypes /\ Placed /\ Founded /\ AtSteps /\ phase = "step"
  BY DEF RunnerInv, Verdict, AtSteps
<1>1. at \notin DOMAIN Steps(vec) /\ pending = {} /\ ToSet(group) = {}
  BY <1>0 DEF Verdict, MustSettle, Placed, ToSet
<1>2. /\ Len(Steps(vec)) \in Nat /\ DOMAIN Steps(vec) = 1 .. Len(Steps(vec))
      /\ at = Len(Steps(vec)) + 1
  BY <1>0, <1>1, SentSteps
<1>3. Judged = DOMAIN Steps(vec)
  BY <1>0, <1>1, <1>2 DEF Placed
<1>4. Len(outcomes) = Len(Steps(vec))
  <2> DEFINE f == [n \in 1 .. Len(outcomes) |-> outcomes[n].step]
  <2>1. Len(outcomes) \in Nat /\ DOMAIN outcomes = 1 .. Len(outcomes)
    BY <1>0, LenProperties DEF RunnerTypes
  <2>2. f \in [1 .. Len(outcomes) -> DOMAIN Steps(vec)] /\ IsInjective(f)
    BY <1>0, <1>3, <2>1 DEF Judged, Placed, IsInjective
  <2>3. \A i \in DOMAIN Steps(vec) : \E n \in 1 .. Len(outcomes) : f[n] = i
    BY <1>3, <2>1 DEF Judged
  <2> HIDE DEF f
  <2>4. f \in Bijection(1 .. Len(outcomes), DOMAIN Steps(vec))
    BY <2>2, <2>3 DEF Bijection, Injection, Surjection
  <2>5. IsFiniteSet(1 .. Len(outcomes)) /\ Cardinality(1 .. Len(outcomes)) = Len(outcomes)
    BY <2>1, UpTo
  <2>6. Cardinality(DOMAIN Steps(vec)) = Cardinality(1 .. Len(outcomes))
    BY <2>4, <2>5, FS_Bijection DEF ExistsBijection
  <2>7. Cardinality(DOMAIN Steps(vec)) = Len(Steps(vec))
    BY <1>2, UpTo
  <2> QED BY <2>5, <2>6, <2>7
<1> QED BY <1>0, <1>3, <1>4 DEF Judged, Founded

LEMMA VerdictStep == ASSUME RunnerInv, argv' = argv, Verdict PROVE RunnerInv'
<1>0. RunnerTypes /\ Placed /\ Founded /\ Own /\ Tallied /\ AtSteps
  BY DEF RunnerInv, Verdict, AtSteps
<1> DEFINE status == IF \A n \in DOMAIN outcomes : outcomes[n].failures = {} THEN "pass" ELSE "fail"
<1>1. /\ Report(status, outcomes) /\ awaited' = awaited
      /\ flight' = flight /\ ran' = ran /\ counter' = counter
  BY DEF Verdict, target
<1>2. status \in Statuses /\ status \notin {"error", "not-applicable"}
      /\ (status = "pass" => \A n \in DOMAIN outcomes : outcomes[n].failures = {})
  BY DEF Statuses
<1> HIDE DEF status
<1>3. vec \in DOMAIN Vectors /\ Selected(vec) /\ LaterUnsent
  BY <1>0, <1>1 DEF Placed, Tallied, LaterUnsent
<1>4. /\ RunnerTypes' /\ Placed' /\ Fresh' /\ Founded' /\ Tallied'
      /\ \A s : Reported(s)' => s = status
      /\ (\A n \in DOMAIN results' : results'[n].status # "error") =>
           status # "error" /\ \A n \in DOMAIN results : results[n].status # "error"
  BY <1>0, <1>1, <1>2, <1>3, Reports DEF RunnerTypes
<1>5. vec' = vec + 1 /\ vec' - 1 = vec /\ outcomes' = outcomes /\ phase' = "vector"
  BY <1>0, <1>1 DEF Report, RunnerTypes
<1>6. JudgedOnce'
  <2>1. Judged' = Judged
    BY <1>5 DEF Judged
  <2> QED BY <1>5, <2>1, AllJudged DEF JudgedOnce
<1>7. PassIsEarned'
  <2>1. \A v, i : (Meets(v, i)' <=> Meets(v, i)) /\ (Answered(<<v, i>>)' <=> Answered(<<v, i>>))
    BY <1>1 DEF Meets, Answered, Observed
  <2>2. ASSUME status = "pass", NEW i \in DOMAIN Steps(vec)
        PROVE  Answered(<<vec, i>>) /\ Meets(vec, i)
    BY <1>0, <1>2, <2>2, AllJudged DEF Founded
  <2> QED BY <1>4, <1>5, <2>1, <2>2 DEF PassIsEarned
<1>8. Own'
  <2> SUFFICES ASSUME \A n \in DOMAIN results : results[n].status # "error"
               PROVE  \A r \in Requests : flight[r] # "sent"
    BY <1>1, <1>4, <1>5 DEF Own, AtSteps
  <2> SUFFICES ASSUME NEW r \in Requests, flight[r] = "sent" PROVE FALSE
    OBVIOUS
  <2>1. r[1] = vec
    BY <1>0 DEF Own
  <2>2. PICK v \in DOMAIN Vectors : r \in {v} \X DOMAIN Steps(v)
    BY DEF Requests
  <2>3. Answered(r)
    BY <2>1, <2>2, AllJudged
  <2> QED BY <2>3, ResponseAssumption DEF Answered
<1> QED BY <1>4, <1>6, <1>7, <1>8 DEF RunnerInv

-----------------------------------------------------------------------------
(* The theorems                                                            *)

LEMMA RunnerInvariant == RunnerSpec => []RunnerInv
<1>1. RunnerInit => RunnerInv
  <2> SUFFICES ASSUME RunnerInit PROVE RunnerInv
    OBVIOUS
  <2>1. /\ vec = 1 /\ at = 1 /\ phase = "vector" /\ pending = {} /\ group = <<>>
        /\ outcomes = <<>> /\ results = <<>> /\ awaited = {} /\ ran = {} /\ counter = 0
        /\ flight = [r \in Requests |-> "unsent"]
    BY DEF RunnerInit
  <2>2. RunnerTypes
    BY <2>1, VectorFacts, EmptySeq, FS_EmptySet DEF RunnerTypes, Whereabouts
  <2>3. Placed
    BY <2>1 DEF Placed, AtSteps, IsInjective, ToSet
  <2>4. Fresh
    BY <2>1, RequestForm DEF Fresh
  <2>5. Founded /\ Own
    BY <2>1 DEF Founded, Own, AtSteps
  <2>6. Tallied
    BY <2>1 DEF Tallied, AtSteps
  <2>7. PassIsEarned /\ JudgedOnce
    BY <2>1 DEF PassIsEarned, JudgedOnce, Reported
  <2> QED BY <2>2, <2>3, <2>4, <2>5, <2>6, <2>7 DEF RunnerInv
<1>2. RunnerInv /\ [RunnerNext]_vars => RunnerInv'
  <2> SUFFICES ASSUME RunnerInv, [RunnerNext]_vars PROVE RunnerInv'
    OBVIOUS
  <2>1. CASE UNCHANGED vars
    <3>1. /\ argv' = argv /\ vec' = vec /\ phase' = phase /\ at' = at /\ pending' = pending
          /\ group' = group /\ outcomes' = outcomes /\ results' = results /\ awaited' = awaited
          /\ flight' = flight /\ ran' = ran /\ counter' = counter
      BY <2>1 DEF vars, local, target
    <3>2. AnswersStay /\ UnsentStays /\ (AtSteps' <=> AtSteps) /\ Judged' = Judged
      BY <3>1 DEF AnswersStay, UnsentStays, AtSteps, Judged
    <3>3. RunnerTypes' /\ Placed' /\ Own'
      BY <3>1, <3>2 DEF RunnerInv, RunnerTypes, Placed, Own
    <3>4. Fresh' /\ Founded' /\ Tallied' /\ PassIsEarned' /\ JudgedOnce'
      BY <3>1, <3>2, FreshFrame, FoundedFrame, TallyFrame, ReportFrame DEF RunnerInv
    <3> QED BY <3>3, <3>4 DEF RunnerInv
  <2>2. CASE argv' = argv /\ Runner
    BY <2>2, SelectStep, ResetStep, SettleStep, SendingStep, AnsweredStep, RejectedStep,
       CounterStep, VerdictStep DEF Runner
  <2>3. CASE argv' = argv /\ \E r \in Requests : HandlerRuns(r) \/ Answer(r) \/ RequestFails(r)
    BY <2>3, TargetStep
  <2> QED BY <2>1, <2>2, <2>3 DEF RunnerNext
<1> QED BY <1>1, <1>2, PTL DEF RunnerSpec

\* The runner's state is well typed, whatever the vectors, the target's answers and
\* the order they come in; no step is pending and awaited at once.
THEOREM RunnerTypeCorrect == RunnerSpec => []RunnerTypeOK
<1>1. RunnerInv => RunnerTypeOK
  BY DEF RunnerInv, RunnerTypes, Placed, RunnerTypeOK, Whereabouts, Answered
<1> QED BY <1>1, RunnerInvariant, PTL

\* runVector's "pass" means that every request was answered and every answer meets
\* what its step expects.
THEOREM PassesEarned == RunnerSpec => []PassIsEarned
<1>1. RunnerInv => PassIsEarned
  BY DEF RunnerInv
<1> QED BY <1>1, RunnerInvariant, PTL

\* However steps are left pending, settled early or awaited in groups, runVector
\* judges each of them exactly once before it says "pass" or "fail".
THEOREM StepsJudgedOnce == RunnerSpec => []JudgedOnce
<1>1. RunnerInv => JudgedOnce
  BY DEF RunnerInv
<1> QED BY <1>1, RunnerInvariant, PTL

\* The results are numbered from 1.
LEMMA ResultFacts ==
    ASSUME RunnerTypes
    PROVE  /\ Len(results) \in Nat /\ DOMAIN results = 1 .. Len(results)
           /\ \A n \in DOMAIN results : results[n].status \in Statuses
<1>1. results \in Seq(Results)
  BY DEF RunnerTypes
<1>2. Len(results) \in Nat /\ DOMAIN results = 1 .. Len(results)
  BY <1>1, LenProperties
<1>3. \A n \in DOMAIN results : results[n] \in Results
  BY <1>1, <1>2, ElementOfSeq
<1> QED BY <1>2, <1>3 DEF Results

\* The results with a status, as they are counted.
LEMMA CountFacts ==
    ASSUME RunnerTypes, NEW s
    PROVE  LET those == {n \in DOMAIN results : results[n].status = s}
           IN  /\ IsFiniteSet(those) /\ Count(s) = Cardinality(those) /\ Count(s) \in Nat
               /\ Count(s) <= Len(results)
               /\ Count(s) = 0 <=> \A n \in DOMAIN results : results[n].status # s
<1> DEFINE those == {n \in DOMAIN results : results[n].status = s}
<1>1. Len(results) \in Nat /\ DOMAIN results = 1 .. Len(results)
  BY ResultFacts
<1>2. IsFiniteSet(DOMAIN results) /\ Cardinality(DOMAIN results) = Len(results)
  BY <1>1, UpTo
<1>3. Count(s) = Cardinality(those)
  BY DEF Count
<1>4. those \in SUBSET DOMAIN results
  OBVIOUS
<1>5. those = {} <=> \A n \in DOMAIN results : results[n].status # s
  OBVIOUS
<1> HIDE DEF those
<1>6. IsFiniteSet(those) /\ Cardinality(those) <= Len(results) /\ Cardinality(those) \in Nat
  BY <1>2, <1>4, FS_Subset, FS_CardinalityType
<1>7. Cardinality(those) = 0 <=> those = {}
  BY <1>6, FS_EmptySet
<1> QED BY <1>3, <1>5, <1>6, <1>7 DEF those

\* Until some vector has ended in an error, the count that readCounter reads, and
\* evaluateGroup compares, is that of the vector at hand.
THEOREM CountsOwn == RunnerSpec => []CountIsOwn
<1>1. RunnerInv => CountIsOwn
  <2> SUFFICES ASSUME RunnerInv, phase = "counter", Count("error") = 0
               PROVE  counter = Cardinality({r \in ran : r[1] = vec})
    BY DEF CountIsOwn
  <2>1. \A n \in DOMAIN results : results[n].status # "error"
    BY CountFacts DEF RunnerInv
  <2>2. counter = Cardinality(ran) /\ \A r \in ran : r[1] = vec
    BY <2>1 DEF RunnerInv, Own, AtSteps
  <2>3. {r \in ran : r[1] = vec} = ran
    BY <2>2
  <2> QED BY <2>2, <2>3
<1> QED BY <1>1, RunnerInvariant, PTL

\* At the end there are as many results as vectors that were asked for.
LEMMA ResultsComplete ==
    ASSUME RunnerInv, vec \notin DOMAIN Vectors
    PROVE  /\ Len(results) = Cardinality({v \in DOMAIN Vectors : Selected(v)})
           /\ \A v \in DOMAIN Vectors :
                Selected(v) => \E n \in DOMAIN results : results[n].vector = v
<1> DEFINE asked == {v \in DOMAIN Vectors : Selected(v)}
           f == [n \in 1 .. Len(results) |-> results[n].vector]
<1>0. RunnerTypes /\ Tallied
  BY DEF RunnerInv
<1>1. Len(results) \in Nat /\ DOMAIN results = 1 .. Len(results)
  BY <1>0, LenProperties DEF RunnerTypes
<1>2. 1 .. vec - 1 = DOMAIN Vectors
  BY <1>0, VectorFacts DEF RunnerTypes
<1>3. \A v \in DOMAIN Vectors : Selected(v) => \E n \in DOMAIN results : results[n].vector = v
  BY <1>0, <1>2 DEF Tallied
<1>4. f \in [1 .. Len(results) -> asked] /\ IsInjective(f)
  BY <1>0, <1>1, <1>2 DEF Tallied, IsInjective
<1>5. \A v \in asked : \E n \in 1 .. Len(results) : f[n] = v
  BY <1>1, <1>3
<1> HIDE DEF f, asked
<1>6. f \in Bijection(1 .. Len(results), asked)
  BY <1>4, <1>5 DEF Bijection, Injection, Surjection
<1>7. IsFiniteSet(1 .. Len(results)) /\ Cardinality(1 .. Len(results)) = Len(results)
  BY <1>1, UpTo
<1>8. Cardinality(asked) = Len(results)
  BY <1>6, <1>7, FS_Bijection DEF ExistsBijection
<1> QED BY <1>3, <1>8 DEF asked

\* Every result is counted once.
LEMMA CountsAddUp ==
    ASSUME RunnerTypes
    PROVE  Len(results) = Count("pass") + Count("fail") + Count("error") + Count("not-applicable")
<1> DEFINE with(s) == {n \in DOMAIN results : results[n].status = s}
           a == with("pass")
           b == with("fail")
           c == with("error")
           d == with("not-applicable")
<1>1. Len(results) \in Nat /\ DOMAIN results = 1 .. Len(results)
      /\ \A n \in DOMAIN results : results[n].status \in Statuses
  BY ResultFacts
<1>2. /\ Cardinality(a) = Count("pass") /\ Cardinality(b) = Count("fail")
      /\ Cardinality(c) = Count("error") /\ Cardinality(d) = Count("not-applicable")
      /\ IsFiniteSet(a) /\ IsFiniteSet(b) /\ IsFiniteSet(c) /\ IsFiniteSet(d)
  BY CountFacts
<1>3. ((a \cup b) \cup c) \cup d = 1 .. Len(results)
  BY <1>1 DEF Statuses
<1>4. a \cap b = {} /\ (a \cup b) \cap c = {} /\ ((a \cup b) \cup c) \cap d = {}
  OBVIOUS
<1> HIDE DEF a, b, c, d
<1>5. \A S, T : IsFiniteSet(S) /\ IsFiniteSet(T) /\ S \cap T = {} =>
        IsFiniteSet(S \cup T) /\ Cardinality(S \cup T) = Cardinality(S) + Cardinality(T)
  <2> SUFFICES ASSUME NEW S, NEW T, IsFiniteSet(S), IsFiniteSet(T), S \cap T = {}
               PROVE  /\ IsFiniteSet(S \cup T)
                      /\ Cardinality(S \cup T) = Cardinality(S) + Cardinality(T)
    OBVIOUS
  <2>1. /\ IsFiniteSet(S \cup T)
        /\ Cardinality(S \cup T) = Cardinality(S) + Cardinality(T) - Cardinality(S \cap T)
    BY FS_Union, Zenon
  <2>2. Cardinality(S) \in Nat /\ Cardinality(T) \in Nat /\ Cardinality(S \cap T) = 0
    BY FS_CardinalityType, FS_EmptySet
  <2> QED BY <2>1, <2>2
<1>6. IsFiniteSet(a \cup b) /\ Cardinality(a \cup b) = Cardinality(a) + Cardinality(b)
  BY <1>2, <1>4, <1>5
<1>7. /\ IsFiniteSet((a \cup b) \cup c)
      /\ Cardinality((a \cup b) \cup c) = Cardinality(a \cup b) + Cardinality(c)
  BY <1>2, <1>4, <1>5, <1>6
<1>8. Cardinality(((a \cup b) \cup c) \cup d) = Cardinality((a \cup b) \cup c) + Cardinality(d)
  BY <1>2, <1>4, <1>5, <1>7
<1>9. Cardinality(1 .. Len(results)) = Len(results)
  BY <1>1, UpTo
<1> QED BY <1>2, <1>3, <1>6, <1>7, <1>8, <1>9

\* main exits with 0 only if every vector that was asked for and applies has passed;
\* the report has each of them once, and its counts are those of its cases.
THEOREM ExitCodeTrue == RunnerSpec => []ExitZeroMeansPassed
<1>1. RunnerInv => ExitZeroMeansPassed
  <2> SUFFICES ASSUME RunnerInv, Done, parseArgs PROVE ExitZeroMeansPassed
    BY DEF ExitZeroMeansPassed
  <2>0. RunnerTypes /\ Tallied /\ vec \notin DOMAIN Vectors
    BY DEF RunnerInv, Done
  <2>1. /\ Len(results) \in Nat /\ DOMAIN results = 1 .. Len(results)
        /\ \A n \in DOMAIN results : results[n].status \in Statuses
    BY <2>0, ResultFacts
  <2>2. ExitCode = 0 <=> \A n \in DOMAIN results : results[n].status \notin {"fail", "error"}
    <3>1. \A s : Count(s) = 0 <=> \A n \in DOMAIN results : results[n].status # s
      BY <2>0, CountFacts, Zenon
    <3> QED BY <3>1 DEF ExitCode
  <2>3. /\ junit.tests = Len(results) /\ junit.failures = Count("fail")
        /\ junit.errors = Count("error") /\ junit.skipped = Count("not-applicable")
        /\ junit.cases = [n \in DOMAIN results |-> testcase(results[n])]
    BY DEF junit
  <2>4. ExitCode = 0 =>
          \A v \in DOMAIN Vectors :
              Selected(v) /\ Applicable(v) =>
                  \E n \in DOMAIN results : results[n].vector = v /\ results[n].status = "pass"
    <3> SUFFICES ASSUME ExitCode = 0, NEW v \in DOMAIN Vectors, Selected(v), Applicable(v)
                 PROVE  \E n \in DOMAIN results :
                            results[n].vector = v /\ results[n].status = "pass"
      OBVIOUS
    <3>1. PICK n \in DOMAIN results : results[n].vector = v
      BY <2>0, ResultsComplete
    <3>2. results[n].status = "pass"
      BY <2>0, <2>1, <2>2, <3>1 DEF Tallied, Statuses
    <3> QED BY <3>1, <3>2
  <2>5. junit.tests = Cardinality({v \in DOMAIN Vectors : Selected(v)})
    BY <2>0, <2>3, ResultsComplete
  <2>6. IsInjective([n \in DOMAIN results |-> results[n].vector])
    BY <2>0 DEF Tallied, IsInjective
  <2>7. /\ \A n \in DOMAIN results : junit.cases[n] = "testcase" <=> results[n].status = "pass"
        /\ \A n \in DOMAIN results :
             junit.cases[n] \in {"failure", "error"} <=> results[n].status \in {"fail", "error"}
    BY <2>1, <2>3 DEF testcase, Statuses
  <2>8. \E passed \in 0 .. junit.tests :
          /\ passed = Cardinality({n \in DOMAIN results : junit.cases[n] = "testcase"})
          /\ junit.tests = passed + junit.failures + junit.errors + junit.skipped
    <3>1. {n \in DOMAIN results : junit.cases[n] = "testcase"} =
          {n \in DOMAIN results : results[n].status = "pass"}
      BY <2>7
    <3>2. Count("pass") = Cardinality({n \in DOMAIN results : junit.cases[n] = "testcase"})
      BY <3>1 DEF Count
    <3>3. Count("pass") \in 0 .. junit.tests
      <4>1. Count("pass") \in Nat /\ Count("pass") <= Len(results)
        BY <2>0, CountFacts, Zenon
      <4> QED BY <2>1, <2>3, <4>1
    <3>4. junit.tests = Count("pass") + junit.failures + junit.errors + junit.skipped
      BY <2>0, <2>3, CountsAddUp
    <3> QED BY <3>2, <3>3, <3>4
  <2>9. ExitCode = 0 <=> ToSet(junit.cases) \cap {"failure", "error"} = {}
    <3>1. ToSet(junit.cases) = {junit.cases[n] : n \in DOMAIN results}
      BY <2>3 DEF ToSet
    <3> QED BY <2>2, <2>7, <3>1
  <2> QED BY <2>4, <2>5, <2>6, <2>8, <2>9 DEF ExitZeroMeansPassed
<1> QED BY <1>1, RunnerInvariant, PTL

=============================================================================
