------------------------- MODULE ConformanceRunner --------------------------
(***************************************************************************)
(* The conformance runner: runVectors resets the target before every       *)
(* vector, sends the vector's steps in order, leaves the ones that a later *)
(* step names in concurrentWith in flight, awaits them in groups, reads    *)
(* the target's counter once per group and judges the group's answers.     *)
(* Requests are answered, or fail, at any time, also while the runner      *)
(* sleeps (delayMs) or after it has given a vector up.  The command line   *)
(* tool chooses the vectors and turns the results into its exit code.      *)
(*                                                                         *)
(* A step's id is its position.  Vectors are as the schema and its test    *)
(* admit them: ids are unique and references point backwards.              *)
(***************************************************************************)
EXTENDS Integers, Sequences, SequencesExt, FiniteSets

CONSTANTS
    Vectors,        \* the loaded vectors: [id, tier, requires, steps]
    CommandLines,   \* the command lines that are tried: [flag, value, number]
    Responses,      \* what the target may answer, by name: [status, headers, body]
    Absent          \* an undefined expectation, header, JSON object or count

ASSUME VectorAssumption ==
    /\ Vectors \in Seq(ToSet(Vectors))
    /\ \A v \in DOMAIN Vectors :
         LET steps == Vectors[v].steps
         IN  /\ steps \in Seq(ToSet(steps))
             /\ \A i \in DOMAIN steps :
                  steps[i].concurrentWith \in Seq(1 .. i - 1) /\ IsInjective(steps[i].concurrentWith)
ASSUME ResponseAssumption == DOMAIN Responses \cap {"unsent", "sent", "failed", "over"} = {}

VARIABLES
    argv,           \* the command line
    vec, at,        \* the vector, and the next of its steps
    phase,          \* what the runner awaits
    pending,        \* steps that were sent and left pending
    group,          \* the steps that are awaited together
    outcomes,       \* the steps judged: [step, failures]
    results,        \* one per vector that was asked for: [vector, status]
    awaited,        \* requests whose rejection has a handler
    flight,         \* what has become of every request
    ran, counter    \* requests whose handler ran, and the target's count of runs

local == <<at, pending, group, outcomes>>
target == <<flight, ran, counter>>
vars == <<argv, vec, phase, local, results, awaited, target>>

Steps(v) == Vectors[v].steps
Requests == UNION {{v} \X DOMAIN Steps(v) : v \in DOMAIN Vectors}

\* The answer to a request, once it is there.
Answered(r) == flight[r] \in DOMAIN Responses
Observed(r) == Responses[flight[r]]

-----------------------------------------------------------------------------
(* The command line                                                        *)

Values(flag) == {argv[n].value : n \in {n \in DOMAIN argv : argv[n].flag = flag}}

\* A flag that is known, with a value it can take: Absent stands for no value, or
\* another flag in its place, and number is the value as a whole number, 0 if it
\* is none.
WellFormed(arg) ==
    \/ arg.flag \in {"--url", "--only", "--out"} /\ arg.value # Absent
    \/ arg.flag = "--tier" /\ arg.value \in {"core", "profile"}
    \/ arg.flag = "--capability" /\ arg.value = "short-ttl"
    \/ arg.flag = "--ttl-ms" /\ arg.value # Absent /\ arg.number > 0
    \/ arg.flag = "--report" /\ arg.value \in {"json", "markdown", "junit"}

\* The last --ttl-ms counts.
TtlMs == argv[Max({n \in DOMAIN argv : argv[n].flag = "--ttl-ms"})].number

\* The arguments are accepted.
parseArgs ==
    /\ \A n \in DOMAIN argv : WellFormed(argv[n])
    /\ Values("--url") # {}
    /\ Values("--capability") # {} /\ Values("--ttl-ms") # {} => TtlMs <= 2000

\* A filter without values lets everything through.
AskedFor(flag, value) == Values(flag) = {} \/ value \in Values(flag)

RunnerInit ==
    /\ argv \in CommandLines
    /\ vec = 1 /\ at = 1 /\ phase = "vector"
    /\ pending = {} /\ group = <<>> /\ outcomes = <<>> /\ results = <<>>
    /\ awaited = {}
    /\ flight = [r \in Requests |-> "unsent"]
    /\ ran = {} /\ counter = 0

-----------------------------------------------------------------------------
(* Judging an answer                                                       *)

\* A header expectation is a value, present, absent, or a regex: the set of
\* values it matches, Absent if it does not compile.
checkHeader(expectation, actual) ==
    \/ expectation.kind = "value" /\ actual = expectation.value
    \/ expectation.kind = "present" /\ actual # Absent
    \/ expectation.kind = "absent" /\ actual = Absent
    \/ expectation.kind = "regex" /\ expectation.value # Absent /\ actual \in expectation.value

\* Mutant: an answer is taken to equal a body that is not known.
checkBodyEqualsUnknown(expect, body, prior) ==
    /\ expect.text # Absent => body.text = expect.text
    /\ expect.sameAs # Absent /\ expect.sameAs \in DOMAIN prior => prior[expect.sameAs] = body

\* bodyEquals names a text or an earlier step, whose body must be known.
checkBodyEquals(expect, body, prior) ==
    /\ expect.text # Absent => body.text = expect.text
    /\ expect.sameAs # Absent => expect.sameAs \in DOMAIN prior /\ prior[expect.sameAs] = body

\* The members that are named, of a body that parses to an object.
checkBodyJson(expected, body) ==
    /\ body.json # Absent
    /\ \A k \in DOMAIN expected : k \in DOMAIN body.json /\ body.json[k] = expected[k]

\* The checks that fail; prior holds the bodies of the steps judged before.
evaluateExpect(expect, observed, prior, invocations) ==
    LET holds ==
          [status |-> observed.status = expect.status,
           headers |-> \A n \in DOMAIN expect.headers :
                         checkHeader(expect.headers[n], observed.headers[n]),
           body |-> checkBodyEquals(expect, observed.body, prior),
           json |-> expect.json # Absent => checkBodyJson(expect.json, observed.body),
           bytes |-> expect.bytes # Absent => observed.body.bytes = expect.bytes,
           invocations |-> expect.invocations # Absent => invocations = expect.invocations]
    IN  {c \in DOMAIN holds : ~holds[c]}

-----------------------------------------------------------------------------
(* The vectors, one after another                                          *)

\* The vector is over, with the outcomes of the steps it judged.
Report(status, steps) ==
    /\ results' = Append(results, [vector |-> vec, status |-> status])
    /\ outcomes' = steps
    /\ vec' = vec + 1 /\ phase' = "vector"
    /\ at' = 1 /\ pending' = {} /\ group' = <<>>

Selected(v) == AskedFor("--tier", Vectors[v].tier) /\ AskedFor("--only", Vectors[v].id)
Applicable(v) == Vectors[v].requires \subseteq Values("--capability")

SelectVector ==
    /\ parseArgs /\ phase = "vector" /\ vec \in DOMAIN Vectors
    /\ \/ /\ ~Selected(vec)
          /\ vec' = vec + 1
          /\ UNCHANGED <<phase, local, results>>
       \/ /\ Selected(vec) /\ ~Applicable(vec)
          /\ Report("not-applicable", <<>>)
       \/ /\ Selected(vec) /\ Applicable(vec)
          /\ phase' = "reset"
          /\ UNCHANGED <<vec, local, results>>
    /\ UNCHANGED <<awaited, target>>

\* The steps begin, with nothing judged.
BeginSteps ==
    /\ phase' = "step" /\ outcomes' = <<>>
    /\ UNCHANGED <<vec, at, pending, group, results>>

\* Mutant: the vector goes on although the target was not reset.
ResetRefusedIgnored == counter' = counter /\ BeginSteps

\* The target answers the reset with an error.
ResetRefused == counter' = counter /\ Report("error", <<>>)

\* POST /reset, which zeroes the counter: a success, a refusal, or no answer.
\* Nobody asks for the answers of earlier vectors from now on.
ResetTarget ==
    /\ phase = "reset"
    /\ \/ counter' = 0 /\ BeginSteps
       \/ ResetRefused
       \/ counter' \in {0, counter} /\ Report("error", <<>>)
    /\ flight' = [r \in Requests |-> IF Answered(r) \/ flight[r] = "failed" THEN "over" ELSE flight[r]]
    /\ ran' = {r \in ran : flight[r] = "sent"}
    /\ awaited' = {r \in awaited : flight[r] = "sent"}

-----------------------------------------------------------------------------
(* The steps of a vector                                                   *)

Partners(i) == Steps(vec)[i].concurrentWith

\* The steps that a step of the vector names.
deferredIds == UNION {ToSet(Partners(i)) : i \in DOMAIN Steps(vec)}

\* The runner awaits the steps is together.
AwaitGroup(is) ==
    /\ group' = is
    /\ awaited' = awaited \cup {<<vec, i>> : i \in ToSet(is)}
    /\ phase' = "await"

\* Mutant: the steps that are settled stay pending.
SettledKept == pending

\* What is left pending when all that is pending is settled.
Settled == {}

\* Mutant: what is left pending at the end of the vector is forgotten.
MustSettleBeforeStep ==
    pending # {} /\ at \in DOMAIN Steps(vec) /\ Partners(at) = <<>>

\* A step without partners, and the end, wait for all that is pending.
MustSettle ==
    /\ pending # {}
    /\ at \in DOMAIN Steps(vec) => Partners(at) = <<>>

\* Steps in the order in which they were sent, which a Map keeps.
InOrder(is) ==
    {s \in [1 .. Cardinality(is) -> is] : \A m, n \in DOMAIN s : m < n => s[m] < s[n]}

SettlePending ==
    /\ phase = "step" /\ MustSettle
    /\ \E s \in InOrder(pending) : AwaitGroup(s)
    /\ pending' = Settled
    /\ UNCHANGED <<vec, at, outcomes, results, target>>

\* What is left pending without the partners of a step.
Unpend(is) == pending \ ToSet(is)

\* The step is sent, then left pending, awaited with its partners, or given up
\* with the whole vector when a partner is no longer pending.
SendStep ==
    /\ phase = "step" /\ ~MustSettle /\ at \in DOMAIN Steps(vec)
    /\ flight' = [flight EXCEPT ![<<vec, at>>] = "sent"]
    /\ \/ /\ at \in deferredIds
          /\ pending' = pending \cup {at} /\ at' = at + 1
          /\ UNCHANGED <<vec, phase, group, outcomes, results, awaited>>
       \/ /\ at \notin deferredIds /\ ToSet(Partners(at)) \subseteq pending
          /\ AwaitGroup(Append(Partners(at), at))
          /\ pending' = Unpend(Partners(at)) /\ at' = at + 1
          /\ UNCHANGED <<vec, outcomes, results>>
       \/ /\ at \notin deferredIds /\ ~(ToSet(Partners(at)) \subseteq pending)
          /\ Report("error", outcomes)
          /\ UNCHANGED awaited
    /\ UNCHANGED <<ran, counter>>

\* The steps that were judged.
Judged == {outcomes[n].step : n \in DOMAIN outcomes}

\* What is made of the n-th answer of the group: by then the bodies of the steps
\* judged before, and of those ahead of it in the group, are known.
StepOutcome(n, invocations) ==
    LET known == Judged \cup {group[m] : m \in 1 .. n - 1}
    IN  [step |-> group[n],
         failures |-> evaluateExpect(Steps(vec)[group[n]].expect, Observed(<<vec, group[n]>>),
                                     [i \in known |-> Observed(<<vec, i>>).body], invocations)]

\* Every answer of the group is judged.
evaluateGroup(invocations) ==
    /\ outcomes' = outcomes \o [n \in DOMAIN group |-> StepOutcome(n, invocations)]
    /\ group' = <<>>
    /\ phase' = "step"
    /\ UNCHANGED <<vec, at, pending, results>>

NeedsCounter ==
    \E n \in DOMAIN group : Steps(vec)[group[n]].expect.invocations # Absent

GroupAnswered ==
    /\ phase = "await"
    /\ \A n \in DOMAIN group : Answered(<<vec, group[n]>>)
    /\ \/ NeedsCounter /\ phase' = "counter" /\ UNCHANGED <<vec, local, results>>
       \/ ~NeedsCounter /\ evaluateGroup(Absent)
    /\ UNCHANGED <<awaited, target>>

\* Mutant: only a group whose requests all failed is given up.
RejectsAll == \A n \in DOMAIN group : flight[<<vec, group[n]>>] = "failed"

\* Promise.all rejects with the first request that fails.
Rejects == \E n \in DOMAIN group : flight[<<vec, group[n]>>] = "failed"

GroupRejected ==
    /\ phase = "await" /\ Rejects
    /\ Report("error", outcomes)
    /\ UNCHANGED <<awaited, target>>

\* GET /counter: a number, something else, or no answer at all.
readCounter ==
    /\ phase = "counter"
    /\ evaluateGroup(counter) \/ evaluateGroup(Absent) \/ Report("error", outcomes)
    /\ UNCHANGED <<awaited, target>>

Verdict ==
    /\ phase = "step" /\ ~MustSettle /\ at \notin DOMAIN Steps(vec)
    /\ Report(IF \A n \in DOMAIN outcomes : outcomes[n].failures = {} THEN "pass" ELSE "fail",
              outcomes)
    /\ UNCHANGED <<awaited, target>>

Done == ~parseArgs \/ (phase = "vector" /\ vec \notin DOMAIN Vectors)

Count(status) == Cardinality({n \in DOMAIN results : results[n].status = status})

\* Mutant: vectors that errored do not count.
ExitCodeFailedOnly ==
    IF ~parseArgs THEN 2 ELSE IF Count("fail") = 0 THEN 0 ELSE 1

\* What the command line tool exits with, if the report can be written.
ExitCode ==
    IF ~parseArgs THEN 2 ELSE IF Count("fail") = 0 /\ Count("error") = 0 THEN 0 ELSE 1

\* The element of a vector in the JUnit report.
testcase(result) ==
    CASE result.status = "pass" -> "testcase"
      [] result.status = "fail" -> "failure"
      [] result.status = "not-applicable" -> "skipped"
      [] result.status = "error" -> "error"

junit ==
    [ tests |-> Len(results), failures |-> Count("fail"), errors |-> Count("error"),
      skipped |-> Count("not-applicable"), cases |-> [n \in DOMAIN results |-> testcase(results[n])] ]

-----------------------------------------------------------------------------
(* The target, and the network                                             *)

\* A request that is under way while the tool runs.
UnderWay(r) == flight[r] = "sent" /\ phase # "crashed" /\ ~Done

\* The fixture's handler runs, which it does only when the target lets it.
HandlerRuns(r) ==
    /\ UnderWay(r) /\ r \notin ran
    /\ ran' = ran \cup {r} /\ counter' = counter + 1
    /\ UNCHANGED <<vec, phase, local, results, awaited, flight>>

\* What becomes of a request does not matter once its vector is over.
Settles(r, what) ==
    flight' = [flight EXCEPT ![r] = IF r[1] = vec THEN what ELSE "over"]

Answer(r) ==
    /\ UnderWay(r)
    /\ \E a \in DOMAIN Responses : Settles(r, a)
    /\ UNCHANGED <<vec, phase, local, results, awaited, ran, counter>>

\* A rejection that nothing handles may end the process (as it does in Node).
RequestFails(r) ==
    /\ UnderWay(r)
    /\ Settles(r, "failed")
    /\ phase' = phase \/ (r \notin awaited /\ phase' = "crashed")
    /\ UNCHANGED <<vec, local, results, awaited, ran, counter>>

Runner ==
    \/ SelectVector \/ ResetTarget \/ SettlePending \/ SendStep
    \/ GroupAnswered \/ GroupRejected \/ readCounter \/ Verdict

RunnerNext ==
    /\ Runner \/ (\E r \in Requests : HandlerRuns(r) \/ Answer(r) \/ RequestFails(r))
    /\ UNCHANGED argv

\* The runner goes on, and no request stays unanswered for ever: a target that
\* hangs hangs the runner, which sets no time limit.
RunnerSpec ==
    /\ RunnerInit /\ [][RunnerNext]_vars
    /\ WF_vars(Runner /\ UNCHANGED argv)
    /\ \A r \in Requests : WF_vars((Answer(r) \/ RequestFails(r)) /\ UNCHANGED argv)

-----------------------------------------------------------------------------
(* Properties                                                              *)

\* The runner's state is well typed, and no step is both pending and awaited.
RunnerTypeOK ==
    /\ vec \in 1 .. Len(Vectors) + 1 /\ at \in Nat
    /\ phase \in {"vector", "reset", "step", "await", "counter", "crashed"}
    /\ pending \subseteq Nat /\ IsInjective(group) /\ pending \cap ToSet(group) = {}
    /\ awaited \subseteq Requests /\ ran \subseteq Requests
    /\ counter \in Nat
    /\ \A r \in Requests : Answered(r) \/ flight[r] \in {"unsent", "sent", "failed", "over"}

\* The vector that was reported last, whose answers and outcomes are still known.
Reported(status) ==
    /\ phase = "vector" /\ results # <<>>
    /\ Last(results).status = status /\ Last(results).vector = vec - 1

\* The answer to a step is what the step expects, the body that it must equal
\* being the one that the named step really got by then, and as many handlers have
\* run since the reset as it counts on.
Meets(v, i) ==
    LET expect == Steps(v)[i].expect
        answer(j) == Observed(<<v, j>>)
    IN  /\ answer(i).status = expect.status
        /\ \A h \in DOMAIN expect.headers :
             checkHeader(expect.headers[h], answer(i).headers[h])
        /\ expect.sameAs # Absent =>
             /\ expect.sameAs \in DOMAIN Steps(v) /\ Answered(<<v, expect.sameAs>>)
             /\ answer(i).body = answer(expect.sameAs).body
        /\ expect.text # Absent => answer(i).body.text = expect.text
        /\ expect.json # Absent => checkBodyJson(expect.json, answer(i).body)
        /\ expect.bytes # Absent => answer(i).body.bytes = expect.bytes
        /\ expect.invocations # Absent => expect.invocations \in 0 .. counter

\* A pass is earned: every request of the vector was answered, and every answer
\* meets its step's expectation, in whatever order the answers came.
PassIsEarned ==
    Reported("pass") =>
        \A i \in DOMAIN Steps(vec - 1) : Answered(<<vec - 1, i>>) /\ Meets(vec - 1, i)

\* A vector that passes or fails has judged each of its steps exactly once,
\* whichever steps were left pending, settled early or awaited in a group.
JudgedOnce ==
    Reported("pass") \/ Reported("fail") =>
        /\ Len(outcomes) = Len(Steps(vec - 1))
        /\ Judged = DOMAIN Steps(vec - 1)

\* The count that is compared is the vector's own: no handler run of an
\* earlier vector is in it, unless a vector ended in an error and left
\* requests in flight behind it.
CountIsOwn ==
    phase = "counter" /\ Count("error") = 0 =>
        counter = Cardinality({r \in ran : r[1] = vec})

\* The tool exits with 0 only if every vector that was asked for and applies
\* has passed.  The report has each vector that was asked for once, its counts are
\* those of its cases, and it shows a failure or an error exactly when the tool
\* does not exit with 0.
ExitZeroMeansPassed ==
    Done /\ parseArgs =>
        /\ ExitCode = 0 =>
             \A v \in DOMAIN Vectors :
                 Selected(v) /\ Applicable(v) =>
                     \E n \in DOMAIN results : results[n].vector = v /\ results[n].status = "pass"
        /\ junit.tests = Cardinality({v \in DOMAIN Vectors : Selected(v)})
        /\ IsInjective([n \in DOMAIN results |-> results[n].vector])
        /\ \E passed \in 0 .. junit.tests :
             /\ passed = Cardinality({n \in DOMAIN results : junit.cases[n] = "testcase"})
             /\ junit.tests = passed + junit.failures + junit.errors + junit.skipped
        /\ ExitCode = 0 <=> ToSet(junit.cases) \cap {"failure", "error"} = {}

\* The run ends, with a result for every vector, or with the process when a
\* request fails that is pending and not yet awaited.
RunEnds == <>(Done \/ phase = "crashed")

=============================================================================
