------------------------ MODULE MCConformanceRunner -------------------------
(***************************************************************************)
(* Vectors of every kind: steps left in flight and awaited in two groups,  *)
(* a duplicate with a count, one that the target is not capable of, one    *)
(* of a tier that nobody asks for, and one whose partners cannot both be   *)
(* pending.                                                                *)
(***************************************************************************)
EXTENDS ConformanceRunner, TLC

CONSTANT absent

Body(text, json) == [text |-> text, bytes |-> IF text = "a" THEN 1 ELSE 2, json |-> json]

\* An answer, another that is marked as a replay, and a conflict.
SomeResponses ==
    [first |-> [status |-> 201, headers |-> [replayed |-> absent], body |-> Body("a", absent)],
     other |-> [status |-> 201, headers |-> [replayed |-> "true"], body |-> Body("ab", absent)],
     conflict |-> [status |-> 409, headers |-> [replayed |-> absent],
                   body |-> Body("{}", [code |-> "in_flight"])]]

Anything ==
    [status |-> 201, headers |-> <<>>, text |-> absent, sameAs |-> absent,
     json |-> absent, bytes |-> absent, invocations |-> absent]

Step(concurrentWith, expect) == [concurrentWith |-> concurrentWith, expect |-> expect]

\* The first two steps are in flight together, and the third with the second.
Chain ==
    <<Step(<<>>, Anything),
      Step(<<1>>, [Anything EXCEPT !.bytes = 1, !.headers = [replayed |-> [kind |-> "absent"]]]),
      Step(<<2>>, [Anything EXCEPT !.sameAs = 1])>>

\* A duplicate is refused while the original is in flight.
Conflict ==
    <<Step(<<>>, [Anything EXCEPT !.text = "ab",
                                  !.headers = [replayed |-> [kind |-> "regex", value |-> {"true"}]]]),
      Step(<<1>>, [Anything EXCEPT !.status = 409, !.json = [code |-> "in_flight"],
                                   !.invocations = 1])>>

\* The second step settles the first, which the third names.
TwoPartners ==
    <<Step(<<>>, Anything), Step(<<>>, Anything), Step(<<1, 2>>, Anything)>>

Vector(id, tier, requires, steps) ==
    [id |-> id, tier |-> tier, requires |-> requires, steps |-> steps]

SomeVectors ==
    <<Vector("chain", "core", {}, Chain),
      Vector("expiry", "core", {"short-ttl"}, <<>>),
      Vector("conflict", "core", {}, Conflict),
      Vector("nothing", "profile", {}, <<>>),
      Vector("partners", "core", {}, TwoPartners)>>

Flag(flag, value) == [flag |-> flag, value |-> value, number |-> 0]
TtlFlag(value, number) == [flag |-> "--ttl-ms", value |-> value, number |-> number]
Url == Flag("--url", "http://localhost")
ShortTtl == Flag("--capability", "short-ttl")

SomeCommandLines ==
    {<<Url, Flag("--tier", "core")>>,
     <<Url, Flag("--only", "expiry"), Flag("--only", "nothing"), ShortTtl, TtlFlag("2000", 2000)>>,
     <<Url, ShortTtl, TtlFlag("2001", 2001)>>,
     <<Url, TtlFlag("0.5", 0)>>,
     <<Url, Flag("--report", absent)>>,
     <<Flag("--out", "report.xml")>>}

=============================================================================
