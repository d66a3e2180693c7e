----------------------------- MODULE MCHttpDoor -----------------------------
(* Instances of HttpDoor for TLC.                                          *)
EXTENDS HttpDoor

\* All requests with a key have this one, bare or quoted.
TheKey == <<"letter">>
OneKey == {TheKey}

\* A JSON body in two orders of its members, and one that is not JSON.
TheBodies == {<<2, 1>>, <<1, 2>>, <<0>>}
TheFingerprints == UNION { {sha256Hex(body), httpFingerprint(body)} : body \in TheBodies }

Door(kind, required, syntax, principal, fingerprint, verify) ==
    [ kind |-> kind, required |-> required, syntax |-> syntax, principal |-> principal,
      fingerprint |-> fingerprint, verify |-> verify ]

SomeDoors ==
    { Door("http", FALSE, "lenient", "none", "jcs", "none"),
      Door("http", TRUE, "strict", "required", "jcs", "none"),
      Door("webhook", TRUE, "lenient", "none", "alone", "verify"),
      Door("webhook", FALSE, "lenient", "none", "alone", "marker"),
      Door("webhook", TRUE, "lenient", "none", "alone", "none") }

Signature(secret, id, at, body) == [secret |-> secret, id |-> id, at |-> at, body |-> body]

\* Signed at time 0 or 2 with a secret of ours or another one, for the first body
\* or one that no request has, for this key or another one.
Signatures ==
    { Signature(secret, id, at, body) :
        secret \in {2, 3}, id \in {TheKey, <<"quote">>}, at \in {0, 2}, body \in {<<2, 1>>, <<3>>} }

\* No request is marked but those with the first body, so that the calls are few.
SomeRequests ==
    { q \in
    { [ listed |-> flags[1], skip |-> flags[2], principal |-> flags[3], marked |-> flags[4],
        throws |-> flags[5], values |-> values, declared |-> size[1], bytes |-> size[2],
        body |-> body, at |-> at, signatures |-> signatures ] :
      flags \in [1 .. 5 -> BOOLEAN],
      values \in {<<>>, << <<>> >>, <<TheKey>>, << <<"quote", "letter", "quote">> >>,
                  << <<"quote">> >>, <<TheKey, TheKey>>},
      size \in {<<0, 1>>, <<0, 2>>},
      body \in TheBodies,
      at \in {NoTime, 0, 2},
      signatures \in {{}} \cup { {s} : s \in Signatures } } :
      q.marked => q.body = <<2, 1>> }

\* A key header that is sent twice: with a token and with nothing, or with the two
\* halves of a quoted string; and the keys that the values are parsed to.
RepeatedHeaders ==
    { << <<"letter">>, <<>> >>, << <<"quote", "letter">>, <<"letter", "quote">> >> }
RepeatedKeys == { <<"letter", "comma">>, <<"letter", "comma", "space", "letter">> }

\* Each of them, and a request that sends the field once.
RepeatingRequests ==
    { [ listed |-> TRUE, skip |-> FALSE, principal |-> FALSE, marked |-> FALSE,
        throws |-> FALSE, values |-> values, declared |-> 0, bytes |-> 1,
        body |-> <<0>>, at |-> NoTime, signatures |-> {} ] :
      values \in RepeatedHeaders \cup {<<TheKey>>} }
SentKeys == OneKey \cup RepeatedKeys

\* Two cookies, and a header that may be stored.
SomeHeaders ==
    [name : {"set-cookie"}, value : {"a", "b"}] \cup [name : {"etag"}, value : {"c"}]

=============================================================================
