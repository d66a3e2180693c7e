----------------------------- MODULE KeySyntax ------------------------------
(***************************************************************************)
(* How the value of an Idempotency-Key header becomes a key                *)
(* (packages/core/src/key.ts and sfstring.ts).                             *)
(*                                                                         *)
(* A value is a sequence of characters, and a character is one of the      *)
(* classes that the parser tells apart.  Why a value is refused is left    *)
(* out: the result is a key or Invalid.                                    *)
(***************************************************************************)
EXTENDS Naturals, Sequences

CONSTANTS
    MaxKeyBytes,     \* MAX_KEY_BYTES
    MaxHeaderChars   \* bound: the longest header value that is looked at

ASSUME KeyBoundAssumption == MaxKeyBytes \in Nat \ {0} /\ MaxHeaderChars \in Nat \ {0, 1}

\* A letter stands for all of printable ASCII that has no meaning of its own,
\* control for what is outside of it; a tab is outside of it, too.
Chars == {"letter", "comma", "quote", "backslash", "space", "tab", "control"}
Printable == Chars \ {"space", "tab", "control"}

Invalid == [ok |-> FALSE, key |-> <<>>]
Valid(key) == [ok |-> TRUE, key |-> key]

\* The value without the characters of ws around it.
Trimmed(value, ws) ==
    LET inner == { i \in DOMAIN value : value[i] \notin ws }
        first == CHOOSE i \in inner : \A j \in inner : i <= j
        last == CHOOSE i \in inner : \A j \in inner : j <= i
    IN  IF inner = {} THEN <<>> ELSE SubSeq(value, first, last)

trimOws(value) == Trimmed(value, {"space", "tab"})
trimSpaces(value) == Trimmed(value, {"space"})

\* Mutant: a key of the greatest length is refused.
validateKeyOneShort(key, allowSpace) ==
    /\ key # <<>>
    /\ \A i \in DOMAIN key : key[i] \in Printable \/ (allowSpace /\ key[i] = "space")
    /\ Len(key) < MaxKeyBytes

validateKey(key, allowSpace) ==
    /\ key # <<>>
    /\ \A i \in DOMAIN key : key[i] \in Printable \/ (allowSpace /\ key[i] = "space")
    /\ Len(key) <= MaxKeyBytes

\* c in front of what the rest was parsed to.
Before(c, rest) == IF rest.ok THEN Valid(<<c>> \o rest.key) ELSE Invalid

\* One quoted string and nothing after it; from[i] is what the characters from
\* the i-th on are parsed to.
parseSfString(input) ==
    LET s == trimSpaces(input)
        from[i \in 2 .. Len(s) + 2] ==
            CASE i > Len(s) -> Invalid
              [] i <= Len(s) /\ s[i] = "backslash" ->
                   IF i < Len(s) /\ s[i + 1] \in {"quote", "backslash"}
                   THEN Before(s[i + 1], from[i + 2]) ELSE Invalid
              [] i <= Len(s) /\ s[i] = "quote" ->
                   IF i < Len(s) THEN Invalid ELSE Valid(<<>>)
              [] i <= Len(s) /\ s[i] \in {"tab", "control"} -> Invalid
              [] OTHER -> Before(s[i], from[i + 1])
    IN  IF s = <<>> \/ Head(s) # "quote" THEN Invalid ELSE from[2]

parseKey(value, syntax) ==
    LET trimmed == trimOws(value)
        quoted == trimmed # <<>> /\ Head(trimmed) = "quote"
        parsed == IF syntax = "strict" \/ quoted THEN parseSfString(trimmed)
                  ELSE Valid(trimmed)
    IN  IF parsed.ok /\ validateKey(parsed.key, syntax = "strict" \/ quoted)
        THEN parsed ELSE Invalid

-----------------------------------------------------------------------------
(* What a key header means, told from the other side: how keys are written *)

\* The quoted form of a key (RFC 9651, section 4.1.6).
Quoted(key) ==
    LET escaped(c) == IF c \in {"quote", "backslash"} THEN <<"backslash", c>> ELSE <<c>>
        upTo[n \in 0 .. Len(key)] ==
            IF n = 0 THEN <<"quote">> ELSE upTo[n - 1] \o escaped(key[n])
    IN  upTo[Len(key)] \o <<"quote">>

\* The ways to write a key: quoted, or, when lenient, as it is, if it has no space
\* and could not be taken for a quoted one.
Written(key, syntax) ==
    {Quoted(key)}
      \cup { form \in {key} : /\ syntax = "lenient"
                              /\ \A i \in DOMAIN key : key[i] # "space"
                              /\ Head(key) # "quote" }

\* The sequences of characters of cs with at most max of them.
Strings(cs, max) == UNION { [1 .. n -> cs] : n \in 0 .. max }

LegalKeys == Strings(Printable \cup {"space"}, MaxKeyBytes) \ {<<>>}

Syntaxes == {"lenient", "strict"}

\* Every form of every legal key is accepted, blanks around it aside.
AcceptsWritten ==
    \A syntax \in Syntaxes, key \in LegalKeys : \A form \in Written(key, syntax) :
        parseKey(<<"space">> \o form \o <<"tab">>, syntax) = Valid(key)

\* Nothing else is.
AcceptsOnlyWritten ==
    \A syntax \in Syntaxes, value \in Strings(Chars, MaxHeaderChars) :
        LET parsed == parseKey(value, syntax) IN
        parsed.ok => /\ parsed.key \in LegalKeys
                     /\ trimOws(value) \in Written(parsed.key, syntax)

\* Header values and keys correspond.
ParsesAsWritten == AcceptsWritten /\ AcceptsOnlyWritten

\* Headers.get joins the values of a repeated header with a comma and a space.
Joined(v, w) == v \o <<"comma", "space">> \o w

Accepted(syntax) ==
    { v \in Strings(Chars, MaxHeaderChars - 2) : parseKey(v, syntax).ok }

\* Two values that are keys by themselves are no key together.  Other values can be:
\* a token and nothing, or the two halves of a quoted string.
RefusesTwoKeys ==
    \A syntax \in Syntaxes : \A v, w \in Accepted(syntax) :
        ~parseKey(Joined(v, w), syntax).ok

=============================================================================
