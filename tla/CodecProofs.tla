----------------------------- MODULE CodecProofs ----------------------------
(***************************************************************************)
(* The pure functions of the doors and the stores, for values of any       *)
(* length: names of rows (Scopes), key headers (KeySyntax) and what is     *)
(* left of a response when it has been stored and replayed (Replay).       *)
(***************************************************************************)
EXTENDS Scopes, Replay, FiniteSetTheorems, SequenceTheorems, WellFoundedInduction, TLAPS

-----------------------------------------------------------------------------
(* Induction                                                               *)

\* A set of numbers has a least one.
LEMMA LeastNat ==
    ASSUME NEW T \in SUBSET Nat, T # {}
    PROVE  \E x \in T : \A y \in T : x <= y
<1> DEFINE R == OpToRel(<, Nat)
<1>1. IsWellFoundedOn(R, Nat)
  BY NatLessThanWellFounded
<1>2. \A i, j \in Nat : <<i, j>> \in R <=> i < j
  BY DEF OpToRel
<1> HIDE DEF R
<1>3. PICK x \in T : \A y \in T : ~(<<y, x>> \in R)
  BY <1>1, WFMin, Zenon
<1>4. \A y \in T : ~(y < x)
  BY <1>2, <1>3
<1>5. \A y \in T : x <= y
  BY <1>4
<1> QED BY <1>5

\* Induction, for the set of the numbers that have the property.
LEMMA SetInduction ==
    ASSUME NEW T, 0 \in T, \A n \in Nat : n \in T => n + 1 \in T
    PROVE  \A n \in Nat : n \in T
<1> SUFFICES ASSUME NEW m \in Nat, m \notin T PROVE FALSE
  OBVIOUS
<1> DEFINE C == {n \in Nat : n \notin T}
<1>1. C \in SUBSET Nat /\ m \in C
  OBVIOUS
<1>2. PICK x \in C : \A y \in C : x <= y
  <2> HIDE DEF C
  <2> QED BY <1>1, LeastNat
<1>3. x # 0 /\ x \in Nat
  OBVIOUS
<1>4. x - 1 \notin C
  BY <1>2, <1>3
<1> QED BY <1>3, <1>4

-----------------------------------------------------------------------------
(* Sequences                                                               *)

\* Where the parts of a joined sequence are.
LEMMA Joining ==
    ASSUME NEW S, NEW a \in Seq(S), NEW c \in S, NEW k \in Seq(S)
    PROVE  /\ a \o <<c>> \o k \in Seq(S)
           /\ Len(a \o <<c>> \o k) = Len(a) + 1 + Len(k)
           /\ \A i \in 1 .. Len(a) : (a \o <<c>> \o k)[i] = a[i]
           /\ (a \o <<c>> \o k)[Len(a) + 1] = c
           /\ \A i \in 1 .. Len(k) : (a \o <<c>> \o k)[Len(a) + 1 + i] = k[i]
<1>1. Len(a) \in Nat /\ Len(k) \in Nat
  OBVIOUS
<1>2. <<c>> \in Seq(S) /\ Len(<<c>>) = 1 /\ <<c>>[1] = c
  OBVIOUS
<1> DEFINE b == a \o <<c>>
<1>3. /\ b \in Seq(S) /\ Len(b) = Len(a) + 1
      /\ \A i \in 1 .. Len(a) + 1 : b[i] = IF i <= Len(a) THEN a[i] ELSE <<c>>[i - Len(a)]
  <2>1. /\ b \in Seq(S) /\ Len(b) = Len(a) + Len(<<c>>)
        /\ \A i \in 1 .. Len(a) + Len(<<c>>) : b[i] = IF i <= Len(a) THEN a[i] ELSE <<c>>[i - Len(a)]
    BY <1>2, ConcatProperties, Zenon
  <2> HIDE DEF b
  <2> QED BY <2>1, <1>2
<1> HIDE DEF b
<1>0. b \in Seq(S)
  BY <1>3
<1>4. /\ b \o k \in Seq(S) /\ Len(b \o k) = Len(b) + Len(k)
      /\ \A i \in 1 .. Len(b) + Len(k) : (b \o k)[i] = IF i <= Len(b) THEN b[i] ELSE k[i - Len(b)]
  BY <1>0, ConcatProperties, Zenon
<1>5. \A i \in 1 .. Len(a) : (b \o k)[i] = a[i]
  BY <1>1, <1>3, <1>4
<1>6. (b \o k)[Len(a) + 1] = c
  BY <1>1, <1>2, <1>3, <1>4
<1>7. \A i \in 1 .. Len(k) : (b \o k)[Len(a) + 1 + i] = k[i]
  BY <1>1, <1>3, <1>4
<1>8. Len(b \o k) = Len(a) + 1 + Len(k)
  BY <1>1, <1>3, <1>4
<1> QED BY <1>4, <1>5, <1>6, <1>7, <1>8 DEF b

\* What is before both of two sequences may be left out.
LEMMA CancelLeft ==
    ASSUME NEW S, NEW s \in Seq(S), NEW t \in Seq(S), NEW v \in Seq(S), s \o t = s \o v
    PROVE  t = v
BY ConcatSimplifications

\* c is not in s.
Without(s, c) == \A i \in 1 .. Len(s) : s[i] # c

\* A character that the part after it does not have divides a sequence in one way.
LEMMA LastDivides ==
    ASSUME NEW S, NEW c \in S,
           NEW a \in Seq(S), NEW k \in Seq(S), NEW b \in Seq(S), NEW l \in Seq(S),
           Without(k, c), Without(l, c),
           a \o <<c>> \o k = b \o <<c>> \o l
    PROVE  a = b /\ k = l
<1> DEFINE x == a \o <<c>> \o k
           y == b \o <<c>> \o l
<1>1. Len(a) \in Nat /\ Len(k) \in Nat /\ Len(b) \in Nat /\ Len(l) \in Nat
  OBVIOUS
<1>2. /\ Len(x) = Len(a) + 1 + Len(k)
      /\ \A i \in 1 .. Len(a) : x[i] = a[i]
      /\ x[Len(a) + 1] = c
      /\ \A i \in 1 .. Len(k) : x[Len(a) + 1 + i] = k[i]
  BY Joining
<1>3. /\ Len(y) = Len(b) + 1 + Len(l)
      /\ \A i \in 1 .. Len(b) : y[i] = b[i]
      /\ y[Len(b) + 1] = c
      /\ \A i \in 1 .. Len(l) : y[Len(b) + 1 + i] = l[i]
  BY Joining
<1>4. x = y
  OBVIOUS
<1> HIDE DEF x, y
<1>5. ~(Len(a) < Len(b))
  <2> SUFFICES ASSUME Len(a) < Len(b) PROVE FALSE
    OBVIOUS
  <2>1. Len(b) - Len(a) \in 1 .. Len(k)
    BY <1>1, <1>2, <1>3, <1>4
  <2>2. x[Len(a) + 1 + (Len(b) - Len(a))] = k[Len(b) - Len(a)]
    BY <2>1, <1>2
  <2>3. Len(a) + 1 + (Len(b) - Len(a)) = Len(b) + 1
    BY <1>1
  <2> QED BY <2>1, <2>2, <2>3, <1>3, <1>4 DEF Without
<1>6. ~(Len(b) < Len(a))
  <2> SUFFICES ASSUME Len(b) < Len(a) PROVE FALSE
    OBVIOUS
  <2>1. Len(a) - Len(b) \in 1 .. Len(l)
    BY <1>1, <1>2, <1>3, <1>4
  <2>2. y[Len(b) + 1 + (Len(a) - Len(b))] = l[Len(a) - Len(b)]
    BY <2>1, <1>3
  <2>3. Len(b) + 1 + (Len(a) - Len(b)) = Len(a) + 1
    BY <1>1
  <2> QED BY <2>1, <2>2, <2>3, <1>2, <1>4 DEF Without
<1>7. Len(a) = Len(b) /\ Len(k) = Len(l)
  BY <1>1, <1>2, <1>3, <1>4, <1>5, <1>6
<1>8. \A i \in 1 .. Len(a) : a[i] = b[i]
  BY <1>2, <1>3, <1>4, <1>7
<1>9. \A i \in 1 .. Len(k) : k[i] = l[i]
  BY <1>2, <1>3, <1>4, <1>7
<1> QED BY <1>7, <1>8, <1>9, SeqEqual

\* So does one that the part before it does not have.
LEMMA FirstDivides ==
    ASSUME NEW S, NEW c \in S,
           NEW a \in Seq(S), NEW k \in Seq(S), NEW b \in Seq(S), NEW l \in Seq(S),
           Without(a, c), Without(b, c),
           a \o <<c>> \o k = b \o <<c>> \o l
    PROVE  a = b /\ k = l
<1> DEFINE x == a \o <<c>> \o k
           y == b \o <<c>> \o l
<1>1. Len(a) \in Nat /\ Len(k) \in Nat /\ Len(b) \in Nat /\ Len(l) \in Nat
  OBVIOUS
<1>2. /\ Len(x) = Len(a) + 1 + Len(k)
      /\ \A i \in 1 .. Len(a) : x[i] = a[i]
      /\ x[Len(a) + 1] = c
      /\ \A i \in 1 .. Len(k) : x[Len(a) + 1 + i] = k[i]
  BY Joining
<1>3. /\ Len(y) = Len(b) + 1 + Len(l)
      /\ \A i \in 1 .. Len(b) : y[i] = b[i]
      /\ y[Len(b) + 1] = c
      /\ \A i \in 1 .. Len(l) : y[Len(b) + 1 + i] = l[i]
  BY Joining
<1>4. x = y
  OBVIOUS
<1> HIDE DEF x, y
<1>5. ~(Len(a) < Len(b))
  <2> SUFFICES ASSUME Len(a) < Len(b) PROVE FALSE
    OBVIOUS
  <2>1. Len(a) + 1 \in 1 .. Len(b)
    BY <1>1
  <2> QED BY <2>1, <1>2, <1>3, <1>4 DEF Without
<1>6. ~(Len(b) < Len(a))
  <2> SUFFICES ASSUME Len(b) < Len(a) PROVE FALSE
    OBVIOUS
  <2>1. Len(b) + 1 \in 1 .. Len(a)
    BY <1>1
  <2> QED BY <2>1, <1>2, <1>3, <1>4 DEF Without
<1>7. Len(a) = Len(b) /\ Len(k) = Len(l)
  BY <1>1, <1>2, <1>3, <1>4, <1>5, <1>6
<1>8. \A i \in 1 .. Len(a) : a[i] = b[i]
  BY <1>2, <1>3, <1>4, <1>7
<1>9. \A i \in 1 .. Len(k) : k[i] = l[i]
  BY <1>2, <1>3, <1>4, <1>7
<1> QED BY <1>7, <1>8, <1>9, SeqEqual

-----------------------------------------------------------------------------
(* Names of rows                                                           *)

\* The characters that scopes and the names of rows put between their parts.
Signs == {"control", "prefix", "hash", "space", "slash"}

\* Two rows have the same name in a store only if they have scope and key in
\* common, whatever is in a scope: a key has no control character.
LEMMA RowNamesDiffer ==
    ASSUME NEW S, Signs \subseteq S, NEW store,
           NEW s \in Seq(S), NEW t \in Seq(S),
           NEW k \in Seq(S), NEW l \in Seq(S),
           Without(k, "control"), Without(l, "control"),
           RowName(store, s, k) = RowName(store, t, l)
    PROVE  s = t /\ k = l
<1>1. ASSUME NEW a \in Seq(S), NEW b \in Seq(S),
             a \o <<"control">> \o k = b \o <<"control">> \o l
      PROVE  a = b /\ k = l
  <2>1. "control" \in S
    BY DEF Signs
  <2> QED BY <1>1, <2>1, LastDivides, Zenon
<1>2. CASE store = "memory"
  BY <1>1, <1>2 DEF RowName, mapKey
<1>3. CASE store = "redis"
  <2>1. <<"prefix">> \in Seq(S)
    BY DEF Signs
  <2>2. /\ <<"prefix">> \o s \in Seq(S)
        /\ <<"prefix">> \o t \in Seq(S)
    BY <2>1, ConcatProperties
  <2>3. (<<"prefix">> \o s) \o <<"control">> \o k = (<<"prefix">> \o t) \o <<"control">> \o l
    BY <1>3 DEF RowName, keyFor
  <2>4. <<"prefix">> \o s = <<"prefix">> \o t /\ k = l
    BY <2>2, <2>3, <1>1
  <2> QED BY <2>1, <2>4, CancelLeft
<1>4. CASE store = "dynamodb"
  BY <1>1, <1>4 DEF RowName, itemKey
<1>5. CASE store = "sql"
  BY <1>5 DEF RowName
<1>6. CASE store \notin {"memory", "redis", "dynamodb", "sql"}
  BY <1>6 DEF RowName
<1> QED BY <1>2, <1>3, <1>4, <1>5, <1>6

\* The requests of all routers: a path and a pattern have no hash sign, since a
\* URL's fragment is not sent.
HttpPlaces(S) ==
    {r \in [method : S, path : Seq(S), pattern : Seq(S)] :
        r.method # "hash" /\ Without(r.path, "hash") /\ Without(r.pattern, "hash")}

\* What a request's scope is made of.
LEMMA EndpointScope ==
    ASSUME NEW S, Signs \subseteq S, NEW r \in HttpPlaces(S)
    PROVE  /\ Endpoint(r)[1] = r.method /\ Endpoint(r)[2] \in Seq(S)
           /\ Endpoint(r) = <<r.method, Endpoint(r)[2]>>
           /\ Without(Endpoint(r)[2], "hash")
           /\ idempotency(r) = <<r.method, "space">> \o Endpoint(r)[2]
BY DEF Endpoint, HttpPlaces, idempotency

\* A base has no hash sign, and tells the endpoint.
LEMMA BaseTells ==
    ASSUME NEW S, Signs \subseteq S, NEW r \in HttpPlaces(S)
    PROVE  /\ idempotency(r) \in Seq(S) /\ Len(idempotency(r)) = 2 + Len(Endpoint(r)[2])
           /\ idempotency(r)[1] = r.method
           /\ Without(idempotency(r), "hash")
<1> DEFINE e == Endpoint(r)[2]
           h == <<r.method, "space">>
<1>1. /\ e \in Seq(S) /\ Without(e, "hash") /\ idempotency(r) = h \o e
      /\ r.method \in S /\ r.method # "hash"
  BY EndpointScope DEF HttpPlaces
<1>2. h \in Seq(S) /\ Len(h) = 2 /\ h[1] = r.method /\ h[2] = "space"
  BY <1>1 DEF Signs
<1> HIDE DEF e, h
<1>3. /\ h \o e \in Seq(S) /\ Len(h \o e) = Len(h) + Len(e)
      /\ \A i \in 1 .. Len(h) + Len(e) : (h \o e)[i] = IF i <= Len(h) THEN h[i] ELSE e[i - Len(h)]
  <2>1. h \in Seq(S) /\ e \in Seq(S)
    BY <1>1, <1>2
  <2> QED BY <2>1, ConcatProperties, Zenon
<1>4. Len(e) \in Nat
  BY <1>1
<1>5. (h \o e)[1] = r.method
  BY <1>2, <1>3, <1>4
<1>6. ASSUME NEW i \in 1 .. 2 + Len(e)
      PROVE  (h \o e)[i] # "hash"
  <2>1. CASE i \in {1, 2}
    BY <2>1, <1>1, <1>2, <1>3, <1>4
  <2>2. CASE i \notin {1, 2}
    <3>1. i - 2 \in 1 .. Len(e) /\ (h \o e)[i] = e[i - 2]
      BY <2>2, <1>2, <1>3, <1>4
    <3> QED BY <3>1, <1>1 DEF Without
  <2> QED BY <2>1, <2>2
<1>7. Without(h \o e, "hash")
  BY <1>2, <1>3, <1>6 DEF Without
<1> QED BY <1>1, <1>2, <1>3, <1>5, <1>7 DEF e

LEMMA EqualBases ==
    ASSUME NEW S, Signs \subseteq S,
           NEW q \in HttpPlaces(S), NEW r \in HttpPlaces(S), idempotency(q) = idempotency(r)
    PROVE  Endpoint(q) = Endpoint(r)
<1> DEFINE d == Endpoint(q)[2]
           e == Endpoint(r)[2]
<1>1. /\ d \in Seq(S) /\ idempotency(q) = <<q.method, "space">> \o d
      /\ Endpoint(q) = <<q.method, d>> /\ q.method \in S
  BY EndpointScope DEF HttpPlaces
<1>2. /\ e \in Seq(S) /\ idempotency(r) = <<r.method, "space">> \o e
      /\ Endpoint(r) = <<r.method, e>> /\ r.method \in S
  BY EndpointScope DEF HttpPlaces
<1>3. q.method = r.method
  BY BaseTells
<1> HIDE DEF d, e
<1>4. <<q.method, "space">> \in Seq(S)
  BY <1>1 DEF Signs
<1>5. <<q.method, "space">> \o d = <<q.method, "space">> \o e
  BY <1>1, <1>2, <1>3
<1>6. d = e
  <2>1. d \in Seq(S) /\ e \in Seq(S)
    BY <1>1, <1>2
  <2> QED BY <2>1, <1>4, <1>5, CancelLeft, Zenon
<1> QED BY <1>1, <1>2, <1>3, <1>6

\* The scope of a request tells its endpoint and its principal, whatever the
\* principal's name contains.
LEMMA ScopesDiffer ==
    ASSUME NEW S, Signs \subseteq S,
           NEW q \in HttpPlaces(S), NEW r \in HttpPlaces(S),
           NEW p \in Seq(S), NEW u \in Seq(S),
           resolveScope(idempotency(q), p, FALSE).scope = resolveScope(idempotency(r), u, FALSE).scope
    PROVE  Endpoint(q) = Endpoint(r) /\ p = u
<1> DEFINE a == idempotency(q)
           b == idempotency(r)
<1>1. /\ a \in Seq(S) /\ Without(a, "hash")
      /\ b \in Seq(S) /\ Without(b, "hash")
  BY BaseTells
<1>2. /\ p = <<>> => resolveScope(a, p, FALSE).scope = a
      /\ p # <<>> => resolveScope(a, p, FALSE).scope = a \o <<"hash">> \o p
      /\ u = <<>> => resolveScope(b, u, FALSE).scope = b
      /\ u # <<>> => resolveScope(b, u, FALSE).scope = b \o <<"hash">> \o u
  BY DEF resolveScope
<1>3. resolveScope(a, p, FALSE).scope = resolveScope(b, u, FALSE).scope
  OBVIOUS
<1>4. a = b => Endpoint(q) = Endpoint(r)
  BY EqualBases
<1> HIDE DEF a, b
<1>5. ASSUME NEW x \in Seq(S), NEW y \in Seq(S), NEW z \in Seq(S),
             Without(x, "hash"), x = y \o <<"hash">> \o z
      PROVE  FALSE
  <2> DEFINE w == y \o <<"hash">> \o z
  <2>1. Len(w) = Len(y) + 1 + Len(z) /\ w[Len(y) + 1] = "hash"
    BY Joining DEF Signs
  <2>2. x = w
    BY <1>5
  <2> HIDE DEF w
  <2>3. Len(y) + 1 \in 1 .. Len(x)
    BY <2>1, <2>2
  <2> QED BY <1>5, <2>1, <2>2, <2>3 DEF Without
<1>6. CASE p = <<>> /\ u = <<>>
  BY <1>2, <1>3, <1>4, <1>6
<1>7. CASE p = <<>> /\ u # <<>>
  BY <1>1, <1>2, <1>3, <1>5, <1>7
<1>8. CASE p # <<>> /\ u = <<>>
  BY <1>1, <1>2, <1>3, <1>5, <1>8
<1>9. CASE p # <<>> /\ u # <<>>
  <2>1. a \o <<"hash">> \o p = b \o <<"hash">> \o u
    BY <1>2, <1>3, <1>9
  <2>2. "hash" \in S
    BY DEF Signs
  <2>3. a = b /\ p = u
    BY <2>1, <2>2, <1>1, FirstDivides, Zenon
  <2> QED BY <2>3, <1>4
<1> QED BY <1>6, <1>7, <1>8, <1>9

\* The scope of a request is one of characters, and begins with the method.
LEMMA ScopeTyped ==
    ASSUME NEW S, Signs \subseteq S, NEW r \in HttpPlaces(S), NEW p \in Seq(S)
    PROVE  LET scope == resolveScope(idempotency(r), p, FALSE).scope
           IN  scope \in Seq(S) /\ scope[1] = r.method
<1> DEFINE a == idempotency(r)
           b == a \o <<"hash">> \o p
<1>1. a \in Seq(S) /\ Len(a) = 2 + Len(Endpoint(r)[2]) /\ a[1] = r.method
  BY BaseTells
<1>2. Len(Endpoint(r)[2]) \in Nat
  BY EndpointScope
<1>3. 1 \in 1 .. Len(a)
  BY <1>1, <1>2
<1>4. "hash" \in S
  BY DEF Signs
<1>5. resolveScope(a, p, FALSE).scope = IF p = <<>> THEN a ELSE b
  BY DEF resolveScope
<1>6. b \in Seq(S) /\ b[1] = a[1]
  <2> HIDE DEF a
  <2> QED BY <1>1, <1>3, <1>4, Joining
<1> QED BY <1>1, <1>5, <1>6

\* Callers of all kinds: a request, a principal and a key without control characters.
Callers(S) == HttpPlaces(S) \X Seq(S) \X {k \in Seq(S) : Without(k, "control")}

\* With names of any length, and any characters but the separator in keys and the hash
\* sign in paths, requests share a row of a store exactly if they agree in endpoint,
\* principal and key: resolveScope and the row names of the stores lose nothing.
THEOREM RequestsShareRows ==
    ASSUME NEW S, Signs \subseteq S, NEW store, NEW c \in Callers(S), NEW d \in Callers(S)
    PROVE  HttpRow(store, c) = HttpRow(store, d)
             <=> Endpoint(c[1]) = Endpoint(d[1]) /\ c[2] = d[2] /\ c[3] = d[3]
<1> DEFINE q == c[1]
           p == c[2]
           k == c[3]
           r == d[1]
           u == d[2]
           l == d[3]
<1>0. /\ q \in HttpPlaces(S) /\ r \in HttpPlaces(S) /\ p \in Seq(S) /\ u \in Seq(S)
      /\ k \in Seq(S) /\ Without(k, "control") /\ l \in Seq(S) /\ Without(l, "control")
  BY DEF Callers
<1> DEFINE s == resolveScope(idempotency(q), p, FALSE).scope
           t == resolveScope(idempotency(r), u, FALSE).scope
<1>1. HttpRow(store, c) = RowName(store, s, k) /\ HttpRow(store, d) = RowName(store, t, l)
  BY DEF HttpRow
<1> HIDE DEF q, p, k, r, u, l
<1>2. s \in Seq(S) /\ t \in Seq(S)
  BY <1>0, ScopeTyped
<1>3. ASSUME s = t
      PROVE  Endpoint(q) = Endpoint(r) /\ p = u
  BY <1>0, <1>3, ScopesDiffer, Zenon
<1>4. Endpoint(q) = Endpoint(r) /\ p = u => s = t
  <2>1. Endpoint(q) = Endpoint(r) => idempotency(q) = idempotency(r)
    BY <1>0, EndpointScope
  <2> QED BY <2>1
<1> HIDE DEF s, t
<1>5. RowName(store, s, k) = RowName(store, t, l) => s = t /\ k = l
  BY <1>0, <1>2, RowNamesDiffer, Zenon
<1> QED BY <1>1, <1>3, <1>4, <1>5 DEF q, p, k, r, u, l

\* A request never has a row of a scope that does not begin with its method.
LEMMA RequestsApartFromOthers ==
    ASSUME NEW S, Signs \subseteq S, NEW store,
           NEW q \in HttpPlaces(S), NEW p \in Seq(S), NEW t \in Seq(S), t[1] # q.method,
           NEW k \in Seq(S), NEW l \in Seq(S), Without(k, "control"), Without(l, "control")
    PROVE  HttpRow(store, <<q, p, k>>) # RowName(store, t, l)
<1> DEFINE s == resolveScope(idempotency(q), p, FALSE).scope
<1>1. HttpRow(store, <<q, p, k>>) = RowName(store, s, k)
  BY DEF HttpRow
<1>2. s \in Seq(S) /\ s[1] = q.method
  BY ScopeTyped
<1> HIDE DEF s
<1>3. RowName(store, s, k) = RowName(store, t, l) => s = t
  BY <1>2, RowNamesDiffer, Zenon
<1> QED BY <1>1, <1>2, <1>3

\* The scope of a receiver that has sources tells the source.
LEMMA SourcesDiffer ==
    ASSUME NEW S, Signs \subseteq S, NEW o \in WebhookOptions, o.sourceId,
           NEW route \in Seq(S), NEW s \in Seq(S), NEW t \in Seq(S),
           webhookScope(o, route, s) = webhookScope(o, route, t)
    PROVE  s = t
<1>1. o.scope = {}
  BY DEF WebhookOptions
<1>2. \A v : webhookScope(o, route, v) = IF v = <<>> THEN route ELSE route \o <<"slash">> \o v
  BY <1>1 DEF webhookScope
<1>3. "slash" \in S
  BY DEF Signs
<1>4. ASSUME NEW v \in Seq(S), v # <<>>, route \o <<"slash">> \o v = route
      PROVE  FALSE
  <2> DEFINE w == route \o <<"slash">> \o v
  <2>1. Len(w) = Len(route) + 1 + Len(v)
    BY <1>3, Joining
  <2>2. Len(w) = Len(route)
    BY <1>4
  <2> HIDE DEF w
  <2>3. Len(route) \in Nat /\ Len(v) \in Nat
    OBVIOUS
  <2> QED BY <2>1, <2>2, <2>3
<1>5. ASSUME s # <<>>, t # <<>>
      PROVE  s = t
  <2> DEFINE r == route \o <<"slash">>
  <2>1. r \o s = r \o t
    BY <1>2, <1>5
  <2>2. <<"slash">> \in Seq(S)
    BY <1>3
  <2>3. r \in Seq(S)
    BY <2>2, ConcatProperties
  <2> HIDE DEF r
  <2> QED BY <2>1, <2>3, CancelLeft, Zenon
<1> QED BY <1>2, <1>4, <1>5

\* Where the scope of a receiver begins.
LEMMA WebhookScopeTyped ==
    ASSUME NEW S, Signs \cup {"letter"} \subseteq S, NEW o \in WebhookOptions,
           NEW route \in Seq(S), route # <<>>, NEW s \in Seq(S)
    PROVE  /\ webhookScope(o, route, s) \in Seq(S)
           /\ webhookScope(o, route, s)[1] \in {"letter", route[1]}
<1>1. CASE o.scope # {}
  <2>1. o.scope = {<<"letter">>}
    BY <1>1 DEF WebhookOptions
  <2>2. webhookScope(o, route, s) = CHOOSE scope \in o.scope : TRUE
    BY <1>1 DEF webhookScope
  <2>3. webhookScope(o, route, s) = <<"letter">>
    BY <2>1, <2>2
  <2> QED BY <2>3
<1>2. CASE o.scope = {} /\ (~o.sourceId \/ s = <<>>)
  <2>1. webhookScope(o, route, s) = route
    BY <1>2 DEF webhookScope
  <2> QED BY <2>1
<1>3. CASE o.scope = {} /\ ~(~o.sourceId \/ s = <<>>)
  <2> DEFINE w == route \o <<"slash">> \o s
  <2>1. webhookScope(o, route, s) = w
    BY <1>3 DEF webhookScope
  <2>2. "slash" \in S
    BY DEF Signs
  <2>3. w \in Seq(S) /\ \A i \in 1 .. Len(route) : w[i] = route[i]
    BY <2>2, Joining
  <2> HIDE DEF w
  <2>4. 1 \in 1 .. Len(route)
    OBVIOUS
  <2> QED BY <2>1, <2>3, <2>4
<1> QED BY <1>1, <1>2, <1>3

\* Two functions that tell the same elements apart have as many values.
LEMMA SameImages ==
    ASSUME NEW C, IsFiniteSet(C), NEW f, NEW g,
           \A c, d \in C : f[c] = f[d] <=> g[c] = g[d]
    PROVE  Cardinality({f[c] : c \in C}) = Cardinality({g[c] : c \in C})
<1> DEFINE F == {f[c] : c \in C}
           G == {g[c] : c \in C}
           h == [x \in F |-> g[CHOOSE c \in C : f[c] = x]]
<1>1. IsFiniteSet(F)
  <2>1. [c \in C |-> f[c]] \in Surjection(C, F)
    BY DEF Surjection
  <2> QED BY <2>1, FS_Surjection, Zenon
<1>2. \A c \in C : h[f[c]] = g[c]
  <2> SUFFICES ASSUME NEW c \in C PROVE h[f[c]] = g[c]
    OBVIOUS
  <2>1. PICK d \in C : d = CHOOSE e \in C : f[e] = f[c]
    OBVIOUS
  <2>2. f[d] = f[c]
    BY <2>1
  <2> QED BY <2>1, <2>2
<1>3. h \in [F -> G]
  BY <1>2
<1>4. \A x, y \in F : h[x] = h[y] => x = y
  BY <1>2
<1>5. \A z \in G : \E x \in F : h[x] = z
  <2> SUFFICES ASSUME NEW z \in G PROVE \E x \in F : h[x] = z
    OBVIOUS
  <2>1. PICK c \in C : z = g[c]
    OBVIOUS
  <2>2. f[c] \in F /\ h[f[c]] = z
    BY <1>2, <2>1
  <2> HIDE DEF F, h
  <2> QED BY <2>2
<1>6. h \in Bijection(F, G)
  <2> HIDE DEF F, G, h
  <2> QED BY <1>3, <1>4, <1>5 DEF Bijection, Injection, Surjection, IsInjective
<1> QED BY <1>1, <1>6, FS_Bijection DEF ExistsBijection

\* Small sets are finite.
LEMMA SmallFinite ==
    ASSUME NEW a, NEW b, NEW c, NEW d
    PROVE  IsFiniteSet({a, b}) /\ IsFiniteSet({a, b, c}) /\ IsFiniteSet({a, b, c, d})
<1>1. IsFiniteSet({a}) /\ IsFiniteSet({b}) /\ IsFiniteSet({c}) /\ IsFiniteSet({d})
  BY FS_Singleton
<1>2. IsFiniteSet({a} \cup {b})
  BY <1>1, FS_Union, Zenon
<1>3. IsFiniteSet(({a} \cup {b}) \cup {c})
  BY <1>1, <1>2, FS_Union, Zenon
<1>4. IsFiniteSet((({a} \cup {b}) \cup {c}) \cup {d})
  BY <1>1, <1>3, FS_Union, Zenon
<1>5. /\ {a, b} = {a} \cup {b}
      /\ {a, b, c} = ({a} \cup {b}) \cup {c}
      /\ {a, b, c, d} = (({a} \cup {b}) \cup {c}) \cup {d}
  OBVIOUS
<1> QED BY <1>2, <1>3, <1>4, <1>5, Zenon

\* There are only so many short strings.
LEMMA StringsFinite ==
    ASSUME NEW C, IsFiniteSet(C), NEW max \in Nat
    PROVE  IsFiniteSet(Strings(C, max))
<1>1. IsFiniteSet(0 .. max)
  BY FS_Interval
<1> DEFINE Z == (1 .. max) \X C
<1>2. IsFiniteSet(SUBSET Z)
  <2>1. IsFiniteSet(1 .. max)
    BY FS_Interval
  <2>2. IsFiniteSet(Z)
    BY <2>1, FS_Product
  <2> QED BY <2>2, FS_SUBSET
<1> DEFINE graph == [s \in Strings(C, max) |-> {<<i, s[i]>> : i \in DOMAIN s}]
<1>3. ASSUME NEW s \in Strings(C, max)
      PROVE  \E n \in 0 .. max : s \in [1 .. n -> C]
  BY DEF Strings
<1>4. graph \in [Strings(C, max) -> SUBSET Z]
  <2> SUFFICES ASSUME NEW s \in Strings(C, max) PROVE {<<i, s[i]>> : i \in DOMAIN s} \in SUBSET Z
    OBVIOUS
  <2>1. PICK n \in 0 .. max : s \in [1 .. n -> C]
    BY <1>3
  <2> QED BY <2>1
<1>5. ASSUME NEW s \in Strings(C, max), NEW t \in Strings(C, max), graph[s] = graph[t]
      PROVE  s = t
  <2>1. PICK m \in 0 .. max : s \in [1 .. m -> C]
    BY <1>3
  <2>2. PICK n \in 0 .. max : t \in [1 .. n -> C]
    BY <1>3
  <2>3. {<<i, s[i]>> : i \in 1 .. m} = {<<i, t[i]>> : i \in 1 .. n}
    BY <1>5, <2>1, <2>2
  <2>4. \A i \in 1 .. m : i \in 1 .. n /\ s[i] = t[i]
    <3> SUFFICES ASSUME NEW i \in 1 .. m PROVE i \in 1 .. n /\ s[i] = t[i]
      OBVIOUS
    <3>1. <<i, s[i]>> \in {<<j, t[j]>> : j \in 1 .. n}
      BY <2>3
    <3> QED BY <3>1
  <2>5. \A i \in 1 .. n : i \in 1 .. m
    <3> SUFFICES ASSUME NEW i \in 1 .. n PROVE i \in 1 .. m
      OBVIOUS
    <3>1. <<i, t[i]>> \in {<<j, s[j]>> : j \in 1 .. m}
      BY <2>3
    <3> QED BY <3>1
  <2>6. 1 .. m = 1 .. n
    BY <2>4, <2>5
  <2> QED BY <2>1, <2>2, <2>4, <2>6
<1>6. graph \in Injection(Strings(C, max), SUBSET Z)
  <2> HIDE DEF graph
  <2> QED BY <1>4, <1>5 DEF Injection, IsInjective
<1> HIDE DEF graph
<1> QED BY <1>2, <1>6, FS_Injection, Zenon

\* The characters of names.
NameChars == Chars \cup Signs \cup {"param", "POST", "PATCH"}

\* A few of them are in the sets that TLC goes through.
LEMMA StringsAreNames ==
    ASSUME NEW C, C \subseteq NameChars, NEW max \in Nat, NEW s \in Strings(C, max)
    PROVE  /\ s \in Seq(NameChars) /\ Len(s) \in 0 .. max
           /\ \A i \in 1 .. Len(s) : s[i] \in C
<1>1. PICK n \in 0 .. max : s \in [1 .. n -> C]
  BY DEF Strings
<1>2. s \in Seq(C) /\ Len(s) = n
  BY <1>1
<1> QED BY <1>1, <1>2, SeqMonotonic

LEMMA SomeKeysAreNames ==
    ASSUME NEW k \in SomeKeys
    PROVE  k \in Seq(NameChars) /\ Without(k, "control")
<1>1. k \in Strings(Printable \cup {"space"}, MaxKeyBytes)
  BY DEF SomeKeys, LegalKeys
<1>2. Printable \cup {"space"} \subseteq NameChars /\ MaxKeyBytes \in Nat
      /\ "control" \notin Printable \cup {"space"}
  BY KeyBoundAssumption DEF Printable, NameChars, Chars
<1>3. k \in Seq(NameChars) /\ \A i \in 1 .. Len(k) : k[i] \in Printable \cup {"space"}
  BY <1>1, <1>2, StringsAreNames
<1> QED BY <1>2, <1>3 DEF Without

LEMMA PrincipalsAreNames == Principals \subseteq Seq(NameChars)
<1>1. {"letter", "comma", "slash", "hash", "control"} \subseteq NameChars
  BY DEF NameChars, Chars, Signs
<1> QED BY <1>1, StringsAreNames DEF Principals

LEMMA RoutedAreHttpPlaces == Routed \subseteq HttpPlaces(NameChars)
<1> SUFFICES ASSUME NEW r \in Routed PROVE r \in HttpPlaces(NameChars)
  OBVIOUS
<1>1. /\ r = [method |-> r.method, path |-> r.path, pattern |-> r.pattern]
      /\ r.method \in {"POST", "PATCH"}
      /\ r.path \in {<<"slash">>, <<"slash", "letter">>, <<"slash", "comma">>}
      /\ r.pattern \in {<<>>, <<"slash", "param">>}
  BY DEF Routed, Paths
<1>2. {"POST", "PATCH", "slash", "letter", "comma", "param"} \subseteq NameChars
  BY DEF NameChars, Chars, Signs
<1>0. ASSUME NEW x \in NameChars \ {"hash"}, NEW y \in NameChars \ {"hash"}
      PROVE  /\ <<>> \in Seq(NameChars) /\ Without(<<>>, "hash")
             /\ <<x>> \in Seq(NameChars) /\ Without(<<x>>, "hash")
             /\ <<x, y>> \in Seq(NameChars) /\ Without(<<x, y>>, "hash")
  BY <1>0 DEF Without
<1>3. r.path \in Seq(NameChars) /\ Without(r.path, "hash")
  BY <1>0, <1>1, <1>2
<1>4. r.pattern \in Seq(NameChars) /\ Without(r.pattern, "hash")
  BY <1>0, <1>1, <1>2
<1>5. r \in [method : NameChars, path : Seq(NameChars), pattern : Seq(NameChars)]
  BY <1>1, <1>2, <1>3, <1>4
<1> QED BY <1>1, <1>3, <1>4, <1>5 DEF HttpPlaces

LEMMA FewNames == IsFiniteSet(Routed) /\ IsFiniteSet(Principals) /\ IsFiniteSet(SomeKeys)
<1>1. IsFiniteSet(Principals)
  <2>1. IsFiniteSet({"letter", "comma", "slash", "hash"}) /\ IsFiniteSet({"control"})
    BY SmallFinite, FS_Singleton
  <2>2. IsFiniteSet({"letter", "comma", "slash", "hash"} \cup {"control"})
    BY <2>1, FS_Union, Zenon
  <2>3. {"letter", "comma", "slash", "hash"} \cup {"control"}
          = {"letter", "comma", "slash", "hash", "control"}
    OBVIOUS
  <2>4. IsFiniteSet({"letter", "comma", "slash", "hash", "control"})
    BY <2>2, <2>3
  <2> QED BY <2>4, StringsFinite DEF Principals
<1>2. IsFiniteSet(SomeKeys)
  <2>1. IsFiniteSet({"letter", "comma"})
    BY SmallFinite
  <2>2. IsFiniteSet(Strings({"letter", "comma"}, 2))
    BY <2>1, StringsFinite
  <2>3. SomeKeys \subseteq Strings({"letter", "comma"}, 2)
    <3> SUFFICES ASSUME NEW k \in SomeKeys PROVE k \in Strings({"letter", "comma"}, 2)
      OBVIOUS
    <3>1. k \in Seq(NameChars) /\ Len(k) <= 2 /\ \A i \in DOMAIN k : k[i] \in {"letter", "comma"}
      BY SomeKeysAreNames DEF SomeKeys
    <3>2. Len(k) \in Nat /\ DOMAIN k = 1 .. Len(k) /\ k \in [1 .. Len(k) -> NameChars]
      BY <3>1, LenProperties
    <3>3. Len(k) \in 0 .. 2 /\ k \in [1 .. Len(k) -> {"letter", "comma"}]
      BY <3>1, <3>2
    <3> QED BY <3>3 DEF Strings
  <2> QED BY <2>2, <2>3, FS_Subset
<1>3. IsFiniteSet(Routed)
  <2> DEFINE A == {"POST", "PATCH"}
             B == {<<>>, <<"slash", "param">>}
             C == A \X Paths \X B
             f == [c \in C |-> [method |-> c[1], path |-> c[2], pattern |-> c[3]]]
  <2>1. IsFiniteSet(A) /\ IsFiniteSet(Paths) /\ IsFiniteSet(B)
    BY SmallFinite DEF Paths
  <2>2. IsFiniteSet(C)
    <3>1. C = A \X Paths \X B
      OBVIOUS
    <3> HIDE DEF A, B, C
    <3> DEFINE D == (A \X Paths) \X B
               g == [d \in D |-> <<d[1][1], d[1][2], d[2]>>]
    <3>2. IsFiniteSet(D)
      BY <2>1, FS_Product
    <3>3. g \in Surjection(D, C)
      <4>1. g \in [D -> C]
        BY <3>1
      <4>2. \A c \in C : \E d \in D : g[d] = c
        <5> SUFFICES ASSUME NEW c \in C PROVE \E d \in D : g[d] = c
          OBVIOUS
        <5>1. <<<<c[1], c[2]>>, c[3]>> \in D /\ g[<<<<c[1], c[2]>>, c[3]>>] = c
          BY <3>1
        <5> QED BY <5>1
      <4> HIDE DEF g
      <4> QED BY <4>1, <4>2 DEF Surjection
    <3> HIDE DEF g, D
    <3> QED BY <3>2, <3>3, FS_Surjection, Zenon
  <2>3. f \in Surjection(C, Routed)
    <3>1. f \in [C -> Routed]
      BY DEF Routed
    <3>2. \A r \in Routed : \E c \in C : f[c] = r
      <4> SUFFICES ASSUME NEW r \in Routed PROVE \E c \in C : f[c] = r
        OBVIOUS
      <4>1. <<r.method, r.path, r.pattern>> \in C /\ f[<<r.method, r.path, r.pattern>>] = r
        BY DEF Routed
      <4> QED BY <4>1
    <3> HIDE DEF f, C
    <3> QED BY <3>1, <3>2 DEF Surjection
  <2> HIDE DEF f, C
  <2> QED BY <2>2, <2>3, FS_Surjection, Zenon
<1> QED BY <1>1, <1>2, <1>3

\* Rows of requests are apart, in every store.
LEMMA HttpRowsAreApart ==
    ASSUME NEW store
    PROVE  HttpRowsApart(store)
<1> DEFINE C == Routed \X Principals \X SomeKeys
           f == [c \in C |-> HttpRow(store, c)]
           g == [c \in C |-> <<Endpoint(c[1]), c[2], c[3]>>]
<1>1. IsFiniteSet(C)
  <2> DEFINE D == (Routed \X Principals) \X SomeKeys
             h == [d \in D |-> <<d[1][1], d[1][2], d[2]>>]
  <2>1. IsFiniteSet(D)
    BY FewNames, FS_Product
  <2>2. h \in [D -> C]
    OBVIOUS
  <2>3. \A c \in C : \E d \in D : h[d] = c
    <3> SUFFICES ASSUME NEW c \in C PROVE \E d \in D : h[d] = c
      OBVIOUS
    <3>1. <<<<c[1], c[2]>>, c[3]>> \in D /\ h[<<<<c[1], c[2]>>, c[3]>>] = c
      OBVIOUS
    <3> QED BY <3>1
  <2>4. h \in Surjection(D, C)
    <3> HIDE DEF h, C, D
    <3> QED BY <2>2, <2>3 DEF Surjection
  <2> HIDE DEF h, C, D
  <2> QED BY <2>1, <2>4, FS_Surjection, Zenon
<1>2. ASSUME NEW c \in C, NEW d \in C
      PROVE  f[c] = f[d] <=> g[c] = g[d]
  <2>1. C \subseteq Callers(NameChars)
    BY RoutedAreHttpPlaces, PrincipalsAreNames, SomeKeysAreNames DEF Callers
  <2>2. Signs \subseteq NameChars
    BY DEF NameChars
  <2>3. c \in Callers(NameChars) /\ d \in Callers(NameChars)
    BY <2>1
  <2>4. HttpRow(store, c) = HttpRow(store, d)
          <=> Endpoint(c[1]) = Endpoint(d[1]) /\ c[2] = d[2] /\ c[3] = d[3]
    BY <2>2, <2>3, RequestsShareRows
  <2> QED BY <2>4
<1>3. /\ {HttpRow(store, c) : c \in C} = {f[c] : c \in C}
      /\ {<<Endpoint(c[1]), c[2], c[3]>> : c \in C} = {g[c] : c \in C}
  OBVIOUS
<1>4. Cardinality({f[c] : c \in C}) = Cardinality({g[c] : c \in C})
  <2> HIDE DEF f, g, C
  <2> QED BY <1>1, <1>2, SameImages
<1>5. Cardinality({HttpRow(store, c) : c \in C}) = Cardinality({<<Endpoint(c[1]), c[2], c[3]>> : c \in C})
  <2> HIDE DEF f, g, C
  <2> QED BY <1>3, <1>4
<1> QED BY <1>5 DEF HttpRowsApart

\* So are those of deliveries, from each other and from those of requests.
LEMMA WebhookRowsAreApart ==
    ASSUME NEW store
    PROVE  WebhookRowsApart(store)
<1> DEFINE D == Principals \X SomeKeys
           C == Routed \X Principals \X SomeKeys
           route == <<"slash", "letter">>
           Rows(o) == {RowName(store, webhookScope(o, route, s[1]), s[2]) : s \in D}
<1>1. /\ Signs \subseteq NameChars /\ Signs \cup {"letter"} \subseteq NameChars
      /\ {"slash", "letter", "POST", "PATCH"} \subseteq NameChars
  BY DEF NameChars, Signs, Chars
<1>2. route \in Seq(NameChars) /\ route # <<>> /\ route[1] = "slash"
  BY <1>1
<1>3. ASSUME NEW s \in D
      PROVE  /\ s = <<s[1], s[2]>> /\ s[1] \in Seq(NameChars)
             /\ s[2] \in Seq(NameChars) /\ Without(s[2], "control")
  BY PrincipalsAreNames, SomeKeysAreNames
<1> HIDE DEF route
<1>4. ASSUME NEW o \in WebhookOptions, NEW s \in D
      PROVE  /\ webhookScope(o, route, s[1]) \in Seq(NameChars)
             /\ webhookScope(o, route, s[1])[1] \in {"letter", "slash"}
  <2>1. s[1] \in Seq(NameChars)
    BY <1>3
  <2>2. /\ webhookScope(o, route, s[1]) \in Seq(NameChars)
        /\ webhookScope(o, route, s[1])[1] \in {"letter", route[1]}
    BY <1>1, <1>2, <2>1, WebhookScopeTyped, Zenon
  <2> QED BY <1>2, <2>2
<1>5. ASSUME NEW o \in WebhookOptions, o.sourceId
      PROVE  Cardinality(Rows(o)) = Cardinality(D)
  <2> DEFINE f == [s \in D |-> RowName(store, webhookScope(o, route, s[1]), s[2])]
             g == [s \in D |-> s]
  <2>1. IsFiniteSet(D)
    BY FewNames, FS_Product
  <2>2. ASSUME NEW s \in D, NEW t \in D
        PROVE  f[s] = f[t] <=> g[s] = g[t]
    <3> DEFINE a == webhookScope(o, route, s[1])
               b == webhookScope(o, route, t[1])
    <3>1. a \in Seq(NameChars) /\ b \in Seq(NameChars)
      BY <1>4
    <3>2. /\ s = <<s[1], s[2]>> /\ s[1] \in Seq(NameChars)
          /\ s[2] \in Seq(NameChars) /\ Without(s[2], "control")
          /\ t = <<t[1], t[2]>> /\ t[1] \in Seq(NameChars)
          /\ t[2] \in Seq(NameChars) /\ Without(t[2], "control")
      BY <1>3, Zenon
    <3>3. a = b => s[1] = t[1]
      BY <1>1, <1>2, <1>5, <3>2, SourcesDiffer, Zenon
    <3>4. f[s] = RowName(store, a, s[2]) /\ f[t] = RowName(store, b, t[2]) /\ g[s] = s /\ g[t] = t
      OBVIOUS
    <3>5. s = t => f[s] = f[t]
      OBVIOUS
    <3> HIDE DEF a, b, f, g
    <3>6. RowName(store, a, s[2]) = RowName(store, b, t[2]) => a = b /\ s[2] = t[2]
      <4> DEFINE k == s[2]
                 l == t[2]
      <4>1. /\ k \in Seq(NameChars) /\ Without(k, "control")
            /\ l \in Seq(NameChars) /\ Without(l, "control")
        BY <3>2
      <4> HIDE DEF k, l
      <4>2. RowName(store, a, k) = RowName(store, b, l) => a = b /\ k = l
        BY <1>1, <3>1, <4>1, RowNamesDiffer
      <4> QED BY <4>2 DEF k, l
    <3>7. f[s] = f[t] => s = t
      BY <3>2, <3>3, <3>4, <3>6, Zenon
    <3> QED BY <3>4, <3>5, <3>7, Zenon
  <2>3. Rows(o) = {f[s] : s \in D} /\ D = {g[s] : s \in D}
    OBVIOUS
  <2>4. Cardinality({f[s] : s \in D}) = Cardinality({g[s] : s \in D})
    <3> HIDE DEF f, g, D
    <3> QED BY <2>1, <2>2, SameImages
  <2> HIDE DEF f, g, D, Rows
  <2> QED BY <2>3, <2>4
<1>6. ASSUME NEW o \in WebhookOptions
      PROVE  Rows(o) \cap {HttpRow(store, c) : c \in C} = {}
  <2> SUFFICES ASSUME NEW s \in D, NEW c \in C,
                      HttpRow(store, c) = RowName(store, webhookScope(o, route, s[1]), s[2])
               PROVE  FALSE
    OBVIOUS
  <2> DEFINE t == webhookScope(o, route, s[1])
  <2>1. t \in Seq(NameChars) /\ t[1] \in {"letter", "slash"}
    BY <1>4
  <2>2. s[2] \in Seq(NameChars) /\ Without(s[2], "control")
    BY <1>3
  <2>3. c = <<c[1], c[2], c[3]>> /\ c[1] \in Routed /\ c[2] \in Principals /\ c[3] \in SomeKeys
    OBVIOUS
  <2>4. /\ c[1] \in HttpPlaces(NameChars) /\ c[2] \in Seq(NameChars)
        /\ c[3] \in Seq(NameChars) /\ Without(c[3], "control")
    BY <2>3, RoutedAreHttpPlaces, PrincipalsAreNames, SomeKeysAreNames
  <2>5. c[1].method \in {"POST", "PATCH"}
    BY <2>3 DEF Routed
  <2>6. t[1] # c[1].method
    BY <2>1, <2>5
  <2>7. HttpRow(store, c) = RowName(store, t, s[2])
    OBVIOUS
  <2> HIDE DEF t, D, C
  <2>8. HttpRow(store, <<c[1], c[2], c[3]>>) # RowName(store, t, s[2])
    BY <1>1, <2>1, <2>2, <2>4, <2>6, RequestsApartFromOthers, Zenon
  <2> QED BY <2>3, <2>7, <2>8, Zenon
<1> HIDE DEF Rows
<1>7. \A o \in WebhookOptions :
        /\ o.sourceId => Cardinality(Rows(o)) = Cardinality(D)
        /\ Rows(o) \cap {HttpRow(store, c) : c \in C} = {}
  BY <1>5, <1>6
<1> QED BY <1>7 DEF WebhookRowsApart, Rows, route

\* An item is split where it was joined, if the scope has no separator.
LEMMA ItemSplits ==
    ASSUME NEW S, Signs \subseteq S, NEW scope \in Seq(S), NEW key \in Seq(S),
           Without(scope, "control")
    PROVE  itemToRow(itemKey(scope, key)) = [scope |-> scope, key |-> key]
<1> DEFINE pk == scope \o <<"control">> \o key
           seps == {i \in DOMAIN pk : pk[i] = "control"}
           at == CHOOSE i \in seps : \A j \in seps : i <= j
           n == Len(scope) + 1
<1>1. "control" \in S
  BY DEF Signs
<1>2. /\ pk \in Seq(S) /\ Len(pk) = Len(scope) + 1 + Len(key)
      /\ \A i \in 1 .. Len(scope) : pk[i] = scope[i]
      /\ pk[Len(scope) + 1] = "control"
      /\ \A i \in 1 .. Len(key) : pk[Len(scope) + 1 + i] = key[i]
  BY <1>1, Joining
<1>3. itemToRow(itemKey(scope, key)) =
        IF seps = {} THEN [scope |-> pk, key |-> <<>>]
        ELSE [scope |-> SubSeq(pk, 1, at - 1), key |-> SubSeq(pk, at + 1, Len(pk))]
  BY DEF itemToRow, itemKey
<1> HIDE DEF pk
<1>4. Len(scope) \in Nat /\ Len(key) \in Nat /\ DOMAIN pk = 1 .. Len(pk)
  BY <1>2
<1>5. n \in seps /\ \A j \in seps : n <= j
  <2>1. n \in seps
    BY <1>2, <1>4
  <2>2. ASSUME NEW j \in seps, j < n
        PROVE  FALSE
    <3>1. j \in 1 .. Len(scope) /\ pk[j] = "control"
      BY <2>2, <1>4
    <3> QED BY <3>1, <1>2 DEF Without
  <2>3. \A j \in seps : j \in Int
    BY <1>4
  <2> QED BY <2>1, <2>2, <2>3, <1>4
<1>6. at = n
  <2>1. at \in seps /\ \A j \in seps : at <= j
    BY <1>5
  <2>2. at \in Int /\ n \in Int
    BY <2>1, <1>4
  <2> HIDE DEF at, seps
  <2> QED BY <1>5, <2>1, <2>2
<1> HIDE DEF at, seps
<1>7. SubSeq(pk, 1, at - 1) = scope
  <2>1. at - 1 = Len(scope)
    BY <1>4, <1>6
  <2>2. /\ SubSeq(pk, 1, Len(scope)) \in Seq(S) /\ Len(SubSeq(pk, 1, Len(scope))) = Len(scope)
        /\ \A i \in 1 .. Len(scope) : SubSeq(pk, 1, Len(scope))[i] = pk[i]
    BY <1>2, <1>4
  <2>3. SubSeq(pk, 1, Len(scope)) = scope
    BY <1>2, <2>2, SeqEqual
  <2> QED BY <2>1, <2>3
<1>8. SubSeq(pk, at + 1, Len(pk)) = key
  <2>1. at + 1 = Len(scope) + 2
    BY <1>4, <1>6
  <2> DEFINE t == SubSeq(pk, Len(scope) + 2, Len(pk))
  <2>2. /\ t \in Seq(S) /\ Len(t) = Len(key)
        /\ \A i \in 1 .. Len(key) : t[i] = pk[Len(scope) + 1 + i]
    BY <1>2, <1>4
  <2>3. t = key
    <3> HIDE DEF t
    <3> QED BY <1>2, <2>2, SeqEqual
  <2> QED BY <2>1, <2>3
<1> QED BY <1>3, <1>5, <1>7, <1>8

LEMMA ItemsAreNamed == ItemsNamed
<1> SUFFICES ASSUME NEW scope \in Principals, NEW key \in SomeKeys,
                    "control" \notin {scope[i] : i \in DOMAIN scope}
             PROVE  itemToRow(itemKey(scope, key)) = [scope |-> scope, key |-> key]
  BY DEF ItemsNamed
<1>1. Signs \subseteq NameChars
  BY DEF NameChars
<1>2. scope \in Seq(NameChars) /\ key \in Seq(NameChars)
  BY PrincipalsAreNames, SomeKeysAreNames
<1>3. Without(scope, "control")
  BY <1>2 DEF Without
<1> QED BY <1>1, <1>2, <1>3, ItemSplits, Zenon

\* No two rows are taken for each other, in any store: requests, the deliveries of a
\* webhook's sources and DynamoDB's items each have a name of their own.
THEOREM RowsAreApart == RowsApart
BY ItemsAreNamed, HttpRowsAreApart, WebhookRowsAreApart DEF RowsApart

-----------------------------------------------------------------------------
(* Bodies as text                                                          *)

\* A word of 24 bits is its four digits.
LEMMA WordOfDigits ==
    ASSUME NEW w \in Nat, w < 16777216
    PROVE  w = 262144 * ((w \div 262144) % 64) + 4096 * ((w \div 4096) % 64)
                 + 64 * ((w \div 64) % 64) + (w % 64)
BY SMT

\* It is its three bytes, too.
Word(a, b, c) == 65536 * a + 256 * b + c

WordHas(w, a, b, c) ==
    /\ w \in Nat /\ w < 16777216
    /\ (w \div 65536) % 256 = a /\ (w \div 256) % 256 = b /\ w % 256 = c
    /\ c = 0 => w % 64 = 0
    /\ b = 0 /\ c = 0 => (w \div 64) % 64 = 0

LEMMA BytesOfWord ==
    ASSUME NEW a \in 0 .. 255, NEW b \in 0 .. 255, NEW c \in 0 .. 255
    PROVE  WordHas(Word(a, b, c), a, b, c)
<1> SUFFICES ASSUME NEW w, w = 65536 * a + 256 * b + c
             PROVE  WordHas(w, a, b, c)
  BY SMT DEF Word
<1>1. w \in Nat /\ w < 16777216
  BY SMT
<1>2. w % 256 = c
  BY SMT
<1>3. w \div 256 = 256 * a + b
  BY SMT
<1>4. (w \div 256) % 256 = b
  BY <1>3, SMT
<1>5. w \div 65536 = a
  BY SMT
<1>6. (w \div 65536) % 256 = a
  BY <1>5, SMT
<1>7. c = 0 => w % 64 = 0
  <2>1. ASSUME c = 0 PROVE w = 64 * (1024 * a + 4 * b)
    BY <2>1, SMT
  <2>2. 1024 * a + 4 * b \in Nat
    BY SMT
  <2> DEFINE x == 1024 * a + 4 * b
  <2>3. (64 * x) % 64 = 0
    <3> HIDE DEF x
    <3>1. x \in Nat
      BY <2>2, SMT DEF x
    <3> QED BY <3>1, SMT
  <2> QED BY <2>1, <2>3, SMT
<1>8. b = 0 /\ c = 0 => (w \div 64) % 64 = 0
  <2> SUFFICES ASSUME b = 0, c = 0 PROVE (w \div 64) % 64 = 0
    OBVIOUS
  <2>1. w \div 64 = 1024 * a
    BY SMT
  <2>2. (1024 * a) % 64 = 0
    BY SMT
  <2> QED BY <2>1, <2>2, SMT
<1> QED BY <1>1, <1>2, <1>4, <1>6, <1>7, <1>8, SMT DEF WordHas

\* A body of any length comes out of its base64 text (bytesToBase64, base64ToBytes)
\* as it went in.
THEOREM Base64RoundTrip ==
    ASSUME NEW bytes \in Seq(0 .. 255)
    PROVE  base64ToBytes(bytesToBase64(bytes)) = bytes
<1> DEFINE L == Len(bytes)
           G == (L + 2) \div 3
           byte(n) == IF n \in DOMAIN bytes THEN bytes[n] ELSE 0
           word(g) == 65536 * byte(3 * g + 1) + 256 * byte(3 * g + 2) + byte(3 * g + 3)
           part(g, j) == (word(g) \div <<262144, 4096, 64, 1>>[j + 1]) % 64
           digit(g, j) == IF j >= 2 /\ 3 * g + j > L THEN 64 ELSE part(g, j)
           text == bytesToBase64(bytes)
<1>1. L \in Nat /\ G \in Nat /\ 3 * G \in L .. L + 2 /\ DOMAIN bytes = 1 .. L
  OBVIOUS
<1>2. text = [n \in 1 .. 4 * G |-> digit((n - 1) \div 4, (n - 1) % 4)]
  BY SMT DEF bytesToBase64
<1>3. \A n \in Int : byte(n) \in 0 .. 255 /\ (n > L => byte(n) = 0)
  BY <1>1
<1>4. \A n \in 1 .. L : byte(n) = bytes[n]
  BY <1>1
<1>5. ASSUME NEW g \in Nat
      PROVE  /\ word(g) \in Nat /\ word(g) < 16777216
             /\ (word(g) \div 65536) % 256 = byte(3 * g + 1)
             /\ (word(g) \div 256) % 256 = byte(3 * g + 2)
             /\ word(g) % 256 = byte(3 * g + 3)
             /\ 3 * g + 3 > L => word(g) % 64 = 0
             /\ 3 * g + 2 > L => (word(g) \div 64) % 64 = 0
  <2> DEFINE a == byte(3 * g + 1)
             b == byte(3 * g + 2)
             c == byte(3 * g + 3)
             w == word(g)
  <2>1. a \in 0 .. 255 /\ b \in 0 .. 255 /\ c \in 0 .. 255 /\ w = 65536 * a + 256 * b + c
    BY <1>3, SMT
  <2>2. (3 * g + 3 > L => c = 0) /\ (3 * g + 2 > L => b = 0 /\ c = 0)
    BY <1>1, <1>3, SMT
  <2> HIDE DEF a, b, c, w, L
  <2>3. WordHas(Word(a, b, c), a, b, c)
    <3>1. a \in 0 .. 255 /\ b \in 0 .. 255 /\ c \in 0 .. 255
      BY <2>1, SMT
    <3> QED BY <3>1, BytesOfWord, Zenon
  <2>4. /\ w \in Nat /\ w < 16777216
        /\ (w \div 65536) % 256 = a /\ (w \div 256) % 256 = b /\ w % 256 = c
        /\ 3 * g + 3 > L => w % 64 = 0
        /\ 3 * g + 2 > L => (w \div 64) % 64 = 0
    BY <2>1, <2>2, <2>3, SMT DEF WordHas, Word
  <2> QED BY <2>4, SMT DEF a, b, c, w
<1> HIDE DEF byte
<1>6. ASSUME NEW g \in Nat
      PROVE  word(g) \in Nat /\ word(g) < 16777216
  BY <1>5, SMT
<1>7. ASSUME NEW g \in Nat
      PROVE  /\ part(g, 0) = (word(g) \div 262144) % 64
             /\ part(g, 1) = (word(g) \div 4096) % 64
             /\ part(g, 2) = (word(g) \div 64) % 64
             /\ part(g, 3) = word(g) % 64
  <2>1. word(g) \in Nat
    BY <1>5, SMT
  <2> HIDE DEF word
  <2>2. part(g, 0) = (word(g) \div 262144) % 64 /\ part(g, 1) = (word(g) \div 4096) % 64
    BY SMT
  <2>3. part(g, 2) = (word(g) \div 64) % 64 /\ part(g, 3) = (word(g) \div 1) % 64
    BY SMT
  <2>4. word(g) \div 1 = word(g)
    BY <2>1, SMT
  <2> QED BY <2>2, <2>3, <2>4, SMT
<1>8. ASSUME NEW g \in Nat, NEW j \in 0 .. 3
       PROVE  part(g, j) \in 0 .. 63
  <2>1. word(g) \in Nat
    BY <1>6, SMT
  <2> HIDE DEF word
  <2>2. <<262144, 4096, 64, 1>>[j + 1] \in Nat \ {0}
    <3>1. j = 0 \/ j = 1 \/ j = 2 \/ j = 3
      OBVIOUS
    <3> QED BY <3>1, SMT
  <2> DEFINE d == <<262144, 4096, 64, 1>>[j + 1]
             x == word(g) \div d
  <2>3. x \in Int
    <3> HIDE DEF d
    <3>1. d \in Nat \ {0}
      BY <2>2, SMT DEF d
    <3> QED BY <2>1, <3>1, SMT
  <2>4. part(g, j) = x % 64
    BY SMT
  <2> HIDE DEF x, part
  <2>5. x % 64 \in 0 .. 63
    BY <2>3, SMT
  <2> QED BY <2>4, <2>5, Zenon
<1> HIDE DEF word, part
<1>9. ASSUME NEW g \in Nat, g < G, NEW j \in 0 .. 3
      PROVE  /\ 4 * g + 1 + j \in 1 .. 4 * G
             /\ text[4 * g + 1 + j] = digit(g, j)
  <2> HIDE DEF L, G
  <2>1. 4 * g + 1 + j \in 1 .. 4 * G
    BY <1>1, <1>9
  <2>2. ((4 * g + 1 + j) - 1) \div 4 = g /\ ((4 * g + 1 + j) - 1) % 4 = j
    OBVIOUS
  <2> HIDE DEF text, digit
  <2> QED BY <2>1, <2>2, <1>2
<1> HIDE DEF text
<1>10. ASSUME NEW g \in Nat, g < G, NEW j \in 0 .. 3
      PROVE  /\ text[4 * g + 1 + j] = 64 <=> j >= 2 /\ 3 * g + j > L
             /\ text[4 * g + 1 + j] = 64 => part(g, j) = 0
             /\ text[4 * g + 1 + j] # 64 => text[4 * g + 1 + j] = part(g, j)
  <2>1. text[4 * g + 1 + j] = digit(g, j)
    BY <1>9, <1>10
  <2>2. part(g, j) \in 0 .. 63
    BY <1>8
  <2>3. j = 2 /\ 3 * g + 2 > L => part(g, 2) = 0
    BY <1>5, <1>7, SMT
  <2>4. j = 3 /\ 3 * g + 3 > L => part(g, 3) = 0
    BY <1>5, <1>7, SMT
  <2> HIDE DEF L, G
  <2>5. j \in {0, 1, 2, 3}
    OBVIOUS
  <2>6. digit(g, j) = 64 <=> j >= 2 /\ 3 * g + j > L
    <3>0. \A x \in 0 .. 63 : x # 64
      OBVIOUS
    <3>1. part(g, j) # 64
      BY <2>2, <3>0, Zenon
    <3>2. CASE j >= 2 /\ 3 * g + j > L
      BY <3>2
    <3>3. CASE ~(j >= 2 /\ 3 * g + j > L)
      BY <3>1, <3>3
    <3> QED BY <3>2, <3>3
  <2>7. j >= 2 /\ 3 * g + j > L => part(g, j) = 0
    BY <2>3, <2>4, <2>5
  <2> QED BY <2>1, <2>2, <2>6, <2>7
<1> HIDE DEF digit
<1>11. \A n \in 1 .. 4 * G : \E g \in Nat, j \in 0 .. 3 : g < G /\ n = 4 * g + 1 + j
  <2> HIDE DEF L, G
  <2> SUFFICES ASSUME NEW n \in 1 .. 4 * G
               PROVE  \E g \in Nat, j \in 0 .. 3 : g < G /\ n = 4 * g + 1 + j
    OBVIOUS
  <2>1. /\ (n - 1) \div 4 \in Nat /\ (n - 1) % 4 \in 0 .. 3
        /\ (n - 1) \div 4 < G /\ n = 4 * ((n - 1) \div 4) + 1 + ((n - 1) % 4)
    BY <1>1
  <2> QED BY <2>1
\* The signs that fill the last group.
<1> DEFINE fill == {n \in DOMAIN text : text[n] = 64}
<1>12. Cardinality(fill) = 3 * G - L
  <2>0. DOMAIN text = 1 .. 4 * G
    BY <1>2
  <2> HIDE DEF L, G
  <2>1. \A n \in 1 .. 4 * G : n \in fill <=> n > 4 * G - (3 * G - L)
    <3> SUFFICES ASSUME NEW n \in 1 .. 4 * G
                 PROVE  n \in fill <=> n > 4 * G - (3 * G - L)
      OBVIOUS
    <3>1. PICK g \in Nat, j \in 0 .. 3 : g < G /\ n = 4 * g + 1 + j
      BY <1>11
    <3>2. n \in fill <=> j >= 2 /\ 3 * g + j > L
      BY <1>10, <2>0, <3>1
    <3>3. j >= 2 /\ 3 * g + j > L <=> n > 4 * G - (3 * G - L)
      BY <1>1, <3>1
    <3> QED BY <3>2, <3>3
  <2>2. fill = (4 * G - (3 * G - L) + 1) .. 4 * G
    <3>1. fill \subseteq 1 .. 4 * G
      BY <2>0
    <3>2. 3 * G - L \in 0 .. 2 /\ 4 * G - (3 * G - L) >= 0
      BY <1>1
    <3> DEFINE m == 4 * G - (3 * G - L)
               N == 4 * G
    <3>3. m \in Nat /\ N \in Nat
      BY <1>1, <3>2
    <3>4. fill \subseteq 1 .. N /\ \A n \in 1 .. N : n \in fill <=> n > m
      BY <2>1, <3>1
    <3> HIDE DEF fill, m, N
    <3>5. ASSUME NEW n \in fill PROVE n \in (m + 1) .. N
      BY <3>3, <3>4
    <3>6. ASSUME NEW n \in (m + 1) .. N PROVE n \in fill
      <4>1. n \in 1 .. N /\ n > m
        BY <3>3
      <4> QED BY <3>4, <4>1
    <3>7. fill = (m + 1) .. N
      BY <3>5, <3>6, Zenon
    <3> QED BY <3>7 DEF m, N
  <2>3. Cardinality((4 * G - (3 * G - L) + 1) .. 4 * G) = 3 * G - L
    <3>1. 4 * G - (3 * G - L) + 1 \in Int /\ 4 * G \in Int
      BY <1>1
    <3> DEFINE a == 4 * G - (3 * G - L) + 1
               b == 4 * G
    <3>2. IsFiniteSet(a .. b) /\ Cardinality(a .. b) = IF a > b THEN 0 ELSE b - a + 1
      <4> HIDE DEF a, b
      <4>1. a \in Int /\ b \in Int
        BY <3>1 DEF a, b
      <4> QED BY <4>1, FS_Interval
    <3>3. (IF a > b THEN 0 ELSE b - a + 1) = 3 * G - L
      BY <1>1
    <3> QED BY <3>2, <3>3
  <2> QED BY <2>2, <2>3
<1> DEFINE sign(n) == IF text[n] = 64 THEN 0 ELSE text[n]
           again(g) == 262144 * sign(4 * g + 1) + 4096 * sign(4 * g + 2)
                         + 64 * sign(4 * g + 3) + sign(4 * g + 4)
           back(g, j) == (again(g) \div <<65536, 256, 1>>[j + 1]) % 256
<1>13. ASSUME NEW g \in Nat, g < G
       PROVE  again(g) = word(g)
  <2>1. \A j \in 0 .. 3 : sign(4 * g + 1 + j) = part(g, j)
    BY <1>10, <1>13
  <2>2. 4 * g + 1 + 0 = 4 * g + 1 /\ 4 * g + 1 + 1 = 4 * g + 2 /\ 4 * g + 1 + 2 = 4 * g + 3
        /\ 4 * g + 1 + 3 = 4 * g + 4
    OBVIOUS
  <2> HIDE DEF sign
  <2>3. /\ sign(4 * g + 1) = part(g, 0) /\ sign(4 * g + 2) = part(g, 1)
        /\ sign(4 * g + 3) = part(g, 2) /\ sign(4 * g + 4) = part(g, 3)
    BY <2>1, <2>2
  <2>4. word(g) = 262144 * part(g, 0) + 4096 * part(g, 1) + 64 * part(g, 2) + part(g, 3)
    <3> DEFINE w == word(g)
    <3>1. w \in Nat /\ w < 16777216
      BY <1>6, SMT
    <3>2. /\ part(g, 0) = (w \div 262144) % 64 /\ part(g, 1) = (w \div 4096) % 64
          /\ part(g, 2) = (w \div 64) % 64 /\ part(g, 3) = w % 64
      BY <1>7, SMT
    <3> HIDE DEF w
    <3>3. w = 262144 * ((w \div 262144) % 64) + 4096 * ((w \div 4096) % 64)
                + 64 * ((w \div 64) % 64) + (w % 64)
      BY <3>1, WordOfDigits, SMT
    <3>4. w = 262144 * part(g, 0) + 4096 * part(g, 1) + 64 * part(g, 2) + part(g, 3)
      BY <3>2, <3>3, SMT
    <3> QED BY <3>4, SMT DEF w
  <2> QED BY <2>3, <2>4, SMT
<1>14. base64ToBytes(text) =
         [n \in 1 .. 3 * (Len(text) \div 4) - Cardinality(fill) |-> back((n - 1) \div 3, (n - 1) % 3)]
  BY SMT DEF base64ToBytes
<1>15. 3 * (Len(text) \div 4) - Cardinality(fill) = L
  <2>1. Len(text) = 4 * G
    <3> HIDE DEF L, G
    <3> QED BY <1>1, <1>2
  <2> HIDE DEF L, G, fill
  <2> QED BY <1>1, <1>12, <2>1
<1>16. ASSUME NEW n \in 1 .. L
       PROVE  back((n - 1) \div 3, (n - 1) % 3) = bytes[n]
  <2> DEFINE g == (n - 1) \div 3
             j == (n - 1) % 3
  <2>1. n = 3 * g + 1 + j /\ g \in Nat /\ j \in {0, 1, 2} /\ g < G
    BY <1>1
  <2>2. again(g) = word(g)
    BY <1>13, <2>1
  <2>3. byte(n) = bytes[n]
    BY <1>4
  <2> HIDE DEF again, g, j, L, G
  <2>4. /\ <<65536, 256, 1>>[0 + 1] = 65536 /\ <<65536, 256, 1>>[1 + 1] = 256
        /\ <<65536, 256, 1>>[2 + 1] = 1
    BY SMT
  <2>5. /\ (word(g) \div 65536) % 256 = byte(3 * g + 1)
        /\ (word(g) \div 256) % 256 = byte(3 * g + 2)
        /\ (word(g) \div 1) % 256 = byte(3 * g + 3)
    <3>1. word(g) \in Nat
      BY <1>5, <2>1, SMT
    <3>2. word(g) \div 1 = word(g)
      BY <3>1, SMT
    <3> QED BY <1>5, <2>1, <3>2, SMT
  <2>6. 3 * g + 1 + 0 = 3 * g + 1 /\ 3 * g + 1 + 1 = 3 * g + 2 /\ 3 * g + 1 + 2 = 3 * g + 3
    BY <2>1
  <2>7. ASSUME j = 0 PROVE back(g, j) = bytes[n]
    BY <2>1, <2>2, <2>3, <2>4, <2>5, <2>6, <2>7, SMT
  <2>8. ASSUME j = 1 PROVE back(g, j) = bytes[n]
    BY <2>1, <2>2, <2>3, <2>4, <2>5, <2>6, <2>8, SMT
  <2>9. ASSUME j = 2 PROVE back(g, j) = bytes[n]
    BY <2>1, <2>2, <2>3, <2>4, <2>5, <2>6, <2>9, SMT
  <2>10. back(g, j) = bytes[n]
    BY <2>1, <2>7, <2>8, <2>9
  <2> QED BY <2>10 DEF g, j
<1>17. bytes = [n \in 1 .. L |-> bytes[n]]
  BY <1>1
<1> HIDE DEF back, fill, L
<1> QED BY <1>14, <1>15, <1>16, <1>17 DEF text

-----------------------------------------------------------------------------
(* Recursive functions                                                     *)

\* A function that has c at m, and each value after it by a step from the one before.
Iterated(f, c, step, m, n) ==
    \A i \in m .. n : f[i] = IF i = m THEN c ELSE step[<<f[i - 1], i>>]

\* There is one.
LEMMA Iterates ==
    ASSUME NEW S, NEW m \in Nat, NEW c \in S, NEW step \in [S \X Nat -> S]
    PROVE  \A n \in Nat : \E f \in [m .. m + n -> S] : Iterated(f, c, step, m, m + n)
<1> DEFINE Follows(f, n) == \A i \in m .. m + n : f[i] = IF i = m THEN c ELSE step[<<f[i - 1], i>>]
           T == {n \in Nat : \E f \in [m .. m + n -> S] : Follows(f, n)}
<1>1. 0 \in T
  <2> DEFINE f == [i \in m .. m + 0 |-> c]
  <2>1. f \in [m .. m + 0 -> S] /\ Follows(f, 0)
    OBVIOUS
  <2> HIDE DEF f, Follows
  <2> QED BY <2>1
<1>2. ASSUME NEW n \in Nat, n \in T
      PROVE  n + 1 \in T
  <2>1. PICK f \in [m .. m + n -> S] : Follows(f, n)
    BY <1>2
  <2> DEFINE g == [i \in m .. m + (n + 1) |-> IF i = m + n + 1 THEN step[<<f[m + n], i>>] ELSE f[i]]
  <2>2. /\ m + n \in m .. m + n /\ m + n \in m .. m + (n + 1)
        /\ \A i \in m .. m + (n + 1) : i = m + n + 1 \/ i \in m .. m + n
        /\ \A i \in m .. m + n : i \in m .. m + (n + 1) /\ i # m + n + 1
        /\ \A i \in m .. m + n : i # m => i - 1 \in m .. m + n
    OBVIOUS
  <2>3. f[m + n] \in S /\ <<f[m + n], m + n + 1>> \in S \X Nat
    BY <2>2
  <2>4. \A i \in m .. m + n : g[i] = f[i]
    BY <2>2
  <2>5. m + n + 1 \in m .. m + (n + 1) /\ g[m + n + 1] = step[<<f[m + n], m + n + 1>>]
    OBVIOUS
  <2>6. g \in [m .. m + (n + 1) -> S]
    BY <2>2, <2>3
  <2> HIDE DEF g
  <2>7. ASSUME NEW i \in m .. m + (n + 1)
        PROVE  g[i] = IF i = m THEN c ELSE step[<<g[i - 1], i>>]
    <3>1. CASE i = m + n + 1
      <4>1. i # m /\ i - 1 = m + n
        BY <3>1
      <4> QED BY <2>2, <2>4, <2>5, <3>1, <4>1
    <3>2. CASE i \in m .. m + n
      <4>1. f[i] = IF i = m THEN c ELSE step[<<f[i - 1], i>>]
        BY <2>1, <3>2
      <4> QED BY <2>2, <2>4, <3>2, <4>1
    <3> QED BY <2>2, <3>1, <3>2
  <2>8. Follows(g, n + 1)
    BY <2>7
  <2> HIDE DEF Follows
  <2> QED BY <2>6, <2>8
<1>3. \A n \in Nat : n \in T
  <2> HIDE DEF T
  <2> QED BY <1>1, <1>2, SetInduction
<1> QED BY <1>3 DEF Iterated

-----------------------------------------------------------------------------
(* Chunks                                                                  *)

\* The function of concat's recursion: what the first i chunks come to.
Flattening(seqs) ==
    CHOOSE f : f = [i \in 1 .. Len(seqs) |-> IF i = 1 THEN seqs[i] ELSE f[i - 1] \o seqs[i]]

Flattens(f, seqs, n) ==
    \A i \in 1 .. n : f[i] = IF i = 1 THEN seqs[i] ELSE f[i - 1] \o seqs[i]

LEMMA ConcatByFlattening ==
    ASSUME NEW seqs
    PROVE  concat(seqs) = IF Len(seqs) = 0 THEN seqs ELSE Flattening(seqs)[Len(seqs)]
BY DEF concat, FlattenSeq, Flattening

\* There is only one such function.
LEMMA FlattensOnce ==
    ASSUME NEW seqs, NEW n \in Nat, NEW f, NEW g, Flattens(f, seqs, n), Flattens(g, seqs, n)
    PROVE  \A i \in 1 .. n : f[i] = g[i]
<1> DEFINE T == {i \in Nat : i \in 1 .. n => f[i] = g[i]}
<1>1. 0 \in T
  OBVIOUS
<1>2. ASSUME NEW i \in Nat, i \in T
      PROVE  i + 1 \in T
  <2> SUFFICES ASSUME i + 1 \in 1 .. n PROVE f[i + 1] = g[i + 1]
    OBVIOUS
  <2>1. /\ f[i + 1] = IF i + 1 = 1 THEN seqs[i + 1] ELSE f[i] \o seqs[i + 1]
        /\ g[i + 1] = IF i + 1 = 1 THEN seqs[i + 1] ELSE g[i] \o seqs[i + 1]
    <3>1. (i + 1) - 1 = i
      OBVIOUS
    <3> QED BY <3>1 DEF Flattens
  <2>2. i + 1 # 1 => f[i] = g[i]
    BY <1>2
  <2> QED BY <2>1, <2>2
<1>3. \A i \in Nat : i \in T
  <2> HIDE DEF T
  <2> QED BY <1>1, <1>2, SetInduction
<1> QED BY <1>3

LEMMA FlatteningExists ==
    ASSUME NEW S, NEW seqs \in Seq(Seq(S)), Len(seqs) > 0
    PROVE  /\ Flattening(seqs) \in [1 .. Len(seqs) -> Seq(S)]
           /\ Flattens(Flattening(seqs), seqs, Len(seqs))
<1> DEFINE n == Len(seqs)
           step == [x \in Seq(S) \X Nat |-> IF x[2] \in 1 .. n THEN x[1] \o seqs[x[2]] ELSE <<>>]
           Body(f) == [i \in 1 .. n |-> IF i = 1 THEN seqs[i] ELSE f[i - 1] \o seqs[i]]
<1>1. n \in Nat /\ n > 0 /\ \A i \in 1 .. n : seqs[i] \in Seq(S)
  OBVIOUS
<1>2. step \in [Seq(S) \X Nat -> Seq(S)]
  <2> HIDE DEF n
  <2> SUFFICES ASSUME NEW x \in Seq(S) \X Nat
               PROVE  (IF x[2] \in 1 .. n THEN x[1] \o seqs[x[2]] ELSE <<>>) \in Seq(S)
    OBVIOUS
  <2>1. x[1] \in Seq(S)
    OBVIOUS
  <2>2. x[2] \in 1 .. n => x[1] \o seqs[x[2]] \in Seq(S)
    BY <1>1, <2>1, ConcatProperties
  <2>3. <<>> \in Seq(S)
    OBVIOUS
  <2> QED BY <2>2, <2>3
<1>3. PICK f \in [1 .. 1 + (n - 1) -> Seq(S)] :
         \A i \in 1 .. 1 + (n - 1) : f[i] = IF i = 1 THEN seqs[1] ELSE step[<<f[i - 1], i>>]
  <2> HIDE DEF n, step
  <2>1. 1 \in Nat /\ n - 1 \in Nat /\ seqs[1] \in Seq(S)
    BY <1>1
  <2>2. \A k \in Nat : \E f \in [1 .. 1 + k -> Seq(S)] : Iterated(f, seqs[1], step, 1, 1 + k)
    BY <1>2, <2>1, Iterates, Zenon
  <2>3. \E f \in [1 .. 1 + (n - 1) -> Seq(S)] : Iterated(f, seqs[1], step, 1, 1 + (n - 1))
    BY <2>1, <2>2
  <2> QED BY <2>3 DEF Iterated
<1> HIDE DEF n
<1>4. f \in [1 .. n -> Seq(S)] /\ 1 + (n - 1) = n
  BY <1>1, <1>3
<1>5. ASSUME NEW i \in 1 .. n
      PROVE  f[i] = IF i = 1 THEN seqs[i] ELSE f[i - 1] \o seqs[i]
  <2>1. f[i] = IF i = 1 THEN seqs[1] ELSE step[<<f[i - 1], i>>]
    BY <1>3, <1>4
  <2>2. ASSUME i # 1
        PROVE  step[<<f[i - 1], i>>] = f[i - 1] \o seqs[i]
    <3>1. i - 1 \in 1 .. n /\ i \in Nat
      BY <1>1, <2>2
    <3>2. f[i - 1] \in Seq(S)
      BY <1>4, <3>1
    <3> QED BY <3>1, <3>2
  <2> HIDE DEF step
  <2> QED BY <2>1, <2>2
<1>6. f = Body(f)
  BY <1>4, <1>5
<1>7. Flattening(seqs) = CHOOSE g : g = Body(g)
  BY DEF Flattening, n
<1>8. Flattening(seqs) = Body(Flattening(seqs))
  <2> HIDE DEF Body
  <2> QED BY <1>6, <1>7
<1> DEFINE g == Flattening(seqs)
<1>9. g = Body(g)
  BY <1>8
<1> HIDE DEF g
<1>10. Flattens(f, seqs, n) /\ Flattens(g, seqs, n)
  BY <1>5, <1>9 DEF Flattens
<1>11. \A i \in 1 .. n : f[i] = g[i]
  BY <1>1, <1>10, FlattensOnce
<1>12. g \in [1 .. n -> Seq(S)]
  <2>1. g = [i \in 1 .. n |-> g[i]]
    BY <1>9
  <2>2. \A i \in 1 .. n : g[i] \in Seq(S)
    BY <1>4, <1>11
  <2> QED BY <2>1, <2>2
<1> QED BY <1>10, <1>12 DEF g, n

\* What the chunks come to is what the function has at their number.
LEMMA ConcatIs ==
    ASSUME NEW S, NEW seqs \in Seq(Seq(S)), NEW f, Flattens(f, seqs, Len(seqs))
    PROVE  concat(seqs) = IF Len(seqs) = 0 THEN <<>> ELSE f[Len(seqs)]
<1>1. CASE Len(seqs) = 0
  <2>1. seqs = <<>>
    BY <1>1
  <2> QED BY <1>1, <2>1, ConcatByFlattening
<1>2. CASE Len(seqs) # 0
  <2>1. Len(seqs) \in Nat /\ Len(seqs) > 0 /\ Len(seqs) \in 1 .. Len(seqs)
    BY <1>2
  <2>2. Flattens(Flattening(seqs), seqs, Len(seqs))
    BY <2>1, FlatteningExists
  <2>3. Flattening(seqs)[Len(seqs)] = f[Len(seqs)]
    BY <2>1, <2>2, FlattensOnce
  <2> QED BY <1>2, <2>3, ConcatByFlattening
<1> QED BY <1>1, <1>2

\* The first chunks come to no more than all of them, and all of them to all.
LEMMA ConcatOfPrefix ==
    ASSUME NEW S, NEW seqs \in Seq(Seq(S)), NEW k \in 0 .. Len(seqs)
    PROVE  /\ concat(SubSeq(seqs, 1, k)) \in Seq(S)
           /\ Len(concat(SubSeq(seqs, 1, k))) <= Len(concat(seqs))
           /\ concat(SubSeq(seqs, 1, Len(seqs))) = concat(seqs)
           /\ concat(seqs) \in Seq(S)
<1> DEFINE n == Len(seqs)
           f == Flattening(seqs)
           part == SubSeq(seqs, 1, k)
<1>1. n \in Nat /\ k \in 0 .. n /\ SubSeq(seqs, 1, n) = seqs
  BY SubSeqFull
<1>2. /\ part \in Seq(Seq(S)) /\ Len(part) = k
      /\ \A i \in 1 .. k : part[i] = seqs[i]
  BY <1>1
<1>3. CASE n = 0
  <2>1. k = 0 /\ seqs = <<>> /\ part = <<>>
    BY <1>1, <1>2, <1>3
  <2>2. concat(<<>>) = <<>>
    BY ConcatByFlattening
  <2>3. <<>> \in Seq(S) /\ Len(<<>>) <= Len(<<>>)
    OBVIOUS
  <2> QED BY <1>1, <2>1, <2>2, <2>3
<1>4. CASE n # 0
  <2>1. f \in [1 .. n -> Seq(S)] /\ Flattens(f, seqs, n)
    BY <1>1, <1>4, FlatteningExists
  <2> HIDE DEF n, f, part
  <2>2. Flattens(f, part, k)
    <3> SUFFICES ASSUME NEW i \in 1 .. k
                 PROVE  f[i] = IF i = 1 THEN part[i] ELSE f[i - 1] \o part[i]
      BY DEF Flattens
    <3>1. i \in 1 .. n /\ part[i] = seqs[i]
      BY <1>1, <1>2
    <3>2. f[i] = IF i = 1 THEN seqs[i] ELSE f[i - 1] \o seqs[i]
      BY <2>1, <3>1 DEF Flattens
    <3> QED BY <3>1, <3>2
  <2>3. concat(part) = IF k = 0 THEN <<>> ELSE f[k]
    BY <1>2, <2>2, ConcatIs
  <2>4. concat(seqs) = f[n]
    <3>1. concat(seqs) = IF Len(seqs) = 0 THEN <<>> ELSE f[Len(seqs)]
      BY <2>1, ConcatIs DEF n
    <3> QED BY <1>4, <3>1 DEF n
  <2>5. \A i \in 1 .. n : f[i] \in Seq(S) /\ Len(f[i]) \in Nat
    BY <2>1
  <2> DEFINE T == {d \in Nat : n - d \in 1 .. n => Len(f[n - d]) <= Len(f[n])}
  <2>6. 0 \in T
    <3>1. n - 0 = n /\ n \in 1 .. n
      BY <1>1, <1>4
    <3> QED BY <2>5, <3>1
  <2>7. ASSUME NEW d \in Nat, d \in T
        PROVE  d + 1 \in T
    <3> SUFFICES ASSUME n - (d + 1) \in 1 .. n PROVE Len(f[n - (d + 1)]) <= Len(f[n])
      OBVIOUS
    <3> DEFINE i == n - d
    <3>1. i \in 1 .. n /\ i - 1 \in 1 .. n /\ i # 1 /\ n - (d + 1) = i - 1 /\ n \in 1 .. n
      BY <1>1, <1>4
    <3>2. Len(f[i]) <= Len(f[n])
      BY <2>7, <3>1
    <3> HIDE DEF i
    <3>3. f[i] = f[i - 1] \o seqs[i]
      BY <2>1, <3>1 DEF Flattens
    <3>4. f[i - 1] \in Seq(S) /\ seqs[i] \in Seq(S)
      BY <2>5, <3>1 DEF n
    <3>5. Len(f[i]) = Len(f[i - 1]) + Len(seqs[i])
      BY <3>3, <3>4, ConcatProperties
    <3>6. Len(f[i - 1]) <= Len(f[n])
      <4>1. Len(f[i]) \in Nat /\ Len(f[i - 1]) \in Nat /\ Len(f[n]) \in Nat /\ Len(seqs[i]) \in Nat
        BY <2>5, <3>1, <3>4
      <4> DEFINE a == Len(f[i])
                 b == Len(f[i - 1])
                 c == Len(f[n])
                 e == Len(seqs[i])
      <4>2. a \in Nat /\ b \in Nat /\ c \in Nat /\ e \in Nat /\ a <= c /\ a = b + e
        BY <3>2, <3>5, <4>1
      <4> HIDE DEF a, b, c, e
      <4>3. b <= c
        BY <4>2
      <4> QED BY <4>3 DEF b, c
    <3> QED BY <3>1, <3>6
  <2>8. \A d \in Nat : d \in T
    <3> HIDE DEF T
    <3> QED BY <2>6, <2>7, SetInduction
  <2>9. k # 0 => Len(f[k]) <= Len(f[n])
    <3>1. k # 0 => n - k \in Nat /\ n - (n - k) = k /\ k \in 1 .. n
      BY <1>1
    <3> QED BY <2>8, <3>1
  <2>10. Len(<<>>) <= Len(f[n]) /\ <<>> \in Seq(S) /\ f[n] \in Seq(S) /\ (k # 0 => f[k] \in Seq(S))
    <3>1. n \in 1 .. n /\ (k # 0 => k \in 1 .. n)
      BY <1>1, <1>4
    <3> QED BY <2>5, <3>1
  <2>11. /\ concat(part) \in Seq(S) /\ Len(concat(part)) <= Len(concat(seqs))
         /\ concat(seqs) \in Seq(S)
    BY <2>3, <2>4, <2>9, <2>10
  <2> QED BY <1>1, <2>11 DEF n, part
<1> QED BY <1>3, <1>4


\* The copy of a body is all of it, or is over the cap as the body is.
LEMMA RecordedBody ==
    ASSUME NEW S, NEW chunks \in Seq(Seq(S)), NEW cap \in Nat
    PROVE  /\ concat(Recorded(chunks, cap)) \in Seq(S)
           /\ Len(concat(chunks)) <= cap => concat(Recorded(chunks, cap)) = concat(chunks)
           /\ Len(concat(chunks)) > cap => Len(concat(Recorded(chunks, cap))) > cap
<1> DEFINE n == Len(chunks)
           large(i) == Len(concat(SubSeq(chunks, 1, i))) > cap
           kept == {i \in 0 .. n : i < n => large(i)}
           at == CHOOSE i \in kept : \A j \in kept : i <= j
<1>1. n \in Nat
  OBVIOUS
<1>2. Recorded(chunks, cap) = SubSeq(chunks, 1, at)
  BY DEF Recorded
<1>3. at \in 0 .. n /\ (at < n => large(at))
  <2>1. kept \in SUBSET Nat /\ n \in kept
    BY <1>1
  <2>2. \E i \in kept : \A j \in kept : i <= j
    <3> HIDE DEF kept
    <3> QED BY <2>1, LeastNat
  <2>3. at \in kept
    BY <2>2
  <2> HIDE DEF at
  <2> QED BY <2>3
<1> HIDE DEF at
<1>4. /\ concat(SubSeq(chunks, 1, at)) \in Seq(S)
      /\ Len(concat(SubSeq(chunks, 1, at))) <= Len(concat(chunks))
      /\ concat(SubSeq(chunks, 1, n)) = concat(chunks)
      /\ concat(chunks) \in Seq(S)
  BY <1>3, ConcatOfPrefix
<1> DEFINE a == Len(concat(SubSeq(chunks, 1, at)))
           b == Len(concat(chunks))
<1>5. a \in Nat /\ b \in Nat /\ a <= b /\ (at < n => a > cap)
  BY <1>3, <1>4
<1>6. at # n => at < n
  BY <1>1, <1>3
<1>7. at = n => concat(SubSeq(chunks, 1, at)) = concat(chunks) /\ a = b
  BY <1>4
<1> HIDE DEF a, b, n
<1>8. b <= cap => at = n
  BY <1>5, <1>6
<1>9. b > cap => a > cap
  BY <1>5, <1>6, <1>7
<1> QED BY <1>2, <1>4, <1>7, <1>8, <1>9 DEF a, b

\* Responses of all handlers: no body under a status that has none.
Responses(Fields) ==
    [status : Nat, headers : SUBSET Fields]
      \cup {res \in [status : Nat, headers : SUBSET Fields, body : Seq(Seq(0 .. 255))] :
              res.status \notin NULL_BODY_STATUS}

\* What a capture has of a response.
LEMMA CapturedBody ==
    ASSUME NEW Fields, NEW res \in Responses(Fields), NEW allow, NEW cap \in Nat
    PROVE  LET result == captureResponse(res, allow, cap) IN
           /\ result = [ kind |-> "http", status |-> res.status,
                         headers |-> storedHeaders(res.headers, allow), body |-> result.body ]
           /\ result.body \in Seq(0 .. 255)
           /\ result.body # <<>> => res.status \notin NULL_BODY_STATUS
           /\ BytesSent(res) \in Seq(0 .. 255)
           /\ Len(BytesSent(res)) <= cap => result.body = BytesSent(res)
           /\ Len(BytesSent(res)) > cap => Len(result.body) > cap
<1> DEFINE result == captureResponse(res, allow, cap)
<1>1. /\ result = [ kind |-> "http", status |-> res.status,
                    headers |-> storedHeaders(res.headers, allow), body |-> result.body ]
      /\ result.body = IF "body" \notin DOMAIN res \/ res.status \in NULL_BODY_STATUS THEN <<>>
                       ELSE concat(Recorded(res.body, cap))
  BY DEF captureResponse
<1>2. BytesSent(res) = IF "body" \in DOMAIN res THEN concat(res.body) ELSE <<>>
  BY DEF BytesSent, concat
<1> HIDE DEF result
<1>3. CASE "body" \in DOMAIN res
  <2>1. res.body \in Seq(Seq(0 .. 255)) /\ res.status \notin NULL_BODY_STATUS
    BY <1>3 DEF Responses
  <2>2. result.body = concat(Recorded(res.body, cap)) /\ BytesSent(res) = concat(res.body)
    BY <1>1, <1>2, <1>3, <2>1
  <2>3. Len(res.body) \in 0 .. Len(res.body)
    BY <2>1
  <2>4. concat(res.body) \in Seq(0 .. 255)
    BY <2>1, <2>3, ConcatOfPrefix
  <2>5. /\ concat(Recorded(res.body, cap)) \in Seq(0 .. 255)
        /\ Len(concat(res.body)) <= cap => concat(Recorded(res.body, cap)) = concat(res.body)
        /\ Len(concat(res.body)) > cap => Len(concat(Recorded(res.body, cap))) > cap
    BY <2>1, RecordedBody
  <2> QED BY <1>1, <2>1, <2>2, <2>4, <2>5 DEF result
<1>4. CASE "body" \notin DOMAIN res
  <2>1. result.body = <<>> /\ BytesSent(res) = <<>>
    BY <1>1, <1>2, <1>4
  <2>2. <<>> \in Seq(0 .. 255) /\ ~(Len(<<>>) > cap)
    OBVIOUS
  <2> QED BY <1>1, <2>1, <2>2 DEF result
<1> QED BY <1>3, <1>4


\* What Members makes of a record.
LEMMA MembersHas ==
    ASSUME NEW r, NEW ms
    PROVE  /\ DOMAIN Members(r, ms) = DOMAIN r \cap ms
           /\ \A n \in DOMAIN r \cap ms : Members(r, ms)[n] = r[n]
BY DEF Members

\* The results of a capture.
IsResult(result) ==
    /\ DOMAIN result = {"kind", "status", "headers", "body"}
    /\ result.body \in Seq(0 .. 255)

\* What omitBody leaves.
LEMMA OmittedHas ==
    ASSUME NEW result, IsResult(result)
    PROVE  /\ DOMAIN omitBody(result) = {"kind", "status", "headers", "omitted"}
           /\ omitBody(result).status = result.status
           /\ omitBody(result).headers = result.headers
<1> DEFINE r == Members(result, {"kind", "status", "headers"})
           w == With(r, "omitted", TRUE)
<1>1. DOMAIN r = DOMAIN result \cap {"kind", "status", "headers"}
  BY MembersHas
<1>2. DOMAIN r = {"kind", "status", "headers"}
  BY <1>1 DEF IsResult
<1>3. r["status"] = result["status"] /\ r["headers"] = result["headers"]
  BY MembersHas DEF IsResult
<1> HIDE DEF r
<1>4. /\ DOMAIN w = DOMAIN r \cup {"omitted"}
      /\ \A n \in DOMAIN r : n # "omitted" => w[n] = r[n]
  BY DEF With
<1> HIDE DEF w
<1>5. DOMAIN w = {"kind", "status", "headers", "omitted"}
  BY <1>2, <1>4
<1>6. w["status"] = r["status"] /\ w["headers"] = r["headers"]
  BY <1>2, <1>4
<1>7. omitBody(result) = w
  BY DEF omitBody, w, r
<1> QED BY <1>3, <1>5, <1>6, <1>7

\* The texts of base64 are made of groups of four, which the dash is not.
LEMMA Base64HasNoDash ==
    ASSUME NEW bytes \in Seq(0 .. 255)
    PROVE  bytesToBase64(bytes) # Dash
<1> DEFINE G == (Len(bytes) + 2) \div 3
<1>1. G \in Nat
  BY SMT
<1>2. DOMAIN bytesToBase64(bytes) = 1 .. 4 * G
  BY SMT DEF bytesToBase64
<1> HIDE DEF G
<1>3. 1 \in 1 .. 4 * G => 2 \in 1 .. 4 * G
  BY <1>1, SMT
<1>4. 1 \in DOMAIN Dash /\ 2 \notin DOMAIN Dash
  BY SMT DEF Dash
<1> QED BY <1>2, <1>3, <1>4, Zenon

\* A record that says of a result all that a replay reads.
Keeps(rec, result, omitted) ==
    /\ ("resultOmitted" \in DOMAIN rec) <=> omitted
    /\ rec.result.status = result.status
    /\ rec.result.headers = result.headers
    /\ ~omitted => "body" \in DOMAIN rec.result /\ rec.result.body = result.body

LEMMA MemoryKeepsWhole ==
    ASSUME NEW result, IsResult(result)
    PROVE  Keeps(MemoryRecord(result), result, FALSE)
<1> DEFINE fields == {"kind", "status", "headers", "body", "outcome", "error"}
           c == Members(result, fields)
           d == Members(c, fields)
           rec == [result |-> c]
           out == With(rec, "result", d)
<1>1. "omitted" \notin DOMAIN result
  BY DEF IsResult
<1>2. MemoryRecord(result) = out
  BY <1>1 DEF MemoryRecord, copyRecord, copyResult, isOmitted
<1>3. /\ DOMAIN c = DOMAIN result \cap fields
      /\ \A n \in DOMAIN result \cap fields : c[n] = result[n]
  BY DEF Members
<1>4. /\ DOMAIN d = DOMAIN c \cap fields
      /\ \A n \in DOMAIN c \cap fields : d[n] = c[n]
  BY DEF Members
<1> HIDE DEF c, d
<1>5. DOMAIN rec = {"result"}
  OBVIOUS
<1>6. DOMAIN out = DOMAIN rec \cup {"result"} /\ out["result"] = d
  BY DEF With
<1> HIDE DEF out, rec
<1>7. /\ "status" \in DOMAIN d /\ d["status"] = result["status"]
      /\ "headers" \in DOMAIN d /\ d["headers"] = result["headers"]
      /\ "body" \in DOMAIN d /\ d["body"] = result["body"]
  BY <1>3, <1>4 DEF IsResult
<1>8. "resultOmitted" \notin DOMAIN out
  BY <1>5, <1>6
<1> QED BY <1>2, <1>6, <1>7, <1>8 DEF Keeps

LEMMA MemoryKeepsOmitted ==
    ASSUME NEW result, IsResult(result)
    PROVE  Keeps(MemoryRecord(omitBody(result)), result, TRUE)
<1> DEFINE given == omitBody(result)
           c == Members(given, {"kind", "status", "headers"})
           fields == {"kind", "status", "headers", "body", "outcome", "error"}
           d == Members(c, fields)
           rec == [result |-> c, resultOmitted |-> TRUE]
           out == With(rec, "result", d)
<1>1. /\ DOMAIN given = {"kind", "status", "headers", "omitted"}
      /\ given["status"] = result["status"] /\ given["headers"] = result["headers"]
  BY OmittedHas
<1> HIDE DEF given
<1>2. MemoryRecord(given) = out
  BY <1>1 DEF MemoryRecord, copyRecord, copyResult, omittedToStored, isOmitted
<1>3. /\ DOMAIN c = DOMAIN given \cap {"kind", "status", "headers"}
      /\ \A n \in DOMAIN given \cap {"kind", "status", "headers"} : c[n] = given[n]
  BY DEF Members
<1>4. /\ DOMAIN d = DOMAIN c \cap fields
      /\ \A n \in DOMAIN c \cap fields : d[n] = c[n]
  BY DEF Members
<1> HIDE DEF c, d
<1>5. DOMAIN rec = {"result", "resultOmitted"}
  OBVIOUS
<1>6. DOMAIN out = DOMAIN rec \cup {"result"} /\ out["result"] = d
  BY DEF With
<1> HIDE DEF out, rec
<1>7. d["status"] = result["status"] /\ d["headers"] = result["headers"]
  BY <1>1, <1>3, <1>4
<1>8. "resultOmitted" \in DOMAIN out
  BY <1>5, <1>6
<1> QED BY <1>2, <1>6, <1>7, <1>8 DEF Keeps, given

\* The columns of the other stores: what they are given of the body is what they
\* hand out, base64 in between or not.
LEMMA BodyComesBack ==
    ASSUME NEW result, IsResult(result), NEW store
    PROVE  RowOfResult(store, result).result_body = <<result.body>>
<1>1. "body" \in DOMAIN result /\ "omitted" \notin DOMAIN result
  BY DEF IsResult
<1>2. BodyColumn(result) = <<result.body>>
  BY <1>1 DEF BodyColumn, isOmitted
<1>3. RedisBody(result) = <<result.body>>
  <2> DEFINE text == bytesToBase64(result.body)
  <2>1. base64ToBytes(text) = result.body
    BY Base64RoundTrip DEF IsResult
  <2>2. text # Dash
    BY Base64HasNoDash DEF IsResult
  <2>3. Head(BodyColumn(result)) = result.body /\ BodyColumn(result) # <<>>
    BY <1>2
  <2> HIDE DEF text
  <2> DEFINE field == <<text>>
  <2>4. RedisBody(result) = [n \in DOMAIN field |-> base64ToBytes(field[n])]
    BY <2>2, <2>3 DEF RedisBody, text
  <2>5. DOMAIN field = {1} /\ field[1] = text
    OBVIOUS
  <2> HIDE DEF field
  <2>6. RedisBody(result) = [n \in {1} |-> result.body]
    BY <2>1, <2>4, <2>5
  <2>7. <<result.body>> = [n \in {1} |-> result.body]
    OBVIOUS
  <2> QED BY <2>6, <2>7
<1> QED BY <1>2, <1>3 DEF RowOfResult


\* The first column has all members but the body.
LEMMA MetaComesBack ==
    ASSUME NEW result
    PROVE  LET meta == decodeResultMeta(encodeResultMeta(result))
               fields == {"kind", "status", "headers", "outcome", "error"}
           IN  /\ DOMAIN meta = DOMAIN result \cap fields
               /\ \A n \in DOMAIN result \cap fields : meta[n] = result[n]
<1> DEFINE fields == {"kind", "status", "headers", "outcome", "error"}
           c == Members(result, fields)
           d == Members(c, fields)
<1>1. decodeResultMeta(encodeResultMeta(result)) = d
  BY DEF decodeResultMeta, encodeResultMeta
<1>2. DOMAIN c = DOMAIN result \cap fields /\ \A n \in DOMAIN result \cap fields : c[n] = result[n]
  BY DEF Members
<1>3. DOMAIN d = DOMAIN c \cap fields /\ \A n \in DOMAIN c \cap fields : d[n] = c[n]
  BY DEF Members
<1> HIDE DEF fields, c, d
<1>4. DOMAIN d = DOMAIN result \cap fields
  BY <1>2, <1>3
<1>5. \A n \in DOMAIN result \cap fields : d[n] = result[n]
  BY <1>2, <1>3
<1> QED BY <1>1, <1>4, <1>5 DEF fields

LEMMA RowKeepsWhole ==
    ASSUME NEW result, IsResult(result), NEW store
    PROVE  Keeps(rowToRecord(RowOfResult(store, result)), result, FALSE)
<1> DEFINE row == RowOfResult(store, result)
           meta == decodeResultMeta(encodeResultMeta(result))
           body == With(meta, "body", result.body)
<1>1. row.result_body = <<result.body>>
  BY BodyComesBack
<1>2. row.result_meta = encodeResultMeta(result)
  BY DEF RowOfResult
<1>3. row.result_omitted # 1
  <2>1. "omitted" \notin DOMAIN result
    BY DEF IsResult
  <2> QED BY <2>1 DEF RowOfResult, isOmitted
<1> HIDE DEF row
<1>4. rowToRecord(row) = [result |-> body]
  <2>1. row.result_body # <<>> /\ Head(row.result_body) = result.body
    BY <1>1
  <2> QED BY <1>2, <1>3, <2>1 DEF rowToRecord
<1>5. /\ DOMAIN meta = DOMAIN result \cap {"kind", "status", "headers", "outcome", "error"}
      /\ \A n \in DOMAIN result \cap {"kind", "status", "headers", "outcome", "error"} :
            meta[n] = result[n]
  BY MetaComesBack
<1> HIDE DEF meta
<1>6. /\ DOMAIN body = DOMAIN meta \cup {"body"} /\ body["body"] = result.body
      /\ \A n \in DOMAIN meta : n # "body" => body[n] = meta[n]
  BY DEF With
<1> HIDE DEF body
<1>7. /\ "status" \in DOMAIN meta /\ meta["status"] = result["status"]
      /\ "headers" \in DOMAIN meta /\ meta["headers"] = result["headers"]
  BY <1>5 DEF IsResult
<1>8. body["status"] = result["status"] /\ body["headers"] = result["headers"]
  BY <1>6, <1>7
<1>9. "body" \in DOMAIN body
  BY <1>6
<1>10. /\ "resultOmitted" \notin DOMAIN rowToRecord(row)
       /\ rowToRecord(row).result = body
  BY <1>4
<1> QED BY <1>6, <1>8, <1>9, <1>10 DEF Keeps, row

LEMMA RowKeepsOmitted ==
    ASSUME NEW result, IsResult(result), NEW store
    PROVE  Keeps(rowToRecord(RowOfResult(store, omitBody(result))), result, TRUE)
<1> DEFINE given == omitBody(result)
           row == RowOfResult(store, given)
           meta == decodeResultMeta(encodeResultMeta(given))
           rec == [result |-> meta]
           out == With(rec, "resultOmitted", TRUE)
<1>1. /\ DOMAIN given = {"kind", "status", "headers", "omitted"}
      /\ given["status"] = result["status"] /\ given["headers"] = result["headers"]
  BY OmittedHas
<1> HIDE DEF given
<1>2. "omitted" \in DOMAIN given
  BY <1>1
<1>3. row.result_meta = encodeResultMeta(given) /\ row.result_omitted = 1
  BY <1>2 DEF RowOfResult, isOmitted
<1>4. row.result_body = <<>>
  <2>1. BodyColumn(given) = <<>>
    BY <1>2 DEF BodyColumn, isOmitted
  <2>2. RedisBody(given) = [n \in DOMAIN <<>> |-> base64ToBytes(<<>>[n])]
    BY <2>1 DEF RedisBody
  <2>3. RedisBody(given) = <<>>
    BY <2>2
  <2> QED BY <2>1, <2>3 DEF RowOfResult
<1> HIDE DEF row
<1>5. rowToRecord(row) = out
  BY <1>3, <1>4 DEF rowToRecord
<1>6. /\ DOMAIN meta = DOMAIN given \cap {"kind", "status", "headers", "outcome", "error"}
      /\ \A n \in DOMAIN given \cap {"kind", "status", "headers", "outcome", "error"} :
            meta[n] = given[n]
  BY MetaComesBack
<1>7. meta["status"] = result["status"] /\ meta["headers"] = result["headers"]
  <2> HIDE DEF meta
  <2> QED BY <1>1, <1>6
<1> HIDE DEF meta
<1>8. "resultOmitted" \in DOMAIN out /\ out["result"] = meta
  <2>1. DOMAIN rec = {"result"} /\ rec["result"] = meta
    OBVIOUS
  <2> HIDE DEF rec
  <2>2. /\ DOMAIN out = DOMAIN rec \cup {"resultOmitted"}
        /\ \A n \in DOMAIN rec : n # "resultOmitted" => out[n] = rec[n]
    BY DEF With
  <2> HIDE DEF out
  <2> QED BY <2>1, <2>2
<1> HIDE DEF out
<1> QED BY <1>5, <1>7, <1>8 DEF Keeps, row, given

\* Every store keeps what a replay reads.
LEMMA StoresKeep ==
    ASSUME NEW result, IsResult(result), NEW store, NEW cap
    PROVE  Keeps(RecordIn(store, Payload(result, cap)), result, Len(result.body) > cap)
<1>1. resultSize(result) = Len(result.body)
  BY DEF resultSize, IsResult
<1>2. CASE Len(result.body) > cap
  <2>1. Payload(result, cap) = omitBody(result)
    BY <1>1, <1>2 DEF Payload
  <2>2. Keeps(RecordIn(store, omitBody(result)), result, TRUE)
    BY MemoryKeepsOmitted, RowKeepsOmitted, Zenon DEF RecordIn
  <2>3. (Len(result.body) > cap) = TRUE
    BY <1>2
  <2> QED BY <2>1, <2>2, <2>3
<1>3. CASE ~(Len(result.body) > cap)
  <2>1. Payload(result, cap) = result
    BY <1>1, <1>3 DEF Payload
  <2>2. Keeps(RecordIn(store, result), result, FALSE)
    BY MemoryKeepsWhole, RowKeepsWhole, Zenon DEF RecordIn
  <2>3. (Len(result.body) > cap) = FALSE
    BY <1>3
  <2> QED BY <2>1, <2>2, <2>3
<1> QED BY <1>2, <1>3

\* The marks of a replay.
LEMMA OneField ==
    ASSUME NEW a, NEW b
    PROVE  [name : {a}, value : {b}] = {[name |-> a, value |-> b]}
<1>1. ASSUME NEW h \in [name : {a}, value : {b}] PROVE h = [name |-> a, value |-> b]
  OBVIOUS
<1>2. [name |-> a, value |-> b] \in [name : {a}, value : {b}]
  OBVIOUS
<1> QED BY <1>1, <1>2, Zenon

\* Headers after one mark, and after both.
LEMMA MarkedHeaders ==
    ASSUME NEW stored
    PROVE  LET marked == SetHeader(stored, "idempotency-replayed", "true")
               one == [name |-> "idempotency-replayed", value |-> "true"]
               two == [name |-> "idempotency-replay", value |-> "omitted"]
           IN  /\ marked = {one} \cup {h \in stored : h.name # one.name}
               /\ SetHeader(marked, "idempotency-replay", "omitted")
                    = {one, two} \cup {h \in stored : h.name # one.name /\ h.name # two.name}
<1> DEFINE one == [name |-> "idempotency-replayed", value |-> "true"]
           two == [name |-> "idempotency-replay", value |-> "omitted"]
           marked == SetHeader(stored, "idempotency-replayed", "true")
<1>1. one.name = "idempotency-replayed" /\ two.name = "idempotency-replay"
  OBVIOUS
<1>2. marked = {h \in stored : h.name # "idempotency-replayed"} \cup {one}
  BY DEF SetHeader
<1>3. SetHeader(marked, "idempotency-replay", "omitted")
        = {h \in marked : h.name # "idempotency-replay"} \cup {two}
  BY DEF SetHeader
<1> HIDE DEF marked, one, two
<1>4. marked = {one} \cup {h \in stored : h.name # one.name}
  BY <1>1, <1>2
<1>5. \A h : h \in {h2 \in marked : h2.name # two.name} \cup {two} <=>
               h \in {one, two} \cup {h2 \in stored : h2.name # one.name /\ h2.name # two.name}
  <2>1. one.name # two.name
    BY <1>1
  <2> QED BY <1>4, <2>1
<1>6. {h \in marked : h.name # two.name} \cup {two}
        = {one, two} \cup {h \in stored : h.name # one.name /\ h.name # two.name}
  BY <1>5, Zenon
<1> QED BY <1>1, <1>3, <1>4, <1>6 DEF marked, one, two

(***************************************************************************)
(* Whatever a handler answers, whichever store keeps it and whatever the   *)
(* allowlist and the cap are: a replay has the status, the headers that    *)
(* are allowed and no cookie, and every byte that the first client has,    *)
(* or, of a body over the cap, none and the mark that says so.             *)
(***************************************************************************)
THEOREM EveryReplayIsFaithful ==
    ASSUME NEW Fields, NEW res \in Responses(Fields),
           NEW store \in ReplayStores, NEW allow, NEW cap \in Nat
    PROVE  FaithfulReplay(store, res, allow, cap)
<1> DEFINE result == captureResponse(res, allow, cap)
           stored == storedHeaders(res.headers, allow)
           sent == BytesSent(res)
           whole == Len(sent) <= cap
           rec == RecordIn(store, Payload(result, cap))
           one == [name |-> "idempotency-replayed", value |-> "true"]
           two == [name |-> "idempotency-replay", value |-> "omitted"]
           marks == [name : {"idempotency-replayed"}, value : {"true"}]
                      \cup IF whole THEN {} ELSE [name : {"idempotency-replay"}, value : {"omitted"}]
<1>1. /\ result = [kind |-> "http", status |-> res.status, headers |-> stored, body |-> result.body]
      /\ result.body \in Seq(0 .. 255)
      /\ result.body # <<>> => res.status \notin NULL_BODY_STATUS
      /\ sent \in Seq(0 .. 255)
      /\ Len(sent) <= cap => result.body = sent
      /\ Len(sent) > cap => Len(result.body) > cap
  BY CapturedBody, Zenon
<1> HIDE DEF result, sent, stored
<1>2. IsResult(result) /\ result.status = res.status /\ result.headers = stored
  BY <1>1 DEF IsResult
<1>3. (Len(result.body) > cap) <=> ~whole
  BY <1>1
<1>4. Keeps(rec, result, Len(result.body) > cap)
  BY <1>2, StoresKeep
<1> HIDE DEF rec
<1>5. /\ ("resultOmitted" \in DOMAIN rec) <=> ~whole
      /\ rec.result.status = res.status
      /\ rec.result.headers = stored
      /\ whole => "body" \in DOMAIN rec.result /\ rec.result.body = sent
  BY <1>1, <1>2, <1>3, <1>4 DEF Keeps
<1> DEFINE replay == replayResponse(rec)
           marked == SetHeader(stored, "idempotency-replayed", "true")
<1>6. /\ replay.status = res.status
      /\ replay.headers = IF whole THEN marked ELSE SetHeader(marked, "idempotency-replay", "omitted")
      /\ replay.body = IF whole THEN sent ELSE <<>>
  <2>1. CASE whole
    <3>1. sent # <<>> => res.status \notin NULL_BODY_STATUS
      BY <1>1, <2>1
    <3> HIDE DEF whole
    <3> QED BY <1>5, <2>1, <3>1 DEF replayResponse
  <2>2. CASE ~whole
    <3> HIDE DEF whole
    <3> QED BY <1>5, <2>2 DEF replayResponse
  <2> QED BY <2>1, <2>2
<1> HIDE DEF replay
<1>7. marks = IF whole THEN {one} ELSE {one, two}
  <2>1. /\ [name : {"idempotency-replayed"}, value : {"true"}] = {one}
        /\ [name : {"idempotency-replay"}, value : {"omitted"}] = {two}
    BY OneField
  <2> HIDE DEF one, two, whole
  <2> QED BY <2>1
<1>8. /\ marked = {one} \cup {h \in stored : h.name # one.name}
      /\ SetHeader(marked, "idempotency-replay", "omitted")
           = {one, two} \cup {h \in stored : h.name # one.name /\ h.name # two.name}
  BY MarkedHeaders
<1> HIDE DEF marked, marks, one, two
<1>9. stored = {h \in res.headers : h.name \in allow \ {"set-cookie"}}
  BY DEF stored, storedHeaders
<1>10. replay.headers = marks \cup {h \in res.headers :
          h.name \in allow \ {"set-cookie"} /\ \A m \in marks : h.name # m.name}
  <2>1. CASE whole
    <3> HIDE DEF whole
    <3> QED BY <1>6, <1>7, <1>8, <1>9, <2>1
  <2>2. CASE ~whole
    <3> HIDE DEF whole
    <3> QED BY <1>6, <1>7, <1>8, <1>9, <2>2
  <2> QED BY <2>1, <2>2
<1> QED BY <1>6, <1>10 DEF FaithfulReplay, replay, rec, result, sent, marks

\* The handlers' responses of the model are such responses.
LEMMA ModelResponses == HandlerResponses \subseteq Responses(ReplayHeaders)
<1> SUFFICES ASSUME NEW res \in HandlerResponses PROVE res \in Responses(ReplayHeaders)
  OBVIOUS
<1> DEFINE bytes == UNION {[1 .. n -> ReplayBytes] : n \in 0 .. 2}
           bodies == UNION {[1 .. n -> bytes] : n \in 0 .. 2}
<1>1. bytes \subseteq Seq(0 .. 255)
  <2> SUFFICES ASSUME NEW n \in 0 .. 2, NEW b \in [1 .. n -> ReplayBytes]
               PROVE  b \in Seq(0 .. 255)
    OBVIOUS
  <2>1. ReplayBytes \subseteq 0 .. 255
    BY ReplayAssumption, Zenon
  <2>2. n \in Nat
    OBVIOUS
  <2>3. b \in [1 .. n -> 0 .. 255]
    BY <2>1, Zenon
  <2> QED BY <2>2, <2>3, SeqDef
<1>2. bodies \subseteq Seq(Seq(0 .. 255))
  <2> SUFFICES ASSUME NEW n \in 0 .. 2, NEW b \in [1 .. n -> bytes]
               PROVE  b \in Seq(Seq(0 .. 255))
    OBVIOUS
  <2> HIDE DEF bytes
  <2>1. n \in Nat /\ b \in [1 .. n -> Seq(0 .. 255)]
    BY <1>1
  <2> QED BY <2>1, SeqDef
<1> HIDE DEF bytes
<1>3. res \in [status : {200, 204, 404, 503}, headers : SUBSET ReplayHeaders]
               \cup [status : {200, 404, 503}, headers : SUBSET ReplayHeaders, body : bodies]
  BY DEF HandlerResponses, bytes
<1> HIDE DEF bodies
<1>4. CASE res \in [status : {200, 204, 404, 503}, headers : SUBSET ReplayHeaders]
  BY <1>4 DEF Responses
<1>5. CASE res \in [status : {200, 404, 503}, headers : SUBSET ReplayHeaders, body : bodies]
  <2>1. /\ res \in [status : Nat, headers : SUBSET ReplayHeaders, body : Seq(Seq(0 .. 255))]
        /\ res.status \in {200, 404, 503}
    BY <1>2, <1>5
  <2> QED BY <2>1 DEF Responses, NULL_BODY_STATUS
<1> QED BY <1>3, <1>4, <1>5

\* So are the responses, allowlists and caps that TLC enumerates, from every store.
THEOREM ReplaysAreFaithful == ReplaysFaithfully
<1> SUFFICES ASSUME NEW store \in ReplayStores, NEW res \in HandlerResponses,
                    NEW allow \in Allowlists, NEW cap \in ReplayCaps
             PROVE  FaithfulReplay(store, res, allow, cap)
  BY DEF ReplaysFaithfully
<1>1. res \in Responses(ReplayHeaders)
  BY ModelResponses
<1>2. cap \in Nat
  BY ReplayAssumption
<1> QED BY <1>1, <1>2, EveryReplayIsFaithful

-----------------------------------------------------------------------------
(* Header values                                                           *)

LEMMA Associates == \A a, b, c \in Seq(Chars) : (a \o b) \o c = a \o (b \o c)
BY ConcatAssociative

-----------------------------------------------------------------------------
(* Quoted keys                                                             *)

Escaped(c) == IF c \in {"quote", "backslash"} THEN <<"backslash", c>> ELSE <<c>>

LEMMA EscapedTyped ==
    ASSUME NEW c \in Chars
    PROVE  Escaped(c) \in Seq(Chars)
<1>1. "backslash" \in Chars
  BY DEF Chars
<1> HIDE DEF Chars
<1> QED BY <1>1 DEF Escaped

\* What the first characters of a key are written as.
Spells(f, key) ==
    /\ f \in [0 .. Len(key) -> Seq(Chars)]
    /\ f[0] = <<>>
    /\ \A n \in 1 .. Len(key) : f[n] = f[n - 1] \o Escaped(key[n])

LEMMA SpellsOnce ==
    ASSUME NEW key \in Seq(Chars), NEW f, NEW g, Spells(f, key), Spells(g, key)
    PROVE  f = g
<1> DEFINE T == {i \in Nat : i \in 0 .. Len(key) => f[i] = g[i]}
<1>1. 0 \in T
  BY DEF Spells
<1>2. ASSUME NEW i \in Nat, i \in T
      PROVE  i + 1 \in T
  <2> SUFFICES ASSUME i + 1 \in 0 .. Len(key) PROVE f[i + 1] = g[i + 1]
    OBVIOUS
  <2>1. i + 1 \in 1 .. Len(key) /\ i \in 0 .. Len(key) /\ (i + 1) - 1 = i
    OBVIOUS
  <2>2. f[i + 1] = f[i] \o Escaped(key[i + 1]) /\ g[i + 1] = g[i] \o Escaped(key[i + 1])
    BY <2>1 DEF Spells
  <2> QED BY <1>2, <2>1, <2>2
<1>3. \A i \in Nat : i \in T
  <2> HIDE DEF T
  <2> QED BY <1>1, <1>2, SetInduction
<1>4. \A i \in 0 .. Len(key) : f[i] = g[i]
  BY <1>3
<1> QED BY <1>4 DEF Spells

LEMMA SpellsExists ==
    ASSUME NEW key \in Seq(Chars)
    PROVE  \E f : Spells(f, key)
<1> DEFINE n == Len(key)
           step == [x \in Seq(Chars) \X Nat |->
                      IF x[2] \in 1 .. n THEN x[1] \o Escaped(key[x[2]]) ELSE <<>>]
<1>1. n \in Nat /\ \A i \in 1 .. n : key[i] \in Chars
  OBVIOUS
<1>2. step \in [Seq(Chars) \X Nat -> Seq(Chars)]
  <2> HIDE DEF n
  <2> SUFFICES ASSUME NEW x \in Seq(Chars) \X Nat
               PROVE  (IF x[2] \in 1 .. n THEN x[1] \o Escaped(key[x[2]]) ELSE <<>>) \in Seq(Chars)
    OBVIOUS
  <2>1. x[1] \in Seq(Chars)
    OBVIOUS
  <2>2. x[2] \in 1 .. n => Escaped(key[x[2]]) \in Seq(Chars)
    BY <1>1, EscapedTyped
  <2>3. x[2] \in 1 .. n => x[1] \o Escaped(key[x[2]]) \in Seq(Chars)
    BY <2>1, <2>2, ConcatProperties
  <2>4. <<>> \in Seq(Chars)
    OBVIOUS
  <2> QED BY <2>3, <2>4
<1>3. PICK f \in [0 .. 0 + n -> Seq(Chars)] :
         \A i \in 0 .. 0 + n : f[i] = IF i = 0 THEN <<>> ELSE step[<<f[i - 1], i>>]
  <2> HIDE DEF n, step
  <2>1. 0 \in Nat /\ <<>> \in Seq(Chars)
    BY <1>1
  <2>2. \A k \in Nat : \E f \in [0 .. 0 + k -> Seq(Chars)] : Iterated(f, <<>>, step, 0, 0 + k)
    BY <1>2, <2>1, Iterates, Zenon
  <2>3. \E f \in [0 .. 0 + n -> Seq(Chars)] : Iterated(f, <<>>, step, 0, 0 + n)
    BY <1>1, <2>2
  <2> QED BY <2>3 DEF Iterated
<1> HIDE DEF n
<1>4. f \in [0 .. n -> Seq(Chars)] /\ 0 + n = n
  BY <1>1, <1>3
<1>5. f[0] = <<>>
  <2>1. 0 \in 0 .. 0 + n
    BY <1>1
  <2> HIDE DEF step
  <2> QED BY <1>3, <2>1
<1>6. ASSUME NEW i \in 1 .. n
      PROVE  f[i] = f[i - 1] \o Escaped(key[i])
  <2>1. i \in 0 .. n /\ i # 0 /\ i - 1 \in 0 .. n /\ i \in Nat
    BY <1>1
  <2>2. f[i] = step[<<f[i - 1], i>>]
    BY <1>3, <1>4, <2>1
  <2>3. f[i - 1] \in Seq(Chars)
    BY <1>4, <2>1
  <2> QED BY <2>1, <2>2, <2>3
<1> QED BY <1>4, <1>5, <1>6 DEF Spells, n

\* The function of Quoted's recursion.
Quoting(key) ==
    CHOOSE f : f = [n \in 0 .. Len(key) |->
                      IF n = 0 THEN <<"quote">> ELSE f[n - 1] \o Escaped(key[n])]

LEMMA QuotedByQuoting ==
    ASSUME NEW key
    PROVE  Quoted(key) = Quoting(key)[Len(key)] \o <<"quote">>
BY DEF Quoted, Quoting, Escaped

LEMMA QuotedSpells ==
    ASSUME NEW key \in Seq(Chars), NEW f, Spells(f, key)
    PROVE  Quoted(key) = <<"quote">> \o (f[Len(key)] \o <<"quote">>)
<1> DEFINE L == Len(key)
           q == <<"quote">>
           Body(g) == [n \in 0 .. L |-> IF n = 0 THEN q ELSE g[n - 1] \o Escaped(key[n])]
           h == [n \in 0 .. L |-> q \o f[n]]
<1>1. L \in Nat /\ q \in Seq(Chars) /\ \A i \in 1 .. L : Escaped(key[i]) \in Seq(Chars)
  <2>1. \A i \in 1 .. L : key[i] \in Chars
    OBVIOUS
  <2>2. "quote" \in Chars
    BY DEF Chars
  <2>3. q \in Seq(Chars)
    <3> HIDE DEF Chars
    <3> QED BY <2>2
  <2> QED BY <2>1, <2>3, EscapedTyped
<1>2. /\ \A n \in 0 .. L : f[n] \in Seq(Chars)
      /\ f[0] = <<>>
      /\ \A n \in 1 .. L : f[n] = f[n - 1] \o Escaped(key[n])
  BY DEF Spells
<1>3. q \o <<>> = q
  OBVIOUS
<1> HIDE DEF q, L
<1>4. ASSUME NEW n \in 1 .. L
      PROVE  /\ n - 1 \in 0 .. L
             /\ q \o f[n] = (q \o f[n - 1]) \o Escaped(key[n])
  <2>1. n - 1 \in 0 .. L
    BY <1>1
  <2>2. f[n - 1] \in Seq(Chars) /\ Escaped(key[n]) \in Seq(Chars)
    BY <1>1, <1>2, <2>1
  <2>3. f[n] = f[n - 1] \o Escaped(key[n])
    BY <1>2
  <2>4. q \o (f[n - 1] \o Escaped(key[n])) = (q \o f[n - 1]) \o Escaped(key[n])
    <3>1. q \in Seq(Chars)
      BY <1>1
    <3> QED BY <2>2, <3>1, Associates
  <2> QED BY <2>1, <2>3, <2>4
<1>5. h = Body(h)
  <2>1. ASSUME NEW n \in 0 .. L
        PROVE  h[n] = IF n = 0 THEN q ELSE h[n - 1] \o Escaped(key[n])
    <3>1. CASE n = 0
      BY <1>2, <1>3, <3>1
    <3>2. CASE n # 0
      <4>1. n \in 1 .. L
        BY <1>1, <3>2
      <4>2. h[n - 1] = q \o f[n - 1]
        BY <1>4, <4>1
      <4> QED BY <1>4, <3>2, <4>1, <4>2
    <3> QED BY <3>1, <3>2
  <2> QED BY <2>1
<1> DEFINE g == Quoting(key)
<1>6. g = Body(g)
  <2>1. g = CHOOSE g2 : g2 = Body(g2)
    BY DEF Quoting, L, q
  <2> HIDE DEF Body, h, g
  <2> QED BY <1>5, <2>1
<1> HIDE DEF g
<1>7. /\ g[0] = q
      /\ \A n \in 1 .. L : g[n] = g[n - 1] \o Escaped(key[n])
  <2>1. \A n \in 0 .. L : g[n] = IF n = 0 THEN q ELSE g[n - 1] \o Escaped(key[n])
    BY <1>6
  <2>2. 0 \in 0 .. L /\ \A n \in 1 .. L : n \in 0 .. L /\ n # 0
    BY <1>1
  <2> QED BY <2>1, <2>2
<1> DEFINE T == {i \in Nat : i \in 0 .. L => g[i] = q \o f[i]}
<1>8. 0 \in T
  BY <1>2, <1>3, <1>7
<1>9. ASSUME NEW i \in Nat, i \in T
      PROVE  i + 1 \in T
  <2> SUFFICES ASSUME i + 1 \in 0 .. L PROVE g[i + 1] = q \o f[i + 1]
    OBVIOUS
  <2>1. i + 1 \in 1 .. L /\ i \in 0 .. L /\ (i + 1) - 1 = i
    BY <1>1
  <2>2. g[i + 1] = g[i] \o Escaped(key[i + 1])
    BY <1>7, <2>1
  <2>3. q \o f[i + 1] = (q \o f[i]) \o Escaped(key[i + 1])
    BY <1>4, <2>1
  <2> QED BY <1>9, <2>1, <2>2, <2>3
<1>10. \A i \in Nat : i \in T
  <2> HIDE DEF T
  <2> QED BY <1>8, <1>9, SetInduction
<1>11. g[L] = q \o f[L]
  BY <1>1, <1>10
<1>12. Quoted(key) = (q \o f[L]) \o q
  BY <1>11, QuotedByQuoting DEF g, L, q
<1>13. f[L] \in Seq(Chars)
  BY <1>1, <1>2
<1>14. (q \o f[L]) \o q = q \o (f[L] \o q)
  <2>1. q \in Seq(Chars)
    BY <1>1
  <2> QED BY <1>13, <2>1, Associates
<1> QED BY <1>12, <1>14 DEF q, L

\* What is written of a key after the opening quote.
Ending(key) == (CHOOSE f : Spells(f, key))[Len(key)] \o <<"quote">>

LEMMA EndingSpells ==
    ASSUME NEW key \in Seq(Chars), NEW f, Spells(f, key)
    PROVE  Ending(key) = f[Len(key)] \o <<"quote">>
<1>1. Spells(CHOOSE g : Spells(g, key), key)
  OBVIOUS
<1>2. (CHOOSE g : Spells(g, key)) = f
  BY <1>1, SpellsOnce
<1> QED BY <1>2 DEF Ending

LEMMA QuoteTyped == <<"quote">> \in Seq(Chars)
<1>1. "quote" \in Chars
  BY DEF Chars
<1> QED BY <1>1

LEMMA CharsJoin == \A a, b \in Seq(Chars) : a \o b \in Seq(Chars)
BY ConcatProperties

LEMMA QuotedEnds ==
    ASSUME NEW key \in Seq(Chars)
    PROVE  Quoted(key) = <<"quote">> \o Ending(key) /\ Ending(key) \in Seq(Chars)
<1>1. PICK f : Spells(f, key)
  BY SpellsExists
<1>2. Ending(key) = f[Len(key)] \o <<"quote">>
  BY <1>1, EndingSpells
<1>3. Quoted(key) = <<"quote">> \o (f[Len(key)] \o <<"quote">>)
  BY <1>1, QuotedSpells
<1>4. f[Len(key)] \in Seq(Chars)
  <2>1. Len(key) \in 0 .. Len(key)
    OBVIOUS
  <2> QED BY <1>1, <2>1 DEF Spells
<1>5. f[Len(key)] \o <<"quote">> \in Seq(Chars)
  BY <1>4, QuoteTyped, CharsJoin
<1> QED BY <1>2, <1>3, <1>5

LEMMA EndingEmpty == Ending(<<>>) = <<"quote">>
<1>1. <<>> \in Seq(Chars) /\ Len(<<>>) = 0
  OBVIOUS
<1>2. PICK f : Spells(f, <<>>)
  BY <1>1, SpellsExists
<1>3. f[0] = <<>>
  BY <1>2 DEF Spells
<1>4. Ending(<<>>) = <<>> \o <<"quote">>
  BY <1>1, <1>2, <1>3, EndingSpells
<1> QED BY <1>4

LEMMA EndingNext ==
    ASSUME NEW c \in Chars, NEW key \in Seq(Chars)
    PROVE  Ending(<<c>> \o key) = Escaped(c) \o Ending(key)
<1> DEFINE L == Len(key)
           both == <<c>> \o key
           q == <<"quote">>
<1>1. PICK f : Spells(f, key)
  BY SpellsExists
<1> DEFINE g == [n \in 0 .. L + 1 |-> IF n = 0 THEN <<>> ELSE Escaped(c) \o f[n - 1]]
<1>2. /\ L \in Nat /\ both \in Seq(Chars) /\ Len(both) = L + 1
      /\ both[1] = c /\ \A n \in 2 .. L + 1 : both[n] = key[n - 1]
  OBVIOUS
<1>3. Escaped(c) \in Seq(Chars) /\ q \in Seq(Chars) /\ <<>> \in Seq(Chars)
  BY EscapedTyped, QuoteTyped
<1>4. /\ \A n \in 0 .. L : f[n] \in Seq(Chars)
      /\ f[0] = <<>>
      /\ \A n \in 1 .. L : f[n] = f[n - 1] \o Escaped(key[n])
  BY <1>1 DEF Spells
<1>5. \A i \in 1 .. L : Escaped(key[i]) \in Seq(Chars)
  <2>1. \A i \in 1 .. L : key[i] \in Chars
    OBVIOUS
  <2> QED BY <2>1, EscapedTyped
<1>6. <<>> \o Escaped(c) = Escaped(c) /\ Escaped(c) \o <<>> = Escaped(c)
  BY <1>3
<1> HIDE DEF L, both, q
<1>7. g \in [0 .. L + 1 -> Seq(Chars)]
  <2> SUFFICES ASSUME NEW n \in 0 .. L + 1, n # 0 PROVE Escaped(c) \o f[n - 1] \in Seq(Chars)
    BY <1>3
  <2>1. n - 1 \in 0 .. L
    BY <1>2
  <2>2. f[n - 1] \in Seq(Chars)
    BY <1>4, <2>1
  <2> QED BY <1>3, <2>2, CharsJoin
<1>8. g[0] = <<>>
  BY <1>2
<1>9. ASSUME NEW n \in 1 .. L + 1
      PROVE  g[n] = g[n - 1] \o Escaped(both[n])
  <2>1. CASE n = 1
    <3>1. n - 1 = 0 /\ 1 \in 0 .. L + 1 /\ 0 \in 0 .. L + 1
      BY <1>2, <2>1
    <3>2. g[n] = Escaped(c) \o f[0] /\ g[n - 1] = <<>> /\ both[n] = c
      BY <1>2, <2>1, <3>1
    <3> QED BY <1>4, <1>6, <3>2
  <2>2. CASE n # 1
    <3>1. /\ n - 1 \in 1 .. L /\ (n - 1) - 1 \in 0 .. L
          /\ n \in 0 .. L + 1 /\ n # 0 /\ n - 1 \in 0 .. L + 1 /\ n - 1 # 0
          /\ n \in 2 .. L + 1
      BY <1>2, <2>2
    <3>2. g[n] = Escaped(c) \o f[n - 1]
      BY <3>1
    <3>3. g[n - 1] = Escaped(c) \o f[(n - 1) - 1]
      BY <3>1
    <3>4. both[n] = key[n - 1]
      BY <1>2, <3>1
    <3>5. f[n - 1] = f[(n - 1) - 1] \o Escaped(key[n - 1])
      BY <1>4, <3>1
    <3>6. f[(n - 1) - 1] \in Seq(Chars) /\ Escaped(key[n - 1]) \in Seq(Chars)
      BY <1>4, <1>5, <3>1
    <3> HIDE DEF g
    <3>7. (Escaped(c) \o f[(n - 1) - 1]) \o Escaped(key[n - 1])
             = Escaped(c) \o (f[(n - 1) - 1] \o Escaped(key[n - 1]))
      BY <1>3, <3>6, Associates
    <3> QED BY <3>2, <3>3, <3>4, <3>5, <3>7
  <2> QED BY <2>1, <2>2
<1>10. g[L + 1] = Escaped(c) \o f[L] /\ f[L] \in Seq(Chars)
  <2>1. L + 1 \in 0 .. L + 1 /\ L + 1 # 0 /\ (L + 1) - 1 = L /\ L \in 0 .. L
    BY <1>2
  <2> QED BY <1>4, <2>1
<1> HIDE DEF g
<1>11. Spells(g, both)
  BY <1>2, <1>7, <1>8, <1>9 DEF Spells
<1>12. Ending(both) = (Escaped(c) \o f[L]) \o q
  BY <1>2, <1>10, <1>11, EndingSpells DEF q
<1>13. Ending(key) = f[L] \o q
  BY <1>1, EndingSpells DEF q, L
<1>14. (Escaped(c) \o f[L]) \o q = Escaped(c) \o (f[L] \o q)
  BY <1>3, <1>10, Associates
<1> QED BY <1>12, <1>13, <1>14 DEF both

-----------------------------------------------------------------------------
(* The parser                                                              *)

\* What is parsed from the i-th character on, if one and two are parsed after it
\* and after the next.
ParsedAt(s, i, one, two) ==
    CASE i > Len(s) -> Invalid
      [] i <= Len(s) /\ s[i] = "backslash" ->
           IF i < Len(s) /\ s[i + 1] \in {"quote", "backslash"}
           THEN Before(s[i + 1], two) ELSE Invalid
      [] i <= Len(s) /\ s[i] = "quote" -> IF i < Len(s) THEN Invalid ELSE Valid(<<>>)
      [] i <= Len(s) /\ s[i] \in {"tab", "control"} -> Invalid
      [] OTHER -> Before(s[i], one)

\* The function of parseSfString's recursion.
Parsing(s) == CHOOSE f : f = [i \in 2 .. Len(s) + 2 |-> ParsedAt(s, i, f[i + 1], f[i + 2])]

LEMMA ParsedByParsing ==
    ASSUME NEW input
    PROVE  LET s == trimSpaces(input) IN
           parseSfString(input) = IF s = <<>> \/ Head(s) # "quote" THEN Invalid ELSE Parsing(s)[2]
BY DEF parseSfString, Parsing, ParsedAt

ParserResults == {Invalid} \cup {Valid(k) : k \in Seq(Chars)}

LEMMA BeforeTyped ==
    ASSUME NEW c \in Chars, NEW rest \in ParserResults
    PROVE  Before(c, rest) \in ParserResults
<1>1. CASE rest = Invalid
  BY <1>1 DEF Before, ParserResults, Invalid
<1>2. CASE rest # Invalid
  <2>1. PICK k \in Seq(Chars) : rest = Valid(k)
    BY <1>2 DEF ParserResults
  <2>2. rest.ok /\ rest.key = k
    BY <2>1 DEF Valid
  <2>3. <<c>> \o k \in Seq(Chars)
    OBVIOUS
  <2>4. Before(c, rest) = Valid(<<c>> \o k)
    BY <2>2 DEF Before
  <2> QED BY <2>3, <2>4 DEF ParserResults
<1> QED BY <1>1, <1>2

\* The cases of a step.
LEMMA ParsedCases ==
    ASSUME NEW s \in Seq(Chars), NEW i \in Nat, i >= 1, NEW one, NEW two
    PROVE  LET at == ParsedAt(s, i, one, two) IN
           \/ at = Invalid
           \/ /\ i < Len(s) /\ s[i] = "backslash" /\ s[i + 1] \in {"quote", "backslash"}
              /\ at = Before(s[i + 1], two)
           \/ i = Len(s) /\ s[i] = "quote" /\ at = Valid(<<>>)
           \/ /\ i <= Len(s) /\ s[i] \notin {"quote", "backslash", "tab", "control"}
              /\ at = Before(s[i], one)
<1>1. Len(s) \in Nat
  OBVIOUS
<1>2. CASE i > Len(s)
  BY <1>1, <1>2 DEF ParsedAt
<1>3. CASE i <= Len(s)
  <2>1. ~(i > Len(s)) /\ (~(i < Len(s)) => i = Len(s))
    BY <1>1, <1>3
  <2>2. CASE s[i] = "backslash"
    BY <1>3, <2>1, <2>2 DEF ParsedAt
  <2>3. CASE s[i] = "quote"
    BY <1>3, <2>1, <2>3 DEF ParsedAt
  <2>4. CASE s[i] \in {"tab", "control"}
    BY <1>3, <2>1, <2>4 DEF ParsedAt
  <2>5. CASE s[i] \notin {"quote", "backslash", "tab", "control"}
    BY <1>3, <2>1, <2>5 DEF ParsedAt
  <2> QED BY <2>2, <2>3, <2>4, <2>5
<1> QED BY <1>1, <1>2, <1>3

LEMMA ParsedTyped ==
    ASSUME NEW s \in Seq(Chars), NEW i \in Nat, i >= 1, NEW one \in ParserResults, NEW two \in ParserResults
    PROVE  ParsedAt(s, i, one, two) \in ParserResults
<1>1. Invalid \in ParserResults /\ Valid(<<>>) \in ParserResults
  <2>1. <<>> \in Seq(Chars)
    OBVIOUS
  <2> QED BY <2>1, Zenon DEF ParserResults
<1>2. Len(s) \in Nat /\ \A j \in 1 .. Len(s) : s[j] \in Chars
  OBVIOUS
<1>3. ASSUME i < Len(s) PROVE Before(s[i + 1], two) \in ParserResults
  <2>1. s[i + 1] \in Chars
    BY <1>2, <1>3
  <2> QED BY <2>1, BeforeTyped
<1>4. ASSUME i <= Len(s) PROVE Before(s[i], one) \in ParserResults
  <2>1. s[i] \in Chars
    BY <1>2, <1>4
  <2> QED BY <2>1, BeforeTyped
<1> QED BY <1>1, <1>3, <1>4, ParsedCases

\* There is such a function: from the end, with the last two values as its state.
LEMMA ParsingSteps ==
    ASSUME NEW s \in Seq(Chars)
    PROVE  \A i \in 2 .. Len(s) + 2 :
             Parsing(s)[i] = ParsedAt(s, i, Parsing(s)[i + 1], Parsing(s)[i + 2])
<1> DEFINE L == Len(s)
           N == L + 2
           S == ParserResults \X ParserResults
           step == [x \in S \X Nat |->
                      IF x[2] < N THEN <<ParsedAt(s, N - x[2], x[1][1], x[1][2]), x[1][1]>>
                      ELSE x[1]]
           c == <<Invalid, Invalid>>
           Body(f) == [i \in 2 .. N |-> ParsedAt(s, i, f[i + 1], f[i + 2])]
<1>1. L \in Nat /\ N \in Nat /\ L \geq 0 /\ N = L + 2
  OBVIOUS
<1>2. c \in S
  BY DEF ParserResults
<1>3. step \in [S \X Nat -> S]
  <2> HIDE DEF N, L
  <2> SUFFICES ASSUME NEW p \in S, NEW m \in Nat, m < N
               PROVE  <<ParsedAt(s, N - m, p[1], p[2]), p[1]>> \in S
    OBVIOUS
  <2>1. N - m \in Nat /\ N - m >= 1
    BY <1>1
  <2>2. p[1] \in ParserResults /\ p[2] \in ParserResults
    OBVIOUS
  <2>3. ParsedAt(s, N - m, p[1], p[2]) \in ParserResults
    BY <2>1, <2>2, ParsedTyped
  <2> QED BY <2>2, <2>3
<1> HIDE DEF S, c
<1>4. PICK g \in [0 .. 0 + L -> S] :
         \A m \in 0 .. 0 + L : g[m] = IF m = 0 THEN c ELSE step[<<g[m - 1], m>>]
  <2> HIDE DEF L, step
  <2>1. 0 \in Nat
    OBVIOUS
  <2>2. \A k \in Nat : \E g \in [0 .. 0 + k -> S] : Iterated(g, c, step, 0, 0 + k)
    BY <1>2, <1>3, <2>1, Iterates, Zenon
  <2>3. \E g \in [0 .. 0 + L -> S] : Iterated(g, c, step, 0, 0 + L)
    BY <1>1, <2>2
  <2> QED BY <2>3 DEF Iterated
<1> HIDE DEF L, N
<1>5. g \in [0 .. L -> S] /\ 0 + L = L
  BY <1>1, <1>4
<1>6. g[0] = <<Invalid, Invalid>>
  <2>1. 0 \in 0 .. 0 + L
    BY <1>1
  <2> HIDE DEF step
  <2> QED BY <1>4, <2>1 DEF c
<1>7. ASSUME NEW m \in 1 .. L
      PROVE  /\ m \in 0 .. L /\ m - 1 \in 0 .. L /\ m \in Nat
             /\ g[m] = <<ParsedAt(s, N - m, g[m - 1][1], g[m - 1][2]), g[m - 1][1]>>
  <2>1. m \in 0 .. L /\ m - 1 \in 0 .. L /\ m \in Nat /\ m # 0 /\ m < N
    BY <1>1
  <2>2. g[m] = step[<<g[m - 1], m>>]
    BY <1>4, <1>5, <2>1
  <2>3. g[m - 1] \in S
    BY <1>5, <2>1
  <2> QED BY <2>1, <2>2, <2>3
<1> HIDE DEF step
<1> DEFINE f == [i \in 2 .. N |-> g[N - i][1]]
<1>8. ASSUME NEW i \in 2 .. N
      PROVE  f[i] = ParsedAt(s, i, f[i + 1], f[i + 2])
  <2>1. CASE i > L
    <3>1. ParsedAt(s, i, f[i + 1], f[i + 2]) = Invalid
      BY <2>1 DEF ParsedAt, L
    <3>2. N - i = 0 \/ N - i = 1
      BY <1>1, <2>1
    <3>3. CASE N - i = 0
      BY <1>6, <3>1, <3>3
    <3>4. CASE N - i = 1
      <4>1. CASE 1 \in 1 .. L
        <5>1. g[1] = <<ParsedAt(s, N - 1, g[0][1], g[0][2]), g[0][1]>>
          BY <1>7, <4>1
        <5>2. N - 1 > L
          BY <1>1
        <5>3. ParsedAt(s, N - 1, g[0][1], g[0][2]) = Invalid
          BY <5>2 DEF ParsedAt, L
        <5> QED BY <3>1, <3>4, <5>1, <5>3
      <4>2. CASE 1 \notin 1 .. L
        BY <1>1, <2>1, <3>4, <4>2
      <4> QED BY <4>1, <4>2
    <3> QED BY <3>2, <3>3, <3>4
  <2>2. CASE i <= L
    <3> DEFINE m == N - i
    <3>1. /\ m \in 1 .. L /\ m - 1 \in 1 .. L /\ N - m = i
          /\ i + 1 \in 2 .. N /\ i + 2 \in 2 .. N
          /\ N - (i + 1) = m - 1 /\ N - (i + 2) = (m - 1) - 1
      BY <1>1, <2>2
    <3>2. f[i] = g[m][1] /\ f[i + 1] = g[m - 1][1] /\ f[i + 2] = g[(m - 1) - 1][1]
      BY <3>1
    <3> HIDE DEF f, m
    <3>3. g[m] = <<ParsedAt(s, N - m, g[m - 1][1], g[m - 1][2]), g[m - 1][1]>>
      BY <1>7, <3>1
    <3>4. g[m - 1][2] = g[(m - 1) - 1][1]
      BY <1>7, <3>1
    <3> QED BY <3>1, <3>2, <3>3, <3>4
  <2> QED BY <1>1, <2>1, <2>2
<1>9. f = Body(f)
  BY <1>8
<1> HIDE DEF f
<1> DEFINE p == Parsing(s)
<1>10. p = CHOOSE h : h = Body(h)
  BY DEF Parsing, N, L
<1>11. p = Body(p)
  <2> HIDE DEF Body, p
  <2> QED BY <1>9, <1>10
<1> HIDE DEF p
<1>12. \A i \in 2 .. N : p[i] = ParsedAt(s, i, p[i + 1], p[i + 2])
  BY <1>11
<1> QED BY <1>12 DEF p, N, L

\* One character more.
LEMMA OneBefore ==
    ASSUME NEW c \in Chars, NEW b \in Seq(Chars)
    PROVE  /\ <<c>> \o b \in Seq(Chars) /\ Len(<<c>> \o b) = Len(b) + 1
           /\ (<<c>> \o b)[1] = c
           /\ \A j \in 2 .. Len(b) + 1 : (<<c>> \o b)[j] = b[j - 1]
OBVIOUS

\* What is left of a value from the i-th character on.
From(s, i) == SubSeq(s, i, Len(s))

LEMMA FromNext ==
    ASSUME NEW s \in Seq(Chars), NEW i \in 1 .. Len(s)
    PROVE  /\ From(s, i) = <<s[i]>> \o From(s, i + 1)
           /\ From(s, i + 1) \in Seq(Chars) /\ s[i] \in Chars
<1> DEFINE L == Len(s)
           a == From(s, i)
           b == From(s, i + 1)
<1>1. L \in Nat /\ i \in Nat /\ 1 <= i /\ i <= L /\ s[i] \in Chars
  OBVIOUS
<1>2. /\ a \in Seq(Chars) /\ Len(a) = L - i + 1 /\ \A j \in 1 .. L - i + 1 : a[j] = s[i + j - 1]
      /\ b \in Seq(Chars) /\ Len(b) = L - i /\ \A j \in 1 .. L - i : b[j] = s[i + j]
  BY <1>1 DEF From
<1> HIDE DEF a, b, L
<1>3. /\ <<s[i]>> \o b \in Seq(Chars) /\ Len(<<s[i]>> \o b) = L - i + 1
      /\ (<<s[i]>> \o b)[1] = s[i]
      /\ \A j \in 2 .. L - i + 1 : (<<s[i]>> \o b)[j] = b[j - 1]
  BY <1>1, <1>2, OneBefore
<1>4. ASSUME NEW j \in 1 .. L - i + 1 PROVE a[j] = (<<s[i]>> \o b)[j]
  <2>1. CASE j = 1
    BY <1>1, <1>2, <1>3, <2>1
  <2>2. CASE j # 1
    <3>1. j \in 2 .. L - i + 1 /\ j - 1 \in 1 .. L - i /\ i + (j - 1) = i + j - 1
      BY <1>1, <2>2
    <3> QED BY <1>2, <1>3, <3>1
  <2> QED BY <2>1, <2>2
<1>5. a = <<s[i]>> \o b
  BY <1>2, <1>3, <1>4, SeqEqual
<1> QED BY <1>1, <1>2, <1>5 DEF a, b

\* Sequences with a first element.
LEMMA SplitsAtHead ==
    ASSUME NEW k \in Seq(Chars), k # <<>>
    PROVE  /\ Head(k) \in Chars /\ Tail(k) \in Seq(Chars) /\ k = <<Head(k)>> \o Tail(k)
           /\ Len(Tail(k)) = Len(k) - 1 /\ Head(k) = k[1]
OBVIOUS

Begins(s, i, c, r) == From(s, i) = <<c>> \o r

\* If it is known how what is left begins, it is known what is next.
LEMMA FromBegins ==
    ASSUME NEW s \in Seq(Chars)
    PROVE  \A i \in 1 .. Len(s) + 1 : \A c \in Chars, r \in Seq(Chars) :
             Begins(s, i, c, r) => i \in 1 .. Len(s) /\ s[i] = c /\ From(s, i + 1) = r
<1> SUFFICES ASSUME NEW i \in 1 .. Len(s) + 1, NEW c \in Chars, NEW r \in Seq(Chars),
                    From(s, i) = <<c>> \o r
             PROVE  i \in 1 .. Len(s) /\ s[i] = c /\ From(s, i + 1) = r
  BY DEF Begins
<1>1. i # Len(s) + 1
  <2>1. ASSUME i = Len(s) + 1 PROVE Len(From(s, i)) = 0
    BY <2>1 DEF From
  <2>2. Len(<<c>> \o r) = 1 + Len(r) /\ Len(r) \in Nat
    OBVIOUS
  <2> QED BY <2>1, <2>2
<1>2. i \in 1 .. Len(s)
  BY <1>1
<1>3. From(s, i) = <<s[i]>> \o From(s, i + 1) /\ From(s, i + 1) \in Seq(Chars) /\ s[i] \in Chars
  BY <1>2, FromNext
<1> DEFINE b == From(s, i + 1)
           d == s[i]
<1>4. <<d>> \o b = <<c>> \o r /\ b \in Seq(Chars) /\ d \in Chars
  BY <1>3
<1> HIDE DEF b, d
<1>5. (<<d>> \o b)[1] = d /\ (<<c>> \o r)[1] = c
  BY <1>4
<1>6. Tail(<<d>> \o b) = b /\ Tail(<<c>> \o r) = r
  BY <1>4
<1> QED BY <1>2, <1>4, <1>5, <1>6 DEF b, d

\* Whatever is parsed is what is written there.
LEMMA ParsedIsWritten ==
    ASSUME NEW s \in Seq(Chars), NEW j \in 2 .. Len(s) + 2
    PROVE  \/ Parsing(s)[j] = Invalid
           \/ \E k \in Seq(Chars) : Parsing(s)[j] = Valid(k) /\ From(s, j) = Ending(k)
<1> DEFINE L == Len(s)
           N == L + 2
           p == Parsing(s)
           Right(i) == p[i] = Invalid \/ \E k \in Seq(Chars) : p[i] = Valid(k) /\ From(s, i) = Ending(k)
           T == {m \in Nat : \A i \in 2 .. N : i >= N - m => Right(i)}
<1>1. L \in Nat /\ N = L + 2
  OBVIOUS
<1>2. ASSUME NEW i \in 2 .. N
      PROVE  p[i] = ParsedAt(s, i, p[i + 1], p[i + 2])
  BY <1>2, ParsingSteps
<1> HIDE DEF p, N
<1>3. ASSUME NEW c \in Chars, NEW i \in 2 .. N, Right(i)
      PROVE  \/ Before(c, p[i]) = Invalid
             \/ \E k \in Seq(Chars) : /\ Before(c, p[i]) = Valid(<<c>> \o k) /\ <<c>> \o k \in Seq(Chars)
                                      /\ Escaped(c) \o From(s, i) = Ending(<<c>> \o k)
  <2>1. CASE p[i] = Invalid
    BY <2>1 DEF Before, Invalid
  <2>2. CASE p[i] # Invalid
    <3>1. PICK k \in Seq(Chars) : p[i] = Valid(k) /\ From(s, i) = Ending(k)
      BY <1>3, <2>2
    <3>2. Before(c, p[i]) = Valid(<<c>> \o k)
      BY <3>1 DEF Before, Valid
    <3>3. <<c>> \o k \in Seq(Chars)
      BY OneBefore
    <3>4. Ending(<<c>> \o k) = Escaped(c) \o Ending(k)
      BY EndingNext
    <3> QED BY <3>1, <3>2, <3>3, <3>4
  <2> QED BY <2>1, <2>2
<1>4. ASSUME NEW i \in 2 .. N, i > L
      PROVE  Right(i)
  <2>1. ParsedAt(s, i, p[i + 1], p[i + 2]) = Invalid
    BY <1>4 DEF ParsedAt
  <2> QED BY <1>2, <2>1
<1>5. ASSUME NEW i \in 2 .. L, Right(i + 1), Right(i + 2)
      PROVE  Right(i)
  <2>1. i \in Nat /\ i >= 1 /\ i \in 2 .. N /\ i \in 1 .. L /\ i + 1 \in 2 .. N /\ i + 2 \in 2 .. N
    BY <1>1
  <2>2. p[i] = ParsedAt(s, i, p[i + 1], p[i + 2])
    BY <1>2, <2>1
  <2>3. From(s, i) = <<s[i]>> \o From(s, i + 1) /\ From(s, i + 1) \in Seq(Chars) /\ s[i] \in Chars
    BY <2>1, FromNext
  <2>4. CASE p[i] = Invalid
    BY <2>4
  <2>5. CASE /\ i < L /\ s[i] = "backslash" /\ s[i + 1] \in {"quote", "backslash"}
             /\ p[i] = Before(s[i + 1], p[i + 2])
    <3> DEFINE c == s[i + 1]
    <3>1. i + 1 \in 1 .. L
      BY <1>1, <2>1, <2>5
    <3>2. /\ From(s, i + 1) = <<c>> \o From(s, i + 2)
          /\ From(s, i + 2) \in Seq(Chars) /\ c \in Chars
      <4>1. (i + 1) + 1 = i + 2
        BY <2>1
      <4>2. /\ From(s, i + 1) = <<c>> \o From(s, (i + 1) + 1)
            /\ From(s, (i + 1) + 1) \in Seq(Chars) /\ c \in Chars
        BY <3>1, FromNext
      <4> QED BY <4>1, <4>2
    <3> HIDE DEF c
    <3>3. Escaped(c) = <<"backslash">> \o <<c>>
      BY <2>5 DEF Escaped, c
    <3>4. <<"backslash">> \in Seq(Chars) /\ <<c>> \in Seq(Chars)
      BY <2>3, <2>5, <3>2
    <3>5. From(s, i) = Escaped(c) \o From(s, i + 2)
      <4>1. (<<"backslash">> \o <<c>>) \o From(s, i + 2) = <<"backslash">> \o (<<c>> \o From(s, i + 2))
        BY <3>2, <3>4, Associates
      <4> QED BY <2>3, <2>5, <3>2, <3>3, <4>1
    <3> QED BY <1>3, <1>5, <2>1, <2>5, <3>2, <3>5 DEF c
  <2>6. CASE i = L /\ s[i] = "quote" /\ p[i] = Valid(<<>>)
    <3>1. From(s, i + 1) = <<>>
      BY <1>1, <2>6 DEF From
    <3>2. From(s, i) = <<"quote">> \o <<>>
      BY <2>3, <2>6, <3>1
    <3>3. From(s, i) = <<"quote">>
      BY <3>2
    <3>4. <<>> \in Seq(Chars)
      OBVIOUS
    <3> QED BY <2>6, <3>3, <3>4, EndingEmpty
  <2>7. CASE s[i] \notin {"quote", "backslash", "tab", "control"} /\ p[i] = Before(s[i], p[i + 1])
    <3>1. Escaped(s[i]) = <<s[i]>>
      BY <2>7 DEF Escaped
    <3> QED BY <1>3, <1>5, <2>1, <2>3, <2>7, <3>1
  <2> QED BY <2>1, <2>2, <2>4, <2>5, <2>6, <2>7, ParsedCases
<1> HIDE DEF Right
<1>6. 0 \in T
  BY <1>1, <1>4
<1>7. ASSUME NEW m \in Nat, m \in T
      PROVE  m + 1 \in T
  <2> SUFFICES ASSUME NEW i \in 2 .. N, i >= N - (m + 1) PROVE Right(i)
    OBVIOUS
  <2>1. CASE i >= N - m
    BY <1>7, <2>1
  <2>2. CASE i > L
    BY <1>4, <2>2
  <2>3. CASE ~(i >= N - m) /\ ~(i > L)
    <3>1. i \in 2 .. L /\ i + 1 \in 2 .. N /\ i + 2 \in 2 .. N /\ i + 1 >= N - m /\ i + 2 >= N - m
      BY <1>1, <2>3
    <3>2. Right(i + 1) /\ Right(i + 2)
      BY <1>7, <3>1
    <3> QED BY <1>5, <3>1, <3>2
  <2> QED BY <2>1, <2>2, <2>3
<1>8. \A m \in Nat : m \in T
  <2> HIDE DEF T
  <2> QED BY <1>6, <1>7, SetInduction
<1>9. N \in Nat /\ j \in 2 .. N /\ j >= N - N
  BY <1>1 DEF N
<1>10. Right(j)
  BY <1>8, <1>9
<1> QED BY <1>10 DEF Right, p

\* A key that is written is parsed, whatever it is.
LEMMA WrittenIsParsed ==
    ASSUME NEW s \in Seq(Chars)
    PROVE  \A k \in Seq(Printable \cup {"space"}), i \in 2 .. Len(s) + 1 :
             From(s, i) = Ending(k) => Parsing(s)[i] = Valid(k)
<1> DEFINE L == Len(s)
           p == Parsing(s)
           Keys1 == Seq(Printable \cup {"space"})
           T == {n \in Nat : \A k \in Keys1, i \in 2 .. L + 1 :
                   Len(k) = n /\ From(s, i) = Ending(k) => p[i] = Valid(k)}
<1>1. L \in Nat /\ \A i \in 1 .. L : s[i] \in Chars
  OBVIOUS
<1>2. ASSUME NEW i \in 2 .. L
      PROVE  /\ i \in 1 .. L /\ i + 1 \in 2 .. L + 1 /\ i \in 1 .. L + 1 /\ i \in 2 .. L + 1 /\ i <= L
             /\ p[i] = ParsedAt(s, i, p[i + 1], p[i + 2])
  <2>1. i \in 2 .. L + 2
    BY <1>1
  <2> QED BY <1>1, <2>1, ParsingSteps
<1>3. /\ Keys1 \subseteq Seq(Chars) /\ Printable \cup {"space"} \subseteq Chars
      /\ \A c \in Printable \cup {"space"} : c \notin {"tab", "control"}
  <2>1. Printable \cup {"space"} \subseteq Chars
    BY DEF Printable, Chars
  <2>2. \A c \in Printable \cup {"space"} : c \notin {"tab", "control"}
    BY DEF Printable, Chars
  <2> HIDE DEF Keys1
  <2>3. Keys1 \subseteq Seq(Chars)
    <3> SUFFICES ASSUME NEW k \in Keys1 PROVE k \in Seq(Chars)
      OBVIOUS
    <3> QED BY <2>1 DEF Keys1
  <2> QED BY <2>1, <2>2, <2>3
<1>4. "backslash" \in Chars /\ "quote" \in Chars /\ <<>> \in Seq(Chars)
  BY DEF Chars
<1> HIDE DEF L, p
<1>5. 0 \in T
  <2> SUFFICES ASSUME NEW k \in Keys1, NEW i \in 2 .. L + 1, Len(k) = 0, From(s, i) = Ending(k)
               PROVE  p[i] = Valid(k)
    OBVIOUS
  <2>1. k = <<>>
    OBVIOUS
  <2>2. From(s, i) = <<"quote">> \o <<>>
    BY <2>1, EndingEmpty
  <2>3. i \in 1 .. L + 1
    BY <1>1
  <2>4. i \in 1 .. L /\ s[i] = "quote" /\ From(s, i + 1) = <<>>
    <3> DEFINE e == <<>>
    <3>1. e \in Seq(Chars) /\ Begins(s, i, "quote", e)
      BY <1>4, <2>2 DEF Begins
    <3> HIDE DEF e
    <3>2. i \in 1 .. L /\ s[i] = "quote" /\ From(s, i + 1) = e
      BY <1>4, <2>3, <3>1, FromBegins DEF L
    <3> QED BY <3>2 DEF e
  <2>5. i = L
    <3>1. Len(From(s, i + 1)) = L - i
      BY <1>1, <2>4 DEF From, L
    <3> QED BY <1>1, <2>4, <3>1
  <2>6. i \in 2 .. L
    BY <1>1, <2>5
  <2>7. ParsedAt(s, i, p[i + 1], p[i + 2]) = Valid(<<>>)
    <3>1. i <= Len(s) /\ ~(i < Len(s)) /\ ~(i > Len(s))
      BY <1>1, <2>5 DEF L
    <3> QED BY <2>4, <3>1 DEF ParsedAt
  <2> QED BY <1>2, <2>1, <2>6, <2>7
<1>6. ASSUME NEW n \in Nat, n \in T
      PROVE  n + 1 \in T
  <2> SUFFICES ASSUME NEW k \in Keys1, NEW i \in 2 .. L + 1, Len(k) = n + 1, From(s, i) = Ending(k)
               PROVE  p[i] = Valid(k)
    OBVIOUS
  <2> DEFINE c == Head(k)
             r == Tail(k)
  <2>1. k # <<>> /\ c \in Printable \cup {"space"} /\ r \in Keys1 /\ k = <<c>> \o r /\ Len(r) = n
    OBVIOUS
  <2>2. c \in Chars /\ r \in Seq(Chars) /\ c \notin {"tab", "control"}
    BY <1>3, <2>1
  <2> HIDE DEF c, r, Keys1
  <2>3. From(s, i) = Escaped(c) \o Ending(r) /\ Ending(r) \in Seq(Chars)
    BY <2>1, <2>2, EndingNext, QuotedEnds
  <2>4. i \in 1 .. L + 1
    BY <1>1
  <2>5. \A j \in 2 .. L + 1 : From(s, j) = Ending(r) => p[j] = Valid(r)
    BY <1>6, <2>1
  <2>6. Before(c, Valid(r)) = Valid(k)
    BY <2>1 DEF Before, Valid
  <2>7. CASE c \in {"quote", "backslash"}
    <3> DEFINE rest == <<c>> \o Ending(r)
    <3>1. Escaped(c) = <<"backslash">> \o <<c>>
      BY <2>7 DEF Escaped
    <3>2. <<"backslash">> \in Seq(Chars) /\ <<c>> \in Seq(Chars)
      BY <1>4, <2>2
    <3>3. rest \in Seq(Chars) /\ Begins(s, i, "backslash", rest)
      BY <2>2, <2>3, <3>1, <3>2, Associates, CharsJoin DEF Begins
    <3> HIDE DEF rest
    <3>4. i \in 1 .. L /\ s[i] = "backslash" /\ From(s, i + 1) = rest
      BY <1>4, <2>4, <3>3, FromBegins DEF L
    <3>5. i + 1 \in 1 .. L + 1 /\ i \in 2 .. L
      BY <1>1, <3>4
    <3>6. i + 1 \in 1 .. L /\ s[i + 1] = c /\ From(s, (i + 1) + 1) = Ending(r)
      <4> DEFINE j == i + 1
                 e == Ending(r)
      <4>1. j \in 1 .. L + 1 /\ Begins(s, j, c, e) /\ e \in Seq(Chars)
        BY <2>3, <3>4, <3>5 DEF rest, Begins
      <4> HIDE DEF j, e
      <4>2. j \in 1 .. L /\ s[j] = c /\ From(s, j + 1) = e
        BY <2>2, <4>1, FromBegins DEF L
      <4> QED BY <4>2 DEF j, e
    <3>7. (i + 1) + 1 = i + 2 /\ i + 2 \in 2 .. L + 1 /\ i < L /\ i <= L /\ ~(i > L)
      BY <1>1, <3>5, <3>6
    <3>8. p[i + 2] = Valid(r)
      BY <2>5, <3>6, <3>7
    <3>9. ParsedAt(s, i, p[i + 1], p[i + 2]) = Before(c, p[i + 2])
      BY <2>7, <3>4, <3>6, <3>7 DEF ParsedAt, L
    <3> QED BY <1>2, <2>6, <3>5, <3>8, <3>9
  <2>8. CASE c \notin {"quote", "backslash"}
    <3>1. From(s, i) = <<c>> \o Ending(r)
      BY <2>3, <2>8 DEF Escaped
    <3>2. i \in 1 .. L /\ s[i] = c /\ From(s, i + 1) = Ending(r)
      <4> DEFINE e == Ending(r)
      <4>1. Begins(s, i, c, e) /\ e \in Seq(Chars)
        BY <2>3, <3>1 DEF Begins
      <4> HIDE DEF e
      <4>2. i \in 1 .. L /\ s[i] = c /\ From(s, i + 1) = e
        BY <2>2, <2>4, <4>1, FromBegins DEF L
      <4> QED BY <4>2 DEF e
    <3>3. i \in 2 .. L /\ i + 1 \in 2 .. L + 1 /\ i <= L /\ ~(i > L)
      BY <1>1, <3>2
    <3>4. p[i + 1] = Valid(r)
      BY <2>5, <3>2, <3>3
    <3>5. ParsedAt(s, i, p[i + 1], p[i + 2]) = Before(c, p[i + 1])
      BY <2>2, <2>8, <3>2, <3>3 DEF ParsedAt, L
    <3> QED BY <1>2, <2>6, <3>3, <3>4, <3>5
  <2> QED BY <2>7, <2>8
<1>7. \A n \in Nat : n \in T
  <2> HIDE DEF T
  <2> QED BY <1>5, <1>6, SetInduction
<1> SUFFICES ASSUME NEW k \in Keys1, NEW i \in 2 .. L + 1, From(s, i) = Ending(k)
             PROVE  p[i] = Valid(k)
  BY DEF L, p
<1>8. Len(k) \in Nat
  OBVIOUS
<1> HIDE DEF Keys1
<1> QED BY <1>7, <1>8

-----------------------------------------------------------------------------
(* Blanks around a value                                                   *)

\* A value's first and last characters that are not in ws.
Core(value, ws, f, l) ==
    /\ f \in 1 .. Len(value) /\ l \in 1 .. Len(value) /\ f <= l
    /\ value[f] \notin ws /\ value[l] \notin ws
    /\ \A i \in 1 .. Len(value) : i < f \/ i > l => value[i] \in ws

LEMMA TrimmedCore ==
    ASSUME NEW value \in Seq(Chars), NEW ws, NEW f, NEW l, Core(value, ws, f, l)
    PROVE  Trimmed(value, ws) = SubSeq(value, f, l)
<1> DEFINE inner == {i \in DOMAIN value : value[i] \notin ws}
           first == CHOOSE i \in inner : \A j \in inner : i <= j
           last == CHOOSE i \in inner : \A j \in inner : j <= i
<1>1. DOMAIN value = 1 .. Len(value) /\ Len(value) \in Nat
  OBVIOUS
<1>2. f \in inner /\ l \in inner /\ \A j \in inner : j \in Nat /\ f <= j /\ j <= l
  BY <1>1 DEF Core
<1> HIDE DEF inner
<1>3. first = f
  BY <1>2
<1>4. last = l
  BY <1>2
<1>5. Trimmed(value, ws) = IF inner = {} THEN <<>> ELSE SubSeq(value, first, last)
  BY DEF Trimmed, inner
<1> HIDE DEF first, last
<1> QED BY <1>2, <1>3, <1>4, <1>5

\* A value has them, or nothing but ws.
LEMMA CoreExists ==
    ASSUME NEW value \in Seq(Chars), NEW ws
    PROVE  \/ Trimmed(value, ws) = <<>>
           \/ \E f, l \in 1 .. Len(value) : Core(value, ws, f, l)
<1> DEFINE inner == {i \in DOMAIN value : value[i] \notin ws}
           L == Len(value)
           back == {L - i : i \in inner}
<1>1. DOMAIN value = 1 .. L /\ L \in Nat
  OBVIOUS
<1>2. CASE inner = {}
  BY <1>2 DEF Trimmed
<1>3. CASE inner # {}
  <2>1. inner \in SUBSET Nat /\ inner \subseteq 1 .. L
    BY <1>1
  <2>2. PICK f \in inner : \A j \in inner : f <= j
    <3> HIDE DEF inner
    <3> QED BY <1>3, <2>1, LeastNat
  <2>3. back \in SUBSET Nat /\ back # {}
    <3> HIDE DEF inner, L
    <3> QED BY <1>1, <1>3, <2>1
  <2>4. PICK b \in back : \A j \in back : b <= j
    <3> HIDE DEF back
    <3> QED BY <2>3, LeastNat
  <2>5. PICK l \in inner : b = L - l
    BY <2>4
  <2>6. ASSUME NEW j \in inner PROVE j <= l
    <3>1. L - j \in back
      OBVIOUS
    <3>2. b <= L - j
      BY <2>4, <3>1
    <3> HIDE DEF inner, back, L
    <3> QED BY <1>1, <2>1, <2>5, <3>2
  <2>7. f \in 1 .. L /\ l \in 1 .. L /\ f <= l
    <3> HIDE DEF inner
    <3> QED BY <2>1, <2>2
  <2>8. \A i \in 1 .. L : i < f \/ i > l => i \notin inner
    <3> HIDE DEF inner, L
    <3> QED BY <1>1, <2>1, <2>2, <2>6, <2>7
  <2>9. Core(value, ws, f, l)
    BY <1>1, <2>7, <2>8 DEF Core
  <2> QED BY <2>7, <2>9
<1> QED BY <1>2, <1>3

\* Values that begin and end with something else are as they are.
LEMMA NothingToTrim ==
    ASSUME NEW value \in Seq(Chars), NEW ws, value # <<>>,
           value[1] \notin ws, value[Len(value)] \notin ws
    PROVE  Trimmed(value, ws) = value
<1>1. Len(value) \in Nat /\ Len(value) >= 1
  OBVIOUS
<1>2. Core(value, ws, 1, Len(value))
  BY <1>1 DEF Core
<1>3. SubSeq(value, 1, Len(value)) = value
  OBVIOUS
<1> QED BY <1>2, <1>3, TrimmedCore

\* So is what is left of one.
LEMMA TrimmedEnds ==
    ASSUME NEW value \in Seq(Chars), NEW ws, Trimmed(value, ws) # <<>>
    PROVE  LET t == Trimmed(value, ws) IN
           t \in Seq(Chars) /\ t[1] \notin ws /\ t[Len(t)] \notin ws
<1>1. PICK f, l \in 1 .. Len(value) : Core(value, ws, f, l)
  BY CoreExists
<1> DEFINE t == SubSeq(value, f, l)
<1>2. /\ f <= l /\ value[f] \notin ws /\ value[l] \notin ws /\ Len(value) \in Nat
      /\ \A i \in f .. l : value[i] \in Chars
  BY <1>1 DEF Core
<1>3. /\ t \in Seq(Chars) /\ Len(t) = l - f + 1
      /\ \A j \in 1 .. l - f + 1 : t[j] = value[f + j - 1]
  BY <1>2
<1> HIDE DEF t
<1>4. t[1] = value[f] /\ t[Len(t)] = value[l]
  <2>1. 1 \in 1 .. l - f + 1 /\ l - f + 1 \in 1 .. l - f + 1 /\ f + 1 - 1 = f /\ f + (l - f + 1) - 1 = l
    BY <1>2
  <2> QED BY <1>3, <2>1
<1>5. Trimmed(value, ws) = t
  BY <1>1, TrimmedCore DEF t
<1> QED BY <1>2, <1>3, <1>4, <1>5

\* A space before and a tab after it.
LEMMA TrimmedAround ==
    ASSUME NEW form \in Seq(Chars), form # <<>>,
           form[1] \notin {"space", "tab"}, form[Len(form)] \notin {"space", "tab"}
    PROVE  trimOws(<<"space">> \o form \o <<"tab">>) = form
<1> DEFINE value == <<"space">> \o form \o <<"tab">>
           L == Len(form)
<1>1. L \in Nat /\ L >= 1 /\ "space" \in Chars /\ "tab" \in Chars
  BY DEF Chars
<1>2. /\ value \in Seq(Chars) /\ Len(value) = L + 2
      /\ value[1] = "space" /\ value[L + 2] = "tab"
      /\ \A i \in 1 .. L : value[i + 1] = form[i]
  <2> DEFINE a == <<"space">>
  <2>1. a \in Seq(Chars) /\ Len(a) = 1 /\ a[1] = "space"
    BY <1>1
  <2> DEFINE b == a \o form
  <2>2. /\ b \in Seq(Chars) /\ Len(b) = L + 1 /\ b[1] = "space"
        /\ \A i \in 1 .. L : b[i + 1] = form[i]
    BY <1>1, <2>1
  <2> HIDE DEF b
  <2>3. /\ b \o <<"tab">> \in Seq(Chars) /\ Len(b \o <<"tab">>) = (L + 1) + 1
        /\ \A i \in 1 .. L + 1 : (b \o <<"tab">>)[i] = b[i]
        /\ (b \o <<"tab">>)[(L + 1) + 1] = "tab"
    BY <1>1, <2>2
  <2>4. 1 \in 1 .. L + 1 /\ (L + 1) + 1 = L + 2 /\ \A i \in 1 .. L : i + 1 \in 1 .. L + 1
    BY <1>1
  <2>5. value = b \o <<"tab">>
    BY DEF b
  <2> HIDE DEF value, L
  <2> QED BY <2>2, <2>3, <2>4, <2>5
<1> HIDE DEF value
<1>3. Core(value, {"space", "tab"}, 2, L + 1)
  <2>1. value[2] = form[1] /\ value[L + 1] = form[L]
    BY <1>1, <1>2
  <2>2. ASSUME NEW i \in 1 .. L + 2, i < 2 \/ i > L + 1 PROVE i = 1 \/ i = L + 2
    BY <1>1, <2>2
  <2> QED BY <1>1, <1>2, <2>1, <2>2 DEF Core
<1> DEFINE t == SubSeq(value, 2, L + 1)
<1>4. /\ t \in Seq(Chars) /\ Len(t) = L
      /\ \A j \in 1 .. L : t[j] = value[j + 1]
  BY <1>1, <1>2
<1> HIDE DEF t
<1>5. t = form
  BY <1>2, <1>4, SeqEqual
<1>6. value \in Seq(Chars)
  BY <1>2
<1>7. Trimmed(value, {"space", "tab"}) = t
  BY <1>3, <1>6, TrimmedCore, Zenon DEF t
<1>8. trimOws(value) = t
  BY <1>7 DEF trimOws
<1> QED BY <1>5, <1>8 DEF value

-----------------------------------------------------------------------------
(* Key headers                                                             *)

LegalChars == Printable \cup {"space"}

LEMMA LegalCharsAre ==
    /\ LegalChars \subseteq Chars
    /\ \A c \in Chars : c \in LegalChars <=> c \notin {"tab", "control"}
    /\ "quote" \in Printable
BY DEF LegalChars, Printable, Chars

\* Legal keys.
LEMMA LegalKey ==
    ASSUME NEW key
    PROVE  key \in LegalKeys <=> key \in Seq(LegalChars) /\ key # <<>> /\ Len(key) <= MaxKeyBytes
<1>1. MaxKeyBytes \in Nat
  BY KeyBoundAssumption
<1>2. ASSUME NEW n \in 0 .. MaxKeyBytes, key \in [1 .. n -> LegalChars]
      PROVE  key \in Seq(LegalChars) /\ Len(key) <= MaxKeyBytes
  <2>1. n \in Nat /\ n <= MaxKeyBytes
    BY <1>1
  <2>2. key \in Seq(LegalChars)
    BY <1>2, <2>1, SeqDef
  <2>3. Len(key) = n
    <3>1. DOMAIN key = 1 .. n /\ Len(key) \in Nat /\ DOMAIN key = 1 .. Len(key)
      BY <1>2, <2>2
    <3> QED BY <2>1, <3>1
  <2> QED BY <2>1, <2>2, <2>3
<1>3. ASSUME key \in Seq(LegalChars), Len(key) <= MaxKeyBytes
      PROVE  key \in Strings(LegalChars, MaxKeyBytes)
  <2>1. Len(key) \in 0 .. MaxKeyBytes
    BY <1>1, <1>3
  <2>2. key \in [1 .. Len(key) -> LegalChars]
    BY <1>3
  <2> QED BY <2>1, <2>2 DEF Strings
<1>4. ASSUME key \in Strings(LegalChars, MaxKeyBytes)
      PROVE  key \in Seq(LegalChars) /\ Len(key) <= MaxKeyBytes
  <2>1. PICK n \in 0 .. MaxKeyBytes : key \in [1 .. n -> LegalChars]
    BY <1>4 DEF Strings
  <2> QED BY <1>2, <2>1
<1>5. LegalKeys = Strings(LegalChars, MaxKeyBytes) \ {<<>>}
  BY DEF LegalKeys, LegalChars
<1> QED BY <1>3, <1>4, <1>5

\* The forms of a key.
LEMMA QuotedHas ==
    ASSUME NEW key \in Seq(Chars)
    PROVE  LET s == Quoted(key) IN
           /\ s \in Seq(Chars) /\ s # <<>> /\ Len(s) >= 2
           /\ s[1] = "quote" /\ Head(s) = "quote" /\ s[Len(s)] = "quote"
           /\ From(s, 2) = Ending(key)
<1> DEFINE s == Quoted(key)
           e == Ending(key)
<1>1. PICK f : Spells(f, key)
  BY SpellsExists
<1>2. f[Len(key)] \in Seq(Chars)
  <2>1. Len(key) \in 0 .. Len(key)
    OBVIOUS
  <2> QED BY <1>1, <2>1 DEF Spells
<1>3. "quote" \in Chars
  BY DEF Chars
<1>4. e \in Seq(Chars) /\ Len(e) >= 1 /\ e[Len(e)] = "quote"
  <2> DEFINE g == f[Len(key)]
  <2>1. e = g \o <<"quote">>
    BY <1>1, EndingSpells
  <2>2. g \in Seq(Chars)
    BY <1>2
  <2> HIDE DEF g, e
  <2> QED BY <1>3, <2>1, <2>2
<1>5. s = <<"quote">> \o e
  BY QuotedEnds
<1> HIDE DEF s, e
<1>6. /\ s \in Seq(Chars) /\ Len(s) = Len(e) + 1 /\ s[1] = "quote"
      /\ \A j \in 2 .. Len(e) + 1 : s[j] = e[j - 1]
  BY <1>3, <1>4, <1>5, OneBefore
<1>7. s[Len(s)] = "quote" /\ Len(s) >= 2 /\ s # <<>>
  <2>1. Len(e) \in Nat
    BY <1>4
  <2>2. Len(e) + 1 \in 2 .. Len(e) + 1 /\ (Len(e) + 1) - 1 = Len(e)
    BY <1>4, <2>1
  <2>3. s[Len(s)] = "quote"
    BY <1>4, <1>6, <2>2
  <2>4. Len(s) >= 2
    BY <1>4, <1>6, <2>1
  <2>5. s # <<>>
    BY <2>4
  <2> QED BY <2>3, <2>4, <2>5
<1>8. Head(s) = "quote"
  BY <1>6, <1>7
<1>9. From(s, 2) = e
  <2>1. From(s, 1) = s
    BY <1>6 DEF From
  <2>2. Begins(s, 1, "quote", e)
    BY <1>5, <2>1 DEF Begins
  <2>3. 1 \in 1 .. Len(s) + 1
    BY <1>6
  <2>4. From(s, 1 + 1) = e
    BY <1>3, <1>4, <1>6, <2>2, <2>3, FromBegins
  <2> QED BY <2>4
<1> QED BY <1>6, <1>7, <1>8, <1>9 DEF s, e

\* A quoted key that is legal is parsed to itself.
LEMMA ParsesQuoted ==
    ASSUME NEW key \in Seq(LegalChars)
    PROVE  parseSfString(Quoted(key)) = Valid(key)
<1> DEFINE s == Quoted(key)
<1>1. key \in Seq(Chars)
  <2> HIDE DEF s
  <2> QED BY LegalCharsAre
<1>2. /\ s \in Seq(Chars) /\ s # <<>> /\ Len(s) >= 2
      /\ s[1] = "quote" /\ Head(s) = "quote" /\ s[Len(s)] = "quote"
      /\ From(s, 2) = Ending(key)
  BY <1>1, QuotedHas
<1> HIDE DEF s
<1>3. trimSpaces(s) = s
  <2>1. s \in Seq(Chars) /\ s # <<>> /\ s[1] \notin {"space"} /\ s[Len(s)] \notin {"space"}
    BY <1>2
  <2> QED BY <2>1, NothingToTrim DEF trimSpaces
<1>4. parseSfString(s) = Parsing(s)[2]
  BY <1>2, <1>3, ParsedByParsing
<1>5. 2 \in 2 .. Len(s) + 1
  BY <1>2
<1>6. Parsing(s)[2] = Valid(key)
  BY <1>2, <1>5, WrittenIsParsed DEF LegalChars
<1> QED BY <1>4, <1>6 DEF s

\* Whatever is parsed is a quoted key.
LEMMA ParsedQuoted ==
    ASSUME NEW t \in Seq(Chars), t # <<>>, t[1] # "space", t[Len(t)] # "space",
           parseSfString(t).ok
    PROVE  \E k \in Seq(Chars) : parseSfString(t) = Valid(k) /\ t = Quoted(k)
<1>1. trimSpaces(t) = t
  <2>1. t[1] \notin {"space"} /\ t[Len(t)] \notin {"space"}
    OBVIOUS
  <2> QED BY <2>1, NothingToTrim DEF trimSpaces
<1>2. ~Invalid.ok
  BY DEF Invalid
<1>3. parseSfString(t) = IF t = <<>> \/ Head(t) # "quote" THEN Invalid ELSE Parsing(t)[2]
  BY <1>1, ParsedByParsing
<1>4. Head(t) = "quote" /\ parseSfString(t) = Parsing(t)[2] /\ Parsing(t)[2] # Invalid
  BY <1>2, <1>3
<1>5. Len(t) \in Nat /\ Len(t) >= 1 /\ 2 \in 2 .. Len(t) + 2 /\ 1 \in 1 .. Len(t)
  OBVIOUS
<1>6. PICK k \in Seq(Chars) : Parsing(t)[2] = Valid(k) /\ From(t, 2) = Ending(k)
  BY <1>4, <1>5, ParsedIsWritten
<1>7. From(t, 1) = t /\ t[1] = Head(t)
  BY DEF From
<1>8. From(t, 1) = <<t[1]>> \o From(t, 1 + 1)
  BY <1>5, FromNext
<1>9. t = <<"quote">> \o From(t, 2)
  BY <1>4, <1>7, <1>8
<1>10. t = Quoted(k)
  BY <1>6, <1>9, QuotedEnds
<1> QED BY <1>4, <1>6, <1>10

\* validateKey is what makes a key legal.
LEMMA ValidatedKeys ==
    ASSUME NEW key \in Seq(Chars)
    PROVE  /\ validateKey(key, TRUE) <=> key \in LegalKeys
           /\ validateKey(key, FALSE) <=>
                key \in LegalKeys /\ \A i \in DOMAIN key : key[i] # "space"
<1>1. DOMAIN key = 1 .. Len(key) /\ \A i \in DOMAIN key : key[i] \in Chars
  OBVIOUS
<1>2. (\A i \in DOMAIN key : key[i] \in LegalChars) <=> key \in Seq(LegalChars)
  <2>1. ASSUME \A i \in DOMAIN key : key[i] \in LegalChars PROVE key \in Seq(LegalChars)
    <3>1. key = [i \in 1 .. Len(key) |-> key[i]] /\ Len(key) \in Nat
      OBVIOUS
    <3>2. key \in [1 .. Len(key) -> LegalChars]
      BY <1>1, <2>1, <3>1
    <3> QED BY <3>1, <3>2, SeqDef
  <2>2. ASSUME key \in Seq(LegalChars) PROVE \A i \in DOMAIN key : key[i] \in LegalChars
    BY <2>2
  <2> QED BY <2>1, <2>2
<1>3. \A c : c \in LegalChars <=> c \in Printable \/ c = "space"
  BY DEF LegalChars
<1>4. \A c : c \in Printable => c # "space"
  BY DEF Printable, Chars
<1>5. validateKey(key, TRUE) <=>
        key # <<>> /\ (\A i \in DOMAIN key : key[i] \in LegalChars) /\ Len(key) <= MaxKeyBytes
  BY <1>3 DEF validateKey
<1>6. validateKey(key, FALSE) <=>
        /\ key # <<>> /\ Len(key) <= MaxKeyBytes
        /\ \A i \in DOMAIN key : key[i] \in LegalChars /\ key[i] # "space"
  BY <1>3, <1>4 DEF validateKey
<1> QED BY <1>2, <1>5, <1>6, LegalKey

\* The two ways that a header is read.
QuotedWay(t, syntax) == syntax = "strict" \/ (t # <<>> /\ Head(t) = "quote")

LEMMA ParsesByWay ==
    ASSUME NEW value, NEW syntax
    PROVE  LET t == trimOws(value)
               parsed == IF QuotedWay(t, syntax) THEN parseSfString(t) ELSE Valid(t)
           IN  parseKey(value, syntax) = IF parsed.ok /\ validateKey(parsed.key, QuotedWay(t, syntax))
                                         THEN parsed ELSE Invalid
BY DEF parseKey, QuotedWay

LEMMA ValidHas == \A key : Valid(key).ok /\ Valid(key).key = key
BY DEF Valid

LEMMA InvalidHas == ~Invalid.ok
BY DEF Invalid

LEMMA TrimmedOws ==
    ASSUME NEW value \in Seq(Chars), trimOws(value) # <<>>
    PROVE  LET t == trimOws(value) IN
           /\ t \in Seq(Chars) /\ t[1] \notin {"space", "tab"} /\ t[Len(t)] \notin {"space", "tab"}
BY TrimmedEnds DEF trimOws

(***************************************************************************)
(* Every form of every legal key is accepted as that key, blanks around it *)
(* aside: keys of any length up to the limit, with any characters.         *)
(***************************************************************************)
THEOREM WrittenKeysAreAccepted ==
    ASSUME NEW syntax \in Syntaxes, NEW key \in LegalKeys, NEW form \in Written(key, syntax)
    PROVE  parseKey(<<"space">> \o form \o <<"tab">>, syntax) = Valid(key)
<1> DEFINE value == <<"space">> \o form \o <<"tab">>
<1>1. key \in Seq(LegalChars) /\ key # <<>> /\ Len(key) <= MaxKeyBytes
  BY LegalKey
<1>2. key \in Seq(Chars)
  BY <1>1, LegalCharsAre
<1>3. CASE form = Quoted(key)
  <2>1. /\ form \in Seq(Chars) /\ form # <<>>
        /\ form[1] = "quote" /\ Head(form) = "quote" /\ form[Len(form)] = "quote"
    BY <1>2, <1>3, QuotedHas
  <2>2. trimOws(value) = form
    <3>1. form[1] \notin {"space", "tab"} /\ form[Len(form)] \notin {"space", "tab"}
      BY <2>1
    <3> QED BY <2>1, <3>1, TrimmedAround
  <2> HIDE DEF value
  <2>3. QuotedWay(form, syntax)
    BY <2>1 DEF QuotedWay
  <2>4. parseSfString(form) = Valid(key)
    BY <1>1, <1>3, ParsesQuoted
  <2>5. validateKey(key, TRUE)
    BY <1>2, ValidatedKeys
  <2>6. parseKey(value, syntax) = Valid(key)
    BY <2>2, <2>3, <2>4, <2>5, ParsesByWay, ValidHas
  <2> QED BY <2>6 DEF value
<1>4. CASE /\ form = key /\ syntax = "lenient" /\ \A i \in DOMAIN key : key[i] # "space"
           /\ Head(key) # "quote"
  <2>1. /\ 1 \in DOMAIN key /\ Len(key) \in DOMAIN key
        /\ \A i \in DOMAIN key : key[i] \in LegalChars
    BY <1>1
  <2>2. \A i \in DOMAIN key : key[i] \notin {"space", "tab"}
    BY <1>4, <2>1, LegalCharsAre
  <2>3. trimOws(value) = key
    BY <1>1, <1>2, <1>4, <2>1, <2>2, TrimmedAround
  <2> HIDE DEF value
  <2>4. QuotedWay(key, syntax) = FALSE
    BY <1>4 DEF QuotedWay
  <2>5. validateKey(key, FALSE)
    BY <1>2, <1>4, ValidatedKeys
  <2>6. parseKey(value, syntax) = Valid(key)
    BY <2>3, <2>4, <2>5, ParsesByWay, ValidHas
  <2> QED BY <2>6 DEF value
<1> QED BY <1>3, <1>4 DEF Written

(***************************************************************************)
(* Nothing else is accepted: a header value of any length that is, is a    *)
(* form of the legal key that it is taken for.                             *)
(***************************************************************************)
THEOREM AcceptedKeysAreWritten ==
    ASSUME NEW syntax \in Syntaxes, NEW value \in Seq(Chars), parseKey(value, syntax).ok
    PROVE  /\ parseKey(value, syntax).key \in LegalKeys
           /\ trimOws(value) \in Written(parseKey(value, syntax).key, syntax)
           /\ trimOws(value) # <<>>
<1> DEFINE t == trimOws(value)
           way == QuotedWay(t, syntax)
           parsed == IF way THEN parseSfString(t) ELSE Valid(t)
<1>1. parsed.ok /\ validateKey(parsed.key, way) /\ parseKey(value, syntax) = parsed
  BY InvalidHas, ParsesByWay
<1>2. way \in BOOLEAN
  BY DEF QuotedWay
<1>3. CASE way
  <2>1. parsed = parseSfString(t) /\ validateKey(parsed.key, TRUE)
    BY <1>1, <1>3
  <2>2. t # <<>>
    <3>1. ASSUME t = <<>> PROVE FALSE
      <4>1. trimSpaces(<<>>) = <<>>
        BY DEF trimSpaces, Trimmed
      <4>2. parseSfString(<<>>) = Invalid
        BY <4>1, ParsedByParsing
      <4> QED BY <1>1, <2>1, <3>1, <4>2, InvalidHas
    <3> QED BY <3>1
  <2>3. t \in Seq(Chars) /\ t[1] # "space" /\ t[Len(t)] # "space"
    BY <2>2, TrimmedOws
  <2> HIDE DEF t
  <2>4. PICK k \in Seq(Chars) : parseSfString(t) = Valid(k) /\ t = Quoted(k)
    BY <1>1, <2>1, <2>2, <2>3, ParsedQuoted
  <2>5. parsed.key = k /\ k \in LegalKeys
    BY <2>1, <2>4, ValidHas, ValidatedKeys
  <2>6. t \in Written(k, syntax)
    BY <2>4 DEF Written
  <2> QED BY <1>1, <2>2, <2>5, <2>6 DEF t
<1>4. CASE ~way
  <2>1. parsed = Valid(t) /\ parsed.key = t /\ validateKey(t, FALSE)
    BY <1>1, <1>2, <1>4, ValidHas
  <2>2. t # <<>>
    BY <2>1 DEF validateKey
  <2>3. t \in Seq(Chars)
    BY <2>2, TrimmedOws
  <2>4. syntax = "lenient" /\ Head(t) # "quote"
    BY <1>4, <2>2 DEF QuotedWay, Syntaxes
  <2> HIDE DEF t
  <2>5. t \in LegalKeys /\ \A i \in DOMAIN t : t[i] # "space"
    BY <2>1, <2>3, ValidatedKeys
  <2>6. t \in Written(t, syntax)
    BY <2>4, <2>5 DEF Written
  <2> QED BY <1>1, <2>1, <2>2, <2>5, <2>6 DEF t
<1> QED BY <1>2, <1>3, <1>4

-----------------------------------------------------------------------------
(* Repeated headers                                                        *)

\* What escaping tells.
Writing(c, x) == Escaped(c) \o x

LEMMA EscapedTells ==
    ASSUME NEW c \in Chars, NEW d \in Chars, NEW x \in Seq(Chars), NEW y \in Seq(Chars),
           Writing(c, x) = Writing(d, y)
    PROVE  c = d /\ x = y
<1> DEFINE esc == {"quote", "backslash"}
<1>1. ASSUME NEW e \in Chars, NEW z \in Seq(Chars), e \in esc
      PROVE  /\ Writing(e, z)[1] = "backslash" /\ Writing(e, z)[2] = e
             /\ Tail(Tail(Writing(e, z))) = z
  <2>1. "backslash" \in Chars /\ <<e>> \o z \in Seq(Chars)
    BY DEF Chars
  <2>2. Writing(e, z) = <<"backslash">> \o (<<e>> \o z)
    <3>1. Escaped(e) = <<"backslash">> \o <<e>>
      BY <1>1 DEF Escaped
    <3>2. <<"backslash">> \in Seq(Chars) /\ <<e>> \in Seq(Chars)
      BY <2>1
    <3> QED BY <3>1, <3>2, Associates DEF Writing
  <2> DEFINE u == <<e>> \o z
  <2>3. u \in Seq(Chars) /\ u[1] = e /\ Tail(u) = z /\ Len(u) >= 1
    OBVIOUS
  <2> HIDE DEF u
  <2>4. (<<"backslash">> \o u)[1] = "backslash" /\ (<<"backslash">> \o u)[2] = u[1]
        /\ Tail(<<"backslash">> \o u) = u
    BY <2>1, <2>3
  <2> QED BY <2>2, <2>3, <2>4 DEF u
<1>2. ASSUME NEW e \in Chars, NEW z \in Seq(Chars), e \notin esc
      PROVE  Writing(e, z)[1] = e /\ Tail(Writing(e, z)) = z
  <2>1. Escaped(e) = <<e>>
    BY <1>2 DEF Escaped
  <2> QED BY <2>1 DEF Writing
<1>3. CASE c \in esc /\ d \in esc
  <2>1. Writing(c, x)[2] = c /\ Tail(Tail(Writing(c, x))) = x
    BY <1>1, <1>3
  <2>2. Writing(d, y)[2] = d /\ Tail(Tail(Writing(d, y))) = y
    BY <1>1, <1>3
  <2> QED BY <2>1, <2>2, Zenon
<1>4. CASE c \in esc /\ d \notin esc
  BY <1>1, <1>2, <1>4
<1>5. CASE c \notin esc /\ d \in esc
  BY <1>1, <1>2, <1>5
<1>6. CASE c \notin esc /\ d \notin esc
  BY <1>2, <1>6
<1> QED BY <1>3, <1>4, <1>5, <1>6

LEMMA WritingJoins ==
    ASSUME NEW c \in Chars, NEW x \in Seq(Chars), NEW y \in Seq(Chars)
    PROVE  Writing(c, x) \o y = Writing(c, x \o y) /\ x \o y \in Seq(Chars)
BY EscapedTyped, Associates, CharsJoin DEF Writing

\* No character is written as something that begins with a quote.
LEMMA EscapedBegins ==
    ASSUME NEW c \in Chars, NEW x \in Seq(Chars), NEW y \in Seq(Chars)
    PROVE  <<"quote">> \o x # Escaped(c) \o y
<1>1. (<<"quote">> \o x)[1] = "quote"
  BY QuoteTyped
<1>2. CASE c \in {"quote", "backslash"}
  <2>1. Escaped(c) = <<"backslash", c>> /\ <<"backslash", c>> \in Seq(Chars)
    BY <1>2 DEF Escaped, Chars
  <2>2. (<<"backslash", c>> \o y)[1] = "backslash"
    BY <2>1
  <2> QED BY <1>1, <2>1, <2>2
<1>3. CASE c \notin {"quote", "backslash"}
  <2>1. Escaped(c) = <<c>>
    BY <1>3 DEF Escaped
  <2>2. (<<c>> \o y)[1] = c
    OBVIOUS
  <2> QED BY <1>1, <1>3, <2>1, <2>2
<1> QED BY <1>2, <1>3

\* No key's ending begins with another's: after the closing quote, nothing comes.
LEMMA NothingAfterEnding ==
    ASSUME NEW k \in Seq(Chars), NEW j \in Seq(Chars), NEW x \in Seq(Chars),
           Ending(k) \o x = Ending(j)
    PROVE  x = <<>>
<1> DEFINE NoMore(n) == \A a, b, z \in Seq(Chars) :
                        Len(a) = n /\ Ending(a) \o z = Ending(b) => z = <<>>
           T == {n \in Nat : NoMore(n)}
<1>1. NoMore(0)
  <2> SUFFICES ASSUME NEW a \in Seq(Chars), NEW b \in Seq(Chars), NEW z \in Seq(Chars),
                      Len(a) = 0, Ending(a) \o z = Ending(b)
               PROVE  z = <<>>
    OBVIOUS
  <2>1. a = <<>>
    OBVIOUS
  <2>2. <<"quote">> \o z = Ending(b)
    BY <2>1, EndingEmpty
  <2>3. CASE b = <<>>
    <3>1. <<"quote">> \o z = <<"quote">>
      BY <2>2, <2>3, EndingEmpty
    <3>2. Len(<<"quote">> \o z) = 1 + Len(z) /\ Len(z) \in Nat
      BY QuoteTyped
    <3>3. Len(<<"quote">> \o z) = 1
      BY <3>1
    <3> DEFINE m == Len(<<"quote">> \o z)
    <3>4. m = 1 + Len(z) /\ Len(z) \in Nat /\ m = 1
      BY <3>2, <3>3
    <3> HIDE DEF m
    <3>5. Len(z) = 0
      BY <3>4
    <3> QED BY <3>5
  <2>4. CASE b # <<>>
    <3> DEFINE h == Head(b)
               r == Tail(b)
    <3>1. h \in Chars /\ r \in Seq(Chars) /\ b = <<h>> \o r
      BY <2>4, SplitsAtHead
    <3> HIDE DEF h, r
    <3>2. Ending(b) = Escaped(h) \o Ending(r) /\ Ending(r) \in Seq(Chars)
      BY <3>1, EndingNext, QuotedEnds
    <3> QED BY <2>2, <3>1, <3>2, EscapedBegins
  <2> QED BY <2>3, <2>4
<1>2. ASSUME NEW n \in Nat, NoMore(n)
      PROVE  NoMore(n + 1)
  <2> SUFFICES ASSUME NEW a \in Seq(Chars), NEW b \in Seq(Chars), NEW z \in Seq(Chars),
                      Len(a) = n + 1, Ending(a) \o z = Ending(b)
               PROVE  z = <<>>
    OBVIOUS
  <2> DEFINE c == Head(a)
             p == Tail(a)
  <2>1. c \in Chars /\ p \in Seq(Chars) /\ a = <<c>> \o p /\ Len(p) = n
    <3>1. a # <<>>
      OBVIOUS
    <3> QED BY <3>1, SplitsAtHead
  <2> HIDE DEF c, p
  <2>2. Ending(a) = Escaped(c) \o Ending(p) /\ Ending(p) \in Seq(Chars) /\ Escaped(c) \in Seq(Chars)
    BY <2>1, EndingNext, QuotedEnds, EscapedTyped
  <2>3. Ending(b) = Writing(c, Ending(p) \o z) /\ Ending(p) \o z \in Seq(Chars)
    <3>1. Ending(a) = Writing(c, Ending(p))
      BY <2>2 DEF Writing
    <3> DEFINE e == Ending(p)
    <3>2. e \in Seq(Chars)
      BY <2>2
    <3> HIDE DEF e
    <3>3. Writing(c, e) \o z = Writing(c, e \o z) /\ e \o z \in Seq(Chars)
      BY <2>1, <3>2, WritingJoins
    <3> QED BY <3>1, <3>3 DEF e
  <2>4. b # <<>>
    <3>1. ASSUME b = <<>> PROVE Ending(b) = <<"quote">> \o <<>>
      BY <3>1, EndingEmpty
    <3>2. <<>> \in Seq(Chars)
      OBVIOUS
    <3> QED BY <2>1, <2>3, <3>1, <3>2, EscapedBegins DEF Writing
  <2> DEFINE h == Head(b)
             r == Tail(b)
  <2>5. h \in Chars /\ r \in Seq(Chars) /\ b = <<h>> \o r
    BY <2>4, SplitsAtHead
  <2> HIDE DEF h, r
  <2>6. Ending(b) = Writing(h, Ending(r)) /\ Ending(r) \in Seq(Chars)
    BY <2>5, EndingNext, QuotedEnds DEF Writing
  <2>7. Ending(p) \o z = Ending(r)
    <3> DEFINE u == Ending(p) \o z
               v == Ending(r)
    <3>1. u \in Seq(Chars) /\ v \in Seq(Chars) /\ Writing(c, u) = Writing(h, v)
      BY <2>3, <2>6
    <3> HIDE DEF u, v
    <3>2. u = v
      BY <2>1, <2>5, <3>1, EscapedTells
    <3> QED BY <3>2 DEF u, v
  <2> QED BY <1>2, <2>1, <2>5, <2>7
<1>3. \A n \in Nat : n \in T
  <2>1. 0 \in T
    BY <1>1
  <2>2. ASSUME NEW n \in Nat, n \in T PROVE n + 1 \in T
    <3> HIDE DEF NoMore
    <3> QED BY <1>2, <2>2
  <2> HIDE DEF T
  <2> QED BY <2>1, <2>2, SetInduction
<1>4. Len(k) \in Nat
  OBVIOUS
<1> QED BY <1>3, <1>4

LEMMA CharsConcat ==
    ASSUME NEW a \in Seq(Chars), NEW b \in Seq(Chars)
    PROVE  /\ a \o b \in Seq(Chars) /\ Len(a \o b) = Len(a) + Len(b)
           /\ \A i \in 1 .. Len(a) : (a \o b)[i] = a[i]
           /\ \A i \in 1 .. Len(b) : (a \o b)[Len(a) + i] = b[i]
<1>1. Len(a) \in Nat /\ Len(b) \in Nat
  OBVIOUS
<1>2. /\ a \o b \in Seq(Chars) /\ Len(a \o b) = Len(a) + Len(b)
      /\ \A i \in 1 .. Len(a) + Len(b) :
            (a \o b)[i] = IF i <= Len(a) THEN a[i] ELSE b[i - Len(a)]
  BY ConcatProperties, Zenon
<1>3. ASSUME NEW i \in 1 .. Len(a) PROVE (a \o b)[i] = a[i]
  <2>1. i \in 1 .. Len(a) + Len(b) /\ i <= Len(a)
    BY <1>1
  <2> QED BY <1>2, <2>1
<1>4. ASSUME NEW i \in 1 .. Len(b) PROVE (a \o b)[Len(a) + i] = b[i]
  <2>1. Len(a) + i \in 1 .. Len(a) + Len(b) /\ ~(Len(a) + i <= Len(a)) /\ (Len(a) + i) - Len(a) = i
    BY <1>1
  <2> QED BY <1>2, <2>1
<1> QED BY <1>2, <1>3, <1>4

\* Where the parts of two joined values are.
LEMMA JoinedHas ==
    ASSUME NEW v \in Seq(Chars), NEW w \in Seq(Chars)
    PROVE  LET both == Joined(v, w)
               n == Len(v)
           IN  /\ both \in Seq(Chars) /\ Len(both) = n + 2 + Len(w)
               /\ \A i \in 1 .. n : both[i] = v[i]
               /\ both[n + 1] = "comma" /\ both[n + 2] = "space"
               /\ \A i \in 1 .. Len(w) : both[n + 2 + i] = w[i]
<1> DEFINE n == Len(v)
           s == <<"comma", "space">>
           a == v \o s
           both == a \o w
<1>1. /\ n \in Nat /\ s \in Seq(Chars) /\ Len(s) = 2 /\ s[1] = "comma" /\ s[2] = "space"
  BY DEF Chars
<1> HIDE DEF s
<1>2. /\ a \in Seq(Chars) /\ Len(a) = n + 2
      /\ \A i \in 1 .. n : a[i] = v[i]
      /\ a[n + 1] = "comma" /\ a[n + 2] = "space"
  <2>1. s \in Seq(Chars)
    BY <1>1
  <2>2. /\ a \in Seq(Chars) /\ Len(a) = n + Len(s)
        /\ \A i \in 1 .. n : a[i] = v[i]
        /\ \A i \in 1 .. Len(s) : a[n + i] = s[i]
    BY <2>1, CharsConcat, Zenon
  <2> HIDE DEF a
  <2> QED BY <1>1, <2>2
<1> HIDE DEF a
<1>3. /\ both \in Seq(Chars) /\ Len(both) = n + 2 + Len(w)
      /\ \A i \in 1 .. n + 2 : both[i] = a[i]
      /\ \A i \in 1 .. Len(w) : both[n + 2 + i] = w[i]
  <2>1. a \in Seq(Chars)
    BY <1>2
  <2>2. /\ both \in Seq(Chars) /\ Len(both) = Len(a) + Len(w)
        /\ \A i \in 1 .. Len(a) : both[i] = a[i]
        /\ \A i \in 1 .. Len(w) : both[Len(a) + i] = w[i]
    BY <2>1, CharsConcat, Zenon
  <2> HIDE DEF both
  <2> QED BY <1>1, <1>2, <2>2
<1> HIDE DEF both
<1>4. (\A i \in 1 .. n : i \in 1 .. n + 2) /\ n + 1 \in 1 .. n + 2 /\ n + 2 \in 1 .. n + 2
  BY <1>1
<1>5. Joined(v, w) = both
  BY DEF Joined, both, a, s
<1> QED BY <1>2, <1>3, <1>4, <1>5

\* Two values that are not blank, joined: what is left of the first, and more after
\* it, in which there is a space.
LEMMA JoinedTrims ==
    ASSUME NEW v \in Seq(Chars), NEW w \in Seq(Chars), trimOws(v) # <<>>, trimOws(w) # <<>>
    PROVE  LET t == trimOws(Joined(v, w)) IN
           /\ t \in Seq(Chars)
           /\ \E i \in DOMAIN t : t[i] = "space"
           /\ \E x \in Seq(Chars) : x # <<>> /\ t = trimOws(v) \o x
<1> DEFINE ws == {"space", "tab"}
           n == Len(v)
           m == Len(w)
           both == Joined(v, w)
<1>1. PICK f, l \in 1 .. n : Core(v, ws, f, l)
  BY CoreExists DEF trimOws
<1>2. PICK g, h \in 1 .. m : Core(w, ws, g, h)
  BY CoreExists DEF trimOws
<1>3. /\ both \in Seq(Chars) /\ Len(both) = n + 2 + m
      /\ \A i \in 1 .. n : both[i] = v[i]
      /\ both[n + 1] = "comma" /\ both[n + 2] = "space"
      /\ \A i \in 1 .. m : both[n + 2 + i] = w[i]
  BY JoinedHas
<1>4. n \in Nat /\ m \in Nat
  OBVIOUS
<1> HIDE DEF n, m, both, ws
<1>5. /\ f \in 1 .. n /\ l \in 1 .. n /\ f <= l /\ v[f] \notin ws
      /\ \A i \in 1 .. n : i < f => v[i] \in ws
      /\ h \in 1 .. m /\ w[h] \notin ws
      /\ \A i \in 1 .. m : i > h => w[i] \in ws
  BY <1>1, <1>2 DEF Core, n, m
<1> DEFINE z == n + 2 + h
           t == SubSeq(both, f, z)
<1>6. Core(both, ws, f, z)
  <2>1. /\ f \in 1 .. n + 2 + m /\ z \in 1 .. n + 2 + m /\ f <= z
    BY <1>4, <1>5
  <2>2. both[f] \notin ws /\ both[z] \notin ws
    BY <1>3, <1>5
  <2>3. ASSUME NEW i \in 1 .. n + 2 + m, i < f PROVE both[i] \in ws
    <3>1. i \in 1 .. n
      BY <1>4, <1>5, <2>3
    <3> QED BY <1>3, <1>5, <2>3, <3>1
  <2>4. ASSUME NEW i \in 1 .. n + 2 + m, i > z PROVE both[i] \in ws
    <3>1. i - (n + 2) \in 1 .. m /\ i - (n + 2) > h /\ n + 2 + (i - (n + 2)) = i
      BY <1>4, <1>5, <2>4
    <3>2. both[i] = w[i - (n + 2)]
      BY <1>3, <3>1
    <3> QED BY <1>5, <3>1, <3>2
  <2> QED BY <1>3, <2>1, <2>2, <2>3, <2>4 DEF Core
<1>7. trimOws(both) = t
  <2>1. both \in Seq(Chars)
    BY <1>3
  <2> HIDE DEF z
  <2>2. Trimmed(both, ws) = SubSeq(both, f, z)
    BY <1>6, <2>1, TrimmedCore
  <2> QED BY <2>2 DEF trimOws, ws
<1>8. trimOws(v) = SubSeq(v, f, l)
  BY <1>1, TrimmedCore, Zenon DEF trimOws, ws
<1> DEFINE x == SubSeq(both, l + 1, z)
           y == SubSeq(v, f, l)
<1>9. /\ t \in Seq(Chars) /\ Len(t) = z - f + 1 /\ DOMAIN t = 1 .. z - f + 1
      /\ \A i \in 1 .. z - f + 1 : t[i] = both[f + i - 1]
  BY <1>3, <1>4, <1>5
<1>10. /\ x \in Seq(Chars) /\ Len(x) = z - l
       /\ \A i \in 1 .. z - l : x[i] = both[l + i]
  BY <1>3, <1>4, <1>5
<1>11. /\ y \in Seq(Chars) /\ Len(y) = l - f + 1
       /\ \A i \in 1 .. l - f + 1 : y[i] = v[f + i - 1]
  BY <1>4, <1>5 DEF n
<1>12. z \in Nat /\ z = n + 2 + h
  BY <1>4, <1>5
<1> HIDE DEF t, x, y, z
<1>13. \E i \in DOMAIN t : t[i] = "space"
  <2> DEFINE i == n + 2 - f + 1
  <2>1. i \in 1 .. z - f + 1 /\ f + i - 1 = n + 2
    BY <1>4, <1>5, <1>12
  <2> QED BY <1>3, <1>9, <2>1
<1>14. x # <<>>
  <2>1. Len(x) >= 2
    BY <1>4, <1>5, <1>10, <1>12
  <2> QED BY <2>1
<1>15. t = y \o x
  <2>1. /\ y \o x \in Seq(Chars) /\ Len(y \o x) = Len(y) + Len(x)
        /\ \A i \in 1 .. Len(y) : (y \o x)[i] = y[i]
        /\ \A i \in 1 .. Len(x) : (y \o x)[Len(y) + i] = x[i]
    <3>1. y \in Seq(Chars) /\ x \in Seq(Chars)
      BY <1>10, <1>11
    <3> QED BY <3>1, CharsConcat, Zenon
  <2>2. Len(y \o x) = z - f + 1
    BY <1>4, <1>5, <1>10, <1>11, <1>12, <2>1
  <2>3. ASSUME NEW i \in 1 .. z - f + 1
        PROVE  t[i] = (y \o x)[i]
    <3>1. t[i] = both[f + i - 1]
      BY <1>9
    <3>2. CASE i <= l - f + 1
      <4>1. i \in 1 .. l - f + 1 /\ f + i - 1 \in 1 .. n
        BY <1>4, <1>5, <1>12, <3>2
      <4>2. (y \o x)[i] = v[f + i - 1]
        BY <1>11, <2>1, <4>1
      <4> QED BY <1>3, <3>1, <4>1, <4>2
    <3>3. CASE i > l - f + 1
      <4> DEFINE j == i - (l - f + 1)
      <4>1. j \in 1 .. z - l /\ l + j = f + i - 1
        BY <1>4, <1>5, <1>12, <3>3
      <4>2. (y \o x)[i] = x[j]
        <5>1. j \in 1 .. Len(x) /\ Len(y) + j = i
          BY <1>4, <1>5, <1>10, <1>11, <1>12, <3>3, <4>1
        <5> QED BY <2>1, <5>1
      <4>3. x[j] = both[l + j]
        BY <1>10, <4>1
      <4> QED BY <3>1, <4>1, <4>2, <4>3
    <3>4. i \in Nat /\ l \in Nat /\ f \in Nat
      BY <1>4, <1>5, <1>12
    <3>5. i <= l - f + 1 \/ i > l - f + 1
      BY <3>4
    <3> QED BY <3>2, <3>3, <3>5
  <2> QED BY <1>9, <2>1, <2>2, <2>3, SeqEqual
<1> QED BY <1>7, <1>8, <1>9, <1>10, <1>13, <1>14, <1>15 DEF both, y

(***************************************************************************)
(* Two keys are never taken for one: Headers.get joins the values of a     *)
(* repeated header, and what two accepted values make together is never a  *)
(* form of a key.                                                          *)
(***************************************************************************)
THEOREM JoinedKeysAreRefused ==
    ASSUME NEW syntax \in Syntaxes, NEW v \in Seq(Chars), NEW w \in Seq(Chars),
           parseKey(v, syntax).ok, parseKey(w, syntax).ok
    PROVE  ~parseKey(Joined(v, w), syntax).ok
<1> SUFFICES ASSUME parseKey(Joined(v, w), syntax).ok PROVE FALSE
  OBVIOUS
<1> DEFINE both == Joined(v, w)
           t == trimOws(both)
           u == trimOws(v)
           a == parseKey(v, syntax).key
           k == parseKey(both, syntax).key
<1>1. both \in Seq(Chars)
  BY JoinedHas
<1>2. a \in LegalKeys /\ u \in Written(a, syntax) /\ u # <<>> /\ trimOws(w) # <<>>
  BY AcceptedKeysAreWritten
<1>3. k \in LegalKeys /\ t \in Written(k, syntax)
  BY <1>1, AcceptedKeysAreWritten
<1>4. a \in Seq(Chars) /\ a # <<>> /\ k \in Seq(Chars) /\ u \in Seq(Chars)
  <2>1. a \in Seq(LegalChars) /\ a # <<>> /\ k \in Seq(LegalChars)
    BY <1>2, <1>3, LegalKey
  <2>2. u \in Seq(Chars)
    BY <1>2, TrimmedOws
  <2> HIDE DEF a, k, u, t, both
  <2> QED BY <2>1, <2>2, LegalCharsAre
<1>5. /\ t \in Seq(Chars) /\ \E i \in DOMAIN t : t[i] = "space"
      /\ \E x \in Seq(Chars) : x # <<>> /\ t = u \o x
  BY <1>2, JoinedTrims
<1> HIDE DEF both, t, u, a, k
<1>6. PICK x \in Seq(Chars) : x # <<>> /\ t = u \o x
  BY <1>5
<1>7. t[1] = u[1] /\ u[1] = Head(u)
  <2>1. 1 \in 1 .. Len(u) /\ u[1] = Head(u)
    BY <1>2, <1>4
  <2>2. (u \o x)[1] = u[1]
    BY <1>4, <2>1, CharsConcat
  <2> QED BY <1>6, <2>1, <2>2
<1>8. CASE t = Quoted(k)
  <2>1. t[1] = "quote"
    BY <1>4, <1>8, QuotedHas
  <2>2. u = Quoted(a)
    <3>1. u = Quoted(a) \/ (u = a /\ Head(a) # "quote")
      BY <1>2 DEF Written
    <3> QED BY <1>7, <2>1, <3>1
  <2> DEFINE e == Ending(a)
             d == Ending(k)
             q == <<"quote">>
  <2>3. u = q \o e /\ e \in Seq(Chars) /\ t = q \o d /\ d \in Seq(Chars)
    BY <1>4, <1>8, <2>2, QuotedEnds
  <2>4. q \in Seq(Chars)
    BY QuoteTyped
  <2> HIDE DEF e, d, q
  <2>5. (q \o e) \o x = q \o (e \o x) /\ e \o x \in Seq(Chars)
    BY <2>3, <2>4, Associates, CharsJoin
  <2>6. q \o (e \o x) = q \o d
    BY <1>6, <2>3, <2>5
  <2>7. e \o x = d
    BY <2>3, <2>4, <2>5, <2>6, CancelLeft
  <2>8. x = <<>>
    BY <1>4, <2>7, NothingAfterEnding DEF e, d
  <2> QED BY <1>6, <2>8
<1>9. CASE t # Quoted(k)
  <2>1. t = k /\ \A i \in DOMAIN k : k[i] # "space"
    BY <1>3, <1>9 DEF Written
  <2> QED BY <1>5, <2>1
<1> QED BY <1>8, <1>9

LEMMA StringsAreSeqs ==
    ASSUME NEW cs, NEW max \in Nat
    PROVE  Strings(cs, max) \subseteq Seq(cs)
<1> SUFFICES ASSUME NEW n \in 0 .. max, NEW s \in [1 .. n -> cs]
             PROVE  s \in Seq(cs)
  BY DEF Strings
<1>1. n \in Nat
  OBVIOUS
<1> QED BY <1>1, SeqDef

\* So for the header values that TLC enumerates: parseKey accepts the written forms of
\* legal keys and nothing else, and no two keys at once.
THEOREM KeysAreParsed == ParsesAsWritten /\ RefusesTwoKeys
<1>1. AcceptsWritten
  BY WrittenKeysAreAccepted DEF AcceptsWritten
<1>2. MaxHeaderChars \in Nat /\ MaxHeaderChars - 2 \in Nat
  BY KeyBoundAssumption
<1>3. AcceptsOnlyWritten
  <2>1. Strings(Chars, MaxHeaderChars) \subseteq Seq(Chars)
    BY <1>2, StringsAreSeqs
  <2> QED BY <2>1, AcceptedKeysAreWritten DEF AcceptsOnlyWritten
<1>4. RefusesTwoKeys
  <2>1. Strings(Chars, MaxHeaderChars - 2) \subseteq Seq(Chars)
    BY <1>2, StringsAreSeqs
  <2> QED BY <2>1, JoinedKeysAreRefused DEF RefusesTwoKeys, Accepted
<1> QED BY <1>1, <1>3, <1>4 DEF ParsesAsWritten

=============================================================================
