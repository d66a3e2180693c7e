------------------------------- MODULE Scopes -------------------------------
(***************************************************************************)
(* Where an operation's row is: the scope that a door gives it (request.ts *)
(* and the Hono adapter, the webhook receiver) and the name that a store   *)
(* makes of scope and key.                                                 *)
(*                                                                         *)
(* Names are sequences of characters, as in KeySyntax; a path has a slash, *)
(* "hash" is the sign before a principal, and the unit separator, as NUL,  *)
(* is a control character.                                                 *)
(***************************************************************************)
EXTENDS KeySyntax, FiniteSets

-----------------------------------------------------------------------------
(* Scopes                                                                  *)

\* The default without a router.
defaultScope(req) == <<req.method, "space">> \o req.path

\* The default in Hono: the pattern of the endpoint, if the request came to one,
\* and not that of the middleware.
idempotency(req) ==
    <<req.method, "space">> \o (IF req.pattern # <<>> THEN req.pattern ELSE req.path)

\* A principal that is empty is none.
resolveScope(base, principal, requirePrincipal) ==
    IF principal = <<>> THEN [ok |-> ~requirePrincipal, scope |-> base]
    ELSE [ok |-> TRUE, scope |-> base \o <<"hash">> \o principal]

\* The options of a webhook receiver that can be constructed: a scope of its own,
\* or sources, or neither, and never a marker without a name.
WebhookOptions ==
    {o \in [scope : SUBSET {<<"letter">>}, sourceId : BOOLEAN, verifiedMarker : SUBSET {<<>>, <<"letter">>}] :
        ~(o.scope # {} /\ o.sourceId) /\ <<>> \notin o.verifiedMarker}

\* The scope of the options, or the route with the source that they find.
webhookScope(o, route, source) ==
    CASE o.scope # {} -> CHOOSE scope \in o.scope : TRUE
      [] o.scope = {} /\ (~o.sourceId \/ source = <<>>) -> route
      [] OTHER -> route \o <<"slash">> \o source

-----------------------------------------------------------------------------
(* The names of rows                                                       *)

mapKey(scope, key) == scope \o <<"control">> \o key

keyFor(scope, key) == <<"prefix">> \o scope \o <<"control">> \o key

\* Mutant: scope and key are joined with a character that both may have.
itemKeyPrintable(scope, key) == scope \o <<"comma">> \o key

itemKey(scope, key) == scope \o <<"control">> \o key

\* The scope and the key of an item, split at the first separator.
itemToRow(pk) ==
    LET seps == {i \in DOMAIN pk : pk[i] = "control"}
        at == CHOOSE i \in seps : \A j \in seps : i <= j
    IN  IF seps = {} THEN [scope |-> pk, key |-> <<>>]
        ELSE [scope |-> SubSeq(pk, 1, at - 1), key |-> SubSeq(pk, at + 1, Len(pk))]

\* The object of a row, of the scope or of the scope and the key.
stub(shard, scope, key) == IF shard = "scope" THEN scope ELSE scope \o <<"control">> \o key

\* SQL rows have scope and key as their primary key, in an object's database too.
RowName(store, scope, key) ==
    CASE store = "memory" -> mapKey(scope, key)
      [] store = "redis" -> keyFor(scope, key)
      [] store = "dynamodb" -> itemKey(scope, key)
      [] store = "sql" -> <<scope, key>>
      [] OTHER -> <<stub(store, scope, key), <<scope, key>>>>

RowStores == {"memory", "redis", "dynamodb", "sql", "scope", "scope-key"}

-----------------------------------------------------------------------------
(* Who shares a row with whom                                              *)

\* Any character may be in a principal or in the name of a source.
Principals == Strings({"letter", "comma", "slash", "hash", "control"}, 2)
SomeKeys == {k \in LegalKeys : Len(k) <= 2 /\ \A i \in DOMAIN k : k[i] \in {"letter", "comma"}}

\* Requests that came to the endpoint of a pattern, or to none.
Paths == {<<"slash">>, <<"slash", "letter">>, <<"slash", "comma">>}
Routed == [method : {"POST", "PATCH"}, path : Paths, pattern : {<<>>, <<"slash", "param">>}]

\* The endpoint is what a caller means by the place: a pattern, or the path.
Endpoint(req) == <<req.method, IF req.pattern # <<>> THEN req.pattern ELSE req.path>>

\* The row of a request of a principal with a key.
HttpRow(store, caller) ==
    RowName(store, resolveScope(idempotency(caller[1]), caller[2], FALSE).scope, caller[3])

\* All rows of callers are different that differ in endpoint, principal or key,
\* and there is one row for those that do not.
HttpRowsApart(store) ==
    LET callers == Routed \X Principals \X SomeKeys IN
    Cardinality({HttpRow(store, c) : c \in callers})
      = Cardinality({<<Endpoint(c[1]), c[2], c[3]>> : c \in callers})

\* So are those of the sources of one route, where there are any.  (Two routes of
\* which one continues the other can meet: /hooks with the source a/b, /hooks/a with
\* the source b.)  None is a request's row.
WebhookRowsApart(store) ==
    \A o \in WebhookOptions :
        LET senders == Principals \X SomeKeys
            rows == {RowName(store, webhookScope(o, <<"slash", "letter">>, s[1]), s[2]) : s \in senders}
        IN  /\ o.sourceId => Cardinality(rows) = Cardinality(senders)
            /\ rows \cap {HttpRow(store, c) : c \in Routed \X Principals \X SomeKeys} = {}

\* An item says whose row it is, if no principal has the separator in its name.
ItemsNamed ==
    \A scope \in Principals, key \in SomeKeys :
        "control" \notin {scope[i] : i \in DOMAIN scope} =>
            itemToRow(itemKey(scope, key)) = [scope |-> scope, key |-> key]

RowsApart ==
    ItemsNamed /\ \A store \in RowStores : HttpRowsApart(store) /\ WebhookRowsApart(store)

=============================================================================
