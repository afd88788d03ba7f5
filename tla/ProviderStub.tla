---------------------------- MODULE ProviderStub ----------------------------
(* The provider stubs of the connector proofs, one request at a time:        *)
(* src/tools/oauth_provider_stub.py, the token broker of the test-account    *)
(* lane and the GET-only stub of the read-only validation.                   *)
EXTENDS Integers, FiniteSets

Kinds == {"gmail", "calendar", "github"}

NewStub(writes, scopes) ==
    [writes |-> writes,          \* AETHERIS_OAUTH_STUB_WRITE_MUTATIONS
     scopes |-> scopes,          \* AETHERIS_OAUTH_STUB_WRITE_SCOPES
     counter |-> 0, tokens |-> {},
     unsafe |-> 0, write |-> 0, posts |-> [k \in Kinds |-> 0]]

Reply(status, stub) == [status |-> status, then |-> stub, token |-> 0, scopes |-> "none"]

(* POST /github/token and /google/token.  A grant names its client, its type *)
(* and whether code and verifier, or the refresh token, are there; a new     *)
(* token and its refresh token carry the number of the grant.                *)
Asked(g) == g.type \in {"authorization_code", "refresh_token"} /\ g.complete
\* Mutant: the token that is handed out is not remembered.
IssuedForgotten(stub) == [stub EXCEPT !.counter = @ + 1]
Issued(stub) == [stub EXCEPT !.counter = @ + 1, !.tokens = @ \cup {stub.counter + 1}]
Grant(stub, g) ==
    IF g.client # "configured" THEN Reply(401, stub)
    ELSE IF ~Asked(g) THEN Reply(400, stub)
    ELSE [status |-> 200, token |-> stub.counter + 1,
          scopes |-> IF stub.scopes THEN "write" ELSE "read", then |-> Issued(stub)]

(* Every other POST: the switch comes before the token, the token before the *)
(* path, the path before the fields; only the switch and the path count as   *)
(* unsafe, and only a complete request as a write.                           *)
Forbidden(stub) == Reply(405, [stub EXCEPT !.unsafe = @ + 1])
Written(stub, kind) == [stub EXCEPT !.posts[kind] = @ + 1, !.write = @ + 1]
Post(stub, kind, token, complete) ==
    IF ~stub.writes THEN Forbidden(stub)
    ELSE IF token \notin stub.tokens THEN Reply(401, stub)
    ELSE IF kind \notin Kinds THEN Forbidden(stub)
    ELSE IF ~complete THEN Reply(400, stub)
    ELSE Reply(IF kind = "github" THEN 201 ELSE 200, Written(stub, kind))

(* GET: health and metrics are open, the identities and the data of an       *)
(* account need a token, and nothing a GET does changes the stub.            *)
Reads == {"user", "userinfo", "repos", "messages", "events"}
Get(stub, path, token) ==
    IF path \in {"health", "metrics"} \/ (path \in Reads /\ token \in stub.tokens) THEN Reply(200, stub)
    ELSE Reply(IF path \in Reads THEN 401 ELSE 404, stub)

Metrics(stub) ==
    [unsafe |-> stub.unsafe, issued |-> Cardinality(stub.tokens), write |-> stub.write,
     gmail |-> stub.posts["gmail"], calendar |-> stub.posts["calendar"],
     github |-> stub.posts["github"]]
-----------------------------------------------------------------------------
(* The broker hands out the owner's own tokens instead, for an authorization *)
(* code only; which Google token, the text of the code tells.                *)
BrokerGrant(tokens, g, provider) ==
    IF g.type # "authorization_code" \/ ~g.complete THEN 400
    ELSE IF g.client # "configured" THEN 401
    ELSE IF provider \in tokens THEN 200
    ELSE IF provider = "github" THEN 401 ELSE 400

BrokerReady(tokens) == Kinds \subseteq tokens
BrokerKnows(tokens, provider, path) ==
    IF path = "user" THEN provider = "github" /\ provider \in tokens ELSE provider \in tokens

(* The GET-only stub asks for no token.                                      *)
ReadOnlyGet(path) == IF path \in Reads \cup {"health", "metrics"} THEN 200 ELSE 404
=============================================================================
