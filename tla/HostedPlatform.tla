--------------------------- MODULE HostedPlatform ---------------------------
(* The Compose platform as the hosted runtime proofs under src/tools see it: *)
(* which services run, what the two databases and Redis hold, the breaker of *)
(* the user-read route, and what one step of a proof does to all that.       *)
EXTENDS ProofSteps, FiniteSets

CONSTANTS WindowSize, MinimumCalls, Permitted, Retries   \* as in GatewayCircuit

Core == {"gateway", "identity-service", "user-service", "audit-service"}
Stores == {"postgres", "redis", "rabbitmq"}
Observers == {"prometheus", "loki", "tempo", "grafana", "otel-collector", "alloy",
              "orchestrator-service"}
Services == Core \cup Stores \cup Observers

Nothing == [from |-> "nowhere", users |-> {}]
EmptyStore == [accounts |-> {}, users |-> {}, tokens |-> <<>>]

(* A platform the proof finds: fresh, or used by an earlier run of the same  *)
(* proof; the breaker has seen some successful reads.                        *)
Found(used, reads) ==
    [up |-> Services,
     data |-> [main |-> [EmptyStore EXCEPT !.accounts = IF used THEN {"fixed"} ELSE {},
                                           !.users = IF used THEN {"fixed"} ELSE {}],
               copy |-> EmptyStore],
     copies |-> "none",           \* the recovery database: none, empty or restored
     dump |-> EmptyStore,
     list |-> Nothing,            \* usersList::* in Redis
     byId |-> FALSE,              \* userById::* in Redis
     audit |-> {},
     temp |-> {},                 \* containers of docker compose run
     breaker |-> "CLOSED",
     window |-> [k \in 1..reads |-> "success"],
     denied |-> 0,                \* notPermittedCalls
     baseline |-> EmptyStore,     \* what the proof remembers
     counted |-> 0]

Runs(p, s) == s \subseteq p.up
-----------------------------------------------------------------------------
(* The breaker of the read route, one call at a time (see GatewayCircuit).   *)
Latest(s, n) == IF Len(s) <= n THEN s ELSE SubSeq(s, Len(s) - n + 1, Len(s))
TooMany(s) == 2 * Cardinality({k \in DOMAIN s : s[k] = "failure"}) >= Len(s)
Reset(p, state) == [p EXCEPT !.breaker = state, !.window = <<>>]

Recorded(p, result) ==
    LET closed == Latest(Append(p.window, result), WindowSize)
        probed == Append(p.window, result) IN
    CASE p.breaker = "CLOSED" ->
           IF Len(closed) >= MinimumCalls /\ TooMany(closed) THEN Reset(p, "OPEN")
           ELSE [p EXCEPT !.window = closed]
      [] p.breaker = "HALF_OPEN" ->
           IF Len(probed) < Permitted THEN [p EXCEPT !.window = probed]
           ELSE Reset(p, IF TooMany(probed) THEN "OPEN" ELSE "CLOSED")
      [] OTHER -> [p EXCEPT !.denied = @ + 1]

(* GET /api/users of the user service on one database: Redis first, and one  *)
(* Redis for every user service there is.                                    *)
Answer(p, db) == IF p.list # Nothing THEN p.list
                 ELSE [from |-> db, users |-> p.data[db].users]
Filled(p, db) == [p EXCEPT !.list = Answer(p, db)]

(* Up to Retries + 1 calls, each recorded; the fallback answers 503.         *)
Refused(p) ==
    LET after[n \in 1..(Retries + 1)] ==
            Recorded(IF n = 1 THEN p ELSE after[n - 1], "failure")
    IN  {after[n] : n \in 1..(Retries + 1)}

(* Whether a user service that is there serves a read.  Its read-only        *)
(* transaction takes a connection before Redis is asked or, in the other     *)
(* order of the advices, afterwards: without Postgres a cached answer may    *)
(* come or not.                                                              *)
Serving(p, there, cached) ==
    IF there /\ Runs(p, {"redis"}) THEN {"postgres" \in p.up} \cup {c \in {cached} : c}
    ELSE {FALSE}

(* A read through the gateway with a valid access token: status and the      *)
(* platform after it; 0 when nothing listens.                                *)
GatewayRead(p) ==
    IF "gateway" \notin p.up THEN {[status |-> 0, then |-> p]}
    ELSE UNION {IF served THEN {[status |-> 200, then |-> Filled(Recorded(p, "success"), "main")]}
                ELSE {[status |-> 503, then |-> q] : q \in Refused(p)} :
                served \in Serving(p, "user-service" \in p.up /\ p.breaker # "OPEN",
                                   p.list # Nothing)}

Read(p, want) == {Outcome(r.status \in want, r.then) : r \in GatewayRead(p)}

(* ... and the user the proof created is in the list it gets.                *)
ReadUser(p, mail) ==
    {Outcome(r.status = 200 /\ mail \in Answer(p, "main").users, r.then) : r \in GatewayRead(p)}
-----------------------------------------------------------------------------
(* Identity, through the gateway or directly at a recovery container.        *)
Identity(p, db) == IF db = "main" THEN Runs(p, {"gateway", "identity-service", "postgres"})
                   ELSE "recovery-identity" \in p.temp /\ Runs(p, {"postgres"})

Register(p, mail) ==
    LET fresh == Identity(p, "main") /\ mail \notin p.data.main.accounts IN
    Sees(fresh, IF ~fresh THEN p
                ELSE [p EXCEPT !.data.main.accounts = @ \cup {mail},
                               !.data.main.tokens = Append(@, "active")])

Login(p, db, mail) ==
    LET known == Identity(p, db) /\ mail \in p.data[db].accounts IN
    Sees(known, IF known THEN [p EXCEPT !.data[db].tokens = Append(@, "active")] ELSE p)

(* POST /api/auth/refresh with the k-th token: 200 rotates, 401 otherwise.   *)
\* Mutant: rotation leaves the presented token active.
RotateKeeping(p, db, k) == [p EXCEPT !.data[db].tokens = Append(@, "active")]
Rotated(p, db, k) ==
    [p EXCEPT !.data[db].tokens = Append([@ EXCEPT ![k] = "revoked"], "active")]

Live(p, db, k) == k \in DOMAIN p.data[db].tokens /\ p.data[db].tokens[k] = "active"

Refresh(p, db, k, want) ==
    LET live == Identity(p, db) /\ Live(p, db, k) IN
    Sees(Identity(p, db) /\ live = (want = 200), IF live THEN Rotated(p, db, k) ELSE p)

(* Eight contenders with one token: one rotation (RefreshTokens proves that  *)
(* there is never a second), the others are replays.                         *)
Race(p, k) == Refresh(p, "main", k, 200)

Logout(p, k) ==
    Sees(Identity(p, "main"), [p EXCEPT !.data.main.tokens[k] = "revoked"])

OnlyActive(p, k) == \A i \in DOMAIN p.data.main.tokens : Live(p, "main", i) <=> i = k

(* POST /api/users at the user service's own port evicts the list.           *)
Create(p, mail) ==
    LET fresh == Runs(p, {"user-service", "postgres", "redis"}) /\ mail \notin p.data.main.users IN
    Sees(fresh, IF ~fresh THEN p
                ELSE [p EXCEPT !.data.main.users = @ \cup {mail}, !.list = Nothing,
                               !.audit = @ \cup {mail}])

(* GET /api/users/{id} and GET /api/users at a user service's own port.      *)
ReadById(p, mail) ==
    UNION {LET found == served /\ mail \in p.data.main.users IN
           Sees(found, IF found THEN [p EXCEPT !.byId = TRUE] ELSE p) :
           served \in Serving(p, "user-service" \in p.up, p.byId)}

ReadDirectly(p, db, mail) ==
    LET there == IF db = "main" THEN "user-service" \in p.up ELSE "recovery-user" \in p.temp IN
    UNION {Sees(served /\ mail \in Answer(p, db).users, IF served THEN Filled(p, db) ELSE p) :
           served \in Serving(p, there, p.list # Nothing)}
-----------------------------------------------------------------------------
(* Docker and the databases.                                                 *)
Stop(p, s) == Sees(TRUE, [p EXCEPT !.up = @ \ s])

StartAll(p, s) ==
    Sees(TRUE, IF "gateway" \in s \ p.up THEN Reset([p EXCEPT !.up = @ \cup s], "CLOSED")
               ELSE [p EXCEPT !.up = @ \cup s])

Restart(p, s) ==
    Sees(TRUE, IF "gateway" \in s THEN Reset([p EXCEPT !.up = @ \cup s], "CLOSED")
               ELSE [p EXCEPT !.up = @ \cup s])

RunTemporary(p, c) == Sees(Runs(p, {"postgres"}), [p EXCEPT !.temp = @ \cup {c}])

Flushed(p) == [p EXCEPT !.list = Nothing, !.byId = FALSE]
Flush(p) == Sees(Runs(p, {"redis"}), Flushed(p))

Dump(p) == Sees(Runs(p, {"postgres"}), [p EXCEPT !.dump = p.data.main])
CreateDatabase(p) == Sees(p.copies = "none" /\ Runs(p, {"postgres"}), [p EXCEPT !.copies = "empty"])
Restore(p) ==
    Sees(p.copies = "empty" /\ Runs(p, {"postgres"}),
         [p EXCEPT !.copies = "restored", !.data.copy = p.dump])

(* The rows the proof selects, remembered and compared.                      *)
Remember(p) == Sees(Runs(p, {"postgres"}), [p EXCEPT !.baseline = p.data.main])
Unchanged(p, db) == Sees(Runs(p, {"postgres"}) /\ p.data[db] = p.baseline, p)
Count(p) == Sees(TRUE, [p EXCEPT !.counted = Cardinality(p.list.users)])
Recount(p, mail) ==
    Sees(p.counted = Cardinality(p.list.users) /\ mail \in p.list.users \cup {""}, p)
=============================================================================
