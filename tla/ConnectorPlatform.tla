-------------------------- MODULE ConnectorPlatform -------------------------
(* The orchestrator and the provider stub as the connector proofs under      *)
(* src/tools see them: what one step of a proof does to them and answers,    *)
(* and the ways in which an orchestrator may answer as the proof expects and *)
(* do something else.  The orchestrator lives in another repository; it is   *)
(* modelled from the answers the proofs ask of it.                           *)
EXTENDS ProofSteps, FiniteSetsExt, ProviderStub

Providers == Kinds \cup {"stripe", "generic", "slack"}
Deliveries == {"faq", "email", "billing", "generic-1", "github-1"}
BadDeliveries == {"generic-bad", "generic-stale", "github-bad", "github-ping"}
Items == [github |-> {"github-a", "github-b"}, gmail |-> {"gmail-a", "gmail-b"},
          calendar |-> {"calendar-a", "calendar-b"}]
Events == Deliveries \cup BadDeliveries \cup UNION {Items[k] : k \in Kinds}
Keys == Kinds \cup {"live"}            \* idempotency keys
KindOf(key) == IF key = "live" THEN "gmail" ELSE key
NoAction == [mode |-> "none", status |-> "none"]

(* What the workflow of a suite starts: whether live writes are enabled, and *)
(* how the stub is configured.  In the test-account lane the broker hands    *)
(* out token 1, and the stub stands for the accounts behind it.              *)
LiveSuites == {"live write", "test account"}
Provider(suite) ==
    LET stub == NewStub(suite \in LiveSuites, suite \in LiveSuites) IN
    IF suite = "test account" THEN [stub EXCEPT !.tokens = {1}] ELSE stub
Fresh(suite, broker) ==
    [live |-> suite \in LiveSuites,
     stub |-> Provider(suite),
     broker |-> broker,                       \* providers it has a token for
     connections |-> {},
     session |-> [k \in Kinds |-> "none"],    \* of OAuth: none, started or spent
     token |-> [k \in Kinds |-> 0],
     receipts |-> [e \in Events |-> 0],
     actions |-> [k \in Keys |-> NoAction],
     runs |-> 0,                              \* overnight runs
     up |-> IF suite \in {"external", "boundary"} THEN {} ELSE {"orchestrator"},
     created |-> FALSE,                       \* docker ps -a lists the runtime
     account |-> FALSE,                       \* the fixed address of the boundary proofs
     early |-> {},                            \* kinds posted without an approval
     seen |-> Metrics(NewStub(FALSE, FALSE)), \* what the proof remembers
     fetched |-> 0, answers |-> {}]
-----------------------------------------------------------------------------
(* Registering an account again gives its connection, or is refused.         *)
Register(p, provider, want) ==
    IF provider \notin p.connections
    THEN Sees("new" \in want, [p EXCEPT !.connections = @ \cup {provider}])
    ELSE {Outcome(b, p) : b \in {FALSE, "duplicate" \in want}}

(* A signed delivery is stored once; one that fails verification is not.     *)
Stored(p, events) == [p EXCEPT !.receipts = [e \in Events |-> IF e \in events THEN @[e] + 1 ELSE @[e]]]
Deliver(p, event, want) ==
    IF event \in BadDeliveries THEN Sees("refused" \in want, p)
    ELSE IF p.receipts[event] > 0 THEN Sees("duplicate" \in want, p)
    ELSE Sees("new" \in want, Stored(p, {event}))
Receipts(p) == MapThenSumSet(LAMBDA e : p.receipts[e], Events)
-----------------------------------------------------------------------------
(* OAuth: a session completes once, and only with its own state; the grant   *)
(* is the provider's, the identity is read with the new token.               *)
AskGrant(p, provider, type) ==
    LET asked == [client |-> "configured", type |-> type, complete |-> TRUE]
        g == Grant(p.stub, asked)
        q == [p EXCEPT !.session[provider] = "spent"] IN
    CASE p.broker = {} /\ g.status = 200 -> [q EXCEPT !.stub = g.then, !.token[provider] = g.token]
      [] p.broker # {} /\ BrokerGrant(p.broker, asked, provider) = 200 -> [q EXCEPT !.token[provider] = 1]
      [] OTHER -> p
Identity(p, provider) ==
    LET path == IF provider = "github" THEN "user" ELSE "userinfo" IN
    IF p.broker = {} THEN Get(p.stub, path, p.token[provider]).status
    ELSE IF BrokerKnows(p.broker, provider, path) THEN 200 ELSE 401

StartOAuth(p, provider) == Sees(TRUE, [p EXCEPT !.session[provider] = "started"])
Complete(p, provider) ==
    IF p.session[provider] # "started" THEN Sees(FALSE, p)
    ELSE LET q == AskGrant(p, provider, "authorization_code") IN
         Sees(Identity(q, provider) = 200, q)
CompleteWrite(p, provider) == {[o EXCEPT !.ok = o.ok /\ p.stub.scopes] : o \in Complete(p, provider)}
RefreshToken(p, provider) ==
    Sees(p.token[provider] # 0, AskGrant(p, provider, "refresh_token"))
Revoke(p, provider) == Sees(TRUE, [p EXCEPT !.token[provider] = 0])
ProviderHealth(p, provider, want) ==
    Sees(want = (IF p.token[provider] = 0 THEN 409 ELSE Identity(p, provider)), p)

(* A synchronization reads the provider and stores what it has not seen.     *)
Source == [github |-> "repos", gmail |-> "messages", calendar |-> "events"]
Sync(p, provider, want) ==
    IF provider \notin Kinds THEN Sees(want = "unsupported", p)
    ELSE IF Get(p.stub, Source[provider], p.token[provider]).status # 200 THEN Sees(FALSE, p)
    ELSE LET fresh == {e \in Items[provider] : p.receipts[e] = 0}
             answer == IF fresh = Items[provider] THEN "new"
                       ELSE IF fresh = {} THEN "duplicate" ELSE "mixed"
         IN Sees(want \in {answer, "again"},
                 [Stored(p, fresh) EXCEPT !.answers = IF want = "again" THEN @ \cup {answer} ELSE @])
-----------------------------------------------------------------------------
(* An action is executed once, after its approval; LIVE needs the policy and *)
(* a provider that accepts the write.                                        *)
Create(p, key, mode) ==
    IF p.actions[key] = NoAction
    THEN Sees(TRUE, [p EXCEPT !.actions[key] = [mode |-> mode, status |-> "PENDING_APPROVAL"]])
    ELSE Sees(p.actions[key].status = "PENDING_APPROVAL", p)
Recreate(p, key) == Sees(p.actions[key] # NoAction, p)
Approve(p, key) ==
    IF p.actions[key].status = "PENDING_APPROVAL"
    THEN Sees(TRUE, [p EXCEPT !.actions[key].status = "APPROVED"]) ELSE Sees(FALSE, p)

Posted(p, key) ==
    LET r == Post(p.stub, KindOf(key), p.token[KindOf(key)], TRUE) IN
    [[p EXCEPT !.stub = r.then] EXCEPT !.early =
        IF r.status \in {200, 201} /\ p.actions[key].status = "PENDING_APPROVAL"
        THEN @ \cup {KindOf(key)} ELSE @]
Receipted(p, key) == [p EXCEPT !.actions[key].status = "EXECUTED"]

(* [answer, then] of POST .../execute.                                       *)
Executed(p, key) ==
    LET a == p.actions[key]
        q == IF a.mode = "LIVE" THEN Posted(p, key) ELSE p IN
    IF a.status = "EXECUTED" THEN [answer |-> "replay", then |-> p]
    ELSE IF a.status # "APPROVED" \/ (a.mode = "LIVE" /\ ~p.live) THEN [answer |-> "blocked", then |-> p]
    ELSE IF a.mode = "LIVE" /\ q.stub.write = p.stub.write THEN [answer |-> "failed", then |-> q]
    ELSE [answer |-> "executed", then |-> Receipted(q, key)]
Execute(p, key, want) == Sees(Executed(p, key).answer = want, Executed(p, key).then)
Persisted(p) == Sees(\A k \in Kinds : p.actions[k].status = "EXECUTED", p)
-----------------------------------------------------------------------------
(* The boundary proofs: containers, and the one account they register.       *)
Boot(p, parts) == Sees(TRUE, [p EXCEPT !.up = @ \cup parts])
DockerRun(p) ==
    IF p.created THEN Sees(FALSE, p) ELSE Boot([p EXCEPT !.created = TRUE], {"runtime"})
RegisterAccount(p) == Sees(~p.account /\ "core" \in p.up, [p EXCEPT !.account = TRUE])
-----------------------------------------------------------------------------
(* What a defective orchestrator does where it answers as the step expects.  *)
Lies(p, s) ==
    CASE s.do = "event" ->
           IF s.on \in BadDeliveries \/ s.want = {"duplicate"} THEN {Stored(p, {s.on})}
           ELSE {p, Stored(Stored(p, {s.on}), {s.on})}
      [] s.do = "sync" /\ s.on \in Kinds ->
           {p, Stored(Stored(p, Items[s.on]), Items[s.on]), [p EXCEPT !.stub = Post(@, s.on, p.token[s.on], TRUE).then]}
      [] s.do \in {"complete", "completeWrite"} -> {[p EXCEPT !.session[s.on] = "spent"]}
      [] s.do = "refresh" -> {p}
      [] s.do = "revoke" -> {p}
      [] s.do = "create" -> {Posted(o.then, s.on) : o \in Create(p, s.on, s.want)} \cup
           {[o.then EXCEPT !.actions[s.on].status = "APPROVED"] : o \in Create(p, s.on, s.want)}
      [] s.do = "approve" -> {p}
      [] s.do = "execute" ->
           IF s.want = "executed"
           THEN {Receipted(p, s.on), Posted(p, s.on), Receipted(Posted(Posted(p, s.on), s.on), s.on)}
           ELSE {Posted(p, s.on)}
      [] OTHER -> {}
=============================================================================
