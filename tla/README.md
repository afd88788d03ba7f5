# Aetheris platform: TLA+ models, checks and proofs

This directory holds the formal side of the Aetheris platform: TLA+ modules
that model the parts of it that keep state and run concurrently, TLC
configurations that check them on small instances, and theorems, checked by
TLAPS, that hold for every size. Every definition follows a piece of the source;
`PROJECT.json` (`map`) says which lines. Where the platform relies on something
outside the repository (PostgreSQL, RabbitMQ, Redis, Resilience4j, the browser),
the model has what the code's use of it can rely on, and the map marks it
external.

Contents: 1 inventory, 2 modules, 3 runs, 4 findings, 5 fairness, 6 proofs,
7 what is not covered, 8 what could follow.

## 1. Inventory

```
 browser ── App.tsx ──┐
                      nginx ── gateway ──┬── identity-service ── PostgreSQL
 API clients ─────────────────┘  │       ├── user-service ──┬── PostgreSQL
 Syntra desktop ── health probes ┘       │                  ├── Redis (caches)
                                         │                  └── RabbitMQ ─┐
                                         └── audit-service ◄──────────────┘
                                                 └── PostgreSQL
```

| Component | State it keeps | Operations | Interacts by |
|---|---|---|---|
| identity-service | tables `identity_accounts`, `refresh_tokens` | register, login, refresh (rotation), logout; the browser variants with a cookie | SQL transactions at READ COMMITTED |
| dashboard session (`App.tsx`, `BrowserAuthController`) | refresh cookie, `sessionStorage`, React state | protected calls with one rotation, login, logout, reload | HTTP through nginx and gateway |
| gateway | circuit breakers, retry attempts, token buckets (Redis) | JWT check, rate limit, retry, circuit breaker, time limit, fallback | HTTP to the services |
| user-service | table `users`; caches `usersList`, `userById` | cached reads, create, delete, publication of events | SQL, Redis, RabbitMQ |
| audit-service | queue and binding (durable), table `audit_events` | consume an event, list the newest 100 | RabbitMQ, SQL |
| Syntra desktop shell | settings, two health states, local control state | probes, recovery check, settings, diagnostics export | HTTP on loopback, Tauri commands |
| hosted runtime proofs (`tools/core_runtime_smoke.py`, `resilience_*`, `security_*`, `data_recovery_*`, `deployment_release_*`, `browser_auth_*`, `observability_*`, `performance_load_*`) | a platform of containers, check ids, a report | stop, restore and replace services, assert, report | docker, HTTP |
| load proof (`tools/performance_load_runtime_smoke.py`) | futures, observations, a health monitor thread | register principals, two load profiles, an overload probe | HTTP |
| connector and boundary proofs (`tools/connector_*`, `external_integration_runtime_proof.py`, `core_deployment_boundary_smoke.py`, `proactive_executive_agent_smoke.py`) | check ids, a report, what earlier runs left | drive connectors, OAuth, sync and approved writes | HTTP to the orchestrator |
| OAuth provider stub, token broker, read-only stub | issued tokens, counters, accepted writes | code and refresh grants, reads, writes, metrics | HTTP |
| release gates (`scripts/`, `tools/check_*`, `verify_*`) | none | decisions over evidence files | files |
| AI orchestrator | in another repository | | |

What is hard in each of them, and what makes it correct:

* **identity-service.** Refresh tokens are single-use; two requests may present
  one token, a logout may run between the read and the claim of a rotation, the
  token may expire while the claim waits for the row, INSERT or COMMIT may fail
  after the claim, the response may be lost after the COMMIT. Correct means:
  rotation never forks, a session has one active token, only a logout or a
  stored successor ends a token, a logged-out token gets no successor, one
  account per e-mail, and no request waits for ever.
* **dashboard session.** One cookie is shared by 21 parallel calls of one page;
  each call holds the session of the render it was created in, and answers
  arrive in any order. Correct means: the browser does not sit on a dead cookie,
  "Your session ended" is true, a logout leaves no cookie.
* **gateway.** A call the time limiter gave up is still carried out by the
  service; results of calls begun in one state of the breaker arrive in another;
  the retry filter surrounds the breaker and sees the fallback's 503. Correct
  means: no more executions than attempts, the breaker opens in an outage and
  closes after it without a restart.
* **user-service.** The event leaves before the COMMIT, the DELETE runs at the
  flush after it, and nothing orders the cache advice against the transaction
  advice; a read may fill a cache with a row that is gone. Correct means: no
  change of the table is silent, e-mails stay unique, caches heal.
* **audit-service.** Messages are redelivered after a rejection or a broken
  connection while the old listener goes on; malformed messages come back for
  ever. Correct means: every routed event is recorded exactly once and nothing
  else is.
* **hosted proofs.** Any step may fail before or after it took effect, a service
  may crash between two steps, the breaker half-opens by the clock, and the two
  user services of the recovery proof share one Redis. Correct means: an
  undisturbed run passes; a PASS covers the whole contract and rests on answers
  from the store it names; a run that was cut short leaves no PASS, and no
  container behind.
* **load proof.** Workers take requests round robin while the bucket refills by
  the second; a monitor thread and the main thread share an event and a result.
  Correct means: compliant load is never limited, overload is, the health
  evidence is the whole of it.
* **connector proofs and stubs.** A request that timed out may still be carried
  out, an orchestrator may answer well and have done something else, and a proof
  runs again on what the last run left. Correct means: what a check claims of
  receipts, tokens and provider writes is so when it is recorded; a write
  happens once; nothing touches a test account behind a closed gate.
* **desktop shell.** Probes overlap each other and a change of settings; an old
  one may answer last. Correct means: a health on display belongs to the address
  on display, and what a late answer spoiled a recovery check mends.

## 2. Modules

| Module | Models | Role |
|---|---|---|
| `TokenSessions` | `RefreshTokenService` as it is meant | abstract specification: each operation one step |
| `RefreshTokens` | `IdentityService`, `RefreshTokenService`, `RefreshTokenRepository`, `AuthController` | detailed specification, implements `TokenSessions` |
| `DashboardSession` | `App.tsx`, `BrowserAuthController` | composes a page, a browser and a network with `TokenSessions` |
| `GatewayCircuit` | `application.yml` of the gateway, `FallbackController` | one route in front of a service that fails |
| `UserService` | `UserService`, `UserController`, `UserEventPublisher`, `CacheConfig` | requests over three stores |
| `AuditLog` | `audit_events` as it is meant | abstract specification: each event recorded once |
| `AuditTrail` | `AuditEventStore`, `AuditEventRepository`, `RabbitAuditConfig` | detailed specification, implements `AuditLog` |
| `EvidenceRun` | what a run of a proof tool promises | abstract specification: start, claim, publish once |
| `ProofSteps` | the shape of a `main()` | vocabulary of the scripts: a step and its outcomes |
| `HostedContracts`, `HostedScripts`, `HostedPlatform` | the contracts, the eight `main()`s, the Compose platform | data and effects used by `HostedProofs` |
| `HostedProofs` | the run of a hosted proof under faults | implements `EvidenceRun` |
| `LoadProof` | `performance_load_runtime_smoke.py` and the limiter's bucket | threads of one process |
| `ConnectorContracts`, `ConnectorScripts`, `ConnectorPlatform` | the contracts, the eleven `main()`s, the orchestrator as the proofs use it | data and effects used by `ConnectorProofs` |
| `ProviderStub` | `oauth_provider_stub.py`, `connector_token_broker_stub.py`, `connector_live_read_only_stub.py` | used by `ConnectorPlatform` |
| `ConnectorProofs` | the runs of a connector proof under faults and wrong answers | implements `EvidenceRun` |
| `SyntraDesktop` | `ui/app.js`, the native probe of `src-tauri` | overlapping probes and settings |
| `MCDashboardSession`, `MCLoadProof` | | symmetry, and sizes that are functions |
| `RefreshTokens_proofs`, `UserService_proofs`, `AuditTrail_proofs`, `DashboardSession_proofs`, `HostedProofs_proofs`, `ConnectorProofs_proofs`, `LoadProof_proofs`, `SyntraDesktop_proofs` | | theorems; those of `GatewayCircuit` are in `LoadProof_proofs`, and in `HostedProofs_proofs` for its breaker |

**RefreshTokens.** A request is a thread with one transaction, and `pc` is the
statement it is at. `claimed`, `fresh` and `joining` are what its open
transaction has written; a row is locked while it is in one of them, and
`Commit` publishes them at once. The decision of a rotation is taken twice, as
in the code: `FindActive` on the entity (lines 38 to 44) and `StillActive` in
the WHERE clause of the UPDATE, after the wait for the row and with the instant
`ReadClock` read before it. `WriteRevoked` is the flush of a logout, which sets
the flag whatever the row says by then. `parent`, `session` and `ended` are
history: they record what the table does not, for the properties to speak of.
`Crash` ends every transaction, `Abort` one, `Reply` may lose the response.
`SessionSpec` of `TokenSessions` is checked, and proved, to be implemented; the
refinement is by the shared variables, since the tables have the same meaning in
both.

**DashboardSession.** `cookie` is the browser's, `storage` and `page` the two
copies the page keeps, `held` the session a callback closed over. A call moves
through `called`, `send`, `server`, `answered` and `resume`, and between any two
of them every other call may move. `Receive` is the browser obeying
`Set-Cookie`, `Resume` the page going on: two steps, because the browser obeys
also when the page does not care. `Disconnect` and `Reload` leave requests that
the server may still carry out (`stray`). The server side is `Refresh`,
`RevokeCookie` and `Authenticate`, in terms of the operations of `TokenSessions`
that `RefreshTokens` implements: each is one step there, which the refinement
justifies. `Unavailable` and `TimedOut` are the gateway answering instead of the
service, before or after the service has done its work.

**GatewayCircuit.** `breaker`, `window` and `permits` are the circuit breaker,
`attempt` the retry filter, `late` the attempts the gateway has given up and the
service may still carry out, `served` how often it has carried a request out. A
result is recorded in the state the breaker is in when the call ends. `Retry`
and `Fallback` are both open after a refusal, for the fallback's answer may
already be on its way to the client. `HangUp` cancels a call and returns its
permission. Time is absent: `HalfOpen` may happen at any moment after `OPEN`,
and `GiveUp` whenever the service is slow.

**UserService.** `users` and `email` are the table, `usersList` and `userById`
the caches, `published` the exchange. The statements of create and delete are
separate steps, in both orders of the two advices: `evictsFirst` is chosen once,
in `Init`, since Spring gives both advices the same precedence. `seen` is the
value a read has taken from the table and not yet put in the cache. `Fail` stops
a request at any statement: its transaction is rolled back, what Redis and
RabbitMQ have received stays.

**AuditTrail.** `queue` holds the ready messages, `connected` says that the
broker still counts a message as delivered to a listener. `Disconnect` takes the
message back and lets the listener go on, so two listeners may work on one
message; `Conflict` is the primary key that `ON CONFLICT DO NOTHING` consults,
and an `Insert` waits for another open one of the same key. `Send` drops what is
published before `Declare`, as an exchange without a binding does.
`Record` of `AuditLog` is implemented by `Commit`.

**EvidenceRun.** A run that has read its contract collects claims, one at a time
and only claims of the contract, publishes one verdict, and stays as it is until
the tool is started again; PASS covers the contract. Both families of proofs
implement it: `stage` maps to `new` before the `try` block, to `collecting` in it,
`claims` to the list of checks, `verdict` to the report file.

**HostedProofs.** A script is a sequence of steps `[do, on, want, id]`
(`ProofSteps`), in the order of the code of `main()`; `Effect` says, for each
`do`, what the platform of `HostedPlatform` looks like afterwards and whether the
assertion of the step holds, and `TakeStep` takes the step, records its `id`, or
raises. The platform has the running services, two databases with their accounts,
users and tokens, the dump, the one Redis, the audit table, the breaker of the
read route with its window, and the temporary containers. `Raise` is the except
branch, `Cleanup` the finally of data recovery; `OutageRound` and `OutageOver`
are the loop of reads against the stopped service. `Crash`, `Interrupted` (a
command fails or times out before or after its effect) and `CleanupFails`
share the budget `MaxFaults`. `HalfOpen` is the clock: up to the restart of the
user service a half-open breaker costs a fault, since the proof is faster than
the ten seconds.

**LoadProof.** `Take`, `Answer` and `Fail` are the worker threads, `MonitorStart`
to `MonitorEnd` the monitor thread, `SetStop` the `finally` of the sustained phase
and `SustainedDone` the `join(timeout=5)`, which may return before the monitor has
ended. `Within` is the guardrails of a profile: errors, latency, throughput, the
order of the percentiles. The checks after the probe (health, a protected read, the
unchanged list) fail as faults of `ProbeDone`. A bucket of tokens per principal is
refilled by `SecondPasses`.
Registrations keep time in ticks of 20 ms, as one pause is 260 ms.

**ConnectorProofs.** Same scripts, on `ConnectorPlatform`: connections, receipts,
OAuth sessions, tokens, actions and their approvals, and the stub of
`ProviderStub` behind them. The orchestrator's code is not here; what it answers
is what the proofs ask of it, and that part of the map is external. Three things
may go wrong: a request fails, before, after or *in the middle of* its effect
(`Interrupted`, `Partial`), a timed-out execution is carried out later, in the same
run or in a later one (`LateExecute`), or the orchestrator answers well and has
done something else (`Misled`; `Lies` lists what, per request). `Again` starts the
proof on what the last run left.

**SyntraDesktop.** Each click starts a probe of its own, which keeps the address
it was started with (`gatewayAsk`, `runtimeAsk`) and writes the one health the
window shows when it is answered. The overview shows the status a gateway reports
(`Reported`), the panel the health made of it (`HealthOf`). `RunRecoveryCheck` waits for one probe of each
kind (`awaited`). `Apply` is a change of settings: it takes back what was shown and
aborts no probe. `gatewayOf`, `runtimeOf`, `overtaken` and `clear` are history:
they record whose health is on display, and whether probes of other
settings were about.

## 3. Runs

`tlc -workers 2 -config <cfg> <module>`. Invariants and action properties are
checked in every reachable state of the instance; the bounds are in the cfg
files, and every bound of a specification is named in a comment of its module:
`PoolHasRoom`, `MaxClock`, `MaxEvents`, `MaxStray`, `MaxFaults`, `MaxLies`,
`MaxRuns`, `MaxLimited`, `EarlierReads`, `MaxSeconds`, and in `Arrive` of the
gateway.

| Run | Instance | Distinct states | Shows |
|---|---|---|---|
| `refresh_tokens` | 2 requests, 3 tokens, 1 e-mail, clock 0..1, lifetime 1 | 395 839 | `NoFork`, `NoLostSession`, `SessionSpec` (implements `TokenSessions`), `LapsedForGood`, `EveryRequestEnds` |
| `user_service` | 2 requests, 2 ids, 1 e-mail, 3 events | 71 420 | `EveryChangeIsAnnounced`, `EmailsAreUnique`, `CachesConverge` |
| `user_service_stale_identity` | as above | stops at the violation | `DeleteEvictsIdentity` fails: finding 1 |
| `user_service_false_deletion` | as above | stops at the violation | `AnnouncedDeletionHappened` fails: finding 2 |
| `audit_trail` | 2 listeners, 2 events, 1 malformed message | 6 066 | `RecordedOnce`, `LogSpec` (implements `AuditLog`), `RoutedIsRecorded` |
| `dashboard` | 2 calls, 3 tokens, 1 stray request; reliable or not, serial or not, chosen in `Init`; symmetry | 2 648 840 | `CookieIsCurrent`; `SerialNoticeIsTrue`, `SerialLogoutExpiresCookie` |
| `dashboard_expelled` | as above | stops at the violation | `EndedMeansEnded` fails: finding 3 |
| `gateway_circuit` | 2 requests, 2 retries, window 4, minimum 3, 2 probes | 188 818 | `NoSurplusEffect`, `Recovers`, `ShedsLoad` |
| `hosted_proofs` | all eight proofs, fresh and used platform, sizes of `application.yml`, 0, 1, 9 or 10 earlier reads, 1 fault, 3 limited reads | 53 191 | `UndisturbedRunPasses`, `PassSawRecovery`, `AnswersComeFromTheirStore`, `NoTemporaryOutlives`, `ReportIsOfThisRun`, `ExitAgreesWithReport`, `EvidenceSpec`, no deadlock |
| `load_proof` | 4 requests of 3 workers (burst), 3 of 2 (sustained), 4 of 3 on one principal (probe); buckets of 2, 1 a second; at least 2 requests a second; 1 fault | 808 294 | `CompliantLoadIsNeverLimited`, `OverloadIsRefused`, `UndisturbedLoadPasses`, `LoadEnds` |
| `connector_proofs` | all eleven proofs, each environment, 2 runs, 2 faults, 2 wrong answers | 356 995 | `SoundPlatformPasses`, `ArmedOrUntouched`, `PassMeansOnce`, `ClaimsHoldWhenMade`, `EvidenceSpec`, no deadlock |
| `syntra_desktop` | 2 probes of each kind, 2 addresses of each | 619 428 | `HealthIsOfTheseSettings`, `RecoveryCheckMends`, `PanelsAgree`, `CheckEnds` |

Why these bounds are enough for what they are to show:

* *Refresh tokens.* A fork needs a login and two rotations of its token: three
  tokens; every race of the code is between two requests, and one tick of the
  clock separates the read of the instant from the end of the wait, which is
  what `LapsedForGood` has to survive. Two requests
  suffice for TLC because section 6 proves the safety properties for any number.
* *User service.* The races are between a read and a writer, or between two
  writers over one e-mail. An id comes from the sequence once, so two ids and three
  events are a create, a delete and another create. Safety of the table is
  proved for any number of requests.
* *Audit trail.* A message is handled twice at once by a listener that lost its
  connection and by the one that got the message again: two listeners. Two
  events and a malformed message make the order of delivery matter.
* *Dashboard.* Two parallel calls are the smallest number that share the cookie,
  three tokens a login and two rotations. `SerialNoticeIsTrue` and
  `SerialLogoutExpiresCookie` hold for one call at a time on a network that loses
  nothing, which the code does not ensure: finding 3 is what remains without the
  first condition.
* *Gateway.* The sizes keep the order of `application.yml` (probes 3, minimum 5,
  window 10): probes below minimum, minimum below window. Two requests let a late
  result of one meet the probe of another; retries are the two of the read
  routes.
* *Hosted proofs.* The scripts are the real ones and so are the sizes of the
  breaker; the earlier reads are the ends of its window, where the number of
  failures it takes to open changes. One fault anywhere tells every error path.
* *Load proof.* A principal has as many requests as its bucket has tokens, in the
  burst exactly; three workers let requests overtake each other and the refill.
  The sustained profile misses the throughput of 2 a second when it takes its full
  two seconds, the burst never does.
* *Connector proofs.* A second run finds what the first left; two faults let one
  execution time out and its late counterpart meet another failure; two wrong
  answers let one hide the other, and let both meet the failures. `Sure` leaves
  out of `ClaimsHoldWhenMade` what section 4 says of two wrong answers and of a
  wrong answer beside a failure. Three of each give nothing new (1.7 million
  states), and section 6 proves it for any number.
* *Desktop.* Two probes of each kind: an old one may answer before, between or
  after those of a recovery check.

Deadlock is looked for in every run but two. `AuditTrail` may stop when
every event has been handled, `LoadProof` when the process has ended. The other
processes that end (`HostedProofs`, `ConnectorProofs`) have a step `Finished` for
that, so a run that could not go on would be reported.

Each property has a mutant in `PROJECT.json`: a variant of a definition with a
mistake one could make in the code (a dropped WHERE clause, an acknowledgement
before the transaction, a retry too many, an except branch that reports a pass),
under which TLC finds the property violated. The variants stand in the modules,
marked `Mutant`, and no action uses them.

## 4. Findings

1. *A deleted user is served from the cache.* (`user_service_stale_identity`,
   `UserService.java:35`) `findById` reads the row, `delete` commits and evicts,
   then the read puts its value in `userById`: for up to 60 seconds the user who
   was reported deleted is returned. `UserServiceCacheTest` expects `findById` to go to
   the table after a delete. `CachesConverge` shows that it heals, by the time to
   live alone.
2. *A deletion is announced that does not happen.*
   (`user_service_false_deletion`, `UserService.java:64`) `repository.delete`
   marks the entity; the event leaves; DELETE and COMMIT come afterwards and may
   fail. The test is named "publishes deletion after repository mutation".
3. *Parallel calls sign each other out.* (`dashboard_expelled`, `App.tsx:52`)
   `refresh` of the page starts 21 protected calls. With an expired access token
   several present the same cookie, one rotation wins, and a loser's refusal
   clears the session and says that it has ended, while its successor is active.

Observations, of which no run is made:

* A token that expires while the UPDATE of its rotation waits for the row is revoked
  and replaced all the same, since `:now` is an `Instant` read before the wait
  (`RefreshTokenService.java:46`); "only while it is still active and unexpired"
  (`docs/security/token-flow.md:36`) is true of that instant. `LapsedForGood` says
  how far this goes: once no refresh holds such an instant, an expired session is
  never continued.
* A rotation answered before a logout, whose response arrives after that of the
  logout, puts the successor's cookie back in the browser
  (`SerialLogoutExpiresCookie` holds for one call at a time).
* Desktop: a probe of the old gateway that answers after `saveSettings` is shown
  as the health of the new one, until a recovery check (`RecoveryCheckMends`);
  the overview's lines are not reset by `saveSettings` (`app.js:266`); a gateway
  that refuses both candidates is shown UNAVAILABLE, not DEGRADED; the gateway's
  fetch has no time limit, so the button of the check may stay disabled.
* Connector proofs: an execution that timed out and one whose receipt was
  not written compensate in the counters (`OneKind`): carried out late, the first
  stands for the write that was never made.
* The integration, adapter and synchronization proofs compare the *number* of
  receipts (`connector_integration_runtime_smoke.py:215`, and the like), so that of
  two wrong answers one may lose a delivery that the other stores twice, and
  `connector.duplicate-no-second-receipt` is recorded all the same. With one wrong
  answer the number tells (`Sums`, `SumTells`).

## 5. Fairness

Safety does not depend on fairness. The specifications with a liveness property
have a `FairSpec`:

* `RefreshTokens`: a request thread keeps executing (weak, over the statements
  that wait for nothing); a statement that waits for a row or a key gets it if
  the row is free again and again (strong), since PostgreSQL queues the waiters.
  Aborts and crashes are not fair and not needed.
* `UserService`: threads run (weak), `Insert` and `Flush` as above (strong), and
  Redis drops an entry that has outlived `entryTtl` (weak): an entry may be put
  again and again, but each one ends.
* `AuditTrail`: a listener works (weak). The queue is first in, first out, so a
  message that is ready again and again is delivered (strong, per message).
  Failures are transient: of the attempts at one step of one message infinitely
  many are not cut off (strong, per step and message). Without this a database that is
  down for ever would refute the property without saying anything of the code.
* `GatewayCircuit`: every request proceeds, and the timer of the open state fires
  (weak, `waitDurationInOpenState` with the automatic transition). Calls that
  could be served, answered or given up again and again sometimes are (strong):
  not every client hangs up on every call. That requests keep coming, and that the
  service is up, or down, for good, are premises of the two properties and not
  assumed by the specification. `Outage` and `Arrive` have no fairness.
* `LoadProof`: the operating system runs the worker threads, the monitor and the
  main thread (weak, each). Every request has a time limit in the code, so `Answer`
  or `Fail` comes; seconds and failures are not fair.
* `SyntraDesktop`: a native probe answers or gives up within its three seconds
  (weak). A fetch of the gateway has no limit and no fairness.

`DashboardSession`, `HostedProofs` and `ConnectorProofs` state none. The two
proofs are sequential, so that a run ends is shown by the absence of
deadlock and by the finite script.

## 6. Proofs

`tlapm <module>` checks every leaf; nothing is assumed but the ASSUMEs of the
modules, all about constants: the "no value" constants are outside their sets,
`Lifetime` and `WindowSize` are positive, and the like. The scripts of the two
families of proofs are definitions, and what the invariants need of their order
is proved of them (`ShapeOfScripts`).

**`RefreshTokens_proofs`** works in two layers. `SessionInv` is inductive for the
abstract `TokenSessions` (`SessionsSafe`): beside `NoFork`, `OneActivePerSession`
and `NoLostSession` it needs that a token with a successor is revoked and that
the login of a stored token is stored; without them `Replace` could not be shown
to keep the other two. The transactions have an invariant of their own
(`InductiveInvariant`): `Shape(r)` says what a request may rely on at each
statement, for instance that a rotation that has claimed its token still finds
it active, and `Exclusive(q, r)`, that no two open transactions have claimed one
token, drawn one value or are inserting one e-mail. This is where the row lock
and the WHERE clause enter: `RevokeIfActive` re-establishes `Exclusive` only
because it waits for the lock and looks at the row afterwards. With it, `Commit`
is an `Open`, a `Replace` or a `Close`, and every other action leaves the
sessions alone (`ImplementsSessions`). So the transactions inherit
`RotationNeverForks`, `SessionsStaySingle`, `SessionsSurvive` and `LogoutStays`;
`TypeCorrect`, `AccountsUnique` and `DeliveredStored` come from the second
invariant alone. `LapsedTheorem` shows that `Lapsed(s)` is kept by every step:
requests may go on presenting a dead token and reading instants, but since `now`
never falls and nothing un-revokes a row, none is in time for it (`InTime`), and a
replacement that is still to be committed was in time (`RefreshShape`).

**`UserService_proofs`.** `Announcements` and `UniqueEmails`. An event is sent by a
transaction that is still open, so the invariant speaks of those: `Working(r)`,
that the row of an open insert is not there yet, its e-mail is free and, past the
publication, its event is out, and `Apart(q, r)`, that no two open inserts hold one
id or one e-mail. It holds in both orders of the advices and with a failure at any
statement. A second invariant (`CInv`) follows what the caches may hold, snapshots
of users that were created, and gives `UsersTyped`.

**`AuditTrail_proofs`.** `RecordedOnce` is not inductive: two listeners that work on
one message could both be about to commit. The invariant (`Consistent`) adds
`Working(c)`, what each step knows of its message (an open insert means that the
row is not there yet, a commit without an insert that it is), and `KeysApart`,
that one open transaction at most has inserted a key. `RoutedIsKept` is kept by
case distinction on which listener the broker counts the message as delivered
to. From it: `AuditTyped`, `OneRowPerEvent`, `NoEventLost`, `NothingInvented`,
and `ImplementsLog`, where `Commit` of an inserted row is `Record`.

**`DashboardSession_proofs`.** `KnownInv` (every token a page, a call or a stray
request holds is stored) gives `DashboardTyped`, and that each call changes the
table as `TokenSessions` allows (`CallsKeepSessions`), strays included. With a
network that loses nothing, `CookieStaysCurrent` rests on `FreshInv`: if the
browser's cookie is revoked, a call that presented it is bringing its
replacement, and a replacement under way is held by nobody else (`Fresh`).
`NoticeIsTrueOneByOne` and `LogoutExpiresCookieOneByOne` add that calls come one by
one. Then (`SerialInv`) at most one call is not at rest, and `CallOK` says at each of
its places what page, cookie and answer have to do with each other. Finding 3
shows what happens to the notice without the premise.

**`HostedProofs_proofs`, `ConnectorProofs_proofs`.** Both begin with the scripts. A
part is looked at step by step once (`Calm`, `Sound`, `Opening`), and one lemma joins
parts, so that a script is right because its parts are: the `try` is entered
before anything is recorded, a comparison with the contract comes right before
the publication, what is stopped is awaited, a temporary container is named
before it is started, a list is emptied before its origin is judged.
`ImplementsEvidence` and `ConnectorImplementsEvidence` then hold for any number of
faults, wrong answers and runs, whatever the platform does: `Entered` carries the
`try` that was passed, and `Compared` the comparison, to the step that publishes,
and between the two no fault can come without leaving through the except branch.
`ExitTheorem` and `ReportTheorem`, `ConnectorExitTheorem` and
`ConnectorReportTheorem` follow from the same invariant.

The hosted proofs have a second one, `StoreInv`, about what the run leaves on the
platform: a service not seen again was stopped by a step that nothing since has
waited for (`Overdue`), a temporary container is named, or has been missed by the
cleanup (`Temporaries`), and Redis holds no list where a list is about to be taken as
a proof (`ListEmptied`). It needs that each step of the platform keeps what it does not
touch; the one recursive function among them, the reads that are refused until
the breaker opens, is shown to exist by `SetInduction`, which is well-founded
induction for a set instead of a predicate. From `StoreInv`: `PassTheorem`,
`AnswersTheorem`, `TemporaryTheorem`. `RecordedIsRecord` ties the breaker that
`HostedPlatform` carries along to the one of `GatewayCircuit`, for every window.

`ArmedTheorem` is about the test-account lane alone: while a condition is unmet
the lane stands at its gate or before it (`AtTheGates`), none of the steps up to
there reaches the platform, and so nothing can be carried out late.

`PassOnceTheorem` is about the live write proof, for any number of runs, failures
and wrong answers. `LivePlaces` says where each part of its 42 steps stands, and
`Grows` what no step of the platform undoes: every write is a post of one kind, no
post is taken back, what was executed stays executed. The invariant (`LiveInv`,
which TLC found to hold with 4 faults, 3 wrong answers and 3 runs) follows the
script past an execution (the action is executed, unless the orchestrator lied),
past a count (there is a post), and past the last reading of the counters: from
there on the stub counts what was read, either because nothing is late or
because whatever comes late finds its action executed and does nothing. Both
reasons are needed, which is why the property holds only while failures and wrong
answers do not both occur.

`ClaimsTheorem` is about the fourteen checks of all the connector proofs that say
something of receipts, tokens, writes or containers: each is true when it is
recorded. It rests on three invariants, one for the proofs that execute nothing
and two for the write proof.

* `MildInv` is about the integration, adapter, provider, synchronization and
  boundary proofs. As long as nothing was lied about, an event is stored once if it
  is good and not at all if it is not (`Neat`), and all that the steps so far
  brought about is stored (`Full`); one lie leaves one of the two. `Place` carries
  what was seen a few steps before a claim: the tokens there were before the refresh,
  the sum that was fetched, the stub's count of what is unsafe, that there is no
  container of the runtime. `Fits` says of each script what it consists of and
  where its claims are, part by part as before.
* The number the proofs compare is a fold over all events. `TalliesExist` shows that
  the recursive function behind it exists on any finite set, by well-founded
  induction for a set instead of a predicate, and `SumTells` what its value says: a
  sum in which no event counts too much, or none too little, is the number of the
  good events only if each of them counts once. This is where `lies <= 1` enters.
* `WaitInv` is about the write proof before its approvals: an action that was
  created waits for one, so that what comes late writes nothing between the
  reading of the counters and the claim that the provider is untouched; nothing is
  ever unsafe there, and what was posted early was posted (`Tended`).
* `LiveInv`, as for `PassOnceTheorem`, gives the claim about the replay.

`ClaimMade` shows that a claim is recorded by a step that looks and changes
nothing, in one of these proofs: the contracts of four others declare none but
the replay (`Undeclared`), and the external integration records none. TLC found
`MildInv` and `WaitInv` to hold with 2 failures, 2 wrong answers and 2 runs before
they were proved. An attempt to prove the property with `OneKind` as its only
premise is what showed that two wrong answers may compensate: TLC, which had been
given one, found the behaviour with two.

**`LoadProof_proofs`.** `NeverLimited`: going round the pool gives a principal at
most as many requests of a profile as its bucket holds (`EachHasItsShare`, by an
injection of its requests into the laps), each request takes one token at most,
and the refill only adds. `OverloadMeetsLimit`: the one bucket of the probe has
paid for every answer 200 (`ProbeInv`, tokens and answers together never exceed
the capacity and what the seconds gave back), so that of more requests than
that some were refused. `HealthEvidenceWhole`: the monitor leaves its counts
only when it ends, and nothing but those counts passes the guardrails.
`PercentilesInOrder`: on every sorted list the percentiles the guardrails compare
are in order. The module also proves the route the load goes through:
`EffectsBounded`, where `Effects(r)` relates the executions a request
has had, or may still have, to the attempts it has used, whatever the breaker does;
and `CircuitTyped`, whose `BInv` bounds the permits by the calls under way.

**`SyntraDesktop_proofs`.** `HealthTheorem` and `MendsTheorem`: `NoStrayProbe` says
when every probe under way asks the address on display, and `SoFar` what a
recovery check that is still clear already has in hand. `PanelsTheorem`: the
probe that ends last writes both panels, so the agreement is inductive as it stands.

Some invariants are proved and not repeated in a run, since the proof says more:
the type invariants of `RefreshTokens`, `AuditTrail`, `HostedProofs`
(`ProofTyped`), `ConnectorProofs` (`ConnectorTyped`), `LoadProof` (`LoadTyped`) and
`SyntraDesktop` (`DesktopTyped`), `OneActivePerSession`,
`OneAccountPerEmail`, `DeliveredIsStored`, `LogoutIsFinal`, `RoutedIsKept`,
`OnlySentIsRecorded`, `HealthIsComplete`, and the connectors' `ReportIsOfThisRun`
and `ExitAgreesWithReport`. TLC found each of them to hold before it was proved.

Checked by TLC only: all liveness (`EveryRequestEnds`, `CachesConverge`,
`RoutedIsRecorded`, `Recovers`, `ShedsLoad`, `LoadEnds`, `CheckEnds`; liveness under
fairness is out of the prover's reach), and three invariants that say that nothing
stands in the way of a proof that nothing disturbs. `SoundPlatformPasses` speaks of
first runs without a failure or a wrong answer: `Init` and the steps such a run
can take mention no bound, so TLC has seen all of them, whatever the values of
`MaxFaults`, `MaxLies` and `MaxRuns`, and a proof would walk through the same three
hundred steps. `UndisturbedRunPasses` does depend on the sizes of the breaker, on
the earlier reads and on how many reads are rate limited (with eight the outage
loop would see no fallback): it is checked at the sizes of `application.yml`.
`UndisturbedLoadPasses` compares percentiles of sorted latencies, which come from a
recursive definition.

## 7. What is not covered

Abstracted in the modelled parts: password hashing, token values and their
hashes, JWT signing, names and texts, log output, the wording of errors, what a
hosted proof asserts about them (such a step holds unless it is disturbed). Time is
a bounded clock in `RefreshTokens`, seconds and ticks in `LoadProof`, and
nondeterminism everywhere else. There is one dashboard page: several tabs share the
cookie too and meet the same findings. `requireBrowserRequest` decides on the
headers of one request and is left out. Messages lost before the queue is bound, and
between the publisher and the broker (there are no publisher confirms), are outside
the promise of `AuditTrail`, which begins at the queue. That a change of the
table reaches the audit table follows from the two sides of the exchange,
`EveryChangeIsAnnounced` and `RoutedIsRecorded`, except for those losses; there is
no module that composes them. The desktop's control label, staged prompts,
navigation and diagnostics report change nothing the probes read.

Not modelled:

* *JWT filter and rate limiter.* The filter decides on one request and keeps no
  state: a model would restate its conditions. The token bucket is Redis's; its
  answers are in `LoadProof` and `HostedPlatform`.
* *Release gates and validators.* Sequential scripts over the files of one checkout,
  with no state that outlives a run and nothing beside them.
* *Deployment and observability configuration, dashboard views and historical
  stage pages.* Declarative, or rendering.
* *AI orchestrator.* Its code is in another repository.

Known exposures without a property, because nothing in the code or its documents
promises otherwise: `GET /api/events` shows the newest 100 rows only; the page's
logout ignores a refusal and clears itself while cookie and token stay active;
`FallbackController` says `retryable=true` also for a write that was carried out;
the traffic rounds of the observability proof look at no answer; the
test-account lane names its idempotency keys by the attempt, so that a second
attempt writes again; the read-only validation leaves no report when it fails;
the approved-actions proof tries to execute only the Gmail action unapproved; the
sync proof counts the receipts before the second sync, and so does not notice one
that answers that all is known and stores it again; the counter of the OAuth stub is not guarded
against parallel grants (`oauth_provider_stub.py:290`), though the proofs send one
request at a time; the certification drift check looks at the new name of a renamed file only
(`check_ai_runtime_certification_drift.py:162`).

## 8. What could follow

* Two dashboard pages over one cookie.
* A proof of `SoundPlatformPasses`, part by part along the scripts.
