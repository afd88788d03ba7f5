--------------------------- MODULE ConnectorProofs --------------------------
(* The connector and boundary proofs under src/tools: a process runs the     *)
(* script of its main() against the orchestrator and the provider stub,      *)
(* collects checks and leaves a report and an exit status.  A request fails  *)
(* or times out at any step, is carried out later, or is answered well by an *)
(* orchestrator that did something else; a run may be started again on what  *)
(* the last one left.                                                        *)
EXTENDS ConnectorPlatform, ConnectorScripts, ConnectorContracts

CONSTANTS MaxFaults,   \* failed requests and crashes, over all runs
          MaxLies,     \* good answers of an orchestrator that did something else
          MaxRuns

ASSUME BoundsAssumption == MaxFaults \in Nat /\ MaxLies \in Nat /\ MaxRuns \in Nat \ {0}
(* Only the read-only validation has no try block.                           *)
Guards(s) == s # "read only"

VARIABLES suite, unmet,  \* which proof; the conditions its environment does not meet
          preflight,     \* --preflight
          run, pc, guarded, platform, checks, report, stage, status,
          late,          \* executions given up on and not carried out yet
          faults, lies

envVars == <<suite, unmet, preflight>>
procVars == <<run, pc, guarded, checks, report, stage, status>>
budget == <<faults, lies>>
vars == <<envVars, procVars, platform, late, budget>>

Pending == -1
Current == Script(suite)[pc]
Conditions(s) ==
    CASE s = "test account" -> {"armed", "broker", "targets", "repository"}
      [] s = "adapter" -> {"keys"}
      [] s = "read only" -> {"tokens", "hosts"}
      [] s \in {"external", "boundary"} -> {"revision", "trees", "image"}
      [] OTHER -> {}
Broker(s) ==
    IF s # "test account" THEN {} ELSE IF "broker" \in unmet THEN {"github"} ELSE Kinds

Init ==
    /\ suite \in Suites
    /\ unmet \in SUBSET Conditions(suite)
    /\ preflight \in {FALSE, suite = "test account"}
    /\ platform = Fresh(suite, Broker(suite))
    /\ run = 1 /\ pc = 1 /\ guarded = FALSE
    /\ checks = {} /\ report = "none"
    /\ stage = "running" /\ status = Pending
    /\ late = {} /\ faults = 0 /\ lies = 0
-----------------------------------------------------------------------------
(* wait_health gives up at its deadline.                                     *)
WaitHealth(p, s) == Sees(s \in p.up, p)

Matches(how) ==
    /\ Contract(suite) \subseteq checks
    /\ how = "missing" \/ checks \subseteq Contract(suite)

(* What the proof finds in its environment, and in what it remembers.        *)
Finds(p, s) ==
    CASE s.do = "keys" -> "keys" \notin unmet
      [] s.do \in {"tokens", "hosts"} -> s.do \notin unmet
      [] s.do \in {"gate", "source"} ->
           IF s.on = "broker" THEN BrokerReady(p.broker) ELSE s.on \notin unmet
      [] s.do = "image" -> "image" \notin unmet
      [] s.do = "get" -> ReadOnlyGet(s.on) = 200
      [] s.do = "absent" -> ~p.created
      [] s.do = "tasks" -> s.on \subseteq p.up
      [] s.do = "counted" -> p.seen[s.on] = s.want
      [] s.do = "issuedMore" -> Metrics(p.stub).issued > p.seen.issued
      [] s.do = "deduplicated" -> p.answers = {"duplicate"}
      [] s.do = "fetched" -> p.fetched = s.want
      [] s.do = "compare" -> Matches(s.on)
      [] OTHER -> TRUE     \* contract, try, note, metrics, revision, reference

(* The requests to the orchestrator.                                         *)
Answered(p, s) ==
    CASE s.do = "register" -> Register(p, s.on, s.want)
      [] s.do = "event" -> Deliver(p, s.on, s.want)
      [] s.do = "receipts" -> Sees(Receipts(p) = s.want, p)
      [] s.do = "fetchReceipts" -> Sees(TRUE, [p EXCEPT !.fetched = Receipts(p)])
      [] s.do = "start" -> StartOAuth(p, s.on)
      [] s.do = "wrongState" -> Sees(p.session[s.on] = "started", p)
      [] s.do = "complete" -> Complete(p, s.on)
      [] s.do = "completeWrite" -> CompleteWrite(p, s.on)
      [] s.do = "reuse" -> Sees(p.session[s.on] = "spent", p)
      [] s.do = "providerHealth" -> ProviderHealth(p, s.on, s.want)
      [] s.do = "refresh" -> RefreshToken(p, s.on)
      [] s.do = "revoke" -> Revoke(p, s.on)
      [] s.do = "sync" -> Sync(p, s.on, s.want)
      [] s.do = "policy" -> Sees(p.live = s.want, p)
      [] s.do = "create" -> Create(p, s.on, s.want)
      [] s.do = "recreate" -> Recreate(p, s.on)
      [] s.do = "pending" -> Sees(\A k \in s.on : p.actions[k].status = "PENDING_APPROVAL", p)
      [] s.do = "approve" -> Approve(p, s.on)
      [] s.do = "execute" -> Execute(p, s.on, s.want)
      [] s.do = "persisted" -> Persisted(p)
      [] s.do = "notExecuted" -> Sees(p.actions[s.on].status # "EXECUTED", p)
      [] s.do = "overnight" -> Sees(TRUE, [p EXCEPT !.runs = @ + 1])
      [] s.do \in {"gated", "briefed"} -> Sees(p.runs > 0, p)
      [] OTHER -> Sees(TRUE, p)     \* enable, tryEnable, adapter, inspect

Local == {"contract", "try", "note", "preflight", "revision", "reference", "keys", "tokens", "hosts",
          "gate", "source", "image", "get", "absent", "tasks", "counted", "issuedMore",
          "deduplicated", "fetched", "compare"}
Effect(p, s) ==
    CASE s.do = "health" -> WaitHealth(p, s.on)
      [] s.do = "metrics" -> Sees(TRUE, [p EXCEPT !.seen = Metrics(p.stub)])
      [] s.do = "composeUp" -> Boot(p, s.want)
      [] s.do = "dockerRun" -> DockerRun(p)
      [] s.do = "account" -> RegisterAccount(p)
      [] s.do \in Local -> Sees(Finds(p, s), p)
      [] OTHER -> IF "orchestrator" \in p.up THEN Answered(p, s) ELSE Sees(s.do = "tryEnable", p)

(* passed() raises on a check the contract does not declare.                 *)
Declared(id) == id = "" \/ Contract(suite) = {} \/ id \in Contract(suite)
-----------------------------------------------------------------------------
Over(code) == stage' = "over" /\ status' = code

Advance(then) ==
    /\ platform' = then
    /\ pc' = pc + 1
    /\ guarded' = (guarded \/ Current.do = "try")
    /\ checks' = IF Current.id = "" THEN checks ELSE checks \cup {Current.id}
    /\ UNCHANGED <<envVars, run, report, stage, status>>

(* The except branch, if there is one; raised again or returned as 1.        *)
\* Mutant: the except branch reports what has passed so far as a PASS.
RaisePassing(then) ==
    /\ platform' = then
    /\ report' = IF guarded THEN "PASS" ELSE report
    /\ Over(1)
    /\ UNCHANGED <<envVars, run, pc, guarded, checks>>

Raise(then) ==
    /\ platform' = then
    /\ report' = IF guarded THEN "FAIL" ELSE report
    /\ Over(1)
    /\ UNCHANGED <<envVars, run, pc, guarded, checks>>

Running == stage = "running" /\ pc \in DOMAIN Script(suite)
Goes(outcome) ==
    IF outcome.ok /\ Declared(Current.id) THEN Advance(outcome.then) ELSE Raise(outcome.then)

TakeStep ==
    /\ Running
    /\ Current.do # "publish"
    /\ ~(Current.do = "preflight" /\ preflight)
    /\ \E e \in Effect(platform, Current) : Goes(e)
    /\ UNCHANGED <<late, budget>>

(* --preflight ends after the contract has been validated.                   *)
Preflight ==
    /\ Running
    /\ Current.do = "preflight" /\ preflight
    /\ Over(0)
    /\ UNCHANGED <<envVars, run, pc, guarded, checks, report, platform, late, budget>>

Publish ==
    /\ Running
    /\ Current.do = "publish"
    /\ report' = "PASS"
    /\ Over(0)
    /\ UNCHANGED <<envVars, run, pc, guarded, checks, platform, late, budget>>

(* The same proof on what is there.  Containers of the boundary proofs stay, *)
(* everything else is started again on its data; the test-account lane names *)
(* its actions by the attempt.                                               *)
Again ==
    /\ stage = "over" /\ run < MaxRuns /\ ~preflight
    /\ run' = run + 1
    /\ pc' = 1 /\ guarded' = FALSE /\ checks' = {}
    /\ report' = IF report = "none" THEN "none" ELSE "earlier"
    /\ stage' = "running" /\ status' = Pending
    /\ platform' = [platform EXCEPT
          !.up = IF suite \in {"external", "boundary"} THEN @ ELSE {"orchestrator"},
          !.actions = IF suite = "test account" THEN [k \in Keys |-> NoAction] ELSE @,
          !.answers = {}]
    /\ UNCHANGED <<envVars, late, budget>>
-----------------------------------------------------------------------------
Fault == faults < MaxFaults /\ faults' = faults + 1 /\ UNCHANGED lies

(* A provider that has accepted a write, and an orchestrator that dies       *)
(* before it has written its receipt.                                        *)
Partial(p, s) ==
    IF s.do = "execute" /\ Executed(p, s.on).answer = "executed" /\ p.actions[s.on].mode = "LIVE"
    THEN {Posted(p, s.on)} ELSE {}

(* A request or a command fails or times out: before its effect, after it,   *)
(* or with an execution that is carried out later.                           *)
Interrupted ==
    /\ Running
    /\ Fault
    /\ \/ Raise(platform) /\ UNCHANGED late
       \/ /\ Current.do # "publish"
          /\ \E p \in {e.then : e \in Effect(platform, Current)} \cup Partial(platform, Current) : Raise(p)
          /\ UNCHANGED late
       \/ /\ Current.do = "execute"
          /\ Raise(platform)
          /\ late' = late \cup {[key |-> Current.on, run |-> run]}

LateExecute ==
    \E x \in late :
        /\ late' = late \ {x}
        /\ platform' = IF suite = "test account" /\ x.run # run
                       THEN [platform EXCEPT !.stub =
                               Post(@, KindOf(x.key), platform.token[KindOf(x.key)], TRUE).then]
                       ELSE Executed(platform, x.key).then
        /\ UNCHANGED <<envVars, procVars, budget>>

(* The orchestrator answers as it should and does something else.            *)
Misled ==
    /\ Running
    /\ lies < MaxLies /\ lies' = lies + 1
    /\ "orchestrator" \in platform.up
    /\ \E p \in Lies(platform, Current) : Goes(Outcome(TRUE, p))
    /\ UNCHANGED <<late, faults>>

Crash(c) ==
    /\ Running
    /\ Fault
    /\ c \in platform.up
    /\ platform' = [platform EXCEPT !.up = @ \ {c}]
    /\ UNCHANGED <<envVars, procVars, late>>

Proceed == TakeStep \/ Preflight \/ Publish

(* No run follows; anywhere else a run that cannot go on is a deadlock,      *)
(* which the checks of this module look for.                                 *)
Finished == stage = "over" /\ UNCHANGED vars

Next ==
    \/ Proceed
    \/ Again
    \/ Interrupted
    \/ LateExecute
    \/ Misled
    \/ \E c \in {"orchestrator", "core", "runtime"} : Crash(c)
    \/ Finished

Spec == Init /\ [][Next]_vars
-----------------------------------------------------------------------------
ConnectorTypeOK ==
    /\ suite \in Suites
    /\ pc \in Nat \ {0}
    /\ guarded \in BOOLEAN
    /\ stage \in {"running", "over"}
    /\ report \in {"none", "earlier", "PASS", "FAIL"}

(* What a recorded check says is so when it is recorded, of receipts, of     *)
(* tokens, of writes at the provider and of the runtime's container, however *)
(* many requests fail and however often the orchestrator does something      *)
(* else, but for two kinds.  A claim that compares a sum of receipts needs   *)
(* at most one wrong answer: of two, one may lose what the other stores      *)
(* twice.  A claim about writes needs failed requests or wrong answers and   *)
(* not both: an execution that failed in an earlier run may be carried out   *)
(* again after the last look at the stub, if its receipt was not written.    *)
Writing == suite = "live write"
OneKind == lies = 0 \/ faults = 0
Once(events) == \A e \in events : platform.receipts[e] = 1
Truth(id) ==
    CASE id = "connector.duplicate-no-second-receipt" -> Once({"faq", "email", "billing"})
      [] id = "adapter.only-verified-deliveries-persisted" ->
           Once({"generic-1", "github-1"}) /\ \A e \in BadDeliveries : platform.receipts[e] = 0
      [] id = "sync.receipts-persisted" -> Once(UNION {Items[k] : k \in Kinds})
      [] id = "oauth.refresh-rotates-runtime-token" -> Cardinality(platform.stub.tokens) > 1
      [] id = "oauth.revoked-health-blocked" -> platform.token["github"] = 0
      [] id \in {"oauth.no-outbound-provider-mutation", "sync.no-provider-mutations",
                 "live.provider-no-unsafe-mutations"} -> platform.stub.unsafe = 0
      [] id = "live.provider-untouched-before-approval" ->
           platform.early = {} /\ platform.stub.write = 0
      [] id = "live.execution-replay-idempotent" /\ Writing ->
           \A k \in Kinds : platform.stub.posts[k] = 1
      [] id \in {"core.gateway-healthy-without-ai-runtime", "core.identity-healthy-without-ai-runtime",
                 "core.user-healthy-without-ai-runtime", "core.audit-healthy-without-ai-runtime"} ->
           "runtime" \notin platform.up
      [] OTHER -> TRUE
Sums == {"connector.duplicate-no-second-receipt", "adapter.only-verified-deliveries-persisted",
         "sync.receipts-persisted"}
OfWrites == {"live.provider-untouched-before-approval", "live.execution-replay-idempotent"}
Sure(id) == (id \in Sums => lies <= 1) /\ (id \in OfWrites => OneKind)
ClaimsHoldWhenMade == [][\A id \in checks' \ checks : (Sure(id) => Truth(id))']_vars

(* The proofs and the platform agree: a first run in a complete environment  *)
(* that nothing disturbs passes.                                             *)
SoundPlatformPasses ==
    stage = "over" /\ run = 1 /\ faults = 0 /\ lies = 0 /\ unmet = {} /\ ~preflight => report = "PASS"

(* The test accounts are not written to unless the lane is armed, has its    *)
(* targets, and is not aimed at the project's own repository.                *)
ArmedOrUntouched ==
    suite = "test account" /\ unmet # {} => platform.stub.write = 0

(* When the write proof passes, each provider has been posted to exactly     *)
(* once, by whatever run and however late, under the same condition.         *)
PassMeansOnce ==
    Writing /\ report = "PASS" /\ OneKind => \A k \in Kinds : platform.stub.posts[k] = 1

(* A run that got into its try block leaves its own report, never that of an *)
(* earlier run.                                                              *)
ReportIsOfThisRun == stage = "over" /\ guarded => report \in {"PASS", "FAIL"}

(* The exit status is no better than the report.                             *)
ExitAgreesWithReport == status = 0 => report = "PASS" \/ preflight

(* The proofs implement what an evidence run promises; the read-only one,    *)
(* which has no try block, only when it passes, and is left out.             *)
Reporting == Guards(suite)
Verdict == IF stage = "running" \/ report \in {"none", "earlier"} \/ ~Reporting THEN "none" ELSE report
Evidence == INSTANCE EvidenceRun WITH
    required <- Contract(suite),
    stage <- IF ~Reporting THEN "new" ELSE IF stage = "over" THEN "over"
             ELSE IF guarded THEN "collecting" ELSE "new",
    claims <- IF Reporting THEN checks ELSE {},
    verdict <- Verdict
EvidenceSpec == Evidence!Spec
=============================================================================
