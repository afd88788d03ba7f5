---------------------------- MODULE HostedProofs ----------------------------
(* A hosted runtime proof at work: it walks through the script of its main() *)
(* on a platform where containers crash, commands time out after or before   *)
(* they took effect and the user-read breaker opens and half-opens by the    *)
(* clock; an exception inside the try block ends in a FAIL report, one       *)
(* before it in none, and data recovery stops its containers in a finally.   *)
EXTENDS HostedPlatform, HostedScripts, HostedContracts

CONSTANTS MaxFaults,    \* crashes, failed commands and late steps of a run
          MaxLimited,   \* reads of the outage loop the rate limiter answers (429)
          EarlierReads  \* successful reads the breaker has seen before the run

ASSUME BoundsAssumption ==
    /\ MaxFaults \in Nat /\ MaxLimited \in Nat
    /\ EarlierReads \subseteq 0..WindowSize
ASSUME BreakerAssumption ==
    /\ Retries \in Nat /\ Permitted \in Nat \ {0}
    /\ WindowSize \in Nat \ {0} /\ MinimumCalls \in 1..WindowSize

VARIABLES suite, used,  \* which proof, and whether it ran on this platform before
          pc, guarded,  \* the next step; inside the try block
          platform, checks, named, report, stage, status,
          loop,         \* reads, 429s and fallbacks of the outage loop
          faults,
          missed,       \* containers docker stop failed to stop
          unseen,       \* services stopped or restarted and not seen serving since
          source        \* where the answers behind the user-list checks came from

runVars == <<suite, used>>
noteVars == <<missed, unseen, source>>
vars == <<runVars, pc, guarded, platform, checks, named, report, stage, status,
          loop, faults, noteVars>>

Pending == -1           \* the process has not ended
Current == Script(suite)[pc]
Temporary == <<"recovery-user", "recovery-identity">>    \* in the order of finally

Init ==
    /\ suite \in Suites
    /\ used \in BOOLEAN
    /\ \E n \in EarlierReads : platform = Found(used, n)
    /\ pc = 1 /\ guarded = FALSE
    /\ checks = {} /\ named = {}
    /\ report = (IF used THEN "earlier" ELSE "none")
    /\ stage = "running" /\ status = Pending
    /\ loop = [reads |-> 0, limited |-> 0, fallbacks |-> 0]
    /\ faults = 0
    /\ missed = {} /\ unseen = {} /\ source = {}
-----------------------------------------------------------------------------
(* wait_health gives up at its deadline.                                     *)
WaitHealth(p, s) == Sees(s \in p.up \cup p.temp, p)

(* Ten seconds after it opened the breaker half-opens; the deadlines of the  *)
(* waits for that are longer.                                                *)
WaitBreaker(p, state) ==
    IF state = "HALF_OPEN" /\ p.breaker = "OPEN" THEN {} ELSE Sees(p.breaker = state, p)
WaitRead(p) == IF Runs(p, Core) /\ p.breaker = "OPEN" THEN {} ELSE Read(p, {200})

(* One call refused by an open breaker: the fallback, and a higher count.    *)
Denied(p) == {Outcome(r.status = 503 /\ r.then.denied > p.denied, r.then) : r \in GatewayRead(p)}

Matches(how) ==
    /\ Contract(suite) \subseteq checks
    /\ how = "missing" \/ checks \subseteq Contract(suite)

(* What the step does and asserts; the steps that look at no state this      *)
(* model keeps (rejections by the JWT filter, psql selects, hashes, images)  *)
(* hold unless they are disturbed.                                           *)
Effect(p, s) ==
    CASE s.do = "health" -> WaitHealth(p, s.on)
      [] s.do = "ping" -> Sees(s.on \in p.up, p)
      [] s.do = "down" -> Sees(s.on \notin p.up, p)
      [] s.do = "targets" -> Sees(Runs(p, Core \cup {"orchestrator-service", "prometheus"}), p)
      [] s.do = "rejected" -> Sees(Runs(p, {"gateway"}), p)
      [] s.do = "register" -> Register(p, s.on)
      [] s.do = "login" -> Login(p, "copy", s.on)
      [] s.do = "refresh" -> Refresh(p, "main", s.on, s.want)
      [] s.do = "refreshCopy" -> Refresh(p, "copy", s.on, s.want)
      [] s.do = "race" -> Race(p, s.on)
      [] s.do = "logout" -> Logout(p, s.on)
      [] s.do = "active" -> Sees(Live(p, "main", s.on), p)
      [] s.do = "revoked" -> Sees(~Live(p, "main", s.on), p)
      [] s.do = "onlyActive" -> Sees(OnlyActive(p, s.on), p)
      [] s.do = "create" -> Create(p, s.on)
      [] s.do = "event" -> Sees(s.on \in p.audit /\ "audit-service" \in p.up, p)
      [] s.do = "read" -> Read(p, s.want)
      [] s.do = "waitRead" -> WaitRead(p)
      [] s.do = "readUser" -> ReadUser(p, s.on)
      [] s.do = "readById" -> ReadById(p, s.on)
      [] s.do = "readMain" -> ReadDirectly(p, "main", s.on)
      [] s.do = "readCopy" -> ReadDirectly(p, "copy", s.on)
      [] s.do = "listCached" -> Sees(p.list # Nothing, p)
      [] s.do = "listEmpty" -> Sees(p.list = Nothing, p)
      [] s.do = "byIdCached" -> Sees(p.byId, p)
      [] s.do = "breaker" -> WaitBreaker(p, s.on)
      [] s.do = "denied" -> Denied(p)
      [] s.do = "stop" -> Stop(p, s.on)
      [] s.do = "start" -> StartAll(p, s.on)
      [] s.do = "restart" -> Restart(p, s.on)
      [] s.do = "run" -> RunTemporary(p, s.on)
      [] s.do = "flush" -> Flush(p)
      [] s.do = "dump" -> Dump(p)
      [] s.do = "createdb" -> CreateDatabase(p)
      [] s.do = "restore" -> Restore(p)
      [] s.do = "remember" -> Remember(p)
      [] s.do = "unchanged" -> Unchanged(p, s.on)
      [] s.do = "count" -> Count(p)
      [] s.do = "recount" -> Recount(p, s.on)
      [] s.do = "compare" -> Sees(Matches(s.on), p)
      [] OTHER -> Sees(TRUE, p)    \* contract, try, name, release, psql, load

(* passed() raises on a check the contract does not declare.                 *)
Declared(id) == id = "" \/ suite = "browser" \/ id \in Contract(suite)
-----------------------------------------------------------------------------
Over(code) ==
    /\ stage' = "over"
    /\ status' = code

(* return and raise both pass through the finally block of data recovery.    *)
Leave(code) ==
    IF suite = "recovery"
    THEN stage' = "cleanup" /\ status' = code
    ELSE Over(code)

Advance(then) ==
    /\ platform' = then
    /\ pc' = pc + 1
    /\ guarded' = (guarded \/ Current.do = "try")
    /\ checks' = IF Current.id = "" THEN checks ELSE checks \cup {Current.id}
    /\ named' = IF Current.do = "name" THEN named \cup {Current.on} ELSE named
    /\ UNCHANGED <<runVars, report, stage, status, loop, faults>>

(* The except branch.                                                        *)
\* Mutant: the report is written on success only.
RaiseSilently(then) ==
    /\ platform' = then
    /\ Leave(1)
    /\ UNCHANGED <<runVars, pc, guarded, checks, named, report, loop, noteVars>>

\* Mutant: the exception is reported and not raised again.
RaiseSwallowed(then) ==
    /\ platform' = then
    /\ report' = IF guarded THEN "FAIL" ELSE report
    /\ Leave(0)
    /\ UNCHANGED <<runVars, pc, guarded, checks, named, loop, noteVars>>

\* Mutant: the except branch reports what has passed so far as a PASS.
RaisePassing(then) ==
    /\ platform' = then
    /\ report' = IF guarded THEN "PASS" ELSE report
    /\ Leave(1)
    /\ UNCHANGED <<runVars, pc, guarded, checks, named, loop, noteVars>>

Raise(then) ==
    /\ platform' = then
    /\ report' = IF guarded THEN "FAIL" ELSE report
    /\ Leave(1)
    /\ UNCHANGED <<runVars, pc, guarded, checks, named, loop, noteVars>>

Running == stage = "running" /\ pc \in DOMAIN Script(suite)

Note(s) ==
    /\ UNCHANGED missed
    /\ unseen' = CASE s.do \in {"stop", "restart"} -> unseen \cup s.on
                   [] s.do \in {"health", "ping"} -> unseen \ {s.on}
                   [] OTHER -> unseen
    /\ source' = IF s.do \notin {"readUser", "readCopy"} THEN source
                 ELSE source \cup
                   {[id |-> s.id, cached |-> platform.list # Nothing,
                     from |-> Answer(platform, IF s.do = "readCopy" THEN "copy" ELSE "main").from]}

TakeStep ==
    /\ Running
    /\ Current.do \notin {"outage", "publish"}
    /\ \E e \in Effect(platform, Current) :
         IF e.ok /\ Declared(Current.id)
         THEN Advance(e.then) /\ Note(Current)
         ELSE Raise(e.then) /\ UNCHANGED faults

(* Up to eight reads of the stopped service: a 429 waits for the next round, *)
(* anything but the structured fallback raises, an open breaker ends it.     *)
OutageRound ==
    /\ Running
    /\ Current.do = "outage"
    /\ loop.reads < Current.on
    /\ platform.breaker # "OPEN" \/ loop.fallbacks = 0
    /\ \/ /\ loop.limited < MaxLimited
          /\ loop' = [loop EXCEPT !.reads = @ + 1, !.limited = @ + 1]
          /\ UNCHANGED <<platform, pc, guarded, checks, named, runVars, report, stage,
                         status, faults, noteVars>>
       \/ \E r \in GatewayRead(platform) :
            IF r.status = 503
            THEN /\ platform' = r.then
                 /\ loop' = [loop EXCEPT !.reads = @ + 1, !.fallbacks = @ + 1]
                 /\ UNCHANGED <<pc, guarded, checks, named, runVars, report, stage,
                                status, faults, noteVars>>
            ELSE Raise(r.then) /\ UNCHANGED faults

OutageOver ==
    /\ Running
    /\ Current.do = "outage"
    /\ loop.reads = Current.on \/ (platform.breaker = "OPEN" /\ loop.fallbacks > 0)
    /\ IF loop.fallbacks > 0 /\ Declared(Current.id)
       THEN Advance(platform) /\ UNCHANGED noteVars
       ELSE Raise(platform) /\ UNCHANGED faults

Publish ==
    /\ Running
    /\ Current.do = "publish"
    /\ report' = "PASS"
    /\ Leave(0)
    /\ UNCHANGED <<runVars, pc, guarded, platform, checks, named, loop, faults, noteVars>>

(* finally: docker stop for each container that has a name; --rm removes it. *)
Cleanup ==
    /\ stage = "cleanup"
    /\ platform' = [platform EXCEPT !.temp = @ \ named]
    /\ Over(status)
    /\ UNCHANGED <<runVars, pc, guarded, checks, named, report, loop, faults, noteVars>>
-----------------------------------------------------------------------------
(* The clock of the open state.  Up to the restart of the user service the   *)
(* resilience proof is faster than it, or disturbed.                         *)
Recovering == suite = "resilience" => pc > Len(Prologue \o ResilienceOutage)
HalfOpen ==
    /\ Running
    /\ platform.breaker = "OPEN"
    /\ platform' = Reset(platform, "HALF_OPEN")
    /\ IF Recovering THEN UNCHANGED faults
       ELSE faults < MaxFaults /\ faults' = faults + 1
    /\ UNCHANGED <<runVars, pc, guarded, checks, named, report, stage, status, loop, noteVars>>

Fault == faults < MaxFaults /\ faults' = faults + 1

Crash(s) ==
    /\ Running
    /\ Fault
    /\ s \in platform.up
    /\ platform' = [platform EXCEPT !.up = @ \ {s}]
    /\ UNCHANGED <<runVars, pc, guarded, checks, named, report, stage, status, loop, noteVars>>

(* A request or a command fails or times out, before or after its effect.    *)
Interrupted ==
    /\ Running
    /\ Fault
    /\ \/ Raise(platform)
       \/ /\ Current.do \notin {"outage", "publish"}
          /\ \E e \in Effect(platform, Current) : Raise(e.then)

(* docker stop fails for one container, which nobody looks at, or times out, *)
(* which ends the finally block: the other one may not be stopped either.    *)
CleanupFails ==
    /\ stage = "cleanup"
    /\ Fault
    /\ \/ \E c \in named : missed' = {c} /\ Over(status)
       \/ \E m \in {{"recovery-identity"}, {"recovery-identity", "recovery-user"}} :
            m \cap named # {} /\ missed' = m /\ Over(1)
    /\ platform' = [platform EXCEPT !.temp = @ \ (named \ missed')]
    /\ UNCHANGED <<runVars, pc, guarded, checks, named, report, loop, unseen, source>>

Proceed == TakeStep \/ OutageRound \/ OutageOver \/ Publish \/ Cleanup

(* The process has ended; anywhere else a run that cannot go on is a         *)
(* deadlock, which the checks of this module look for.                       *)
Finished == stage = "over" /\ UNCHANGED vars

Next ==
    \/ Proceed
    \/ HalfOpen
    \/ \E s \in Core \cup {"postgres", "redis"} : Crash(s)
    \/ Interrupted
    \/ CleanupFails
    \/ Finished

Spec == Init /\ [][Next]_vars
-----------------------------------------------------------------------------
ProofTypeOK ==
    /\ suite \in Suites
    /\ pc \in Nat \ {0}
    /\ guarded \in BOOLEAN
    /\ stage \in {"running", "cleanup", "over"}
    /\ report \in {"none", "earlier", "PASS", "FAIL"}

(* The proofs and the platform agree: a run that nothing disturbs passes, on *)
(* a fresh platform, after any successful reads, and with some of its outage *)
(* reads rate limited; on a used platform those that stamp their addresses.  *)
Rerunnable == suite \in {"resilience", "security", "recovery", "browser"}
UndisturbedRunPasses ==
    stage = "over" /\ faults = 0 /\ (used => Rerunnable) => report = "PASS"

(* A PASS is not reported while a service the proof itself stopped or        *)
(* restarted has not been seen serving again.                                *)
PassSawRecovery == report = "PASS" => unseen = {}

(* The user list that proves the cache recovers comes from the database, and *)
(* the one that proves the restore comes from the restored database, not     *)
(* from the Redis both user services share.                                  *)
AnswersComeFromTheirStore ==
    \A s \in source :
        /\ s.id = "cache.authoritative-read-recovers" => ~s.cached /\ s.from = "main"
        /\ s.id = "recovery.restored-user-readable" => s.from = "copy"

(* However data recovery ends, and wherever it was interrupted, no container *)
(* of its docker compose run outlives it, except one docker stop failed for. *)
NoTemporaryOutlives == stage = "over" => platform.temp \subseteq missed

(* A run that got into its try block leaves its own report, never that of an *)
(* earlier run.                                                              *)
ReportIsOfThisRun == stage = "over" /\ guarded => report \in {"PASS", "FAIL"}

(* The exit status is no better than the report.                             *)
ExitAgreesWithReport == status = 0 => report = "PASS"

(* The proof implements what an evidence run promises.                       *)
Verdict == IF stage = "running" \/ report \in {"none", "earlier"} THEN "none" ELSE report
Evidence == INSTANCE EvidenceRun WITH
    required <- Contract(suite),
    stage <- IF stage # "running" THEN "over" ELSE IF guarded THEN "collecting" ELSE "new",
    claims <- checks,
    verdict <- Verdict
EvidenceSpec == Evidence!Spec
=============================================================================
