------------------------------ MODULE LoadProof ------------------------------
(* The load proof, src/tools/performance_load_runtime_smoke.py: it registers *)
(* principals below the rate of the identity route, drives two profiles of   *)
(* reads through a pool of worker threads, one request after another taking  *)
(* the next principal, samples the gateway's health in a thread of its own,  *)
(* and then overloads one principal.  The gateway's limiter keeps a bucket   *)
(* of tokens per principal and refills it once a second.                     *)
EXTENDS Integers, Sequences, FiniteSets, SequencesExt

CONSTANTS Requests, Workers, Principals,   \* of each phase
          Capacity, Rate,                  \* burstCapacity, replenishRate of reads
          IdentityCapacity, IdentityRate,  \* of registrations
          Pause, Second,                   \* sleep between them and a second, in ticks
          ErrorPercent, MaxLatency,        \* guardrails; latency in seconds,
          MinThroughput,                   \* requests per second
          Min429,
          MaxSeconds,                      \* seconds a phase may take
          MaxFaults    \* failed requests, samples or last checks, late joins

Profiles == {"burst", "sustained"}
Phases == Profiles \cup {"probe"}
Capped(n, limit) == IF n < limit THEN n ELSE limit

(* Every principal of a profile stays within the bucket of one user, the     *)
(* probe does not.                                                           *)
ASSUME LoadAssumption ==
    /\ Requests \in [Phases -> Nat \ {0}]
    /\ Workers \in [Phases -> Nat \ {0}]
    /\ Principals \in [Phases -> Nat \ {0}] /\ Principals["probe"] = 1
    /\ Capacity \in Nat \ {0} /\ Rate \in Nat
    /\ \A f \in Profiles : Requests[f] <= Principals[f] * Capacity
ASSUME SetupAssumption ==
    /\ IdentityCapacity \in Nat /\ IdentityRate \in Nat
    /\ Pause \in Nat \ {0} /\ Second \in Nat \ {0} /\ MaxSeconds \in Nat /\ MaxFaults \in Nat
    /\ Min429 \in Nat /\ ErrorPercent \in Nat /\ MaxLatency \in Nat
    /\ MinThroughput \in Nat

VARIABLES phase,       \* setup, a phase, over
          registered, identity, tick,   \* principals, identity bucket, part of a second
          next,        \* the index of the next future
          flying,      \* futures a worker has taken: [index, since]
          answers,     \* observations: [index, outcome, latency]
          tokens,      \* bucket per principal of the phase
          seconds,     \* seconds since the phase began
          metrics,     \* what the phases left behind
          monitor, stop, samples, failures,   \* the health monitor and its event
          health,      \* health_during_load
          faults, report

setupVars == <<registered, identity, tick>>
loadVars == <<next, flying, answers, tokens, seconds>>
monitorVars == <<monitor, stop, samples, failures, health>>
vars == <<phase, setupVars, loadVars, metrics, monitorVars, faults, report>>

None == [samples |-> 0, failures |-> 0]    \* health_during_load is None or empty
NeededPrincipals == Principals["burst"] + Principals["sustained"] + 2

Begin(f) ==
    /\ phase' = f
    /\ next' = 0 /\ flying' = {} /\ answers' = {}
    /\ tokens' = [p \in 0..(Principals[f] - 1) |-> Capacity]
    /\ seconds' = 0

Init ==
    /\ phase = "setup"
    /\ registered = 0 /\ identity = IdentityCapacity /\ tick \in 0..(Second - 1)
    /\ next = 0 /\ flying = {} /\ answers = {} /\ tokens = <<>> /\ seconds = 0
    /\ metrics = <<>>
    /\ monitor = "off" /\ stop = FALSE /\ samples = 0 /\ failures = 0 /\ health = None
    /\ faults = 0 /\ report = "none"

Finish(verdict) ==
    /\ phase' = "over"
    /\ report' = verdict
-----------------------------------------------------------------------------
(* register_principal_pool: one registration, then a pause; the warm-up and  *)
(* the overload principal are registered without one.                        *)
Pauses(k) == k # 0 /\ k # NeededPrincipals - 1

\* Mutant: no pause between registrations.
NeverPauses(k) == FALSE

Paused(k) == Pauses(k)
Register ==
    /\ phase = "setup"
    /\ registered < NeededPrincipals
    /\ IF identity = 0
       THEN Finish("FAIL") /\ UNCHANGED <<setupVars, loadVars>>
       ELSE /\ registered' = registered + 1
            /\ LET later == tick + IF Paused(registered) THEN Pause ELSE 0 IN
               /\ tick' = later % Second
               /\ identity' = Capped(identity - 1 + (later \div Second) * IdentityRate,
                                     IdentityCapacity)
            /\ UNCHANGED <<phase, loadVars, report>>
    /\ UNCHANGED <<metrics, monitorVars, faults>>

SetupDone ==
    /\ phase = "setup"
    /\ registered = NeededPrincipals
    /\ Begin("burst")
    /\ tick' = 0 /\ identity' = IdentityCapacity
    /\ UNCHANGED <<registered, metrics, monitorVars, faults, report>>
-----------------------------------------------------------------------------
(* A worker takes the next future.                                           *)
Take ==
    /\ phase \in Phases
    /\ next < Requests[phase]
    /\ Cardinality(flying) < Workers[phase]
    /\ flying' = flying \cup {[index |-> next, since |-> seconds]}
    /\ next' = next + 1
    /\ UNCHANGED <<phase, setupVars, answers, tokens, seconds, metrics, monitorVars, faults, report>>

(* headers_pool[index % len(headers_pool)]                                   *)
\* Mutant: one session for every request.
SharedPrincipal(f, i) == 0
Principal(f, i) == i % Principals[f]

Observed(r, outcome) ==
    /\ flying' = flying \ {r}
    /\ answers' = answers \cup {[index |-> r.index, outcome |-> outcome,
                                 latency |-> seconds - r.since]}

(* The limiter's script and the answer: one token for one request.           *)
\* Mutant: a route without the limiter.
AnswerUnlimited(r) ==
    /\ phase \in Phases
    /\ Observed(r, "200")
    /\ UNCHANGED <<phase, setupVars, next, tokens, seconds, metrics, monitorVars, faults, report>>

\* Mutant: a refused request is repeated until it is admitted.
AnswerRetrying(r) ==
    LET p == Principal(phase, r.index) IN
    /\ phase \in Phases
    /\ tokens[p] > 0
    /\ Observed(r, "200")
    /\ tokens' = [tokens EXCEPT ![p] = @ - 1]
    /\ UNCHANGED <<phase, setupVars, next, seconds, metrics, monitorVars, faults, report>>

Answer(r) ==
    LET p == Principal(phase, r.index) IN
    /\ phase \in Phases
    /\ IF tokens[p] > 0
       THEN Observed(r, "200") /\ tokens' = [tokens EXCEPT ![p] = @ - 1]
       ELSE Observed(r, "429") /\ UNCHANGED tokens
    /\ UNCHANGED <<phase, setupVars, next, seconds, metrics, monitorVars, faults, report>>

(* A request that fails or times out, having spent a token or not.           *)
Fail(r) ==
    LET p == Principal(phase, r.index) IN
    /\ phase \in Phases
    /\ faults < MaxFaults /\ faults' = faults + 1
    /\ Observed(r, "error")
    /\ \/ UNCHANGED tokens
       \/ tokens[p] > 0 /\ tokens' = [tokens EXCEPT ![p] = @ - 1]
    /\ UNCHANGED <<phase, setupVars, next, seconds, metrics, monitorVars, report>>

Refilled(t) == Capped(t + Rate, Capacity)
SecondPasses ==
    /\ phase \in Phases
    /\ seconds < MaxSeconds
    /\ seconds' = seconds + 1
    /\ tokens' = [p \in DOMAIN tokens |-> Refilled(tokens[p])]
    /\ UNCHANGED <<phase, setupVars, next, flying, answers, metrics, monitorVars, faults, report>>
-----------------------------------------------------------------------------
(* monitor(): it samples until the event is set, and leaves its counts when  *)
(* it ends.                                                                  *)
MonitorStart ==
    /\ phase = "sustained"
    /\ monitor = "off"
    /\ monitor' = "looping"
    /\ UNCHANGED <<phase, setupVars, loadVars, metrics, stop, samples, failures, health, faults, report>>

MonitorSample ==
    /\ monitor = "looping"
    /\ ~stop
    /\ samples' = Capped(samples + 1, 2)
    /\ \/ UNCHANGED <<failures, faults>>
       \/ failures' = 1 /\ faults < MaxFaults /\ faults' = faults + 1
    /\ monitor' = "sampling"
    /\ UNCHANGED <<phase, setupVars, loadVars, metrics, stop, health, report>>

MonitorWait ==
    /\ monitor = "sampling"
    /\ monitor' = "looping"
    /\ UNCHANGED <<phase, setupVars, loadVars, metrics, stop, samples, failures, health, faults, report>>

MonitorEnd ==
    /\ monitor = "looping"
    /\ stop
    /\ monitor' = "ended"
    /\ health' = [samples |-> samples, failures |-> failures]
    /\ UNCHANGED <<phase, setupVars, loadVars, metrics, stop, samples, failures, faults, report>>
-----------------------------------------------------------------------------
(* percentile(): of the sorted latencies the one at ceil(quantile * n) - 1.  *)
Ceiling(percent, n) == (percent * n + 99) \div 100
Rank(percent, n) == IF Ceiling(percent, n) < 1 THEN 1 ELSE Ceiling(percent, n)
Percentile(ordered, percent) ==
    IF ordered = <<>> THEN 0 ELSE ordered[Rank(percent, Len(ordered))]

Latencies ==
    LET slowestLast == SetToSortSeq(answers, LAMBDA a, b : a.latency < b.latency)
    IN  [k \in DOMAIN slowestLast |-> slowestLast[k].latency]

Count(outcome) == Cardinality({a \in answers : a.outcome = outcome})
Metrics ==
    [total |-> Cardinality(answers), errors |-> Cardinality(answers) - Count("200"),
     seconds |-> seconds,
     p50 |-> Percentile(Latencies, 50), p95 |-> Percentile(Latencies, 95),
     p99 |-> Percentile(Latencies, 99), max |-> Percentile(Latencies, 100)]

Observations == phase \in Phases /\ next = Requests[phase] /\ flying = {}

BurstDone ==
    /\ phase = "burst"
    /\ Observations
    /\ metrics' = [burst |-> Metrics]
    /\ Begin("sustained")
    /\ UNCHANGED <<setupVars, monitorVars, faults, report>>

(* finally: stop_event.set()                                                 *)
SetStop ==
    /\ phase = "sustained"
    /\ Observations
    /\ ~stop
    /\ stop' = TRUE
    /\ UNCHANGED <<phase, setupVars, loadVars, metrics, monitor, samples, failures, health, faults, report>>

Within(m) ==
    /\ 100 * m.errors <= ErrorPercent * m.total
    /\ m.p95 <= MaxLatency
    /\ m.total >= MinThroughput * m.seconds
    /\ m.p50 <= m.p95 /\ m.p95 <= m.p99 /\ m.p99 <= m.max

(* join(timeout=5), which a sample may outlast, and the guardrails on both   *)
(* profiles and on the health during the load.                               *)
Joined == stop /\ monitor = "ended"
SustainedDone ==
    /\ Joined \/ (stop /\ faults < MaxFaults)
    /\ phase = "sustained"
    /\ faults' = IF Joined THEN faults ELSE faults + 1
    /\ metrics' = metrics @@ [sustained |-> Metrics]
    /\ IF Within(metrics.burst) /\ Within(Metrics)
             /\ health.samples >= 1 /\ health.failures = 0
       THEN Begin("probe") /\ UNCHANGED report
       ELSE Finish("FAIL") /\ UNCHANGED loadVars
    /\ UNCHANGED <<setupVars, monitorVars>>

(* The guardrails on the probe; after them the services, a protected read    *)
(* and the users it lists are checked once more, each of which may fail.     *)
ProbePassed == Count("429") >= Min429 /\ Count("200") >= 1

ProbeDone ==
    /\ phase = "probe"
    /\ Observations
    /\ metrics' = metrics @@ [probe |-> [limited |-> Count("429"), served |-> Count("200"),
                                         seconds |-> seconds]]
    /\ \/ Finish(IF ProbePassed THEN "PASS" ELSE "FAIL") /\ UNCHANGED faults
       \/ /\ ProbePassed
          /\ faults < MaxFaults /\ faults' = faults + 1
          /\ Finish("FAIL")
    /\ UNCHANGED <<setupVars, loadVars, monitorVars>>

Load == Take \/ \E r \in flying : Answer(r)
Monitor == MonitorStart \/ MonitorSample \/ MonitorWait \/ MonitorEnd
Main == Register \/ SetupDone \/ BurstDone \/ SetStop \/ SustainedDone \/ ProbeDone

Next == Load \/ Monitor \/ Main \/ SecondPasses \/ \E r \in flying : Fail(r)
Spec == Init /\ [][Next]_vars

(* Worker threads, the monitor thread and the main thread are scheduled.     *)
FairSpec == Spec /\ WF_vars(Load) /\ WF_vars(Monitor) /\ WF_vars(Main)
-----------------------------------------------------------------------------
LoadTypeOK ==
    /\ phase \in Phases \cup {"setup", "over"}
    /\ monitor \in {"off", "looping", "sampling", "ended"} /\ stop \in BOOLEAN
    /\ samples \in 0..2 /\ failures \in 0..1
    /\ health \in [samples : 0..2, failures : 0..1]
    /\ faults \in 0..MaxFaults /\ report \in {"none", "PASS", "FAIL"}

(* "Policy-compliant" profiles: however the workers are scheduled and        *)
(* however slowly the requests come, no profile read is ever rate limited.   *)
CompliantLoadIsNeverLimited ==
    phase \in Profiles => \A a \in answers : a.outcome # "429"

(* The overload of one principal is refused unless the probe takes so long   *)
(* that the bucket refills.                                                  *)
OverloadIsRefused ==
    phase = "probe" /\ Observations /\ Capacity + seconds * Rate + Count("error") < Requests["probe"]
        => Count("429") > 0

(* Nothing but a fault, a slow machine (for a latency, for the throughput or *)
(* for the overload) or a monitor that never ran makes the load proof fail;  *)
(* setup in particular is never rate limited.                                *)
Slow ==
    \/ \E f \in Profiles \cap DOMAIN metrics :
          \/ metrics[f].p95 > MaxLatency
          \/ Requests[f] < MinThroughput * metrics[f].seconds
    \/ /\ "probe" \in DOMAIN metrics
       /\ Capacity + metrics.probe.seconds * Rate >= Requests["probe"]
UndisturbedLoadPasses ==
    report = "FAIL" => faults > 0 \/ Slow \/ (samples = 0 /\ monitor = "ended")

(* The health evidence behind a PASS is the whole of what the monitor saw.   *)
HealthIsComplete ==
    phase \in {"probe", "over"} /\ report # "FAIL" => monitor = "ended"

LoadEnds == <>(report # "none")
=============================================================================
