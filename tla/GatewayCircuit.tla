--------------------------- MODULE GatewayCircuit --------------------------
(* One route of the gateway: the retry filter of the read routes around the  *)
(* circuit breaker, its time limiter and its fallback, in front of a service *)
(* that may be slow or down (gateway application.yml, FallbackController).   *)
(* Resilience4j applies a result to the state the breaker is in when the     *)
(* call ends, whatever it was when the call began, and a call that the time  *)
(* limiter gives up is still on its way to the service.                      *)
EXTENDS Integers, FiniteSets, Sequences

CONSTANTS Request,       \* client requests under way at once
          Retries,       \* retries of the route: 2 on reads, 0 on writes
          WindowSize,    \* slidingWindowSize
          MinimumCalls,  \* minimumNumberOfCalls
          Permitted      \* permittedNumberOfCallsInHalfOpenState

ASSUME CircuitAssumption ==
    /\ Retries \in Nat
    /\ WindowSize \in Nat \ {0}
    /\ MinimumCalls \in 1..WindowSize
    /\ Permitted \in Nat \ {0}
    /\ IsFiniteSet(Request)

VARIABLES up,        \* the service answers within the time limits
          breaker, window, permits,
          pc,
          attempt,   \* retries the filter has used
          served,    \* how often the service has carried the request out
          late,      \* attempts the gateway gave up and the service still has
          status     \* the answer the client got

breakerVars == <<breaker, window, permits>>
circuitVars == <<up, breakerVars, pc, attempt, served, late, status>>

Status == {"none", "ok", "fallback"}

CircuitTypeOK ==
    /\ up \in BOOLEAN
    /\ breaker \in {"CLOSED", "OPEN", "HALF_OPEN"}
    /\ window \in Seq({"success", "failure"})
    /\ breaker = "CLOSED" => Len(window) <= WindowSize
    /\ breaker = "HALF_OPEN" => Len(window) < Permitted
    /\ breaker = "OPEN" => window = <<>>
    /\ permits \in 0..(Permitted + Cardinality(Request))
    /\ pc \in [Request -> {"idle", "gate", "called", "served", "refused"}]
    /\ attempt \in [Request -> 0..Retries]
    /\ served \in [Request -> Nat]
    /\ late \in [Request -> Nat]
    /\ status \in [Request -> Status]

CircuitInit ==
    /\ up = TRUE
    /\ breaker = "CLOSED" /\ window = <<>> /\ permits = 0
    /\ pc = [r \in Request |-> "idle"]
    /\ attempt = [r \in Request |-> 0]
    /\ served = [r \in Request |-> 0]
    /\ late = [r \in Request |-> 0]
    /\ status = [r \in Request |-> "none"]
-----------------------------------------------------------------------------
At(r, s) == pc[r] = s
Goto(r, s) == pc' = [pc EXCEPT ![r] = s]

(* The count window, and the verdict over it.                                *)
\* Mutant: the window never slides.
Everything(s, n) == s
Latest(s, n) == IF Len(s) <= n THEN s ELSE SubSeq(s, Len(s) - n + 1, Len(s))
Failures(s) == Cardinality({k \in DOMAIN s : s[k] = "failure"})

(* failureRateThreshold 50.                                                  *)
TooMany(s) == 2 * Failures(s) >= Len(s)

Enter(state) ==
    /\ breaker' = state
    /\ window' = <<>>
    /\ permits' = IF state = "HALF_OPEN" THEN Permitted ELSE 0

RecordClosed(result) ==
    LET w == Latest(Append(window, result), WindowSize) IN
    IF Len(w) >= MinimumCalls /\ TooMany(w) THEN Enter("OPEN")
    ELSE window' = w /\ UNCHANGED <<breaker, permits>>

\* Mutant: the probes are judged by minimumNumberOfCalls.
RecordProbeByMinimum(result) ==
    LET w == Append(window, result) IN
    IF Len(w) < MinimumCalls /\ Len(w) < Permitted THEN window' = w /\ UNCHANGED <<breaker, permits>>
    ELSE IF Len(w) < MinimumCalls THEN UNCHANGED breakerVars
    ELSE Enter(IF TooMany(w) THEN "OPEN" ELSE "CLOSED")

RecordProbe(result) ==
    LET w == Append(window, result) IN
    IF Len(w) < Permitted THEN window' = w /\ UNCHANGED <<breaker, permits>>
    ELSE Enter(IF TooMany(w) THEN "OPEN" ELSE "CLOSED")

Record(result) ==
    \/ breaker = "CLOSED" /\ RecordClosed(result)
    \/ breaker = "HALF_OPEN" /\ RecordProbe(result)
    \/ breaker = "OPEN" /\ UNCHANGED breakerVars

(* waitDurationInOpenState, automaticTransitionFromOpenToHalfOpenEnabled.    *)
HalfOpen ==
    /\ breaker = "OPEN"
    /\ Enter("HALF_OPEN")
    /\ UNCHANGED <<up, pc, attempt, served, late, status>>

(* A request passes the rate limiter; a client whose request was answered    *)
(* comes with the next one.  Bound: nothing of its last one is still late.   *)
Arrive(r) ==
    /\ At(r, "idle")
    /\ late[r] = 0
    /\ Goto(r, "gate")
    /\ attempt' = [attempt EXCEPT ![r] = 0]
    /\ served' = [served EXCEPT ![r] = 0]
    /\ status' = [status EXCEPT ![r] = "none"]
    /\ UNCHANGED <<up, breakerVars, late>>

(* The breaker lets a call pass or refuses it.                               *)
Acquire(r) ==
    /\ At(r, "gate")
    /\ \/ breaker = "CLOSED" /\ UNCHANGED permits /\ Goto(r, "called")
       \/ breaker = "HALF_OPEN" /\ permits > 0 /\ permits' = permits - 1 /\ Goto(r, "called")
       \/ /\ breaker = "OPEN" \/ (breaker = "HALF_OPEN" /\ permits = 0)
          /\ UNCHANGED permits
          /\ Goto(r, "refused")
    /\ UNCHANGED <<up, breaker, window, attempt, served, late, status>>

Serve(r) ==
    /\ At(r, "called")
    /\ up
    /\ Goto(r, "served")
    /\ served' = [served EXCEPT ![r] = @ + 1]
    /\ UNCHANGED <<up, breakerVars, attempt, late, status>>

Respond(r) ==
    /\ At(r, "served")
    /\ up
    /\ Record("success")
    /\ Goto(r, "idle")
    /\ status' = [status EXCEPT ![r] = "ok"]
    /\ UNCHANGED <<up, attempt, served, late>>

(* No connection, or the time limit: a failure, and a request that has       *)
(* reached the service stays there.                                          *)
\* Mutant: a call that is given up is not recorded.
GiveUpUnrecorded(r) ==
    /\ pc[r] \in {"called", "served"}
    /\ ~up
    /\ Goto(r, "refused")
    /\ late' = IF At(r, "called") THEN [late EXCEPT ![r] = @ + 1] ELSE late
    /\ UNCHANGED <<up, breakerVars, attempt, served, status>>

GiveUp(r) ==
    /\ pc[r] \in {"called", "served"}
    /\ ~up
    /\ Record("failure")
    /\ Goto(r, "refused")
    /\ late' = IF At(r, "called") THEN [late EXCEPT ![r] = @ + 1] ELSE late
    /\ UNCHANGED <<up, attempt, served, status>>

(* What was given up is carried out late, or never reached the service.      *)
ServeLate(r) ==
    /\ late[r] > 0
    /\ late' = [late EXCEPT ![r] = @ - 1]
    /\ served' \in {served, [served EXCEPT ![r] = @ + 1]}
    /\ UNCHANGED <<up, breakerVars, pc, attempt, status>>

(* The fallback answers 503; the retry filter around the breaker tries again *)
(* unless the fallback's answer is on its way to the client already.         *)
\* Mutant: one retry too many.
OneMoreRetry(r) == attempt[r] <= Retries
MayRetry(r) == attempt[r] < Retries

Retry(r) ==
    /\ At(r, "refused")
    /\ MayRetry(r)
    /\ Goto(r, "gate")
    /\ attempt' = [attempt EXCEPT ![r] = @ + 1]
    /\ UNCHANGED <<up, breakerVars, served, late, status>>

Fallback(r) ==
    /\ At(r, "refused")
    /\ Goto(r, "idle")
    /\ status' = [status EXCEPT ![r] = "fallback"]
    /\ UNCHANGED <<up, breakerVars, attempt, served, late>>

(* The client hangs up: the call is cancelled and its permission returned.   *)
HangUp(r) ==
    /\ pc[r] \in {"called", "served", "refused"}
    /\ Goto(r, "idle")
    /\ permits' = IF pc[r] \in {"called", "served"} /\ breaker = "HALF_OPEN"
                  THEN permits + 1 ELSE permits
    /\ late' = IF At(r, "called") THEN [late EXCEPT ![r] = @ + 1] ELSE late
    /\ UNCHANGED <<up, breaker, window, attempt, served, status>>

(* The service becomes slow or unreachable, or recovers.                     *)
Outage ==
    /\ up' = ~up
    /\ UNCHANGED <<breakerVars, pc, attempt, served, late, status>>

Proceed(r) ==
    Acquire(r) \/ Serve(r) \/ Respond(r) \/ GiveUp(r) \/ ServeLate(r) \/ Retry(r) \/ Fallback(r)

CircuitNext ==
    \/ \E r \in Request : Arrive(r) \/ Proceed(r) \/ HangUp(r)
    \/ HalfOpen
    \/ Outage

CircuitSpec == CircuitInit /\ [][CircuitNext]_circuitVars

(* The gateway runs, and the timer of the open state fires.  Not every       *)
(* client hangs up on every call: of the calls that could be answered, or    *)
(* given up, again and again, some are.                                      *)
Fairness ==
    /\ \A r \in Request : WF_circuitVars(Proceed(r))
    /\ WF_circuitVars(HalfOpen)
    /\ SF_circuitVars(\E r \in Request : Serve(r))
    /\ SF_circuitVars(\E r \in Request : Respond(r))
    /\ SF_circuitVars(\E r \in Request : GiveUp(r))
CircuitFairSpec == CircuitSpec /\ Fairness
-----------------------------------------------------------------------------
(* A client request is carried out once per attempt at most: a write, whose  *)
(* route has no retries, is never carried out twice by the gateway's doing.  *)
NoSurplusEffect == \A r \in Request : served[r] + late[r] <= Retries + 1

Called == \E r \in Request : At(r, "gate")

(* When the service is well for good and requests keep coming, the breaker   *)
(* closes for good, whatever late results of earlier calls reach it.         *)
Recovers == <>[]up /\ []<>Called => <>[](breaker = "CLOSED")

(* When the service is gone for good and requests keep coming, the breaker   *)
(* opens, and no success of an earlier time closes it for ever.              *)
ShedsLoad == <>[](~up) /\ []<>Called => <>[](breaker # "CLOSED")
=============================================================================
