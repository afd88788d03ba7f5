----------------------------- MODULE EvidenceRun ----------------------------
(* What a run of a proof tool promises its readers: once it has read its     *)
(* contract it collects claims, one at a time and only claims of the         *)
(* contract, until it publishes one verdict; PASS covers the whole contract, *)
(* and nothing changes after the verdict until the tool is run again.  A run *)
(* that cannot read its contract publishes nothing.                          *)
VARIABLES required,   \* what the contract asks of this run, {} without a contract
          stage, claims, verdict

runVars == <<required, stage, claims, verdict>>

Start ==
    /\ stage = "new"
    /\ stage' = "collecting"
    /\ UNCHANGED <<required, claims, verdict>>

Abandon ==
    /\ stage = "new"
    /\ stage' = "over"
    /\ UNCHANGED <<required, claims, verdict>>

Claim ==
    /\ stage = "collecting"
    /\ \E c \in claims' :
         /\ claims' = claims \cup {c}
         /\ required # {} => c \in required
    /\ UNCHANGED <<required, stage, verdict>>

Publish(v) ==
    /\ stage = "collecting"
    /\ v = "PASS" => required \subseteq claims
    /\ stage' = "over"
    /\ verdict' = v
    /\ UNCHANGED <<required, claims>>

Again ==
    /\ stage = "over"
    /\ stage' = "new" /\ claims' = {} /\ verdict' = "none"
    /\ UNCHANGED required

Next ==
    \/ Start
    \/ Abandon
    \/ Claim
    \/ \E v \in {"PASS", "FAIL"} : Publish(v)
    \/ Again

RunInit == stage = "new" /\ claims = {} /\ verdict = "none"
Spec == RunInit /\ [][Next]_runVars
=============================================================================
