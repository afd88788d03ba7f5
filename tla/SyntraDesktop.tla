--------------------------- MODULE SyntraDesktop ---------------------------
(* The health panels of the Syntra desktop shell (ui/app.js over the native  *)
(* probe of src-tauri/main.rs).  Every click starts a probe of its own; a    *)
(* probe keeps the address it was started with, and when it is answered it   *)
(* writes the one health the window shows, whatever the settings are by      *)
(* then.  The recovery check is Promise.all of one probe of each kind.       *)
EXTENDS FiniteSets

CONSTANTS GatewayProbe,    \* gateway probes under way at once
          RuntimeProbe,    \* runtime probes under way at once
          Base, Port,      \* what the settings form accepts
          DefaultBase, DefaultPort,
          NoAddress        \* what a probe that is not under way asks

ASSUME DesktopAssumption ==
    /\ DefaultBase \in Base
    /\ DefaultPort \in Port
    /\ NoAddress \notin Base \cup Port
    /\ GatewayProbe \cap RuntimeProbe = {}

VARIABLES native,                  \* the page runs inside the Tauri shell
          gatewayBase, runtimePort,
          stored,                  \* localStorage
          gatewayState, runtimeState,
          gatewayStatus,           \* the overview's line about the gateway
          lastRecoveryCheck,       \* the panel names the time of a check
          gatewayAsk, runtimeAsk,  \* the address each probe asks
          refused,                 \* probes on their second candidate
          awaited                  \* probes the recovery check waits for

(* What the properties compare with: the address behind each health shown,   *)
(* whether the last change of settings overtook a probe, and whether the     *)
(* last recovery check began, and stayed, clear of other addresses.          *)
VARIABLES gatewayOf, runtimeOf, overtaken, clear

settings == <<gatewayBase, runtimePort, stored>>
gatewayShown == <<gatewayState, gatewayStatus, gatewayOf>>
runtimeShown == <<runtimeState, runtimeOf>>
ghosts == <<overtaken, clear>>
vars == <<native, settings, gatewayShown, runtimeShown, lastRecoveryCheck,
          gatewayAsk, runtimeAsk, refused, awaited, ghosts>>

Health == {"NOT_PROBED", "UP", "UNAVAILABLE", "DEGRADED", "ERROR"}

(* What a health answer reports: UP, another word, or no word at all, for    *)
(* which the page writes REACHABLE.  The overview shows the word, the        *)
(* recovery panel the health made of it.                                     *)
Reported == {"UP", "REACHABLE", "ANOTHER"}
HealthOf(status) == IF status \in {"UP", "REACHABLE"} THEN "UP" ELSE "DEGRADED"

DesktopTypeOK ==
    /\ native \in BOOLEAN
    /\ gatewayBase \in Base /\ runtimePort \in Port
    /\ stored = [base |-> gatewayBase, port |-> runtimePort]
    /\ gatewayState \in Health \ {"ERROR"} /\ runtimeState \in Health
    /\ gatewayStatus \in Reported \cup {"NOT_PROBED", "PROBING", "OFFLINE"}
    /\ gatewayAsk \in [GatewayProbe -> Base \cup {NoAddress}]
    /\ runtimeAsk \in [RuntimeProbe -> Port \cup {NoAddress}]
    /\ refused \subseteq {p \in GatewayProbe : gatewayAsk[p] # NoAddress}
    /\ awaited \subseteq GatewayProbe \cup RuntimeProbe
-----------------------------------------------------------------------------
Asking(p) == gatewayAsk[p] # NoAddress
Calling(q) == runtimeAsk[q] # NoAddress
UnderWay == (\E p \in GatewayProbe : Asking(p)) \/ (\E q \in RuntimeProbe : Calling(q))
OnlyCurrent ==
    /\ \A p \in GatewayProbe : gatewayAsk[p] \in {gatewayBase, NoAddress}
    /\ \A q \in RuntimeProbe : runtimeAsk[q] \in {runtimePort, NoAddress}

(* The first start: the defaults, nothing probed.                            *)
Init ==
    /\ native \in BOOLEAN
    /\ gatewayBase = DefaultBase /\ runtimePort = DefaultPort
    /\ stored = [base |-> gatewayBase, port |-> runtimePort]
    /\ gatewayState = "NOT_PROBED" /\ runtimeState = "NOT_PROBED"
    /\ gatewayStatus = "NOT_PROBED" /\ lastRecoveryCheck = FALSE
    /\ gatewayAsk = [p \in GatewayProbe |-> NoAddress]
    /\ runtimeAsk = [q \in RuntimeProbe |-> NoAddress]
    /\ refused = {} /\ awaited = {}
    /\ gatewayOf = NoAddress /\ runtimeOf = NoAddress
    /\ overtaken = FALSE /\ clear = FALSE

ShowGateway(health, line, base) ==
    /\ gatewayState' = health /\ gatewayStatus' = line /\ gatewayOf' = base
ShowRuntime(health, port) ==
    /\ runtimeState' = health /\ runtimeOf' = port

(* Promise.all: the check is over, and its time is shown, with the last of   *)
(* its probes.                                                               *)
\* Mutant: Promise.race.
SettleFirst(done) ==
    /\ awaited' = IF awaited \cap done = {} THEN awaited ELSE {}
    /\ lastRecoveryCheck' = (lastRecoveryCheck \/ awaited \cap done # {})
Settle(done) ==
    /\ awaited' = awaited \ done
    /\ lastRecoveryCheck' = (lastRecoveryCheck \/ (awaited # {} /\ awaited \subseteq done))
-----------------------------------------------------------------------------
BeginGateway(p) ==
    /\ ~Asking(p)
    /\ gatewayAsk' = [gatewayAsk EXCEPT ![p] = gatewayBase]
    /\ gatewayStatus' = "PROBING"
    /\ UNCHANGED <<gatewayState, gatewayOf, refused>>

ProbeGateway(p) ==
    /\ BeginGateway(p)
    /\ UNCHANGED <<native, settings, runtimeShown, lastRecoveryCheck, runtimeAsk, awaited, ghosts>>

(* Outside the shell there is nothing to invoke, and no wait.                *)
BeginRuntime(q) ==
    /\ ~Calling(q)
    /\ IF native
       THEN /\ runtimeAsk' = [runtimeAsk EXCEPT ![q] = runtimePort]
            /\ UNCHANGED runtimeShown
       ELSE /\ ShowRuntime("ERROR", runtimePort)
            /\ UNCHANGED runtimeAsk

ProbeRuntime(q) ==
    /\ BeginRuntime(q)
    /\ UNCHANGED <<native, settings, gatewayShown, lastRecoveryCheck, gatewayAsk, refused, awaited,
                   ghosts>>

(* The button is disabled while a check waits.                               *)
RunRecoveryCheck(p, q) ==
    /\ awaited = {}
    /\ BeginGateway(p) /\ BeginRuntime(q)
    /\ awaited' = {p} \cup {r \in {q} : native}
    /\ clear' = OnlyCurrent
    /\ UNCHANGED <<native, settings, lastRecoveryCheck, overtaken>>

(* A candidate that answers with a JSON status, or with no readable body,    *)
(* ends the probe; one that refuses degrades the gateway and hands over to   *)
(* the second candidate; one that does not answer only hands over.  After    *)
(* the second the gateway is offline, even if both have answered.            *)
EndGateway(p) ==
    /\ gatewayAsk' = [gatewayAsk EXCEPT ![p] = NoAddress]
    /\ refused' = refused \ {p}
    /\ Settle({p})

\* Mutant: a gateway that has refused stays degraded.
ReportRefused(p) ==
    /\ gatewayStatus' = "OFFLINE" /\ gatewayOf' = gatewayAsk[p]
    /\ gatewayState' \in {"DEGRADED", "UNAVAILABLE"}
ReportUnavailable(p) == ShowGateway("UNAVAILABLE", "OFFLINE", gatewayAsk[p])

GatewayAnswers(p) ==
    /\ Asking(p)
    /\ \E status \in Reported : ShowGateway(HealthOf(status), status, gatewayAsk[p])
    /\ EndGateway(p)
    /\ UNCHANGED <<native, settings, runtimeShown, runtimeAsk, ghosts>>

FirstRefuses(p) ==
    /\ Asking(p) /\ p \notin refused
    /\ \/ gatewayState' = "DEGRADED" /\ gatewayOf' = gatewayAsk[p]
       \/ UNCHANGED <<gatewayState, gatewayOf>>
    /\ refused' = refused \cup {p}
    /\ UNCHANGED <<native, settings, gatewayStatus, runtimeShown, lastRecoveryCheck, gatewayAsk,
                   runtimeAsk, awaited, ghosts>>

SecondRefuses(p) ==
    /\ p \in refused
    /\ ReportUnavailable(p)
    /\ EndGateway(p)
    /\ UNCHANGED <<native, settings, runtimeShown, runtimeAsk, ghosts>>

(* The native client answers or gives up within its three seconds; an invoke *)
(* that is rejected, or answers without usable evidence, is an ERROR.        *)
\* Mutant: the recovery check waits for a result with evidence.
ReleasedByEvidence(q, health) == {r \in {q} : health # "ERROR"}
Released(q, health) == {q}

RuntimeAnswers(q) ==
    /\ Calling(q)
    /\ \E health \in Health \ {"NOT_PROBED"} :
          /\ ShowRuntime(health, runtimeAsk[q])
          /\ Settle(Released(q, health))
    /\ runtimeAsk' = [runtimeAsk EXCEPT ![q] = NoAddress]
    /\ UNCHANGED <<native, settings, gatewayShown, gatewayAsk, refused, ghosts>>

(* New settings take back what was shown in the recovery panel, leave the    *)
(* overview's lines alone and do not abort the probes under way.             *)
ShowNoGateway == gatewayState' = "NOT_PROBED" /\ gatewayOf' = NoAddress
\* Mutant: only the gateway is probed anew.
ForgetGatewayOnly == ShowNoGateway /\ lastRecoveryCheck' = FALSE /\ UNCHANGED runtimeShown
ForgetHealth ==
    /\ ShowNoGateway /\ ShowRuntime("NOT_PROBED", NoAddress)
    /\ lastRecoveryCheck' = FALSE

Apply(base, port) ==
    /\ gatewayBase' = base /\ runtimePort' = port
    /\ stored' = [base |-> base, port |-> port]
    /\ ForgetHealth
    /\ overtaken' = UnderWay
    /\ clear' = FALSE
    /\ UNCHANGED <<native, gatewayStatus, gatewayAsk, runtimeAsk, refused, awaited>>

SaveSettings == \E base \in Base, port \in Port : Apply(base, port)
ResetSettings == Apply(DefaultBase, DefaultPort)

(* The shell is closed and started again.                                    *)
Restored(address, default) == address

Relaunch ==
    /\ gatewayBase' = Restored(stored.base, DefaultBase)
    /\ runtimePort' = Restored(stored.port, DefaultPort)
    /\ ForgetHealth
    /\ gatewayStatus' = "NOT_PROBED"
    /\ gatewayAsk' = [p \in GatewayProbe |-> NoAddress]
    /\ runtimeAsk' = [q \in RuntimeProbe |-> NoAddress]
    /\ refused' = {} /\ awaited' = {}
    /\ overtaken' = FALSE /\ clear' = FALSE
    /\ UNCHANGED <<native, stored>>

Next ==
    \/ \E p \in GatewayProbe :
          \/ ProbeGateway(p) \/ GatewayAnswers(p) \/ FirstRefuses(p) \/ SecondRefuses(p)
          \/ \E q \in RuntimeProbe : RunRecoveryCheck(p, q)
    \/ \E q \in RuntimeProbe : ProbeRuntime(q) \/ RuntimeAnswers(q)
    \/ SaveSettings \/ ResetSettings \/ Relaunch

Spec == Init /\ [][Next]_vars
(* Only the native client has a time limit: a fetch may hang.                *)
FairSpec == Spec /\ \A q \in RuntimeProbe : WF_vars(RuntimeAnswers(q))
-----------------------------------------------------------------------------
GatewayCurrent == gatewayOf = gatewayBase
RuntimeCurrent == runtimeOf = runtimePort

(* A health on display is that of the address on display, as long as no      *)
(* probe was under way when the settings last changed (app.js probeGateway,  *)
(* probeRuntime, saveSettings): with one under way, nothing ties its answer  *)
(* to the settings it was asked for.                                         *)
HealthIsOfTheseSettings ==
    ~overtaken =>
      /\ gatewayState # "NOT_PROBED" => GatewayCurrent
      /\ runtimeState # "NOT_PROBED" => RuntimeCurrent

(* And a recovery check mends what a late answer spoiled: after one that     *)
(* began when no probe of other settings was left, and that no change of     *)
(* settings interrupted, its time is on display, and both healths are there  *)
(* and are of the addresses on display (app.js runRecoveryCheck).            *)
RecoveryCheckMends ==
    clear /\ awaited = {} =>
      /\ lastRecoveryCheck
      /\ gatewayState # "NOT_PROBED" /\ GatewayCurrent
      /\ runtimeState # "NOT_PROBED" /\ RuntimeCurrent

(* Once no probe is under way, a health of the gateway in the recovery panel *)
(* is the one of the status the overview shows: probes that overlap leave no *)
(* mixture of two answers (app.js gatewayStatus, state.gatewayState).        *)
PanelsAgree ==
    (\A p \in GatewayProbe : ~Asking(p)) /\ gatewayState # "NOT_PROBED"
      => \/ gatewayStatus \in Reported /\ gatewayState = HealthOf(gatewayStatus)
         \/ gatewayStatus = "OFFLINE" /\ gatewayState = "UNAVAILABLE"

(* A recovery check whose gateway probe is over comes to its end, so that    *)
(* its button is enabled again (app.js:176): the runtime cannot hold it up.  *)
(* The gateway can, its fetch has no time limit.                             *)
CheckEnds == (awaited # {} /\ awaited \cap GatewayProbe = {}) ~> (awaited = {})
=============================================================================
