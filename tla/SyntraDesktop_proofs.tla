------------------------ MODULE SyntraDesktop_proofs ------------------------
(* What the desktop shell shows, for every number of probes under way and    *)
(* every set of addresses.                                                   *)
EXTENDS SyntraDesktop, TLAPS

(* Probes of other settings exist only after an overtaking change, and never *)
(* next to a check that is still clear.                                      *)
NoStrayProbe == (~overtaken \/ clear) => OnlyCurrent

GatewayKnown == gatewayState # "NOT_PROBED" /\ GatewayCurrent
RuntimeKnown == runtimeState # "NOT_PROBED" /\ RuntimeCurrent
(* What a clear check has in hand while it waits for the rest.               *)
SoFar ==
    clear =>
      /\ awaited \cap GatewayProbe = {} => GatewayKnown
      /\ awaited \cap RuntimeProbe = {} => RuntimeKnown
      /\ awaited = {} => lastRecoveryCheck

IInv == DesktopTypeOK /\ NoStrayProbe /\ SoFar /\ HealthIsOfTheseSettings
-----------------------------------------------------------------------------
LEMMA InitIInv == Init => IInv
BY DesktopAssumption
   DEF Init, IInv, DesktopTypeOK, Health, NoStrayProbe, OnlyCurrent, SoFar,
       HealthIsOfTheseSettings, Asking

LEMMA ProbeGatewayIInv ==
    ASSUME IInv, NEW p \in GatewayProbe, ProbeGateway(p)
    PROVE  IInv'
<1> USE DesktopAssumption DEF IInv, ProbeGateway, BeginGateway, settings, runtimeShown, ghosts
<1>1. DesktopTypeOK'
  BY DEF DesktopTypeOK, Health, Asking
<1>2. NoStrayProbe'
  BY DEF NoStrayProbe, OnlyCurrent, DesktopTypeOK
<1>3. SoFar' /\ HealthIsOfTheseSettings'
  BY DEF SoFar, GatewayKnown, RuntimeKnown, HealthIsOfTheseSettings, GatewayCurrent, RuntimeCurrent
<1> QED  BY <1>1, <1>2, <1>3

LEMMA ProbeRuntimeIInv ==
    ASSUME IInv, NEW q \in RuntimeProbe, ProbeRuntime(q)
    PROVE  IInv'
<1> USE DesktopAssumption
    DEF IInv, ProbeRuntime, BeginRuntime, ShowRuntime, settings, gatewayShown, runtimeShown, ghosts
<1>1. DesktopTypeOK'
  BY DEF DesktopTypeOK, Health, Asking
<1>2. NoStrayProbe'
  BY DEF NoStrayProbe, OnlyCurrent, DesktopTypeOK
<1>3. SoFar' /\ HealthIsOfTheseSettings'
  BY DEF SoFar, GatewayKnown, RuntimeKnown, HealthIsOfTheseSettings, GatewayCurrent, RuntimeCurrent
<1> QED  BY <1>1, <1>2, <1>3

(* A check begins: what it knows so far is nothing about the gateway, and    *)
(* about the runtime only that there is no shell to ask.                     *)
LEMMA RecoveryIInv ==
    ASSUME IInv, NEW p \in GatewayProbe, NEW q \in RuntimeProbe, RunRecoveryCheck(p, q)
    PROVE  IInv'
<1> USE DesktopAssumption
    DEF IInv, RunRecoveryCheck, BeginGateway, BeginRuntime, ShowRuntime, settings, runtimeShown
<1>1. DesktopTypeOK'
  BY DEF DesktopTypeOK, Health, Asking
<1>2. NoStrayProbe'
  BY DEF NoStrayProbe, OnlyCurrent, DesktopTypeOK
<1>3. p \in awaited' /\ (native => q \in awaited')
  OBVIOUS
<1>4. SoFar'
  BY <1>3 DEF SoFar, RuntimeKnown, RuntimeCurrent
<1>5. HealthIsOfTheseSettings'
  BY DEF HealthIsOfTheseSettings, GatewayCurrent, RuntimeCurrent
<1> QED  BY <1>1, <1>2, <1>4, <1>5

LEMMA EndGatewayIInv ==
    ASSUME IInv, NEW p \in GatewayProbe, Asking(p), EndGateway(p),
           gatewayState' \in Health \ {"NOT_PROBED", "ERROR"},
           gatewayStatus' \in Reported \cup {"OFFLINE"},
           gatewayOf' = gatewayAsk[p],
           UNCHANGED <<native, settings, runtimeShown, runtimeAsk, ghosts>>
    PROVE  IInv'
<1> USE DesktopAssumption DEF IInv, EndGateway, Settle, settings, runtimeShown, ghosts
<1>1. DesktopTypeOK'
  BY DEF DesktopTypeOK, Health, Asking
<1>2. NoStrayProbe'
  BY DEF NoStrayProbe, OnlyCurrent, DesktopTypeOK
<1>3. (~overtaken \/ clear) => GatewayKnown'
  BY DEF NoStrayProbe, OnlyCurrent, Asking, GatewayKnown, GatewayCurrent, DesktopTypeOK
<1>4. awaited' \cap RuntimeProbe = awaited \cap RuntimeProbe
  OBVIOUS
<1>5. awaited' = {} => lastRecoveryCheck' \/ awaited = {}
  OBVIOUS
<1>6. SoFar'
  BY <1>3, <1>4, <1>5 DEF SoFar, RuntimeKnown, RuntimeCurrent
<1>7. HealthIsOfTheseSettings'
  BY <1>3 DEF HealthIsOfTheseSettings, GatewayKnown, GatewayCurrent, RuntimeCurrent
<1> QED  BY <1>1, <1>2, <1>6, <1>7

LEMMA FirstRefusesIInv ==
    ASSUME IInv, NEW p \in GatewayProbe, FirstRefuses(p)
    PROVE  IInv'
<1> USE DesktopAssumption DEF IInv, FirstRefuses, settings, runtimeShown, ghosts
<1>1. DesktopTypeOK'
  BY DEF DesktopTypeOK, Health, Asking
<1>2. NoStrayProbe'
  BY DEF NoStrayProbe, OnlyCurrent
<1>3. gatewayOf' = gatewayAsk[p] => ((~overtaken \/ clear) => GatewayCurrent')
  BY DEF NoStrayProbe, OnlyCurrent, Asking, GatewayCurrent, DesktopTypeOK
<1>4. SoFar'
  BY <1>3 DEF SoFar, GatewayKnown, RuntimeKnown, GatewayCurrent, RuntimeCurrent
<1>5. HealthIsOfTheseSettings'
  BY <1>3 DEF HealthIsOfTheseSettings, GatewayCurrent, RuntimeCurrent
<1> QED  BY <1>1, <1>2, <1>4, <1>5

LEMMA RuntimeAnswersIInv ==
    ASSUME IInv, NEW q \in RuntimeProbe, RuntimeAnswers(q)
    PROVE  IInv'
<1> USE DesktopAssumption
    DEF IInv, RuntimeAnswers, ShowRuntime, Settle, Released, settings, gatewayShown, ghosts
<1>1. DesktopTypeOK'
  BY DEF DesktopTypeOK, Health, Asking
<1>2. NoStrayProbe'
  BY DEF NoStrayProbe, OnlyCurrent, DesktopTypeOK
<1>3. (~overtaken \/ clear) => RuntimeKnown'
  BY DEF NoStrayProbe, OnlyCurrent, Calling, RuntimeKnown, RuntimeCurrent, DesktopTypeOK
<1>4. awaited' \cap GatewayProbe = awaited \cap GatewayProbe
  OBVIOUS
<1>5. awaited' = {} => lastRecoveryCheck' \/ awaited = {}
  OBVIOUS
<1>6. SoFar'
  BY <1>3, <1>4, <1>5 DEF SoFar, GatewayKnown, GatewayCurrent
<1>7. HealthIsOfTheseSettings'
  BY <1>3 DEF HealthIsOfTheseSettings, RuntimeKnown, GatewayCurrent, RuntimeCurrent
<1> QED  BY <1>1, <1>2, <1>6, <1>7

LEMMA ApplyIInv ==
    ASSUME IInv, NEW base \in Base, NEW port \in Port, Apply(base, port)
    PROVE  IInv'
<1> USE DesktopAssumption DEF IInv, Apply, ForgetHealth, ShowNoGateway, ShowRuntime
<1>1. DesktopTypeOK'
  BY DEF DesktopTypeOK, Health, Asking
<1>2. NoStrayProbe'
  BY DEF NoStrayProbe, OnlyCurrent, UnderWay, Asking, Calling
<1>3. SoFar' /\ HealthIsOfTheseSettings'
  BY DEF SoFar, HealthIsOfTheseSettings
<1> QED  BY <1>1, <1>2, <1>3

LEMMA RelaunchIInv ==
    ASSUME IInv, Relaunch
    PROVE  IInv'
<1> USE DesktopAssumption DEF IInv, Relaunch, Restored, ForgetHealth, ShowNoGateway, ShowRuntime
<1>1. DesktopTypeOK'
  BY DEF DesktopTypeOK, Health, Asking
<1>2. NoStrayProbe' /\ SoFar' /\ HealthIsOfTheseSettings'
  BY DEF NoStrayProbe, OnlyCurrent, SoFar, HealthIsOfTheseSettings
<1> QED  BY <1>1, <1>2

LEMMA NextIInv ==
    ASSUME IInv, Next
    PROVE  IInv'
<1>1. ASSUME NEW p \in GatewayProbe, GatewayAnswers(p) \/ SecondRefuses(p)
      PROVE  IInv'
  <2>1. Asking(p)
    BY <1>1 DEF GatewayAnswers, SecondRefuses, Asking, IInv, DesktopTypeOK
  <2>2. /\ EndGateway(p) /\ gatewayOf' = gatewayAsk[p]
        /\ gatewayState' \in Health \ {"NOT_PROBED", "ERROR"}
        /\ gatewayStatus' \in Reported \cup {"OFFLINE"}
        /\ UNCHANGED <<native, settings, runtimeShown, runtimeAsk, ghosts>>
    BY <1>1 DEF GatewayAnswers, SecondRefuses, ShowGateway, ReportUnavailable, Health, HealthOf
  <2> QED  BY <2>1, <2>2, EndGatewayIInv
<1>2. SaveSettings \/ ResetSettings => IInv'
  BY ApplyIInv, DesktopAssumption DEF SaveSettings, ResetSettings
<1> QED
  BY <1>1, <1>2, ProbeGatewayIInv, ProbeRuntimeIInv, RecoveryIInv, FirstRefusesIInv,
     RuntimeAnswersIInv, RelaunchIInv
  DEF Next

LEMMA StutterIInv ==
    ASSUME IInv, UNCHANGED vars
    PROVE  IInv'
<1> USE DEF IInv, vars, settings, gatewayShown, runtimeShown, ghosts
<1>1. DesktopTypeOK'
  BY DEF DesktopTypeOK
<1>2. NoStrayProbe'
  BY DEF NoStrayProbe, OnlyCurrent
<1>3. SoFar' /\ HealthIsOfTheseSettings'
  BY DEF SoFar, GatewayKnown, RuntimeKnown, GatewayCurrent, RuntimeCurrent, HealthIsOfTheseSettings
<1> QED  BY <1>1, <1>2, <1>3

LEMMA InvariantOfSpec == Spec => []IInv
<1>1. IInv /\ [Next]_vars => IInv'
  BY NextIInv, StutterIInv
<1> QED  BY <1>1, InitIInv, PTL DEF Spec

(* Every variable keeps its type, for any number of probes and addresses.    *)
THEOREM DesktopTyped == Spec => []DesktopTypeOK
<1>1. IInv => DesktopTypeOK
  BY DEF IInv
<1> QED  BY <1>1, InvariantOfSpec, PTL

(* Whatever is on display was answered at the address on display, unless a   *)
(* probe was under way when the settings last changed.                       *)
THEOREM HealthTheorem == Spec => []HealthIsOfTheseSettings
<1>1. IInv => HealthIsOfTheseSettings
  BY DEF IInv
<1> QED  BY <1>1, InvariantOfSpec, PTL

(* A recovery check that kept clear of other settings leaves the display     *)
(* right, whatever was there before.                                         *)
THEOREM MendsTheorem == Spec => []RecoveryCheckMends
<1>1. IInv => RecoveryCheckMends
  BY DEF IInv, SoFar, RecoveryCheckMends, GatewayKnown, RuntimeKnown
<1> QED  BY <1>1, InvariantOfSpec, PTL

(* The overview and the panel: an asking probe announces itself, and the one *)
(* that ends last writes both lines, so the agreement is inductive as it     *)
(* stands.                                                                   *)
LEMMA BeginKeepsPanels ==
    ASSUME DesktopTypeOK, NEW p \in GatewayProbe, BeginGateway(p)
    PROVE  PanelsAgree'
<1>1. Asking(p)'
  BY DesktopAssumption DEF BeginGateway, DesktopTypeOK, Asking
<1> QED  BY <1>1 DEF PanelsAgree

LEMMA NextPanels ==
    ASSUME DesktopTypeOK, PanelsAgree, [Next]_vars
    PROVE  PanelsAgree'
<1>1. ASSUME NEW p \in GatewayProbe,
             \/ ProbeGateway(p)
             \/ \E q \in RuntimeProbe : RunRecoveryCheck(p, q)
      PROVE  PanelsAgree'
  BY <1>1, BeginKeepsPanels DEF ProbeGateway, RunRecoveryCheck
<1>2. ASSUME NEW p \in GatewayProbe, GatewayAnswers(p) \/ SecondRefuses(p)
      PROVE  PanelsAgree'
  BY <1>2 DEF GatewayAnswers, SecondRefuses, ReportUnavailable, ShowGateway, PanelsAgree
<1>3. ASSUME NEW p \in GatewayProbe, FirstRefuses(p)
      PROVE  PanelsAgree'
  BY <1>3 DEF FirstRefuses, PanelsAgree, Asking
<1>4. ASSUME NEW q \in RuntimeProbe, ProbeRuntime(q) \/ RuntimeAnswers(q)
      PROVE  PanelsAgree'
  BY <1>4 DEF ProbeRuntime, RuntimeAnswers, gatewayShown, PanelsAgree, Asking
<1>5. CASE SaveSettings \/ ResetSettings \/ Relaunch
  BY <1>5 DEF SaveSettings, ResetSettings, Apply, Relaunch, ForgetHealth, ShowNoGateway, PanelsAgree
<1>6. CASE UNCHANGED vars
  BY <1>6 DEF vars, gatewayShown, PanelsAgree, Asking
<1> QED  BY <1>1, <1>2, <1>3, <1>4, <1>5, <1>6 DEF Next

(* The two panels never disagree about the gateway once no probe is under    *)
(* way, however many probes overlapped and in whatever order they ended.     *)
THEOREM PanelsTheorem == Spec => []PanelsAgree
<1>1. Init => PanelsAgree
  BY DEF Init, PanelsAgree
<1> QED  BY <1>1, NextPanels, DesktopTyped, PTL DEF Spec
=============================================================================
