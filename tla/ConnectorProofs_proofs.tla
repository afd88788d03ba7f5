----------------------- MODULE ConnectorProofs_proofs -----------------------
(* Proofs about ConnectorProofs: whatever the orchestrator does, and however *)
(* many requests fail or are carried out late, a connector proof implements  *)
(* EvidenceRun over all its runs, its report and exit status are its own,    *)
(* the test-account lane writes nothing before its gates are open, and the   *)
(* live write proof passes only over one post at each provider.              *)
EXTENDS ConnectorProofs, TLAPS, FiniteSetTheorems, WellFoundedInduction
-----------------------------------------------------------------------------
(* The scripts.  A part is a sequence of steps; most parts neither enter the *)
(* try block nor publish.                                                    *)
IsScript(p) == \E S : p \in Seq(S)
Marks == {"preflight", "try", "publish"}
Calm(p) == IsScript(p) /\ \A n \in DOMAIN p : p[n].do \notin Marks

(* A step that records no check.                                             *)
Plain(step) == step.id = ""

(* The first part enters the try block, once, --preflight and everything     *)
(* that records nothing before it; the last part compares and publishes, or  *)
(* publishes what no contract asks for; a script is such a first part with   *)
(* calm ones after it, and such a last part.  The read-only validation has   *)
(* no try block.                                                             *)
Opening(p) ==
    /\ IsScript(p)
    /\ \E t \in DOMAIN p :
          /\ p[t].do = "try"
          /\ \A k \in 1..t : Plain(p[k])
          /\ \A n \in DOMAIN p : /\ p[n].do # "publish"
                                 /\ p[n].do = "try" => n = t
                                 /\ p[n].do = "preflight" => n < t
Body(s, p) == IF Guards(s) THEN Opening(p) ELSE Calm(p) /\ 1 \in DOMAIN p
Ending(s, e) ==
    \E x, y : /\ x.do = "compare" /\ Plain(x) /\ y.do = "publish"
              /\ e = <<x, y>> \/ (e = <<y>> /\ Contract(s) = {})
Proper(s, q) == \E b, e : q = b \o e /\ Body(s, b) /\ Ending(s, e)

LEMMA LiteralScript ==
    ASSUME NEW f, NEW n \in Nat, f = [i \in 1..n |-> f[i]]
    PROVE  IsScript(f) /\ Len(f) = n /\ DOMAIN f = 1..n
<1>1. f \in Seq({f[i] : i \in 1..n})
  OBVIOUS
<1> QED  BY <1>1 DEF IsScript

LEMMA LiteralIsCalm ==
    ASSUME NEW f, NEW n \in Nat, f = [i \in 1..n |-> f[i]], \A i \in 1..n : f[i].do \notin Marks
    PROVE  Calm(f)
BY LiteralScript DEF Calm

LEMMA Joined ==
    ASSUME NEW a, NEW b, IsScript(a), IsScript(b)
    PROVE  /\ IsScript(a \o b)
           /\ Len(a) \in Nat /\ Len(b) \in Nat
           /\ DOMAIN a = 1..Len(a) /\ DOMAIN b = 1..Len(b)
           /\ DOMAIN (a \o b) = 1..(Len(a) + Len(b))
           /\ \A n \in 1..Len(a) : (a \o b)[n] = a[n]
           /\ \A n \in (Len(a) + 1)..(Len(a) + Len(b)) :
                 n - Len(a) \in DOMAIN b /\ (a \o b)[n] = b[n - Len(a)]
<1>1. PICK S : a \in Seq(S)
  BY DEF IsScript
<1>2. PICK T : b \in Seq(T)
  BY DEF IsScript
<1>3. a \in Seq(S \cup T) /\ b \in Seq(S \cup T)
  BY <1>1, <1>2
<1>4. a \o b \in Seq(S \cup T)
  BY <1>3
<1> HIDE <1>1, <1>2
<1> QED  BY <1>3, <1>4 DEF IsScript

(* Calm parts may follow the first one.                                      *)
LEMMA CalmFollows ==
    ASSUME NEW a, NEW b, Opening(a), Calm(b)
    PROVE  Opening(a \o b)
<1>1. PICK t \in DOMAIN a :
         /\ a[t].do = "try"
         /\ \A k \in 1..t : Plain(a[k])
         /\ \A n \in DOMAIN a : /\ a[n].do # "publish"
                                /\ a[n].do = "try" => n = t
                                /\ a[n].do = "preflight" => n < t
  BY DEF Opening
<1>2. IsScript(a) /\ IsScript(b) /\ \A n \in DOMAIN b : b[n].do \notin Marks
  BY DEF Opening, Calm
<1> DEFINE q == a \o b
<1>3. /\ IsScript(q)
      /\ Len(a) \in Nat /\ Len(b) \in Nat
      /\ DOMAIN a = 1..Len(a) /\ DOMAIN q = 1..(Len(a) + Len(b))
      /\ \A n \in 1..Len(a) : q[n] = a[n]
      /\ \A n \in (Len(a) + 1)..(Len(a) + Len(b)) : n - Len(a) \in DOMAIN b /\ q[n] = b[n - Len(a)]
  BY <1>2, Joined
<1> HIDE DEF q
<1>4. t \in DOMAIN q /\ q[t].do = "try" /\ \A k \in 1..t : Plain(q[k])
  <2>1. \A k \in 1..t : q[k] = a[k]
    BY <1>3
  <2> QED BY <1>1, <1>3, <2>1
<1>5. ASSUME NEW n \in DOMAIN q
      PROVE  /\ q[n].do # "publish"
             /\ q[n].do = "try" => n = t
             /\ q[n].do = "preflight" => n < t
  <2>1. CASE n \in 1..Len(a)
    BY <1>1, <1>3, <2>1
  <2>2. CASE n \in (Len(a) + 1)..(Len(a) + Len(b))
    BY <1>2, <1>3, <2>2 DEF Marks
  <2> QED BY <1>3, <2>1, <2>2
<1>6. Opening(q)
  BY <1>3, <1>4, <1>5 DEF Opening
<1> QED BY <1>6 DEF q

LEMMA IntegrationDeliveriesIsCalm == Calm(IntegrationDeliveries)
<1>1. IntegrationDeliveries = [n \in 1..10 |-> IntegrationDeliveries[n]]
  BY DEF IntegrationDeliveries
<1>2. /\ IntegrationDeliveries[1].do = "register" /\ IntegrationDeliveries[2].do = "enable"
      /\ IntegrationDeliveries[3].do = "register" /\ IntegrationDeliveries[4].do = "enable"
      /\ IntegrationDeliveries[5].do = "event" /\ IntegrationDeliveries[6].do = "note"
      /\ IntegrationDeliveries[7].do = "event" /\ IntegrationDeliveries[8].do = "event"
      /\ IntegrationDeliveries[9].do = "event" /\ IntegrationDeliveries[10].do = "inspect"
  BY DEF IntegrationDeliveries, Step, Do, Proves, Notes
<1>3. \A n \in 1..10 : IntegrationDeliveries[n].do \notin Marks
  BY <1>2 DEF Marks
<1> QED BY <1>1, <1>3, LiteralIsCalm

LEMMA IntegrationAuditIsCalm == Calm(IntegrationAudit)
<1>1. IntegrationAudit = [n \in 1..6 |-> IntegrationAudit[n]]
  BY DEF IntegrationAudit
<1>2. /\ IntegrationAudit[1].do = "receipts" /\ IntegrationAudit[2].do = "note"
      /\ IntegrationAudit[3].do = "inspect" /\ IntegrationAudit[4].do = "inspect"
      /\ IntegrationAudit[5].do = "inspect" /\ IntegrationAudit[6].do = "note"
  BY DEF IntegrationAudit, Step, Proves, Notes
<1>3. \A n \in 1..6 : IntegrationAudit[n].do \notin Marks
  BY <1>2 DEF Marks
<1> QED BY <1>1, <1>3, LiteralIsCalm

LEMMA AdapterSetupIsCalm == Calm(AdapterSetup)
<1>1. AdapterSetup = [n \in 1..6 |-> AdapterSetup[n]]
  BY DEF AdapterSetup
<1>2. /\ AdapterSetup[1].do = "register" /\ AdapterSetup[2].do = "tryEnable"
      /\ AdapterSetup[3].do = "adapter" /\ AdapterSetup[4].do = "register"
      /\ AdapterSetup[5].do = "tryEnable" /\ AdapterSetup[6].do = "adapter"
  BY DEF AdapterSetup, Step, Do, Proves
<1>3. \A n \in 1..6 : AdapterSetup[n].do \notin Marks
  BY <1>2 DEF Marks
<1> QED BY <1>1, <1>3, LiteralIsCalm

LEMMA AdapterDeliveriesIsCalm == Calm(AdapterDeliveries)
<1>1. AdapterDeliveries = [n \in 1..15 |-> AdapterDeliveries[n]]
  BY DEF AdapterDeliveries
<1>2. /\ AdapterDeliveries[1].do = "event" /\ AdapterDeliveries[2].do = "note"
      /\ AdapterDeliveries[3].do = "event" /\ AdapterDeliveries[4].do = "event"
      /\ AdapterDeliveries[5].do = "event" /\ AdapterDeliveries[6].do = "event"
      /\ AdapterDeliveries[7].do = "note" /\ AdapterDeliveries[8].do = "event"
      /\ AdapterDeliveries[9].do = "event" /\ AdapterDeliveries[10].do = "event"
      /\ AdapterDeliveries[11].do = "inspect" /\ AdapterDeliveries[12].do = "receipts"
      /\ AdapterDeliveries[13].do = "inspect" /\ AdapterDeliveries[14].do = "note"
      /\ AdapterDeliveries[15].do = "note"
  BY DEF AdapterDeliveries, Step, Proves, Notes
<1>3. \A n \in 1..15 : AdapterDeliveries[n].do \notin Marks
  BY <1>2 DEF Marks
<1> QED BY <1>1, <1>3, LiteralIsCalm

LEMMA ProviderGithubIsCalm == Calm(ProviderGithub)
<1>1. ProviderGithub = [n \in 1..13 |-> ProviderGithub[n]]
  BY DEF ProviderGithub
<1>2. /\ ProviderGithub[1].do = "register" /\ ProviderGithub[2].do = "start"
      /\ ProviderGithub[3].do = "note" /\ ProviderGithub[4].do = "note"
      /\ ProviderGithub[5].do = "wrongState" /\ ProviderGithub[6].do = "complete"
      /\ ProviderGithub[7].do = "reuse" /\ ProviderGithub[8].do = "inspect"
      /\ ProviderGithub[9].do = "note" /\ ProviderGithub[10].do = "providerHealth"
      /\ ProviderGithub[11].do = "metrics" /\ ProviderGithub[12].do = "refresh"
      /\ ProviderGithub[13].do = "issuedMore"
  BY DEF ProviderGithub, Step, Do, Proves, Notes
<1>3. \A n \in 1..13 : ProviderGithub[n].do \notin Marks
  BY <1>2 DEF Marks
<1> QED BY <1>1, <1>3, LiteralIsCalm

LEMMA ProviderGoogleIsCalm == Calm(ProviderGoogle)
<1>1. ProviderGoogle = [n \in 1..11 |-> ProviderGoogle[n]]
  BY DEF ProviderGoogle
<1>2. /\ ProviderGoogle[1].do = "register" /\ ProviderGoogle[2].do = "start"
      /\ ProviderGoogle[3].do = "complete" /\ ProviderGoogle[4].do = "providerHealth"
      /\ ProviderGoogle[5].do = "register" /\ ProviderGoogle[6].do = "start"
      /\ ProviderGoogle[7].do = "revoke" /\ ProviderGoogle[8].do = "providerHealth"
      /\ ProviderGoogle[9].do = "metrics" /\ ProviderGoogle[10].do = "counted"
      /\ ProviderGoogle[11].do = "note"
  BY DEF ProviderGoogle, Step, Do, Proves, Notes
<1>3. \A n \in 1..11 : ProviderGoogle[n].do \notin Marks
  BY <1>2 DEF Marks
<1> QED BY <1>1, <1>3, LiteralIsCalm

LEMMA SyncFirstIsCalm == Calm(SyncFirst)
<1>1. SyncFirst = [n \in 1..10 |-> SyncFirst[n]]
  BY DEF SyncFirst
<1>2. /\ SyncFirst[1].do = "sync" /\ SyncFirst[2].do = "sync"
      /\ SyncFirst[3].do = "sync" /\ SyncFirst[4].do = "inspect"
      /\ SyncFirst[5].do = "note" /\ SyncFirst[6].do = "fetchReceipts"
      /\ SyncFirst[7].do = "inspect" /\ SyncFirst[8].do = "note"
      /\ SyncFirst[9].do = "note" /\ SyncFirst[10].do = "fetched"
  BY DEF SyncFirst, Step, Do, Proves, Notes
<1>3. \A n \in 1..10 : SyncFirst[n].do \notin Marks
  BY <1>2 DEF Marks
<1> QED BY <1>1, <1>3, LiteralIsCalm

LEMMA SyncSecondIsCalm == Calm(SyncSecond)
<1>1. SyncSecond = [n \in 1..10 |-> SyncSecond[n]]
  BY DEF SyncSecond
<1>2. /\ SyncSecond[1].do = "sync" /\ SyncSecond[2].do = "sync"
      /\ SyncSecond[3].do = "sync" /\ SyncSecond[4].do = "deduplicated"
      /\ SyncSecond[5].do = "metrics" /\ SyncSecond[6].do = "counted"
      /\ SyncSecond[7].do = "inspect" /\ SyncSecond[8].do = "register"
      /\ SyncSecond[9].do = "sync" /\ SyncSecond[10].do = "note"
  BY DEF SyncSecond, Step, Do, Proves, Notes
<1>3. \A n \in 1..10 : SyncSecond[n].do \notin Marks
  BY <1>2 DEF Marks
<1> QED BY <1>1, <1>3, LiteralIsCalm

LEMMA ApprovedRequestsIsCalm == Calm(ApprovedRequests)
<1>1. ApprovedRequests = [n \in 1..15 |-> ApprovedRequests[n]]
  BY DEF ApprovedRequests
<1>2. /\ ApprovedRequests[1].do = "policy" /\ ApprovedRequests[2].do = "register"
      /\ ApprovedRequests[3].do = "enable" /\ ApprovedRequests[4].do = "register"
      /\ ApprovedRequests[5].do = "enable" /\ ApprovedRequests[6].do = "register"
      /\ ApprovedRequests[7].do = "enable" /\ ApprovedRequests[8].do = "create"
      /\ ApprovedRequests[9].do = "create" /\ ApprovedRequests[10].do = "create"
      /\ ApprovedRequests[11].do = "inspect" /\ ApprovedRequests[12].do = "note"
      /\ ApprovedRequests[13].do = "note" /\ ApprovedRequests[14].do = "execute"
      /\ ApprovedRequests[15].do = "pending"
  BY DEF ApprovedRequests, Step, Do, Proves, Notes
<1>3. \A n \in 1..15 : ApprovedRequests[n].do \notin Marks
  BY <1>2 DEF Marks
<1> QED BY <1>1, <1>3, LiteralIsCalm

LEMMA ApprovedExecutionsIsCalm == Calm(ApprovedExecutions)
<1>1. ApprovedExecutions = [n \in 1..15 |-> ApprovedExecutions[n]]
  BY DEF ApprovedExecutions
<1>2. /\ ApprovedExecutions[1].do = "approve" /\ ApprovedExecutions[2].do = "approve"
      /\ ApprovedExecutions[3].do = "approve" /\ ApprovedExecutions[4].do = "execute"
      /\ ApprovedExecutions[5].do = "execute" /\ ApprovedExecutions[6].do = "execute"
      /\ ApprovedExecutions[7].do = "recreate" /\ ApprovedExecutions[8].do = "execute"
      /\ ApprovedExecutions[9].do = "persisted" /\ ApprovedExecutions[10].do = "inspect"
      /\ ApprovedExecutions[11].do = "create" /\ ApprovedExecutions[12].do = "approve"
      /\ ApprovedExecutions[13].do = "execute" /\ ApprovedExecutions[14].do = "notExecuted"
      /\ ApprovedExecutions[15].do = "note"
  BY DEF ApprovedExecutions, Step, Do, Proves, Notes
<1>3. \A n \in 1..15 : ApprovedExecutions[n].do \notin Marks
  BY <1>2 DEF Marks
<1> QED BY <1>1, <1>3, LiteralIsCalm

LEMMA LiveWriteRequestsIsCalm == Calm(LiveWriteRequests)
<1>1. LiveWriteRequests = [n \in 1..13 |-> LiveWriteRequests[n]]
  BY DEF LiveWriteRequests
<1>2. /\ LiveWriteRequests[1].do = "policy" /\ LiveWriteRequests[2].do = "register"
      /\ LiveWriteRequests[3].do = "start" /\ LiveWriteRequests[4].do = "completeWrite"
      /\ LiveWriteRequests[5].do = "register" /\ LiveWriteRequests[6].do = "start"
      /\ LiveWriteRequests[7].do = "completeWrite" /\ LiveWriteRequests[8].do = "register"
      /\ LiveWriteRequests[9].do = "start" /\ LiveWriteRequests[10].do = "completeWrite"
      /\ LiveWriteRequests[11].do = "create" /\ LiveWriteRequests[12].do = "create"
      /\ LiveWriteRequests[13].do = "create"
  BY DEF LiveWriteRequests, Step, Do, Proves
<1>3. \A n \in 1..13 : LiveWriteRequests[n].do \notin Marks
  BY <1>2 DEF Marks
<1> QED BY <1>1, <1>3, LiteralIsCalm

LEMMA LiveWriteBlockedIsCalm == Calm(LiveWriteBlocked)
<1>1. LiveWriteBlocked = [n \in 1..6 |-> LiveWriteBlocked[n]]
  BY DEF LiveWriteBlocked
<1>2. /\ LiveWriteBlocked[1].do = "execute" /\ LiveWriteBlocked[2].do = "execute"
      /\ LiveWriteBlocked[3].do = "execute" /\ LiveWriteBlocked[4].do = "metrics"
      /\ LiveWriteBlocked[5].do = "counted" /\ LiveWriteBlocked[6].do = "counted"
  BY DEF LiveWriteBlocked, Step, Do
<1>3. \A n \in 1..6 : LiveWriteBlocked[n].do \notin Marks
  BY <1>2 DEF Marks
<1> QED BY <1>1, <1>3, LiteralIsCalm

LEMMA LiveWriteExecutionsIsCalm == Calm(LiveWriteExecutions)
<1>1. LiveWriteExecutions = [n \in 1..12 |-> LiveWriteExecutions[n]]
  BY DEF LiveWriteExecutions
<1>2. /\ LiveWriteExecutions[1].do = "approve" /\ LiveWriteExecutions[2].do = "approve"
      /\ LiveWriteExecutions[3].do = "approve" /\ LiveWriteExecutions[4].do = "execute"
      /\ LiveWriteExecutions[5].do = "execute" /\ LiveWriteExecutions[6].do = "execute"
      /\ LiveWriteExecutions[7].do = "metrics" /\ LiveWriteExecutions[8].do = "counted"
      /\ LiveWriteExecutions[9].do = "counted" /\ LiveWriteExecutions[10].do = "counted"
      /\ LiveWriteExecutions[11].do = "counted" /\ LiveWriteExecutions[12].do = "counted"
  BY DEF LiveWriteExecutions, Step, Do
<1>3. \A n \in 1..12 : LiveWriteExecutions[n].do \notin Marks
  BY <1>2 DEF Marks
<1> QED BY <1>1, <1>3, LiteralIsCalm

LEMMA LiveWriteAuditIsCalm == Calm(LiveWriteAudit)
<1>1. LiveWriteAudit = [n \in 1..6 |-> LiveWriteAudit[n]]
  BY DEF LiveWriteAudit
<1>2. /\ LiveWriteAudit[1].do = "execute" /\ LiveWriteAudit[2].do = "metrics"
      /\ LiveWriteAudit[3].do = "counted" /\ LiveWriteAudit[4].do = "persisted"
      /\ LiveWriteAudit[5].do = "inspect" /\ LiveWriteAudit[6].do = "note"
  BY DEF LiveWriteAudit, Step, Do, Proves, Notes
<1>3. \A n \in 1..6 : LiveWriteAudit[n].do \notin Marks
  BY <1>2 DEF Marks
<1> QED BY <1>1, <1>3, LiteralIsCalm

LEMMA TestAccountRequestsIsCalm == Calm(TestAccountRequests)
<1>1. TestAccountRequests = [n \in 1..17 |-> TestAccountRequests[n]]
  BY DEF TestAccountRequests
<1>2. /\ TestAccountRequests[1].do = "health" /\ TestAccountRequests[2].do = "policy"
      /\ TestAccountRequests[3].do = "register" /\ TestAccountRequests[4].do = "register"
      /\ TestAccountRequests[5].do = "register" /\ TestAccountRequests[6].do = "start"
      /\ TestAccountRequests[7].do = "completeWrite" /\ TestAccountRequests[8].do = "start"
      /\ TestAccountRequests[9].do = "completeWrite" /\ TestAccountRequests[10].do = "start"
      /\ TestAccountRequests[11].do = "completeWrite" /\ TestAccountRequests[12].do = "create"
      /\ TestAccountRequests[13].do = "create" /\ TestAccountRequests[14].do = "create"
      /\ TestAccountRequests[15].do = "execute" /\ TestAccountRequests[16].do = "execute"
      /\ TestAccountRequests[17].do = "execute"
  BY DEF TestAccountRequests, Step, Do, Proves, Health
<1>3. \A n \in 1..17 : TestAccountRequests[n].do \notin Marks
  BY <1>2 DEF Marks
<1> QED BY <1>1, <1>3, LiteralIsCalm

LEMMA TestAccountExecutionsIsCalm == Calm(TestAccountExecutions)
<1>1. TestAccountExecutions = [n \in 1..11 |-> TestAccountExecutions[n]]
  BY DEF TestAccountExecutions
<1>2. /\ TestAccountExecutions[1].do = "approve" /\ TestAccountExecutions[2].do = "approve"
      /\ TestAccountExecutions[3].do = "approve" /\ TestAccountExecutions[4].do = "execute"
      /\ TestAccountExecutions[5].do = "execute" /\ TestAccountExecutions[6].do = "execute"
      /\ TestAccountExecutions[7].do = "execute" /\ TestAccountExecutions[8].do = "persisted"
      /\ TestAccountExecutions[9].do = "inspect" /\ TestAccountExecutions[10].do = "note"
      /\ TestAccountExecutions[11].do = "note"
  BY DEF TestAccountExecutions, Step, Do, Proves, Notes
<1>3. \A n \in 1..11 : TestAccountExecutions[n].do \notin Marks
  BY <1>2 DEF Marks
<1> QED BY <1>1, <1>3, LiteralIsCalm

LEMMA ReadOnlyRequestsIsCalm == Calm(ReadOnlyRequests)
<1>1. ReadOnlyRequests = [n \in 1..12 |-> ReadOnlyRequests[n]]
  BY DEF ReadOnlyRequests
<1>2. /\ ReadOnlyRequests[1].do = "tokens" /\ ReadOnlyRequests[2].do = "hosts"
      /\ ReadOnlyRequests[3].do = "get" /\ ReadOnlyRequests[4].do = "get"
      /\ ReadOnlyRequests[5].do = "get" /\ ReadOnlyRequests[6].do = "get"
      /\ ReadOnlyRequests[7].do = "note" /\ ReadOnlyRequests[8].do = "note"
      /\ ReadOnlyRequests[9].do = "note" /\ ReadOnlyRequests[10].do = "note"
      /\ ReadOnlyRequests[11].do = "note" /\ ReadOnlyRequests[12].do = "note"
  BY DEF ReadOnlyRequests, Step, Do, Proves, Notes
<1>3. \A n \in 1..12 : ReadOnlyRequests[n].do \notin Marks
  BY <1>2 DEF Marks
<1> QED BY <1>1, <1>3, LiteralIsCalm

LEMMA ExecutiveRunIsCalm == Calm(ExecutiveRun)
<1>1. ExecutiveRun = [n \in 1..13 |-> ExecutiveRun[n]]
  BY DEF ExecutiveRun
<1>2. /\ ExecutiveRun[1].do = "overnight" /\ ExecutiveRun[2].do = "inspect"
      /\ ExecutiveRun[3].do = "note" /\ ExecutiveRun[4].do = "note"
      /\ ExecutiveRun[5].do = "note" /\ ExecutiveRun[6].do = "note"
      /\ ExecutiveRun[7].do = "note" /\ ExecutiveRun[8].do = "inspect"
      /\ ExecutiveRun[9].do = "note" /\ ExecutiveRun[10].do = "note"
      /\ ExecutiveRun[11].do = "gated" /\ ExecutiveRun[12].do = "briefed"
      /\ ExecutiveRun[13].do = "note"
  BY DEF ExecutiveRun, Step, Proves, Notes
<1>3. \A n \in 1..13 : ExecutiveRun[n].do \notin Marks
  BY <1>2 DEF Marks
<1> QED BY <1>1, <1>3, LiteralIsCalm

LEMMA ExternalRuntimeIsCalm == Calm(ExternalRuntime)
<1>1. ExternalRuntime = [n \in 1..14 |-> ExternalRuntime[n]]
  BY DEF ExternalRuntime
<1>2. /\ ExternalRuntime[1].do = "health" /\ ExternalRuntime[2].do = "health"
      /\ ExternalRuntime[3].do = "health" /\ ExternalRuntime[4].do = "health"
      /\ ExternalRuntime[5].do = "health" /\ ExternalRuntime[6].do = "health"
      /\ ExternalRuntime[7].do = "health" /\ ExternalRuntime[8].do = "image"
      /\ ExternalRuntime[9].do = "tasks" /\ ExternalRuntime[10].do = "account"
      /\ ExternalRuntime[11].do = "tasks" /\ ExternalRuntime[12].do = "note"
      /\ ExternalRuntime[13].do = "health" /\ ExternalRuntime[14].do = "note"
  BY DEF ExternalRuntime, Step, Do, Proves, Notes, Health
<1>3. \A n \in 1..14 : ExternalRuntime[n].do \notin Marks
  BY <1>2 DEF Marks
<1> QED BY <1>1, <1>3, LiteralIsCalm

LEMMA BoundaryRuntimeIsCalm == Calm(BoundaryRuntime)
<1>1. BoundaryRuntime = [n \in 1..9 |-> BoundaryRuntime[n]]
  BY DEF BoundaryRuntime
<1>2. /\ BoundaryRuntime[1].do = "image" /\ BoundaryRuntime[2].do = "dockerRun"
      /\ BoundaryRuntime[3].do = "health" /\ BoundaryRuntime[4].do = "image"
      /\ BoundaryRuntime[5].do = "tasks" /\ BoundaryRuntime[6].do = "account"
      /\ BoundaryRuntime[7].do = "tasks" /\ BoundaryRuntime[8].do = "note"
      /\ BoundaryRuntime[9].do = "note"
  BY DEF BoundaryRuntime, Step, Do, Proves, Notes, Health
<1>3. \A n \in 1..9 : BoundaryRuntime[n].do \notin Marks
  BY <1>2 DEF Marks
<1> QED BY <1>1, <1>3, LiteralIsCalm

LEMMA ConnectIsCalm == \A provider, id : Calm(Connect(provider, id))
<1> SUFFICES ASSUME NEW provider, NEW id PROVE Calm(Connect(provider, id))
  OBVIOUS
<1> DEFINE C == Connect(provider, id)
<1>1. C = [n \in 1..3 |-> C[n]]
  BY DEF Connect
<1>2. C[1].do = "register" /\ C[2].do = "start" /\ C[3].do = "complete"
  BY DEF Connect, Step, Do, Proves
<1>3. \A n \in 1..3 : C[n].do \notin Marks
  BY <1>2 DEF Marks
<1> HIDE DEF C
<1>4. Calm(C)
  BY <1>1, <1>3, LiteralIsCalm
<1> QED BY <1>4 DEF C

LEMMA BeginOpens == Opening(Begin)
<1>1. Begin = [n \in 1..3 |-> Begin[n]]
  BY DEF Begin
<1>2. /\ Begin[1].do = "contract" /\ Begin[2].do = "try"
      /\ Begin[3].do = "health"
  BY DEF Begin, Step, Do, Proves, Health
<1>3. /\ Plain(Begin[1]) /\ Plain(Begin[2])
  BY DEF Begin, Step, Do, Plain
<1>4. IsScript(Begin) /\ DOMAIN Begin = 1..3
  BY <1>1, LiteralScript
<1>5. \A k \in 1..2 : Plain(Begin[k])
  BY <1>3
<1>6. 2 \in DOMAIN Begin /\ Begin[2].do = "try"
  BY <1>2, <1>4
<1>7. \A n \in DOMAIN Begin : /\ Begin[n].do # "publish"
                              /\ Begin[n].do = "try" => n = 2
                              /\ Begin[n].do = "preflight" => n < 2
  BY <1>2, <1>4
<1> QED BY <1>4, <1>5, <1>6, <1>7 DEF Opening

LEMMA TestAccountGatesOpens == Opening(TestAccountGates)
<1>1. TestAccountGates = [n \in 1..7 |-> TestAccountGates[n]]
  BY DEF TestAccountGates
<1>2. /\ TestAccountGates[1].do = "contract" /\ TestAccountGates[2].do = "preflight"
      /\ TestAccountGates[3].do = "try" /\ TestAccountGates[4].do = "gate"
      /\ TestAccountGates[5].do = "gate" /\ TestAccountGates[6].do = "gate"
      /\ TestAccountGates[7].do = "gate"
  BY DEF TestAccountGates, Step, Do, Proves
<1>3. /\ Plain(TestAccountGates[1]) /\ Plain(TestAccountGates[2])
      /\ Plain(TestAccountGates[3])
  BY DEF TestAccountGates, Step, Do, Plain
<1>4. IsScript(TestAccountGates) /\ DOMAIN TestAccountGates = 1..7
  BY <1>1, LiteralScript
<1>5. \A k \in 1..3 : Plain(TestAccountGates[k])
  BY <1>3
<1>6. 3 \in DOMAIN TestAccountGates /\ TestAccountGates[3].do = "try"
  BY <1>2, <1>4
<1>7. \A n \in DOMAIN TestAccountGates : /\ TestAccountGates[n].do # "publish"
                                         /\ TestAccountGates[n].do = "try" => n = 3
                                         /\ TestAccountGates[n].do = "preflight" => n < 3
  BY <1>2, <1>4
<1> QED BY <1>4, <1>5, <1>6, <1>7 DEF Opening

LEMMA ExternalBeforeOpens == Opening(ExternalBefore)
<1>1. ExternalBefore = [n \in 1..11 |-> ExternalBefore[n]]
  BY DEF ExternalBefore
<1>2. /\ ExternalBefore[1].do = "revision" /\ ExternalBefore[2].do = "reference"
      /\ ExternalBefore[3].do = "try" /\ ExternalBefore[4].do = "source"
      /\ ExternalBefore[5].do = "source" /\ ExternalBefore[6].do = "source"
      /\ ExternalBefore[7].do = "source" /\ ExternalBefore[8].do = "source"
      /\ ExternalBefore[9].do = "note" /\ ExternalBefore[10].do = "image"
      /\ ExternalBefore[11].do = "composeUp"
  BY DEF ExternalBefore, Step, Do, Proves, Notes
<1>3. /\ Plain(ExternalBefore[1]) /\ Plain(ExternalBefore[2])
      /\ Plain(ExternalBefore[3])
  BY DEF ExternalBefore, Step, Do, Plain
<1>4. IsScript(ExternalBefore) /\ DOMAIN ExternalBefore = 1..11
  BY <1>1, LiteralScript
<1>5. \A k \in 1..3 : Plain(ExternalBefore[k])
  BY <1>3
<1>6. 3 \in DOMAIN ExternalBefore /\ ExternalBefore[3].do = "try"
  BY <1>2, <1>4
<1>7. \A n \in DOMAIN ExternalBefore : /\ ExternalBefore[n].do # "publish"
                                       /\ ExternalBefore[n].do = "try" => n = 3
                                       /\ ExternalBefore[n].do = "preflight" => n < 3
  BY <1>2, <1>4
<1> QED BY <1>4, <1>5, <1>6, <1>7 DEF Opening

LEMMA BoundaryCoreOpens == Opening(BoundaryCore)
<1>1. BoundaryCore = [n \in 1..12 |-> BoundaryCore[n]]
  BY DEF BoundaryCore
<1>2. /\ BoundaryCore[1].do = "revision" /\ BoundaryCore[2].do = "try"
      /\ BoundaryCore[3].do = "source" /\ BoundaryCore[4].do = "source"
      /\ BoundaryCore[5].do = "source" /\ BoundaryCore[6].do = "absent"
      /\ BoundaryCore[7].do = "composeUp" /\ BoundaryCore[8].do = "health"
      /\ BoundaryCore[9].do = "health" /\ BoundaryCore[10].do = "health"
      /\ BoundaryCore[11].do = "health" /\ BoundaryCore[12].do = "health"
  BY DEF BoundaryCore, Step, Do, Proves, Health
<1>3. /\ Plain(BoundaryCore[1]) /\ Plain(BoundaryCore[2])
  BY DEF BoundaryCore, Step, Do, Plain
<1>4. IsScript(BoundaryCore) /\ DOMAIN BoundaryCore = 1..12
  BY <1>1, LiteralScript
<1>5. \A k \in 1..2 : Plain(BoundaryCore[k])
  BY <1>3
<1>6. 2 \in DOMAIN BoundaryCore /\ BoundaryCore[2].do = "try"
  BY <1>2, <1>4
<1>7. \A n \in DOMAIN BoundaryCore : /\ BoundaryCore[n].do # "publish"
                                     /\ BoundaryCore[n].do = "try" => n = 2
                                     /\ BoundaryCore[n].do = "preflight" => n < 2
  BY <1>2, <1>4
<1> QED BY <1>4, <1>5, <1>6, <1>7 DEF Opening

(* The adapter proof reads its keys before anything else.                    *)
LEMMA AdapterOpens == Opening(<<Do("keys", "")>> \o Begin)
<1> DEFINE a == <<Do("keys", "")>>
           q == a \o Begin
<1>1. a = [n \in 1..1 |-> a[n]]
  OBVIOUS
<1>2. a[1].do = "keys" /\ Plain(a[1])
  BY DEF Do, Step, Plain
<1>3. IsScript(a) /\ Len(a) = 1
  <2> HIDE DEF a
  <2> QED BY <1>1, LiteralScript
<1>4. /\ Begin[1].do = "contract" /\ Begin[2].do = "try" /\ Begin[3].do = "health"
      /\ Plain(Begin[1]) /\ Plain(Begin[2])
  BY DEF Begin, Step, Do, Proves, Health, Plain
<1>5. IsScript(Begin) /\ Len(Begin) = 3
  <2>1. Begin = [n \in 1..3 |-> Begin[n]]
    BY DEF Begin
  <2> QED BY <2>1, LiteralScript
<1> HIDE DEF a
<1>6. /\ IsScript(q)
      /\ DOMAIN q = 1..(Len(a) + Len(Begin))
      /\ \A n \in 1..Len(a) : q[n] = a[n]
      /\ \A n \in (Len(a) + 1)..(Len(a) + Len(Begin)) : q[n] = Begin[n - Len(a)]
  BY <1>3, <1>5, Joined
<1> HIDE DEF q
<1>7. DOMAIN q = 1..4 /\ q[1] = a[1] /\ q[2] = Begin[1] /\ q[3] = Begin[2] /\ q[4] = Begin[3]
  BY <1>3, <1>5, <1>6
<1>8. \A k \in 1..3 : Plain(q[k])
  BY <1>2, <1>4, <1>7
<1>9. 3 \in DOMAIN q /\ q[3].do = "try"
  BY <1>4, <1>7
<1>10. \A n \in DOMAIN q : q[n].do # "publish" /\ (q[n].do = "try" => n = 3) /\ (q[n].do = "preflight" => n < 3)
  BY <1>2, <1>4, <1>7
<1>11. Opening(q)
  BY <1>6, <1>8, <1>9, <1>10 DEF Opening
<1> QED BY <1>11 DEF q, a

LEMMA Endings ==
    ASSUME NEW s
    PROVE  /\ Ending(s, CompareBoth) /\ Ending(s, CompareMissing)
           /\ Contract(s) = {} => Ending(s, Unchecked)
<1>1. /\ Do("compare", "both").do = "compare" /\ Plain(Do("compare", "both"))
      /\ Do("compare", "missing").do = "compare" /\ Plain(Do("compare", "missing"))
      /\ Do("publish", "").do = "publish"
  BY DEF Do, Step, Plain
<1> QED BY <1>1 DEF Ending, CompareBoth, CompareMissing, Unchecked

(* All eleven scripts.                                                       *)
LEMMA ScriptsAreProper == \A s \in Suites : Proper(s, Script(s))
<1>1. Proper("integration", IntegrationScript)
  <2>1. Opening(Begin \o IntegrationDeliveries \o IntegrationAudit)
    BY BeginOpens, CalmFollows, IntegrationDeliveriesIsCalm, IntegrationAuditIsCalm
  <2> QED BY <2>1, Endings DEF Proper, Body, Guards, IntegrationScript
<1>2. Proper("adapter", AdapterScript)
  <2>1. Opening(<<Do("keys", "")>> \o Begin \o AdapterSetup \o AdapterDeliveries)
    BY AdapterOpens, CalmFollows, AdapterSetupIsCalm, AdapterDeliveriesIsCalm
  <2> QED BY <2>1, Endings DEF Proper, Body, Guards, AdapterScript
<1>3. Proper("provider", ProviderScript)
  <2>1. Opening(Begin \o ProviderGithub \o ProviderGoogle)
    BY BeginOpens, CalmFollows, ProviderGithubIsCalm, ProviderGoogleIsCalm
  <2> QED BY <2>1, Endings DEF Proper, Body, Guards, ProviderScript
<1>4. Proper("sync", SyncScript)
  <2>1. ASSUME NEW a, NEW b, NEW c, Calm(a), Calm(b), Calm(c)
        PROVE  Opening(Begin \o a \o b \o c)
    BY <2>1, BeginOpens, CalmFollows
  <2>2. Opening(Begin \o Connect("github", "sync.github.connection-ready")
                      \o Connect("gmail", "sync.gmail.connection-ready")
                      \o Connect("calendar", "sync.calendar.connection-ready"))
    BY <2>1, ConnectIsCalm
  <2>3. Opening(Begin \o Connect("github", "sync.github.connection-ready")
                      \o Connect("gmail", "sync.gmail.connection-ready")
                      \o Connect("calendar", "sync.calendar.connection-ready") \o SyncFirst \o SyncSecond)
    BY <2>2, CalmFollows, SyncFirstIsCalm, SyncSecondIsCalm
  <2> QED BY <2>3, Endings DEF Proper, Body, Guards, SyncScript
<1>5. Proper("approved", ApprovedScript)
  <2>1. Opening(Begin \o ApprovedRequests \o ApprovedExecutions)
    BY BeginOpens, CalmFollows, ApprovedRequestsIsCalm, ApprovedExecutionsIsCalm
  <2> QED BY <2>1, Endings DEF Proper, Body, Guards, ApprovedScript
<1>6. Proper("live write", LiveWriteScript)
  <2>1. Opening(Begin \o LiveWriteRequests \o LiveWriteBlocked)
    BY BeginOpens, CalmFollows, LiveWriteRequestsIsCalm, LiveWriteBlockedIsCalm
  <2>2. Opening(Begin \o LiveWriteRequests \o LiveWriteBlocked \o LiveWriteExecutions \o LiveWriteAudit)
    BY <2>1, CalmFollows, LiveWriteExecutionsIsCalm, LiveWriteAuditIsCalm
  <2> QED BY <2>2, Endings DEF Proper, Body, Guards, LiveWriteScript
<1>7. Proper("test account", TestAccountScript)
  <2>1. Opening(TestAccountGates \o TestAccountRequests \o TestAccountExecutions)
    BY TestAccountGatesOpens, CalmFollows, TestAccountRequestsIsCalm, TestAccountExecutionsIsCalm
  <2> QED BY <2>1, Endings DEF Proper, Body, Guards, TestAccountScript
<1>8. Proper("read only", ReadOnlyScript)
  <2>1. 1 \in DOMAIN ReadOnlyRequests
    BY DEF ReadOnlyRequests
  <2> QED BY <2>1, ReadOnlyRequestsIsCalm, Endings DEF Proper, Body, Guards, ReadOnlyScript
<1>9. Proper("executive", ExecutiveScript)
  <2>1. Opening(Begin \o ExecutiveRun)
    BY BeginOpens, CalmFollows, ExecutiveRunIsCalm
  <2> QED BY <2>1, Endings DEF Proper, Body, Guards, ExecutiveScript
<1>10. Proper("external", ExternalScript)
  <2>1. Opening(ExternalBefore \o ExternalRuntime)
    BY ExternalBeforeOpens, CalmFollows, ExternalRuntimeIsCalm
  <2>2. Contract("external") = {}
    BY DEF Contract
  <2> QED BY <2>1, <2>2, Endings DEF Proper, Body, Guards, ExternalScript
<1>11. Proper("boundary", BoundaryScript)
  <2>1. Opening(BoundaryCore \o BoundaryRuntime)
    BY BoundaryCoreOpens, CalmFollows, BoundaryRuntimeIsCalm
  <2>2. Contract("boundary") = {}
    BY DEF Contract
  <2> QED BY <2>1, <2>2, Endings DEF Proper, Body, Guards, BoundaryScript
<1> QED BY <1>1, <1>2, <1>3, <1>4, <1>5, <1>6, <1>7, <1>8, <1>9, <1>10, <1>11 DEF Suites, Script

(* What the invariants below use of them: a run starts outside the try       *)
(* block, --preflight ends before it, a proof with one records and publishes *)
(* inside it, and a proof with a contract compares before it publishes.      *)
InTry(s, n) == \E k \in 1..(n - 1) : Script(s)[k].do = "try"

LEMMA ShapeOfScripts ==
    ASSUME NEW s \in Suites, NEW n \in DOMAIN Script(s)
    PROVE  /\ Script(s)[1].do # "publish"
           /\ Script(s)[n].do = "preflight" => ~InTry(s, n)
           /\ Guards(s) /\ (Script(s)[n].do = "publish" \/ ~Plain(Script(s)[n])) => InTry(s, n)
           /\ Script(s)[n].do = "try" => Plain(Script(s)[n])
           /\ n + 1 \in DOMAIN Script(s) /\ Script(s)[n + 1].do = "publish" /\ Contract(s) # {}
                  => Script(s)[n].do = "compare" /\ Plain(Script(s)[n])
<1> DEFINE q == Script(s)
<1>1. PICK b, e : q = b \o e /\ Body(s, b) /\ Ending(s, e)
  BY ScriptsAreProper DEF Proper
<1>2. PICK x, y : /\ x.do = "compare" /\ Plain(x) /\ y.do = "publish"
                  /\ e = <<x, y>> \/ (e = <<y>> /\ Contract(s) = {})
  BY <1>1 DEF Ending
<1>3. IsScript(b) /\ IsScript(e)
  <2>1. <<x, y>> \in Seq({x, y}) /\ <<y>> \in Seq({x, y})
    OBVIOUS
  <2>2. e \in Seq({x, y})
    BY <1>2, <2>1
  <2> QED BY <1>1, <2>2 DEF Body, Opening, Calm, IsScript
<1> DEFINE L == Len(b)
<1>4. /\ L \in Nat /\ DOMAIN b = 1..L
      /\ DOMAIN q = 1..(L + Len(e))
      /\ \A k \in 1..L : q[k] = b[k]
      /\ \A k \in (L + 1)..(L + Len(e)) : q[k] = e[k - L]
  BY <1>1, <1>3, Joined
<1>5. \/ /\ DOMAIN q = 1..(L + 2) /\ q[L + 1].do = "compare" /\ Plain(q[L + 1]) /\ q[L + 2].do = "publish"
      \/ DOMAIN q = 1..(L + 1) /\ q[L + 1].do = "publish" /\ Contract(s) = {}
  <2>1. CASE e = <<x, y>>
    <3>1. Len(e) = 2 /\ e[1] = x /\ e[2] = y
      BY <2>1
    <3>2. q[L + 1] = x /\ q[L + 2] = y
      BY <1>4, <3>1
    <3> QED BY <1>2, <1>4, <3>1, <3>2
  <2>2. CASE e = <<y>> /\ Contract(s) = {}
    <3>1. Len(e) = 1 /\ e[1] = y
      BY <2>2
    <3>2. q[L + 1] = y
      BY <1>4, <3>1
    <3> QED BY <1>2, <1>4, <2>2, <3>1, <3>2
  <2> QED BY <1>2, <2>1, <2>2
<1>6. 1 \in 1..L /\ \A k \in 1..L : q[k] = b[k] /\ b[k].do # "publish"
  BY <1>1, <1>4 DEF Body, Opening, Calm, Marks
<1> HIDE DEF q
<1>7. n \in Nat /\ n >= 1 /\ n <= L + 2
  BY <1>4, <1>5 DEF q
<1>8. q[1].do # "publish"
  BY <1>6
<1>9. n + 1 \in DOMAIN q /\ q[n + 1].do = "publish" /\ Contract(s) # {} => q[n].do = "compare" /\ Plain(q[n])
  <2> SUFFICES ASSUME n + 1 \in DOMAIN q, q[n + 1].do = "publish", Contract(s) # {}
               PROVE  n = L + 1
    BY <1>5
  <2>1. n + 1 \notin 1..L /\ n + 1 # L + 1
    BY <1>5, <1>6
  <2> QED BY <1>4, <1>5, <1>7, <2>1
<1>10. CASE Guards(s)
  <2>1. PICK t \in 1..L :
           /\ b[t].do = "try"
           /\ \A k \in 1..t : Plain(b[k])
           /\ \A k \in 1..L : /\ b[k].do = "try" => k = t
                              /\ b[k].do = "preflight" => k < t
    BY <1>1, <1>4, <1>10 DEF Body, Opening
  <2>2. ASSUME NEW k \in DOMAIN q, q[k].do = "try" PROVE k = t
    BY <1>4, <1>5, <1>6, <2>1, <2>2
  <2>3. q[n].do = "try" => Plain(q[n])
    <3>1. q[t] = b[t] /\ t \in 1..t
      BY <1>6
    <3> QED BY <2>1, <2>2, <3>1 DEF q
  <2>4. q[n].do = "preflight" => ~InTry(s, n)
    <3> SUFFICES ASSUME q[n].do = "preflight", NEW k \in 1..(n - 1), q[k].do = "try" PROVE FALSE
      BY DEF InTry, q
    <3>1. n < t
      BY <1>4, <1>5, <1>6, <1>7, <2>1 DEF q
    <3>2. k \in DOMAIN q
      BY <1>4, <1>7 DEF q
    <3>3. k = t
      BY <3>2, <2>2
    <3> QED BY <3>1, <3>3, <1>7
  <2>5. q[n].do = "publish" \/ ~Plain(q[n]) => InTry(s, n)
    <3> SUFFICES ASSUME q[n].do = "publish" \/ ~Plain(q[n]) PROVE t \in 1..(n - 1) /\ q[t].do = "try"
      BY DEF InTry, q
    <3>1. n \notin 1..t
      BY <1>6, <2>1
    <3> QED BY <1>6, <1>7, <2>1, <3>1
  <2> QED BY <1>8, <1>9, <2>3, <2>4, <2>5 DEF q
<1>11. CASE ~Guards(s)
  <2>1. \A k \in 1..L : b[k].do \notin {"try", "preflight"}
    BY <1>1, <1>4, <1>11 DEF Body, Calm, Marks
  <2>2. q[n].do \notin {"try", "preflight"}
    BY <1>4, <1>5, <1>6, <1>7, <2>1 DEF q
  <2> QED BY <1>8, <1>9, <1>11, <2>2 DEF q
<1> QED BY <1>10, <1>11
-----------------------------------------------------------------------------
(* The inductive invariant.  Entered and Inside tie the flag of the except   *)
(* branch to the place in the script; Compared carries the comparison into   *)
(* the step that publishes.                                                  *)
Entered == InTry(suite, pc) => guarded
Inside == guarded => InTry(suite, pc)
Compared ==
    stage = "running" /\ pc \in DOMAIN Script(suite) /\ Current.do = "publish"
        => Contract(suite) \subseteq checks
Open == stage = "running" => report \in {"none", "earlier"} /\ status = Pending
IInv ==
    /\ ConnectorTypeOK /\ Entered /\ Inside /\ Compared /\ Open
    /\ ReportIsOfThisRun /\ ExitAgreesWithReport

(* A run starts before the try block, on a step that is not the last.        *)
LEMMA Beginning ==
    ASSUME suite \in Suites
    PROVE  ~InTry(suite, 1) /\ (1 \in DOMAIN Script(suite) => Script(suite)[1].do # "publish")
<1>1. 1..(1 - 1) = {}
  OBVIOUS
<1>2. ~InTry(suite, 1)
  BY <1>1 DEF InTry
<1> QED BY <1>2, ShapeOfScripts

LEMMA InitIInv == Init => IInv
<1> SUFFICES ASSUME Init PROVE IInv
  OBVIOUS
<1>1. suite \in Suites /\ pc = 1 /\ guarded = FALSE /\ stage = "running"
      /\ status = -1 /\ report = "none"
  BY DEF Init, Pending
<1>2. guarded \in BOOLEAN
  BY <1>1, Zenon
<1>3. ConnectorTypeOK
  BY <1>1, <1>2 DEF ConnectorTypeOK
<1>4. Compared
  BY <1>1, Beginning DEF Compared, Current
<1>5. Entered /\ Inside
  BY <1>1, Beginning DEF Entered, Inside
<1>6. Open /\ ReportIsOfThisRun /\ ExitAgreesWithReport
  BY <1>1 DEF Open, ReportIsOfThisRun, ExitAgreesWithReport, Pending
<1> QED BY <1>3, <1>4, <1>5, <1>6 DEF IInv

(* Raising, publishing and --preflight close the run.                        *)
LEMMA RaiseStep ==
    ASSUME IInv, Running, NEW t, Raise(t)
    PROVE  IInv'
  BY DEF IInv, ConnectorTypeOK, Entered, Inside, Compared, Open, ReportIsOfThisRun, ExitAgreesWithReport,
         Running, Raise, Over, envVars, Pending, Current

LEMMA PublishStep ==
    ASSUME IInv, Publish
    PROVE  IInv'
  BY DEF IInv, ConnectorTypeOK, Entered, Inside, Compared, Open, ReportIsOfThisRun, ExitAgreesWithReport,
         Running, Publish, Over, envVars, Pending, Current

LEMMA PreflightIsUnguarded ==
    ASSUME IInv, Preflight
    PROVE  ~guarded
<1>1. suite \in Suites /\ pc \in DOMAIN Script(suite) /\ Script(suite)[pc].do = "preflight"
  BY DEF IInv, ConnectorTypeOK, Preflight, Running, Current
<1>2. ~InTry(suite, pc)
  BY <1>1, ShapeOfScripts
<1> QED BY <1>2 DEF IInv, Inside

LEMMA PreflightStep ==
    ASSUME IInv, Preflight
    PROVE  IInv'
  BY PreflightIsUnguarded
     DEF IInv, ConnectorTypeOK, Entered, Inside, Compared, Open, ReportIsOfThisRun, ExitAgreesWithReport,
         Running, Preflight, Over, envVars, Pending, Current

LEMMA AgainStep ==
    ASSUME IInv, Again
    PROVE  IInv'
<1>1. suite \in Suites /\ suite' = suite /\ pc' = 1 /\ guarded' = FALSE /\ stage' = "running"
      /\ status' = -1 /\ report' \in {"none", "earlier"}
  BY DEF IInv, ConnectorTypeOK, Again, envVars, Pending
<1>2. guarded' \in BOOLEAN
  BY <1>1, Zenon
<1>3. ConnectorTypeOK'
  BY <1>1, <1>2 DEF ConnectorTypeOK
<1>4. Compared'
  BY <1>1, Beginning DEF Compared, Current
<1>5. Entered' /\ Inside'
  BY <1>1, Beginning DEF Entered, Inside
<1>6. Open' /\ ReportIsOfThisRun' /\ ExitAgreesWithReport'
  BY <1>1 DEF Open, ReportIsOfThisRun, ExitAgreesWithReport, Pending
<1> QED BY <1>3, <1>4, <1>5, <1>6 DEF IInv

(* The place after a step is in the try block if the place before it was, or *)
(* if the step opened it.                                                    *)
LEMMA InTryNext ==
    ASSUME NEW s, NEW n \in Nat \ {0}
    PROVE  InTry(s, n + 1) <=> InTry(s, n) \/ Script(s)[n].do = "try"
<1>1. 1..((n + 1) - 1) = (1..(n - 1)) \cup {n}
  OBVIOUS
<1> QED BY <1>1 DEF InTry

LEMMA AdvanceStep ==
    ASSUME IInv, Running, NEW t, Advance(t),
           Current.do = "compare" => Contract(suite) \subseteq checks
    PROVE  IInv'
<1> /\ pc \in Nat \ {0}
    /\ suite \in Suites
  BY DEF IInv, ConnectorTypeOK
<1>1. /\ suite' = suite /\ stage' = stage /\ report' = report /\ status' = status
      /\ checks' = IF Current.id = "" THEN checks ELSE checks \cup {Current.id}
  BY DEF Advance, envVars
<1>a. pc' = pc + 1
  BY DEF Advance
<1>b. guarded' = (guarded \/ Current.do = "try")
  BY DEF Advance
<1>2. ConnectorTypeOK'
  <2>1. guarded' \in BOOLEAN
    BY <1>b, Zenon
  <2>2. pc' \in Nat \ {0}
    BY <1>a
  <2> QED BY <1>1, <2>1, <2>2 DEF IInv, ConnectorTypeOK
<1>3. Entered' /\ Inside'
  <2>1. InTry(suite, pc + 1) <=> InTry(suite, pc) \/ Current.do = "try"
    BY InTryNext DEF Current
  <2>2. InTry(suite, pc) <=> guarded
    BY DEF IInv, Entered, Inside
  <2>3. InTry(suite', pc') <=> guarded'
    BY <1>1, <1>a, <1>b, <2>1, <2>2, Zenon
  <2> QED BY <2>3 DEF Entered, Inside
<1>4. Compared'
  <2> SUFFICES ASSUME pc + 1 \in DOMAIN Script(suite), Script(suite)[pc + 1].do = "publish"
               PROVE  Contract(suite) \subseteq checks'
    BY <1>1, <1>a DEF Compared, Current
  <2>1. CASE Contract(suite) = {}
    BY <2>1
  <2>2. CASE Contract(suite) # {}
    <3>1. pc \in DOMAIN Script(suite)
      BY DEF Running
    <3>2. Script(suite)[pc].do = "compare" /\ Plain(Script(suite)[pc])
      BY <2>2, <3>1, ShapeOfScripts
    <3> QED BY <1>1, <3>2 DEF Current, Plain
  <2> QED BY <2>1, <2>2
<1>5. Open' /\ ReportIsOfThisRun' /\ ExitAgreesWithReport'
  <2>1. stage' = "running" /\ report' \in {"none", "earlier"} /\ status' = -1
    BY <1>1 DEF IInv, Open, Running, Pending
  <2> QED BY <2>1 DEF Open, ReportIsOfThisRun, ExitAgreesWithReport, Pending
<1> QED BY <1>2, <1>3, <1>4, <1>5 DEF IInv

(* What a step of the script, or an orchestrator that deceives it, leads to: *)
(* a comparison that lets the proof go on has found the contract covered.    *)
Moves ==
    \/ \E t : Raise(t)
    \/ /\ Declared(Current.id)
       /\ \E t : Advance(t)
       /\ Current.do = "compare" => Contract(suite) \subseteq checks

LEMMA TakeStepMoves ==
    ASSUME TakeStep
    PROVE  Moves
<1>1. PICK e \in Effect(platform, Current) : Goes(e)
  BY DEF TakeStep
<1>2. CASE e.ok /\ Declared(Current.id)
  <2>1. ASSUME Current.do = "compare"
        PROVE  Contract(suite) \subseteq checks
    <3>1. Finds(platform, Current) = Matches(Current.on)
      BY <2>1 DEF Finds
    <3>2. Effect(platform, Current) = Sees(Finds(platform, Current), platform)
      <4>1. Current.do \in Local
        BY <2>1 DEF Local
      <4> QED BY <2>1, <4>1 DEF Effect
    <3>3. e = Outcome(Matches(Current.on), platform)
      BY <1>1, <3>1, <3>2 DEF Sees
    <3> QED BY <1>2, <3>3 DEF Outcome, Matches
  <2> QED BY <1>1, <1>2, <2>1 DEF Goes, Moves
<1>3. CASE ~(e.ok /\ Declared(Current.id))
  BY <1>1, <1>3 DEF Goes, Moves
<1> QED BY <1>2, <1>3

LEMMA MisledMoves ==
    ASSUME Misled
    PROVE  Moves
<1>1. PICK p \in Lies(platform, Current) : Goes(Outcome(TRUE, p))
  BY DEF Misled
<1>2. Current.do # "compare"
  <2> SUFFICES ASSUME Current.do = "compare" PROVE FALSE
    OBVIOUS
  <2>1. Lies(platform, Current) = {}
    BY DEF Lies
  <2> QED BY <1>1, <2>1
<1>3. CASE Declared(Current.id)
  BY <1>1, <1>2, <1>3 DEF Goes, Outcome, Moves
<1>4. CASE ~Declared(Current.id)
  BY <1>1, <1>4 DEF Goes, Moves
<1> QED BY <1>3, <1>4

(* Every other step leaves the proof alone.                                  *)
Quiet == UNCHANGED <<envVars, pc, guarded, checks, report, stage, status>>

LEMMA StepKinds ==
    ASSUME [Next]_vars
    PROVE  \/ Quiet
           \/ Running /\ Moves
           \/ Preflight
           \/ Publish
           \/ Again
<1>1. CASE TakeStep
  BY <1>1, TakeStepMoves DEF TakeStep
<1>2. CASE Misled
  BY <1>2, MisledMoves DEF Misled
<1>3. CASE Interrupted
  BY <1>3 DEF Interrupted, Moves
<1>4. CASE LateExecute
  BY <1>4 DEF LateExecute, Quiet, procVars
<1>5. CASE \E c \in {"orchestrator", "core", "runtime"} : Crash(c)
  BY <1>5 DEF Crash, Quiet, procVars
<1>6. CASE UNCHANGED vars
  BY <1>6 DEF vars, Quiet, procVars
<1>7. CASE Preflight \/ Publish \/ Again
  BY <1>7
<1> QED BY <1>1, <1>2, <1>3, <1>4, <1>5, <1>6, <1>7 DEF Next, Proceed, Finished

LEMMA QuietStep ==
    ASSUME IInv, Quiet
    PROVE  IInv'
  BY DEF IInv, ConnectorTypeOK, Entered, Inside, Compared, Open, ReportIsOfThisRun, ExitAgreesWithReport,
         Quiet, Current, envVars

LEMMA StepIInv == IInv /\ [Next]_vars => IInv'
  BY StepKinds, QuietStep, RaiseStep, AdvanceStep, PreflightStep, PublishStep, AgainStep DEF Moves

LEMMA InvariantIInv == Spec => []IInv
  BY InitIInv, StepIInv, PTL DEF Spec

(* Place, stage and report of a run keep their types.                        *)
THEOREM ConnectorTyped == Spec => []ConnectorTypeOK
  BY InvariantIInv, PTL DEF IInv

(* The exit status is no better than the report.                             *)
THEOREM ConnectorExitTheorem == Spec => []ExitAgreesWithReport
  BY InvariantIInv, PTL DEF IInv

(* A run that got into its try block leaves its own report, never that of an *)
(* earlier run.                                                              *)
THEOREM ConnectorReportTheorem == Spec => []ReportIsOfThisRun
  BY InvariantIInv, PTL DEF IInv
-----------------------------------------------------------------------------
(* A proof with a try block records and publishes only inside it.            *)
LEMMA RecordingIsGuarded ==
    ASSUME IInv, Running, Reporting, Current.do = "publish" \/ Current.id # ""
    PROVE  guarded
<1>1. suite \in Suites /\ pc \in DOMAIN Script(suite)
  BY DEF IInv, ConnectorTypeOK, Running
<1>2. Script(suite)[pc].do = "publish" \/ ~Plain(Script(suite)[pc])
  BY DEF Current, Plain
<1>3. InTry(suite, pc)
  BY <1>1, <1>2, ShapeOfScripts DEF Reporting
<1> QED BY <1>3 DEF IInv, Entered

(* The read-only validation is no evidence run at all.                       *)
LEMMA ReadOnlyStutters ==
    ASSUME ~Reporting, suite' = suite
    PROVE  UNCHANGED Evidence!runVars
<1>1. ~Reporting'
  BY DEF Reporting, Guards
<1> QED BY <1>1 DEF Evidence!runVars, Verdict

LEMMA RaiseIsAbandonOrFail ==
    ASSUME IInv, Running, Reporting, NEW t, Raise(t)
    PROVE  Evidence!Abandon \/ Evidence!Publish("FAIL")
<1>1. /\ stage = "running" /\ stage' = "over"
      /\ suite' = suite /\ checks' = checks /\ guarded' = guarded
      /\ report' = IF guarded THEN "FAIL" ELSE report
  BY DEF Raise, Running, Over, envVars
<1>2. Reporting'
  BY <1>1 DEF Reporting, Guards
<1>3. CASE guarded
  BY <1>1, <1>2, <1>3 DEF Evidence!Publish, Verdict
<1>4. CASE ~guarded
  BY <1>1, <1>2, <1>4 DEF Evidence!Abandon, Verdict, IInv, Open
<1> QED BY <1>3, <1>4

LEMMA PreflightIsAbandon ==
    ASSUME IInv, Reporting, Preflight
    PROVE  Evidence!Abandon
<1>1. /\ stage = "running" /\ stage' = "over" /\ report' = report
      /\ suite' = suite /\ checks' = checks /\ guarded' = guarded
  BY DEF Preflight, Running, Over, envVars
<1>2. Reporting'
  BY <1>1 DEF Reporting, Guards
<1> QED BY <1>1, <1>2, PreflightIsUnguarded DEF Evidence!Abandon, Verdict, IInv, Open

LEMMA AdvanceIsStartOrClaim ==
    ASSUME IInv, Running, Reporting, NEW t, Advance(t), Declared(Current.id)
    PROVE  Evidence!Start \/ Evidence!Claim \/ UNCHANGED Evidence!runVars
<1>1. /\ stage = "running" /\ stage' = "running" /\ suite' = suite /\ report' = report
      /\ checks' = IF Current.id = "" THEN checks ELSE checks \cup {Current.id}
      /\ guarded' = (guarded \/ Current.do = "try")
  BY DEF Advance, Running, envVars
<1>r. Reporting'
  BY <1>1 DEF Reporting, Guards
<1>2. CASE Current.id # ""
  <2>1. guarded /\ guarded'
    BY <1>1, <1>2, RecordingIsGuarded
  <2>2. Contract(suite) # {} => Current.id \in Contract(suite)
    BY <1>2 DEF Declared
  <2>3. Current.id \in checks' /\ checks' = checks \cup {Current.id}
    BY <1>1, <1>2
  <2> QED BY <1>1, <1>r, <2>1, <2>2, <2>3 DEF Evidence!Claim, Verdict
<1>3. CASE Current.id = "" /\ (guarded \/ Current.do # "try")
  <2>1. (guarded' <=> guarded) /\ checks' = checks
    BY <1>1, <1>3
  <2>2. CASE guarded
    BY <1>1, <1>r, <2>1, <2>2 DEF Evidence!runVars, Verdict
  <2>3. CASE ~guarded
    BY <1>1, <1>r, <2>1, <2>3 DEF Evidence!runVars, Verdict
  <2> QED BY <2>2, <2>3
<1>4. CASE Current.id = "" /\ ~guarded /\ Current.do = "try"
  BY <1>1, <1>r, <1>4 DEF Evidence!Start, Verdict
<1> QED BY <1>2, <1>3, <1>4

LEMMA PublishIsPass ==
    ASSUME IInv, Reporting, Publish
    PROVE  Evidence!Publish("PASS")
<1>1. /\ stage = "running" /\ stage' = "over" /\ report' = "PASS"
      /\ suite' = suite /\ checks' = checks /\ guarded' = guarded
  BY DEF Publish, Running, Over, envVars
<1>2. guarded
  BY RecordingIsGuarded DEF Publish
<1>3. Contract(suite) \subseteq checks
  BY DEF IInv, Compared, Publish, Running
<1>4. Reporting'
  BY <1>1 DEF Reporting, Guards
<1> QED BY <1>1, <1>2, <1>3, <1>4 DEF Evidence!Publish, Verdict

LEMMA AgainIsAgain ==
    ASSUME IInv, Reporting, Again
    PROVE  Evidence!Again
<1>1. /\ stage = "over" /\ stage' = "running" /\ guarded' = FALSE /\ checks' = {}
      /\ suite' = suite
  BY DEF Again, envVars
<1>2. Reporting'
  BY <1>1 DEF Reporting, Guards
<1> QED BY <1>1, <1>2 DEF Evidence!Again, Verdict

LEMMA StepImplements ==
    ASSUME IInv, [Next]_vars
    PROVE  [Evidence!Next]_(Evidence!runVars)
<1>1. CASE Quiet
  BY <1>1 DEF Quiet, Evidence!runVars, Verdict, envVars, Reporting, Guards
<1>2. CASE ~Reporting /\ ~Quiet
  <2>1. suite' = suite
    BY <1>2, StepKinds DEF Moves, Raise, Advance, Preflight, Publish, Again, envVars
  <2> QED BY <1>2, <2>1, ReadOnlyStutters
<1>3. CASE Reporting /\ Running /\ Moves
  BY <1>3, RaiseIsAbandonOrFail, AdvanceIsStartOrClaim DEF Moves, Evidence!Next
<1>4. CASE Reporting /\ Preflight
  BY <1>4, PreflightIsAbandon DEF Evidence!Next
<1>5. CASE Reporting /\ Publish
  BY <1>5, PublishIsPass DEF Evidence!Next
<1>6. CASE Reporting /\ Again
  BY <1>6, AgainIsAgain DEF Evidence!Next
<1> QED BY <1>1, <1>2, <1>3, <1>4, <1>5, <1>6, StepKinds

(* A connector proof is an evidence run, over and over: each run publishes   *)
(* one verdict from inside its try block, over claims of its contract only,  *)
(* and PASS covers the contract, whatever the orchestrator answered.         *)
THEOREM ConnectorImplementsEvidence == Spec => EvidenceSpec
<1>1. Init => Evidence!RunInit
  BY DEF Init, Evidence!RunInit, Verdict
<1> QED BY <1>1, InvariantIInv, StepImplements, PTL DEF Spec, EvidenceSpec, Evidence!Spec
-----------------------------------------------------------------------------
(* The test-account lane.  Its script opens with the contract, --preflight,  *)
(* the try block and the four gates, none of which touches the platform.     *)
Gates == {"contract", "preflight", "try", "gate"}

LEMMA GatesComeFirst ==
    LET q == Script("test account") IN
    /\ \A n \in 1..7 : q[n].do \in Gates
    /\ q[4].do = "gate" /\ q[5].do = "gate" /\ q[6].do = "gate" /\ q[7].do = "gate"
    /\ q[4].on = "armed" /\ q[5].on = "broker" /\ q[6].on = "targets" /\ q[7].on = "repository"
<1> DEFINE G == TestAccountGates
           q == Script("test account")
<1>1. Len(G) = 7 /\ IsScript(G)
  <2>1. G = [n \in 1..7 |-> G[n]]
    BY DEF TestAccountGates
  <2> HIDE DEF G
  <2> QED BY <2>1, LiteralScript
<1>2. IsScript(TestAccountRequests) /\ IsScript(TestAccountExecutions)
  BY TestAccountRequestsIsCalm, TestAccountExecutionsIsCalm DEF Calm
<1>3. IsScript(CompareBoth)
  <2>1. CompareBoth = [n \in 1..2 |-> CompareBoth[n]]
    BY DEF CompareBoth
  <2> QED BY <2>1, LiteralScript
<1>4. q = ((G \o TestAccountRequests) \o TestAccountExecutions) \o CompareBoth
  BY DEF Script, TestAccountScript
<1> HIDE DEF G, q
<1>5. ASSUME NEW a, NEW b, IsScript(a), IsScript(b), Len(a) >= 7, \A n \in 1..7 : a[n] = G[n]
      PROVE  IsScript(a \o b) /\ Len(a \o b) >= 7 /\ \A n \in 1..7 : (a \o b)[n] = G[n]
  <2>1. /\ IsScript(a \o b) /\ Len(a) \in Nat /\ Len(b) \in Nat
        /\ DOMAIN (a \o b) = 1..(Len(a) + Len(b)) /\ \A n \in 1..Len(a) : (a \o b)[n] = a[n]
    BY <1>5, Joined
  <2>2. Len(a \o b) = Len(a) + Len(b)
    <3>1. PICK S : a \o b \in Seq(S)
      BY <2>1 DEF IsScript
    <3> HIDE <3>1
    <3> QED BY <2>1, <3>1
  <2> QED BY <1>5, <2>1, <2>2
<1>6. \A n \in 1..7 : q[n] = G[n]
  <2>1. IsScript(G \o TestAccountRequests) /\ Len(G \o TestAccountRequests) >= 7
        /\ \A n \in 1..7 : (G \o TestAccountRequests)[n] = G[n]
    <3>1. Len(G) >= 7 /\ \A n \in 1..7 : G[n] = G[n]
      BY <1>1
    <3> QED BY <3>1, <1>1, <1>2, <1>5, Zenon
  <2>2. /\ IsScript((G \o TestAccountRequests) \o TestAccountExecutions)
        /\ Len((G \o TestAccountRequests) \o TestAccountExecutions) >= 7
        /\ \A n \in 1..7 : ((G \o TestAccountRequests) \o TestAccountExecutions)[n] = G[n]
    BY <2>1, <1>2, <1>5, Zenon
  <2> QED BY <2>2, <1>3, <1>4, <1>5, Zenon
<1>7. /\ G[1].do = "contract" /\ G[2].do = "preflight" /\ G[3].do = "try"
      /\ G[4].do = "gate" /\ G[5].do = "gate" /\ G[6].do = "gate" /\ G[7].do = "gate"
      /\ G[4].on = "armed" /\ G[5].on = "broker" /\ G[6].on = "targets" /\ G[7].on = "repository"
  BY DEF G, TestAccountGates, Do, Proves, Step
<1>8. /\ q[1] = G[1] /\ q[2] = G[2] /\ q[3] = G[3]
      /\ q[4] = G[4] /\ q[5] = G[5] /\ q[6] = G[6] /\ q[7] = G[7]
  BY <1>6
<1>9. \A n \in 1..7 : q[n].do \in Gates
  BY <1>7, <1>8 DEF Gates
<1> QED BY <1>7, <1>8, <1>9 DEF q

(* While a condition is not met the lane stands at the gate of that          *)
(* condition or before it: nothing has been asked of the orchestrator, so    *)
(* nothing is left to be carried out late.                                   *)
Gated == suite = "test account" /\ unmet # {}
AtTheGates ==
    /\ pc \in 1..7
    /\ pc > 4 => "armed" \notin unmet
    /\ pc > 5 => "broker" \notin unmet
    /\ pc > 6 => "targets" \notin unmet
GateInv ==
    /\ unmet \subseteq Conditions(suite)
    /\ Gated => /\ AtTheGates /\ late = {}
                /\ {"stub", "broker"} \subseteq DOMAIN platform
                /\ platform.broker = Broker(suite) /\ platform.stub.write = 0

LEMMA InitGateInv == Init => GateInv
<1> SUFFICES ASSUME Init PROVE GateInv
  OBVIOUS
<1>1. /\ unmet \in SUBSET Conditions(suite) /\ pc = 1 /\ late = {}
      /\ platform = Fresh(suite, Broker(suite))
  BY DEF Init
<1>2. /\ {"stub", "broker"} \subseteq DOMAIN platform
      /\ platform.broker = Broker(suite) /\ platform.stub = Provider(suite)
  BY <1>1 DEF Fresh
<1>3. Provider(suite).write = 0
  BY DEF Provider, NewStub
<1> QED BY <1>1, <1>2, <1>3 DEF GateInv, AtTheGates

(* A step that leaves the stub and the broker of a gated lane alone, and     *)
(* stands where it stood or starts over.                                     *)
LEMMA StandsGateInv ==
    ASSUME GateInv, UNCHANGED envVars, pc' = pc \/ pc' = 1, Gated => late' = late,
           Gated => /\ DOMAIN platform' = DOMAIN platform
                    /\ platform'.broker = platform.broker /\ platform'.stub = platform.stub
    PROVE  GateInv'
<1>1. suite' = suite /\ unmet' = unmet
  BY DEF envVars
<1>2. CASE ~Gated
  BY <1>1, <1>2 DEF GateInv, Gated, Conditions
<1>3. CASE Gated
  <2>1. AtTheGates /\ pc' \in 1..7
    BY <1>3 DEF GateInv, AtTheGates
  <2>2. AtTheGates'
    BY <1>1, <2>1 DEF AtTheGates
  <2>3. Broker(suite)' = Broker(suite) /\ Conditions(suite)' = Conditions(suite)
    BY <1>1 DEF Broker, Conditions
  <2> QED BY <1>1, <1>3, <2>2, <2>3 DEF GateInv, Gated
<1> QED BY <1>2, <1>3

(* At the gates a step leads nowhere but to the same platform.               *)
LEMMA GateEffect ==
    ASSUME GateInv, Gated
    PROVE  /\ Current.do \in Gates
           /\ Effect(platform, Current) = {Outcome(Finds(platform, Current), platform)}
           /\ Lies(platform, Current) = {}
<1>1. Current.do \in Gates
  BY GatesComeFirst DEF GateInv, AtTheGates, Gated, Current
<1>2. Current.do \in Local
  BY <1>1 DEF Gates, Local
<1>3. Effect(platform, Current) = {Outcome(Finds(platform, Current), platform)}
  BY <1>1, <1>2 DEF Effect, Sees, Gates
<1>4. Lies(platform, Current) = {}
  BY <1>1 DEF Lies, Gates
<1> QED BY <1>1, <1>3, <1>4

(* A gate opens only on the condition it is named after.                     *)
LEMMA GateOpens ==
    ASSUME GateInv, Gated, Finds(platform, Current)
    PROVE  /\ pc = 4 => "armed" \notin unmet
           /\ pc = 5 => "broker" \notin unmet
           /\ pc = 6 => "targets" \notin unmet
           /\ pc = 7 => "repository" \notin unmet
<1>1. suite = "test account" /\ pc \in 1..7
  BY DEF GateInv, Gated, AtTheGates
<1>2. ASSUME NEW c, Current.do = "gate", Current.on = c, c # "broker"
      PROVE  c \notin unmet
  BY <1>2 DEF Finds
<1>3. CASE pc = 4
  <2>1. Current.do = "gate" /\ Current.on = "armed"
    BY <1>1, <1>3, GatesComeFirst DEF Current
  <2> QED BY <1>2, <1>3, <2>1
<1>4. CASE pc = 5
  <2>1. Current.do = "gate" /\ Current.on = "broker"
    BY <1>1, <1>4, GatesComeFirst DEF Current
  <2>2. BrokerReady(platform.broker)
    BY <2>1 DEF Finds
  <2>3. Kinds \subseteq Broker("test account")
    BY <2>2, <1>1 DEF BrokerReady, GateInv
  <2>4. "broker" \notin unmet
    BY <2>3 DEF Broker, Kinds
  <2> QED BY <1>4, <2>4
<1>5. CASE pc = 6
  <2>1. Current.do = "gate" /\ Current.on = "targets"
    BY <1>1, <1>5, GatesComeFirst DEF Current
  <2> QED BY <1>2, <1>5, <2>1
<1>6. CASE pc = 7
  <2>1. Current.do = "gate" /\ Current.on = "repository"
    BY <1>1, <1>6, GatesComeFirst DEF Current
  <2> QED BY <1>2, <1>6, <2>1
<1> QED BY <1>1, <1>3, <1>4, <1>5, <1>6

LEMMA TakeStepGateInv ==
    ASSUME GateInv, Gated, TakeStep
    PROVE  GateInv'
<1>1. PICK e \in Effect(platform, Current) : Goes(e)
  BY DEF TakeStep
<1>2. e = Outcome(Finds(platform, Current), platform)
  BY <1>1, GateEffect
<1>3. UNCHANGED <<envVars, late>> /\ platform' = platform
  BY <1>1, <1>2 DEF Goes, Raise, Advance, Outcome, TakeStep
<1>4. CASE Raise(e.then)
  <2>1. pc' = pc
    BY <1>4 DEF Raise
  <2> QED BY <1>3, <2>1, StandsGateInv DEF GateInv
<1>5. CASE ~Raise(e.then)
  <2>1. Finds(platform, Current) /\ pc' = pc + 1
    BY <1>1, <1>2, <1>5 DEF Goes, Advance, Outcome
  <2>2. /\ pc = 4 => "armed" \notin unmet
        /\ pc = 5 => "broker" \notin unmet
        /\ pc = 6 => "targets" \notin unmet
        /\ pc = 7 => "repository" \notin unmet
    BY <2>1, GateOpens
  <2>a. /\ pc \in 1..7 /\ unmet # {}
        /\ pc > 4 => "armed" \notin unmet
        /\ pc > 5 => "broker" \notin unmet
        /\ pc > 6 => "targets" \notin unmet
        /\ unmet \subseteq {"armed", "broker", "targets", "repository"}
    BY DEF GateInv, Gated, AtTheGates, Conditions
  <2>3. ASSUME pc = 7 PROVE FALSE
    <3>1. \A c \in unmet : FALSE
      BY <2>2, <2>a, <2>3
    <3> QED BY <2>a, <3>1
  <2>4. AtTheGates'
    <3>1. pc' \in 1..7 /\ unmet' = unmet
      BY <1>3, <2>1, <2>3, <2>a DEF envVars
    <3>2. /\ pc' > 4 => pc > 4 \/ pc = 4
          /\ pc' > 5 => pc > 5 \/ pc = 5
          /\ pc' > 6 => pc > 6 \/ pc = 6
      BY <2>1, <2>a
    <3> QED BY <3>1, <3>2, <2>2, <2>a DEF AtTheGates
  <2> QED BY <1>3, <2>4 DEF GateInv, Gated, envVars, Conditions, Broker
<1> QED BY <1>4, <1>5

LEMMA InterruptedGateInv ==
    ASSUME GateInv, Gated, Interrupted
    PROVE  GateInv'
<1>1. Current.do \in Gates
      /\ Effect(platform, Current) = {Outcome(Finds(platform, Current), platform)}
  BY GateEffect
<1>2. Partial(platform, Current) = {} /\ Current.do # "execute"
  BY <1>1 DEF Partial, Gates
<1>3. \A p \in {e.then : e \in Effect(platform, Current)} \cup Partial(platform, Current) : p = platform
  BY <1>1, <1>2 DEF Outcome
<1>4. UNCHANGED <<envVars, late, pc, platform>>
  BY <1>2, <1>3 DEF Interrupted, Raise
<1> QED BY <1>4, StandsGateInv DEF GateInv

LEMMA StepGateInv == GateInv /\ [Next]_vars => GateInv'
<1> SUFFICES ASSUME GateInv, [Next]_vars PROVE GateInv'
  OBVIOUS
<1>1. UNCHANGED envVars
  BY DEF Next, Proceed, TakeStep, Goes, Raise, Advance, Preflight, Publish, Again, Interrupted, LateExecute,
         Misled, Crash, Finished, vars
<1>2. CASE ~Gated
  BY <1>1, <1>2 DEF GateInv, Gated, envVars, Conditions
<1> SUFFICES ASSUME Gated PROVE GateInv'
  BY <1>2
<1>3. CASE TakeStep
  BY <1>3, TakeStepGateInv
<1>4. CASE Interrupted
  BY <1>4, InterruptedGateInv
<1>5. ~LateExecute /\ ~Misled
  BY GateEffect DEF LateExecute, Misled, GateInv
<1>6. CASE Preflight \/ Publish
  <2>1. UNCHANGED <<pc, late, platform>>
    BY <1>6 DEF Preflight, Publish
  <2> QED BY <1>1, <2>1, StandsGateInv
<1>7. CASE Again
  <2>1. pc' = 1 /\ late' = late
    BY <1>7 DEF Again
  <2>2. DOMAIN platform' = DOMAIN platform
        /\ platform'.broker = platform.broker /\ platform'.stub = platform.stub
    BY <1>7 DEF Again, GateInv
  <2> QED BY <1>1, <2>1, <2>2, StandsGateInv
<1>8. CASE \E c \in {"orchestrator", "core", "runtime"} : Crash(c)
  <2>1. pc' = pc /\ late' = late
    BY <1>8 DEF Crash, procVars
  <2>2. DOMAIN platform' = DOMAIN platform
        /\ platform'.broker = platform.broker /\ platform'.stub = platform.stub
    BY <1>8 DEF Crash, GateInv
  <2> QED BY <1>1, <2>1, <2>2, StandsGateInv
<1>9. CASE UNCHANGED vars
  BY <1>1, <1>9, StandsGateInv DEF vars, procVars
<1> QED BY <1>3, <1>4, <1>5, <1>6, <1>7, <1>8, <1>9 DEF Next, Proceed, Finished

LEMMA InvariantGateInv == Spec => []GateInv
  BY InitGateInv, StepGateInv, PTL DEF Spec

(* The test accounts are not written to unless the lane is armed, has its    *)
(* tokens and its targets, and is not aimed at the project's own repository, *)
(* whatever fails, is carried out late or answers wrongly.                   *)
THEOREM ArmedTheorem == Spec => []ArmedOrUntouched
<1>1. GateInv => ArmedOrUntouched
  BY DEF GateInv, Gated, ArmedOrUntouched
<1> QED BY <1>1, InvariantGateInv, PTL
-----------------------------------------------------------------------------
(* The live write proof.  Its steps look at things, act on one provider, or  *)
(* read the stub's counters; from the last reading on they only look.        *)
Looks == {"contract", "try", "note", "counted", "compare", "health", "policy", "persisted", "inspect"}
OfKind == {"start", "completeWrite", "create", "approve", "execute"}
LiveStep(n) == Script("live write")[n]

(* A part of n steps, and where it stands in a script.                       *)
Part(p, n) == IsScript(p) /\ Len(p) = n
Holds(q, o, p, n) == \A i \in 1..n : q[o + i] = p[i]

LEMMA PartsJoined ==
    ASSUME NEW a, NEW b, NEW m \in Nat, NEW k \in Nat, NEW t, t = m + k, Part(a, m), Part(b, k)
    PROVE  Part(a \o b, t) /\ Holds(a \o b, 0, a, m) /\ Holds(a \o b, m, b, k)
<1>1. /\ IsScript(a \o b) /\ DOMAIN (a \o b) = 1..t
      /\ \A n \in 1..m : (a \o b)[n] = a[n]
      /\ \A n \in (m + 1)..t : (a \o b)[n] = b[n - m]
  BY Joined DEF Part
<1>2. Len(a \o b) = t
  <2>1. PICK S : a \o b \in Seq(S)
    BY <1>1 DEF IsScript
  <2> HIDE <2>1
  <2> QED BY <1>1, <2>1
<1>3. ASSUME NEW n \in 1..k PROVE (a \o b)[m + n] = b[n]
  <2>1. m + n \in (m + 1)..t /\ (m + n) - m = n
    OBVIOUS
  <2> QED BY <1>1, <2>1
<1>4. ASSUME NEW n \in 1..m PROVE (a \o b)[0 + n] = a[n]
  <2>1. 0 + n = n
    OBVIOUS
  <2> QED BY <1>1, <2>1
<1> QED BY <1>1, <1>2, <1>3, <1>4 DEF Part, Holds

(* The parts of the script and their places in it.                           *)
LEMMA LivePlaces ==
    LET q == Script("live write") IN
    /\ DOMAIN q = 1..42
    /\ Holds(q, 0, Begin, 3)
    /\ Holds(q, 3, LiveWriteRequests, 13)
    /\ Holds(q, 16, LiveWriteBlocked, 6)
    /\ Holds(q, 22, LiveWriteExecutions, 12)
    /\ Holds(q, 34, LiveWriteAudit, 6)
    /\ Holds(q, 40, CompareBoth, 2)
<1>1. Part(Begin, 3)
  <2>1. Begin = [n \in 1..3 |-> Begin[n]]
    BY DEF Begin
  <2> QED BY <2>1, LiteralScript DEF Part
<1>2. Part(LiveWriteRequests, 13)
  <2>1. LiveWriteRequests = [n \in 1..13 |-> LiveWriteRequests[n]]
    BY DEF LiveWriteRequests
  <2> QED BY <2>1, LiteralScript DEF Part
<1>3. Part(LiveWriteBlocked, 6)
  <2>1. LiveWriteBlocked = [n \in 1..6 |-> LiveWriteBlocked[n]]
    BY DEF LiveWriteBlocked
  <2> QED BY <2>1, LiteralScript DEF Part
<1>4. Part(LiveWriteExecutions, 12)
  <2>1. LiveWriteExecutions = [n \in 1..12 |-> LiveWriteExecutions[n]]
    BY DEF LiveWriteExecutions
  <2> QED BY <2>1, LiteralScript DEF Part
<1>5. Part(LiveWriteAudit, 6)
  <2>1. LiveWriteAudit = [n \in 1..6 |-> LiveWriteAudit[n]]
    BY DEF LiveWriteAudit
  <2> QED BY <2>1, LiteralScript DEF Part
<1>6. Part(CompareBoth, 2)
  <2>1. CompareBoth = [n \in 1..2 |-> CompareBoth[n]]
    BY DEF CompareBoth
  <2> QED BY <2>1, LiteralScript DEF Part
<1> DEFINE a == Begin \o LiveWriteRequests
           b == a \o LiveWriteBlocked
           c == b \o LiveWriteExecutions
           d == c \o LiveWriteAudit
           q == d \o CompareBoth
<1>7. Part(a, 16) /\ Holds(a, 0, Begin, 3) /\ Holds(a, 3, LiveWriteRequests, 13)
  <2>1. 3 \in Nat /\ 13 \in Nat /\ 16 = 3 + 13
    OBVIOUS
  <2> QED BY <1>1, <1>2, <2>1, PartsJoined, Zenon
<1> HIDE DEF a
<1>8. Part(b, 22) /\ Holds(b, 0, a, 16) /\ Holds(b, 16, LiveWriteBlocked, 6)
  <2>1. 16 \in Nat /\ 6 \in Nat /\ 22 = 16 + 6
    OBVIOUS
  <2> QED BY <1>7, <1>3, <2>1, PartsJoined, Zenon
<1> HIDE DEF b
<1>9. Part(c, 34) /\ Holds(c, 0, b, 22) /\ Holds(c, 22, LiveWriteExecutions, 12)
  <2>1. 22 \in Nat /\ 12 \in Nat /\ 34 = 22 + 12
    OBVIOUS
  <2> QED BY <1>8, <1>4, <2>1, PartsJoined, Zenon
<1> HIDE DEF c
<1>10. Part(d, 40) /\ Holds(d, 0, c, 34) /\ Holds(d, 34, LiveWriteAudit, 6)
  <2>1. 34 \in Nat /\ 6 \in Nat /\ 40 = 34 + 6
    OBVIOUS
  <2> QED BY <1>9, <1>5, <2>1, PartsJoined, Zenon
<1> HIDE DEF d
<1>11. Part(q, 42) /\ Holds(q, 0, d, 40) /\ Holds(q, 40, CompareBoth, 2)
  <2>1. 40 \in Nat /\ 2 \in Nat /\ 42 = 40 + 2
    OBVIOUS
  <2> QED BY <1>10, <1>6, <2>1, PartsJoined, Zenon
<1>12. Script("live write") = q
  BY DEF Script, LiveWriteScript, q, d, c, b, a
<1> HIDE DEF q
<1>13. DOMAIN q = 1..42
  <2>1. PICK S : q \in Seq(S)
    BY <1>11 DEF Part, IsScript
  <2> HIDE <2>1
  <2> QED BY <1>11, <2>1 DEF Part
<1>14. Holds(q, 0, Begin, 3)
  BY <1>7, <1>8, <1>9, <1>10, <1>11 DEF Holds
<1>15. Holds(q, 3, LiveWriteRequests, 13)
  BY <1>7, <1>8, <1>9, <1>10, <1>11 DEF Holds
<1>16. Holds(q, 16, LiveWriteBlocked, 6)
  BY <1>8, <1>9, <1>10, <1>11 DEF Holds
<1>17. Holds(q, 22, LiveWriteExecutions, 12)
  BY <1>9, <1>10, <1>11 DEF Holds
<1>18. Holds(q, 34, LiveWriteAudit, 6)
  BY <1>10, <1>11 DEF Holds
<1> QED BY <1>11, <1>12, <1>13, <1>14, <1>15, <1>16, <1>17, <1>18

(* What any step of it is.                                                   *)
Living(s) ==
    /\ s.do \in Looks \cup OfKind \cup {"register", "metrics", "publish"}
    /\ s.do \in OfKind => s.on \in Kinds

LEMMA LiveSteps ==
    /\ \A n \in 1..42 : Living(LiveStep(n)) /\ (n # 42 => LiveStep(n).do # "publish")
    /\ \A n \in 37..41 : LiveStep(n).do \in Looks
    /\ LiveStep(42).do = "publish"
<1>1. \A n \in 1..3 : Begin[n].do \in Looks
  <2>1. Begin[1].do = "contract" /\ Begin[2].do = "try" /\ Begin[3].do = "health"
    BY DEF Begin, Do, Health, Proves, Step
  <2> QED BY <2>1 DEF Looks
<1>2. \A n \in 1..13 : Living(LiveWriteRequests[n]) /\ LiveWriteRequests[n].do # "publish"
  <2> DEFINE P == LiveWriteRequests
  <2>1. /\ P[1].do = "policy" /\ P[2].do = "register" /\ P[5].do = "register" /\ P[8].do = "register"
        /\ P[3].do = "start" /\ P[3].on = "github" /\ P[4].do = "completeWrite" /\ P[4].on = "github"
        /\ P[6].do = "start" /\ P[6].on = "gmail" /\ P[7].do = "completeWrite" /\ P[7].on = "gmail"
        /\ P[9].do = "start" /\ P[9].on = "calendar" /\ P[10].do = "completeWrite" /\ P[10].on = "calendar"
        /\ P[11].do = "create" /\ P[11].on = "gmail" /\ P[12].do = "create" /\ P[12].on = "calendar"
        /\ P[13].do = "create" /\ P[13].on = "github"
    BY DEF LiveWriteRequests, Do, Proves, Step
  <2> HIDE DEF P
  <2> QED BY <2>1 DEF Living, Looks, OfKind, Kinds, P
<1>3. \A n \in 1..6 : Living(LiveWriteBlocked[n]) /\ LiveWriteBlocked[n].do # "publish"
  <2> DEFINE P == LiveWriteBlocked
  <2>1. /\ P[1].do = "execute" /\ P[1].on = "gmail" /\ P[2].do = "execute" /\ P[2].on = "calendar"
        /\ P[3].do = "execute" /\ P[3].on = "github" /\ P[4].do = "metrics"
        /\ P[5].do = "counted" /\ P[6].do = "counted"
    BY DEF LiveWriteBlocked, Do, Proves, Step
  <2> HIDE DEF P
  <2> QED BY <2>1 DEF Living, Looks, OfKind, Kinds, P
<1>4. \A n \in 1..12 : Living(LiveWriteExecutions[n]) /\ LiveWriteExecutions[n].do # "publish"
  <2> DEFINE P == LiveWriteExecutions
  <2>1. /\ P[1].do = "approve" /\ P[1].on = "gmail" /\ P[2].do = "approve" /\ P[2].on = "calendar"
        /\ P[3].do = "approve" /\ P[3].on = "github" /\ P[4].do = "execute" /\ P[4].on = "gmail"
        /\ P[5].do = "execute" /\ P[5].on = "calendar" /\ P[6].do = "execute" /\ P[6].on = "github"
        /\ P[7].do = "metrics" /\ P[8].do = "counted" /\ P[9].do = "counted" /\ P[10].do = "counted"
        /\ P[11].do = "counted" /\ P[12].do = "counted"
    BY DEF LiveWriteExecutions, Do, Proves, Step
  <2> HIDE DEF P
  <2> QED BY <2>1 DEF Living, Looks, OfKind, Kinds, P
<1>5. /\ \A n \in 1..2 : Living(LiveWriteAudit[n]) /\ LiveWriteAudit[n].do # "publish"
      /\ \A n \in 3..6 : LiveWriteAudit[n].do \in Looks
  <2> DEFINE P == LiveWriteAudit
  <2>1. /\ P[1].do = "execute" /\ P[1].on = "gmail" /\ P[2].do = "metrics" /\ P[3].do = "counted"
        /\ P[4].do = "persisted" /\ P[5].do = "inspect" /\ P[6].do = "note"
    BY DEF LiveWriteAudit, Do, Proves, Notes, Step
  <2> HIDE DEF P
  <2> QED BY <2>1 DEF Living, Looks, OfKind, Kinds, P
<1>6. CompareBoth[1].do = "compare" /\ CompareBoth[2].do = "publish"
  BY DEF CompareBoth, Do, Step
<1>7. \A s : s.do \in Looks => Living(s) /\ s.do # "publish"
  BY DEF Living, Looks, OfKind
<1>10. LiveStep(42).do = "publish"
  <2>1. 2 \in 1..2 /\ 40 + 2 = 42
    OBVIOUS
  <2>2. LiveStep(40 + 2) = CompareBoth[2]
    BY <2>1, LivePlaces DEF Holds, LiveStep
  <2> QED BY <1>6, <2>1, <2>2
<1>8. ASSUME NEW n \in 37..41 PROVE LiveStep(n).do \in Looks
  <2>1. CASE n = 41
    <3>1. 1 \in 1..2 /\ 40 + 1 = 41
      OBVIOUS
    <3>2. LiveStep(40 + 1) = CompareBoth[1]
      BY <3>1, LivePlaces DEF Holds, LiveStep
    <3> QED BY <1>6, <2>1, <3>1, <3>2 DEF Looks
  <2>2. CASE n \in 37..40
    <3>1. n - 34 \in 3..6 /\ n - 34 \in 1..6 /\ 34 + (n - 34) = n
      BY <2>2
    <3>2. LiveStep(34 + (n - 34)) = LiveWriteAudit[n - 34]
      BY <3>1, LivePlaces DEF Holds, LiveStep
    <3> QED BY <1>5, <3>1, <3>2
  <2> QED BY <2>1, <2>2
<1>9. ASSUME NEW n \in 1..42 PROVE Living(LiveStep(n)) /\ (n # 42 => LiveStep(n).do # "publish")
  <2>1. CASE n \in 1..3
    <3>1. LiveStep(0 + n) = Begin[n]
      BY <2>1, LivePlaces DEF Holds, LiveStep
    <3> QED BY <1>1, <1>7, <2>1, <3>1
  <2>2. CASE n \in 4..16
    <3>1. n - 3 \in 1..13 /\ 3 + (n - 3) = n
      BY <2>2
    <3>2. LiveStep(3 + (n - 3)) = LiveWriteRequests[n - 3]
      BY <3>1, LivePlaces DEF Holds, LiveStep
    <3> QED BY <1>2, <3>1, <3>2
  <2>3. CASE n \in 17..22
    <3>1. n - 16 \in 1..6 /\ 16 + (n - 16) = n
      BY <2>3
    <3>2. LiveStep(16 + (n - 16)) = LiveWriteBlocked[n - 16]
      BY <3>1, LivePlaces DEF Holds, LiveStep
    <3> QED BY <1>3, <3>1, <3>2
  <2>4. CASE n \in 23..34
    <3>1. n - 22 \in 1..12 /\ 22 + (n - 22) = n
      BY <2>4
    <3>2. LiveStep(22 + (n - 22)) = LiveWriteExecutions[n - 22]
      BY <3>1, LivePlaces DEF Holds, LiveStep
    <3> QED BY <1>4, <3>1, <3>2
  <2>5. CASE n \in 35..36
    <3>1. n - 34 \in 1..2 /\ n - 34 \in 1..6 /\ 34 + (n - 34) = n
      BY <2>5
    <3>2. LiveStep(34 + (n - 34)) = LiveWriteAudit[n - 34]
      BY <3>1, LivePlaces DEF Holds, LiveStep
    <3> QED BY <1>5, <3>1, <3>2
  <2>6. CASE n \in 37..41
    BY <1>7, <1>8, <2>6
  <2>7. CASE n = 42
    BY <1>10, <2>7 DEF Living, OfKind
  <2> QED BY <2>1, <2>2, <2>3, <2>4, <2>5, <2>6, <2>7
<1> QED BY <1>8, <1>9, <1>10

(* Where it executes, counts and reads the counters.                         *)
ExecutesAt == [gmail |-> 26, calendar |-> 27, github |-> 28]
CountsAt == [gmail |-> 30, calendar |-> 31, github |-> 32]

LEMMA LiveMarks ==
    /\ \A k \in Kinds : /\ LiveStep(ExecutesAt[k]).do = "execute" /\ LiveStep(ExecutesAt[k]).on = k
                        /\ LiveStep(ExecutesAt[k]).want = "executed"
                        /\ LiveStep(CountsAt[k]).do = "counted" /\ LiveStep(CountsAt[k]).on = k
                        /\ LiveStep(CountsAt[k]).want = 1
    /\ LiveStep(36).do = "metrics"
    /\ LiveStep(37).do = "counted" /\ LiveStep(37).on = "write" /\ LiveStep(37).want = 3
<1> DEFINE P == LiveWriteExecutions
<1>1. /\ P[4].do = "execute" /\ P[4].on = "gmail" /\ P[4].want = "executed"
      /\ P[5].do = "execute" /\ P[5].on = "calendar" /\ P[5].want = "executed"
      /\ P[6].do = "execute" /\ P[6].on = "github" /\ P[6].want = "executed"
      /\ P[8].do = "counted" /\ P[8].on = "gmail" /\ P[8].want = 1
      /\ P[9].do = "counted" /\ P[9].on = "calendar" /\ P[9].want = 1
      /\ P[10].do = "counted" /\ P[10].on = "github" /\ P[10].want = 1
  BY DEF LiveWriteExecutions, Step
<1>2. /\ LiveWriteAudit[2].do = "metrics"
      /\ LiveWriteAudit[3].do = "counted" /\ LiveWriteAudit[3].on = "write" /\ LiveWriteAudit[3].want = 3
  BY DEF LiveWriteAudit, Do, Step
<1> HIDE DEF P
<1>3. /\ LiveStep(22 + 4) = P[4] /\ LiveStep(22 + 5) = P[5] /\ LiveStep(22 + 6) = P[6]
      /\ LiveStep(22 + 8) = P[8] /\ LiveStep(22 + 9) = P[9] /\ LiveStep(22 + 10) = P[10]
      /\ LiveStep(34 + 2) = LiveWriteAudit[2] /\ LiveStep(34 + 3) = LiveWriteAudit[3]
  <2>1. /\ 4 \in 1..12 /\ 5 \in 1..12 /\ 6 \in 1..12 /\ 8 \in 1..12 /\ 9 \in 1..12 /\ 10 \in 1..12
        /\ 2 \in 1..6 /\ 3 \in 1..6
    OBVIOUS
  <2> QED BY <2>1, LivePlaces DEF P, Holds, LiveStep
<1>4. /\ LiveStep(26) = P[4] /\ LiveStep(27) = P[5] /\ LiveStep(28) = P[6]
      /\ LiveStep(30) = P[8] /\ LiveStep(31) = P[9] /\ LiveStep(32) = P[10]
      /\ LiveStep(36) = LiveWriteAudit[2] /\ LiveStep(37) = LiveWriteAudit[3]
  BY <1>3
<1> QED BY <1>1, <1>2, <1>4 DEF ExecutesAt, CountsAt, Kinds
-----------------------------------------------------------------------------
(* What the orchestrator and the stub keep in this proof, whatever they do:  *)
(* every write is a post of one kind, posts are never taken back, what was   *)
(* executed stays so, and only a reading of the counters changes what the    *)
(* proof remembers of them.                                                  *)
Ledger(stub) ==
    /\ {"posts", "write"} \subseteq DOMAIN stub
    /\ stub.posts \in [Kinds -> Nat]
    /\ stub.write = stub.posts["gmail"] + stub.posts["calendar"] + stub.posts["github"]
Kept(actions) == Kinds \subseteq DOMAIN actions /\ \A k \in Kinds : "status" \in DOMAIN actions[k]
Sound(p) ==
    /\ {"stub", "seen", "actions"} \subseteq DOMAIN p
    /\ Ledger(p.stub) /\ Kept(p.actions)
    /\ \A k \in Kinds : p.seen[k] <= p.stub.posts[k] /\ p.seen[k] \in Nat

(* From p the platform may go to q; an orchestrator that deceives the proof  *)
(* may also forget that it executed an action.                               *)
Swells(p, q) ==
    /\ Sound(q)
    /\ q.seen = p.seen
    /\ \A k \in Kinds : p.stub.posts[k] <= q.stub.posts[k]
Grows(p, q) ==
    /\ Swells(p, q)
    /\ \A k \in Kinds : p.actions[k].status = "EXECUTED" => q.actions[k].status = "EXECUTED"

LEMMA GrowsItself ==
    ASSUME NEW p, Sound(p)
    PROVE  Grows(p, p)
BY DEF Grows, Swells, Sound, Ledger

LEMMA SwellsOn ==
    ASSUME NEW p, NEW q, NEW r, Sound(p), Swells(p, q), Swells(q, r)
    PROVE  Swells(p, r)
<1>1. \A k \in Kinds : /\ p.stub.posts[k] \in Nat /\ q.stub.posts[k] \in Nat /\ r.stub.posts[k] \in Nat
                       /\ p.stub.posts[k] <= q.stub.posts[k] /\ q.stub.posts[k] <= r.stub.posts[k]
  BY DEF Swells, Sound, Ledger
<1>2. \A k \in Kinds : p.stub.posts[k] <= r.stub.posts[k]
  BY <1>1
<1> QED BY <1>2 DEF Swells

LEMMA GrowsOn ==
    ASSUME NEW p, NEW q, NEW r, Sound(p), Grows(p, q), Grows(q, r)
    PROVE  Grows(p, r)
BY SwellsOn DEF Grows

(* A change that leaves stub, counters and actions as they are.              *)
LEMMA GrowsAside ==
    ASSUME NEW p, NEW q, Sound(p), DOMAIN q = DOMAIN p,
           q.stub = p.stub, q.seen = p.seen, q.actions = p.actions
    PROVE  Grows(p, q)
BY DEF Grows, Swells, Sound, Ledger

(* A change of the stub that leaves its ledger alone.                        *)
LEMMA GrowsStub ==
    ASSUME NEW p, NEW q, Sound(p), DOMAIN q = DOMAIN p, q.seen = p.seen, q.actions = p.actions,
           DOMAIN q.stub = DOMAIN p.stub, q.stub.posts = p.stub.posts, q.stub.write = p.stub.write
    PROVE  Grows(p, q)
BY DEF Grows, Swells, Sound, Ledger

LEMMA WrittenLedger ==
    ASSUME NEW stub, NEW kind \in Kinds, NEW s, Ledger(stub), DOMAIN s = DOMAIN stub,
           s.posts = [stub.posts EXCEPT ![kind] = @ + 1], s.write = stub.write + 1
    PROVE  Ledger(s) /\ \A k \in Kinds : stub.posts[k] <= s.posts[k]
<1>1. s.posts \in [Kinds -> Nat] /\ \A k \in Kinds : stub.posts[k] <= s.posts[k]
  BY DEF Ledger
<1>2. s.write = s.posts["gmail"] + s.posts["calendar"] + s.posts["github"]
  BY DEF Ledger, Kinds
<1> QED BY <1>1, <1>2 DEF Ledger

LEMMA PostLedger ==
    ASSUME NEW stub, NEW kind \in Kinds, NEW token, Ledger(stub)
    PROVE  /\ Ledger(Post(stub, kind, token, TRUE).then)
           /\ \A k \in Kinds : stub.posts[k] <= Post(stub, kind, token, TRUE).then.posts[k]
<1> DEFINE s == Post(stub, kind, token, TRUE).then
<1>1. \/ /\ DOMAIN s = DOMAIN stub
         /\ s.posts = stub.posts /\ s.write = stub.write
      \/ /\ DOMAIN s = DOMAIN stub
         /\ s.posts = [stub.posts EXCEPT ![kind] = @ + 1] /\ s.write = stub.write + 1
  <2>1. s \in {stub, [stub EXCEPT !.unsafe = @ + 1], Written(stub, kind)}
    BY DEF Post, Reply, Forbidden
  <2> HIDE DEF s
  <2> QED BY <2>1 DEF Written, Ledger
<1> HIDE DEF s
<1>2. Ledger(s) /\ \A k \in Kinds : stub.posts[k] <= s.posts[k]
  BY <1>1, WrittenLedger DEF Ledger
<1> QED BY <1>2 DEF s

LEMMA PostedGrows ==
    ASSUME NEW p, NEW key \in Kinds, Sound(p)
    PROVE  Grows(p, Posted(p, key))
<1>1. KindOf(key) = key
  BY DEF KindOf, Kinds
<1> DEFINE q == Posted(p, key)
           r == Post(p.stub, key, p.token[key], TRUE)
<1>2. DOMAIN q = DOMAIN p /\ q.stub = r.then /\ q.seen = p.seen /\ q.actions = p.actions
  BY <1>1 DEF Posted, Sound
<1>3. Ledger(r.then) /\ \A k \in Kinds : p.stub.posts[k] <= r.then.posts[k]
  BY PostLedger DEF Sound
<1> HIDE DEF q, r
<1>4. \A k \in Kinds : p.seen[k] <= r.then.posts[k]
  <2> SUFFICES ASSUME NEW k \in Kinds PROVE p.seen[k] <= r.then.posts[k]
    OBVIOUS
  <2>1. p.seen[k] \in Nat /\ p.stub.posts[k] \in Nat /\ r.then.posts[k] \in Nat
        /\ p.seen[k] <= p.stub.posts[k] /\ p.stub.posts[k] <= r.then.posts[k]
    BY <1>3 DEF Sound, Ledger
  <2> QED BY <2>1
<1>5. Grows(p, q)
  BY <1>2, <1>3, <1>4 DEF Grows, Swells, Sound
<1> QED BY <1>5 DEF q

LEMMA ActionGrows ==
    ASSUME NEW p, NEW key \in Kinds, NEW a, Sound(p), "status" \in DOMAIN a
    PROVE  LET q == [p EXCEPT !.actions[key] = a] IN
           /\ Swells(p, q)
           /\ (p.actions[key].status = "EXECUTED" => a.status = "EXECUTED") => Grows(p, q)
<1> DEFINE q == [p EXCEPT !.actions[key] = a]
<1>1. /\ DOMAIN q = DOMAIN p /\ q.stub = p.stub /\ q.seen = p.seen
      /\ q.actions = [p.actions EXCEPT ![key] = a]
  BY DEF Sound
<1> HIDE DEF q
<1>2. /\ DOMAIN q.actions = DOMAIN p.actions
      /\ \A k \in Kinds : q.actions[k] = IF k = key THEN a ELSE p.actions[k]
  BY <1>1 DEF Sound, Kept
<1>3. Kept(q.actions)
  BY <1>2 DEF Sound, Kept
<1>4. Swells(p, q)
  BY <1>1, <1>3 DEF Swells, Sound, Ledger
<1>5. (p.actions[key].status = "EXECUTED" => a.status = "EXECUTED") => Grows(p, q)
  BY <1>2, <1>4 DEF Grows
<1> QED BY <1>4, <1>5 DEF q

LEMMA StatusGrows ==
    ASSUME NEW p, NEW key \in Kinds, NEW s, Sound(p)
    PROVE  LET q == [p EXCEPT !.actions[key].status = s] IN
           /\ Swells(p, q)
           /\ (p.actions[key].status = "EXECUTED" => s = "EXECUTED") => Grows(p, q)
<1> DEFINE a == [p.actions[key] EXCEPT !.status = s]
<1>1. "status" \in DOMAIN a /\ a.status = s
  BY DEF Sound, Kept
<1>2. [p EXCEPT !.actions[key].status = s] = [p EXCEPT !.actions[key] = a]
  OBVIOUS
<1> HIDE DEF a
<1> QED BY <1>1, <1>2, ActionGrows

LEMMA ReceiptedGrows ==
    ASSUME NEW p, NEW key \in Kinds, Sound(p)
    PROVE  Grows(p, Receipted(p, key)) /\ Receipted(p, key).actions[key].status = "EXECUTED"
<1>1. Receipted(p, key).actions[key].status = "EXECUTED"
  BY DEF Receipted, Sound, Kept
<1> QED BY <1>1, StatusGrows DEF Receipted

LEMMA ExecutedGrows ==
    ASSUME NEW p, NEW key \in Kinds, Sound(p)
    PROVE  /\ Grows(p, Executed(p, key).then)
           /\ Executed(p, key).answer = "executed" => Executed(p, key).then.actions[key].status = "EXECUTED"
           /\ p.actions[key].status = "EXECUTED" => Executed(p, key).then = p
<1> DEFINE q == IF p.actions[key].mode = "LIVE" THEN Posted(p, key) ELSE p
<1>1. Grows(p, q) /\ Sound(q)
  BY PostedGrows, GrowsItself DEF Grows, Swells
<1>2. Grows(q, Receipted(q, key)) /\ Receipted(q, key).actions[key].status = "EXECUTED"
  BY <1>1, ReceiptedGrows
<1>3. Grows(p, Receipted(q, key)) /\ Grows(p, p)
  BY <1>1, <1>2, GrowsOn, GrowsItself
<1> HIDE DEF q
<1>4. \/ Executed(p, key) = [answer |-> "replay", then |-> p]
      \/ Executed(p, key) = [answer |-> "blocked", then |-> p] /\ p.actions[key].status # "EXECUTED"
      \/ Executed(p, key) = [answer |-> "failed", then |-> q] /\ p.actions[key].status # "EXECUTED"
      \/ /\ Executed(p, key) = [answer |-> "executed", then |-> Receipted(q, key)]
         /\ p.actions[key].status # "EXECUTED"
  BY Zenon DEF Executed, q
<1> QED BY <1>1, <1>2, <1>3, <1>4
(* Every request of this proof, and every deception of it, lets the platform *)
(* grow; reading the counters aside.                                         *)
LEMMA CompleteGrows ==
    ASSUME NEW p, NEW k \in Kinds, Sound(p), NEW o \in CompleteWrite(p, k)
    PROVE  Grows(p, o.then)
<1>1. PICK c \in Complete(p, k) : o = [c EXCEPT !.ok = c.ok /\ p.stub.scopes]
  BY DEF CompleteWrite
<1> DEFINE asked == [client |-> "configured", type |-> "authorization_code", complete |-> TRUE]
           g == Grant(p.stub, asked)
           q == [p EXCEPT !.session[k] = "spent"]
<1>2. g.then = p.stub \/ g.then = Issued(p.stub)
  BY DEF Grant, Reply
<1> HIDE DEF g
<1>3. /\ DOMAIN g.then = DOMAIN p.stub
      /\ g.then.posts = p.stub.posts /\ g.then.write = p.stub.write
  BY <1>2 DEF Issued, Sound, Ledger
<1>4. AskGrant(p, k, "authorization_code")
        \in {[q EXCEPT !.stub = g.then, !.token[k] = g.token], [q EXCEPT !.token[k] = 1], p}
  BY DEF AskGrant, g
<1>5. Grows(p, [q EXCEPT !.stub = g.then, !.token[k] = g.token])
  <2> DEFINE r == [q EXCEPT !.stub = g.then, !.token[k] = g.token]
  <2>1. DOMAIN r = DOMAIN p /\ r.stub = g.then /\ r.seen = p.seen /\ r.actions = p.actions
    BY DEF Sound
  <2> HIDE DEF r
  <2>2. Grows(p, r)
    BY <1>3, <2>1, GrowsStub
  <2> QED BY <2>2 DEF r
<1>6. Grows(p, [q EXCEPT !.token[k] = 1])
  <2> DEFINE r == [q EXCEPT !.token[k] = 1]
  <2>1. DOMAIN r = DOMAIN p /\ r.stub = p.stub /\ r.seen = p.seen /\ r.actions = p.actions
    BY DEF Sound
  <2> HIDE DEF r
  <2>2. Grows(p, r)
    BY <2>1, GrowsAside
  <2> QED BY <2>2 DEF r
<1>7. Grows(p, p)
  BY GrowsItself
<1>8. Grows(p, AskGrant(p, k, "authorization_code"))
  BY <1>4, <1>5, <1>6, <1>7
<1>9. c.then = p \/ c.then = AskGrant(p, k, "authorization_code")
  BY DEF Complete, Sees, Outcome
<1>10. o.then = c.then
  <2>1. \E b, r : c = [ok |-> b, then |-> r]
    BY DEF Complete, Sees, Outcome
  <2> QED BY <1>1, <2>1
<1> QED BY <1>7, <1>8, <1>9, <1>10

LEMMA CreateGrows ==
    ASSUME NEW p, NEW k \in Kinds, NEW mode, Sound(p), NEW o \in Create(p, k, mode)
    PROVE  Grows(p, o.then) /\ o = Outcome(o.ok, o.then)
<1> DEFINE a == [mode |-> mode, status |-> "PENDING_APPROVAL"]
<1>1. CASE p.actions[k] = NoAction
  <2>1. o = Outcome(TRUE, [p EXCEPT !.actions[k] = a])
    BY <1>1 DEF Create, Sees
  <2>2. p.actions[k].status # "EXECUTED" /\ "status" \in DOMAIN a
    BY <1>1 DEF NoAction
  <2>3. Grows(p, [p EXCEPT !.actions[k] = a])
    BY <2>2, ActionGrows
  <2> QED BY <2>1, <2>3 DEF Outcome
<1>2. CASE p.actions[k] # NoAction
  <2>1. o = Outcome(p.actions[k].status = "PENDING_APPROVAL", p)
    BY <1>2 DEF Create, Sees
  <2> QED BY <2>1, GrowsItself DEF Outcome
<1> QED BY <1>1, <1>2

LEMMA EffectGrows ==
    ASSUME NEW p, NEW s, Sound(p), Living(s), s.do \notin {"metrics", "publish"}, NEW e \in Effect(p, s)
    PROVE  Grows(p, e.then)
<1> USE DEF Sees, Outcome
<1>1. Grows(p, p)
  BY GrowsItself
<1>2. CASE s.do \in Looks
  <2>1. e.then = p
    BY <1>2 DEF Effect, WaitHealth, Answered, Persisted, Looks, Local
  <2> QED BY <1>1, <2>1
<1>3. CASE s.do \notin Looks /\ "orchestrator" \notin p.up
  <2>1. e.then = p
    BY <1>3 DEF Effect, Living, Looks, OfKind, Local
  <2> QED BY <1>1, <2>1
<1>4. CASE s.do \notin Looks /\ "orchestrator" \in p.up
  <2>1. e \in Answered(p, s)
    BY <1>4 DEF Effect, Living, Looks, OfKind, Local
  <2>2. CASE s.do = "register"
    <3>1. e \in Register(p, s.on, s.want)
      BY <2>1, <2>2 DEF Answered
    <3> DEFINE q == [p EXCEPT !.connections = @ \cup {s.on}]
    <3>2. e.then = p \/ e.then = q
      BY <3>1 DEF Register
    <3>3. DOMAIN q = DOMAIN p /\ q.stub = p.stub /\ q.seen = p.seen /\ q.actions = p.actions
      BY DEF Sound
    <3> HIDE DEF q
    <3> QED BY <1>1, <3>2, <3>3, GrowsAside
  <2>3. CASE s.do = "start"
    <3>1. e \in StartOAuth(p, s.on)
      BY <2>1, <2>3 DEF Answered
    <3> DEFINE q == [p EXCEPT !.session[s.on] = "started"]
    <3>2. e.then = q
      BY <3>1 DEF StartOAuth
    <3>3. DOMAIN q = DOMAIN p /\ q.stub = p.stub /\ q.seen = p.seen /\ q.actions = p.actions
      BY DEF Sound
    <3> HIDE DEF q
    <3> QED BY <3>2, <3>3, GrowsAside
  <2>4. CASE s.do = "completeWrite"
    <3>1. e \in CompleteWrite(p, s.on) /\ s.on \in Kinds
      BY <2>1, <2>4 DEF Answered, Living, OfKind
    <3> QED BY <3>1, CompleteGrows
  <2>5. CASE s.do = "create"
    <3>1. e \in Create(p, s.on, s.want) /\ s.on \in Kinds
      BY <2>1, <2>5 DEF Answered, Living, OfKind
    <3> QED BY <3>1, CreateGrows
  <2>6. CASE s.do = "approve"
    <3>1. e \in Approve(p, s.on) /\ s.on \in Kinds
      BY <2>1, <2>6 DEF Answered, Living, OfKind
    <3>2. \/ e.then = p
          \/ /\ p.actions[s.on].status = "PENDING_APPROVAL"
             /\ e.then = [p EXCEPT !.actions[s.on].status = "APPROVED"]
      BY <3>1 DEF Approve
    <3> QED BY <1>1, <3>1, <3>2, StatusGrows
  <2>7. CASE s.do = "execute"
    <3>1. e \in Execute(p, s.on, s.want) /\ s.on \in Kinds
      BY <2>1, <2>7 DEF Answered, Living, OfKind
    <3>2. e.then = Executed(p, s.on).then
      BY <3>1 DEF Execute
    <3> QED BY <3>1, <3>2, ExecutedGrows
  <2> QED BY <1>4, <2>2, <2>3, <2>4, <2>5, <2>6, <2>7 DEF Living, OfKind
<1> QED BY <1>2, <1>3, <1>4
LEMMA LiesSwell ==
    ASSUME NEW p, NEW s, Sound(p), Living(s), NEW q \in Lies(p, s)
    PROVE  Swells(p, q)
<1>1. s.do \in {"completeWrite", "create", "approve", "execute"} /\ s.on \in Kinds
  BY DEF Lies, Living, Looks, OfKind
<1>2. Swells(p, p)
  BY GrowsItself DEF Grows
<1>3. CASE s.do = "completeWrite"
  <2>1. q = [p EXCEPT !.session[s.on] = "spent"]
    BY <1>3 DEF Lies
  <2>2. DOMAIN q = DOMAIN p /\ q.stub = p.stub /\ q.seen = p.seen /\ q.actions = p.actions
    BY <2>1 DEF Sound
  <2> QED BY <2>2, GrowsAside DEF Grows
<1>4. CASE s.do = "approve"
  BY <1>2, <1>4 DEF Lies
<1>5. CASE s.do = "create"
  <2>1. PICK o \in Create(p, s.on, s.want) :
           q = Posted(o.then, s.on) \/ q = [o.then EXCEPT !.actions[s.on].status = "APPROVED"]
    BY <1>5 DEF Lies
  <2>2. Swells(p, o.then) /\ Sound(o.then)
    BY <1>1, CreateGrows DEF Grows, Swells
  <2> DEFINE r == o.then
  <2> HIDE DEF r
  <2>3. Swells(r, Posted(r, s.on)) /\ Swells(r, [r EXCEPT !.actions[s.on].status = "APPROVED"])
    <3>1. Sound(r)
      BY <2>2 DEF r
    <3> QED BY <1>1, <3>1, PostedGrows, StatusGrows DEF Grows
  <2>4. Swells(r, q) /\ Swells(p, r)
    BY <2>1, <2>2, <2>3 DEF r
  <2> QED BY <2>2, <2>4, SwellsOn DEF r
<1>6. CASE s.do = "execute"
  <2> DEFINE r == Posted(p, s.on)
             t == Posted(r, s.on)
  <2>1. q = Receipted(p, s.on) \/ q = r \/ q = Receipted(t, s.on)
    BY <1>6 DEF Lies
  <2>2. Swells(p, r) /\ Sound(r)
    BY <1>1, PostedGrows DEF Grows, Swells
  <2>3. Swells(r, t) /\ Sound(t)
    BY <1>1, <2>2, PostedGrows DEF Grows, Swells
  <2> HIDE DEF r, t
  <2>4. Swells(t, Receipted(t, s.on)) /\ Swells(p, Receipted(p, s.on))
    BY <1>1, <2>3, ReceiptedGrows DEF Grows
  <2>5. Swells(p, Receipted(t, s.on))
    BY <2>2, <2>3, <2>4, SwellsOn
  <2> QED BY <2>1, <2>2, <2>4, <2>5
<1> QED BY <1>1, <1>3, <1>4, <1>5, <1>6
-----------------------------------------------------------------------------
(* The inductive invariant of the live write proof.  The proof has come past *)
(* an execution only if the action is executed, or the orchestrator lied     *)
(* about it; past a count only if there is a post to count; past its last    *)
(* reading of the counters only with what the stub still counts, because     *)
(* nothing can be carried out late that has not been executed already, or    *)
(* because nothing is late.                                                  *)
Passed(k) ==
    /\ lies = 0 /\ pc > ExecutesAt[k] => platform.actions[k].status = "EXECUTED"
    /\ pc > CountsAt[k] => platform.stub.posts[k] >= 1
Counted ==
    /\ pc > 36 => platform.seen.write = platform.stub.write
    /\ pc > 37 => platform.stub.write = 3
LiveInv ==
    /\ faults \in Nat /\ lies \in Nat
    /\ Writing =>
          /\ Sound(platform)
          /\ \A x \in late : x.key \in Kinds
          /\ faults = 0 => late = {}
          /\ \A k \in Kinds : Passed(k)
          /\ OneKind => Counted
          /\ report = "PASS" => pc > 37
LEMMA InitLiveInv == Init => LiveInv
<1> SUFFICES ASSUME Init PROVE LiveInv
  OBVIOUS
<1>1. faults = 0 /\ lies = 0 /\ late = {} /\ pc = 1 /\ report = "none"
      /\ platform = Fresh(suite, Broker(suite))
  BY DEF Init
<1> DEFINE n == NewStub(suite \in LiveSuites, suite \in LiveSuites)
<1>2. Provider(suite) = n \/ Provider(suite) = [n EXCEPT !.tokens = {1}]
  BY Zenon DEF Provider
<1>3. /\ {"stub", "seen", "actions"} \subseteq DOMAIN platform
      /\ platform.stub = Provider(suite) /\ platform.actions = [k \in Keys |-> NoAction]
      /\ platform.seen = Metrics(NewStub(FALSE, FALSE))
  BY <1>1 DEF Fresh
<1>4. /\ {"posts", "write"} \subseteq DOMAIN n /\ n.posts = [k \in Kinds |-> 0] /\ n.write = 0
  BY DEF NewStub
<1> HIDE DEF n
<1>5. /\ {"posts", "write"} \subseteq DOMAIN platform.stub
      /\ platform.stub.posts = [k \in Kinds |-> 0] /\ platform.stub.write = 0
  BY <1>2, <1>3, <1>4
<1>6. Ledger(platform.stub)
  BY <1>5 DEF Ledger, Kinds
<1>7. Kept(platform.actions)
  BY <1>3 DEF Kept, Keys, NoAction
<1>8. \A k \in Kinds : platform.seen[k] = 0 /\ platform.stub.posts[k] = 0
  BY <1>3, <1>5 DEF Metrics, NewStub, Kinds
<1>9. Sound(platform)
  <2>1. \A k \in Kinds : platform.seen[k] <= platform.stub.posts[k] /\ platform.seen[k] \in Nat
    BY <1>8
  <2> QED BY <1>3, <1>6, <1>7, <2>1, Zenon DEF Sound
<1>10. Counted /\ \A k \in Kinds : Passed(k)
  BY <1>1 DEF Counted, Passed, ExecutesAt, CountsAt, Kinds
<1> QED BY <1>1, <1>9, <1>10 DEF LiveInv

(* Where a step may lead the platform.                                       *)
Onto(t) ==
    /\ Sound(t)
    /\ \A k \in Kinds : platform.stub.posts[k] <= t.stub.posts[k]
    /\ lies' = 0 =>
          \A k \in Kinds : platform.actions[k].status = "EXECUTED" => t.actions[k].status = "EXECUTED"
    /\ OneKind' /\ pc > 36 =>
          t.seen.write = platform.seen.write /\ t.stub.write = platform.stub.write
Spent == faults' \in Nat /\ lies' \in Nat /\ faults <= faults' /\ lies <= lies'

LEMMA SpentOneKind ==
    ASSUME LiveInv, Spent
    PROVE  (lies' = 0 => lies = 0) /\ (faults' = 0 => faults = 0) /\ (OneKind' => OneKind)
BY DEF LiveInv, Spent, OneKind

(* What stays as it was of the proof's progress.                             *)
LEMMA StandsLiveInv ==
    ASSUME LiveInv, pc \in Nat \ {0}, suite' = suite, Spent,
           Writing =>
              /\ Onto(platform') /\ (pc' = pc \/ pc' = 1)
              /\ \A x \in late' : x.key \in Kinds
              /\ faults' = 0 => late' = {}
              /\ report' = "PASS" => pc' > 37
    PROVE  LiveInv'
<1> SUFFICES ASSUME Writing PROVE LiveInv'
  BY DEF LiveInv, Spent, Writing
<1>1. pc' \in Nat /\ pc' <= pc
  OBVIOUS
<1>2. (lies' = 0 => lies = 0) /\ (OneKind' => OneKind)
  BY SpentOneKind
<1>3. ASSUME NEW k \in Kinds PROVE Passed(k)'
  <2>1. ExecutesAt[k] \in Nat /\ CountsAt[k] \in Nat
    BY DEF ExecutesAt, CountsAt, Kinds
  <2>2. lies' = 0 /\ pc' > ExecutesAt[k] => platform'.actions[k].status = "EXECUTED"
    BY <1>1, <1>2, <2>1 DEF LiveInv, Passed, Onto
  <2>3. pc' > CountsAt[k] => platform'.stub.posts[k] >= 1
    <3>1. platform.stub.posts[k] \in Nat /\ platform'.stub.posts[k] \in Nat
          /\ platform.stub.posts[k] <= platform'.stub.posts[k]
      BY DEF LiveInv, Onto, Sound, Ledger
    <3>2. pc' > CountsAt[k] => pc > CountsAt[k]
      BY <1>1, <2>1
    <3>3. pc > CountsAt[k] => platform.stub.posts[k] >= 1
      BY DEF LiveInv, Passed
    <3> QED BY <3>1, <3>2, <3>3
  <2> QED BY <2>2, <2>3 DEF Passed, ExecutesAt, CountsAt
<1>4. OneKind' => Counted'
  <2>1. (pc' > 36 => pc > 36) /\ (pc' > 37 => pc > 37)
    BY <1>1
  <2> QED BY <1>2, <2>1 DEF LiveInv, Counted, Onto
<1> QED BY <1>3, <1>4 DEF LiveInv, Spent, Onto

(* A step of the script that goes on, with what it has seen.                 *)
LEMMA AdvanceLiveInv ==
    ASSUME IInv, LiveInv, Writing, Running, Spent, NEW t, Advance(t), Onto(t), UNCHANGED late,
           lies' = 0 => \A k \in Kinds : pc = ExecutesAt[k] => t.actions[k].status = "EXECUTED",
           \A k \in Kinds : pc = CountsAt[k] => t.stub.posts[k] >= 1,
           OneKind' /\ pc = 36 => t.seen.write = t.stub.write,
           OneKind' /\ pc = 37 => t.stub.write = 3
    PROVE  LiveInv'
<1>1. /\ suite' = suite /\ platform' = t /\ pc' = pc + 1 /\ pc \in Nat
      /\ report' # "PASS"
  BY DEF Advance, envVars, IInv, ConnectorTypeOK, Open, Running
<1>2. (lies' = 0 => lies = 0) /\ (faults' = 0 => faults = 0) /\ (OneKind' => OneKind)
  BY SpentOneKind
<1>3. ASSUME NEW k \in Kinds PROVE Passed(k)'
  <2>1. ExecutesAt[k] \in Nat /\ CountsAt[k] \in Nat
    BY DEF ExecutesAt, CountsAt, Kinds
  <2>2. lies' = 0 /\ pc' > ExecutesAt[k] => platform'.actions[k].status = "EXECUTED"
    <3>1. pc' > ExecutesAt[k] => pc > ExecutesAt[k] \/ pc = ExecutesAt[k]
      BY <1>1, <2>1
    <3> QED BY <1>1, <1>2, <3>1 DEF LiveInv, Passed, Onto
  <2>3. pc' > CountsAt[k] => platform'.stub.posts[k] >= 1
    <3>1. platform.stub.posts[k] \in Nat /\ t.stub.posts[k] \in Nat
          /\ platform.stub.posts[k] <= t.stub.posts[k]
      BY DEF LiveInv, Onto, Sound, Ledger
    <3>2. pc' > CountsAt[k] => pc > CountsAt[k] \/ pc = CountsAt[k]
      BY <1>1, <2>1
    <3>3. pc > CountsAt[k] => platform.stub.posts[k] >= 1
      BY DEF LiveInv, Passed
    <3> QED BY <1>1, <3>1, <3>2, <3>3
  <2> QED BY <2>2, <2>3 DEF Passed, ExecutesAt, CountsAt
<1>4. OneKind' => Counted'
  <2>1. (pc' > 36 => pc > 36 \/ pc = 36) /\ (pc' > 37 => pc > 37 \/ pc = 37)
        /\ (pc > 37 => pc > 36)
    BY <1>1
  <2> QED BY <1>1, <1>2, <2>1 DEF LiveInv, Counted, Onto
<1> QED BY <1>1, <1>2, <1>3, <1>4 DEF LiveInv, Spent, Onto
(* Looking at things leads nowhere, and is not lied about.                   *)
LEMMA LooksStay ==
    ASSUME NEW p, NEW s, s.do \in Looks
    PROVE  /\ \A e \in Effect(p, s) : e.then = p
           /\ Lies(p, s) = {} /\ Partial(p, s) = {} /\ s.do # "execute"
<1>1. \A e \in Effect(p, s) : e.then = p
  BY DEF Effect, WaitHealth, Answered, Persisted, Looks, Local, Sees, Outcome
<1>2. s.do \notin {"event", "sync", "complete", "completeWrite", "refresh", "revoke",
                   "create", "approve", "execute"}
  BY DEF Looks
<1>3. Lies(p, s) = {}
  BY <1>2 DEF Lies
<1> QED BY <1>1, <1>2, <1>3 DEF Partial

(* Reading the counters, comparing with them, and executing.                 *)
LEMMA MetricsEffect ==
    ASSUME NEW p, NEW s, s.do = "metrics"
    PROVE  Effect(p, s) = {Outcome(TRUE, [p EXCEPT !.seen = Metrics(p.stub)])}
<1>1. s.do \notin Local
  BY DEF Local
<1> QED BY <1>1 DEF Effect, Sees

LEMMA CountedEffect ==
    ASSUME NEW p, NEW s, s.do = "counted"
    PROVE  Effect(p, s) = {Outcome(p.seen[s.on] = s.want, p)}
<1>1. Finds(p, s) = (p.seen[s.on] = s.want)
  BY DEF Finds
<1>2. Effect(p, s) = {Outcome(Finds(p, s), p)}
  <2>1. s.do \in Local
    BY DEF Local
  <2> QED BY <2>1 DEF Effect, Sees
<1> QED BY <1>1, <1>2

LEMMA ExecuteEffect ==
    ASSUME NEW p, NEW s, s.do = "execute", NEW e \in Effect(p, s), e.ok
    PROVE  Executed(p, s.on).answer = s.want /\ e.then = Executed(p, s.on).then
<1>1. s.do \notin Local
  BY DEF Local
<1>2. CASE "orchestrator" \in p.up
  <2>1. Effect(p, s) = Answered(p, s)
    BY <1>1, <1>2 DEF Effect
  <2>2. Answered(p, s) = Execute(p, s.on, s.want)
    BY DEF Answered
  <2>3. e = Outcome(Executed(p, s.on).answer = s.want, Executed(p, s.on).then)
    BY <2>1, <2>2 DEF Execute, Sees
  <2> QED BY <2>3 DEF Outcome
<1>3. CASE "orchestrator" \notin p.up
  <2>1. Effect(p, s) = {Outcome(FALSE, p)}
    BY <1>1, <1>3 DEF Effect, Sees
  <2> QED BY <2>1 DEF Outcome
<1> QED BY <1>2, <1>3

(* Where the live write proof stands.                                        *)
LEMMA LiveCurrent ==
    ASSUME IInv, Writing, Running
    PROVE  /\ pc \in 1..42 /\ Current = LiveStep(pc) /\ Living(Current)
           /\ Current.do = "publish" <=> pc = 42
           /\ pc > 36 /\ pc # 42 => Current.do \in Looks
<1>1. pc \in DOMAIN Script("live write") /\ Current = LiveStep(pc)
  BY Zenon DEF Writing, Running, Current, LiveStep
<1>2. pc \in 1..42
  BY <1>1, LivePlaces, Zenon
<1>3. pc > 36 /\ pc # 42 => pc \in 37..41
  BY <1>2
<1> QED BY <1>1, <1>2, <1>3, LiveSteps

(* A step that lets the platform grow leads it onwards, unless it comes      *)
(* after the last reading of the counters.                                   *)
LEMMA GrowsOnto ==
    ASSUME NEW t, Grows(platform, t), pc > 36 /\ OneKind' => t = platform
    PROVE  Onto(t)
BY DEF Grows, Swells, Onto

LEMMA StaysOnto ==
    ASSUME Sound(platform)
    PROVE  Onto(platform)
BY GrowsItself, GrowsOnto

LEMMA EffectOnto ==
    ASSUME IInv, LiveInv, Writing, Running, Current.do # "publish", NEW e \in Effect(platform, Current)
    PROVE  Onto(e.then)
<1>1. Sound(platform) /\ pc \in 1..42 /\ pc # 42 /\ Living(Current) /\ (pc > 36 => Current.do \in Looks)
  BY LiveCurrent DEF LiveInv
<1>2. CASE Current.do = "metrics"
  <2>1. ~(pc > 36)
    BY <1>1, <1>2 DEF Looks
  <2> DEFINE t == [platform EXCEPT !.seen = Metrics(platform.stub)]
  <2>2. e.then = t
    BY <1>2, MetricsEffect DEF Outcome
  <2>3. /\ DOMAIN t = DOMAIN platform /\ t.stub = platform.stub /\ t.actions = platform.actions
        /\ \A k \in Kinds : t.seen[k] = platform.stub.posts[k]
    BY <1>1 DEF Sound, Metrics, Kinds
  <2> HIDE DEF t
  <2>4. \A k \in Kinds : t.seen[k] <= t.stub.posts[k] /\ t.seen[k] \in Nat
    BY <1>1, <2>3 DEF Sound, Ledger
  <2>5. Sound(t) /\ \A k \in Kinds : platform.stub.posts[k] <= t.stub.posts[k]
    BY <1>1, <2>3, <2>4 DEF Sound, Ledger
  <2> QED BY <2>1, <2>2, <2>3, <2>5 DEF Onto
<1>3. CASE Current.do # "metrics"
  <2>1. Grows(platform, e.then)
    BY <1>1, <1>3, EffectGrows
  <2>2. pc > 36 => e.then = platform
    BY <1>1, LooksStay
  <2> QED BY <2>1, <2>2, GrowsOnto
<1> QED BY <1>2, <1>3

(* Raising: the run is over, and has not passed.                             *)
LEMMA RaiseLiveInv ==
    ASSUME IInv, LiveInv, Writing, Running, Spent, NEW t, Raise(t), Onto(t),
           \A x \in late' : x.key \in Kinds, faults' = 0 => late' = {}
    PROVE  LiveInv'
<1>1. suite' = suite /\ pc' = pc /\ platform' = t /\ report' # "PASS" /\ pc \in Nat \ {0}
  BY DEF Raise, envVars, IInv, ConnectorTypeOK, Open, Running
<1> QED BY <1>1, StandsLiveInv

(* What it has seen when it goes on.                                         *)
LEMMA EffectSeen ==
    ASSUME IInv, LiveInv, Writing, Running, NEW e \in Effect(platform, Current), e.ok
    PROVE  /\ \A k \in Kinds : pc = ExecutesAt[k] => e.then.actions[k].status = "EXECUTED"
           /\ \A k \in Kinds : pc = CountsAt[k] => e.then.stub.posts[k] >= 1
           /\ pc = 36 => e.then.seen.write = e.then.stub.write
           /\ OneKind /\ pc = 37 => e.then.stub.write = 3
<1>1. Sound(platform) /\ Current = LiveStep(pc)
  BY LiveCurrent DEF LiveInv
<1>2. ASSUME Current.do = "counted"
      PROVE  e.then = platform /\ platform.seen[Current.on] = Current.want
  <2>1. e = Outcome(platform.seen[Current.on] = Current.want, platform)
    BY <1>2, CountedEffect
  <2> QED BY <2>1 DEF Outcome
<1>3. ASSUME NEW k \in Kinds, pc = ExecutesAt[k]
      PROVE  e.then.actions[k].status = "EXECUTED"
  <2>1. Current.do = "execute" /\ Current.on = k /\ Current.want = "executed"
    BY <1>1, <1>3, LiveMarks
  <2>2. Executed(platform, k).answer = "executed" /\ e.then = Executed(platform, k).then
    BY <2>1, ExecuteEffect
  <2> QED BY <1>1, <2>2, ExecutedGrows
<1>4. ASSUME NEW k \in Kinds, pc = CountsAt[k]
      PROVE  e.then.stub.posts[k] >= 1
  <2>1. Current.do = "counted" /\ Current.on = k /\ Current.want = 1
    BY <1>1, <1>4, LiveMarks
  <2>2. e.then = platform /\ platform.seen[k] = 1 /\ platform.seen[k] <= platform.stub.posts[k]
        /\ platform.stub.posts[k] \in Nat
    BY <1>1, <1>2, <2>1 DEF Sound, Ledger
  <2> QED BY <2>2
<1>5. pc = 36 => e.then.seen.write = e.then.stub.write
  <2> SUFFICES ASSUME pc = 36 PROVE e.then.seen.write = e.then.stub.write
    OBVIOUS
  <2>1. Current.do = "metrics"
    BY <1>1, LiveMarks
  <2>2. e.then = [platform EXCEPT !.seen = Metrics(platform.stub)]
    BY <2>1, MetricsEffect DEF Outcome
  <2> QED BY <1>1, <2>2 DEF Sound, Metrics
<1>6. OneKind /\ pc = 37 => e.then.stub.write = 3
  <2> SUFFICES ASSUME OneKind, pc = 37 PROVE e.then.stub.write = 3
    OBVIOUS
  <2>1. Current.do = "counted" /\ Current.on = "write" /\ Current.want = 3
    BY <1>1, LiveMarks
  <2>2. platform.seen.write = platform.stub.write
    BY DEF LiveInv, Counted
  <2> QED BY <1>2, <2>1, <2>2
<1> QED BY <1>3, <1>4, <1>5, <1>6

LEMMA TakeStepLiveInv ==
    ASSUME IInv, LiveInv, Writing, TakeStep
    PROVE  LiveInv'
<1>1. Running /\ Current.do # "publish" /\ UNCHANGED <<late, faults, lies>>
  BY DEF TakeStep, budget
<1>2. PICK e \in Effect(platform, Current) : Goes(e)
  BY DEF TakeStep
<1>3. Spent /\ (OneKind' => OneKind)
  BY <1>1 DEF Spent, LiveInv, OneKind
<1>4. Onto(e.then)
  BY <1>1, EffectOnto
<1>5. CASE e.ok /\ Advance(e.then)
  <2>1. /\ \A k \in Kinds : pc = ExecutesAt[k] => e.then.actions[k].status = "EXECUTED"
        /\ \A k \in Kinds : pc = CountsAt[k] => e.then.stub.posts[k] >= 1
        /\ pc = 36 => e.then.seen.write = e.then.stub.write
        /\ OneKind /\ pc = 37 => e.then.stub.write = 3
    BY <1>1, <1>5, EffectSeen
  <2> QED BY <1>1, <1>3, <1>4, <1>5, <2>1, AdvanceLiveInv
<1>6. CASE Raise(e.then)
  BY <1>1, <1>3, <1>4, <1>6, RaiseLiveInv DEF LiveInv
<1> QED BY <1>2, <1>5, <1>6 DEF Goes
LEMMA MisledLiveInv ==
    ASSUME IInv, LiveInv, Writing, Misled
    PROVE  LiveInv'
<1>1. Running /\ UNCHANGED <<late, faults>> /\ lies' = lies + 1
  BY DEF Misled
<1>2. PICK t \in Lies(platform, Current) : Goes(Outcome(TRUE, t))
  BY DEF Misled
<1>3. Spent /\ lies' # 0
  BY <1>1 DEF Spent, LiveInv
<1>4. Sound(platform) /\ pc \in 1..42 /\ Current = LiveStep(pc) /\ Living(Current)
      /\ (pc > 36 /\ pc # 42 => Current.do \in Looks) /\ (Current.do = "publish" <=> pc = 42)
  BY <1>1, LiveCurrent DEF LiveInv
<1>5. Current.do \notin Looks \cup {"metrics", "publish"}
  <2>1. Current.do \notin Looks
    BY <1>2, LooksStay
  <2>2. ASSUME Current.do \in {"metrics", "publish"} PROVE FALSE
    <3>1. Lies(platform, Current) = {}
      BY <2>2 DEF Lies
    <3> QED BY <1>2, <3>1
  <2> QED BY <2>1, <2>2
<1>6. ~(pc > 36)
  BY <1>4, <1>5
<1>7. Onto(t)
  <2>1. Swells(platform, t)
    BY <1>2, <1>4, LiesSwell
  <2> QED BY <1>3, <1>6, <2>1 DEF Onto, Swells
<1>8. CASE Advance(t)
  <2>1. \A k \in Kinds : pc # CountsAt[k]
    BY <1>4, <1>5, LiveMarks DEF Looks
  <2>2. pc # 36 /\ pc # 37
    BY <1>4, <1>5, LiveMarks DEF Looks
  <2> QED BY <1>1, <1>3, <1>7, <1>8, <2>1, <2>2, AdvanceLiveInv
<1>9. CASE Raise(t)
  <2>1. \A x \in late' : x.key \in Kinds
    BY <1>1 DEF LiveInv
  <2>2. faults' = 0 => late' = {}
    BY <1>1 DEF LiveInv
  <2> QED BY <1>1, <1>3, <1>7, <1>9, <2>1, <2>2, RaiseLiveInv
<1>10. Outcome(TRUE, t).then = t
  BY DEF Outcome
<1> QED BY <1>2, <1>8, <1>9, <1>10 DEF Goes

LEMMA InterruptedLiveInv ==
    ASSUME IInv, LiveInv, Writing, Interrupted
    PROVE  LiveInv'
<1>1. Running /\ lies' = lies /\ faults' = faults + 1
  BY DEF Interrupted, Fault
<1>2. Spent /\ faults' # 0
  BY <1>1 DEF Spent, LiveInv
<1>3. Sound(platform) /\ pc \in 1..42 /\ Living(Current) /\ (Current.do = "publish" <=> pc = 42)
      /\ (pc > 36 /\ pc # 42 => Current.do \in Looks)
  BY <1>1, LiveCurrent DEF LiveInv
<1>4. \A x \in late' : x.key \in Kinds
  <2>1. CASE late' = late
    BY <2>1 DEF LiveInv
  <2>2. CASE Current.do = "execute" /\ late' = late \cup {[key |-> Current.on, run |-> run]}
    <3>1. Current.on \in Kinds
      BY <1>3, <2>2 DEF Living, OfKind
    <3> QED BY <2>2, <3>1 DEF LiveInv
  <2> QED BY <2>1, <2>2 DEF Interrupted
<1>5. ASSUME NEW t, Raise(t), Onto(t)
      PROVE  LiveInv'
  BY <1>1, <1>2, <1>4, <1>5, RaiseLiveInv
<1>6. Onto(platform)
  BY <1>3, StaysOnto
<1>7. ASSUME Current.do # "publish", NEW t \in Partial(platform, Current) PROVE Onto(t)
  <2>1. Current.do = "execute" /\ t = Posted(platform, Current.on)
    BY <1>7 DEF Partial
  <2>2. Current.on \in Kinds /\ ~(pc > 36)
    BY <1>3, <2>1 DEF Living, OfKind, Looks
  <2>3. Grows(platform, t)
    BY <1>3, <2>1, <2>2, PostedGrows
  <2> QED BY <2>2, <2>3, GrowsOnto
<1>8. ASSUME Current.do # "publish", NEW t \in {e.then : e \in Effect(platform, Current)} PROVE Onto(t)
  BY <1>1, <1>8, EffectOnto
<1> QED BY <1>5, <1>6, <1>7, <1>8 DEF Interrupted

(* An execution that was given up on is carried out: after the last reading  *)
(* of the counters it finds the action executed.                             *)
LEMMA LateExecuteLiveInv ==
    ASSUME IInv, LiveInv, Writing, LateExecute
    PROVE  LiveInv'
<1>1. PICK x \in late : late' = late \ {x} /\ platform' = Executed(platform, x.key).then
  <2>1. suite # "test account"
    BY Zenon DEF Writing
  <2> HIDE DEF Writing
  <2> QED BY <2>1, Zenon DEF LateExecute
<1>2. UNCHANGED <<suite, pc, stage, report, faults, lies>>
  BY DEF LateExecute, envVars, procVars, budget
<1>3. Sound(platform) /\ x.key \in Kinds /\ faults # 0
  BY DEF LiveInv
<1>4. /\ Grows(platform, platform')
      /\ platform.actions[x.key].status = "EXECUTED" => platform' = platform
  BY <1>1, <1>3, ExecutedGrows
<1>5. pc > 36 /\ OneKind' => platform' = platform
  <2> SUFFICES ASSUME pc > 36, OneKind' PROVE platform' = platform
    OBVIOUS
  <2>1. lies = 0
    BY <1>2, <1>3 DEF OneKind
  <2>2. pc > ExecutesAt[x.key]
    <3>1. pc \in Nat
      BY DEF IInv, ConnectorTypeOK
    <3>2. ExecutesAt[x.key] \in {26, 27, 28}
      BY <1>3 DEF ExecutesAt, Kinds
    <3> QED BY <3>1, <3>2
  <2> QED BY <1>3, <1>4, <2>1, <2>2 DEF LiveInv, Passed
<1>6. Onto(platform')
  BY <1>4, <1>5, GrowsOnto
<1>7. Spent /\ pc \in Nat \ {0}
  BY <1>2 DEF Spent, LiveInv, IInv, ConnectorTypeOK
<1>8. (\A y \in late' : y.key \in Kinds) /\ (faults' = 0 => late' = {})
  BY <1>1, <1>2, <1>3 DEF LiveInv
<1>9. report' = "PASS" => pc' > 37
  BY <1>2 DEF LiveInv
<1> QED BY <1>2, <1>6, <1>7, <1>8, <1>9, StandsLiveInv
LEMMA StepLiveInv == IInv /\ LiveInv /\ [Next]_vars => LiveInv'
<1> SUFFICES ASSUME IInv, LiveInv, [Next]_vars PROVE LiveInv'
  OBVIOUS
<1>1. suite' = suite
  BY DEF Next, Proceed, TakeStep, Goes, Raise, Advance, Preflight, Publish, Again, Interrupted, LateExecute,
         Misled, Crash, Finished, vars, envVars
<1>2. CASE ~Writing
  <2>1. Spent
    <3>1. \/ UNCHANGED <<faults, lies>>
          \/ faults' = faults + 1 /\ lies' = lies
          \/ faults' = faults /\ lies' = lies + 1
      <4>1. CASE Proceed \/ Again \/ LateExecute \/ UNCHANGED vars
        BY <4>1 DEF Proceed, TakeStep, Preflight, Publish, Again, LateExecute, vars, budget
      <4>2. CASE Interrupted \/ Misled \/ \E c \in {"orchestrator", "core", "runtime"} : Crash(c)
        BY <4>2 DEF Interrupted, Fault, Misled, Crash
      <4> QED BY <4>1, <4>2 DEF Next, Finished
    <3> QED BY <3>1 DEF Spent, LiveInv
  <2>2. ~Writing'
    BY <1>1, <1>2, Zenon DEF Writing
  <2> QED BY <2>1, <2>2 DEF Spent, LiveInv
<1> SUFFICES ASSUME Writing PROVE LiveInv'
  BY <1>2
<1>3. pc \in Nat \ {0} /\ Sound(platform)
  BY DEF IInv, ConnectorTypeOK, LiveInv
<1>4. Onto(platform)
  BY <1>3, StaysOnto
<1>5. ASSUME UNCHANGED <<platform, late, faults, lies, pc>>, report' = "PASS" => report = "PASS" \/ pc > 37
      PROVE  LiveInv'
  <2>1. Spent
    BY <1>5 DEF Spent, LiveInv
  <2> QED BY <1>1, <1>3, <1>4, <1>5, <2>1, StandsLiveInv DEF LiveInv
<1>6. CASE Preflight \/ UNCHANGED vars
  BY <1>5, <1>6 DEF Preflight, vars, procVars, budget
<1>7. CASE Publish
  <2>1. pc = 42
    BY <1>7, LiveCurrent DEF Publish
  <2> QED BY <1>5, <1>7, <2>1 DEF Publish, budget
<1>8. ASSUME DOMAIN platform' = DOMAIN platform, platform'.stub = platform.stub,
             platform'.seen = platform.seen, platform'.actions = platform.actions
      PROVE  Onto(platform')
  <2>1. Grows(platform, platform')
    BY <1>3, <1>8, GrowsAside
  <2>2. Swells(platform, platform')
    BY <2>1 DEF Grows
  <2> QED BY <1>8, <2>1, <2>2 DEF Onto, Swells, Grows
<1>9. CASE Again
  <2>1. /\ pc' = 1 /\ report' # "PASS" /\ UNCHANGED <<late, faults, lies>>
    BY <1>9 DEF Again, budget
  <2>2. Onto(platform')
    <3>1. suite # "test account"
      BY Zenon DEF Writing
    <3> HIDE DEF Writing
    <3> DEFINE up == IF suite \in {"external", "boundary"} THEN platform.up ELSE {"orchestrator"}
    <3>2. platform' = [platform EXCEPT !.up = up, !.actions = platform.actions, !.answers = {}]
      BY <1>9, <3>1, Zenon DEF Again
    <3> HIDE DEF up
    <3>3. /\ DOMAIN platform' = DOMAIN platform /\ platform'.stub = platform.stub
          /\ platform'.seen = platform.seen /\ platform'.actions = platform.actions
      BY <1>3, <3>2 DEF Sound
    <3> QED BY <3>3, <1>8
  <2>3. Spent
    BY <2>1 DEF Spent, LiveInv
  <2> QED BY <1>1, <1>3, <2>1, <2>2, <2>3, StandsLiveInv DEF LiveInv
<1>10. CASE \E c \in {"orchestrator", "core", "runtime"} : Crash(c)
  <2>1. /\ UNCHANGED <<pc, report, late, lies>> /\ faults' = faults + 1
    BY <1>10 DEF Crash, Fault, procVars
  <2>2. Onto(platform')
    <3>1. /\ DOMAIN platform' = DOMAIN platform /\ platform'.stub = platform.stub
          /\ platform'.seen = platform.seen /\ platform'.actions = platform.actions
      BY <1>3, <1>10 DEF Crash, Sound
    <3> QED BY <3>1, <1>8
  <2>3. Spent /\ faults' # 0
    BY <2>1 DEF Spent, LiveInv
  <2> QED BY <1>1, <1>3, <2>1, <2>2, <2>3, StandsLiveInv DEF LiveInv
<1> QED BY <1>6, <1>7, <1>9, <1>10, TakeStepLiveInv, InterruptedLiveInv, LateExecuteLiveInv, MisledLiveInv
        DEF Next, Proceed, Finished

(* When the write proof passes, each provider has been posted to exactly     *)
(* once, by whatever run and however late, as long as the orchestrator does  *)
(* what it answers, or else nothing fails.                                   *)
THEOREM PassOnceTheorem == Spec => []PassMeansOnce
<1>1. IInv /\ LiveInv => PassMeansOnce
  <2> SUFFICES ASSUME IInv, LiveInv, Writing, report = "PASS", OneKind, NEW k \in Kinds
               PROVE  platform.stub.posts[k] = 1
    BY DEF PassMeansOnce
  <2>1. pc > 37 /\ pc \in Nat
    BY DEF LiveInv, IInv, ConnectorTypeOK
  <2>2. platform.stub.write = 3 /\ Ledger(platform.stub)
    BY <2>1 DEF LiveInv, Counted, Sound
  <2>3. \A c \in Kinds : platform.stub.posts[c] >= 1
    <3>1. \A c \in Kinds : pc > CountsAt[c]
      BY <2>1 DEF CountsAt, Kinds
    <3> QED BY <3>1 DEF LiveInv, Passed
  <2> QED BY <2>2, <2>3 DEF Ledger, Kinds
<1> QED BY <1>1, InitLiveInv, StepLiveInv, InvariantIInv, PTL DEF Spec
-----------------------------------------------------------------------------
(* Counting the receipts.  The proofs compare only the number of all         *)
(* receipts; what it says of each delivery follows when no delivery has more *)
(* than it should, or none has fewer.                                        *)

(* Induction over the naturals, for a set instead of a predicate.            *)
LEMMA SetInduction ==
    ASSUME NEW S \in SUBSET Nat, 0 \in S, \A n \in S : n + 1 \in S
    PROVE  S = Nat
<1> DEFINE R == OpToRel(<, Nat)
<1>1. IsWellFoundedOn(R, Nat)
  BY NatLessThanWellFounded
<1>2. ASSUME Nat \ S # {} PROVE FALSE
  <2>1. \E x \in Nat \ S : \A y \in Nat \ S : ~(<<y, x>> \in R)
    <3> HIDE DEF R
    <3> QED BY <1>1, <1>2, WFMin
  <2>2. PICK x \in Nat \ S : \A y \in Nat \ S : ~(<<y, x>> \in R)
    BY <2>1
  <2>3. x # 0 /\ x - 1 \in Nat /\ x - 1 \notin S
    OBVIOUS
  <2>4. <<x - 1, x>> \in R
    BY <2>3 DEF OpToRel
  <2> QED BY <2>2, <2>3, <2>4
<1> QED BY <1>2

LEMMA FewAreFinite ==
    \A a, b, c, d, e : IsFiniteSet({a, b, c, d, e})
<1> SUFFICES ASSUME NEW a, NEW b, NEW c, NEW d, NEW e PROVE IsFiniteSet({a, b, c, d, e})
  OBVIOUS
<1>1. IsFiniteSet({a})
  BY FS_Singleton
<1>2. IsFiniteSet({a} \cup {b})
  BY <1>1, FS_AddElement
<1>3. IsFiniteSet({a} \cup {b} \cup {c})
  BY <1>2, FS_AddElement
<1>4. IsFiniteSet({a} \cup {b} \cup {c} \cup {d})
  BY <1>3, FS_AddElement
<1>5. IsFiniteSet({a} \cup {b} \cup {c} \cup {d} \cup {e})
  BY <1>4, FS_AddElement
<1>6. {a, b, c, d, e} = {a} \cup {b} \cup {c} \cup {d} \cup {e}
  OBVIOUS
<1> QED BY <1>5, <1>6

LEMMA EventsAreFinite == IsFiniteSet(Events)
<1> DEFINE I == {"github-a", "github-b", "gmail-a", "gmail-b", "calendar-a"}
           J == {"calendar-a", "calendar-b", "calendar-b", "calendar-b", "calendar-b"}
           B == {"generic-bad", "generic-stale", "github-bad", "github-ping", "github-ping"}
<1>1. IsFiniteSet(Deliveries) /\ IsFiniteSet(B) /\ IsFiniteSet(I) /\ IsFiniteSet(J)
  BY FewAreFinite DEF Deliveries
<1>2. Events = (Deliveries \cup B) \cup (I \cup J)
  <2>1. UNION {Items[k] : k \in Kinds} = Items["github"] \cup Items["gmail"] \cup Items["calendar"]
    BY DEF Kinds
  <2>2. UNION {Items[k] : k \in Kinds} = I \cup J
    BY <2>1 DEF Items
  <2> QED BY <2>2 DEF Events, BadDeliveries
<1> HIDE DEF I, J, B
<1>3. IsFiniteSet(Deliveries \cup B) /\ IsFiniteSet(I \cup J)
  BY <1>1, FS_Union
<1> QED BY <1>2, <1>3, FS_Union

(* The function the sum is computed by, on the sets of at most n events, and *)
(* on all of them.                                                           *)
Pick(s) == CHOOSE x \in s : TRUE
UpTo(n) == {s \in SUBSET Events : Cardinality(s) <= n}
Tallies(r, f, D) == f = [s \in D |-> IF s = {} THEN 0 ELSE r[Pick(s)] + f[s \ {Pick(s)}]]

LEMMA PickOne ==
    ASSUME NEW s \in SUBSET Events, s # {}
    PROVE  /\ Pick(s) \in s /\ s \ {Pick(s)} \in SUBSET Events
           /\ IsFiniteSet(s) /\ Cardinality(s) \in Nat
           /\ Cardinality(s \ {Pick(s)}) = Cardinality(s) - 1
           /\ Cardinality(s) > 0
<1>1. Pick(s) \in s
  BY DEF Pick
<1>2. IsFiniteSet(s)
  BY EventsAreFinite, FS_Subset
<1>3. Cardinality(s) \in Nat /\ Cardinality(s) # 0
  BY <1>2, FS_CardinalityType, FS_EmptySet
<1>4. Cardinality(s \ {Pick(s)}) = Cardinality(s) - 1
  BY <1>1, <1>2, FS_RemoveElement
<1>5. Cardinality(s) > 0
  BY <1>3
<1> QED BY <1>1, <1>2, <1>3, <1>4, <1>5

LEMMA TalliesExist ==
    ASSUME NEW r
    PROVE  \E f : Tallies(r, f, SUBSET Events)
<1> DEFINE S == {n \in Nat : \E f : Tallies(r, f, UpTo(n))}
<1>1. 0 \in S
  <2> DEFINE f == [s \in UpTo(0) |-> 0]
  <2>1. ASSUME NEW s \in UpTo(0) PROVE s = {}
    <3>1. s # {} => Cardinality(s) \in Nat /\ Cardinality(s) > 0
      BY PickOne DEF UpTo
    <3> QED BY <3>1 DEF UpTo
  <2>2. Tallies(r, f, UpTo(0))
    BY <2>1 DEF Tallies
  <2> HIDE DEF f
  <2> QED BY <2>2
<1>2. ASSUME NEW n \in S PROVE n + 1 \in S
  <2>1. PICK f : Tallies(r, f, UpTo(n))
    OBVIOUS
  <2> DEFINE g == [s \in UpTo(n + 1) |-> IF s = {} THEN 0 ELSE r[Pick(s)] + f[s \ {Pick(s)}]]
  <2>2. ASSUME NEW s \in UpTo(n + 1), s # {} PROVE s \ {Pick(s)} \in UpTo(n + 1) /\ s \ {Pick(s)} \in UpTo(n)
    BY <2>2, PickOne DEF UpTo
  <2>3. ASSUME NEW s \in UpTo(n) PROVE s \in UpTo(n + 1) /\ g[s] = f[s]
    <3>1. s \in UpTo(n + 1)
      <4>1. Cardinality(s) \in Nat
        BY EventsAreFinite, FS_Subset, FS_CardinalityType DEF UpTo
      <4> QED BY <4>1 DEF UpTo
    <3>2. f[s] = IF s = {} THEN 0 ELSE r[Pick(s)] + f[s \ {Pick(s)}]
      BY <2>1 DEF Tallies
    <3> QED BY <3>1, <3>2
  <2>4. ASSUME NEW s \in UpTo(n + 1)
        PROVE  g[s] = IF s = {} THEN 0 ELSE r[Pick(s)] + g[s \ {Pick(s)}]
    <3>1. s # {} => g[s \ {Pick(s)}] = f[s \ {Pick(s)}]
      BY <2>2, <2>3
    <3> QED BY <3>1
  <2>5. g = [s \in UpTo(n + 1) |-> g[s]]
    OBVIOUS
  <2> HIDE DEF g
  <2>6. Tallies(r, g, UpTo(n + 1))
    BY <2>4, <2>5 DEF Tallies
  <2> QED BY <2>6
<1> HIDE DEF S
<1>3. S = Nat
  <2>1. S \in SUBSET Nat BY DEF S
  <2> QED BY <1>1, <1>2, <2>1, SetInduction
<1>4. Cardinality(Events) \in Nat /\ UpTo(Cardinality(Events)) = SUBSET Events
  BY EventsAreFinite, FS_Subset, FS_CardinalityType DEF UpTo
<1>5. PICK f : Tallies(r, f, UpTo(Cardinality(Events)))
  BY <1>3, <1>4 DEF S
<1> QED BY <1>4, <1>5

LEMMA ReceiptsTallied ==
    ASSUME NEW p
    PROVE  \E f : Tallies(p.receipts, f, SUBSET Events) /\ Receipts(p) = f[Events]
<1> DEFINE r == p.receipts
           f == CHOOSE h : h = [s \in SUBSET Events |->
                  IF s = {} THEN 0 ELSE r[CHOOSE x \in s : TRUE] + h[s \ {CHOOSE x \in s : TRUE}]]
<1>1. Receipts(p) = f[Events]
  BY DEF Receipts, MapThenSumSet, MapThenFoldSet
<1>2. PICK g : Tallies(r, g, SUBSET Events)
  BY TalliesExist
<1>3. Tallies(r, f, SUBSET Events)
  BY <1>2 DEF Tallies, Pick
<1> HIDE DEF f
<1> QED BY <1>1, <1>3

(* A sum v over s that has no more than one for each of G in it and nothing  *)
(* for the others reaches the number of these only with one for each; and a  *)
(* sum that has at least one for each reaches no more only so.               *)
One(x, G) == IF x \in G THEN 1 ELSE 0
Tells(r, G, s, v) ==
    /\ v \in Nat
    /\ (\A x \in s : r[x] <= One(x, G)) =>
          v <= Cardinality(s \cap G) /\ (v = Cardinality(s \cap G) => \A x \in s : r[x] = One(x, G))
    /\ (\A x \in s : One(x, G) <= r[x]) =>
          v >= Cardinality(s \cap G) /\ (v = Cardinality(s \cap G) => \A x \in s : r[x] = One(x, G))

LEMMA TellsOfOneMore ==
    ASSUME NEW r \in [Events -> Nat], NEW G, NEW s \in SUBSET Events, s # {}, NEW v,
           Tells(r, G, s \ {Pick(s)}, v)
    PROVE  Tells(r, G, s, r[Pick(s)] + v)
<1> DEFINE x == Pick(s)
           t == s \ {x}
           m == Cardinality(t \cap G)
           n == Cardinality(s \cap G)
           w == r[x] + v
<1>1. x \in s /\ t \in SUBSET Events /\ v \in Nat /\ r[x] \in Nat
  BY PickOne DEF Tells
<1>2. m \in Nat /\ n = m + One(x, G)
  <2>1. IsFiniteSet(t \cap G) /\ IsFiniteSet(s \cap G)
    <3>1. (t \cap G) \in SUBSET Events /\ (s \cap G) \in SUBSET Events
      BY <1>1
    <3> QED BY <3>1, EventsAreFinite, FS_Subset
  <2>2. CASE x \in G
    <3>1. t \cap G = (s \cap G) \ {x} /\ x \in s \cap G
      BY <1>1, <2>2
    <3>2. m = n - 1
      <4>1. Cardinality((s \cap G) \ {x}) = Cardinality(s \cap G) - 1
        <5> HIDE DEF x
        <5> QED BY <2>1, <3>1, FS_RemoveElement
      <4> QED BY <3>1, <4>1
    <3>3. m \in Nat /\ n \in Nat
      BY <2>1, FS_CardinalityType
    <3> QED BY <2>2, <3>2, <3>3 DEF One
  <2>3. CASE x \notin G
    <3>1. t \cap G = s \cap G
      BY <2>3
    <3>2. m \in Nat
      BY <2>1, FS_CardinalityType
    <3> QED BY <2>3, <3>1, <3>2 DEF One
  <2> QED BY <2>2, <2>3
<1>3. One(x, G) \in Nat /\ \A y : One(y, G) \in Nat
  BY DEF One
<1>4. \A y \in s : y = x \/ y \in t
  OBVIOUS
<1>5. Tells(r, G, t, v)
  OBVIOUS
<1> HIDE DEF x, t, m, n, w
<1>6. w \in Nat
  BY <1>1 DEF w
<1>7. ASSUME \A y \in s : r[y] <= One(y, G)
      PROVE  w <= n /\ (w = n => \A y \in s : r[y] = One(y, G))
  <2>1. v <= m /\ (v = m => \A y \in t : r[y] = One(y, G)) /\ r[x] <= One(x, G)
    BY <1>1, <1>5, <1>7 DEF Tells, m, t
  <2>2. w <= n /\ (w = n => v = m /\ r[x] = One(x, G))
    BY <2>1, <1>1, <1>2, <1>3 DEF w
  <2> QED BY <2>1, <2>2, <1>4
<1>8. ASSUME \A y \in s : One(y, G) <= r[y]
      PROVE  w >= n /\ (w = n => \A y \in s : r[y] = One(y, G))
  <2>1. v >= m /\ (v = m => \A y \in t : r[y] = One(y, G)) /\ One(x, G) <= r[x]
    BY <1>1, <1>5, <1>8 DEF Tells, m, t
  <2>2. w >= n /\ (w = n => v = m /\ r[x] = One(x, G))
    BY <2>1, <1>1, <1>2, <1>3 DEF w
  <2> QED BY <2>1, <2>2, <1>4
<1>9. Tells(r, G, s, w)
  BY <1>6, <1>7, <1>8 DEF Tells, n
<1> QED BY <1>9 DEF w, x

LEMMA SumTells ==
    ASSUME NEW p, p.receipts \in [Events -> Nat], NEW G \in SUBSET Events
    PROVE  Tells(p.receipts, G, Events, Receipts(p))
<1> DEFINE r == p.receipts
<1>1. PICK f : Tallies(r, f, SUBSET Events) /\ Receipts(p) = f[Events]
  BY ReceiptsTallied
<1>2. ASSUME NEW s \in SUBSET Events
      PROVE  f[s] = IF s = {} THEN 0 ELSE r[Pick(s)] + f[s \ {Pick(s)}]
  BY <1>1 DEF Tallies
<1> DEFINE S == {n \in Nat : \A s \in SUBSET Events : Cardinality(s) = n => Tells(r, G, s, f[s])}
<1>3. 0 \in S
  <2> SUFFICES ASSUME NEW s \in SUBSET Events, Cardinality(s) = 0 PROVE Tells(r, G, s, f[s])
    OBVIOUS
  <2>1. s = {}
    BY EventsAreFinite, FS_Subset, FS_EmptySet
  <2>2. f[s] = 0 /\ s \cap G = {}
    BY <1>2, <2>1
  <2>3. Cardinality(s \cap G) = 0
    BY <2>2, FS_EmptySet
  <2> QED BY <2>1, <2>2, <2>3 DEF Tells
<1>4. ASSUME NEW n \in S PROVE n + 1 \in S
  <2> SUFFICES ASSUME NEW s \in SUBSET Events, Cardinality(s) = n + 1 PROVE Tells(r, G, s, f[s])
    OBVIOUS
  <2>1. s # {}
    BY FS_EmptySet
  <2>2. s \ {Pick(s)} \in SUBSET Events /\ Cardinality(s \ {Pick(s)}) = n
    BY <2>1, PickOne
  <2>3. Tells(r, G, s \ {Pick(s)}, f[s \ {Pick(s)}])
    BY <2>2
  <2>4. f[s] = r[Pick(s)] + f[s \ {Pick(s)}]
    BY <1>2, <2>1
  <2> HIDE DEF S
  <2> QED BY <2>1, <2>3, <2>4, TellsOfOneMore
<1> HIDE DEF S
<1>5. S = Nat
  <2>1. S \in SUBSET Nat BY DEF S
  <2> QED BY <1>3, <1>4, <2>1, SetInduction
<1>6. Cardinality(Events) \in S
  BY <1>5, EventsAreFinite, FS_CardinalityType
<1>7. Tells(r, G, Events, f[Events])
  BY <1>6 DEF S
<1> QED BY <1>1, <1>7
-----------------------------------------------------------------------------
(* The checks of which Truth says something, and the steps that record none  *)
(* of them.                                                                  *)
Claims == {"connector.duplicate-no-second-receipt", "adapter.only-verified-deliveries-persisted",
           "sync.receipts-persisted", "oauth.refresh-rotates-runtime-token", "oauth.revoked-health-blocked",
           "oauth.no-outbound-provider-mutation", "sync.no-provider-mutations",
           "live.provider-no-unsafe-mutations", "live.provider-untouched-before-approval",
           "live.execution-replay-idempotent",
           "core.gateway-healthy-without-ai-runtime", "core.identity-healthy-without-ai-runtime",
           "core.user-healthy-without-ai-runtime", "core.audit-healthy-without-ai-runtime"}
Silent(s) == s.id \notin Claims

(* What the proofs that execute nothing ask of the orchestrator, and the     *)
(* steps of theirs that change nothing; the events a proof may bring about,  *)
(* and what a script may consist of that brings about no other.  A script of *)
(* n steps fits when only those at C may make a claim.                       *)
Idle == {"contract", "try", "note", "keys", "source", "image", "revision", "absent", "tasks", "counted",
         "issuedMore", "deduplicated", "fetched", "compare", "health", "enable", "tryEnable", "adapter",
         "inspect", "receipts", "wrongState", "reuse", "providerHealth"}
Acts == {"register", "event", "start", "complete", "refresh", "revoke", "sync", "metrics", "fetchReceipts",
         "composeUp", "dockerRun", "account"}
Wares(s) ==
    CASE s = "integration" -> {"faq", "email", "billing"}
      [] s = "adapter" -> {"generic-1", "github-1"} \cup BadDeliveries
      [] s = "sync" -> UNION {Items[k] : k \in Kinds}
      [] OTHER -> {}
Fit(W, s) ==
    /\ s.do \in Idle \cup Acts \cup {"publish"}
    /\ s.do \in {"start", "complete", "refresh", "revoke"} => s.on \in Kinds
    /\ s.do = "event" => s.on \in W
    /\ s.do = "sync" /\ s.on \in Kinds => Items[s.on] \subseteq W
    /\ s.do = "composeUp" => "runtime" \notin s.want
Fits(W, C, p, n) ==
    /\ Part(p, n)
    /\ \A i \in 1..n : Fit(W, p[i]) /\ (i \notin C => Silent(p[i]))

LEMMA BeginFits == \A W : Fits(W, {}, Begin, 3)
<1> SUFFICES ASSUME NEW W PROVE Fits(W, {}, Begin, 3)
  OBVIOUS
<1>1. Part(Begin, 3)
  <2>1. Begin = [n \in 1..3 |-> Begin[n]]
    BY DEF Begin
  <2> QED BY <2>1, LiteralScript DEF Part
<1>2. /\ Silent(Begin[1]) /\ Silent(Begin[2]) /\ Silent(Begin[3])
  BY DEF Begin, Step, Do, Proves, Notes, Health, Silent, Claims
<1>3. /\ Fit(W, Begin[1]) /\ Fit(W, Begin[2]) /\ Fit(W, Begin[3])
  BY DEF Begin, Step, Do, Proves, Notes, Health, Fit, Idle, Acts, Kinds
<1> QED BY <1>1, <1>2, <1>3 DEF Fits

LEMMA IntegrationDeliveriesFits == Fits(Wares("integration"), {}, IntegrationDeliveries, 10)
<1>1. Part(IntegrationDeliveries, 10)
  <2>1. IntegrationDeliveries = [n \in 1..10 |-> IntegrationDeliveries[n]]
    BY DEF IntegrationDeliveries
  <2> QED BY <2>1, LiteralScript DEF Part
<1>2. /\ Silent(IntegrationDeliveries[1]) /\ Silent(IntegrationDeliveries[2])
      /\ Silent(IntegrationDeliveries[3]) /\ Silent(IntegrationDeliveries[4])
      /\ Silent(IntegrationDeliveries[5]) /\ Silent(IntegrationDeliveries[6])
      /\ Silent(IntegrationDeliveries[7]) /\ Silent(IntegrationDeliveries[8])
      /\ Silent(IntegrationDeliveries[9]) /\ Silent(IntegrationDeliveries[10])
  BY DEF IntegrationDeliveries, Step, Do, Proves, Notes, Health, Silent, Claims
<1>3. /\ Fit(Wares("integration"), IntegrationDeliveries[1])
      /\ Fit(Wares("integration"), IntegrationDeliveries[2])
      /\ Fit(Wares("integration"), IntegrationDeliveries[3])
      /\ Fit(Wares("integration"), IntegrationDeliveries[4])
      /\ Fit(Wares("integration"), IntegrationDeliveries[5])
      /\ Fit(Wares("integration"), IntegrationDeliveries[6])
      /\ Fit(Wares("integration"), IntegrationDeliveries[7])
      /\ Fit(Wares("integration"), IntegrationDeliveries[8])
      /\ Fit(Wares("integration"), IntegrationDeliveries[9])
      /\ Fit(Wares("integration"), IntegrationDeliveries[10])
  BY DEF IntegrationDeliveries, Step, Do, Proves, Notes, Health, Fit, Idle, Acts, Kinds, Wares, BadDeliveries, Items
<1> QED BY <1>1, <1>2, <1>3 DEF Fits

LEMMA IntegrationAuditFits == \A W : Fits(W, {1}, IntegrationAudit, 6)
<1> SUFFICES ASSUME NEW W PROVE Fits(W, {1}, IntegrationAudit, 6)
  OBVIOUS
<1>1. Part(IntegrationAudit, 6)
  <2>1. IntegrationAudit = [n \in 1..6 |-> IntegrationAudit[n]]
    BY DEF IntegrationAudit
  <2> QED BY <2>1, LiteralScript DEF Part
<1>2. /\ Silent(IntegrationAudit[2]) /\ Silent(IntegrationAudit[3])
      /\ Silent(IntegrationAudit[4]) /\ Silent(IntegrationAudit[5])
      /\ Silent(IntegrationAudit[6])
  BY DEF IntegrationAudit, Step, Do, Proves, Notes, Health, Silent, Claims
<1>3. /\ Fit(W, IntegrationAudit[1]) /\ Fit(W, IntegrationAudit[2])
      /\ Fit(W, IntegrationAudit[3]) /\ Fit(W, IntegrationAudit[4])
      /\ Fit(W, IntegrationAudit[5]) /\ Fit(W, IntegrationAudit[6])
  BY DEF IntegrationAudit, Step, Do, Proves, Notes, Health, Fit, Idle, Acts, Kinds
<1> QED BY <1>1, <1>2, <1>3 DEF Fits

LEMMA AdapterSetupFits == \A W : Fits(W, {}, AdapterSetup, 6)
<1> SUFFICES ASSUME NEW W PROVE Fits(W, {}, AdapterSetup, 6)
  OBVIOUS
<1>1. Part(AdapterSetup, 6)
  <2>1. AdapterSetup = [n \in 1..6 |-> AdapterSetup[n]]
    BY DEF AdapterSetup
  <2> QED BY <2>1, LiteralScript DEF Part
<1>2. /\ Silent(AdapterSetup[1]) /\ Silent(AdapterSetup[2]) /\ Silent(AdapterSetup[3])
      /\ Silent(AdapterSetup[4]) /\ Silent(AdapterSetup[5]) /\ Silent(AdapterSetup[6])
  BY DEF AdapterSetup, Step, Do, Proves, Notes, Health, Silent, Claims
<1>3. /\ Fit(W, AdapterSetup[1]) /\ Fit(W, AdapterSetup[2]) /\ Fit(W, AdapterSetup[3])
      /\ Fit(W, AdapterSetup[4]) /\ Fit(W, AdapterSetup[5]) /\ Fit(W, AdapterSetup[6])
  BY DEF AdapterSetup, Step, Do, Proves, Notes, Health, Fit, Idle, Acts, Kinds
<1> QED BY <1>1, <1>2, <1>3 DEF Fits

LEMMA AdapterDeliveriesFits == Fits(Wares("adapter"), {12}, AdapterDeliveries, 15)
<1>1. Part(AdapterDeliveries, 15)
  <2>1. AdapterDeliveries = [n \in 1..15 |-> AdapterDeliveries[n]]
    BY DEF AdapterDeliveries
  <2> QED BY <2>1, LiteralScript DEF Part
<1>2. /\ Silent(AdapterDeliveries[1]) /\ Silent(AdapterDeliveries[2])
      /\ Silent(AdapterDeliveries[3]) /\ Silent(AdapterDeliveries[4])
      /\ Silent(AdapterDeliveries[5]) /\ Silent(AdapterDeliveries[6])
      /\ Silent(AdapterDeliveries[7]) /\ Silent(AdapterDeliveries[8])
      /\ Silent(AdapterDeliveries[9]) /\ Silent(AdapterDeliveries[10])
      /\ Silent(AdapterDeliveries[11]) /\ Silent(AdapterDeliveries[13])
      /\ Silent(AdapterDeliveries[14]) /\ Silent(AdapterDeliveries[15])
  BY DEF AdapterDeliveries, Step, Do, Proves, Notes, Health, Silent, Claims
<1>3. /\ Fit(Wares("adapter"), AdapterDeliveries[1])
      /\ Fit(Wares("adapter"), AdapterDeliveries[2])
      /\ Fit(Wares("adapter"), AdapterDeliveries[3])
      /\ Fit(Wares("adapter"), AdapterDeliveries[4])
      /\ Fit(Wares("adapter"), AdapterDeliveries[5])
      /\ Fit(Wares("adapter"), AdapterDeliveries[6])
      /\ Fit(Wares("adapter"), AdapterDeliveries[7])
      /\ Fit(Wares("adapter"), AdapterDeliveries[8])
      /\ Fit(Wares("adapter"), AdapterDeliveries[9])
      /\ Fit(Wares("adapter"), AdapterDeliveries[10])
      /\ Fit(Wares("adapter"), AdapterDeliveries[11])
      /\ Fit(Wares("adapter"), AdapterDeliveries[12])
      /\ Fit(Wares("adapter"), AdapterDeliveries[13])
      /\ Fit(Wares("adapter"), AdapterDeliveries[14])
      /\ Fit(Wares("adapter"), AdapterDeliveries[15])
  BY DEF AdapterDeliveries, Step, Do, Proves, Notes, Health, Fit, Idle, Acts, Kinds, Wares, BadDeliveries, Items
<1> QED BY <1>1, <1>2, <1>3 DEF Fits

LEMMA ProviderGithubFits == \A W : Fits(W, {13}, ProviderGithub, 13)
<1> SUFFICES ASSUME NEW W PROVE Fits(W, {13}, ProviderGithub, 13)
  OBVIOUS
<1>1. Part(ProviderGithub, 13)
  <2>1. ProviderGithub = [n \in 1..13 |-> ProviderGithub[n]]
    BY DEF ProviderGithub
  <2> QED BY <2>1, LiteralScript DEF Part
<1>2. /\ Silent(ProviderGithub[1]) /\ Silent(ProviderGithub[2]) /\ Silent(ProviderGithub[3])
      /\ Silent(ProviderGithub[4]) /\ Silent(ProviderGithub[5]) /\ Silent(ProviderGithub[6])
      /\ Silent(ProviderGithub[7]) /\ Silent(ProviderGithub[8]) /\ Silent(ProviderGithub[9])
      /\ Silent(ProviderGithub[10]) /\ Silent(ProviderGithub[11])
      /\ Silent(ProviderGithub[12])
  BY DEF ProviderGithub, Step, Do, Proves, Notes, Health, Silent, Claims
<1>3. /\ Fit(W, ProviderGithub[1]) /\ Fit(W, ProviderGithub[2]) /\ Fit(W, ProviderGithub[3])
      /\ Fit(W, ProviderGithub[4]) /\ Fit(W, ProviderGithub[5]) /\ Fit(W, ProviderGithub[6])
      /\ Fit(W, ProviderGithub[7]) /\ Fit(W, ProviderGithub[8]) /\ Fit(W, ProviderGithub[9])
      /\ Fit(W, ProviderGithub[10]) /\ Fit(W, ProviderGithub[11])
      /\ Fit(W, ProviderGithub[12]) /\ Fit(W, ProviderGithub[13])
  BY DEF ProviderGithub, Step, Do, Proves, Notes, Health, Fit, Idle, Acts, Kinds
<1> QED BY <1>1, <1>2, <1>3 DEF Fits

LEMMA ProviderGoogleFits == \A W : Fits(W, {8, 10}, ProviderGoogle, 11)
<1> SUFFICES ASSUME NEW W PROVE Fits(W, {8, 10}, ProviderGoogle, 11)
  OBVIOUS
<1>1. Part(ProviderGoogle, 11)
  <2>1. ProviderGoogle = [n \in 1..11 |-> ProviderGoogle[n]]
    BY DEF ProviderGoogle
  <2> QED BY <2>1, LiteralScript DEF Part
<1>2. /\ Silent(ProviderGoogle[1]) /\ Silent(ProviderGoogle[2]) /\ Silent(ProviderGoogle[3])
      /\ Silent(ProviderGoogle[4]) /\ Silent(ProviderGoogle[5]) /\ Silent(ProviderGoogle[6])
      /\ Silent(ProviderGoogle[7]) /\ Silent(ProviderGoogle[9])
      /\ Silent(ProviderGoogle[11])
  BY DEF ProviderGoogle, Step, Do, Proves, Notes, Health, Silent, Claims
<1>3. /\ Fit(W, ProviderGoogle[1]) /\ Fit(W, ProviderGoogle[2]) /\ Fit(W, ProviderGoogle[3])
      /\ Fit(W, ProviderGoogle[4]) /\ Fit(W, ProviderGoogle[5]) /\ Fit(W, ProviderGoogle[6])
      /\ Fit(W, ProviderGoogle[7]) /\ Fit(W, ProviderGoogle[8]) /\ Fit(W, ProviderGoogle[9])
      /\ Fit(W, ProviderGoogle[10]) /\ Fit(W, ProviderGoogle[11])
  BY DEF ProviderGoogle, Step, Do, Proves, Notes, Health, Fit, Idle, Acts, Kinds
<1> QED BY <1>1, <1>2, <1>3 DEF Fits

LEMMA SyncFirstFits == Fits(Wares("sync"), {10}, SyncFirst, 10)
<1>1. Part(SyncFirst, 10)
  <2>1. SyncFirst = [n \in 1..10 |-> SyncFirst[n]]
    BY DEF SyncFirst
  <2> QED BY <2>1, LiteralScript DEF Part
<1>2. /\ Silent(SyncFirst[1]) /\ Silent(SyncFirst[2]) /\ Silent(SyncFirst[3])
      /\ Silent(SyncFirst[4]) /\ Silent(SyncFirst[5]) /\ Silent(SyncFirst[6])
      /\ Silent(SyncFirst[7]) /\ Silent(SyncFirst[8]) /\ Silent(SyncFirst[9])
  BY DEF SyncFirst, Step, Do, Proves, Notes, Health, Silent, Claims
<1>3. /\ Fit(Wares("sync"), SyncFirst[1]) /\ Fit(Wares("sync"), SyncFirst[2])
      /\ Fit(Wares("sync"), SyncFirst[3]) /\ Fit(Wares("sync"), SyncFirst[4])
      /\ Fit(Wares("sync"), SyncFirst[5]) /\ Fit(Wares("sync"), SyncFirst[6])
      /\ Fit(Wares("sync"), SyncFirst[7]) /\ Fit(Wares("sync"), SyncFirst[8])
      /\ Fit(Wares("sync"), SyncFirst[9]) /\ Fit(Wares("sync"), SyncFirst[10])
  BY DEF SyncFirst, Step, Do, Proves, Notes, Health, Fit, Idle, Acts, Kinds, Wares, BadDeliveries, Items
<1> QED BY <1>1, <1>2, <1>3 DEF Fits

LEMMA SyncSecondFits == Fits(Wares("sync"), {6}, SyncSecond, 10)
<1>1. Part(SyncSecond, 10)
  <2>1. SyncSecond = [n \in 1..10 |-> SyncSecond[n]]
    BY DEF SyncSecond
  <2> QED BY <2>1, LiteralScript DEF Part
<1>2. /\ Silent(SyncSecond[1]) /\ Silent(SyncSecond[2]) /\ Silent(SyncSecond[3])
      /\ Silent(SyncSecond[4]) /\ Silent(SyncSecond[5]) /\ Silent(SyncSecond[7])
      /\ Silent(SyncSecond[8]) /\ Silent(SyncSecond[9]) /\ Silent(SyncSecond[10])
  BY DEF SyncSecond, Step, Do, Proves, Notes, Health, Silent, Claims
<1>3. /\ Fit(Wares("sync"), SyncSecond[1]) /\ Fit(Wares("sync"), SyncSecond[2])
      /\ Fit(Wares("sync"), SyncSecond[3]) /\ Fit(Wares("sync"), SyncSecond[4])
      /\ Fit(Wares("sync"), SyncSecond[5]) /\ Fit(Wares("sync"), SyncSecond[6])
      /\ Fit(Wares("sync"), SyncSecond[7]) /\ Fit(Wares("sync"), SyncSecond[8])
      /\ Fit(Wares("sync"), SyncSecond[9]) /\ Fit(Wares("sync"), SyncSecond[10])
  BY DEF SyncSecond, Step, Do, Proves, Notes, Health, Fit, Idle, Acts, Kinds, Wares, BadDeliveries, Items
<1> QED BY <1>1, <1>2, <1>3 DEF Fits

LEMMA BoundaryCoreFits == \A W : Fits(W, {8, 9, 10, 11}, BoundaryCore, 12)
<1> SUFFICES ASSUME NEW W PROVE Fits(W, {8, 9, 10, 11}, BoundaryCore, 12)
  OBVIOUS
<1>1. Part(BoundaryCore, 12)
  <2>1. BoundaryCore = [n \in 1..12 |-> BoundaryCore[n]]
    BY DEF BoundaryCore
  <2> QED BY <2>1, LiteralScript DEF Part
<1>2. /\ Silent(BoundaryCore[1]) /\ Silent(BoundaryCore[2]) /\ Silent(BoundaryCore[3])
      /\ Silent(BoundaryCore[4]) /\ Silent(BoundaryCore[5]) /\ Silent(BoundaryCore[6])
      /\ Silent(BoundaryCore[7]) /\ Silent(BoundaryCore[12])
  BY DEF BoundaryCore, Step, Do, Proves, Notes, Health, Silent, Claims
<1>3. /\ Fit(W, BoundaryCore[1]) /\ Fit(W, BoundaryCore[2]) /\ Fit(W, BoundaryCore[3])
      /\ Fit(W, BoundaryCore[4]) /\ Fit(W, BoundaryCore[5]) /\ Fit(W, BoundaryCore[6])
      /\ Fit(W, BoundaryCore[7]) /\ Fit(W, BoundaryCore[8]) /\ Fit(W, BoundaryCore[9])
      /\ Fit(W, BoundaryCore[10]) /\ Fit(W, BoundaryCore[11]) /\ Fit(W, BoundaryCore[12])
  BY DEF BoundaryCore, Step, Do, Proves, Notes, Health, Fit, Idle, Acts, Kinds
<1> QED BY <1>1, <1>2, <1>3 DEF Fits

LEMMA BoundaryRuntimeFits == \A W : Fits(W, {}, BoundaryRuntime, 9)
<1> SUFFICES ASSUME NEW W PROVE Fits(W, {}, BoundaryRuntime, 9)
  OBVIOUS
<1>1. Part(BoundaryRuntime, 9)
  <2>1. BoundaryRuntime = [n \in 1..9 |-> BoundaryRuntime[n]]
    BY DEF BoundaryRuntime
  <2> QED BY <2>1, LiteralScript DEF Part
<1>2. /\ Silent(BoundaryRuntime[1]) /\ Silent(BoundaryRuntime[2])
      /\ Silent(BoundaryRuntime[3]) /\ Silent(BoundaryRuntime[4])
      /\ Silent(BoundaryRuntime[5]) /\ Silent(BoundaryRuntime[6])
      /\ Silent(BoundaryRuntime[7]) /\ Silent(BoundaryRuntime[8])
      /\ Silent(BoundaryRuntime[9])
  BY DEF BoundaryRuntime, Step, Do, Proves, Notes, Health, Silent, Claims
<1>3. /\ Fit(W, BoundaryRuntime[1]) /\ Fit(W, BoundaryRuntime[2])
      /\ Fit(W, BoundaryRuntime[3]) /\ Fit(W, BoundaryRuntime[4])
      /\ Fit(W, BoundaryRuntime[5]) /\ Fit(W, BoundaryRuntime[6])
      /\ Fit(W, BoundaryRuntime[7]) /\ Fit(W, BoundaryRuntime[8])
      /\ Fit(W, BoundaryRuntime[9])
  BY DEF BoundaryRuntime, Step, Do, Proves, Notes, Health, Fit, Idle, Acts, Kinds
<1> QED BY <1>1, <1>2, <1>3 DEF Fits

LEMMA CompareBothFits == \A W : Fits(W, {}, CompareBoth, 2)
<1> SUFFICES ASSUME NEW W PROVE Fits(W, {}, CompareBoth, 2)
  OBVIOUS
<1>1. Part(CompareBoth, 2)
  <2>1. CompareBoth = [n \in 1..2 |-> CompareBoth[n]]
    BY DEF CompareBoth
  <2> QED BY <2>1, LiteralScript DEF Part
<1>2. /\ Silent(CompareBoth[1]) /\ Silent(CompareBoth[2])
  BY DEF CompareBoth, Step, Do, Proves, Notes, Health, Silent, Claims
<1>3. /\ Fit(W, CompareBoth[1]) /\ Fit(W, CompareBoth[2])
  BY DEF CompareBoth, Step, Do, Proves, Notes, Health, Fit, Idle, Acts, Kinds
<1> QED BY <1>1, <1>2, <1>3 DEF Fits

LEMMA CompareMissingFits == \A W : Fits(W, {}, CompareMissing, 2)
<1> SUFFICES ASSUME NEW W PROVE Fits(W, {}, CompareMissing, 2)
  OBVIOUS
<1>1. Part(CompareMissing, 2)
  <2>1. CompareMissing = [n \in 1..2 |-> CompareMissing[n]]
    BY DEF CompareMissing
  <2> QED BY <2>1, LiteralScript DEF Part
<1>2. /\ Silent(CompareMissing[1]) /\ Silent(CompareMissing[2])
  BY DEF CompareMissing, Step, Do, Proves, Notes, Health, Silent, Claims
<1>3. /\ Fit(W, CompareMissing[1]) /\ Fit(W, CompareMissing[2])
  BY DEF CompareMissing, Step, Do, Proves, Notes, Health, Fit, Idle, Acts, Kinds
<1> QED BY <1>1, <1>2, <1>3 DEF Fits

LEMMA UncheckedFits == \A W : Fits(W, {}, Unchecked, 1)
<1> SUFFICES ASSUME NEW W PROVE Fits(W, {}, Unchecked, 1)
  OBVIOUS
<1>1. Part(Unchecked, 1)
  <2>1. Unchecked = [n \in 1..1 |-> Unchecked[n]]
    BY DEF Unchecked
  <2> QED BY <2>1, LiteralScript DEF Part
<1>2. /\ Silent(Unchecked[1])
  BY DEF Unchecked, Step, Do, Proves, Notes, Health, Silent, Claims
<1>3. /\ Fit(W, Unchecked[1])
  BY DEF Unchecked, Step, Do, Proves, Notes, Health, Fit, Idle, Acts, Kinds
<1> QED BY <1>1, <1>2, <1>3 DEF Fits

LEMMA ConnectFits == \A provider \in Kinds : \A id : id \notin Claims => \A W : Fits(W, {}, Connect(provider, id), 3)
<1> SUFFICES ASSUME NEW provider \in Kinds, NEW id, id \notin Claims, NEW W
             PROVE  Fits(W, {}, Connect(provider, id), 3)
  OBVIOUS
<1> DEFINE C == Connect(provider, id)
<1>1. Part(C, 3)
  <2>1. C = [n \in 1..3 |-> C[n]]
    BY DEF Connect
  <2> HIDE DEF C
  <2> QED BY <2>1, LiteralScript DEF Part
<1>2. /\ Silent(C[1]) /\ Silent(C[2]) /\ Silent(C[3])
  BY DEF Connect, Step, Do, Proves, Silent, Claims
<1>3. /\ Fit(W, C[1]) /\ Fit(W, C[2]) /\ Fit(W, C[3])
  BY DEF Connect, Step, Do, Proves, Fit, Idle, Acts
<1> HIDE DEF C
<1>4. Fits(W, {}, C, 3)
  BY <1>1, <1>2, <1>3 DEF Fits
<1> QED BY <1>4 DEF C

LEMMA KeysFits == \A W : Fits(W, {}, <<Do("keys", "")>>, 1)
<1> SUFFICES ASSUME NEW W PROVE Fits(W, {}, <<Do("keys", "")>>, 1)
  OBVIOUS
<1> DEFINE C == <<Do("keys", "")>>
<1>1. Part(C, 1)
  <2>1. C = [n \in 1..1 |-> C[n]]
    OBVIOUS
  <2> HIDE DEF C
  <2> QED BY <2>1, LiteralScript DEF Part
<1>2. Silent(C[1]) /\ Fit(W, C[1])
  BY DEF Step, Do, Silent, Claims, Fit, Idle, Acts
<1> HIDE DEF C
<1>3. Fits(W, {}, C, 1)
  BY <1>1, <1>2 DEF Fits
<1> QED BY <1>3 DEF C

(* Parts that fit make a script that fits, with its claims where theirs are. *)
Shifted(C, D, m, E) == C \subseteq E /\ \A i \in D : m + i \in E
LEMMA FitsJoined ==
    ASSUME NEW W, NEW C, NEW D, NEW E, NEW a, NEW b, NEW m \in Nat, NEW k \in Nat, NEW t, t = m + k,
           Fits(W, C, a, m), Fits(W, D, b, k), Shifted(C, D, m, E)
    PROVE  Fits(W, E, a \o b, t) /\ Holds(a \o b, 0, a, m) /\ Holds(a \o b, m, b, k)
<1>1. Part(a \o b, t) /\ Holds(a \o b, 0, a, m) /\ Holds(a \o b, m, b, k)
  BY PartsJoined DEF Fits
<1> DEFINE q == a \o b
<1> HIDE DEF q
<1>2. ASSUME NEW i \in 1..t
      PROVE  Fit(W, q[i]) /\ (i \notin E => Silent(q[i]))
  <2>1. CASE i \in 1..m
    <3>1. q[0 + i] = a[i]
      BY <1>1, <2>1, Zenon DEF q, Holds
    <3>2. 0 + i = i
      BY <2>1
    <3>3. i \notin E => i \notin C
      BY DEF Shifted
    <3> QED BY <2>1, <3>1, <3>2, <3>3 DEF Fits
  <2>2. CASE i \notin 1..m
    <3>1. i - m \in 1..k /\ m + (i - m) = i
      BY <2>2
    <3>2. q[m + (i - m)] = b[i - m]
      BY <1>1, <3>1 DEF q, Holds
    <3>3. i \notin E => i - m \notin D
      BY <3>1 DEF Shifted
    <3> QED BY <3>1, <3>2, <3>3 DEF Fits
  <2> QED BY <2>1, <2>2
<1> QED BY <1>1, <1>2 DEF Fits, q

LEMMA IntegrationFits ==
    LET q == Script("integration") IN
    /\ Fits(Wares("integration"), {14}, q, 21)
    /\ Holds(q, 3, IntegrationDeliveries, 10)
    /\ Holds(q, 13, IntegrationAudit, 6)
<1> DEFINE W == Wares("integration")
           a == Begin \o IntegrationDeliveries
           b == a \o IntegrationAudit
           c == b \o CompareBoth
<1>1. Script("integration") = c
  BY DEF Script, IntegrationScript
<1>2. /\ Fits(W, {}, Begin, 3)
      /\ Fits(W, {}, IntegrationDeliveries, 10)
      /\ Fits(W, {1}, IntegrationAudit, 6)
      /\ Fits(W, {}, CompareBoth, 2)
  BY BeginFits, IntegrationDeliveriesFits, IntegrationAuditFits, CompareBothFits
<1> HIDE DEF W
<1>3. Fits(W, {}, a, 13) /\ Holds(a, 0, Begin, 3) /\ Holds(a, 3, IntegrationDeliveries, 10)
  <2>1. 3 \in Nat /\ 10 \in Nat /\ 13 = 3 + 10
    OBVIOUS
  <2>2. Shifted({}, {}, 3, {})
    BY DEF Shifted
  <2> QED BY <1>2, <2>1, <2>2, FitsJoined, Zenon
<1> HIDE DEF a
<1>4. Fits(W, {14}, b, 19) /\ Holds(b, 0, a, 13) /\ Holds(b, 13, IntegrationAudit, 6)
  <2>1. 13 \in Nat /\ 6 \in Nat /\ 19 = 13 + 6
    OBVIOUS
  <2>2. Shifted({}, {1}, 13, {14})
    BY DEF Shifted
  <2> QED BY <1>2, <1>3, <2>1, <2>2, FitsJoined, Zenon
<1> HIDE DEF b
<1>5. Fits(W, {14}, c, 21) /\ Holds(c, 0, b, 19) /\ Holds(c, 19, CompareBoth, 2)
  <2>1. 19 \in Nat /\ 2 \in Nat /\ 21 = 19 + 2
    OBVIOUS
  <2>2. Shifted({14}, {}, 19, {14})
    BY DEF Shifted
  <2> QED BY <1>2, <1>4, <2>1, <2>2, FitsJoined, Zenon
<1> HIDE DEF c
<1>6. Holds(c, 3, IntegrationDeliveries, 10)
  BY <1>3, <1>4, <1>5 DEF Holds
<1>7. Holds(c, 13, IntegrationAudit, 6)
  BY <1>4, <1>5 DEF Holds
<1> QED BY <1>1, <1>5, <1>6, <1>7 DEF W

LEMMA AdapterFits ==
    LET q == Script("adapter") IN
    /\ Fits(Wares("adapter"), {22}, q, 27)
    /\ Holds(q, 10, AdapterDeliveries, 15)
<1> DEFINE W == Wares("adapter")
           Keys1 == <<Do("keys", "")>>
           a == Keys1 \o Begin
           b == a \o AdapterSetup
           c == b \o AdapterDeliveries
           d == c \o CompareBoth
<1>1. Script("adapter") = d
  BY DEF Script, AdapterScript
<1>2. /\ Fits(W, {}, Keys1, 1)
      /\ Fits(W, {}, Begin, 3)
      /\ Fits(W, {}, AdapterSetup, 6)
      /\ Fits(W, {12}, AdapterDeliveries, 15)
      /\ Fits(W, {}, CompareBoth, 2)
  BY KeysFits, BeginFits, AdapterSetupFits, AdapterDeliveriesFits, CompareBothFits
<1> HIDE DEF W, Keys1
<1>3. Fits(W, {}, a, 4) /\ Holds(a, 0, Keys1, 1) /\ Holds(a, 1, Begin, 3)
  <2>1. 1 \in Nat /\ 3 \in Nat /\ 4 = 1 + 3
    OBVIOUS
  <2>2. Shifted({}, {}, 1, {})
    BY DEF Shifted
  <2> QED BY <1>2, <2>1, <2>2, FitsJoined, Zenon
<1> HIDE DEF a
<1>4. Fits(W, {}, b, 10) /\ Holds(b, 0, a, 4) /\ Holds(b, 4, AdapterSetup, 6)
  <2>1. 4 \in Nat /\ 6 \in Nat /\ 10 = 4 + 6
    OBVIOUS
  <2>2. Shifted({}, {}, 4, {})
    BY DEF Shifted
  <2> QED BY <1>2, <1>3, <2>1, <2>2, FitsJoined, Zenon
<1> HIDE DEF b
<1>5. Fits(W, {22}, c, 25) /\ Holds(c, 0, b, 10) /\ Holds(c, 10, AdapterDeliveries, 15)
  <2>1. 10 \in Nat /\ 15 \in Nat /\ 25 = 10 + 15
    OBVIOUS
  <2>2. Shifted({}, {12}, 10, {22})
    BY DEF Shifted
  <2> QED BY <1>2, <1>4, <2>1, <2>2, FitsJoined, Zenon
<1> HIDE DEF c
<1>6. Fits(W, {22}, d, 27) /\ Holds(d, 0, c, 25) /\ Holds(d, 25, CompareBoth, 2)
  <2>1. 25 \in Nat /\ 2 \in Nat /\ 27 = 25 + 2
    OBVIOUS
  <2>2. Shifted({22}, {}, 25, {22})
    BY DEF Shifted
  <2> QED BY <1>2, <1>5, <2>1, <2>2, FitsJoined, Zenon
<1> HIDE DEF d
<1>7. Holds(d, 10, AdapterDeliveries, 15)
  BY <1>5, <1>6 DEF Holds
<1> QED BY <1>1, <1>6, <1>7 DEF W

LEMMA ProviderFits ==
    LET q == Script("provider") IN
    /\ Fits(Wares("provider"), {16, 24, 26}, q, 29)
    /\ Holds(q, 3, ProviderGithub, 13)
    /\ Holds(q, 16, ProviderGoogle, 11)
<1> DEFINE W == Wares("provider")
           a == Begin \o ProviderGithub
           b == a \o ProviderGoogle
           c == b \o CompareMissing
<1>1. Script("provider") = c
  BY DEF Script, ProviderScript
<1>2. /\ Fits(W, {}, Begin, 3)
      /\ Fits(W, {13}, ProviderGithub, 13)
      /\ Fits(W, {8, 10}, ProviderGoogle, 11)
      /\ Fits(W, {}, CompareMissing, 2)
  BY BeginFits, ProviderGithubFits, ProviderGoogleFits, CompareMissingFits
<1> HIDE DEF W
<1>3. Fits(W, {16}, a, 16) /\ Holds(a, 0, Begin, 3) /\ Holds(a, 3, ProviderGithub, 13)
  <2>1. 3 \in Nat /\ 13 \in Nat /\ 16 = 3 + 13
    OBVIOUS
  <2>2. Shifted({}, {13}, 3, {16})
    BY DEF Shifted
  <2> QED BY <1>2, <2>1, <2>2, FitsJoined, Zenon
<1> HIDE DEF a
<1>4. Fits(W, {16, 24, 26}, b, 27) /\ Holds(b, 0, a, 16) /\ Holds(b, 16, ProviderGoogle, 11)
  <2>1. 16 \in Nat /\ 11 \in Nat /\ 27 = 16 + 11
    OBVIOUS
  <2>2. Shifted({16}, {8, 10}, 16, {16, 24, 26})
    BY DEF Shifted
  <2> QED BY <1>2, <1>3, <2>1, <2>2, FitsJoined, Zenon
<1> HIDE DEF b
<1>5. Fits(W, {16, 24, 26}, c, 29) /\ Holds(c, 0, b, 27) /\ Holds(c, 27, CompareMissing, 2)
  <2>1. 27 \in Nat /\ 2 \in Nat /\ 29 = 27 + 2
    OBVIOUS
  <2>2. Shifted({16, 24, 26}, {}, 27, {16, 24, 26})
    BY DEF Shifted
  <2> QED BY <1>2, <1>4, <2>1, <2>2, FitsJoined, Zenon
<1> HIDE DEF c
<1>6. Holds(c, 3, ProviderGithub, 13)
  BY <1>3, <1>4, <1>5 DEF Holds
<1>7. Holds(c, 16, ProviderGoogle, 11)
  BY <1>4, <1>5 DEF Holds
<1> QED BY <1>1, <1>5, <1>6, <1>7 DEF W

LEMMA SyncFits ==
    LET q == Script("sync") IN
    /\ Fits(Wares("sync"), {22, 28}, q, 34)
    /\ Holds(q, 12, SyncFirst, 10)
    /\ Holds(q, 22, SyncSecond, 10)
<1> DEFINE W == Wares("sync")
           C1 == Connect("github", "sync.github.connection-ready")
           C2 == Connect("gmail", "sync.gmail.connection-ready")
           C3 == Connect("calendar", "sync.calendar.connection-ready")
           a == Begin \o C1
           b == a \o C2
           c == b \o C3
           d == c \o SyncFirst
           e == d \o SyncSecond
           f == e \o CompareMissing
<1>1. Script("sync") = f
  BY DEF Script, SyncScript
<1>0. Fits(W, {}, C1, 3) /\ Fits(W, {}, C2, 3) /\ Fits(W, {}, C3, 3)
  <2>1. /\ "sync.github.connection-ready" \notin Claims /\ "sync.gmail.connection-ready" \notin Claims
        /\ "sync.calendar.connection-ready" \notin Claims
        /\ "github" \in Kinds /\ "gmail" \in Kinds /\ "calendar" \in Kinds
    BY DEF Claims, Kinds
  <2> HIDE DEF W
  <2> QED BY <2>1, ConnectFits
<1>2. /\ Fits(W, {}, Begin, 3)
      /\ Fits(W, {}, C1, 3)
      /\ Fits(W, {}, C2, 3)
      /\ Fits(W, {}, C3, 3)
      /\ Fits(W, {10}, SyncFirst, 10)
      /\ Fits(W, {6}, SyncSecond, 10)
      /\ Fits(W, {}, CompareMissing, 2)
  BY <1>0, BeginFits, SyncFirstFits, SyncSecondFits, CompareMissingFits
<1> HIDE DEF W, C1, C2, C3
<1>3. Fits(W, {}, a, 6) /\ Holds(a, 0, Begin, 3) /\ Holds(a, 3, C1, 3)
  <2>1. 3 \in Nat /\ 3 \in Nat /\ 6 = 3 + 3
    OBVIOUS
  <2>2. Shifted({}, {}, 3, {})
    BY DEF Shifted
  <2> QED BY <1>2, <2>1, <2>2, FitsJoined, Zenon
<1> HIDE DEF a
<1>4. Fits(W, {}, b, 9) /\ Holds(b, 0, a, 6) /\ Holds(b, 6, C2, 3)
  <2>1. 6 \in Nat /\ 3 \in Nat /\ 9 = 6 + 3
    OBVIOUS
  <2>2. Shifted({}, {}, 6, {})
    BY DEF Shifted
  <2> QED BY <1>2, <1>3, <2>1, <2>2, FitsJoined, Zenon
<1> HIDE DEF b
<1>5. Fits(W, {}, c, 12) /\ Holds(c, 0, b, 9) /\ Holds(c, 9, C3, 3)
  <2>1. 9 \in Nat /\ 3 \in Nat /\ 12 = 9 + 3
    OBVIOUS
  <2>2. Shifted({}, {}, 9, {})
    BY DEF Shifted
  <2> QED BY <1>2, <1>4, <2>1, <2>2, FitsJoined, Zenon
<1> HIDE DEF c
<1>6. Fits(W, {22}, d, 22) /\ Holds(d, 0, c, 12) /\ Holds(d, 12, SyncFirst, 10)
  <2>1. 12 \in Nat /\ 10 \in Nat /\ 22 = 12 + 10
    OBVIOUS
  <2>2. Shifted({}, {10}, 12, {22})
    BY DEF Shifted
  <2> QED BY <1>2, <1>5, <2>1, <2>2, FitsJoined, Zenon
<1> HIDE DEF d
<1>7. Fits(W, {22, 28}, e, 32) /\ Holds(e, 0, d, 22) /\ Holds(e, 22, SyncSecond, 10)
  <2>1. 22 \in Nat /\ 10 \in Nat /\ 32 = 22 + 10
    OBVIOUS
  <2>2. Shifted({22}, {6}, 22, {22, 28})
    BY DEF Shifted
  <2> QED BY <1>2, <1>6, <2>1, <2>2, FitsJoined, Zenon
<1> HIDE DEF e
<1>8. Fits(W, {22, 28}, f, 34) /\ Holds(f, 0, e, 32) /\ Holds(f, 32, CompareMissing, 2)
  <2>1. 32 \in Nat /\ 2 \in Nat /\ 34 = 32 + 2
    OBVIOUS
  <2>2. Shifted({22, 28}, {}, 32, {22, 28})
    BY DEF Shifted
  <2> QED BY <1>2, <1>7, <2>1, <2>2, FitsJoined, Zenon
<1> HIDE DEF f
<1>9. Holds(f, 12, SyncFirst, 10)
  BY <1>6, <1>7, <1>8 DEF Holds
<1>10. Holds(f, 22, SyncSecond, 10)
  BY <1>7, <1>8 DEF Holds
<1> QED BY <1>1, <1>8, <1>9, <1>10 DEF W

LEMMA BoundaryFits ==
    LET q == Script("boundary") IN
    /\ Fits(Wares("boundary"), {8, 9, 10, 11}, q, 22)
    /\ Holds(q, 0, BoundaryCore, 12)
    /\ Holds(q, 12, BoundaryRuntime, 9)
<1> DEFINE W == Wares("boundary")
           a == BoundaryCore \o BoundaryRuntime
           b == a \o Unchecked
<1>1. Script("boundary") = b
  BY DEF Script, BoundaryScript
<1>2. /\ Fits(W, {8, 9, 10, 11}, BoundaryCore, 12)
      /\ Fits(W, {}, BoundaryRuntime, 9)
      /\ Fits(W, {}, Unchecked, 1)
  BY BoundaryCoreFits, BoundaryRuntimeFits, UncheckedFits
<1> HIDE DEF W
<1>3. Fits(W, {8, 9, 10, 11}, a, 21) /\ Holds(a, 0, BoundaryCore, 12) /\ Holds(a, 12, BoundaryRuntime, 9)
  <2>1. 12 \in Nat /\ 9 \in Nat /\ 21 = 12 + 9
    OBVIOUS
  <2>2. Shifted({8, 9, 10, 11}, {}, 12, {8, 9, 10, 11})
    BY DEF Shifted
  <2> QED BY <1>2, <2>1, <2>2, FitsJoined, Zenon
<1> HIDE DEF a
<1>4. Fits(W, {8, 9, 10, 11}, b, 22) /\ Holds(b, 0, a, 21) /\ Holds(b, 21, Unchecked, 1)
  <2>1. 21 \in Nat /\ 1 \in Nat /\ 22 = 21 + 1
    OBVIOUS
  <2>2. Shifted({8, 9, 10, 11}, {}, 21, {8, 9, 10, 11})
    BY DEF Shifted
  <2> QED BY <1>2, <1>3, <2>1, <2>2, FitsJoined, Zenon
<1> HIDE DEF b
<1>5. Holds(b, 0, BoundaryCore, 12)
  BY <1>3, <1>4 DEF Holds
<1>6. Holds(b, 12, BoundaryRuntime, 9)
  BY <1>3, <1>4 DEF Holds
<1> QED BY <1>1, <1>4, <1>5, <1>6 DEF W
-----------------------------------------------------------------------------
(* The inductive invariant of the proofs that execute nothing.  Nothing is   *)
(* ever carried out late there.  As long as nothing was lied about, an event *)
(* is stored once if it is good and never if it is not (Neat), and whatever  *)
(* an earlier step brought about is stored (Full); after one lie one of the  *)
(* two is still so.  Place is what a few steps before a claim have seen of   *)
(* the stub, of the sum of the receipts and of the containers.               *)
Mild == suite \in {"integration", "adapter", "provider", "sync", "boundary"}
Goods == Wares(suite) \ BadDeliveries
Brings(s) ==
    CASE s.do = "event" /\ s.on \in Deliveries -> {s.on}
      [] s.do = "sync" /\ s.on \in Kinds -> Items[s.on]
      [] OTHER -> {}
Neat(p) == \A e \in Events : p.receipts[e] <= One(e, Goods)
Full(n, p) == \A m \in 1..(n - 1) : \A e \in Brings(Script(suite)[m]) : p.receipts[e] >= 1
Shape(p) ==
    /\ {"stub", "receipts", "seen", "fetched", "token", "up", "created", "broker"} \subseteq DOMAIN p
    /\ p.receipts \in [Events -> Nat]
    /\ p.broker = {}
    /\ "runtime" \in p.up => p.created
    /\ {"tokens", "unsafe"} \subseteq DOMAIN p.stub /\ IsFiniteSet(p.stub.tokens)
Place(n, p) ==
    /\ suite = "provider" =>
          /\ n = 14 => p.stub.tokens # {}
          /\ n \in {15, 16} => p.seen.issued \in Nat /\ p.seen.issued >= 1
          /\ n = 26 => p.seen.unsafe = p.stub.unsafe
    /\ suite = "sync" =>
          /\ n \in 19..22 => p.fetched = Receipts(p)
          /\ n = 28 => p.seen.unsafe = p.stub.unsafe
    /\ suite = "boundary" /\ n \in 7..11 => ~p.created
Mildly(n, p, l) ==
    /\ Shape(p) /\ Place(n, p)
    /\ l = 0 => Neat(p) /\ Full(n, p)
    /\ l = 1 => Neat(p) \/ Full(n, p)
MildInv == Mild => late = {} /\ Mildly(pc, platform, lies)
-----------------------------------------------------------------------------
(* What the steps of these proofs change, and what they leave alone.         *)
Requests == {"register", "event", "start", "complete", "refresh", "revoke", "sync", "fetchReceipts"}
LEMMA RequestEffect ==
    ASSUME NEW p, NEW s, s.do \in Requests, NEW e \in Effect(p, s)
    PROVE  (e.then = p /\ ~e.ok) \/ e \in Answered(p, s)
<1>1. s.do \notin Local /\ s.do \notin {"health", "metrics", "composeUp", "dockerRun", "account", "tryEnable"}
  BY DEF Requests, Local
<1>2. Effect(p, s) = IF "orchestrator" \in p.up THEN Answered(p, s) ELSE Sees(s.do = "tryEnable", p)
  BY <1>1 DEF Effect
<1>3. CASE "orchestrator" \in p.up
  BY <1>2, <1>3
<1>4. CASE "orchestrator" \notin p.up
  <2>1. e = Outcome(FALSE, p)
    BY <1>1, <1>2, <1>4 DEF Sees
  <2> QED BY <2>1 DEF Outcome
<1> QED BY <1>3, <1>4

LEMMA IdleEffect ==
    ASSUME NEW p, NEW s, s.do \in Idle
    PROVE  (\A e \in Effect(p, s) : e.then = p) /\ Lies(p, s) = {} /\ Partial(p, s) = {}
<1>1. \A e \in Effect(p, s) : e.then = p
  BY DEF Effect, WaitHealth, Answered, ProviderHealth, Idle, Local, Sees, Outcome
<1>2. s.do \notin {"event", "sync", "complete", "completeWrite", "refresh", "revoke",
                   "create", "approve", "execute"}
  BY DEF Idle
<1>3. Lies(p, s) = {}
  BY <1>2 DEF Lies
<1> QED BY <1>1, <1>2, <1>3 DEF Partial

(* Nothing but the connections, the sessions and the like has changed.       *)
Aside(p, q) ==
    /\ DOMAIN q = DOMAIN p
    /\ q.stub = p.stub /\ q.receipts = p.receipts /\ q.seen = p.seen /\ q.fetched = p.fetched
    /\ q.token = p.token /\ q.up = p.up /\ q.created = p.created /\ q.broker = p.broker
LEMMA AsideShape ==
    ASSUME NEW p, NEW q, Shape(p), Aside(p, q)
    PROVE  Shape(q)
BY DEF Aside, Shape

(* A grant adds a token to those the stub knows, and counts nothing.         *)
LEMMA AskGrantKeeps ==
    ASSUME NEW p, NEW k, NEW type, Shape(p)
    PROVE  LET q == AskGrant(p, k, type) IN
           /\ Shape(q)
           /\ q.receipts = p.receipts /\ q.seen = p.seen /\ q.fetched = p.fetched /\ q.created = p.created
           /\ q.stub.unsafe = p.stub.unsafe
<1> DEFINE asked == [client |-> "configured", type |-> type, complete |-> TRUE]
           g == Grant(p.stub, asked)
           q == [p EXCEPT !.session[k] = "spent"]
           r == [q EXCEPT !.stub = g.then, !.token[k] = g.token]
           u == [q EXCEPT !.token[k] = 1]
           v == AskGrant(p, k, type)
<1>1. g.then = p.stub \/ g.then = Issued(p.stub)
  BY DEF Grant, Reply
<1> HIDE DEF g
<1>2. DOMAIN g.then = DOMAIN p.stub /\ g.then.unsafe = p.stub.unsafe /\ IsFiniteSet(g.then.tokens)
  <2>1. CASE g.then = p.stub
    BY <2>1 DEF Shape
  <2>2. CASE g.then = Issued(p.stub)
    <3>1. g.then.tokens = p.stub.tokens \cup {p.stub.counter + 1}
      BY <2>2 DEF Issued, Shape
    <3>2. IsFiniteSet(g.then.tokens)
      BY <3>1, FS_AddElement DEF Shape
    <3> QED BY <2>2, <3>2 DEF Issued, Shape
  <2> QED BY <1>1, <2>1, <2>2
<1>3. v \in {r, u, p}
  BY DEF AskGrant, g
<1>4. /\ DOMAIN r = DOMAIN p /\ r.stub = g.then /\ r.receipts = p.receipts /\ r.seen = p.seen
      /\ r.fetched = p.fetched /\ r.up = p.up /\ r.created = p.created /\ r.broker = p.broker
  BY DEF Shape
<1>5. /\ DOMAIN u = DOMAIN p /\ u.stub = p.stub /\ u.receipts = p.receipts /\ u.seen = p.seen
      /\ u.fetched = p.fetched /\ u.up = p.up /\ u.created = p.created /\ u.broker = p.broker
  BY DEF Shape
<1> HIDE DEF r, u, v, q
<1>6. Shape(r) /\ Shape(u)
  BY <1>2, <1>4, <1>5 DEF Shape
<1>7. /\ Shape(v) /\ v.receipts = p.receipts /\ v.seen = p.seen /\ v.fetched = p.fetched
      /\ v.created = p.created /\ v.stub.unsafe = p.stub.unsafe
  BY <1>2, <1>3, <1>4, <1>5, <1>6
<1> QED BY <1>7 DEF v

(* Of the receipts, a step that is carried out as asked stores once what was *)
(* not there; a lie stores nothing, or what it was asked to and more.        *)
Gains(p, q) == \A e \in Events : p.receipts[e] <= q.receipts[e]
Careful(p, q) ==
    \A e \in Events : \/ q.receipts[e] = p.receipts[e]
                      \/ e \in Goods /\ p.receipts[e] = 0 /\ q.receipts[e] = 1
Delivers(s, q) == \A e \in Brings(s) : q.receipts[e] >= 1
SameButReceipts(p, q) ==
    /\ q.stub = p.stub /\ q.seen = p.seen /\ q.fetched = p.fetched /\ q.created = p.created

LEMMA WaresAreEvents ==
    /\ Wares(suite) \subseteq Events /\ Goods \subseteq Events
    /\ \A k \in Kinds : Items[k] \subseteq Events /\ Items[k] \cap BadDeliveries = {}
<1>1. \A k \in Kinds : Items[k] \subseteq Events /\ Items[k] \cap BadDeliveries = {}
  <2>1. \A k \in Kinds : Items[k] \subseteq Events
    BY DEF Events
  <2>2. \A k \in Kinds : Items[k] \cap BadDeliveries = {}
    BY DEF Items, Kinds, BadDeliveries
  <2> QED BY <2>1, <2>2
<1>2. Wares(suite) \subseteq Events
  BY DEF Wares, Events, Deliveries
<1> QED BY <1>1, <1>2 DEF Goods

LEMMA StoredReceipts ==
    ASSUME NEW p, NEW S, Shape(p)
    PROVE  LET q == Stored(p, S) IN
           /\ Shape(q) /\ SameButReceipts(p, q)
           /\ \A e \in Events : q.receipts[e] = IF e \in S THEN p.receipts[e] + 1 ELSE p.receipts[e]
<1> DEFINE f == [e \in Events |-> IF e \in S THEN p.receipts[e] + 1 ELSE p.receipts[e]]
           q == Stored(p, S)
<1>1. q = [p EXCEPT !.receipts = f]
  BY DEF Stored
<1>2. f \in [Events -> Nat]
  BY DEF Shape
<1>3. \A e \in Events : f[e] = IF e \in S THEN p.receipts[e] + 1 ELSE p.receipts[e]
  OBVIOUS
<1> HIDE DEF f, q
<1>4. /\ DOMAIN q = DOMAIN p /\ q.receipts = f /\ q.stub = p.stub /\ q.seen = p.seen
      /\ q.fetched = p.fetched /\ q.token = p.token /\ q.up = p.up /\ q.created = p.created
      /\ q.broker = p.broker
  BY <1>1 DEF Shape
<1>5. Shape(q) /\ SameButReceipts(p, q)
  BY <1>2, <1>4 DEF Shape, SameButReceipts
<1> QED BY <1>3, <1>4, <1>5 DEF q

LEMMA EventEffect ==
    ASSUME NEW p, NEW s, Shape(p), s.do = "event", s.on \in Wares(suite), NEW e \in Effect(p, s)
    PROVE  /\ Shape(e.then) /\ SameButReceipts(p, e.then)
           /\ Gains(p, e.then) /\ Careful(p, e.then)
           /\ e.ok => Delivers(s, e.then)
<1>1. s.on \in Events /\ p.receipts[s.on] \in Nat
  BY WaresAreEvents DEF Shape
<1>2. Gains(p, p) /\ Careful(p, p) /\ SameButReceipts(p, p)
  BY DEF Gains, Careful, SameButReceipts, Shape
<1>3. Brings(s) \subseteq {s.on} /\ (s.on \in BadDeliveries => Brings(s) = {})
  BY DEF Brings, Deliveries, BadDeliveries
<1>4. (e.then = p /\ ~e.ok) \/ e \in Deliver(p, s.on, s.want)
  <2>1. (e.then = p /\ ~e.ok) \/ e \in Answered(p, s)
    BY RequestEffect DEF Requests
  <2> QED BY <2>1 DEF Answered
<1>5. CASE e.then = p /\ ~e.ok
  BY <1>2, <1>5
<1>6. CASE e \in Deliver(p, s.on, s.want) /\ s.on \in BadDeliveries
  <2>1. e.then = p
    BY <1>6 DEF Deliver, Sees, Outcome
  <2> QED BY <1>2, <1>3, <1>6, <2>1 DEF Delivers
<1>7. CASE e \in Deliver(p, s.on, s.want) /\ s.on \notin BadDeliveries /\ p.receipts[s.on] > 0
  <2>1. e.then = p
    BY <1>7 DEF Deliver, Sees, Outcome
  <2>2. Delivers(s, p)
    BY <1>1, <1>3, <1>7 DEF Delivers
  <2> QED BY <1>2, <2>1, <2>2
<1>8. CASE e \in Deliver(p, s.on, s.want) /\ s.on \notin BadDeliveries /\ ~(p.receipts[s.on] > 0)
  <2>1. e.then = Stored(p, {s.on})
    BY <1>8 DEF Deliver, Sees, Outcome
  <2>2. p.receipts[s.on] = 0 /\ s.on \in Goods
    BY <1>1, <1>8 DEF Goods
  <2> DEFINE q == Stored(p, {s.on})
  <2>3. /\ Shape(q) /\ SameButReceipts(p, q)
        /\ \A x \in Events : q.receipts[x] = IF x \in {s.on} THEN p.receipts[x] + 1 ELSE p.receipts[x]
    BY StoredReceipts
  <2> HIDE DEF q
  <2>4. Gains(p, q) /\ Careful(p, q)
    BY <2>2, <2>3 DEF Gains, Careful, Shape
  <2>5. Delivers(s, q)
    BY <1>1, <1>3, <1>8, <2>2, <2>3 DEF Delivers
  <2> QED BY <2>1, <2>3, <2>4, <2>5 DEF q
<1> QED BY <1>4, <1>5, <1>6, <1>7, <1>8

LEMMA SyncEffect ==
    ASSUME NEW p, NEW s, Shape(p), s.do = "sync", s.on \in Kinds => Items[s.on] \subseteq Wares(suite),
           NEW e \in Effect(p, s)
    PROVE  /\ Shape(e.then) /\ SameButReceipts(p, e.then)
           /\ Gains(p, e.then) /\ Careful(p, e.then)
           /\ e.ok => Delivers(s, e.then)
<1>1. Gains(p, p) /\ Careful(p, p) /\ SameButReceipts(p, p)
  BY DEF Gains, Careful, SameButReceipts, Shape
<1>2. Brings(s) = IF s.on \in Kinds THEN Items[s.on] ELSE {}
  BY DEF Brings
<1>3. (e.then = p /\ ~e.ok) \/ e \in Sync(p, s.on, s.want)
  <2>1. (e.then = p /\ ~e.ok) \/ e \in Answered(p, s)
    BY RequestEffect DEF Requests
  <2> QED BY <2>1 DEF Answered
<1> DEFINE fresh == {x \in Items[s.on] : p.receipts[x] = 0}
           answer == IF fresh = Items[s.on] THEN "new" ELSE IF fresh = {} THEN "duplicate" ELSE "mixed"
           q == Stored(p, fresh)
           t == [q EXCEPT !.answers = IF s.want = "again" THEN @ \cup {answer} ELSE @]
<1>4. CASE e.then = p /\ (e.ok => s.on \notin Kinds)
  <2>1. e.ok => Delivers(s, p)
    BY <1>2, <1>4 DEF Delivers
  <2> QED BY <1>1, <1>4, <2>1
<1>5. CASE s.on \in Kinds /\ e.then = t
  <2>1. /\ Shape(q) /\ SameButReceipts(p, q)
        /\ \A x \in Events : q.receipts[x] = IF x \in fresh THEN p.receipts[x] + 1 ELSE p.receipts[x]
    BY StoredReceipts
  <2>2. fresh \subseteq Goods /\ \A x \in fresh : p.receipts[x] = 0
    BY <1>5, WaresAreEvents DEF Goods
  <2>3. \A x \in Items[s.on] : x \in Events /\ (x \notin fresh => p.receipts[x] # 0)
    BY <1>5, WaresAreEvents
  <2> HIDE DEF q, fresh, answer
  <2>4. Aside(q, t)
    BY <2>1 DEF Aside, Shape
  <2>5. Shape(t) /\ SameButReceipts(p, t) /\ t.receipts = q.receipts
    <3>1. Shape(t)
      BY <2>1, <2>4, AsideShape
    <3> QED BY <2>1, <2>4, <3>1 DEF Aside, SameButReceipts
  <2> HIDE DEF t
  <2>6. Gains(p, t) /\ Careful(p, t)
    BY <2>1, <2>2, <2>5 DEF Gains, Careful, Shape
  <2>7. Delivers(s, t)
    <3>1. ASSUME NEW x \in Items[s.on] PROVE t.receipts[x] >= 1
      <4>1. x \in Events /\ p.receipts[x] \in Nat
        BY <2>3 DEF Shape
      <4>2. t.receipts[x] = IF x \in fresh THEN p.receipts[x] + 1 ELSE p.receipts[x]
        BY <2>1, <2>5, <4>1
      <4> QED BY <2>3, <4>1, <4>2
    <3> QED BY <1>2, <1>5, <3>1 DEF Delivers
  <2> QED BY <1>5, <2>5, <2>6, <2>7
<1>6. \/ ~(e \in Sync(p, s.on, s.want))
      \/ e.then = p /\ (e.ok => s.on \notin Kinds)
      \/ s.on \in Kinds /\ e.then = t
  <2> SUFFICES ASSUME e \in Sync(p, s.on, s.want)
               PROVE  \/ e.then = p /\ (e.ok => s.on \notin Kinds)
                      \/ s.on \in Kinds /\ e.then = t
    OBVIOUS
  <2>1. CASE s.on \notin Kinds
    <3>1. e = Outcome(s.want = "unsupported", p)
      BY <2>1 DEF Sync, Sees
    <3> QED BY <2>1, <3>1 DEF Outcome
  <2>2. CASE s.on \in Kinds /\ Get(p.stub, Source[s.on], p.token[s.on]).status # 200
    <3>1. e = Outcome(FALSE, p)
      BY <2>2 DEF Sync, Sees
    <3> QED BY <3>1 DEF Outcome
  <2>3. CASE s.on \in Kinds /\ Get(p.stub, Source[s.on], p.token[s.on]).status = 200
    <3>1. e = Outcome(s.want \in {answer, "again"}, t)
      BY <2>3 DEF Sync, Sees
    <3> QED BY <2>3, <3>1 DEF Outcome
  <2> QED BY <2>1, <2>2, <2>3
<1> QED BY <1>3, <1>4, <1>5, <1>6

(* What any step of these proofs does.                                       *)
Steps(s, p, q) ==
    /\ Shape(q) /\ Gains(p, q) /\ Careful(p, q)
    /\ q.stub.unsafe = p.stub.unsafe
    /\ s.do \in Idle => q = p
    /\ s.do \notin {"event", "sync"} => q.receipts = p.receipts
    /\ s.do \notin {"complete", "refresh"} => q.stub = p.stub
    /\ IF s.do = "metrics" THEN q.seen = Metrics(p.stub) ELSE q.seen = p.seen
    /\ s.do # "fetchReceipts" => q.fetched = p.fetched
    /\ s.do # "dockerRun" => q.created = p.created

LEMMA SameReceipts ==
    ASSUME NEW p, NEW q, Shape(p), q.receipts = p.receipts
    PROVE  Gains(p, q) /\ Careful(p, q)
BY DEF Gains, Careful, Shape

LEMMA AsideSteps ==
    ASSUME NEW p, NEW q, NEW s, Shape(p), Aside(p, q), s.do \notin Idle, s.do # "metrics"
    PROVE  Steps(s, p, q)
<1>1. Shape(q) /\ Gains(p, q) /\ Careful(p, q)
  BY AsideShape, SameReceipts DEF Aside
<1> QED BY <1>1 DEF Steps, Aside

LEMMA ItselfSteps ==
    ASSUME NEW p, NEW s, Shape(p), s.do # "metrics"
    PROVE  Steps(s, p, p)
<1>1. Gains(p, p) /\ Careful(p, p)
  BY SameReceipts
<1> QED BY <1>1 DEF Steps

LEMMA OAuthSteps ==
    ASSUME NEW p, NEW s, Shape(p), s.do \in {"complete", "refresh"}, NEW e,
           e \in Complete(p, s.on) \cup RefreshToken(p, s.on)
    PROVE  Steps(s, p, e.then)
<1>1. s.do \notin Idle \cup {"metrics", "event", "sync", "fetchReceipts", "dockerRun"}
  BY DEF Idle
<1>2. ASSUME NEW type
      PROVE  Steps(s, p, AskGrant(p, s.on, type))
  <2> DEFINE q == AskGrant(p, s.on, type)
  <2>1. /\ Shape(q) /\ q.receipts = p.receipts /\ q.seen = p.seen /\ q.fetched = p.fetched
        /\ q.created = p.created /\ q.stub.unsafe = p.stub.unsafe
    BY AskGrantKeeps
  <2> HIDE DEF q
  <2>2. Gains(p, q) /\ Careful(p, q)
    BY <2>1, SameReceipts
  <2>3. Steps(s, p, q)
    BY <1>1, <2>1, <2>2 DEF Steps
  <2> QED BY <2>3 DEF q
<1>3. Steps(s, p, p)
  BY <1>1, ItselfSteps
<1>4. e.then = p \/ \E type : e.then = AskGrant(p, s.on, type)
  <2>1. CASE e \in Complete(p, s.on) /\ p.session[s.on] # "started"
    BY <2>1 DEF Complete, Sees, Outcome
  <2>2. CASE e \in Complete(p, s.on) /\ p.session[s.on] = "started"
    <3>1. e.then = AskGrant(p, s.on, "authorization_code")
      BY <2>2 DEF Complete, Sees, Outcome
    <3> QED BY <3>1
  <2>3. CASE e \in RefreshToken(p, s.on)
    <3>1. e.then = AskGrant(p, s.on, "refresh_token")
      BY <2>3 DEF RefreshToken, Sees, Outcome
    <3> QED BY <3>1
  <2> QED BY <2>1, <2>2, <2>3
<1> QED BY <1>2, <1>3, <1>4

LEMMA MildEffect ==
    ASSUME NEW p, NEW s, Shape(p), Fit(Wares(suite), s), s.do # "publish", NEW e \in Effect(p, s)
    PROVE  Steps(s, p, e.then) /\ (e.ok => Delivers(s, e.then))
<1>1. s.do \notin {"event", "sync"} => Delivers(s, e.then)
  BY DEF Delivers, Brings
<1>2. CASE s.do \in Idle
  <2>1. e.then = p /\ s.do \notin {"metrics", "event", "sync"}
    BY <1>2, IdleEffect DEF Idle
  <2> QED BY <1>1, <2>1, ItselfSteps
<1>3. CASE s.do \in {"event", "sync"}
  <2>1. /\ Shape(e.then) /\ SameButReceipts(p, e.then)
        /\ Gains(p, e.then) /\ Careful(p, e.then)
        /\ e.ok => Delivers(s, e.then)
    BY <1>3, EventEffect, SyncEffect DEF Fit
  <2>2. s.do \notin Idle \cup {"metrics", "fetchReceipts", "dockerRun"}
    BY <1>3 DEF Idle
  <2> QED BY <1>3, <2>1, <2>2 DEF Steps, SameButReceipts
<1>4. CASE s.do \in {"complete", "refresh"}
  <2>1. (e.then = p /\ ~e.ok) \/ e \in Answered(p, s)
    BY <1>4, RequestEffect DEF Requests
  <2>2. e.then = p \/ e \in Complete(p, s.on) \cup RefreshToken(p, s.on)
    BY <1>4, <2>1 DEF Answered
  <2> QED BY <1>1, <1>4, <2>2, ItselfSteps, OAuthSteps
<1>5. CASE s.do \in {"register", "start", "account"}
  <2> DEFINE q == [p EXCEPT !.connections = @ \cup {s.on}]
             r == [p EXCEPT !.session[s.on] = "started"]
             u == [p EXCEPT !.account = TRUE]
  <2>1. e.then \in {p, q, r, u}
    <3>1. CASE s.do = "register"
      <4>1. (e.then = p /\ ~e.ok) \/ e \in Register(p, s.on, s.want)
        <5>1. (e.then = p /\ ~e.ok) \/ e \in Answered(p, s)
          BY <3>1, RequestEffect DEF Requests
        <5> QED BY <3>1, <5>1 DEF Answered
      <4> QED BY <4>1 DEF Register, Sees, Outcome
    <3>2. CASE s.do = "start"
      <4>1. (e.then = p /\ ~e.ok) \/ e \in StartOAuth(p, s.on)
        <5>1. (e.then = p /\ ~e.ok) \/ e \in Answered(p, s)
          BY <3>2, RequestEffect DEF Requests
        <5> QED BY <3>2, <5>1 DEF Answered
      <4> QED BY <4>1 DEF StartOAuth, Sees, Outcome
    <3>3. CASE s.do = "account"
      BY <3>3 DEF Effect, RegisterAccount, Sees, Outcome
    <3> QED BY <1>5, <3>1, <3>2, <3>3
  <2>2. Aside(p, p) /\ Aside(p, q) /\ Aside(p, r) /\ Aside(p, u)
    BY DEF Aside, Shape
  <2> HIDE DEF q, r, u
  <2>3. s.do \notin Idle \cup {"metrics", "event", "sync"}
    BY <1>5 DEF Idle
  <2> QED BY <1>1, <2>1, <2>2, <2>3, AsideSteps
<1>6. CASE s.do = "revoke"
  <2> DEFINE q == [p EXCEPT !.token[s.on] = 0]
  <2>1. e.then = p \/ e.then = q
    <3>1. (e.then = p /\ ~e.ok) \/ e \in Answered(p, s)
      BY <1>6, RequestEffect DEF Requests
    <3>2. e.then = p \/ e \in Revoke(p, s.on)
      BY <1>6, <3>1 DEF Answered
    <3> QED BY <3>2 DEF Revoke, Sees, Outcome
  <2>2. /\ DOMAIN q = DOMAIN p /\ q.stub = p.stub /\ q.receipts = p.receipts /\ q.seen = p.seen
        /\ q.fetched = p.fetched /\ q.up = p.up /\ q.created = p.created /\ q.broker = p.broker
    BY DEF Shape
  <2> HIDE DEF q
  <2>3. s.do \notin Idle \cup {"metrics", "event", "sync"}
    BY <1>6 DEF Idle
  <2>4. Steps(s, p, q)
    <3>1. Shape(q) /\ Gains(p, q) /\ Careful(p, q)
      BY <2>2, SameReceipts DEF Shape
    <3> QED BY <2>2, <2>3, <3>1 DEF Steps
  <2> QED BY <1>1, <2>1, <2>3, <2>4, ItselfSteps
<1>7. CASE s.do = "metrics"
  <2> DEFINE q == [p EXCEPT !.seen = Metrics(p.stub)]
  <2>1. e.then = q
    BY <1>7, MetricsEffect DEF Outcome
  <2>2. /\ DOMAIN q = DOMAIN p /\ q.stub = p.stub /\ q.receipts = p.receipts /\ q.seen = Metrics(p.stub)
        /\ q.fetched = p.fetched /\ q.up = p.up /\ q.created = p.created /\ q.broker = p.broker
    BY DEF Shape
  <2> HIDE DEF q
  <2>3. s.do \notin Idle \cup {"event", "sync"}
    BY <1>7 DEF Idle
  <2>4. Shape(q) /\ Gains(p, q) /\ Careful(p, q)
    BY <2>2, SameReceipts DEF Shape
  <2>5. Steps(s, p, q)
    BY <1>7, <2>2, <2>3, <2>4 DEF Steps
  <2> QED BY <1>1, <2>1, <2>3, <2>5
<1>8. CASE s.do = "fetchReceipts"
  <2> DEFINE q == [p EXCEPT !.fetched = Receipts(p)]
  <2>1. e.then = p \/ e.then = q
    <3>1. (e.then = p /\ ~e.ok) \/ e \in Answered(p, s)
      BY <1>8, RequestEffect DEF Requests
    <3> QED BY <1>8, <3>1 DEF Answered, Sees, Outcome
  <2>2. /\ DOMAIN q = DOMAIN p /\ q.stub = p.stub /\ q.receipts = p.receipts /\ q.seen = p.seen
        /\ q.up = p.up /\ q.created = p.created /\ q.broker = p.broker
    BY DEF Shape
  <2> HIDE DEF q
  <2>3. s.do \notin Idle \cup {"metrics", "event", "sync"}
    BY <1>8 DEF Idle
  <2>4. Shape(q) /\ Gains(p, q) /\ Careful(p, q)
    BY <2>2, SameReceipts DEF Shape
  <2>5. Steps(s, p, q)
    BY <1>8, <2>2, <2>3, <2>4 DEF Steps
  <2> QED BY <1>1, <2>1, <2>3, <2>5, ItselfSteps
<1>9. CASE s.do \in {"composeUp", "dockerRun"}
  <2> DEFINE q == [p EXCEPT !.up = @ \cup s.want]
             c == [p EXCEPT !.created = TRUE]
             r == [c EXCEPT !.up = @ \cup {"runtime"}]
  <2>1. \/ e.then = p
        \/ s.do = "composeUp" /\ e.then = q
        \/ s.do = "dockerRun" /\ e.then = r
    <3>1. CASE s.do = "composeUp"
      <4>1. e \in Boot(p, s.want)
        <5>1. s.do \notin Local
          BY <3>1 DEF Local
        <5>2. Effect(p, s) = Boot(p, s.want)
          BY <3>1, <5>1 DEF Effect
        <5> QED BY <5>2
      <4>2. e = Outcome(TRUE, q)
        BY <4>1 DEF Boot, Sees
      <4> QED BY <3>1, <4>2 DEF Outcome
    <3>2. CASE s.do = "dockerRun"
      <4>1. e \in DockerRun(p)
        <5>1. s.do \notin Local
          BY <3>2 DEF Local
        <5>2. Effect(p, s) = DockerRun(p)
          BY <3>2, <5>1 DEF Effect
        <5> QED BY <5>2
      <4>2. e = Outcome(FALSE, p) \/ e = Outcome(TRUE, r)
        BY <4>1 DEF DockerRun, Boot, Sees
      <4> QED BY <3>2, <4>2 DEF Outcome
    <3> QED BY <1>9, <3>1, <3>2
  <2>2. /\ DOMAIN q = DOMAIN p /\ q.stub = p.stub /\ q.receipts = p.receipts /\ q.seen = p.seen
        /\ q.fetched = p.fetched /\ q.up = p.up \cup s.want /\ q.created = p.created /\ q.broker = p.broker
    BY DEF Shape
  <2>3. /\ DOMAIN r = DOMAIN p /\ r.stub = p.stub /\ r.receipts = p.receipts /\ r.seen = p.seen
        /\ r.fetched = p.fetched /\ r.created /\ r.broker = p.broker
    BY DEF Shape
  <2> HIDE DEF q, r, c
  <2>4. s.do \notin Idle \cup {"metrics", "event", "sync"}
    BY <1>9 DEF Idle
  <2>5. CASE s.do = "composeUp" /\ e.then = q
    <3>1. "runtime" \notin s.want
      BY <2>5 DEF Fit
    <3>2. Shape(q)
      BY <2>2, <3>1 DEF Shape
    <3>3. Gains(p, q) /\ Careful(p, q)
      BY <2>2, SameReceipts
    <3>4. Steps(s, p, q)
      BY <2>2, <2>4, <2>5, <3>2, <3>3 DEF Steps
    <3> QED BY <1>1, <2>4, <2>5, <3>4
  <2>6. CASE s.do = "dockerRun" /\ e.then = r
    <3>1. Shape(r)
      BY <2>3 DEF Shape
    <3>2. Gains(p, r) /\ Careful(p, r)
      BY <2>3, SameReceipts
    <3>3. Steps(s, p, r)
      BY <2>3, <2>4, <2>6, <3>1, <3>2 DEF Steps
    <3> QED BY <1>1, <2>4, <2>6, <3>3
  <2> QED BY <1>1, <2>1, <2>4, <2>5, <2>6, ItselfSteps
<1> QED BY <1>2, <1>3, <1>4, <1>5, <1>6, <1>7, <1>8, <1>9 DEF Fit, Acts

(* What a lie about one of them does.                                        *)
Errs(s, p, q) ==
    /\ s.do \in {"event", "sync", "complete", "refresh", "revoke"}
    /\ Shape(q) /\ Gains(p, q)
    /\ q.receipts = p.receipts \/ Delivers(s, q)
    /\ q.seen = p.seen /\ q.fetched = p.fetched /\ q.created = p.created

LEMMA LieErrs ==
    ASSUME NEW p, NEW s, Shape(p), Fit(Wares(suite), s), NEW q \in Lies(p, s)
    PROVE  Errs(s, p, q)
<1>1. s.do \in {"event", "sync", "complete", "refresh", "revoke"}
  BY IdleEffect DEF Lies, Fit, Acts
<1>2. Gains(p, p)
  BY SameReceipts
<1>3. Errs(s, p, p)
  BY <1>1, <1>2 DEF Errs
<1>4. ASSUME NEW S, S \subseteq Events, \A e \in Brings(s) : e \in S
      PROVE  Errs(s, p, Stored(p, S)) /\ Errs(s, p, Stored(Stored(p, S), S))
  <2> DEFINE r == Stored(p, S)
             u == Stored(r, S)
  <2>1. /\ Shape(r) /\ SameButReceipts(p, r)
        /\ \A e \in Events : r.receipts[e] = IF e \in S THEN p.receipts[e] + 1 ELSE p.receipts[e]
    BY StoredReceipts
  <2> HIDE DEF r
  <2>2. /\ Shape(u) /\ SameButReceipts(r, u)
        /\ \A e \in Events : u.receipts[e] = IF e \in S THEN r.receipts[e] + 1 ELSE r.receipts[e]
    BY <2>1, StoredReceipts
  <2> HIDE DEF u
  <2>3. ASSUME NEW e \in Events
        PROVE  /\ p.receipts[e] <= r.receipts[e] /\ p.receipts[e] <= u.receipts[e]
               /\ e \in S => r.receipts[e] >= 1 /\ u.receipts[e] >= 1
    <3>1. p.receipts[e] \in Nat
      BY DEF Shape
    <3> QED BY <2>1, <2>2, <3>1
  <2>4. Gains(p, r) /\ Gains(p, u)
    BY <2>3 DEF Gains
  <2>5. Delivers(s, r) /\ Delivers(s, u)
    BY <1>4, <2>3 DEF Delivers
  <2>6. Errs(s, p, r) /\ Errs(s, p, u)
    BY <1>1, <2>1, <2>2, <2>4, <2>5 DEF Errs, SameButReceipts
  <2> QED BY <2>6 DEF r, u
<1>5. CASE s.do = "event"
  <2>1. s.on \in Events
    BY <1>5, WaresAreEvents DEF Fit
  <2>2. {s.on} \subseteq Events /\ \A e \in Brings(s) : e \in {s.on}
    BY <1>5, <2>1 DEF Brings
  <2>3. q \in {p, Stored(p, {s.on}), Stored(Stored(p, {s.on}), {s.on})}
    BY <1>5 DEF Lies
  <2> QED BY <1>3, <1>4, <2>2, <2>3
<1>6. CASE s.do = "sync"
  <2> DEFINE stub == Post(p.stub, s.on, p.token[s.on], TRUE).then
             r == [p EXCEPT !.stub = stub]
  <2>1. s.on \in Kinds /\ q \in {p, Stored(Stored(p, Items[s.on]), Items[s.on]), r}
    BY <1>6 DEF Lies
  <2>2. Items[s.on] \subseteq Events /\ \A e \in Brings(s) : e \in Items[s.on]
    BY <1>6, <2>1, WaresAreEvents DEF Brings
  <2>3. stub \in {p.stub, [p.stub EXCEPT !.unsafe = @ + 1], Written(p.stub, s.on)}
    BY DEF Post, Reply, Forbidden
  <2> HIDE DEF stub
  <2>4. DOMAIN stub = DOMAIN p.stub /\ stub.tokens = p.stub.tokens
    BY <2>3 DEF Written, Shape
  <2>5. /\ DOMAIN r = DOMAIN p /\ r.stub = stub /\ r.receipts = p.receipts /\ r.seen = p.seen
        /\ r.fetched = p.fetched /\ r.up = p.up /\ r.created = p.created /\ r.broker = p.broker
    BY DEF Shape
  <2> HIDE DEF r
  <2>6. Shape(r) /\ Gains(p, r)
    BY <2>4, <2>5, SameReceipts DEF Shape
  <2>7. Errs(s, p, r)
    BY <1>1, <2>5, <2>6 DEF Errs
  <2> QED BY <1>3, <1>4, <2>1, <2>2, <2>7
<1>7. CASE s.do = "complete"
  <2> DEFINE r == [p EXCEPT !.session[s.on] = "spent"]
  <2>1. q = r
    BY <1>7 DEF Lies
  <2>2. Aside(p, r)
    BY DEF Aside, Shape
  <2> HIDE DEF r
  <2>3. Shape(r) /\ Gains(p, r)
    BY <2>2, AsideShape, SameReceipts DEF Aside
  <2> QED BY <1>1, <2>1, <2>2, <2>3 DEF Errs, Aside
<1>8. CASE s.do \in {"refresh", "revoke"}
  <2>1. q = p
    BY <1>8 DEF Lies
  <2> QED BY <1>3, <2>1
<1> QED BY <1>1, <1>5, <1>6, <1>7, <1>8
-----------------------------------------------------------------------------
(* The steps that the claims rest on.                                        *)
LEMMA IntegrationMarks ==
    LET q == Script("integration") IN
    /\ q[8].do = "event" /\ q[8].on = "faq"
    /\ q[10].do = "event" /\ q[10].on = "email"
    /\ q[12].do = "event" /\ q[12].on = "billing"
    /\ q[14].do = "receipts" /\ q[14].want = 3
    /\ q[14].id = "connector.duplicate-no-second-receipt"
<1> DEFINE q == Script("integration")
<1>1. /\ IntegrationDeliveries[5].do = "event" /\ IntegrationDeliveries[5].on = "faq"
      /\ IntegrationDeliveries[7].do = "event" /\ IntegrationDeliveries[7].on = "email"
      /\ IntegrationDeliveries[9].do = "event" /\ IntegrationDeliveries[9].on = "billing"
  BY DEF IntegrationDeliveries, Step, Do, Proves, Notes, Health
<1>2. /\ q[3 + 5] = IntegrationDeliveries[5]
      /\ q[3 + 7] = IntegrationDeliveries[7]
      /\ q[3 + 9] = IntegrationDeliveries[9]
  <2>1. /\ 5 \in 1..10
        /\ 7 \in 1..10
        /\ 9 \in 1..10
    OBVIOUS
  <2> QED BY <2>1, IntegrationFits DEF Holds
<1>3. /\ q[8] = IntegrationDeliveries[5]
      /\ q[10] = IntegrationDeliveries[7]
      /\ q[12] = IntegrationDeliveries[9]
  BY <1>2
<1>4. /\ IntegrationAudit[1].do = "receipts" /\ IntegrationAudit[1].want = 3
      /\ IntegrationAudit[1].id = "connector.duplicate-no-second-receipt"
  BY DEF IntegrationAudit, Step, Do, Proves, Notes, Health
<1>5. /\ q[13 + 1] = IntegrationAudit[1]
  <2>1. /\ 1 \in 1..6
    OBVIOUS
  <2> QED BY <2>1, IntegrationFits DEF Holds
<1>6. /\ q[14] = IntegrationAudit[1]
  BY <1>5
<1> HIDE DEF q
<1> QED BY <1>1, <1>3, <1>4, <1>6 DEF q

LEMMA AdapterMarks ==
    LET q == Script("adapter") IN
    /\ q[11].do = "event" /\ q[11].on = "generic-1"
    /\ q[16].do = "event" /\ q[16].on = "github-1"
    /\ q[22].do = "receipts" /\ q[22].want = 2
    /\ q[22].id = "adapter.only-verified-deliveries-persisted"
<1> DEFINE q == Script("adapter")
<1>1. /\ AdapterDeliveries[1].do = "event" /\ AdapterDeliveries[1].on = "generic-1"
      /\ AdapterDeliveries[6].do = "event" /\ AdapterDeliveries[6].on = "github-1"
      /\ AdapterDeliveries[12].do = "receipts" /\ AdapterDeliveries[12].want = 2
      /\ AdapterDeliveries[12].id = "adapter.only-verified-deliveries-persisted"
  BY DEF AdapterDeliveries, Step, Do, Proves, Notes, Health
<1>2. /\ q[10 + 1] = AdapterDeliveries[1]
      /\ q[10 + 6] = AdapterDeliveries[6]
      /\ q[10 + 12] = AdapterDeliveries[12]
  <2>1. /\ 1 \in 1..15
        /\ 6 \in 1..15
        /\ 12 \in 1..15
    OBVIOUS
  <2> QED BY <2>1, AdapterFits DEF Holds
<1>3. /\ q[11] = AdapterDeliveries[1]
      /\ q[16] = AdapterDeliveries[6]
      /\ q[22] = AdapterDeliveries[12]
  BY <1>2
<1> HIDE DEF q
<1> QED BY <1>1, <1>3 DEF q

LEMMA ProviderMarks ==
    LET q == Script("provider") IN
    /\ q[13].do = "providerHealth" /\ q[13].on = "github" /\ q[13].want = 200
    /\ q[14].do = "metrics"
    /\ q[15].do = "refresh"
    /\ q[16].do = "issuedMore"
    /\ q[16].id = "oauth.refresh-rotates-runtime-token"
    /\ q[24].do = "providerHealth" /\ q[24].on = "github" /\ q[24].want = 409
    /\ q[24].id = "oauth.revoked-health-blocked"
    /\ q[25].do = "metrics"
    /\ q[26].do = "counted" /\ q[26].on = "unsafe" /\ q[26].want = 0
    /\ q[26].id = "oauth.no-outbound-provider-mutation"
<1> DEFINE q == Script("provider")
<1>1. /\ ProviderGithub[10].do = "providerHealth" /\ ProviderGithub[10].on = "github" /\ ProviderGithub[10].want = 200
      /\ ProviderGithub[11].do = "metrics"
      /\ ProviderGithub[12].do = "refresh"
      /\ ProviderGithub[13].do = "issuedMore"
      /\ ProviderGithub[13].id = "oauth.refresh-rotates-runtime-token"
  BY DEF ProviderGithub, Step, Do, Proves, Notes, Health
<1>2. /\ q[3 + 10] = ProviderGithub[10]
      /\ q[3 + 11] = ProviderGithub[11]
      /\ q[3 + 12] = ProviderGithub[12]
      /\ q[3 + 13] = ProviderGithub[13]
  <2>1. /\ 10 \in 1..13
        /\ 11 \in 1..13
        /\ 12 \in 1..13
        /\ 13 \in 1..13
    OBVIOUS
  <2> QED BY <2>1, ProviderFits DEF Holds
<1>3. /\ q[13] = ProviderGithub[10]
      /\ q[14] = ProviderGithub[11]
      /\ q[15] = ProviderGithub[12]
      /\ q[16] = ProviderGithub[13]
  BY <1>2
<1>4. /\ ProviderGoogle[8].do = "providerHealth" /\ ProviderGoogle[8].on = "github" /\ ProviderGoogle[8].want = 409
      /\ ProviderGoogle[8].id = "oauth.revoked-health-blocked"
      /\ ProviderGoogle[9].do = "metrics"
      /\ ProviderGoogle[10].do = "counted" /\ ProviderGoogle[10].on = "unsafe" /\ ProviderGoogle[10].want = 0
      /\ ProviderGoogle[10].id = "oauth.no-outbound-provider-mutation"
  BY DEF ProviderGoogle, Step, Do, Proves, Notes, Health
<1>5. /\ q[16 + 8] = ProviderGoogle[8]
      /\ q[16 + 9] = ProviderGoogle[9]
      /\ q[16 + 10] = ProviderGoogle[10]
  <2>1. /\ 8 \in 1..11
        /\ 9 \in 1..11
        /\ 10 \in 1..11
    OBVIOUS
  <2> QED BY <2>1, ProviderFits DEF Holds
<1>6. /\ q[24] = ProviderGoogle[8]
      /\ q[25] = ProviderGoogle[9]
      /\ q[26] = ProviderGoogle[10]
  BY <1>5
<1> HIDE DEF q
<1> QED BY <1>1, <1>3, <1>4, <1>6 DEF q

LEMMA SyncMarks ==
    LET q == Script("sync") IN
    /\ q[13].do = "sync" /\ q[13].on = "github"
    /\ q[14].do = "sync" /\ q[14].on = "gmail"
    /\ q[15].do = "sync" /\ q[15].on = "calendar"
    /\ q[18].do = "fetchReceipts"
    /\ q[19].do = "inspect"
    /\ q[20].do = "note"
    /\ q[21].do = "note"
    /\ q[22].do = "fetched" /\ q[22].want = 6
    /\ q[22].id = "sync.receipts-persisted"
    /\ q[27].do = "metrics"
    /\ q[28].do = "counted" /\ q[28].on = "unsafe" /\ q[28].want = 0
    /\ q[28].id = "sync.no-provider-mutations"
<1> DEFINE q == Script("sync")
<1>1. /\ SyncFirst[1].do = "sync" /\ SyncFirst[1].on = "github"
      /\ SyncFirst[2].do = "sync" /\ SyncFirst[2].on = "gmail"
      /\ SyncFirst[3].do = "sync" /\ SyncFirst[3].on = "calendar"
      /\ SyncFirst[6].do = "fetchReceipts"
      /\ SyncFirst[7].do = "inspect"
      /\ SyncFirst[8].do = "note"
      /\ SyncFirst[9].do = "note"
      /\ SyncFirst[10].do = "fetched" /\ SyncFirst[10].want = 6
      /\ SyncFirst[10].id = "sync.receipts-persisted"
  BY DEF SyncFirst, Step, Do, Proves, Notes, Health
<1>2. /\ q[12 + 1] = SyncFirst[1]
      /\ q[12 + 2] = SyncFirst[2]
      /\ q[12 + 3] = SyncFirst[3]
      /\ q[12 + 6] = SyncFirst[6]
      /\ q[12 + 7] = SyncFirst[7]
      /\ q[12 + 8] = SyncFirst[8]
      /\ q[12 + 9] = SyncFirst[9]
      /\ q[12 + 10] = SyncFirst[10]
  <2>1. /\ 1 \in 1..10
        /\ 2 \in 1..10
        /\ 3 \in 1..10
        /\ 6 \in 1..10
        /\ 7 \in 1..10
        /\ 8 \in 1..10
        /\ 9 \in 1..10
        /\ 10 \in 1..10
    OBVIOUS
  <2> QED BY <2>1, SyncFits DEF Holds
<1>3. /\ q[13] = SyncFirst[1]
      /\ q[14] = SyncFirst[2]
      /\ q[15] = SyncFirst[3]
      /\ q[18] = SyncFirst[6]
      /\ q[19] = SyncFirst[7]
      /\ q[20] = SyncFirst[8]
      /\ q[21] = SyncFirst[9]
      /\ q[22] = SyncFirst[10]
  BY <1>2
<1>4. /\ SyncSecond[5].do = "metrics"
      /\ SyncSecond[6].do = "counted" /\ SyncSecond[6].on = "unsafe" /\ SyncSecond[6].want = 0
      /\ SyncSecond[6].id = "sync.no-provider-mutations"
  BY DEF SyncSecond, Step, Do, Proves, Notes, Health
<1>5. /\ q[22 + 5] = SyncSecond[5]
      /\ q[22 + 6] = SyncSecond[6]
  <2>1. /\ 5 \in 1..10
        /\ 6 \in 1..10
    OBVIOUS
  <2> QED BY <2>1, SyncFits DEF Holds
<1>6. /\ q[27] = SyncSecond[5]
      /\ q[28] = SyncSecond[6]
  BY <1>5
<1> HIDE DEF q
<1> QED BY <1>1, <1>3, <1>4, <1>6 DEF q

LEMMA BoundaryMarks ==
    LET q == Script("boundary") IN
    /\ q[6].do = "absent"
    /\ q[7].do = "composeUp"
    /\ q[8].do = "health"
    /\ q[8].id = "core.gateway-healthy-without-ai-runtime"
    /\ q[9].do = "health"
    /\ q[9].id = "core.identity-healthy-without-ai-runtime"
    /\ q[10].do = "health"
    /\ q[10].id = "core.user-healthy-without-ai-runtime"
    /\ q[11].do = "health"
    /\ q[11].id = "core.audit-healthy-without-ai-runtime"
<1> DEFINE q == Script("boundary")
<1>1. /\ BoundaryCore[6].do = "absent"
      /\ BoundaryCore[7].do = "composeUp"
      /\ BoundaryCore[8].do = "health"
      /\ BoundaryCore[8].id = "core.gateway-healthy-without-ai-runtime"
      /\ BoundaryCore[9].do = "health"
      /\ BoundaryCore[9].id = "core.identity-healthy-without-ai-runtime"
      /\ BoundaryCore[10].do = "health"
      /\ BoundaryCore[10].id = "core.user-healthy-without-ai-runtime"
      /\ BoundaryCore[11].do = "health"
      /\ BoundaryCore[11].id = "core.audit-healthy-without-ai-runtime"
  BY DEF BoundaryCore, Step, Do, Proves, Notes, Health
<1>2. /\ q[0 + 6] = BoundaryCore[6]
      /\ q[0 + 7] = BoundaryCore[7]
      /\ q[0 + 8] = BoundaryCore[8]
      /\ q[0 + 9] = BoundaryCore[9]
      /\ q[0 + 10] = BoundaryCore[10]
      /\ q[0 + 11] = BoundaryCore[11]
  <2>1. /\ 6 \in 1..12
        /\ 7 \in 1..12
        /\ 8 \in 1..12
        /\ 9 \in 1..12
        /\ 10 \in 1..12
        /\ 11 \in 1..12
    OBVIOUS
  <2> QED BY <2>1, BoundaryFits DEF Holds
<1>3. /\ q[6] = BoundaryCore[6]
      /\ q[7] = BoundaryCore[7]
      /\ q[8] = BoundaryCore[8]
      /\ q[9] = BoundaryCore[9]
      /\ q[10] = BoundaryCore[10]
      /\ q[11] = BoundaryCore[11]
  BY <1>2
<1> HIDE DEF q
<1> QED BY <1>1, <1>3 DEF q
-----------------------------------------------------------------------------
(* The places where the proof rests on something seen a few steps before.    *)
LEMMA SameSum ==
    ASSUME NEW p, NEW q, q.receipts = p.receipts
    PROVE  Receipts(q) = Receipts(p)
BY DEF Receipts

LEMMA PlaceStays ==
    ASSUME NEW n \in Nat, NEW p, NEW q, NEW s, s = Script(suite)[n], Place(n, p), Steps(s, p, q)
    PROVE  Place(n, q)
<1>1. ASSUME suite = "provider"
      PROVE  /\ n = 14 => q.stub = p.stub
             /\ n \in {15, 16} => q.seen = p.seen
             /\ n = 26 => q = p
  BY <1>1, ProviderMarks DEF Steps, Idle
<1>2. ASSUME suite = "sync"
      PROVE  n \in 19..22 \/ n = 28 => q = p
  <2>1. \A m \in 19..22 : Script("sync")[m].do \in Idle
    <3>1. \A m \in 19..22 : m = 19 \/ m = 20 \/ m = 21 \/ m = 22
      OBVIOUS
    <3> QED BY <3>1, SyncMarks DEF Idle
  <2> QED BY <1>2, <2>1, SyncMarks DEF Steps, Idle
<1>3. ASSUME suite = "boundary"
      PROVE  n \in 7..11 => q.created = p.created
  <2>1. \A m \in 7..11 : m = 7 \/ m = 8 \/ m = 9 \/ m = 10 \/ m = 11
    OBVIOUS
  <2> QED BY <1>3, <2>1, BoundaryMarks DEF Steps
<1> QED BY <1>1, <1>2, <1>3 DEF Place

LEMMA OneOfMore ==
    ASSUME NEW S, IsFiniteSet(S), S # {}
    PROVE  Cardinality(S) \in Nat /\ Cardinality(S) >= 1
<1>1. Cardinality(S) \in Nat
  BY FS_CardinalityType
<1>2. Cardinality(S) # 0
  BY FS_EmptySet
<1> QED BY <1>1, <1>2

(* A health check of a provider passes on the answer it wants.               *)
LEMMA HealthAnswer ==
    ASSUME NEW p, NEW s, s.do = "providerHealth", NEW e \in Effect(p, s), e.ok
    PROVE  s.want = (IF p.token[s.on] = 0 THEN 409 ELSE Identity(p, s.on))
<1>1. s.do \notin Local /\ s.do \notin {"tryEnable"}
  BY DEF Local
<1>2. Effect(p, s) = IF "orchestrator" \in p.up THEN Answered(p, s) ELSE Sees(s.do = "tryEnable", p)
  BY <1>1 DEF Effect
<1>3. Answered(p, s) = ProviderHealth(p, s.on, s.want)
  BY DEF Answered
<1>4. e \in ProviderHealth(p, s.on, s.want)
  <2>1. CASE "orchestrator" \notin p.up
    <3>1. e = Outcome(FALSE, p)
      BY <1>1, <1>2, <2>1 DEF Sees
    <3> QED BY <3>1 DEF Outcome
  <2> QED BY <1>2, <1>3, <2>1
<1> DEFINE x == IF p.token[s.on] = 0 THEN 409 ELSE Identity(p, s.on)
<1>5. e = Outcome(s.want = x, p)
  BY <1>4, Zenon DEF ProviderHealth, Sees
<1> HIDE DEF x
<1>6. s.want = x
  BY <1>5 DEF Outcome
<1> QED BY <1>6 DEF x

LEMMA ProviderNext ==
    ASSUME suite = "provider", NEW n \in Nat, NEW p, Shape(p), Place(n, p),
           NEW e \in Effect(p, Script(suite)[n]), e.ok, Steps(Script(suite)[n], p, e.then)
    PROVE  Place(n + 1, e.then)
<1> DEFINE s == Script("provider")[n]
           q == e.then
<1>1. n = 13 => p.stub.tokens # {} /\ q = p
  <2> SUFFICES ASSUME n = 13 PROVE p.stub.tokens # {} /\ q = p
    OBVIOUS
  <2>1. s.do = "providerHealth" /\ s.on = "github" /\ s.want = 200
    BY ProviderMarks
  <2>2. q = p
    BY <2>1 DEF Steps, Idle
  <2>3. 200 = (IF p.token["github"] = 0 THEN 409 ELSE Identity(p, "github"))
    BY <2>1, HealthAnswer
  <2>4. Get(p.stub, "user", p.token["github"]).status = 200
    BY <2>3 DEF Identity, Shape
  <2>5. p.token["github"] \in p.stub.tokens
    BY <2>4 DEF Get, Reads, Reply
  <2> QED BY <2>2, <2>5
<1>2. n = 14 => q.seen.issued \in Nat /\ q.seen.issued >= 1
  <2> SUFFICES ASSUME n = 14 PROVE q.seen.issued \in Nat /\ q.seen.issued >= 1
    OBVIOUS
  <2>1. q.seen = Metrics(p.stub)
    BY ProviderMarks DEF Steps
  <2>2. p.stub.tokens # {} /\ IsFiniteSet(p.stub.tokens)
    BY DEF Place, Shape
  <2> QED BY <2>1, <2>2, OneOfMore DEF Metrics
<1>3. n = 15 => q.seen = p.seen
  BY ProviderMarks DEF Steps
<1>4. n = 25 => q.seen.unsafe = q.stub.unsafe
  <2> SUFFICES ASSUME n = 25 PROVE q.seen.unsafe = q.stub.unsafe
    OBVIOUS
  <2>1. q.seen = Metrics(p.stub) /\ q.stub = p.stub
    BY ProviderMarks DEF Steps
  <2> QED BY <2>1 DEF Metrics
<1>5. (n + 1 = 14 => n = 13) /\ (n + 1 = 15 => n = 14) /\ (n + 1 = 16 => n = 15) /\ (n + 1 = 26 => n = 25)
  OBVIOUS
<1> QED BY <1>1, <1>2, <1>3, <1>4, <1>5 DEF Place

LEMMA SyncNext ==
    ASSUME suite = "sync", NEW n \in Nat, NEW p, Shape(p), Place(n, p),
           NEW e \in Effect(p, Script(suite)[n]), e.ok, Steps(Script(suite)[n], p, e.then)
    PROVE  Place(n + 1, e.then)
<1> DEFINE s == Script("sync")[n]
           q == e.then
<1>1. n = 18 => q.fetched = Receipts(q)
  <2> SUFFICES ASSUME n = 18 PROVE q.fetched = Receipts(q)
    OBVIOUS
  <2>1. s.do = "fetchReceipts"
    BY SyncMarks
  <2>2. e \in Answered(p, s)
    BY <2>1, RequestEffect DEF Requests
  <2>3. e \in Sees(TRUE, [p EXCEPT !.fetched = Receipts(p)])
    BY <2>1, <2>2 DEF Answered
  <2>4. q.fetched = Receipts(p)
    BY <2>3 DEF Sees, Outcome, Shape
  <2>5. q.receipts = p.receipts
    BY <2>1 DEF Steps
  <2> QED BY <2>4, <2>5, SameSum
<1>2. n \in 19..21 => q = p
  <2>1. n \in 19..21 => n = 19 \/ n = 20 \/ n = 21
    OBVIOUS
  <2> QED BY <2>1, SyncMarks DEF Steps, Idle
<1>3. n = 27 => q.seen.unsafe = q.stub.unsafe
  <2> SUFFICES ASSUME n = 27 PROVE q.seen.unsafe = q.stub.unsafe
    OBVIOUS
  <2>1. q.seen = Metrics(p.stub) /\ q.stub = p.stub
    BY SyncMarks DEF Steps
  <2> QED BY <2>1 DEF Metrics
<1>4. (n + 1 \in 19..22 => n = 18 \/ n \in 19..21) /\ (n + 1 = 28 => n = 27)
  OBVIOUS
<1>5. n \in 19..21 => n \in 19..22
  OBVIOUS
<1> QED BY <1>1, <1>2, <1>3, <1>4, <1>5 DEF Place

LEMMA BoundaryNext ==
    ASSUME suite = "boundary", NEW n \in Nat, NEW p, Shape(p), Place(n, p),
           NEW e \in Effect(p, Script(suite)[n]), e.ok, Steps(Script(suite)[n], p, e.then)
    PROVE  Place(n + 1, e.then)
<1> DEFINE s == Script("boundary")[n]
           q == e.then
<1>1. n = 6 => ~p.created /\ q = p
  <2> SUFFICES ASSUME n = 6 PROVE ~p.created /\ q = p
    OBVIOUS
  <2>1. s.do = "absent" /\ s.do \in Local /\ s.do \in Idle
    BY BoundaryMarks DEF Local, Idle
  <2>2. Effect(p, s) = {Outcome(Finds(p, s), p)}
    BY <2>1 DEF Effect, Sees
  <2>3. Finds(p, s)
    BY <2>2 DEF Outcome
  <2>4. Finds(p, s) <=> ~p.created
    BY <2>1, Zenon DEF Finds
  <2> QED BY <2>1, <2>3, <2>4 DEF Steps
<1>2. n \in 7..10 => q.created = p.created
  <2>1. n \in 7..10 => n = 7 \/ n = 8 \/ n = 9 \/ n = 10
    OBVIOUS
  <2> QED BY <2>1, BoundaryMarks DEF Steps
<1>3. (n + 1 \in 7..11 => n = 6 \/ n \in 7..10) /\ (n \in 7..10 => n \in 7..11)
  OBVIOUS
<1> QED BY <1>1, <1>2, <1>3 DEF Place

LEMMA PlaceNext ==
    ASSUME NEW n \in Nat, NEW p, Shape(p), Place(n, p),
           NEW e \in Effect(p, Script(suite)[n]), e.ok, Steps(Script(suite)[n], p, e.then)
    PROVE  Place(n + 1, e.then)
<1>1. CASE suite \notin {"provider", "sync", "boundary"}
  BY <1>1 DEF Place
<1> QED BY <1>1, ProviderNext, SyncNext, BoundaryNext

LEMMA PlaceErrs ==
    ASSUME NEW n \in Nat, NEW p, NEW q, Place(n, p), Errs(Script(suite)[n], p, q)
    PROVE  Place(n, q) /\ Place(n + 1, q)
<1> DEFINE s == Script(suite)[n]
<1>1. s.do \in {"event", "sync", "complete", "refresh", "revoke"} /\ q.seen = p.seen
  BY DEF Errs
<1>2. suite = "provider" => n \notin {13, 14, 25, 26}
  BY <1>1, ProviderMarks
<1>3. suite = "sync" => n \notin 18..22 /\ n \notin {27, 28}
  <2>1. n \in 18..22 => n = 18 \/ n = 19 \/ n = 20 \/ n = 21 \/ n = 22
    OBVIOUS
  <2> QED BY <1>1, <2>1, SyncMarks
<1>4. suite = "boundary" => n \notin 6..11
  <2>1. n \in 6..11 => n = 6 \/ n = 7 \/ n = 8 \/ n = 9 \/ n = 10 \/ n = 11
    OBVIOUS
  <2> QED BY <1>1, <2>1, BoundaryMarks
<1>5. /\ n + 1 = 14 => n = 13
      /\ n + 1 \in {15, 16} => n \in {14, 15}
      /\ n + 1 = 26 => n = 25
      /\ n + 1 \in 19..22 => n \in 18..22
      /\ n \in 19..22 => n \in 18..22
      /\ n + 1 = 28 => n = 27
      /\ n + 1 \in 7..11 => n \in 6..11
      /\ n \in 7..11 => n \in 6..11
  OBVIOUS
<1> HIDE DEF s
<1> QED BY <1>1, <1>2, <1>3, <1>4, <1>5 DEF Place
-----------------------------------------------------------------------------
(* The invariant, step by step.                                              *)
LEMMA MildCurrent ==
    ASSUME Mild, Running
    PROVE  Current = Script(suite)[pc] /\ Fit(Wares(suite), Current) /\ pc \in Nat
<1>1. \E C, n : n \in Nat /\ Fits(Wares(suite), C, Script(suite), n)
  <2>1. 21 \in Nat /\ 27 \in Nat /\ 29 \in Nat /\ 34 \in Nat /\ 22 \in Nat
    OBVIOUS
  <2> QED BY <2>1, IntegrationFits, AdapterFits, ProviderFits, SyncFits, BoundaryFits DEF Mild
<1>2. PICK C, n : n \in Nat /\ Fits(Wares(suite), C, Script(suite), n)
  BY <1>1
<1>3. pc \in 1..n
  <2>1. \E S : Script(suite) \in Seq(S)
    BY <1>2 DEF Fits, Part, IsScript
  <2> QED BY <1>2, <2>1 DEF Fits, Part, Running
<1> QED BY <1>2, <1>3 DEF Fits, Current

LEMMA BringsEvents ==
    \A s : Brings(s) \subseteq Events
BY WaresAreEvents DEF Brings, Events

LEMMA FullStays ==
    ASSUME NEW n \in Nat, NEW p, NEW q, Shape(p), Shape(q), Full(n, p), Gains(p, q)
    PROVE  Full(n, q) /\ (Delivers(Script(suite)[n], q) => Full(n + 1, q))
<1>1. ASSUME NEW m \in 1..(n - 1), NEW e \in Brings(Script(suite)[m])
      PROVE  q.receipts[e] >= 1
  <2>1. e \in Events
    BY BringsEvents
  <2>2. p.receipts[e] \in Nat /\ q.receipts[e] \in Nat /\ p.receipts[e] >= 1 /\ p.receipts[e] <= q.receipts[e]
    BY <2>1 DEF Shape, Full, Gains
  <2> QED BY <2>2
<1>2. ASSUME Delivers(Script(suite)[n], q), NEW m \in 1..(n + 1 - 1), NEW e \in Brings(Script(suite)[m])
      PROVE  q.receipts[e] >= 1
  <2>1. m = n \/ m \in 1..(n - 1)
    OBVIOUS
  <2> QED BY <1>1, <1>2, <2>1 DEF Delivers
<1> QED BY <1>1, <1>2 DEF Full

LEMMA NeatStays ==
    ASSUME NEW p, NEW q, Neat(p), Careful(p, q)
    PROVE  Neat(q)
BY DEF Neat, Careful, One

LEMMA MildlyOn ==
    ASSUME NEW n \in Nat, NEW p, Mildly(n, p, lies), lies \in Nat,
           Fit(Wares(suite), Script(suite)[n]), Script(suite)[n].do # "publish",
           NEW e \in Effect(p, Script(suite)[n])
    PROVE  Mildly(n, e.then, lies) /\ (e.ok => Mildly(n + 1, e.then, lies))
<1> DEFINE s == Script(suite)[n]
           q == e.then
<1>1. Steps(s, p, q) /\ (e.ok => Delivers(s, q))
  BY MildEffect DEF Mildly
<1>2. Place(n, q) /\ (e.ok => Place(n + 1, q))
  BY <1>1, PlaceStays, PlaceNext DEF Mildly
<1>3. Shape(p) /\ Shape(q) /\ Gains(p, q) /\ Careful(p, q)
  BY <1>1 DEF Steps, Mildly
<1>4. (Neat(p) => Neat(q)) /\ (Full(n, p) => Full(n, q) /\ (e.ok => Full(n + 1, q)))
  BY <1>1, <1>3, NeatStays, FullStays
<1> HIDE DEF s, q
<1>5. Mildly(n, q, lies) /\ (e.ok => Mildly(n + 1, q, lies))
  BY <1>2, <1>3, <1>4 DEF Mildly
<1> QED BY <1>5 DEF q

LEMMA MildlyErrs ==
    ASSUME NEW n \in Nat, NEW p, Mildly(n, p, lies), lies \in Nat,
           Fit(Wares(suite), Script(suite)[n]), NEW q \in Lies(p, Script(suite)[n])
    PROVE  Mildly(n, q, lies + 1) /\ Mildly(n + 1, q, lies + 1)
<1> DEFINE s == Script(suite)[n]
<1>1. Errs(s, p, q)
  BY LieErrs DEF Mildly
<1>2. Place(n, q) /\ Place(n + 1, q)
  BY <1>1, PlaceErrs DEF Mildly
<1>3. Shape(p) /\ Shape(q) /\ Gains(p, q)
  BY <1>1 DEF Errs, Mildly
<1>4. lies = 0 => Neat(q) \/ (Full(n, q) /\ Full(n + 1, q))
  <2> SUFFICES ASSUME lies = 0 PROVE Neat(q) \/ (Full(n, q) /\ Full(n + 1, q))
    OBVIOUS
  <2>1. Neat(p) /\ Full(n, p)
    BY DEF Mildly
  <2>2. CASE q.receipts = p.receipts
    BY <2>1, <2>2 DEF Neat
  <2>3. CASE Delivers(s, q)
    BY <1>3, <2>1, <2>3, FullStays
  <2> QED BY <1>1, <2>2, <2>3 DEF Errs
<1>5. lies + 1 # 0 /\ (lies + 1 = 1 => lies = 0)
  OBVIOUS
<1> QED BY <1>2, <1>3, <1>4, <1>5 DEF Mildly

(* What a change beside the receipts leaves.                                 *)
LEMMA MildlySame ==
    ASSUME NEW n, NEW p, NEW q, NEW l, Mildly(n, p, l), DOMAIN q = DOMAIN p,
           q.stub = p.stub, q.receipts = p.receipts, q.seen = p.seen, q.fetched = p.fetched,
           q.created = p.created, q.broker = p.broker, "runtime" \in q.up => "runtime" \in p.up
    PROVE  Mildly(n, q, l)
<1>1. Shape(q)
  BY DEF Mildly, Shape
<1>2. Place(n, q)
  BY SameSum DEF Mildly, Place
<1>3. (Neat(p) => Neat(q)) /\ (Full(n, p) => Full(n, q))
  BY DEF Neat, Full
<1> QED BY <1>1, <1>2, <1>3 DEF Mildly

(* A run that begins again has everything before it.                         *)
LEMMA MildlyFirst ==
    ASSUME NEW n, NEW p, NEW l, Mildly(n, p, l)
    PROVE  Mildly(1, p, l)
<1>1. Full(1, p)
  BY DEF Full
<1>2. Place(1, p)
  BY DEF Place
<1> QED BY <1>1, <1>2 DEF Mildly

LEMMA MildlyPrimed ==
    ASSUME suite' = suite, NEW n, NEW p, NEW l, pc' = n, platform' = p, lies' = l, late' = {},
           Mild => Mildly(n, p, l)
    PROVE  MildInv'
<1>1. Goods' = Goods /\ (Mild' <=> Mild)
  BY DEF Goods, Wares, Mild
<1>2. Neat(platform)' <=> Neat(p)
  BY <1>1 DEF Neat
<1>3. Full(pc, platform)' <=> Full(n, p)
  BY DEF Full
<1>4. Place(pc, platform)' <=> Place(n, p)
  BY DEF Place
<1>5. Shape(platform)' <=> Shape(p)
  BY DEF Shape
<1>6. (lies = 0)' <=> l = 0
  OBVIOUS
<1>7. (lies = 1)' <=> l = 1
  OBVIOUS
<1> QED BY <1>1, <1>2, <1>3, <1>4, <1>5, <1>6, <1>7 DEF MildInv, Mildly

LEMMA MildSuites ==
    ASSUME Mild
    PROVE  suite # "test account" /\ suite \notin LiveSuites
BY Zenon DEF Mild, LiveSuites

LEMMA InitMildInv == Init => MildInv
<1> SUFFICES ASSUME Init, Mild PROVE late = {} /\ Mildly(pc, platform, lies)
  BY DEF MildInv
<1>1. late = {} /\ pc = 1 /\ lies = 0 /\ platform = Fresh(suite, Broker(suite))
  BY DEF Init
<1>2. Broker(suite) = {}
  BY MildSuites, Zenon DEF Broker
<1> DEFINE stub == Provider(suite)
           up == IF suite \in {"external", "boundary"} THEN {} ELSE {"orchestrator"}
<1>3. stub = NewStub(suite \in LiveSuites, suite \in LiveSuites)
  BY MildSuites, Zenon DEF Provider
<1>4. {"tokens", "unsafe"} \subseteq DOMAIN stub /\ IsFiniteSet(stub.tokens)
  BY <1>3, FS_EmptySet DEF NewStub
<1>5. "runtime" \notin up
  OBVIOUS
<1> HIDE DEF stub
<1>6. /\ {"stub", "receipts", "seen", "fetched", "token", "up", "created", "broker"} \subseteq DOMAIN platform
      /\ platform.stub = stub /\ platform.receipts = [e \in Events |-> 0] /\ platform.broker = Broker(suite)
      /\ platform.up = up
  BY <1>1 DEF Fresh, stub
<1> HIDE DEF up
<1>7. Shape(platform)
  BY <1>2, <1>4, <1>5, <1>6 DEF Shape
<1>8. Neat(platform)
  BY <1>6 DEF Neat, One
<1>9. Full(1, platform) /\ Place(1, platform)
  BY DEF Full, Place
<1> QED BY <1>1, <1>7, <1>8, <1>9 DEF Mildly

LEMMA StepMildInv == IInv /\ LiveInv /\ MildInv /\ [Next]_vars => MildInv'
<1> SUFFICES ASSUME IInv, LiveInv, MildInv, [Next]_vars PROVE MildInv'
  OBVIOUS
<1>1. suite' = suite
  BY DEF Next, Proceed, TakeStep, Goes, Raise, Advance, Preflight, Publish, Again, Interrupted, LateExecute,
         Misled, Crash, Finished, vars, envVars
<1>2. CASE ~Mild
  BY <1>1, <1>2 DEF MildInv, Mild
<1> SUFFICES ASSUME Mild PROVE MildInv'
  BY <1>2
<1>3. late = {} /\ Mildly(pc, platform, lies) /\ lies \in Nat
  BY DEF MildInv, LiveInv
<1>4. ASSUME UNCHANGED <<pc, platform, late, lies>> PROVE MildInv'
  BY <1>1, <1>3, <1>4, MildlyPrimed
<1>5. CASE Preflight \/ Publish \/ Finished \/ UNCHANGED vars
  BY <1>4, <1>5 DEF Preflight, Publish, Finished, vars, procVars, budget
<1>6. ASSUME Running
      PROVE  /\ Current = Script(suite)[pc] /\ Fit(Wares(suite), Script(suite)[pc]) /\ pc \in Nat
             /\ Current.do # "execute"
  <2>1. Current = Script(suite)[pc] /\ Fit(Wares(suite), Current) /\ pc \in Nat
    BY <1>6, MildCurrent
  <2> QED BY <2>1 DEF Fit, Idle, Acts
<1>7. ASSUME Running, Current.do # "publish", NEW e \in Effect(platform, Current)
      PROVE  Mildly(pc, e.then, lies) /\ (e.ok => Mildly(pc + 1, e.then, lies))
  BY <1>3, <1>6, <1>7, MildlyOn
<1>8. CASE TakeStep
  <2>1. Running /\ Current.do # "publish" /\ UNCHANGED <<late, lies>>
    BY <1>8 DEF TakeStep, budget
  <2>2. PICK e \in Effect(platform, Current) : Goes(e)
    BY <1>8 DEF TakeStep
  <2>3. CASE e.ok /\ Advance(e.then)
    <3>1. pc' = pc + 1 /\ platform' = e.then
      BY <2>3 DEF Advance
    <3>2. Mildly(pc + 1, e.then, lies)
      BY <1>7, <2>1, <2>3
    <3> QED BY <1>1, <1>3, <2>1, <3>1, <3>2, MildlyPrimed
  <2>4. CASE Raise(e.then)
    <3>1. pc' = pc /\ platform' = e.then
      BY <2>4 DEF Raise
    <3>2. Mildly(pc, e.then, lies)
      BY <1>7, <2>1
    <3> QED BY <1>1, <1>3, <2>1, <3>1, <3>2, MildlyPrimed
  <2> QED BY <2>2, <2>3, <2>4 DEF Goes
<1>9. CASE Misled
  <2>1. Running /\ UNCHANGED late /\ lies' = lies + 1
    BY <1>9 DEF Misled
  <2>2. PICK t \in Lies(platform, Current) : Goes(Outcome(TRUE, t))
    BY <1>9 DEF Misled
  <2>3. Mildly(pc, t, lies + 1) /\ Mildly(pc + 1, t, lies + 1)
    BY <1>3, <1>6, <2>1, <2>2, MildlyErrs
  <2>4. Advance(t) \/ Raise(t)
    <3>1. Outcome(TRUE, t).then = t
      BY DEF Outcome
    <3> QED BY <2>2, <3>1 DEF Goes
  <2>5. platform' = t /\ (pc' = pc + 1 \/ pc' = pc)
    BY <2>4 DEF Advance, Raise
  <2>6. late' = {}
    BY <1>3, <2>1
  <2>7. CASE pc' = pc + 1
    BY <1>1, <2>1, <2>3, <2>5, <2>6, <2>7, MildlyPrimed
  <2>8. CASE pc' = pc
    BY <1>1, <2>1, <2>3, <2>5, <2>6, <2>8, MildlyPrimed
  <2> QED BY <2>5, <2>7, <2>8
<1>10. CASE Interrupted
  <2>1. Running /\ lies' = lies
    BY <1>10 DEF Interrupted, Fault
  <2>2. Partial(platform, Current) = {}
    BY <1>6, <2>1 DEF Partial
  <2>3. /\ late' = late
        /\ \E t : /\ Raise(t)
                  /\ \/ t = platform
                     \/ Current.do # "publish" /\ t \in {e.then : e \in Effect(platform, Current)}
    BY <1>6, <1>10, <2>1, <2>2 DEF Interrupted
  <2>4. PICK t : /\ Raise(t)
                 /\ \/ t = platform
                    \/ Current.do # "publish" /\ t \in {e.then : e \in Effect(platform, Current)}
    BY <2>3
  <2>5. pc' = pc /\ platform' = t
    BY <2>4 DEF Raise
  <2>6. Mildly(pc, t, lies)
    BY <1>3, <1>7, <2>1, <2>4
  <2> QED BY <1>1, <1>3, <2>1, <2>3, <2>5, <2>6, MildlyPrimed
<1>11. CASE LateExecute
  BY <1>3, <1>11 DEF LateExecute
<1>12. CASE Again
  <2>1. pc' = 1 /\ UNCHANGED <<late, lies>>
    BY <1>12 DEF Again, budget
  <2> DEFINE up == IF suite \in {"external", "boundary"} THEN platform.up ELSE {"orchestrator"}
             actions == IF suite = "test account" THEN [k \in Keys |-> NoAction] ELSE platform.actions
  <2>2. platform' = [platform EXCEPT !.up = up, !.actions = actions, !.answers = {}]
    BY <1>12, Zenon DEF Again
  <2>3. up = platform.up \/ up = {"orchestrator"}
    BY Zenon
  <2> HIDE DEF up, actions
  <2>4. /\ DOMAIN platform' = DOMAIN platform /\ platform'.stub = platform.stub
        /\ platform'.receipts = platform.receipts /\ platform'.seen = platform.seen
        /\ platform'.fetched = platform.fetched /\ platform'.created = platform.created
        /\ platform'.broker = platform.broker /\ platform'.up = up
    BY <1>3, <2>2 DEF Mildly, Shape
  <2>5. Mildly(pc, platform', lies)
    BY <1>3, <2>3, <2>4, MildlySame
  <2>6. Mildly(1, platform', lies)
    BY <2>5, MildlyFirst
  <2> QED BY <1>1, <1>3, <2>1, <2>6, MildlyPrimed
<1>13. CASE \E c \in {"orchestrator", "core", "runtime"} : Crash(c)
  <2>1. PICK c \in {"orchestrator", "core", "runtime"} : Crash(c)
    BY <1>13
  <2>2. pc' = pc /\ UNCHANGED <<late, lies>> /\ platform' = [platform EXCEPT !.up = @ \ {c}]
    BY <2>1 DEF Crash, Fault, procVars
  <2>3. /\ DOMAIN platform' = DOMAIN platform /\ platform'.stub = platform.stub
        /\ platform'.receipts = platform.receipts /\ platform'.seen = platform.seen
        /\ platform'.fetched = platform.fetched /\ platform'.created = platform.created
        /\ platform'.broker = platform.broker /\ platform'.up = platform.up \ {c}
    BY <1>3, <2>2 DEF Mildly, Shape
  <2>4. Mildly(pc, platform', lies)
    BY <1>3, <2>3, MildlySame
  <2> QED BY <1>1, <1>3, <2>2, <2>4, MildlyPrimed
<1> QED BY <1>5, <1>8, <1>9, <1>10, <1>11, <1>12, <1>13 DEF Next, Proceed
-----------------------------------------------------------------------------
(* The live write proof before its approvals.  An action that has been       *)
(* created waits for one, if nothing was lied about, and stays so; and from  *)
(* the first reading of the counters to the first claim about them nothing   *)
(* is written.                                                               *)
CreatesAt == [gmail |-> 14, calendar |-> 15, github |-> 16]
Waits(p, k) == p.actions[k].status = "PENDING_APPROVAL"
Waiting(n, p, l) == \A k \in Kinds : l = 0 /\ CreatesAt[k] < n /\ n <= 22 => Waits(p, k)
Untouched(n, p) ==
    /\ n \in 21..22 => p.seen.write = p.stub.write
    /\ n = 22 => p.seen.write = 0
Tended(p) ==
    /\ "early" \in DOMAIN p /\ {"unsafe", "writes"} \subseteq DOMAIN p.stub
    /\ p.stub.unsafe = 0 /\ p.stub.writes
    /\ p.early # {} => p.stub.write >= 1
WaitInv ==
    Writing =>
       /\ Waiting(pc, platform, lies)
       /\ OneKind => Untouched(pc, platform)
       /\ Tended(platform)

LEMMA EarlyMarks ==
    /\ \A n \in 1..22 : /\ LiveStep(n).do # "approve"
                        /\ LiveStep(n).do = "execute" => n >= 17
    /\ \A k \in Kinds : LiveStep(CreatesAt[k]).do = "create" /\ LiveStep(CreatesAt[k]).on = k
    /\ LiveStep(20).do = "metrics"
    /\ LiveStep(21).do = "counted" /\ LiveStep(21).on = "write" /\ LiveStep(21).want = 0
    /\ LiveStep(22).do = "counted"
<1> DEFINE R == LiveWriteRequests
           B == LiveWriteBlocked
<1>1. \A n \in 1..3 : Begin[n].do \notin {"approve", "execute"}
  <2>1. Begin[1].do = "contract" /\ Begin[2].do = "try" /\ Begin[3].do = "health"
    BY DEF Begin, Do, Health, Proves, Step
  <2> QED BY <2>1
<1>2. \A n \in 1..13 : R[n].do \notin {"approve", "execute"}
  <2>1. /\ R[1].do = "policy" /\ R[2].do = "register" /\ R[3].do = "start" /\ R[4].do = "completeWrite"
        /\ R[5].do = "register" /\ R[6].do = "start" /\ R[7].do = "completeWrite"
        /\ R[8].do = "register" /\ R[9].do = "start" /\ R[10].do = "completeWrite"
        /\ R[11].do = "create" /\ R[12].do = "create" /\ R[13].do = "create"
    BY DEF LiveWriteRequests, Do, Proves, Step
  <2> HIDE DEF R
  <2> QED BY <2>1
<1>3. R[11].do = "create" /\ R[11].on = "gmail" /\ R[12].do = "create" /\ R[12].on = "calendar"
      /\ R[13].do = "create" /\ R[13].on = "github"
  BY DEF LiveWriteRequests, Step
<1>4. /\ B[1].do = "execute" /\ B[2].do = "execute" /\ B[3].do = "execute" /\ B[4].do = "metrics"
      /\ B[5].do = "counted" /\ B[5].on = "write" /\ B[5].want = 0 /\ B[6].do = "counted"
  BY DEF LiveWriteBlocked, Do, Step
<1> HIDE DEF R, B
<1>5. /\ LiveStep(3 + 11) = R[11] /\ LiveStep(3 + 12) = R[12] /\ LiveStep(3 + 13) = R[13]
      /\ LiveStep(16 + 4) = B[4] /\ LiveStep(16 + 5) = B[5] /\ LiveStep(16 + 6) = B[6]
  <2>1. 11 \in 1..13 /\ 12 \in 1..13 /\ 13 \in 1..13 /\ 4 \in 1..6 /\ 5 \in 1..6 /\ 6 \in 1..6
    OBVIOUS
  <2> QED BY <2>1, LivePlaces DEF Holds, LiveStep, R, B
<1>6. /\ LiveStep(14) = R[11] /\ LiveStep(15) = R[12] /\ LiveStep(16) = R[13]
      /\ LiveStep(20) = B[4] /\ LiveStep(21) = B[5] /\ LiveStep(22) = B[6]
  BY <1>5
<1>7. ASSUME NEW n \in 1..22
      PROVE  LiveStep(n).do # "approve" /\ (LiveStep(n).do = "execute" => n >= 17)
  <2>1. CASE n \in 1..3
    <3>1. LiveStep(0 + n) = Begin[n] /\ 0 + n = n
      <4>1. 0 + n = n
        OBVIOUS
      <4>2. LiveStep(0 + n) = Begin[n]
        BY <2>1, LivePlaces, Zenon DEF Holds, LiveStep
      <4> QED BY <4>1, <4>2
    <3> QED BY <1>1, <2>1, <3>1
  <2>2. CASE n \in 4..16
    <3>1. n - 3 \in 1..13 /\ 3 + (n - 3) = n
      BY <2>2
    <3>2. LiveStep(3 + (n - 3)) = R[n - 3]
      BY <3>1, LivePlaces DEF Holds, LiveStep, R
    <3> QED BY <1>2, <3>1, <3>2
  <2>3. CASE n \in 17..22
    <3>1. n - 16 \in 1..6 /\ 16 + (n - 16) = n /\ n >= 17
      BY <2>3
    <3>2. LiveStep(16 + (n - 16)) = B[n - 16]
      BY <3>1, LivePlaces DEF Holds, LiveStep, B
    <3>3. \A i \in 1..6 : B[i].do # "approve"
      BY <1>4
    <3> QED BY <3>1, <3>2, <3>3
  <2> QED BY <2>1, <2>2, <2>3
<1>8. \A k \in Kinds : LiveStep(CreatesAt[k]).do = "create" /\ LiveStep(CreatesAt[k]).on = k
  BY <1>3, <1>6 DEF CreatesAt, Kinds
<1> QED BY <1>4, <1>6, <1>7, <1>8

(* The stub never counts anything unsafe in this proof, and a provider that  *)
(* was posted to without an approval was posted to.                          *)
LEMMA TendedAside ==
    ASSUME NEW p, NEW q, Tended(p), DOMAIN q = DOMAIN p, q.stub = p.stub, q.early = p.early
    PROVE  Tended(q)
BY DEF Tended

LEMMA PostedTended ==
    ASSUME NEW p, NEW k \in Kinds, Sound(p), Tended(p)
    PROVE  Tended(Posted(p, k)) /\ Posted(p, k).actions = p.actions
<1> DEFINE r == Post(p.stub, k, p.token[k], TRUE)
           w == Written(p.stub, k)
           u == [p EXCEPT !.stub = r.then]
           q == Posted(p, k)
<1>1. KindOf(k) = k
  BY DEF KindOf, Kinds
<1>2. r.then = w \/ (r.then = p.stub /\ r.status = 401)
  BY DEF Post, Tended, Reply
<1>3. DOMAIN w = DOMAIN p.stub /\ w.unsafe = p.stub.unsafe /\ w.writes = p.stub.writes
      /\ w.write = p.stub.write + 1
  BY DEF Written, Sound, Ledger, Tended
<1>4. p.stub.write \in Nat
  BY DEF Sound, Ledger, Kinds
<1>5. /\ DOMAIN q = DOMAIN p /\ q.stub = r.then /\ q.actions = p.actions
      /\ q.early = p.early \/ r.status \in {200, 201}
  <2>1. /\ DOMAIN u = DOMAIN p /\ u.stub = r.then /\ u.actions = p.actions /\ u.early = p.early
    BY DEF Sound, Tended
  <2>2. q = [u EXCEPT !.early = IF r.status \in {200, 201} /\ p.actions[k].status = "PENDING_APPROVAL"
                                THEN @ \cup {k} ELSE @]
    BY <1>1 DEF Posted
  <2> HIDE DEF u, q, r
  <2>3. r.status \notin {200, 201} => q = [u EXCEPT !.early = u.early]
    BY <2>2
  <2>4. DOMAIN q = DOMAIN u /\ q.stub = u.stub /\ q.actions = u.actions
    BY <2>1, <2>2 DEF Sound, Tended
  <2>5. r.status \notin {200, 201} => q.early = u.early
    BY <2>1, <2>3 DEF Tended
  <2> QED BY <2>1, <2>4, <2>5
<1> HIDE DEF q, w
<1> HIDE DEF r
<1>6. Tended(q)
  <2>1. w.write >= 1
    BY <1>3, <1>4
  <2>2. "early" \in DOMAIN q /\ {"unsafe", "writes"} \subseteq DOMAIN q.stub /\ q.stub.unsafe = 0
    BY <1>2, <1>3, <1>5 DEF Tended
  <2>3. q.stub.writes
    BY <1>2, <1>3, <1>5 DEF Tended
  <2>4. q.early # {} => q.stub.write >= 1
    BY <1>2, <1>3, <1>5, <2>1 DEF Tended
  <2> QED BY <2>2, <2>3, <2>4 DEF Tended
<1> QED BY <1>5, <1>6 DEF q

LEMMA ReceiptedTended ==
    ASSUME NEW p, NEW k \in Kinds, NEW s, Sound(p), Tended(p)
    PROVE  LET q == [p EXCEPT !.actions[k].status = s] IN
           /\ Tended(q)
           /\ \A c \in Kinds : q.actions[c].status = IF c = k THEN s ELSE p.actions[c].status
<1> DEFINE q == [p EXCEPT !.actions[k].status = s]
           a == [p.actions[k] EXCEPT !.status = s]
<1>1. /\ DOMAIN q = DOMAIN p /\ q.stub = p.stub /\ q.early = p.early
      /\ q.actions = [p.actions EXCEPT ![k] = a]
  BY DEF Sound, Tended
<1>2. a.status = s
  BY DEF Sound, Kept
<1>3. \A c \in Kinds : q.actions[c] = IF c = k THEN a ELSE p.actions[c]
  BY <1>1 DEF Sound, Kept
<1> HIDE DEF q, a
<1>4. Tended(q)
  BY <1>1, TendedAside
<1> QED BY <1>2, <1>3, <1>4 DEF q

LEMMA ExecutedTended ==
    ASSUME NEW p, NEW key \in Kinds, Sound(p), Tended(p)
    PROVE  /\ Tended(Executed(p, key).then)
           /\ \A k \in Kinds : Waits(p, k) => Waits(Executed(p, key).then, k)
           /\ Waits(p, key) => Executed(p, key).then = p
<1> DEFINE q == IF p.actions[key].mode = "LIVE" THEN Posted(p, key) ELSE p
<1>1. Tended(q) /\ q.actions = p.actions /\ Sound(q)
  BY PostedTended, PostedGrows DEF Grows, Swells
<1>2. /\ Tended(Receipted(q, key))
      /\ \A c \in Kinds : c # key => Receipted(q, key).actions[c].status = q.actions[c].status
  BY <1>1, ReceiptedTended DEF Receipted
<1> HIDE DEF q
<1>3. \/ Executed(p, key) = [answer |-> "replay", then |-> p]
      \/ Executed(p, key) = [answer |-> "blocked", then |-> p]
      \/ Executed(p, key) = [answer |-> "failed", then |-> q] /\ p.actions[key].status = "APPROVED"
      \/ /\ Executed(p, key) = [answer |-> "executed", then |-> Receipted(q, key)]
         /\ p.actions[key].status = "APPROVED"
  BY Zenon DEF Executed, q
<1>4. \/ Executed(p, key).then = p
      \/ Executed(p, key).then \in {q, Receipted(q, key)} /\ ~Waits(p, key)
  BY <1>3 DEF Waits
<1>5. \A k \in Kinds : k # key /\ Waits(p, k) => Waits(Receipted(q, key), k)
  BY <1>1, <1>2 DEF Waits
<1>6. \A k \in Kinds : Waits(p, k) => Waits(q, k)
  BY <1>1 DEF Waits
<1> QED BY <1>1, <1>2, <1>4, <1>5, <1>6

LEMMA CompleteTended ==
    ASSUME NEW p, NEW k \in Kinds, Sound(p), Tended(p), NEW o \in CompleteWrite(p, k)
    PROVE  Tended(o.then) /\ o.then.actions = p.actions
<1>1. PICK c \in Complete(p, k) : o = [c EXCEPT !.ok = c.ok /\ p.stub.scopes]
  BY DEF CompleteWrite
<1> DEFINE asked == [client |-> "configured", type |-> "authorization_code", complete |-> TRUE]
           g == Grant(p.stub, asked)
           q == [p EXCEPT !.session[k] = "spent"]
           r == [q EXCEPT !.stub = g.then, !.token[k] = g.token]
           u == [q EXCEPT !.token[k] = 1]
           v == AskGrant(p, k, "authorization_code")
<1>2. g.then = p.stub \/ g.then = Issued(p.stub)
  BY DEF Grant, Reply
<1> HIDE DEF g
<1>3. /\ DOMAIN g.then = DOMAIN p.stub /\ g.then.unsafe = p.stub.unsafe
      /\ g.then.writes = p.stub.writes /\ g.then.write = p.stub.write
  BY <1>2 DEF Issued, Sound, Ledger, Tended
<1>4. v \in {r, u, p}
  BY DEF AskGrant, g
<1>5. /\ DOMAIN r = DOMAIN p /\ r.stub = g.then /\ r.early = p.early /\ r.actions = p.actions
  BY DEF Sound, Tended
<1>6. /\ DOMAIN u = DOMAIN p /\ u.stub = p.stub /\ u.early = p.early /\ u.actions = p.actions
  BY DEF Sound, Tended
<1> HIDE DEF r, u, v, q
<1>7. Tended(r) /\ Tended(u)
  BY <1>3, <1>5, <1>6 DEF Tended
<1>8. Tended(v) /\ v.actions = p.actions
  BY <1>4, <1>5, <1>6, <1>7
<1>9. c.then = p \/ c.then = v
  BY DEF Complete, Sees, Outcome, v
<1>10. o.then = c.then
  <2>1. \E b, t : c = [ok |-> b, then |-> t]
    BY DEF Complete, Sees, Outcome
  <2> QED BY <1>1, <2>1
<1> QED BY <1>8, <1>9, <1>10

LEMMA CreateTended ==
    ASSUME NEW p, NEW k \in Kinds, NEW mode, Sound(p), Tended(p), NEW o \in Create(p, k, mode)
    PROVE  /\ Tended(o.then) /\ (o.ok => Waits(o.then, k))
           /\ \A c \in Kinds : Waits(p, c) => Waits(o.then, c)
<1> DEFINE a == [mode |-> mode, status |-> "PENDING_APPROVAL"]
           q == [p EXCEPT !.actions[k] = a]
<1>1. CASE p.actions[k] = NoAction
  <2>1. o = Outcome(TRUE, q)
    BY <1>1 DEF Create, Sees
  <2>2. DOMAIN q = DOMAIN p /\ q.stub = p.stub /\ q.early = p.early /\ q.actions = [p.actions EXCEPT ![k] = a]
    BY DEF Sound, Tended
  <2>3. \A c \in Kinds : q.actions[c] = IF c = k THEN a ELSE p.actions[c]
    BY <2>2 DEF Sound, Kept
  <2> HIDE DEF q
  <2>4. Tended(q)
    BY <2>2, TendedAside
  <2>5. \A c \in Kinds : (c = k \/ Waits(p, c)) => Waits(q, c)
    BY <2>3 DEF Waits
  <2> QED BY <2>1, <2>4, <2>5 DEF Outcome
<1>2. CASE p.actions[k] # NoAction
  <2>1. o = Outcome(p.actions[k].status = "PENDING_APPROVAL", p)
    BY <1>2 DEF Create, Sees
  <2> QED BY <2>1 DEF Outcome, Waits
<1> QED BY <1>1, <1>2

LEMMA WaitEffect ==
    ASSUME NEW p, NEW s, Sound(p), Tended(p), Living(s), s.do # "publish", NEW e \in Effect(p, s)
    PROVE  /\ Tended(e.then)
           /\ s.do # "approve" => \A k \in Kinds : Waits(p, k) => Waits(e.then, k)
           /\ s.do = "create" /\ e.ok => Waits(e.then, s.on)
<1>1. CASE s.do \in Looks
  <2>1. e.then = p /\ s.do # "create"
    BY <1>1, LooksStay DEF Looks
  <2> QED BY <2>1
<1>2. CASE s.do = "metrics"
  <2> DEFINE q == [p EXCEPT !.seen = Metrics(p.stub)]
  <2>1. e.then = q
    BY <1>2, MetricsEffect DEF Outcome
  <2>2. DOMAIN q = DOMAIN p /\ q.stub = p.stub /\ q.early = p.early /\ q.actions = p.actions
    BY DEF Sound, Tended
  <2> HIDE DEF q
  <2>3. Tended(q) /\ \A k \in Kinds : Waits(p, k) => Waits(q, k)
    BY <2>2, TendedAside DEF Waits
  <2> QED BY <1>2, <2>1, <2>3
<1>3. CASE s.do \in OfKind \cup {"register"}
  <2>1. (e.then = p /\ ~e.ok) \/ e \in Answered(p, s)
    <3>1. s.do \notin Local /\ s.do \notin {"health", "metrics", "composeUp", "dockerRun", "account", "tryEnable"}
      BY <1>3 DEF OfKind, Local
    <3>2. Effect(p, s) = IF "orchestrator" \in p.up THEN Answered(p, s) ELSE Sees(s.do = "tryEnable", p)
      BY <3>1 DEF Effect
    <3>3. CASE "orchestrator" \notin p.up
      <4>1. e = Outcome(FALSE, p)
        BY <3>1, <3>2, <3>3 DEF Sees
      <4> QED BY <4>1 DEF Outcome
    <3> QED BY <3>2, <3>3
  <2>2. CASE e.then = p /\ ~e.ok
    BY <2>2
  <2>3. CASE e \in Answered(p, s) /\ s.do \in {"register", "start"}
    <3> DEFINE q == [p EXCEPT !.connections = @ \cup {s.on}]
               r == [p EXCEPT !.session[s.on] = "started"]
    <3>1. e.then \in {p, q, r}
      <4>1. CASE s.do = "register"
        <5>1. e \in Register(p, s.on, s.want)
          BY <2>3, <4>1 DEF Answered
        <5> QED BY <5>1 DEF Register, Sees, Outcome
      <4>2. CASE s.do = "start"
        <5>1. e \in StartOAuth(p, s.on)
          BY <2>3, <4>2 DEF Answered
        <5> QED BY <5>1 DEF StartOAuth, Sees, Outcome
      <4> QED BY <2>3, <4>1, <4>2
    <3>2. /\ DOMAIN q = DOMAIN p /\ q.stub = p.stub /\ q.early = p.early /\ q.actions = p.actions
          /\ DOMAIN r = DOMAIN p /\ r.stub = p.stub /\ r.early = p.early /\ r.actions = p.actions
      BY DEF Sound, Tended
    <3> HIDE DEF q, r
    <3>3. Tended(q) /\ Tended(r)
      BY <3>2, TendedAside
    <3>4. \A k \in Kinds : Waits(p, k) => Waits(q, k) /\ Waits(r, k)
      BY <3>2 DEF Waits
    <3> QED BY <2>3, <3>1, <3>3, <3>4
  <2>4. CASE e \in Answered(p, s) /\ s.do = "completeWrite"
    <3>1. e \in CompleteWrite(p, s.on) /\ s.on \in Kinds
      BY <2>4 DEF Answered, Living, OfKind
    <3> QED BY <2>4, <3>1, CompleteTended DEF Waits
  <2>5. CASE e \in Answered(p, s) /\ s.do = "create"
    <3>1. e \in Create(p, s.on, s.want) /\ s.on \in Kinds
      BY <2>5 DEF Answered, Living, OfKind
    <3> QED BY <3>1, CreateTended
  <2>6. CASE e \in Answered(p, s) /\ s.do = "approve"
    <3>1. e \in Approve(p, s.on) /\ s.on \in Kinds
      BY <2>6 DEF Answered, Living, OfKind
    <3>2. e.then = p \/ e.then = [p EXCEPT !.actions[s.on].status = "APPROVED"]
      BY <3>1 DEF Approve, Sees, Outcome
    <3> QED BY <2>6, <3>1, <3>2, ReceiptedTended
  <2>7. CASE e \in Answered(p, s) /\ s.do = "execute"
    <3>1. e \in Execute(p, s.on, s.want) /\ s.on \in Kinds
      BY <2>7 DEF Answered, Living, OfKind
    <3>2. e.then = Executed(p, s.on).then
      BY <3>1 DEF Execute, Sees, Outcome
    <3> QED BY <2>7, <3>1, <3>2, ExecutedTended
  <2> QED BY <1>3, <2>1, <2>2, <2>3, <2>4, <2>5, <2>6, <2>7 DEF OfKind
<1> QED BY <1>1, <1>2, <1>3 DEF Living

LEMMA LiesTended ==
    ASSUME NEW p, NEW s, Sound(p), Tended(p), Living(s), NEW q \in Lies(p, s)
    PROVE  Tended(q)
<1>1. s.do \in {"completeWrite", "create", "approve", "execute"} /\ s.on \in Kinds
  BY DEF Lies, Living, Looks, OfKind
<1>2. CASE s.do = "completeWrite"
  <2>1. q = [p EXCEPT !.session[s.on] = "spent"]
    BY <1>2 DEF Lies
  <2>2. DOMAIN q = DOMAIN p /\ q.stub = p.stub /\ q.early = p.early
    BY <2>1 DEF Sound, Tended
  <2> QED BY <2>2, TendedAside
<1>3. CASE s.do = "approve"
  BY <1>3 DEF Lies
<1>4. CASE s.do = "create"
  <2>1. PICK o \in Create(p, s.on, s.want) :
           q = Posted(o.then, s.on) \/ q = [o.then EXCEPT !.actions[s.on].status = "APPROVED"]
    BY <1>4 DEF Lies
  <2>2. Sound(o.then) /\ Tended(o.then)
    BY <1>1, CreateGrows, CreateTended DEF Grows, Swells
  <2> DEFINE r == o.then
  <2> HIDE DEF r
  <2>3. Tended(Posted(r, s.on)) /\ Tended([r EXCEPT !.actions[s.on].status = "APPROVED"])
    <3>1. Sound(r) /\ Tended(r)
      BY <2>2 DEF r
    <3> QED BY <1>1, <3>1, PostedTended, ReceiptedTended
  <2> QED BY <2>1, <2>3 DEF r
<1>5. CASE s.do = "execute"
  <2> DEFINE r == Posted(p, s.on)
             t == Posted(r, s.on)
  <2>1. q = Receipted(p, s.on) \/ q = r \/ q = Receipted(t, s.on)
    BY <1>5 DEF Lies
  <2>2. Sound(r) /\ Tended(r)
    BY <1>1, PostedGrows, PostedTended DEF Grows, Swells
  <2>3. Sound(t) /\ Tended(t)
    BY <1>1, <2>2, PostedGrows, PostedTended DEF Grows, Swells
  <2> HIDE DEF r, t
  <2>4. Tended(Receipted(t, s.on)) /\ Tended(Receipted(p, s.on))
    BY <1>1, <2>3, ReceiptedTended DEF Receipted
  <2> QED BY <2>1, <2>2, <2>4
<1> QED BY <1>1, <1>2, <1>3, <1>4, <1>5

LEMMA InitWaitInv == Init => WaitInv
<1> SUFFICES ASSUME Init, Writing
             PROVE  Waiting(pc, platform, lies) /\ Untouched(pc, platform) /\ Tended(platform)
  BY DEF WaitInv
<1>1. pc = 1 /\ platform = Fresh(suite, Broker(suite))
  BY DEF Init
<1>2. suite \in LiveSuites /\ suite # "test account"
  BY Zenon DEF Writing, LiveSuites
<1> DEFINE n == NewStub(suite \in LiveSuites, suite \in LiveSuites)
<1>3. Provider(suite) = n
  BY <1>2, Zenon DEF Provider
<1>4. {"unsafe", "writes"} \subseteq DOMAIN n /\ n.unsafe = 0
  BY DEF NewStub
<1>5. n.writes
  BY <1>2 DEF NewStub
<1> HIDE DEF n
<1>6. "early" \in DOMAIN platform /\ platform.stub = n /\ platform.early = {}
  BY <1>1, <1>3 DEF Fresh
<1>7. Tended(platform)
  BY <1>4, <1>5, <1>6 DEF Tended
<1>8. Waiting(1, platform, lies)
  BY DEF Waiting, CreatesAt, Kinds
<1>9. Untouched(1, platform)
  BY DEF Untouched
<1> QED BY <1>1, <1>7, <1>8, <1>9

LEMMA WaitPrimed ==
    ASSUME suite' = suite, NEW n, NEW p, NEW l, pc' = n, platform' = p, lies' = l,
           Writing => Waiting(n, p, l) /\ (OneKind' => Untouched(n, p)) /\ Tended(p)
    PROVE  WaitInv'
<1>1. Writing' <=> Writing
  BY Zenon DEF Writing
<1> QED BY <1>1 DEF WaitInv, Waiting, Untouched, Tended, Waits

(* What stays of it where the script stands, and where it goes on.           *)
LEMMA WaitingStays ==
    ASSUME NEW n \in Nat, NEW p, NEW q, NEW l, Waiting(n, p, l),
           n <= 22 /\ l = 0 => \A k \in Kinds : Waits(p, k) => Waits(q, k)
    PROVE  /\ Waiting(n, q, l)
           /\ (\A k \in Kinds : n = CreatesAt[k] => Waits(q, k)) => Waiting(n + 1, q, l)
<1>1. \A k \in Kinds : CreatesAt[k] \in Nat
  BY DEF CreatesAt, Kinds
<1>2. Waiting(n, q, l)
  BY DEF Waiting
<1>3. ASSUME \A k \in Kinds : n = CreatesAt[k] => Waits(q, k)
      PROVE  Waiting(n + 1, q, l)
  <2>1. \A k \in Kinds : CreatesAt[k] < n + 1 => CreatesAt[k] < n \/ n = CreatesAt[k]
    BY <1>1
  <2>2. n + 1 <= 22 => n <= 22
    OBVIOUS
  <2> QED BY <1>2, <1>3, <2>1, <2>2 DEF Waiting
<1> QED BY <1>2, <1>3

LEMMA StepWaitInv == IInv /\ LiveInv /\ WaitInv /\ [Next]_vars => WaitInv'
<1> SUFFICES ASSUME IInv, LiveInv, WaitInv, [Next]_vars PROVE WaitInv'
  OBVIOUS
<1>1. suite' = suite
  BY DEF Next, Proceed, TakeStep, Goes, Raise, Advance, Preflight, Publish, Again, Interrupted, LateExecute,
         Misled, Crash, Finished, vars, envVars
<1>2. CASE ~Writing
  <2>1. ~Writing'
    BY <1>1, <1>2, Zenon DEF Writing
  <2> QED BY <2>1 DEF WaitInv
<1> SUFFICES ASSUME Writing PROVE WaitInv'
  BY <1>2
<1>3. /\ Waiting(pc, platform, lies) /\ (OneKind => Untouched(pc, platform)) /\ Tended(platform)
      /\ Sound(platform) /\ pc \in Nat \ {0} /\ lies \in Nat /\ faults \in Nat
  BY DEF WaitInv, LiveInv, IInv, ConnectorTypeOK
<1>4. ASSUME UNCHANGED <<pc, platform, faults, lies>> PROVE WaitInv'
  <2>1. OneKind' <=> OneKind
    BY <1>4 DEF OneKind
  <2> QED BY <1>1, <1>3, <1>4, <2>1, WaitPrimed
<1>5. CASE Preflight \/ Publish \/ Finished \/ UNCHANGED vars
  BY <1>4, <1>5 DEF Preflight, Publish, Finished, vars, procVars, budget
<1>6. ASSUME Running
      PROVE  /\ pc \in 1..42 /\ Current = LiveStep(pc) /\ Living(Current)
             /\ pc <= 22 => Current.do # "approve"
             /\ pc = 20 => Current.do = "metrics"
             /\ pc \in {21, 22} => Current.do = "counted" /\ Current.do \in Looks
  <2>1. pc \in 1..42 /\ Current = LiveStep(pc) /\ Living(Current)
    BY <1>6, LiveCurrent
  <2>2. pc <= 22 => pc \in 1..22
    BY <2>1
  <2> QED BY <2>1, <2>2, EarlyMarks DEF Looks
<1>7. ASSUME Running, Current.do # "publish", NEW e \in Effect(platform, Current)
      PROVE  /\ Tended(e.then) /\ Waiting(pc, e.then, lies)
             /\ e.ok => Waiting(pc + 1, e.then, lies)
             /\ OneKind => Untouched(pc, e.then) /\ (e.ok => Untouched(pc + 1, e.then))
  <2>1. /\ Tended(e.then)
        /\ Current.do # "approve" => \A k \in Kinds : Waits(platform, k) => Waits(e.then, k)
        /\ Current.do = "create" /\ e.ok => Waits(e.then, Current.on)
    BY <1>3, <1>6, <1>7, WaitEffect
  <2>2. pc <= 22 /\ lies = 0 => \A k \in Kinds : Waits(platform, k) => Waits(e.then, k)
    BY <1>6, <1>7, <2>1
  <2>3. e.ok => \A k \in Kinds : pc = CreatesAt[k] => Waits(e.then, k)
    BY <1>6, <1>7, <2>1, EarlyMarks
  <2>4. Waiting(pc, e.then, lies) /\ (e.ok => Waiting(pc + 1, e.then, lies))
    BY <1>3, <2>2, <2>3, WaitingStays
  <2>5. pc \in {21, 22} => e.then = platform
    BY <1>6, <1>7, LooksStay
  <2>6. pc = 20 => e.then.seen.write = e.then.stub.write
    <3> SUFFICES ASSUME pc = 20 PROVE e.then.seen.write = e.then.stub.write
      OBVIOUS
    <3>1. e.then = [platform EXCEPT !.seen = Metrics(platform.stub)]
      BY <1>6, <1>7, MetricsEffect DEF Outcome
    <3> QED BY <1>3, <3>1 DEF Sound, Metrics
  <2>7. pc = 21 /\ e.ok => e.then.seen.write = 0
    <3> SUFFICES ASSUME pc = 21, e.ok PROVE e.then.seen.write = 0
      OBVIOUS
    <3>1. Current.do = "counted" /\ Current.on = "write" /\ Current.want = 0
      BY <1>6, <1>7, EarlyMarks
    <3>2. e = Outcome(platform.seen["write"] = 0, platform)
      BY <1>7, <3>1, CountedEffect
    <3> QED BY <3>2 DEF Outcome
  <2>8. /\ pc \in 21..22 => pc \in {21, 22}
        /\ pc + 1 \in 21..22 => pc \in {20, 21}
        /\ pc + 1 = 22 => pc = 21
        /\ pc \in {21, 22} => pc \in 21..22
    BY <1>3
  <2>9. OneKind => Untouched(pc, e.then)
    BY <1>3, <2>5, <2>8 DEF Untouched
  <2>10. OneKind /\ e.ok => Untouched(pc + 1, e.then)
    BY <1>3, <2>5, <2>6, <2>7, <2>8 DEF Untouched
  <2> QED BY <2>1, <2>4, <2>9, <2>10
<1>8. CASE TakeStep
  <2>1. Running /\ Current.do # "publish" /\ UNCHANGED <<faults, lies>>
    BY <1>8 DEF TakeStep, budget
  <2>2. PICK e \in Effect(platform, Current) : Goes(e)
    BY <1>8 DEF TakeStep
  <2>3. OneKind' <=> OneKind
    BY <2>1 DEF OneKind
  <2>4. CASE e.ok /\ Advance(e.then)
    <3>1. pc' = pc + 1 /\ platform' = e.then
      BY <2>4 DEF Advance
    <3> QED BY <1>1, <1>7, <2>1, <2>3, <2>4, <3>1, WaitPrimed
  <2>5. CASE Raise(e.then)
    <3>1. pc' = pc /\ platform' = e.then
      BY <2>5 DEF Raise
    <3> QED BY <1>1, <1>7, <2>1, <2>3, <3>1, WaitPrimed
  <2> QED BY <2>2, <2>4, <2>5 DEF Goes
<1>9. CASE Misled
  <2>1. Running /\ lies' = lies + 1
    BY <1>9 DEF Misled
  <2>2. PICK t \in Lies(platform, Current) : Goes(Outcome(TRUE, t))
    BY <1>9 DEF Misled
  <2>3. Tended(t) /\ lies' # 0
    BY <1>3, <1>6, <2>1, <2>2, LiesTended
  <2>4. Current.do \notin Looks /\ Current.do # "metrics"
    <3>1. Current.do \notin Looks
      BY <2>2, LooksStay
    <3>2. Current.do = "metrics" => Lies(platform, Current) = {}
      BY DEF Lies
    <3> QED BY <2>2, <3>1, <3>2
  <2>5. pc \notin {20, 21, 22}
    BY <1>6, <2>1, <2>4
  <2>6. platform' = t /\ (pc' = pc + 1 \/ pc' = pc)
    <3>1. Outcome(TRUE, t).then = t
      BY DEF Outcome
    <3> QED BY <2>2, <3>1 DEF Goes, Advance, Raise
  <2>7. pc' \notin 21..22 /\ pc' # 22
    BY <1>3, <2>5, <2>6
  <2>8. Waiting(pc', t, lies') /\ Untouched(pc', t)
    BY <2>3, <2>7 DEF Waiting, Untouched
  <2> QED BY <1>1, <2>3, <2>6, <2>8, WaitPrimed
<1>10. CASE Interrupted
  <2>1. Running /\ lies' = lies /\ faults' = faults + 1
    BY <1>10 DEF Interrupted, Fault
  <2>2. OneKind' => OneKind
    BY <1>3, <2>1 DEF OneKind
  <2>3. PICK t : /\ Raise(t)
                 /\ \/ t = platform
                    \/ Current.do # "publish" /\ t \in {e.then : e \in Effect(platform, Current)}
                    \/ t \in Partial(platform, Current)
    BY <1>10 DEF Interrupted
  <2>4. pc' = pc /\ platform' = t
    BY <2>3 DEF Raise
  <2>5. CASE t = platform
    BY <1>1, <1>3, <2>1, <2>2, <2>4, <2>5, WaitPrimed
  <2>6. CASE Current.do # "publish" /\ t \in {e.then : e \in Effect(platform, Current)}
    BY <1>1, <1>7, <2>1, <2>2, <2>4, <2>6, WaitPrimed
  <2>7. CASE t \in Partial(platform, Current)
    <3>1. Current.do = "execute" /\ t = Posted(platform, Current.on)
      BY <2>7 DEF Partial
    <3>2. Current.on \in Kinds /\ pc \notin {21, 22}
      BY <1>6, <2>1, <3>1 DEF Living, OfKind, Looks
    <3>3. Tended(t) /\ t.actions = platform.actions
      BY <1>3, <3>1, <3>2, PostedTended
    <3>4. Waiting(pc, t, lies)
      BY <1>3, <3>3 DEF Waiting, Waits
    <3>5. Untouched(pc, t)
      <4>1. pc \notin 21..22
        BY <3>2
      <4> QED BY <3>2, <4>1 DEF Untouched
    <3> QED BY <1>1, <2>1, <2>4, <3>3, <3>4, <3>5, WaitPrimed
  <2> QED BY <2>3, <2>5, <2>6, <2>7
<1>11. CASE LateExecute
  <2>1. PICK x \in late : platform' = Executed(platform, x.key).then
    <3>1. suite # "test account"
      BY Zenon DEF Writing
    <3> HIDE DEF Writing
    <3> QED BY <1>11, <3>1, Zenon DEF LateExecute
  <2>2. UNCHANGED <<pc, faults, lies>>
    BY <1>11 DEF LateExecute, procVars, budget
  <2>3. x.key \in Kinds /\ faults # 0
    BY DEF LiveInv
  <2>4. /\ Tended(platform')
        /\ \A k \in Kinds : Waits(platform, k) => Waits(platform', k)
        /\ Waits(platform, x.key) => platform' = platform
    BY <1>3, <2>1, <2>3, ExecutedTended
  <2>5. Waiting(pc, platform', lies)
    BY <2>4, <1>3, WaitingStays
  <2>6. OneKind' => Untouched(pc, platform')
    <3> SUFFICES ASSUME OneKind' PROVE Untouched(pc, platform')
      OBVIOUS
    <3>1. OneKind /\ lies = 0
      BY <2>2, <2>3 DEF OneKind
    <3>2. ASSUME pc \in 21..22 PROVE platform' = platform
      <4>1. CreatesAt[x.key] < pc /\ pc <= 22
        <5>1. CreatesAt[x.key] \in {14, 15, 16}
          BY <2>3 DEF CreatesAt, Kinds
        <5> QED BY <3>2, <5>1
      <4> QED BY <1>3, <2>3, <2>4, <3>1, <4>1 DEF Waiting
    <3>3. pc = 22 => pc \in 21..22
      OBVIOUS
    <3> QED BY <1>3, <3>1, <3>2, <3>3 DEF Untouched
  <2> QED BY <1>1, <2>2, <2>4, <2>5, <2>6, WaitPrimed
<1>12. CASE Again
  <2>1. pc' = 1 /\ UNCHANGED <<faults, lies>>
    BY <1>12 DEF Again, budget
  <2> DEFINE up == IF suite \in {"external", "boundary"} THEN platform.up ELSE {"orchestrator"}
             actions == IF suite = "test account" THEN [k \in Keys |-> NoAction] ELSE platform.actions
  <2>2. platform' = [platform EXCEPT !.up = up, !.actions = actions, !.answers = {}]
    BY <1>12, Zenon DEF Again
  <2> HIDE DEF up, actions
  <2>3. DOMAIN platform' = DOMAIN platform /\ platform'.stub = platform.stub /\ platform'.early = platform.early
    BY <1>3, <2>2 DEF Sound, Tended
  <2>4. Tended(platform')
    BY <1>3, <2>3, TendedAside
  <2>5. Waiting(1, platform', lies) /\ Untouched(1, platform')
    BY DEF Waiting, Untouched, CreatesAt, Kinds
  <2> QED BY <1>1, <2>1, <2>4, <2>5, WaitPrimed
<1>13. CASE \E c \in {"orchestrator", "core", "runtime"} : Crash(c)
  <2>1. PICK c \in {"orchestrator", "core", "runtime"} : Crash(c)
    BY <1>13
  <2>2. pc' = pc /\ lies' = lies /\ faults' = faults + 1 /\ platform' = [platform EXCEPT !.up = @ \ {c}]
    BY <2>1 DEF Crash, Fault, procVars
  <2>3. /\ DOMAIN platform' = DOMAIN platform /\ platform'.stub = platform.stub /\ platform'.early = platform.early
        /\ platform'.actions = platform.actions /\ platform'.seen = platform.seen
    BY <1>3, <2>2 DEF Sound, Tended
  <2>4. Tended(platform')
    BY <1>3, <2>3, TendedAside
  <2>5. Waiting(pc, platform', lies) /\ (OneKind => Untouched(pc, platform'))
    BY <1>3, <2>3 DEF Waiting, Waits, Untouched
  <2>6. OneKind' => OneKind
    BY <1>3, <2>2 DEF OneKind
  <2> QED BY <1>1, <2>2, <2>4, <2>5, <2>6, WaitPrimed
<1> QED BY <1>5, <1>8, <1>9, <1>10, <1>11, <1>12, <1>13 DEF Next, Proceed
-----------------------------------------------------------------------------
(* Who claims what.  Four contracts let a proof record no claim but that of  *)
(* a replay, which outside the write proof says nothing.                     *)
Replay == "live.execution-replay-idempotent"
LEMMA Undeclared ==
    ASSUME suite \in {"approved", "test account", "read only", "executive"}, NEW id \in Claims, Declared(id)
    PROVE  id = Replay /\ ~Writing
<1>1. ApprovedContract \cap Claims = {}
  BY DEF ApprovedContract, Claims
<1>2. ReadOnlyContract \cap Claims = {}
  BY DEF ReadOnlyContract, Claims
<1>3. ExecutiveContract \cap Claims = {}
  BY DEF ExecutiveContract, Claims
<1>4. TestAccountContract \cap Claims \subseteq {Replay}
  BY DEF TestAccountContract, Claims, Replay
<1>5. /\ Contract("approved") = ApprovedContract /\ Contract("read only") = ReadOnlyContract
      /\ Contract("executive") = ExecutiveContract /\ Contract("test account") = TestAccountContract
  BY DEF Contract
<1>6. "service.orchestrator.health" \in ApprovedContract
  BY DEF ApprovedContract
<1>7. "live.truth-boundary" \in ReadOnlyContract
  BY DEF ReadOnlyContract
<1>8. "executive.truth-boundary" \in ExecutiveContract
  BY DEF ExecutiveContract
<1>9. "live.truth-boundary" \in TestAccountContract
  BY DEF TestAccountContract
<1>10. id # "" /\ (Contract(suite) = {} \/ id \in Contract(suite))
  <2>1. id # ""
    BY DEF Claims
  <2> QED BY <2>1 DEF Declared
<1>11. ~Writing
  BY Zenon DEF Writing
<1>12. suite \in {"approved", "read only", "executive"} => FALSE
  BY <1>1, <1>2, <1>3, <1>5, <1>6, <1>7, <1>8, <1>10, Zenon
<1>13. suite = "test account" => id = Replay
  BY <1>4, <1>5, <1>9, <1>10, Zenon
<1> QED BY <1>11, <1>12, <1>13

(* The external integration claims nothing of the kind.                      *)
Mute(p, n) == Part(p, n) /\ \A i \in 1..n : Silent(p[i])

LEMMA MuteJoined ==
    ASSUME NEW a, NEW b, NEW m \in Nat, NEW k \in Nat, NEW t, t = m + k, Mute(a, m), Mute(b, k)
    PROVE  Mute(a \o b, t)
<1>1. Part(a \o b, t) /\ Holds(a \o b, 0, a, m) /\ Holds(a \o b, m, b, k)
  BY PartsJoined DEF Mute
<1> DEFINE q == a \o b
<1> HIDE DEF q
<1>2. ASSUME NEW i \in 1..t PROVE Silent(q[i])
  <2>1. CASE i \in 1..m
    <3>1. 0 + i = i
      OBVIOUS
    <3>2. q[0 + i] = a[i]
      BY <1>1, <2>1 DEF Holds, q
    <3> QED BY <2>1, <3>1, <3>2 DEF Mute
  <2>2. CASE i \notin 1..m
    <3>1. i - m \in 1..k /\ m + (i - m) = i
      BY <2>2
    <3>2. q[m + (i - m)] = b[i - m]
      BY <1>1, <3>1 DEF Holds, q
    <3> QED BY <3>1, <3>2 DEF Mute
  <2> QED BY <2>1, <2>2
<1> QED BY <1>1, <1>2 DEF Mute, q

LEMMA ExternalBeforeIsMute == Mute(ExternalBefore, 11)
<1>1. Part(ExternalBefore, 11)
  <2>1. ExternalBefore = [n \in 1..11 |-> ExternalBefore[n]]
    BY DEF ExternalBefore
  <2> QED BY <2>1, LiteralScript DEF Part
<1>2. /\ Silent(ExternalBefore[1]) /\ Silent(ExternalBefore[2]) /\ Silent(ExternalBefore[3])
      /\ Silent(ExternalBefore[4]) /\ Silent(ExternalBefore[5]) /\ Silent(ExternalBefore[6])
      /\ Silent(ExternalBefore[7]) /\ Silent(ExternalBefore[8]) /\ Silent(ExternalBefore[9])
      /\ Silent(ExternalBefore[10]) /\ Silent(ExternalBefore[11])
  BY DEF ExternalBefore, Step, Do, Proves, Notes, Health, Silent, Claims
<1> QED BY <1>1, <1>2 DEF Mute

LEMMA ExternalRuntimeIsMute == Mute(ExternalRuntime, 14)
<1>1. Part(ExternalRuntime, 14)
  <2>1. ExternalRuntime = [n \in 1..14 |-> ExternalRuntime[n]]
    BY DEF ExternalRuntime
  <2> QED BY <2>1, LiteralScript DEF Part
<1>2. /\ Silent(ExternalRuntime[1]) /\ Silent(ExternalRuntime[2])
      /\ Silent(ExternalRuntime[3]) /\ Silent(ExternalRuntime[4])
      /\ Silent(ExternalRuntime[5]) /\ Silent(ExternalRuntime[6])
      /\ Silent(ExternalRuntime[7]) /\ Silent(ExternalRuntime[8])
      /\ Silent(ExternalRuntime[9]) /\ Silent(ExternalRuntime[10])
      /\ Silent(ExternalRuntime[11]) /\ Silent(ExternalRuntime[12])
      /\ Silent(ExternalRuntime[13]) /\ Silent(ExternalRuntime[14])
  BY DEF ExternalRuntime, Step, Do, Proves, Notes, Health, Silent, Claims
<1> QED BY <1>1, <1>2 DEF Mute

LEMMA ExternalIsMute == \A n \in DOMAIN Script("external") : Silent(Script("external")[n])
<1>1. Mute(ExternalBefore, 11) /\ Mute(ExternalRuntime, 14)
  BY ExternalBeforeIsMute, ExternalRuntimeIsMute
<1>2. Mute(Unchecked, 1)
  BY UncheckedFits DEF Fits, Mute
<1> DEFINE a == ExternalBefore \o ExternalRuntime
           q == a \o Unchecked
<1>3. Mute(a, 25)
  <2>1. 11 \in Nat /\ 14 \in Nat /\ 25 = 11 + 14
    OBVIOUS
  <2> QED BY <1>1, <2>1, MuteJoined
<1> HIDE DEF a
<1>4. Mute(q, 26)
  <2>1. 25 \in Nat /\ 1 \in Nat /\ 26 = 25 + 1
    OBVIOUS
  <2> QED BY <1>2, <1>3, <2>1, MuteJoined
<1>5. Script("external") = q
  BY DEF Script, ExternalScript, q, a
<1> HIDE DEF q
<1>6. DOMAIN q = 1..26
  <2>1. PICK S : q \in Seq(S)
    BY <1>4 DEF Mute, Part, IsScript
  <2> HIDE <2>1
  <2> QED BY <1>4, <2>1 DEF Mute, Part
<1> QED BY <1>4, <1>5, <1>6 DEF Mute

(* The write proof makes three claims.                                       *)
LEMMA LiveClaims ==
    /\ \A n \in 1..42 : n \in {22, 34, 37} \/ Silent(LiveStep(n))
    /\ LiveStep(22).id = "live.provider-untouched-before-approval" /\ LiveStep(22).do = "counted"
    /\ LiveStep(34).id = "live.provider-no-unsafe-mutations" /\ LiveStep(34).do = "counted"
    /\ LiveStep(37).id = Replay /\ LiveStep(37).do = "counted"
<1>1. \A n \in 1..3 : Silent(Begin[n])
  BY BeginFits DEF Fits
<1>2. \A n \in 1..2 : Silent(CompareBoth[n])
  BY CompareBothFits DEF Fits
<1>3. \A n \in 1..13 : Silent(LiveWriteRequests[n])
  <2>1. /\ Silent(LiveWriteRequests[1]) /\ Silent(LiveWriteRequests[2])
        /\ Silent(LiveWriteRequests[3]) /\ Silent(LiveWriteRequests[4])
        /\ Silent(LiveWriteRequests[5]) /\ Silent(LiveWriteRequests[6])
        /\ Silent(LiveWriteRequests[7]) /\ Silent(LiveWriteRequests[8])
        /\ Silent(LiveWriteRequests[9]) /\ Silent(LiveWriteRequests[10])
        /\ Silent(LiveWriteRequests[11]) /\ Silent(LiveWriteRequests[12])
        /\ Silent(LiveWriteRequests[13])
    BY DEF LiveWriteRequests, Step, Do, Proves, Notes, Silent, Claims
  <2> QED BY <2>1
<1>4. \A n \in 1..6 : n = 6 \/ Silent(LiveWriteBlocked[n])
  <2>1. /\ Silent(LiveWriteBlocked[1]) /\ Silent(LiveWriteBlocked[2])
        /\ Silent(LiveWriteBlocked[3]) /\ Silent(LiveWriteBlocked[4])
        /\ Silent(LiveWriteBlocked[5])
    BY DEF LiveWriteBlocked, Step, Do, Proves, Notes, Silent, Claims
  <2> QED BY <2>1
<1>5. \A n \in 1..12 : n = 12 \/ Silent(LiveWriteExecutions[n])
  <2>1. /\ Silent(LiveWriteExecutions[1]) /\ Silent(LiveWriteExecutions[2])
        /\ Silent(LiveWriteExecutions[3]) /\ Silent(LiveWriteExecutions[4])
        /\ Silent(LiveWriteExecutions[5]) /\ Silent(LiveWriteExecutions[6])
        /\ Silent(LiveWriteExecutions[7]) /\ Silent(LiveWriteExecutions[8])
        /\ Silent(LiveWriteExecutions[9]) /\ Silent(LiveWriteExecutions[10])
        /\ Silent(LiveWriteExecutions[11])
    BY DEF LiveWriteExecutions, Step, Do, Proves, Notes, Silent, Claims
  <2> QED BY <2>1
<1>6. \A n \in 1..6 : n = 3 \/ Silent(LiveWriteAudit[n])
  <2>1. /\ Silent(LiveWriteAudit[1]) /\ Silent(LiveWriteAudit[2])
        /\ Silent(LiveWriteAudit[4]) /\ Silent(LiveWriteAudit[5])
        /\ Silent(LiveWriteAudit[6])
    BY DEF LiveWriteAudit, Step, Do, Proves, Notes, Silent, Claims
  <2> QED BY <2>1
<1>7. /\ LiveWriteBlocked[6].id = "live.provider-untouched-before-approval" /\ LiveWriteBlocked[6].do = "counted"
      /\ LiveWriteExecutions[12].id = "live.provider-no-unsafe-mutations" /\ LiveWriteExecutions[12].do = "counted"
      /\ LiveWriteAudit[3].id = Replay /\ LiveWriteAudit[3].do = "counted"
  BY DEF LiveWriteBlocked, LiveWriteExecutions, LiveWriteAudit, Step, Replay
<1>8. /\ LiveStep(16 + 6) = LiveWriteBlocked[6] /\ LiveStep(22 + 12) = LiveWriteExecutions[12]
      /\ LiveStep(34 + 3) = LiveWriteAudit[3]
  <2>1. 6 \in 1..6 /\ 12 \in 1..12 /\ 3 \in 1..6
    OBVIOUS
  <2> QED BY <2>1, LivePlaces DEF Holds, LiveStep
<1>9. LiveStep(22) = LiveWriteBlocked[6] /\ LiveStep(34) = LiveWriteExecutions[12] /\ LiveStep(37) = LiveWriteAudit[3]
  BY <1>8
<1>10. ASSUME NEW n \in 1..42 PROVE n \in {22, 34, 37} \/ Silent(LiveStep(n))
  <2>1. CASE n \in 1..3
    <3>1. n - 0 \in 1..3 /\ 0 + (n - 0) = n
      BY <2>1
    <3>2. LiveStep(0 + (n - 0)) = Begin[n - 0]
      BY <3>1, LivePlaces DEF Holds, LiveStep
    <3> QED BY <1>1, <3>1, <3>2
  <2>2. CASE n \in 4..16
    <3>1. n - 3 \in 1..13 /\ 3 + (n - 3) = n
      BY <2>2
    <3>2. LiveStep(3 + (n - 3)) = LiveWriteRequests[n - 3]
      BY <3>1, LivePlaces DEF Holds, LiveStep
    <3> QED BY <1>3, <3>1, <3>2
  <2>3. CASE n \in 17..22
    <3>1. n - 16 \in 1..6 /\ 16 + (n - 16) = n
      BY <2>3
    <3>2. LiveStep(16 + (n - 16)) = LiveWriteBlocked[n - 16]
      BY <3>1, LivePlaces DEF Holds, LiveStep
    <3>3. n - 16 = 6 => n = 22
      OBVIOUS
    <3> QED BY <1>4, <3>1, <3>2, <3>3
  <2>4. CASE n \in 23..34
    <3>1. n - 22 \in 1..12 /\ 22 + (n - 22) = n
      BY <2>4
    <3>2. LiveStep(22 + (n - 22)) = LiveWriteExecutions[n - 22]
      BY <3>1, LivePlaces DEF Holds, LiveStep
    <3>3. n - 22 = 12 => n = 34
      OBVIOUS
    <3> QED BY <1>5, <3>1, <3>2, <3>3
  <2>5. CASE n \in 35..40
    <3>1. n - 34 \in 1..6 /\ 34 + (n - 34) = n
      BY <2>5
    <3>2. LiveStep(34 + (n - 34)) = LiveWriteAudit[n - 34]
      BY <3>1, LivePlaces DEF Holds, LiveStep
    <3>3. n - 34 = 3 => n = 37
      OBVIOUS
    <3> QED BY <1>6, <3>1, <3>2, <3>3
  <2>6. CASE n \in 41..42
    <3>1. n - 40 \in 1..2 /\ 40 + (n - 40) = n
      BY <2>6
    <3>2. LiveStep(40 + (n - 40)) = CompareBoth[n - 40]
      BY <3>1, LivePlaces DEF Holds, LiveStep
    <3> QED BY <1>2, <3>1, <3>2
  <2> QED BY <2>1, <2>2, <2>3, <2>4, <2>5, <2>6
<1> QED BY <1>7, <1>9, <1>10
-----------------------------------------------------------------------------
(* A check is recorded by the step that names it, when that passes.          *)
LEMMA NewCheck ==
    ASSUME [Next]_vars, NEW id, id \in checks' \ checks
    PROVE  /\ suite' = suite /\ faults' = faults /\ Running /\ id = Current.id /\ Declared(id)
           /\ \/ /\ lies' = lies /\ Current.do # "publish"
                 /\ \E e \in Effect(platform, Current) : e.ok /\ platform' = e.then
              \/ Lies(platform, Current) # {}
<1>1. ASSUME NEW t, Advance(t)
      PROVE  suite' = suite /\ id = Current.id /\ platform' = t
  BY <1>1 DEF Advance, envVars
<1>2. ASSUME NEW t, Raise(t)
      PROVE  FALSE
  BY <1>2 DEF Raise
<1>3. CASE TakeStep
  <2>1. PICK e \in Effect(platform, Current) : Goes(e)
    BY <1>3 DEF TakeStep
  <2>2. e.ok /\ Declared(Current.id) /\ Advance(e.then)
    BY <1>2, <2>1 DEF Goes
  <2> QED BY <1>1, <1>3, <2>2 DEF TakeStep, budget
<1>4. CASE Misled
  <2>1. PICK t \in Lies(platform, Current) : Goes(Outcome(TRUE, t))
    BY <1>4 DEF Misled
  <2>2. Declared(Current.id) /\ \E u : Advance(u)
    BY <1>2, <2>1 DEF Goes
  <2> QED BY <1>1, <1>4, <2>1, <2>2 DEF Misled
<1>5. CASE Interrupted
  BY <1>2, <1>5 DEF Interrupted
<1>6. CASE Again
  BY <1>6 DEF Again
<1>7. CASE Preflight \/ Publish \/ LateExecute \/ Finished \/ UNCHANGED vars
  BY <1>7 DEF Preflight, Publish, LateExecute, Finished, vars, procVars
<1>8. ASSUME NEW c, Crash(c) PROVE FALSE
  BY <1>8 DEF Crash, procVars
<1> QED BY <1>3, <1>4, <1>5, <1>6, <1>7, <1>8 DEF Next, Proceed

(* What is true stays so where nothing has changed.                          *)
LEMMA TruthStays ==
    ASSUME NEW id, suite' = suite, platform' = platform
    PROVE  Truth(id)' = Truth(id)
<1>1. Writing' = Writing
  BY DEF Writing
<1> QED BY <1>1 DEF Truth, Once
-----------------------------------------------------------------------------
(* Where the claims are made.                                                *)
LEMMA FitsClaim ==
    ASSUME NEW W, NEW C, NEW q, NEW n \in Nat, Fits(W, C, q, n), NEW i \in DOMAIN q, q[i].id \in Claims
    PROVE  i \in C
<1>1. \E S : q \in Seq(S)
  BY DEF Fits, Part, IsScript
<1>2. i \in 1..n
  BY <1>1 DEF Fits, Part
<1> QED BY <1>2 DEF Fits, Silent

Claiming(s, n) ==
    \/ s = "integration" /\ n = 14
    \/ s = "adapter" /\ n = 22
    \/ s = "provider" /\ n \in {16, 24, 26}
    \/ s = "sync" /\ n \in {22, 28}
    \/ s = "boundary" /\ n \in {8, 9, 10, 11}

LEMMA MildClaims ==
    ASSUME Mild, Running, Current.id \in Claims
    PROVE  Claiming(suite, pc) /\ Current = Script(suite)[pc] /\ Current.do \in Idle
<1>1. Current = Script(suite)[pc] /\ pc \in DOMAIN Script(suite)
  BY DEF Current, Running
<1>2. 21 \in Nat /\ 27 \in Nat /\ 29 \in Nat /\ 34 \in Nat /\ 22 \in Nat
  OBVIOUS
<1>3. CASE suite = "integration"
  <2>1. pc \in {14}
    BY <1>1, <1>2, <1>3, IntegrationFits, FitsClaim
  <2> QED BY <1>1, <1>3, <2>1, IntegrationMarks DEF Claiming, Idle
<1>4. CASE suite = "adapter"
  <2>1. pc \in {22}
    BY <1>1, <1>2, <1>4, AdapterFits, FitsClaim
  <2> QED BY <1>1, <1>4, <2>1, AdapterMarks DEF Claiming, Idle
<1>5. CASE suite = "provider"
  <2>1. pc \in {16, 24, 26}
    BY <1>1, <1>2, <1>5, ProviderFits, FitsClaim
  <2> QED BY <1>1, <1>5, <2>1, ProviderMarks DEF Claiming, Idle
<1>6. CASE suite = "sync"
  <2>1. pc \in {22, 28}
    BY <1>1, <1>2, <1>6, SyncFits, FitsClaim
  <2> QED BY <1>1, <1>6, <2>1, SyncMarks DEF Claiming, Idle
<1>7. CASE suite = "boundary"
  <2>1. pc \in {8, 9, 10, 11}
    BY <1>1, <1>2, <1>7, BoundaryFits, FitsClaim
  <2> QED BY <1>1, <1>7, <2>1, BoundaryMarks DEF Claiming, Idle
<1> QED BY <1>3, <1>4, <1>5, <1>6, <1>7 DEF Mild

(* A claim is made by a step that only looks, in one of these proofs or in   *)
(* the write proof.                                                          *)
LEMMA ClaimMade ==
    ASSUME IInv, [Next]_vars, NEW id, id \in checks' \ checks, id \in Claims, id = Replay => Writing
    PROVE  /\ UNCHANGED <<suite, platform, faults, lies>> /\ Running /\ id = Current.id
           /\ \E e \in Effect(platform, Current) : e.ok
           /\ \/ Mild /\ Claiming(suite, pc) /\ Current = Script(suite)[pc]
              \/ Writing /\ pc \in {22, 34, 37} /\ Current = LiveStep(pc)
<1>1. /\ suite' = suite /\ faults' = faults /\ Running /\ id = Current.id /\ Declared(id)
      /\ \/ /\ lies' = lies /\ Current.do # "publish"
            /\ \E e \in Effect(platform, Current) : e.ok /\ platform' = e.then
         \/ Lies(platform, Current) # {}
  BY NewCheck
<1>2. ASSUME (\A e \in Effect(platform, Current) : e.then = platform) /\ Lies(platform, Current) = {}
      PROVE  UNCHANGED <<platform, lies>> /\ \E e \in Effect(platform, Current) : e.ok
  BY <1>1, <1>2
<1>3. CASE Mild
  <2>1. Claiming(suite, pc) /\ Current = Script(suite)[pc] /\ Current.do \in Idle
    BY <1>1, <1>3, MildClaims
  <2> QED BY <1>1, <1>2, <1>3, <2>1, IdleEffect
<1>4. CASE Writing
  <2>1. pc \in 1..42 /\ Current = LiveStep(pc)
    BY <1>1, <1>4, LiveCurrent
  <2>2. pc \in {22, 34, 37}
    BY <1>1, <2>1, LiveClaims DEF Silent
  <2>3. Current.do \in Looks
    BY <2>1, <2>2, LiveClaims DEF Looks
  <2> QED BY <1>1, <1>2, <1>4, <2>1, <2>2, <2>3, LooksStay
<1>5. suite \notin {"approved", "test account", "read only", "executive"}
  BY <1>1, Undeclared
<1>6. suite # "external"
  <2> SUFFICES ASSUME suite = "external" PROVE FALSE
    OBVIOUS
  <2>1. pc \in DOMAIN Script("external") /\ Current = Script("external")[pc]
    BY <1>1 DEF Running, Current
  <2> QED BY <1>1, <2>1, ExternalIsMute DEF Silent
<1>7. suite \in Suites
  BY DEF IInv, ConnectorTypeOK
<1>8. Mild \/ Writing
  BY <1>5, <1>6, <1>7, Zenon DEF Suites, Mild, Writing
<1> QED BY <1>1, <1>3, <1>4, <1>8
-----------------------------------------------------------------------------
(* What the sums of receipts are compared with is the number of the goods.   *)
LEMMA CountedOneMore ==
    ASSUME NEW S, NEW x, x \notin S, IsFiniteSet(S), NEW T, T = S \cup {x}
    PROVE  IsFiniteSet(T) /\ Cardinality(T) = Cardinality(S) + 1
BY FS_AddElement

LEMMA TwoOrThree ==
    ASSUME NEW x, NEW y, NEW z, x # y, z \notin {x, y}
    PROVE  Cardinality({x, y}) = 2 /\ Cardinality({x, y, z}) = 3 /\ IsFiniteSet({x, y, z})
<1>1. IsFiniteSet({x}) /\ Cardinality({x}) = 1
  BY FS_Singleton
<1>2. {x, y} = {x} \cup {y} /\ {x, y, z} = {x, y} \cup {z} /\ y \notin {x}
  OBVIOUS
<1>3. IsFiniteSet({x, y}) /\ Cardinality({x, y}) = 1 + 1
  BY <1>1, <1>2, CountedOneMore
<1>4. IsFiniteSet({x, y, z}) /\ Cardinality({x, y, z}) = 1 + 1 + 1
  BY <1>2, <1>3, CountedOneMore
<1> QED BY <1>3, <1>4

LEMMA GoodsCounted ==
    /\ suite = "integration" => Goods = {"faq", "email", "billing"} /\ Cardinality(Goods) = 3
    /\ suite = "adapter" => Goods = {"generic-1", "github-1"} /\ Cardinality(Goods) = 2
    /\ suite = "sync" => Goods = UNION {Items[k] : k \in Kinds} /\ Cardinality(Goods) = 6
<1>1. CASE suite = "integration"
  <2>1. Goods = {"faq", "email", "billing"}
    BY <1>1 DEF Goods, Wares, BadDeliveries
  <2>2. "faq" # "email" /\ "billing" \notin {"faq", "email"}
    OBVIOUS
  <2> QED BY <1>1, <2>1, <2>2, TwoOrThree
<1>2. CASE suite = "adapter"
  <2>1. Goods = {"generic-1", "github-1"}
    BY <1>2 DEF Goods, Wares, BadDeliveries
  <2>2. "generic-1" # "github-1" /\ "none" \notin {"generic-1", "github-1"}
    OBVIOUS
  <2>3. Cardinality({"generic-1", "github-1"}) = 2
    BY <2>2, TwoOrThree
  <2> QED BY <1>2, <2>1, <2>3
<1>3. CASE suite = "sync"
  <2> DEFINE a == {"github-a", "github-b", "gmail-a"}
             b == a \cup {"gmail-b"}
             c == b \cup {"calendar-a"}
             d == c \cup {"calendar-b"}
  <2>1. UNION {Items[k] : k \in Kinds} = d
    BY DEF Items, Kinds
  <2>2. Goods = d
    BY <1>3, <2>1 DEF Goods, Wares, BadDeliveries
  <2>3. "gmail-b" \notin a /\ "calendar-a" \notin b /\ "calendar-b" \notin c
    OBVIOUS
  <2>4. IsFiniteSet(a) /\ Cardinality(a) = 3
    <3>1. "github-a" # "github-b" /\ "gmail-a" \notin {"github-a", "github-b"}
      OBVIOUS
    <3> QED BY <3>1, TwoOrThree
  <2> HIDE DEF a
  <2>5. IsFiniteSet(b) /\ Cardinality(b) = 3 + 1
    BY <2>3, <2>4, CountedOneMore
  <2> HIDE DEF b
  <2>6. IsFiniteSet(c) /\ Cardinality(c) = 3 + 1 + 1
    BY <2>3, <2>5, CountedOneMore
  <2> HIDE DEF c
  <2>7. Cardinality(d) = 3 + 1 + 1 + 1
    BY <2>3, <2>6, CountedOneMore
  <2> QED BY <1>3, <2>1, <2>2, <2>7
<1> QED BY <1>1, <1>2, <1>3

(* A sum that is what it should be tells what every event was received, if   *)
(* at most one answer was wrong.                                             *)
LEMMA SumIsExact ==
    ASSUME NEW p, Shape(p), Neat(p) \/ \A e \in Goods : p.receipts[e] >= 1, Receipts(p) = Cardinality(Goods)
    PROVE  \A e \in Events : p.receipts[e] = One(e, Goods)
<1>1. Goods \in SUBSET Events /\ p.receipts \in [Events -> Nat]
  BY WaresAreEvents DEF Shape
<1>2. Tells(p.receipts, Goods, Events, Receipts(p))
  BY <1>1, SumTells
<1>3. Events \cap Goods = Goods
  BY <1>1
<1>4. CASE Neat(p)
  BY <1>2, <1>3, <1>4 DEF Tells, Neat
<1>5. CASE \A e \in Goods : p.receipts[e] >= 1
  <2>1. \A e \in Events : One(e, Goods) <= p.receipts[e]
    BY <1>1, <1>5 DEF One
  <2> QED BY <1>2, <1>3, <2>1 DEF Tells
<1> QED BY <1>4, <1>5

(* The steps before a sum bring all the goods.                               *)
LEMMA GoodsBrought ==
    ASSUME NEW n, NEW p, Shape(p), Full(n, p),
           (suite = "integration" /\ n = 14) \/ (suite = "adapter" /\ n = 22) \/ (suite = "sync" /\ n = 22)
    PROVE  \A e \in Goods : p.receipts[e] >= 1
<1> DEFINE q == Script(suite)
<1>1. \A m \in 1..(n - 1) : \A e \in Brings(q[m]) : p.receipts[e] >= 1
  BY DEF Full
<1>2. CASE suite = "integration" /\ n = 14
  <2>1. q[8].do = "event" /\ q[8].on = "faq" /\ q[10].do = "event" /\ q[10].on = "email"
        /\ q[12].do = "event" /\ q[12].on = "billing"
    BY <1>2, IntegrationMarks
  <2> HIDE DEF q
  <2>2. "faq" \in Brings(q[8]) /\ "email" \in Brings(q[10]) /\ "billing" \in Brings(q[12])
    BY <2>1 DEF Brings, Deliveries
  <2>3. 8 \in 1..(n - 1) /\ 10 \in 1..(n - 1) /\ 12 \in 1..(n - 1)
    BY <1>2
  <2>4. p.receipts["faq"] >= 1 /\ p.receipts["email"] >= 1 /\ p.receipts["billing"] >= 1
    BY <1>1, <2>2, <2>3
  <2> QED BY <1>2, <2>4, GoodsCounted
<1>3. CASE suite = "adapter" /\ n = 22
  <2>1. q[11].do = "event" /\ q[11].on = "generic-1" /\ q[16].do = "event" /\ q[16].on = "github-1"
    BY <1>3, AdapterMarks
  <2> HIDE DEF q
  <2>2. "generic-1" \in Brings(q[11]) /\ "github-1" \in Brings(q[16])
    BY <2>1 DEF Brings, Deliveries
  <2>3. 11 \in 1..(n - 1) /\ 16 \in 1..(n - 1)
    BY <1>3
  <2>4. p.receipts["generic-1"] >= 1 /\ p.receipts["github-1"] >= 1
    BY <1>1, <2>2, <2>3
  <2> QED BY <1>3, <2>4, GoodsCounted
<1>4. CASE suite = "sync" /\ n = 22
  <2>1. q[13].do = "sync" /\ q[13].on = "github" /\ q[14].do = "sync" /\ q[14].on = "gmail"
        /\ q[15].do = "sync" /\ q[15].on = "calendar"
    BY <1>4, SyncMarks
  <2> HIDE DEF q
  <2>2. Brings(q[13]) = Items["github"] /\ Brings(q[14]) = Items["gmail"] /\ Brings(q[15]) = Items["calendar"]
    BY <2>1 DEF Brings, Kinds
  <2>3. 13 \in 1..(n - 1) /\ 14 \in 1..(n - 1) /\ 15 \in 1..(n - 1)
    BY <1>4
  <2>4. \A k \in Kinds : \A e \in Items[k] : p.receipts[e] >= 1
    BY <1>1, <2>2, <2>3 DEF Kinds
  <2> QED BY <1>4, <2>4, GoodsCounted
<1> QED BY <1>2, <1>3, <1>4
-----------------------------------------------------------------------------
(* What the steps that claim something have seen.                            *)
LEMMA SumSeen ==
    ASSUME NEW p, NEW s, NEW e \in Effect(p, s), e.ok
    PROVE  /\ s.do = "receipts" => Receipts(p) = s.want
           /\ s.do = "fetched" => p.fetched = s.want
           /\ s.do = "issuedMore" => Metrics(p.stub).issued > p.seen.issued
<1>1. CASE s.do = "receipts"
  <2>1. s.do \notin Local /\ s.do # "tryEnable"
    BY <1>1 DEF Local
  <2>2. Effect(p, s) = IF "orchestrator" \in p.up THEN Answered(p, s) ELSE Sees(s.do = "tryEnable", p)
    BY <1>1, <2>1 DEF Effect
  <2> DEFINE x == Receipts(p)
  <2>3. Answered(p, s) = Sees(x = s.want, p)
    BY <1>1 DEF Answered
  <2> HIDE DEF x
  <2>4. e = Outcome(x = s.want, p) \/ e = Outcome(FALSE, p)
    BY <2>1, <2>2, <2>3 DEF Sees
  <2>5. x = s.want
    <3>1. Outcome(FALSE, p).ok = FALSE /\ Outcome(x = s.want, p).ok = (x = s.want)
      BY DEF Outcome
    <3>2. e # Outcome(FALSE, p)
      BY <3>1
    <3>3. e = Outcome(x = s.want, p)
      BY <2>4, <3>2
    <3> QED BY <3>3 DEF Outcome
  <2> QED BY <1>1, <2>5 DEF x
<1>2. CASE s.do = "fetched"
  <2>1. Finds(p, s) = (p.fetched = s.want)
    BY <1>2 DEF Finds
  <2>2. s.do \in Local
    BY <1>2 DEF Local
  <2>3. e = Outcome(p.fetched = s.want, p)
    BY <2>1, <2>2 DEF Effect, Sees
  <2> QED BY <1>2, <2>3 DEF Outcome
<1>3. CASE s.do = "issuedMore"
  <2> DEFINE x == Metrics(p.stub).issued
  <2>1. Finds(p, s) = (x > p.seen.issued)
    BY <1>3 DEF Finds
  <2>2. s.do \in Local
    BY <1>3 DEF Local
  <2> HIDE DEF x
  <2>3. e = Outcome(x > p.seen.issued, p)
    BY <2>1, <2>2 DEF Effect, Sees
  <2>4. x > p.seen.issued
    BY <2>3 DEF Outcome
  <2> QED BY <1>3, <2>4 DEF x
<1> QED BY <1>1, <1>2, <1>3

LEMMA CounterSeen ==
    ASSUME NEW p, NEW s, s.do = "counted", NEW e \in Effect(p, s), e.ok
    PROVE  p.seen[s.on] = s.want
<1>1. e = Outcome(p.seen[s.on] = s.want, p)
  BY CountedEffect
<1> QED BY <1>1 DEF Outcome

(* The claims of sums.                                                       *)
LEMMA SumTruth ==
    ASSUME MildInv, Mild, lies \in Nat, lies <= 1,
           Receipts(platform) = Cardinality(Goods),
           (suite = "integration" /\ pc = 14) \/ (suite = "adapter" /\ pc = 22) \/ (suite = "sync" /\ pc = 22)
    PROVE  \A e \in Events : platform.receipts[e] = IF e \in Goods THEN 1 ELSE 0
<1>1. Shape(platform) /\ (Neat(platform) \/ Full(pc, platform))
  BY DEF MildInv, Mildly
<1>2. Neat(platform) \/ \A e \in Goods : platform.receipts[e] >= 1
  BY <1>1, GoodsBrought
<1> QED BY <1>1, <1>2, SumIsExact DEF One

LEMMA IntegrationTruth ==
    ASSUME MildInv, lies \in Nat, suite = "integration", pc = 14, NEW e \in Effect(platform, Script(suite)[pc]), e.ok,
           Sure(Script(suite)[pc].id)
    PROVE  Truth(Script(suite)[pc].id)
<1> DEFINE s == Script(suite)[pc]
<1>1. s.do = "receipts" /\ s.want = 3 /\ s.id = "connector.duplicate-no-second-receipt"
  BY IntegrationMarks
<1> HIDE DEF s
<1>2. Receipts(platform) = 3
  BY <1>1, SumSeen DEF s
<1>3. lies <= 1
  BY <1>1 DEF Sure, Sums, s
<1>4. Mild
  BY DEF Mild
<1>5. \A x \in {"faq", "email", "billing"} : x \in Events /\ x \in Goods
  BY GoodsCounted DEF Events, Deliveries
<1>6. Once({"faq", "email", "billing"})
  BY <1>2, <1>3, <1>4, <1>5, GoodsCounted, SumTruth DEF Once
<1> QED BY <1>1, <1>6 DEF Truth, s

LEMMA AdapterTruth ==
    ASSUME MildInv, lies \in Nat, suite = "adapter", pc = 22, NEW e \in Effect(platform, Script(suite)[pc]), e.ok,
           Sure(Script(suite)[pc].id)
    PROVE  Truth(Script(suite)[pc].id)
<1> DEFINE s == Script(suite)[pc]
<1>1. s.do = "receipts" /\ s.want = 2 /\ s.id = "adapter.only-verified-deliveries-persisted"
  BY AdapterMarks
<1> HIDE DEF s
<1>2. Receipts(platform) = 2
  BY <1>1, SumSeen DEF s
<1>3. lies <= 1
  BY <1>1 DEF Sure, Sums, s
<1>4. Mild
  BY DEF Mild
<1>5. \A x \in {"generic-1", "github-1"} : x \in Events /\ x \in Goods
  BY GoodsCounted DEF Events, Deliveries
<1>6. \A x \in BadDeliveries : x \in Events /\ x \notin Goods
  BY DEF Events, Goods
<1>7. Once({"generic-1", "github-1"}) /\ \A x \in BadDeliveries : platform.receipts[x] = 0
  BY <1>2, <1>3, <1>4, <1>5, <1>6, GoodsCounted, SumTruth DEF Once
<1> QED BY <1>1, <1>7 DEF Truth, s

LEMMA ProviderTruth ==
    ASSUME MildInv, suite = "provider", pc \in {16, 24, 26}, NEW e \in Effect(platform, Script(suite)[pc]), e.ok
    PROVE  Truth(Script(suite)[pc].id)
<1> DEFINE s == Script(suite)[pc]
<1>1. Mild
  BY DEF Mild
<1>2. Shape(platform) /\ Place(pc, platform)
  BY <1>1 DEF MildInv, Mildly
<1>3. CASE pc = 16
  <2>1. s.do = "issuedMore" /\ s.id = "oauth.refresh-rotates-runtime-token"
    BY <1>3, ProviderMarks
  <2> HIDE DEF s
  <2>2. Metrics(platform.stub).issued > platform.seen.issued
    BY <2>1, SumSeen DEF s
  <2>3. platform.seen.issued \in Nat /\ platform.seen.issued >= 1
    BY <1>2, <1>3 DEF Place
  <2>4. Cardinality(platform.stub.tokens) \in Nat
    BY <1>2, FS_CardinalityType DEF Shape
  <2>5. Cardinality(platform.stub.tokens) > 1
    BY <2>2, <2>3, <2>4 DEF Metrics
  <2> QED BY <2>1, <2>5 DEF Truth, s
<1>4. CASE pc = 24
  <2>1. s.do = "providerHealth" /\ s.on = "github" /\ s.want = 409 /\ s.id = "oauth.revoked-health-blocked"
    BY <1>4, ProviderMarks
  <2> HIDE DEF s
  <2>2. 409 = (IF platform.token["github"] = 0 THEN 409 ELSE Identity(platform, "github"))
    BY <2>1, HealthAnswer DEF s
  <2>3. Identity(platform, "github") = Get(platform.stub, "user", platform.token["github"]).status
    BY <1>2 DEF Identity, Shape
  <2>4. Get(platform.stub, "user", platform.token["github"]).status # 409
    BY DEF Get, Reply
  <2>5. platform.token["github"] = 0
    BY <2>2, <2>3, <2>4
  <2> QED BY <2>1, <2>5 DEF Truth, s
<1>5. CASE pc = 26
  <2>1. s.do = "counted" /\ s.on = "unsafe" /\ s.want = 0 /\ s.id = "oauth.no-outbound-provider-mutation"
    BY <1>5, ProviderMarks
  <2> HIDE DEF s
  <2>2. platform.seen["unsafe"] = 0
    BY <2>1, CounterSeen DEF s
  <2>3. platform.stub.unsafe = 0
    BY <1>2, <1>5, <2>2 DEF Place
  <2> QED BY <2>1, <2>3 DEF Truth, s
<1> QED BY <1>3, <1>4, <1>5

LEMMA SyncTruth ==
    ASSUME MildInv, lies \in Nat, suite = "sync", pc \in {22, 28}, NEW e \in Effect(platform, Script(suite)[pc]), e.ok,
           Sure(Script(suite)[pc].id)
    PROVE  Truth(Script(suite)[pc].id)
<1> DEFINE s == Script(suite)[pc]
<1>1. Mild
  BY DEF Mild
<1>2. Shape(platform) /\ Place(pc, platform)
  BY <1>1 DEF MildInv, Mildly
<1>3. CASE pc = 22
  <2>1. s.do = "fetched" /\ s.want = 6 /\ s.id = "sync.receipts-persisted"
    BY <1>3, SyncMarks
  <2> HIDE DEF s
  <2>2. platform.fetched = 6
    BY <2>1, SumSeen DEF s
  <2>3. platform.fetched = Receipts(platform)
    <3>1. pc \in 19..22
      BY <1>3
    <3> QED BY <1>2, <3>1 DEF Place
  <2>4. lies <= 1
    BY <2>1 DEF Sure, Sums, s
  <2>5. UNION {Items[k] : k \in Kinds} \subseteq Events
    BY DEF Events
  <2>6. Once(UNION {Items[k] : k \in Kinds})
    BY <1>1, <1>3, <2>2, <2>3, <2>4, <2>5, GoodsCounted, SumTruth DEF Once
  <2> QED BY <2>1, <2>6 DEF Truth, s
<1>4. CASE pc = 28
  <2>1. s.do = "counted" /\ s.on = "unsafe" /\ s.want = 0 /\ s.id = "sync.no-provider-mutations"
    BY <1>4, SyncMarks
  <2> HIDE DEF s
  <2>2. platform.seen["unsafe"] = 0
    BY <2>1, CounterSeen DEF s
  <2>3. platform.stub.unsafe = 0
    BY <1>2, <1>4, <2>2 DEF Place
  <2> QED BY <2>1, <2>3 DEF Truth, s
<1> QED BY <1>3, <1>4

LEMMA BoundaryTruth ==
    ASSUME MildInv, suite = "boundary", pc \in {8, 9, 10, 11}
    PROVE  Truth(Script(suite)[pc].id)
<1> DEFINE id == Script(suite)[pc].id
<1>1. "runtime" \notin platform.up
  <2>1. Mild /\ pc \in 7..11
    BY DEF Mild
  <2> QED BY <2>1 DEF MildInv, Mildly, Shape, Place
<1>2. id \in {"core.gateway-healthy-without-ai-runtime", "core.identity-healthy-without-ai-runtime",
              "core.user-healthy-without-ai-runtime", "core.audit-healthy-without-ai-runtime"}
  BY BoundaryMarks
<1> HIDE DEF id
<1>3. Truth(id)
  BY <1>1, <1>2 DEF Truth
<1> QED BY <1>3 DEF id

(* The claims of the write proof.                                            *)
LEMMA LiveTruth ==
    ASSUME LiveInv, WaitInv, Writing, pc \in {22, 34, 37}, NEW e \in Effect(platform, LiveStep(pc)), e.ok,
           Sure(LiveStep(pc).id)
    PROVE  Truth(LiveStep(pc).id)
<1> DEFINE s == LiveStep(pc)
<1>1. Tended(platform) /\ (OneKind => Untouched(pc, platform))
  BY DEF WaitInv
<1>2. CASE pc = 22
  <2>1. s.id = "live.provider-untouched-before-approval"
    BY <1>2, LiveClaims
  <2> HIDE DEF s
  <2>2. Untouched(pc, platform)
    BY <1>1, <2>1 DEF Sure, OfWrites, s
  <2>3. platform.stub.write = 0
    <3>1. pc \in 21..22
      BY <1>2
    <3> QED BY <1>2, <2>2, <3>1 DEF Untouched
  <2>4. platform.early = {}
    BY <1>1, <2>3 DEF Tended
  <2> QED BY <2>1, <2>3, <2>4 DEF Truth, s
<1>3. CASE pc = 34
  <2>1. s.id = "live.provider-no-unsafe-mutations"
    BY <1>3, LiveClaims
  <2> HIDE DEF s
  <2> QED BY <1>1, <2>1 DEF Tended, Truth, s
<1>4. CASE pc = 37
  <2>1. s.id = Replay /\ s.do = "counted" /\ s.on = "write" /\ s.want = 3
    BY <1>4, LiveClaims, LiveMarks
  <2> HIDE DEF s
  <2>2. platform.seen["write"] = 3
    BY <2>1, CounterSeen DEF s
  <2>3. Counted
    BY <2>1 DEF Sure, OfWrites, Replay, LiveInv, s
  <2>4. platform.stub.write = 3 /\ Ledger(platform.stub)
    BY <1>4, <2>2, <2>3 DEF Counted, LiveInv, Sound
  <2>5. \A k \in Kinds : platform.stub.posts[k] >= 1
    <3>1. \A k \in Kinds : pc > CountsAt[k]
      BY <1>4 DEF CountsAt, Kinds
    <3> QED BY <3>1 DEF LiveInv, Passed
  <2>6. \A k \in Kinds : platform.stub.posts[k] = 1
    BY <2>4, <2>5 DEF Ledger, Kinds
  <2> QED BY <2>1, <2>6 DEF Truth, Replay, s
<1> QED BY <1>2, <1>3, <1>4

(* What is recorded is true: a check of which nothing is said, in the way it *)
(* was before the step, a claim in the way its step has seen it.             *)
LEMMA ClaimIsTrue ==
    ASSUME IInv, LiveInv, MildInv, WaitInv, [Next]_vars, NEW id, id \in checks' \ checks, Sure(id)'
    PROVE  Truth(id)'
<1>1. CASE id \notin Claims \/ (id = Replay /\ ~Writing)
  <2>1. suite' = suite
    BY NewCheck
  <2>2. Writing' = Writing
    BY <2>1 DEF Writing
  <2>3. id \notin Claims \/ (id = Replay /\ ~Writing')
    BY <1>1, <2>2
  <2> QED BY <2>3 DEF Truth, Claims, Replay
<1>2. CASE id \in Claims /\ (id = Replay => Writing)
  <2>1. /\ UNCHANGED <<suite, platform, faults, lies>> /\ Running /\ id = Current.id
        /\ \E e \in Effect(platform, Current) : e.ok
        /\ \/ Mild /\ Claiming(suite, pc) /\ Current = Script(suite)[pc]
           \/ Writing /\ pc \in {22, 34, 37} /\ Current = LiveStep(pc)
    BY <1>2, ClaimMade
  <2>2. Sure(id)
    BY <2>1 DEF Sure, OneKind
  <2>3. lies \in Nat
    BY DEF LiveInv
  <2>4. PICK e \in Effect(platform, Current) : e.ok
    BY <2>1
  <2>5. CASE Mild /\ Claiming(suite, pc) /\ Current = Script(suite)[pc]
    BY <2>1, <2>2, <2>3, <2>4, <2>5, IntegrationTruth, AdapterTruth, ProviderTruth, SyncTruth, BoundaryTruth,
       TruthStays DEF Claiming
  <2>6. CASE Writing /\ pc \in {22, 34, 37} /\ Current = LiveStep(pc)
    BY <2>1, <2>2, <2>4, <2>6, LiveTruth, TruthStays
  <2> QED BY <2>1, <2>5, <2>6
<1> QED BY <1>1, <1>2

(* Every check that a connector proof records says what is so at that moment *)
(* of receipts, tokens, writes and containers, whatever fails or answers     *)
(* wrongly, as far as Sure lets it be believed.                              *)
THEOREM ClaimsTheorem == Spec => ClaimsHoldWhenMade
<1>1. IInv /\ LiveInv /\ MildInv /\ WaitInv /\ [Next]_vars
      => [\A id \in checks' \ checks : (Sure(id) => Truth(id))']_vars
  <2> SUFFICES ASSUME IInv, LiveInv, MildInv, WaitInv, [Next]_vars, NEW id \in checks' \ checks
               PROVE  (Sure(id) => Truth(id))'
    OBVIOUS
  <2> QED BY ClaimIsTrue
<1> QED BY <1>1, InitLiveInv, StepLiveInv, InitMildInv, StepMildInv, InitWaitInv, StepWaitInv, InvariantIInv, PTL
        DEF Spec, ClaimsHoldWhenMade
=============================================================================
