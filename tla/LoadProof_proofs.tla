-------------------------- MODULE LoadProof_proofs --------------------------
(* Proofs about LoadProof: for every number of requests, workers and         *)
(* principals that the contract's policy allows, no profile read is rate     *)
(* limited, however slowly the bucket refills; and the percentiles of every  *)
(* sorted list of latencies are in order.  The last part is about the other  *)
(* half of the gateway, the circuit of a route (GatewayCircuit).             *)
EXTENDS LoadProof, GatewayCircuit, FiniteSetTheorems, SequenceTheorems, TLAPS

(* The requests of one profile that one principal is given.                  *)
Mine(f, p) == {i \in 0..(Requests[f] - 1) : Principal(f, i) = p}

LEMMA DivMod ==
    ASSUME NEW i \in Nat, NEW n \in Nat \ {0}
    PROVE  i = n * (i \div n) + (i % n) /\ i \div n \in Nat /\ i % n \in 0..(n - 1)
  OBVIOUS

LEMMA LapsAreBounded ==
    ASSUME NEW q \in Nat, NEW n \in Nat \ {0}, NEW c \in Nat, NEW i \in Nat, NEW m \in Nat,
           i = n * q + m, i < n * c
    PROVE  q < c
<1> SUFFICES ASSUME q >= c PROVE FALSE
  OBVIOUS
<1>1. n * q >= n * c
  OBVIOUS
<1> QED BY <1>1

(* Going round the pool gives no principal more requests than its bucket     *)
(* holds.                                                                    *)
LEMMA EachHasItsShare ==
    ASSUME NEW f \in Profiles, NEW p
    PROVE  IsFiniteSet(Mine(f, p)) /\ Cardinality(Mine(f, p)) <= Capacity
<1> DEFINE n == Principals[f]
           lap == [i \in Mine(f, p) |-> i \div n]
<1>1. n \in Nat \ {0} /\ Requests[f] \in Nat /\ Requests[f] <= n * Capacity /\ Capacity \in Nat
  BY LoadAssumption DEF Phases
<1> HIDE DEF n
<1>2. \A i \in Mine(f, p) : i \in Nat /\ i < Requests[f] /\ i % n = p
  BY <1>1 DEF Mine, Principal, n
<1>3. ASSUME NEW i \in Mine(f, p)
      PROVE  i \div n \in 0..(Capacity - 1)
  <2>a. n * Capacity \in Nat
    BY <1>1
  <2>b. i \in Nat /\ i < Requests[f]
    BY <1>2
  <2>1. i \in Nat /\ i < n * Capacity
    BY <1>1, <2>a, <2>b
  <2>c. n \in Nat \ {0}
    BY <1>1
  <2>d. i = n * (i \div n) + (i % n) /\ i \div n \in Nat /\ i % n \in 0..(n - 1)
    BY ONLY <2>b, <2>c, DivMod
  <2>2. i = n * (i \div n) + (i % n) /\ i \div n \in Nat /\ i % n \in Nat
    BY <2>c, <2>d
  <2>3. i \div n < Capacity
    BY <1>1, <2>1, <2>2, LapsAreBounded
  <2> QED BY <1>1, <2>2, <2>3
<1>4. ASSUME NEW i \in Mine(f, p), NEW j \in Mine(f, p), i \div n = j \div n
      PROVE  i = j
  <2>1. i = n * (i \div n) + (i % n)
    BY <1>1, <1>2, DivMod
  <2>2. j = n * (j \div n) + (j % n)
    BY <1>1, <1>2, DivMod
  <2> QED BY <1>2, <1>4, <2>1, <2>2
<1>5. lap \in Injection(Mine(f, p), 0..(Capacity - 1))
  <2>1. lap \in [Mine(f, p) -> 0..(Capacity - 1)]
    BY <1>3
  <2>2. \A i, j \in Mine(f, p) : lap[i] = lap[j] => i = j
    BY <1>4
  <2> HIDE DEF lap
  <2> QED BY <2>1, <2>2 DEF Injection, IsInjective
<1>6. IsFiniteSet(0..(Capacity - 1)) /\ Cardinality(0..(Capacity - 1)) = Capacity
  <2>1. 0 \in Int /\ Capacity - 1 \in Int /\ ~(0 > Capacity - 1)
    BY LoadAssumption
  <2>2. Cardinality(0..(Capacity - 1)) = (Capacity - 1) - 0 + 1 /\ IsFiniteSet(0..(Capacity - 1))
    BY ONLY <2>1, FS_Interval
  <2> QED BY <1>1, <2>2
<1> QED BY <1>5, <1>6, FS_Injection
-----------------------------------------------------------------------------
(* The inductive invariant of a profile: an index is taken once and answered *)
(* once, and a principal has lost a token only to an answered request.       *)
Indices(rs) == {r.index : r \in rs}
Spent(p) == {i \in Indices(answers) : Principal(phase, i) = p}
Taken ==
    /\ next \in 0..Requests[phase]
    /\ Indices(flying) \subseteq 0..(next - 1)
    /\ Indices(answers) \subseteq 0..(next - 1)
    /\ Indices(flying) \cap Indices(answers) = {}
    /\ \A r, t \in flying : r.index = t.index => r = t
Budget ==
    /\ tokens \in [0..(Principals[phase] - 1) -> Nat]
    /\ \A p \in 0..(Principals[phase] - 1) : tokens[p] + Cardinality(Spent(p)) >= Capacity
IInv == phase \in Profiles => Taken /\ Budget /\ CompliantLoadIsNeverLimited

LEMMA SpentIsMine ==
    ASSUME phase \in Profiles, Taken, NEW p
    PROVE  Spent(p) \subseteq Mine(phase, p) /\ IsFiniteSet(Spent(p))
<1>1. Requests[phase] \in Nat
  BY LoadAssumption DEF Phases
<1>2. Spent(p) \subseteq Mine(phase, p)
  BY <1>1 DEF Spent, Mine, Taken
<1> QED BY <1>2, EachHasItsShare, FS_Subset

(* A bucket that is empty has been spent by requests that were answered, and *)
(* then there is no further request of its principal in the air.             *)
LEMMA NoneIsRefused ==
    ASSUME phase \in Profiles, Taken, Budget, NEW r \in flying
    PROVE  tokens[Principal(phase, r.index)] # 0
<1> DEFINE p == Principal(phase, r.index)
<1>1. Requests[phase] \in Nat /\ Principals[phase] \in Nat \ {0} /\ Capacity \in Nat
  BY LoadAssumption DEF Phases
<1>2. r.index \in Nat /\ r.index < Requests[phase] /\ r.index \notin Indices(answers)
  BY <1>1 DEF Taken, Indices
<1>3. p \in 0..(Principals[phase] - 1)
  BY <1>1, <1>2, DivMod DEF Principal
<1>4. r.index \in Mine(phase, p) /\ r.index \notin Spent(p)
  BY <1>1, <1>2 DEF Mine, Spent
<1> HIDE DEF p
<1>5. IsFiniteSet(Mine(phase, p)) /\ Cardinality(Mine(phase, p)) <= Capacity
  BY EachHasItsShare
<1>6. Spent(p) \cup {r.index} \subseteq Mine(phase, p) /\ IsFiniteSet(Spent(p))
  BY <1>4, SpentIsMine
<1>7. Cardinality(Spent(p) \cup {r.index}) = Cardinality(Spent(p)) + 1
  BY <1>4, <1>6, FS_AddElement
<1>8. Cardinality(Spent(p) \cup {r.index}) <= Cardinality(Mine(phase, p))
  BY <1>5, <1>6, FS_Subset
<1>9. tokens[p] \in Nat /\ tokens[p] + Cardinality(Spent(p)) >= Capacity
  BY <1>3 DEF Budget
<1>10. Cardinality(Spent(p)) \in Nat /\ Cardinality(Mine(phase, p)) \in Nat
  BY <1>5, <1>6, FS_CardinalityType
<1> QED BY <1>1, <1>5, <1>7, <1>8, <1>9, <1>10 DEF p

LEMMA IndicesOfMore ==
    ASSUME NEW S, NEW x
    PROVE  Indices(S \cup {x}) = Indices(S) \cup {x.index}
  BY Zenon DEF Indices

LEMMA InitIInv == Init => IInv
  BY DEF Init, IInv, Profiles

LEMMA BeginStep ==
    ASSUME NEW f \in Phases, Begin(f)
    PROVE  IInv'
<1> SUFFICES ASSUME f \in Profiles
             PROVE  Taken' /\ Budget' /\ CompliantLoadIsNeverLimited'
  BY DEF IInv, Begin
<1>1. /\ phase' = f /\ next' = 0 /\ flying' = {} /\ answers' = {}
      /\ tokens' = [p \in 0..(Principals[f] - 1) |-> Capacity]
  BY DEF Begin
<1>2. Principals[f] \in Nat \ {0} /\ Requests[f] \in Nat \ {0} /\ Capacity \in Nat
  BY LoadAssumption
<1>3. Taken'
  BY <1>1, <1>2 DEF Taken, Indices
<1>4. Budget'
  <2>1. \A p : Spent(p)' = {}
    BY <1>1 DEF Spent, Indices
  <2>2. Cardinality({}) = 0
    BY FS_EmptySet
  <2>3. ASSUME NEW p \in 0..(Principals[f] - 1)
        PROVE  tokens'[p] + Cardinality(Spent(p))' >= Capacity
    <3>1. Cardinality(Spent(p))' = 0
      BY <2>1, <2>2, Zenon
    <3> QED BY <1>1, <1>2, <3>1
  <2> QED BY <1>1, <1>2, <2>3 DEF Budget
<1>5. CompliantLoadIsNeverLimited'
  BY <1>1 DEF CompliantLoadIsNeverLimited
<1> QED BY <1>3, <1>4, <1>5

LEMMA TakeStep ==
    ASSUME IInv, Take
    PROVE  IInv'
<1> SUFFICES ASSUME phase \in Profiles
             PROVE  Taken' /\ Budget' /\ CompliantLoadIsNeverLimited'
  BY DEF IInv, Take
<1>1. /\ next < Requests[phase] /\ next' = next + 1 /\ phase' = phase
      /\ flying' = flying \cup {[index |-> next, since |-> seconds]}
      /\ answers' = answers /\ tokens' = tokens
  BY DEF Take
<1>2. Requests[phase] \in Nat /\ Taken /\ Budget /\ CompliantLoadIsNeverLimited
  BY LoadAssumption DEF IInv, Phases
<1>3. Taken'
  <2>0. Indices(flying') = Indices(flying) \cup {[index |-> next, since |-> seconds].index}
    BY <1>1, IndicesOfMore
  <2>1. Indices(flying)' = Indices(flying) \cup {next} /\ Indices(answers)' = Indices(answers)
    BY <1>1, <2>0 DEF Indices
  <2>2. next \notin Indices(flying) /\ next \notin Indices(answers) /\ next \in Nat
    BY <1>2 DEF Taken
  <2>3. \A r \in flying : r.index # next
    BY <2>2 DEF Indices
  <2>4. \A r, t \in flying' : r.index = t.index => r = t
    BY <1>1, <1>2, <2>3 DEF Taken
  <2>5. next' \in 0..Requests[phase] /\ next' - 1 = next
    BY <1>1, <1>2, <2>2
  <2>a. Indices(flying) \subseteq 0..(next - 1) /\ Indices(answers) \subseteq 0..(next - 1)
    BY <1>2 DEF Taken
  <2>b. 0..(next - 1) \subseteq 0..next /\ next \in 0..next
    BY <2>2
  <2>6. next' \in 0..Requests[phase] /\ Indices(flying)' \subseteq 0..(next' - 1)
        /\ Indices(answers)' \subseteq 0..(next' - 1)
    BY <2>1, <2>5, <2>a, <2>b
  <2>7. Indices(flying)' \cap Indices(answers)' = {}
    BY <1>2, <2>1, <2>2 DEF Taken
  <2> QED BY <1>1, <2>4, <2>6, <2>7 DEF Taken
<1>4. Budget'
  BY <1>1, <1>2 DEF Budget, Spent, Indices
<1>5. CompliantLoadIsNeverLimited'
  BY <1>1, <1>2 DEF CompliantLoadIsNeverLimited
<1> QED BY <1>3, <1>4, <1>5

(* An observation moves one index from the air to the answers.               *)
LEMMA ObservedStep ==
    ASSUME IInv, phase \in Profiles, phase' = phase, next' = next,
           NEW r \in flying, NEW o, Observed(r, o)
    PROVE  /\ Taken'
           /\ \A p : IsFiniteSet(Spent(p)')
           /\ \A p : Cardinality(Spent(p)') = IF p = Principal(phase, r.index)
                                            THEN Cardinality(Spent(p)) + 1
                                            ELSE Cardinality(Spent(p))
<1>1. /\ flying' = flying \ {r}
      /\ answers' = answers \cup {[index |-> r.index, outcome |-> o, latency |-> seconds - r.since]}
  BY DEF Observed
<1>2. Taken
  BY DEF IInv
<1>a. Indices(answers') = Indices(answers) \cup
            {[index |-> r.index, outcome |-> o, latency |-> seconds - r.since].index}
  BY <1>1, IndicesOfMore
<1>3. Indices(answers)' = Indices(answers) \cup {r.index} /\ Indices(flying)' \subseteq Indices(flying)
  BY <1>1, <1>a DEF Indices
<1>4. r.index \notin Indices(flying)' /\ r.index \in Indices(flying) /\ r.index \notin Indices(answers)
  BY <1>1, <1>2 DEF Indices, Taken
<1>5. Taken'
  <2>1. \A u, t \in flying' : u.index = t.index => u = t
    BY <1>1, <1>2 DEF Taken
  <2> QED BY <1>2, <1>3, <1>4, <2>1 DEF Taken
<1>6. ASSUME NEW p
      PROVE  /\ IsFiniteSet(Spent(p)')
             /\ Cardinality(Spent(p)') = IF p = Principal(phase, r.index)
                                         THEN Cardinality(Spent(p)) + 1
                                         ELSE Cardinality(Spent(p))
  <2>1. IsFiniteSet(Spent(p))
    BY <1>2, SpentIsMine
  <2>2. CASE p = Principal(phase, r.index)
    <3>1. Spent(p)' = Spent(p) \cup {r.index} /\ r.index \notin Spent(p)
      BY <1>3, <1>4, <2>2 DEF Spent
    <3> QED BY <2>1, <2>2, <3>1, FS_AddElement
  <2>3. CASE p # Principal(phase, r.index)
    <3>1. Spent(p)' = Spent(p)
      BY <1>3, <2>3 DEF Spent
    <3> QED BY <2>1, <2>3, <3>1
  <2> QED BY <2>2, <2>3
<1> QED BY <1>5, <1>6

(* Spending at most one token for the observed request keeps the budget.     *)
LEMMA SpendingStep ==
    ASSUME IInv, phase \in Profiles, phase' = phase, next' = next,
           NEW r \in flying, NEW o, Observed(r, o),
           \/ tokens' = tokens
           \/ /\ tokens[Principal(phase, r.index)] > 0
              /\ tokens' = [tokens EXCEPT ![Principal(phase, r.index)] = @ - 1]
    PROVE  Taken' /\ Budget'
<1> DEFINE q == Principal(phase, r.index)
<1>1. Budget /\ Capacity \in Nat
  BY LoadAssumption DEF IInv
<1>2. tokens' \in [0..(Principals[phase] - 1) -> Nat]
  BY <1>1 DEF Budget
<1>3. ASSUME NEW p \in 0..(Principals[phase] - 1)
      PROVE  tokens'[p] + Cardinality(Spent(p)') >= Capacity
  <2>1. tokens[p] \in Nat /\ tokens'[p] \in Nat /\ tokens[p] + Cardinality(Spent(p)) >= Capacity
    BY <1>1, <1>2 DEF Budget
  <2>2. Cardinality(Spent(p)) \in Nat
    BY SpentIsMine, FS_CardinalityType DEF IInv
  <2>3. tokens'[p] = tokens[p] \/ (p = q /\ tokens'[p] = tokens[p] - 1)
    BY <1>1 DEF Budget
  <2>4. Cardinality(Spent(p)') = IF p = q THEN Cardinality(Spent(p)) + 1 ELSE Cardinality(Spent(p))
    BY ObservedStep
  <2> HIDE DEF q
  <2> QED BY <1>1, <2>1, <2>2, <2>3, <2>4
<1>4. Budget'
  BY <1>2, <1>3 DEF Budget
<1> QED BY <1>4, ObservedStep

LEMMA AnswerStep ==
    ASSUME IInv, NEW r \in flying, Answer(r)
    PROVE  IInv'
<1> SUFFICES ASSUME phase \in Profiles
             PROVE  Taken' /\ Budget' /\ CompliantLoadIsNeverLimited'
  BY DEF IInv, Answer
<1> DEFINE q == Principal(phase, r.index)
<1>1. phase' = phase /\ next' = next
  BY DEF Answer
<1>2. tokens[q] # 0 /\ tokens[q] \in Nat
  <2>1. q \in 0..(Principals[phase] - 1)
    <3>1. r.index \in 0..(next - 1) /\ Principals[phase] \in Nat \ {0} /\ next \in Nat
      BY LoadAssumption DEF IInv, Taken, Indices, Phases
    <3>2. r.index \in Nat
      BY <3>1
    <3> QED BY <3>1, <3>2, DivMod DEF Principal
  <2> QED BY <2>1, NoneIsRefused DEF IInv, Budget
<1>3. tokens[q] > 0
  BY <1>2
<1>4. Observed(r, "200") /\ tokens' = [tokens EXCEPT ![q] = @ - 1]
  BY <1>3 DEF Answer
<1>5. Taken' /\ Budget'
  BY <1>1, <1>3, <1>4, SpendingStep
<1>6. CompliantLoadIsNeverLimited'
  BY <1>1, <1>4 DEF Observed, CompliantLoadIsNeverLimited, IInv
<1> QED BY <1>5, <1>6

LEMMA FailStep ==
    ASSUME IInv, NEW r \in flying, Fail(r)
    PROVE  IInv'
<1> SUFFICES ASSUME phase \in Profiles
             PROVE  Taken' /\ Budget' /\ CompliantLoadIsNeverLimited'
  BY DEF IInv, Fail
<1>1. phase' = phase /\ next' = next /\ Observed(r, "error")
  BY DEF Fail
<1>2. \/ tokens' = tokens
      \/ /\ tokens[Principal(phase, r.index)] > 0
         /\ tokens' = [tokens EXCEPT ![Principal(phase, r.index)] = @ - 1]
  BY DEF Fail
<1>3. Taken' /\ Budget'
  BY <1>1, <1>2, SpendingStep
<1>4. CompliantLoadIsNeverLimited'
  BY <1>1 DEF Observed, CompliantLoadIsNeverLimited, IInv
<1> QED BY <1>3, <1>4

LEMMA SecondStep ==
    ASSUME IInv, SecondPasses
    PROVE  IInv'
<1> SUFFICES ASSUME phase \in Profiles
             PROVE  Taken' /\ Budget' /\ CompliantLoadIsNeverLimited'
  BY DEF IInv, SecondPasses
<1>1. /\ UNCHANGED <<phase, next, flying, answers>>
      /\ tokens' = [p \in DOMAIN tokens |-> Refilled(tokens[p])]
  BY DEF SecondPasses
<1>2. Capacity \in Nat /\ Rate \in Nat /\ Budget
  BY LoadAssumption DEF IInv
<1>3. \A t \in Nat : Refilled(t) \in Nat /\ (Refilled(t) >= t \/ Refilled(t) = Capacity)
  BY <1>2 DEF Refilled, Capped
<1>4. ASSUME NEW p \in 0..(Principals[phase] - 1)
      PROVE  tokens'[p] \in Nat /\ tokens'[p] + Cardinality(Spent(p)) >= Capacity
  <2>1. tokens[p] \in Nat /\ tokens'[p] = Refilled(tokens[p])
        /\ tokens[p] + Cardinality(Spent(p)) >= Capacity
    BY <1>1, <1>2 DEF Budget
  <2>2. Cardinality(Spent(p)) \in Nat
    BY SpentIsMine, FS_CardinalityType DEF IInv
  <2> QED BY <1>2, <1>3, <2>1, <2>2
<1>5. Spent(0)' = Spent(0) /\ \A p : Spent(p)' = Spent(p)
  BY <1>1 DEF Spent, Indices
<1>6. Budget'
  BY <1>1, <1>2, <1>4, <1>5 DEF Budget
<1>7. Taken' /\ CompliantLoadIsNeverLimited'
  BY <1>1 DEF Taken, CompliantLoadIsNeverLimited, IInv, Indices
<1> QED BY <1>6, <1>7

LEMMA QuietStep ==
    ASSUME IInv, UNCHANGED <<phase, loadVars>>
    PROVE  IInv'
  BY DEF IInv, Taken, Budget, Spent, Indices, CompliantLoadIsNeverLimited, loadVars

LEMMA MonitorStep ==
    ASSUME Monitor
    PROVE  UNCHANGED <<phase, loadVars>>
  BY DEF Monitor, MonitorStart, MonitorSample, MonitorWait, MonitorEnd

LEMMA OverStep ==
    ASSUME phase' = "over"
    PROVE  IInv'
  BY DEF IInv, Profiles

LEMMA MainStep ==
    ASSUME IInv, Main
    PROVE  IInv'
<1>1. CASE Register
  <2>1. phase' = "over" \/ UNCHANGED <<phase, loadVars>>
    BY <1>1 DEF Register, Finish
  <2> QED BY <2>1, OverStep, QuietStep
<1>2. CASE SetupDone \/ BurstDone
  BY <1>2, BeginStep DEF SetupDone, BurstDone, Phases, Profiles
<1>3. CASE SetStop
  BY <1>3, QuietStep DEF SetStop
<1>4. CASE SustainedDone
  BY <1>4, BeginStep, OverStep DEF SustainedDone, Finish, Phases
<1>5. CASE ProbeDone
  BY <1>5, OverStep DEF ProbeDone, Finish
<1> QED BY <1>1, <1>2, <1>3, <1>4, <1>5 DEF Main

LEMMA StepIInv == IInv /\ [Next]_vars => IInv'
<1> SUFFICES ASSUME IInv, [Next]_vars PROVE IInv'
  OBVIOUS
<1>1. CASE Load
  BY <1>1, TakeStep, AnswerStep DEF Load
<1>2. CASE Monitor
  BY <1>2, MonitorStep, QuietStep
<1>3. CASE Main
  BY <1>3, MainStep
<1>4. CASE SecondPasses
  BY <1>4, SecondStep
<1>5. CASE \E r \in flying : Fail(r)
  BY <1>5, FailStep
<1>6. CASE UNCHANGED vars
  BY <1>6, QuietStep DEF vars
<1> QED BY <1>1, <1>2, <1>3, <1>4, <1>5, <1>6 DEF Next

(* However the workers are scheduled and however slowly the requests come,   *)
(* no read of a profile that respects the policy of the contract is rate     *)
(* limited.                                                                  *)
THEOREM NeverLimited == Spec => []CompliantLoadIsNeverLimited
<1>1. IInv => CompliantLoadIsNeverLimited
  BY DEF IInv, CompliantLoadIsNeverLimited
<1> QED BY InitIInv, StepIInv, <1>1, PTL DEF Spec

-----------------------------------------------------------------------------
(* The overload: the one bucket of the probe pays for every answer 200, and  *)
(* holds no more than it began with and a second has given it since.         *)
Outcomes == {"200", "429", "error"}
Having(outcome) == {a \in answers : a.outcome = outcome}
ProbeInv ==
    phase = "probe" =>
      /\ next \in Nat /\ \A r \in flying : r.index \in Nat
      /\ 0..(next - 1) \subseteq Indices(flying) \cup Indices(answers)
      /\ IsFiniteSet(answers) /\ \A a \in answers : a.outcome \in Outcomes
      /\ seconds \in Nat /\ tokens \in [0..0 -> Nat]
      /\ tokens[0] + Count("200") <= Capacity + seconds * Rate

LEMMA OneBucket ==
    ASSUME NEW i \in Nat
    PROVE  Principal("probe", i) = 0
BY LoadAssumption DEF Principal

LEMMA CountType ==
    ASSUME IsFiniteSet(answers), NEW o
    PROVE  IsFiniteSet(Having(o)) /\ Count(o) = Cardinality(Having(o)) /\ Count(o) \in Nat
<1>1. Having(o) \subseteq answers
  BY DEF Having
<1>2. IsFiniteSet(Having(o))
  BY <1>1, FS_Subset
<1>3. Cardinality(Having(o)) \in Nat
  BY <1>2, FS_CardinalityType
<1> QED  BY <1>2, <1>3 DEF Count, Having

LEMMA ProbeBegins ==
    ASSUME NEW f, Begin(f)
    PROVE  ProbeInv'
<1> SUFFICES ASSUME f = "probe" PROVE ProbeInv'
  BY DEF ProbeInv, Begin
<1>1. /\ next' = 0 /\ flying' = {} /\ answers' = {} /\ seconds' = 0
      /\ tokens' = [p \in 0..(Principals["probe"] - 1) |-> Capacity]
  BY DEF Begin
<1>2. tokens' = [p \in 0..0 |-> Capacity] /\ Capacity \in Nat /\ Rate \in Nat
  BY <1>1, LoadAssumption
<1>3. IsFiniteSet(answers') /\ Count("200")' = 0
  <2>1. {a \in answers' : a.outcome = "200"} = {}
    BY <1>1
  <2> QED  BY <1>1, <2>1, FS_EmptySet DEF Count
<1>4. tokens' \in [0..0 -> Nat] /\ tokens'[0] = Capacity
  <2>1. 0 \in 0..0
    OBVIOUS
  <2> QED  BY <1>2, <2>1
<1>5. seconds' * Rate = 0
  <2>1. 0 * Rate = 0
    BY <1>2
  <2> QED  BY <1>1, <2>1
<1>6. tokens'[0] + Count("200")' <= Capacity + seconds' * Rate
  BY <1>2, <1>3, <1>4, <1>5
<1>7. next' \in Nat /\ 0..(next' - 1) = {} /\ \A r \in flying' : r.index \in Nat
  BY <1>1
<1> QED  BY <1>1, <1>3, <1>4, <1>6, <1>7 DEF ProbeInv

(* An answer is one observation more, of a request that was under way.       *)
LEMMA ProbeObserves ==
    ASSUME ProbeInv, phase = "probe", NEW r \in flying, NEW o \in Outcomes, Observed(r, o),
           next' = next
    PROVE  /\ next' \in Nat /\ \A t \in flying' : t.index \in Nat
           /\ 0..(next' - 1) \subseteq Indices(flying)' \cup Indices(answers)'
           /\ IsFiniteSet(answers') /\ \A a \in answers' : a.outcome \in Outcomes
           /\ Count("200")' \in Nat
           /\ Count("200")' <= Count("200") + IF o = "200" THEN 1 ELSE 0
<1> DEFINE b == [index |-> r.index, outcome |-> o, latency |-> seconds - r.since]
<1>1. flying' = flying \ {r} /\ answers' = answers \cup {b} /\ b.index = r.index /\ b.outcome = o
  BY DEF Observed
<1> HIDE DEF b
<1>2. next' \in Nat /\ \A t \in flying' : t.index \in Nat
  BY <1>1 DEF ProbeInv
<1>3. Indices(flying) \subseteq Indices(flying)' \cup {r.index}
  BY <1>1 DEF Indices
<1>4. Indices(answers)' = Indices(answers) \cup {r.index}
  BY <1>1, IndicesOfMore DEF Indices
<1>5. 0..(next' - 1) \subseteq Indices(flying)' \cup Indices(answers)'
  BY <1>3, <1>4 DEF ProbeInv
<1>6. IsFiniteSet(answers)
  BY DEF ProbeInv
<1>7. IsFiniteSet(answers')
  BY <1>1, <1>6, FS_AddElement
<1>8. \A a \in answers' : a.outcome \in Outcomes
  BY <1>1 DEF ProbeInv
<1>9. IsFiniteSet(Having("200")) /\ Count("200") = Cardinality(Having("200")) /\ Count("200") \in Nat
  BY <1>6, CountType
<1>10. Count("200")' = Cardinality(Having("200")')
  BY DEF Count, Having
<1>11. CASE o = "200"
  <2>1. Having("200")' = Having("200") \cup {b}
    BY <1>1, <1>11 DEF Having
  <2>2. Cardinality(Having("200") \cup {b})
          = IF b \in Having("200") THEN Cardinality(Having("200")) ELSE Cardinality(Having("200")) + 1
    BY <1>9, FS_AddElement
  <2>3. Count("200")' = Count("200") \/ Count("200")' = Count("200") + 1
    BY <1>9, <1>10, <2>1, <2>2
  <2>4. Count("200")' \in Nat /\ Count("200")' <= Count("200") + 1
    BY <1>9, <2>3
  <2> QED  BY <1>2, <1>5, <1>7, <1>8, <1>11, <2>4
<1>12. CASE o # "200"
  <2>1. Having("200")' = Having("200")
    BY <1>1, <1>12 DEF Having
  <2>2. Count("200")' = Count("200")
    BY <1>9, <1>10, <2>1
  <2> QED  BY <1>2, <1>5, <1>7, <1>8, <1>9, <1>12, <2>2
<1> QED  BY <1>11, <1>12

LEMMA ProbeAnswers ==
    ASSUME ProbeInv, phase = "probe", NEW r \in flying, Answer(r) \/ Fail(r)
    PROVE  ProbeInv'
<1>1. Principal(phase, r.index) = 0
  BY OneBucket DEF ProbeInv
<1>2. tokens \in [0..0 -> Nat] /\ seconds \in Nat /\ Capacity \in Nat /\ Rate \in Nat
      /\ tokens[0] + Count("200") <= Capacity + seconds * Rate
  BY LoadAssumption DEF ProbeInv
<1>3. PICK o \in Outcomes :
        /\ Observed(r, o) /\ next' = next /\ seconds' = seconds
        /\ \/ o # "200" /\ tokens' = tokens
           \/ tokens[0] > 0 /\ tokens' = [tokens EXCEPT ![0] = @ - 1]
  BY <1>1 DEF Answer, Fail, Outcomes
<1>4. tokens' \in [0..0 -> Nat] /\ tokens'[0] + (IF o = "200" THEN 1 ELSE 0) <= tokens[0]
  BY <1>2, <1>3
<1>5. Count("200") \in Nat /\ seconds * Rate \in Nat
  BY <1>2, CountType DEF ProbeInv
<1>6. Count("200")' \in Nat /\ Count("200")' <= Count("200") + IF o = "200" THEN 1 ELSE 0
  BY <1>3, ProbeObserves
<1>7. tokens'[0] + Count("200")' <= Capacity + seconds' * Rate
  <2>1. tokens[0] \in Nat /\ tokens'[0] \in Nat
    BY <1>2, <1>4
  <2> QED  BY <1>2, <1>3, <1>4, <1>5, <1>6, <2>1
<1> QED  BY <1>2, <1>3, <1>4, <1>7, ProbeObserves DEF ProbeInv

LEMMA ProbeTakes ==
    ASSUME ProbeInv, phase = "probe", Take
    PROVE  ProbeInv'
<1>1. /\ next' = next + 1 /\ UNCHANGED <<answers, tokens, seconds>>
      /\ flying' = flying \cup {[index |-> next, since |-> seconds]}
  BY DEF Take
<1>2. Indices(flying)' = Indices(flying) \cup {next}
  <2>1. Indices(flying') = Indices(flying) \cup {[index |-> next, since |-> seconds].index}
    BY <1>1, IndicesOfMore
  <2> QED  BY <2>1 DEF Indices
<1>3. 0..(next' - 1) \subseteq (0..(next - 1)) \cup {next} /\ next' \in Nat
  BY <1>1 DEF ProbeInv
<1>4. \A r \in flying' : r.index \in Nat
  BY <1>1 DEF ProbeInv
<1> QED  BY <1>1, <1>2, <1>3, <1>4 DEF ProbeInv, Indices, Count

LEMMA ProbeRefills ==
    ASSUME ProbeInv, phase = "probe", SecondPasses
    PROVE  ProbeInv'
<1>1. /\ UNCHANGED <<next, flying, answers>> /\ seconds' = seconds + 1
      /\ tokens' = [p \in DOMAIN tokens |-> Refilled(tokens[p])]
  BY DEF SecondPasses
<1>2. tokens \in [0..0 -> Nat] /\ seconds \in Nat /\ Capacity \in Nat /\ Rate \in Nat
      /\ Count("200") \in Nat /\ tokens[0] + Count("200") <= Capacity + seconds * Rate
  BY LoadAssumption, CountType DEF ProbeInv
<1>3. \A t \in Nat : Refilled(t) \in Nat /\ Refilled(t) <= t + Rate
  BY <1>2 DEF Refilled, Capped
<1>4. tokens' \in [0..0 -> Nat] /\ tokens'[0] <= tokens[0] + Rate
  BY <1>1, <1>2, <1>3
<1>5. seconds' * Rate = seconds * Rate + Rate /\ seconds * Rate \in Nat
  BY <1>1, <1>2
<1>6. Count("200")' = Count("200")
  BY <1>1 DEF Count
<1>7. tokens'[0] + Count("200")' <= Capacity + seconds' * Rate
  <2>1. tokens[0] \in Nat /\ tokens'[0] \in Nat
    BY <1>2, <1>4
  <2> QED  BY <1>2, <1>4, <1>5, <1>6, <2>1
<1> QED  BY <1>1, <1>2, <1>4, <1>7 DEF ProbeInv, Indices

LEMMA StepProbeInv == ProbeInv /\ [Next]_vars => ProbeInv'
<1> SUFFICES ASSUME ProbeInv, [Next]_vars PROVE ProbeInv'
  OBVIOUS
<1>1. CASE UNCHANGED <<phase, loadVars>>
  BY <1>1 DEF ProbeInv, Indices, Count, loadVars
<1>2. CASE phase' = "over"
  BY <1>2 DEF ProbeInv
<1>3. CASE \E f \in Phases : Begin(f)
  BY <1>3, ProbeBegins
<1>4. CASE Take \/ SecondPasses \/ \E r \in flying : Answer(r) \/ Fail(r)
  <2>1. phase' = phase
    BY <1>4 DEF Take, SecondPasses, Answer, Fail
  <2>2. CASE phase # "probe"
    BY <2>1, <2>2 DEF ProbeInv
  <2> QED  BY <1>4, <2>2, ProbeTakes, ProbeRefills, ProbeAnswers
<1>5. CASE Main
  BY <1>1, <1>2, <1>3, <1>5
  DEF Main, Register, SetupDone, BurstDone, SetStop, SustainedDone, ProbeDone, Finish, Phases, Profiles
<1> QED  BY <1>1, <1>4, <1>5, MonitorStep DEF Next, Load, vars

(* Every index that was taken has been answered, so that there are at least  *)
(* as many answers as requests.                                              *)
LEMMA AllAnswered ==
    ASSUME ProbeInv, phase = "probe", Observations
    PROVE  Cardinality(answers) \in Nat /\ Requests["probe"] <= Cardinality(answers)
<1> DEFINE N == Requests["probe"]
           index == [a \in answers |-> a.index]
<1>1. N \in Nat \ {0} /\ next = N /\ flying = {} /\ IsFiniteSet(answers)
  BY LoadAssumption DEF ProbeInv, Observations, Phases
<1>2. 0..(N - 1) \subseteq Indices(answers)
  BY <1>1 DEF ProbeInv, Indices
<1>3. index \in Surjection(answers, Indices(answers))
  BY DEF Surjection, Indices
<1>4. IsFiniteSet(Indices(answers)) /\ Cardinality(Indices(answers)) <= Cardinality(answers)
  BY <1>1, <1>3, FS_Surjection
<1>5. Cardinality(0..(N - 1)) <= Cardinality(Indices(answers))
  BY <1>2, <1>4, FS_Subset
<1>6. Cardinality(0..(N - 1)) = N
  <2>1. 0 \in Int /\ N - 1 \in Int /\ ~(0 > N - 1)
    BY <1>1
  <2>2. Cardinality(0..(N - 1)) = (N - 1) - 0 + 1
    BY ONLY <2>1, FS_Interval
  <2> QED  BY <1>1, <2>2
<1>7. Cardinality(answers) \in Nat /\ Cardinality(Indices(answers)) \in Nat
  BY <1>1, <1>4, FS_CardinalityType
<1> QED  BY <1>1, <1>4, <1>5, <1>6, <1>7

LEMMA CountsAddUp ==
    ASSUME ProbeInv, phase = "probe"
    PROVE  Cardinality(answers) <= Count("200") + Count("429") + Count("error")
<1>1. IsFiniteSet(answers)
  BY DEF ProbeInv
<1>2. /\ IsFiniteSet(Having("200")) /\ Count("200") = Cardinality(Having("200"))
      /\ IsFiniteSet(Having("429")) /\ Count("429") = Cardinality(Having("429"))
      /\ IsFiniteSet(Having("error")) /\ Count("error") = Cardinality(Having("error"))
      /\ Count("200") \in Nat /\ Count("429") \in Nat /\ Count("error") \in Nat
  BY <1>1, CountType
<1>3. answers = (Having("200") \cup Having("429")) \cup Having("error")
  BY DEF ProbeInv, Having, Outcomes
<1>4. IsFiniteSet(Having("200") \cup Having("429"))
      /\ Cardinality(Having("200") \cup Having("429"))
            = Cardinality(Having("200")) + Cardinality(Having("429"))
                - Cardinality(Having("200") \cap Having("429"))
  BY <1>2, FS_Union
<1>5. Cardinality(answers) = Cardinality(Having("200") \cup Having("429")) + Cardinality(Having("error"))
                - Cardinality((Having("200") \cup Having("429")) \cap Having("error"))
  BY <1>2, <1>3, <1>4, FS_Union
<1>6. /\ Cardinality(Having("200") \cap Having("429")) \in Nat
      /\ Cardinality((Having("200") \cup Having("429")) \cap Having("error")) \in Nat
  BY <1>2, <1>4, FS_Intersection, FS_CardinalityType
<1> QED  BY <1>2, <1>4, <1>5, <1>6

(* An overload of one principal that outruns the refill of its bucket is     *)
(* refused at least once, for every number of requests, workers and failures.*)
THEOREM OverloadMeetsLimit == Spec => []OverloadIsRefused
<1>1. Init => ProbeInv
  BY DEF Init, ProbeInv
<1>2. ProbeInv => OverloadIsRefused
  <2> SUFFICES ASSUME ProbeInv, phase = "probe", Observations,
                      Capacity + seconds * Rate + Count("error") < Requests["probe"],
                      ~(Count("429") > 0)
               PROVE  FALSE
    BY DEF OverloadIsRefused
  <2>1. Count("200") \in Nat /\ Count("429") \in Nat /\ Count("error") \in Nat
    BY CountType DEF ProbeInv
  <2>2. Requests["probe"] <= Count("200") + Count("error")
    <3>1. Requests["probe"] \in Nat /\ Cardinality(answers) \in Nat
      BY AllAnswered, LoadAssumption DEF Phases
    <3> QED  BY <2>1, <3>1, AllAnswered, CountsAddUp
  <2>3. tokens[0] \in Nat /\ seconds * Rate \in Nat /\ Capacity \in Nat /\ Requests["probe"] \in Nat
        /\ tokens[0] + Count("200") <= Capacity + seconds * Rate
    BY LoadAssumption DEF ProbeInv, Phases
  <2> QED  BY <2>1, <2>2, <2>3
<1> QED  BY <1>1, <1>2, StepProbeInv, PTL DEF Spec

-----------------------------------------------------------------------------
(* The monitor leaves its counts once, when it ends: counts that satisfy the *)
(* guardrail are those of a monitor that has ended.                          *)
MonitorInv ==
    /\ LoadTypeOK
    /\ monitor # "ended" => health = None
    /\ phase # "over" => report = "none"
    /\ HealthIsComplete

LEMMA MonitorBegins == Init => MonitorInv
<1> SUFFICES ASSUME Init PROVE MonitorInv
  OBVIOUS
<1>1. /\ phase = "setup" /\ monitor = "off" /\ stop = FALSE /\ samples = 0 /\ failures = 0
      /\ health = [samples |-> 0, failures |-> 0] /\ faults = 0 /\ report = "none"
  BY DEF Init, None
<1>2. stop \in BOOLEAN
  BY <1>1, Zenon
<1>3. LoadTypeOK
  BY <1>1, <1>2, SetupAssumption DEF LoadTypeOK
<1> QED BY <1>1, <1>3 DEF MonitorInv, HealthIsComplete, None

LEMMA MonitorGoesOn ==
    ASSUME MonitorInv, Monitor
    PROVE  MonitorInv'
<1> USE SetupAssumption DEF MonitorInv, LoadTypeOK, HealthIsComplete, None
<1>1. CASE MonitorStart \/ MonitorWait
  BY <1>1 DEF MonitorStart, MonitorWait
<1>2. CASE MonitorSample
  BY <1>2 DEF MonitorSample, Capped
<1>3. CASE MonitorEnd
  BY <1>3 DEF MonitorEnd
<1> QED BY <1>1, <1>2, <1>3 DEF Monitor

LEMMA MonitorOutlivesMain ==
    ASSUME MonitorInv, Main
    PROVE  MonitorInv'
<1> USE SetupAssumption DEF MonitorInv, LoadTypeOK, HealthIsComplete, None, monitorVars
<1>1. CASE Register
  BY <1>1 DEF Register, Finish
<1>2. CASE SetupDone \/ BurstDone
  BY <1>2 DEF SetupDone, BurstDone, Begin, Phases, Profiles
<1>3. CASE SetStop
  BY <1>3 DEF SetStop
<1>4. CASE SustainedDone
  <2>1. faults' \in 0..MaxFaults
    BY <1>4 DEF SustainedDone, Joined
  <2>2. CASE health.samples >= 1
    BY <1>4, <2>1, <2>2 DEF SustainedDone, Begin, Finish, Phases
  <2>3. CASE ~(health.samples >= 1)
    BY <1>4, <2>1, <2>3 DEF SustainedDone, Finish
  <2> QED BY <2>2, <2>3
<1>5. CASE ProbeDone
  <2>1. /\ phase = "probe" /\ phase' = "over" /\ faults' \in 0..MaxFaults
        /\ UNCHANGED <<monitor, stop, samples, failures, health>>
    BY <1>5 DEF ProbeDone, Finish
  <2>a. report' = "PASS" \/ report' = "FAIL"
    BY <1>5, Zenon DEF ProbeDone, Finish
  <2>2. monitor = "ended"
    BY <2>1
  <2> QED BY <2>1, <2>a, <2>2
<1> QED BY <1>1, <1>2, <1>3, <1>4, <1>5 DEF Main

LEMMA MonitorInvStep == MonitorInv /\ [Next]_vars => MonitorInv'
<1> SUFFICES ASSUME MonitorInv, [Next]_vars PROVE MonitorInv'
  OBVIOUS
<1> USE DEF MonitorInv, LoadTypeOK, HealthIsComplete, None, monitorVars
<1>1. CASE Load \/ SecondPasses
  BY <1>1 DEF Load, Take, Answer, SecondPasses
<1>2. CASE Monitor
  BY <1>2, MonitorGoesOn
<1>3. CASE Main
  BY <1>3, MonitorOutlivesMain
<1>4. CASE \E r \in flying : Fail(r)
  BY <1>4, SetupAssumption DEF Fail
<1>5. CASE UNCHANGED vars
  BY <1>5 DEF vars
<1> QED BY <1>1, <1>2, <1>3, <1>4, <1>5 DEF Next

LEMMA MonitorInvariant == Spec => []MonitorInv
  BY MonitorBegins, MonitorInvStep, PTL DEF Spec

(* The control state, the counts and the report keep their types.            *)
THEOREM LoadTyped == Spec => []LoadTypeOK
  BY MonitorInvariant, PTL DEF MonitorInv

(* A proof that goes past the sustained profile, or passes, has the whole of *)
(* what the monitor saw, whenever join() gives up.                           *)
THEOREM HealthEvidenceWhole == Spec => []HealthIsComplete
  BY MonitorInvariant, PTL DEF MonitorInv
-----------------------------------------------------------------------------
(* The check of the percentiles' order can never be what fails: they are in  *)
(* order for every sorted list of latencies.                                 *)
THEOREM PercentilesInOrder ==
    ASSUME NEW s \in Seq(Nat), \A i, j \in 1..Len(s) : i <= j => s[i] <= s[j]
    PROVE  /\ Percentile(s, 50) <= Percentile(s, 95)
           /\ Percentile(s, 95) <= Percentile(s, 99)
           /\ Percentile(s, 99) <= Percentile(s, 100)
<1>1. CASE s = <<>>
  BY <1>1 DEF Percentile
<1>2. CASE s # <<>>
  <2> DEFINE n == Len(s)
  <2>1. n \in Nat \ {0}
    BY <1>2
  <2> HIDE DEF n
  <2>2. /\ Rank(50, n) \in 1..n /\ Rank(95, n) \in 1..n /\ Rank(99, n) \in 1..n /\ Rank(100, n) \in 1..n
        /\ Rank(50, n) <= Rank(95, n) /\ Rank(95, n) <= Rank(99, n) /\ Rank(99, n) <= Rank(100, n)
    BY <2>1 DEF Rank, Ceiling
  <2> QED BY <1>2, <2>2 DEF Percentile, n
<1> QED BY <1>1, <1>2
-----------------------------------------------------------------------------
(* Behind the limiter, the breaker of a route: GatewayCircuit, for every     *)
(* number of requests and retries and every setting.                         *)
CountersOK ==
    /\ pc \in [Request -> {"idle", "gate", "called", "served", "refused"}]
    /\ attempt \in [Request -> 0..Retries]
    /\ served \in [Request -> Nat]
    /\ late \in [Request -> Nat]

(* How often a request can have had an effect, at each point of an attempt.  *)
Effects(r) ==
    LET effects == served[r] + late[r] IN
    /\ effects <= Retries + 1
    /\ pc[r] \in {"gate", "called"} => effects <= attempt[r]
    /\ pc[r] \in {"served", "refused"} => effects <= attempt[r] + 1

CountInv == CountersOK /\ \A r \in Request : Effects(r)
-----------------------------------------------------------------------------
LEMMA StepSpent ==
    ASSUME CountInv, NEW r \in Request,
           \/ Arrive(r) \/ Acquire(r) \/ Serve(r) \/ Respond(r)
           \/ GiveUp(r) \/ ServeLate(r) \/ Retry(r) \/ Fallback(r)
           \/ HangUp(r)
    PROVE  CountInv'
<1> USE CircuitAssumption DEF CountInv, CountersOK, At, Goto
<1>1. CASE Arrive(r)
  BY <1>1 DEF Arrive, Effects
<1>2. CASE Acquire(r)
  BY <1>2 DEF Acquire, Effects
<1>3. CASE Serve(r)
  BY <1>3 DEF Serve, Effects
<1>4. CASE Respond(r)
  BY <1>4 DEF Respond, Effects
<1>5. CASE GiveUp(r)
  BY <1>5 DEF GiveUp, Effects
<1>6. CASE ServeLate(r)
  BY <1>6 DEF ServeLate, Effects
<1>7. CASE Retry(r)
  BY <1>7 DEF Retry, MayRetry, Effects
<1>8. CASE Fallback(r)
  BY <1>8 DEF Fallback, Effects
<1>9. CASE HangUp(r)
  BY <1>9 DEF HangUp, Effects
<1> QED
  BY <1>1, <1>2, <1>3, <1>4, <1>5, <1>6, <1>7, <1>8, <1>9

LEMMA CountInvOfSpec == CircuitSpec => []CountInv
<1>1. CircuitInit => CountInv
  BY CircuitAssumption DEF CircuitInit, CountInv, CountersOK, Effects
<1>2. CountInv /\ [CircuitNext]_circuitVars => CountInv'
  <2> SUFFICES ASSUME CountInv, [CircuitNext]_circuitVars PROVE CountInv'
    OBVIOUS
  <2>1. CASE HalfOpen \/ Outage \/ UNCHANGED circuitVars
    BY <2>1 DEF CountInv, CountersOK, Effects, HalfOpen, Outage, circuitVars
  <2>2. ASSUME NEW r \in Request, Arrive(r) \/ Proceed(r) \/ HangUp(r)
        PROVE  CountInv'
    BY <2>2, StepSpent DEF Proceed
  <2> QED  BY <2>1, <2>2 DEF CircuitNext
<1> QED  BY <1>1, <1>2, PTL DEF CircuitSpec

(* No request is carried out more often than the route has attempts, however *)
(* slowly the service works off what the gateway has given up.               *)
THEOREM EffectsBounded == CircuitSpec => []NoSurplusEffect
<1>1. CountInv => NoSurplusEffect
  BY DEF CountInv, Effects, NoSurplusEffect
<1> QED  BY <1>1, CountInvOfSpec, PTL
-----------------------------------------------------------------------------
(* The breaker: outside the half-open state no permission is out, in it      *)
(* every permission beyond Permitted comes from a call that hung up, and the *)
(* calls still under way keep room for theirs.                               *)
Calls == {r \in Request : pc[r] \in {"called", "served"}}
BreakerOK ==
    /\ breaker \in {"CLOSED", "OPEN", "HALF_OPEN"}
    /\ window \in Seq({"success", "failure"})
    /\ breaker = "CLOSED" => Len(window) <= WindowSize
    /\ breaker = "HALF_OPEN" => Len(window) < Permitted
    /\ breaker = "OPEN" => window = <<>>
PermitsOK ==
    /\ permits \in Nat
    /\ breaker # "HALF_OPEN" => permits = 0
    /\ permits + Cardinality(Calls) <= Permitted + Cardinality(Request)
ClientsOK == up \in BOOLEAN /\ status \in [Request -> Status]
BInv == BreakerOK /\ PermitsOK /\ ClientsOK

LEMMA CallsFinite ==
    /\ IsFiniteSet(Calls) /\ Cardinality(Calls) \in Nat
    /\ Cardinality(Calls) <= Cardinality(Request) /\ Cardinality(Request) \in Nat
<1>1. Calls \subseteq Request /\ IsFiniteSet(Request)
  BY CircuitAssumption DEF Calls
<1> QED  BY <1>1, FS_Subset, FS_CardinalityType

(* The window slides: it never holds more than its size.                     *)
LEMMA LatestFits ==
    ASSUME NEW s \in Seq({"success", "failure"}), NEW n \in Nat \ {0}
    PROVE  Latest(s, n) \in Seq({"success", "failure"}) /\ Len(Latest(s, n)) <= n
<1>1. CASE Len(s) <= n
  BY <1>1 DEF Latest
<1>2. CASE Len(s) > n
  <2>1. /\ Len(s) - n + 1 \in 1..(Len(s) + 1) /\ Len(s) \in (Len(s) - n)..Len(s)
        /\ Latest(s, n) = SubSeq(s, Len(s) - n + 1, Len(s))
    BY <1>2 DEF Latest
  <2>2. /\ SubSeq(s, Len(s) - n + 1, Len(s)) \in Seq({"success", "failure"})
        /\ Len(SubSeq(s, Len(s) - n + 1, Len(s))) = n
    BY <1>2, <2>1, SubSeqProperties
  <2> QED  BY <2>1, <2>2
<1> QED  BY <1>1, <1>2

LEMMA EnterOK ==
    ASSUME NEW state \in {"CLOSED", "OPEN", "HALF_OPEN"}, Enter(state)
    PROVE  /\ BreakerOK'
           /\ permits' \in 0..Permitted /\ (breaker' # "HALF_OPEN" => permits' = 0)
<1>1. <<>> \in Seq({"success", "failure"}) /\ Len(<<>>) = 0
  OBVIOUS
<1> QED  BY <1>1, CircuitAssumption DEF Enter, BreakerOK

(* What is recorded either fits the window or ends the state.                *)
LEMMA RecordOK ==
    ASSUME BreakerOK, PermitsOK, NEW result \in {"success", "failure"}, Record(result)
    PROVE  /\ BreakerOK'
           /\ (breaker' # "HALF_OPEN" => permits' = 0)
           /\ permits' \in 0..Permitted \/ permits' = permits
<1>1. Append(window, result) \in Seq({"success", "failure"})
  BY DEF BreakerOK
<1>2. CASE breaker = "CLOSED" /\ RecordClosed(result)
  <2> DEFINE w == Latest(Append(window, result), WindowSize)
  <2>1. w \in Seq({"success", "failure"}) /\ Len(w) <= WindowSize
    BY <1>1, LatestFits, CircuitAssumption
  <2>2. \/ Enter("OPEN")
        \/ window' = w /\ UNCHANGED <<breaker, permits>>
    BY <1>2 DEF RecordClosed
  <2>3. CASE Enter("OPEN")
    BY <2>3, EnterOK
  <2>4. CASE window' = w /\ UNCHANGED <<breaker, permits>>
    BY <1>2, <2>1, <2>4 DEF BreakerOK, PermitsOK
  <2> QED  BY <2>2, <2>3, <2>4
<1>3. CASE breaker = "HALF_OPEN" /\ RecordProbe(result)
  <2>1. \/ \E state \in {"CLOSED", "OPEN"} : Enter(state)
        \/ /\ Len(Append(window, result)) < Permitted
           /\ window' = Append(window, result) /\ UNCHANGED <<breaker, permits>>
    BY <1>3 DEF RecordProbe
  <2>2. CASE \E state \in {"CLOSED", "OPEN"} : Enter(state)
    BY <2>2, EnterOK
  <2>3. CASE /\ Len(Append(window, result)) < Permitted
             /\ window' = Append(window, result) /\ UNCHANGED <<breaker, permits>>
    BY <1>1, <1>3, <2>3 DEF BreakerOK, PermitsOK
  <2> QED  BY <2>1, <2>2, <2>3
<1>4. CASE breaker = "OPEN" /\ UNCHANGED breakerVars
  BY <1>4 DEF breakerVars, BreakerOK, PermitsOK
<1> QED  BY <1>2, <1>3, <1>4 DEF Record

(* One request starts or ends its call.                                      *)
LEMMA CallsMove ==
    ASSUME CountInv, NEW r \in Request,
           NEW s \in {"idle", "gate", "called", "served", "refused"},
           Goto(r, s)
    PROVE  /\ Calls' = IF s \in {"called", "served"} THEN Calls \cup {r} ELSE Calls \ {r}
           /\ Cardinality(Calls') \in Nat
           /\ Cardinality(Calls') <= Cardinality(Request)
           /\ Cardinality(Calls') <=
                 Cardinality(Calls) + (IF r \notin Calls /\ r \in Calls' THEN 1 ELSE 0)
                                    - (IF r \in Calls /\ r \notin Calls' THEN 1 ELSE 0)
<1>1. Calls' = IF s \in {"called", "served"} THEN Calls \cup {r} ELSE Calls \ {r}
  BY DEF Goto, Calls, CountInv, CountersOK
<1>2. /\ IsFiniteSet(Calls) /\ Cardinality(Calls) \in Nat /\ Cardinality(Request) \in Nat
      /\ IsFiniteSet(Request) /\ Calls' \subseteq Request
  BY CallsFinite, CircuitAssumption DEF Calls
<1>3. Cardinality(Calls') \in Nat /\ Cardinality(Calls') <= Cardinality(Request)
  BY <1>2, FS_Subset, FS_CardinalityType
<1>4. Cardinality(Calls \cup {r}) = IF r \in Calls THEN Cardinality(Calls) ELSE Cardinality(Calls) + 1
  BY <1>2, FS_AddElement
<1>5. Cardinality(Calls \ {r}) = IF r \in Calls THEN Cardinality(Calls) - 1 ELSE Cardinality(Calls)
  BY <1>2, FS_RemoveElement
<1>6. CASE s \in {"called", "served"}
  BY <1>1, <1>2, <1>3, <1>4, <1>6
<1>7. CASE s \notin {"called", "served"}
  BY <1>1, <1>2, <1>3, <1>5, <1>7
<1> QED  BY <1>6, <1>7

LEMMA QuietBreaker ==
    ASSUME BreakerOK, UNCHANGED <<breaker, window>>
    PROVE  BreakerOK'
BY DEF BreakerOK

LEMMA StepBreaker ==
    ASSUME CountInv, BInv, NEW r \in Request,
           Arrive(r) \/ Proceed(r) \/ HangUp(r)
    PROVE  BreakerOK' /\ PermitsOK'
<1>0. pc[r] \in {"called", "served"} <=> r \in Calls
  BY DEF Calls
<1>1. CASE \/ Arrive(r) \/ Serve(r) \/ ServeLate(r) \/ Retry(r)
          \/ Fallback(r)
  <2>1. UNCHANGED <<breaker, window, permits>>
    BY <1>1 DEF Arrive, Serve, ServeLate, Retry, Fallback, breakerVars
  <2>2. Cardinality(Calls') <= Cardinality(Calls) /\ Cardinality(Calls') \in Nat
    <3>1. CASE UNCHANGED pc
      BY <3>1, CallsFinite DEF Calls
    <3>2. CASE Arrive(r) \/ Serve(r) \/ Retry(r) \/ Fallback(r)
      <4>1. PICK s \in {"idle", "gate", "served"} :
              Goto(r, s) /\ (s = "served" => r \in Calls)
        BY <1>0, <3>2 DEF Arrive, Serve, Retry, Fallback, At
      <4> QED  BY <4>1, CallsMove, CallsFinite
    <3> QED  BY <1>1, <3>1, <3>2 DEF ServeLate
  <2> QED  BY <2>1, <2>2, QuietBreaker, CallsFinite, CircuitAssumption DEF BInv, PermitsOK
<1>2. CASE Acquire(r)
  <2>1. UNCHANGED <<breaker, window>>
    BY <1>2 DEF Acquire
  <2>2. \/ permits' = permits /\ Goto(r, "refused")
        \/ permits' = permits /\ Goto(r, "called") /\ breaker = "CLOSED"
        \/ permits' = permits - 1 /\ permits > 0 /\ Goto(r, "called") /\ breaker = "HALF_OPEN"
    BY <1>2 DEF Acquire
  <2>3. CASE permits' = permits /\ Goto(r, "refused")
    BY <2>1, <2>3, QuietBreaker, CallsMove, CallsFinite, CircuitAssumption DEF BInv, PermitsOK
  <2>4. CASE permits' = permits /\ Goto(r, "called") /\ breaker = "CLOSED"
    BY <2>1, <2>4, QuietBreaker, CallsMove, CallsFinite, CircuitAssumption DEF BInv, PermitsOK
  <2>5. CASE permits' = permits - 1 /\ permits > 0 /\ Goto(r, "called") /\ breaker = "HALF_OPEN"
    BY <2>1, <2>5, QuietBreaker, CallsMove, CallsFinite, CircuitAssumption DEF BInv, PermitsOK
  <2> QED  BY <2>2, <2>3, <2>4, <2>5
<1>3. CASE Respond(r) \/ GiveUp(r)
  <2>1. PICK result \in {"success", "failure"}, s \in {"idle", "refused"} :
          Record(result) /\ Goto(r, s) /\ r \in Calls
    BY <1>0, <1>3 DEF Respond, GiveUp, At
  <2>2. /\ BreakerOK' /\ (breaker' # "HALF_OPEN" => permits' = 0)
        /\ permits' \in 0..Permitted \/ permits' = permits
    BY <2>1, RecordOK DEF BInv
  <2>3. /\ Cardinality(Calls') \in Nat /\ Cardinality(Calls') <= Cardinality(Request)
        /\ Cardinality(Calls') <= Cardinality(Calls)
    BY <2>1, CallsMove, CallsFinite
  <2> QED  BY <2>2, <2>3, CallsFinite, CircuitAssumption DEF BInv, PermitsOK
<1>4. CASE HangUp(r)
  <2>1. UNCHANGED <<breaker, window>> /\ Goto(r, "idle")
    BY <1>4 DEF HangUp
  <2>2. permits' = IF r \in Calls /\ breaker = "HALF_OPEN" THEN permits + 1 ELSE permits
    BY <1>0, <1>4 DEF HangUp
  <2>3. /\ Cardinality(Calls') \in Nat
        /\ Cardinality(Calls') <= Cardinality(Calls) - (IF r \in Calls THEN 1 ELSE 0)
    BY <2>1, CallsMove, CallsFinite
  <2>4. CASE r \in Calls /\ breaker = "HALF_OPEN"
    BY <2>1, <2>2, <2>3, <2>4, QuietBreaker, CallsFinite, CircuitAssumption DEF BInv, PermitsOK
  <2>5. CASE ~(r \in Calls /\ breaker = "HALF_OPEN")
    BY <2>1, <2>2, <2>3, <2>5, QuietBreaker, CallsFinite, CircuitAssumption DEF BInv, PermitsOK
  <2> QED  BY <2>4, <2>5
<1> QED  BY <1>1, <1>2, <1>3, <1>4 DEF Proceed

LEMMA StepRest ==
    ASSUME BInv, [CircuitNext]_circuitVars
    PROVE  ClientsOK'
<1>1. up' \in BOOLEAN
  <2>1. UNCHANGED up \/ up' = ~up
    BY DEF CircuitNext, Proceed, Arrive, Acquire, Serve, Respond,
           GiveUp, ServeLate, Retry, Fallback, HangUp,
           HalfOpen, Outage, circuitVars
  <2>2. up \in BOOLEAN
    BY DEF BInv, ClientsOK
  <2> QED  BY <2>1, <2>2, Zenon
<1>2. status' \in [Request -> Status]
  BY DEF CircuitNext, Proceed, Arrive, Acquire, Serve, Respond,
         GiveUp, ServeLate, Retry, Fallback, HangUp,
         HalfOpen, Outage, circuitVars, BInv, ClientsOK, Status
<1> QED  BY <1>1, <1>2 DEF ClientsOK

LEMMA StepBInv ==
    ASSUME CountInv, BInv, [CircuitNext]_circuitVars
    PROVE  BInv'
<1>1. ClientsOK'
  BY StepRest
<1>2. ASSUME NEW r \in Request, Arrive(r) \/ Proceed(r) \/ HangUp(r)
      PROVE  BInv'
  BY <1>1, <1>2, StepBreaker DEF BInv
<1>3. CASE HalfOpen
  <2>1. Enter("HALF_OPEN") /\ UNCHANGED pc
    BY <1>3 DEF HalfOpen
  <2>2. Calls' = Calls
    BY <2>1 DEF Calls
  <2> QED  BY <1>1, <2>1, <2>2, EnterOK, CallsFinite, CircuitAssumption DEF Enter, BInv, PermitsOK
<1>4. CASE Outage \/ UNCHANGED circuitVars
  <2>1. UNCHANGED <<breaker, window, permits, pc>>
    BY <1>4 DEF Outage, breakerVars, circuitVars
  <2> QED  BY <1>1, <2>1, QuietBreaker DEF BInv, PermitsOK, Calls
<1> QED  BY <1>2, <1>3, <1>4 DEF CircuitNext

(* The breaker keeps its books: the window within its size, the permissions  *)
(* within what the half-open state allows, for every interleaving of calls,  *)
(* late results and clients that hang up.                                    *)
THEOREM CircuitTyped == CircuitSpec => []CircuitTypeOK
<1>1. CircuitInit => BInv
  <2> SUFFICES ASSUME CircuitInit PROVE BInv
    OBVIOUS
  <2>1. BreakerOK
    <3>1. <<>> \in Seq({"success", "failure"}) /\ Len(<<>>) = 0
      OBVIOUS
    <3> QED  BY <3>1, CircuitAssumption DEF CircuitInit, BreakerOK
  <2>2. Calls = {}
    BY DEF CircuitInit, Calls
  <2>3. PermitsOK
    BY <2>2, FS_EmptySet, CallsFinite, CircuitAssumption DEF CircuitInit, PermitsOK
  <2>4. up \in BOOLEAN
    BY Zenon DEF CircuitInit
  <2> QED  BY <2>1, <2>3, <2>4 DEF CircuitInit, BInv, ClientsOK, Status
<1>2. CountInv /\ BInv => CircuitTypeOK
  <2> SUFFICES ASSUME CountInv, BInv PROVE CircuitTypeOK
    OBVIOUS
  <2>1. permits \in 0..(Permitted + Cardinality(Request))
    BY CallsFinite, CircuitAssumption DEF BInv, PermitsOK
  <2>2. up \in BOOLEAN
    BY DEF BInv, ClientsOK
  <2> QED  BY <2>1, <2>2 DEF CountInv, CountersOK, BInv, BreakerOK, ClientsOK, CircuitTypeOK
<1> QED  BY <1>1, <1>2, StepBInv, CountInvOfSpec, PTL DEF CircuitSpec
=============================================================================
