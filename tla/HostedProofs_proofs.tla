------------------------ MODULE HostedProofs_proofs -------------------------
(* Proofs about HostedProofs: for every platform behaviour, every number of  *)
(* faults and each of the eight scripts, a hosted proof implements           *)
(* EvidenceRun, its report and exit status are its own, a PASS has seen      *)
(* every service it stopped serve again, the user lists that prove recovery  *)
(* come from their database, and no temporary container outlives it.         *)
EXTENDS HostedProofs, TLAPS, WellFoundedInduction
-----------------------------------------------------------------------------
(* The platform: what a step leaves of it.                                   *)

(* Induction over the naturals, for a set instead of a predicate.            *)
LEMMA SetInduction ==
    ASSUME NEW S \in SUBSET Nat, 0 \in S, \A n \in S : n + 1 \in S
    PROVE  S = Nat
<1> DEFINE R == OpToRel(<, Nat)
<1>1. IsWellFoundedOn(R, Nat)
  BY NatLessThanWellFounded
<1>2. ASSUME Nat \ S # {} PROVE FALSE
  <2>1. \E x \in Nat \ S : \A y \in Nat \ S : ~(<<y, x>> \in R)
    <3> HIDE DEF R
    <3> QED BY <1>1, <1>2, WFMin
  <2>2. PICK x \in Nat \ S : \A y \in Nat \ S : ~(<<y, x>> \in R)
    BY <2>1
  <2>3. x # 0 /\ x - 1 \in Nat /\ x - 1 \notin S
    OBVIOUS
  <2>4. <<x - 1, x>> \in R
    BY <2>3 DEF OpToRel
  <2> QED BY <2>2, <2>3, <2>4
<1> QED BY <1>2

(* The fields stay, and so do the containers of docker compose run.          *)
Keeps(p, q) == DOMAIN q = DOMAIN p /\ q.temp = p.temp

LEMMA ResetKeeps ==
    ASSUME NEW p, "temp" \in DOMAIN p, NEW b
    PROVE  Keeps(p, Reset(p, b))
BY DEF Keeps, Reset

LEMMA RecordedKeeps ==
    ASSUME NEW p, "temp" \in DOMAIN p, NEW result
    PROVE  Keeps(p, Recorded(p, result))
<1>1. \A w : Keeps(p, [p EXCEPT !.window = w]) /\ Keeps(p, [p EXCEPT !.denied = w])
  BY DEF Keeps
<1>2. Keeps(p, [p EXCEPT !.denied = @ + 1])
  BY DEF Keeps
<1>3. \A b : Keeps(p, Reset(p, b))
  BY ResetKeeps
<1> QED BY <1>1, <1>2, <1>3 DEF Recorded

(* The retries of a refused read: the recursive function of Refused exists,  *)
(* and each of its platforms keeps what the first one had.                   *)
Chain(p, f, m) == f = [n \in 1..m |-> Recorded(IF n = 1 THEN p ELSE f[n - 1], "failure")]

LEMMA ChainsExist ==
    ASSUME NEW p, NEW m \in Nat
    PROVE  \E f : Chain(p, f, m)
<1> DEFINE S == {k \in Nat : \E f : Chain(p, f, k)}
<1>1. 0 \in S
  <2> DEFINE f == [n \in 1..0 |-> p]
  <2>1. f = [n \in 1..0 |-> Recorded(IF n = 1 THEN p ELSE f[n - 1], "failure")]
    <3>1. 1..0 = {}
      OBVIOUS
    <3> QED BY <3>1
  <2> QED BY <2>1 DEF Chain
<1>2. ASSUME NEW k \in S PROVE k + 1 \in S
  <2>1. PICK f : Chain(p, f, k)
    OBVIOUS
  <2> DEFINE g == [n \in 1..(k + 1) |-> IF n <= k THEN f[n]
                     ELSE Recorded(IF n = 1 THEN p ELSE f[n - 1], "failure")]
  <2>2. ASSUME NEW n \in 1..(k + 1) PROVE g[n] = Recorded(IF n = 1 THEN p ELSE g[n - 1], "failure")
    <3>1. n # 1 => n - 1 \in 1..(k + 1) /\ g[n - 1] = f[n - 1]
      OBVIOUS
    <3>2. CASE n <= k
      <4>1. f[n] = Recorded(IF n = 1 THEN p ELSE f[n - 1], "failure")
        BY <2>1, <3>2 DEF Chain
      <4> QED BY <4>1, <3>1, <3>2
    <3>3. CASE ~(n <= k)
      BY <3>1, <3>3
    <3> QED BY <3>2, <3>3
  <2>3. g = [n \in 1..(k + 1) |-> g[n]]
    OBVIOUS
  <2>4. Chain(p, g, k + 1)
    <3> HIDE DEF g
    <3> QED BY <2>2, <2>3 DEF Chain
  <2> HIDE DEF g
  <2> QED BY <2>4
<1> HIDE DEF S
<1>3. S = Nat
  <2>1. S \in SUBSET Nat BY DEF S
  <2> QED BY <1>1, <1>2, <2>1, SetInduction
<1> QED BY <1>3 DEF S

LEMMA RefusedKeeps ==
    ASSUME NEW p, "temp" \in DOMAIN p, NEW q \in Refused(p)
    PROVE  Keeps(p, q)
<1> DEFINE R == Retries + 1
<1>1. R \in Nat BY BreakerAssumption
<1>2. PICK f : Chain(p, f, R) /\ \E n \in 1..R : q = f[n]
  <2>1. PICK g : Chain(p, g, R)
    BY ChainsExist, <1>1
  <2> DEFINE after == CHOOSE h : h = [n \in 1..R |-> Recorded(IF n = 1 THEN p ELSE h[n - 1], "failure")]
  <2>2. Chain(p, after, R)
    BY <2>1 DEF Chain
  <2>3. \E n \in 1..R : q = after[n]
    BY DEF Refused
  <2> HIDE DEF after
  <2> QED BY <2>2, <2>3
<1> DEFINE S == {n \in Nat : n \in 1..R => Keeps(p, f[n])}
<1>3. 0 \in S OBVIOUS
<1>4. ASSUME NEW n \in S PROVE n + 1 \in S
  <2> SUFFICES ASSUME n + 1 \in 1..R PROVE Keeps(p, f[n + 1])
    OBVIOUS
  <2>1. f[n + 1] = Recorded(IF n + 1 = 1 THEN p ELSE f[n], "failure")
    <3>1. \A k \in 1..R : f[k] = Recorded(IF k = 1 THEN p ELSE f[k - 1], "failure")
      BY <1>2 DEF Chain
    <3>2. (n + 1) - 1 = n
      OBVIOUS
    <3> QED BY <3>1, <3>2
  <2>2. CASE n = 0
    BY <2>1, <2>2, RecordedKeeps
  <2>3. CASE n # 0
    <3>1. Keeps(p, f[n])
      BY <2>3, <1>1
    <3>2. Keeps(f[n], f[n + 1])
      BY <2>1, <2>3, <3>1, RecordedKeeps DEF Keeps
    <3> QED BY <3>1, <3>2 DEF Keeps
  <2> QED BY <2>2, <2>3
<1> HIDE DEF S
<1>5. S = Nat
  <2>1. S \in SUBSET Nat BY DEF S
  <2> QED BY <1>3, <1>4, <2>1, SetInduction
<1> QED BY <1>2, <1>5, <1>1 DEF S

LEMMA ReadKeeps ==
    ASSUME NEW p, "temp" \in DOMAIN p, NEW r \in GatewayRead(p)
    PROVE  Keeps(p, r.then)
<1>1. ASSUME NEW q, Keeps(p, q) PROVE Keeps(p, Filled(q, "main"))
  BY <1>1 DEF Keeps, Filled
<1>2. Keeps(p, Filled(Recorded(p, "success"), "main"))
  BY <1>1, RecordedKeeps
<1>3. CASE "gateway" \notin p.up
  BY <1>3 DEF GatewayRead, Keeps
<1>4. CASE "gateway" \in p.up
  <2>1. \/ r = [status |-> 200, then |-> Filled(Recorded(p, "success"), "main")]
        \/ \E q \in Refused(p) : r = [status |-> 503, then |-> q]
    BY <1>4 DEF GatewayRead
  <2> QED BY <1>2, <2>1, RefusedKeeps
<1> QED BY <1>3, <1>4

LEMMA SeesIsOne == \A b, p, e : e \in Sees(b, p) => e.then = p
BY DEF Sees, Outcome

(* The operations that write a field of the platform. *)
LEMMA WritesKeep ==
    ASSUME NEW p, "temp" \in DOMAIN p, NEW x, NEW s
    PROVE  /\ \A e \in Register(p, x) \cup Create(p, x) \cup ReadById(p, x) : Keeps(p, e.then)
           /\ \A e \in Stop(p, x) \cup StartAll(p, x) \cup Restart(p, x) : Keeps(p, e.then)
           /\ \A e \in Flush(p) \cup Dump(p) \cup CreateDatabase(p) \cup Restore(p) : Keeps(p, e.then)
           /\ \A e \in Remember(p) \cup Count(p) : Keeps(p, e.then)
           /\ \A e \in Logout(p, x) \cup Race(p, x) : Keeps(p, e.then)
           /\ \A e \in Login(p, s, x) \cup ReadDirectly(p, s, x) : Keeps(p, e.then)
<1>1. \A e \in Register(p, x) \cup Create(p, x) \cup ReadById(p, x) : Keeps(p, e.then)
  <2>1. \A e \in Register(p, x) : Keeps(p, e.then)
    <3>1. Keeps(p, [p EXCEPT !.data.main.accounts = @ \cup {x}, !.data.main.tokens = Append(@, "active")])
      BY DEF Keeps
    <3> QED BY <3>1, SeesIsOne DEF Register, Keeps
  <2>2. \A e \in Create(p, x) : Keeps(p, e.then)
    BY SeesIsOne DEF Create, Keeps
  <2>3. \A e \in ReadById(p, x) : Keeps(p, e.then)
    BY SeesIsOne DEF ReadById, Keeps
  <2> QED BY <2>1, <2>2, <2>3
<1>2. \A e \in Stop(p, x) \cup StartAll(p, x) \cup Restart(p, x) : Keeps(p, e.then)
  <2>1. \A v : "temp" \in DOMAIN [p EXCEPT !.up = v] /\ Keeps(p, [p EXCEPT !.up = v])
    BY DEF Keeps
  <2>2. \A v : Keeps(p, Reset([p EXCEPT !.up = v], "CLOSED"))
    BY <2>1, ResetKeeps DEF Keeps
  <2>3. Keeps(p, [p EXCEPT !.up = @ \ x]) /\ Keeps(p, [p EXCEPT !.up = @ \cup x])
    BY DEF Keeps
  <2>4. Keeps(p, Reset([p EXCEPT !.up = @ \cup x], "CLOSED"))
    BY <2>2
  <2> QED BY <2>3, <2>4, SeesIsOne DEF Stop, StartAll, Restart
<1>3. \A e \in Flush(p) \cup Dump(p) \cup CreateDatabase(p) \cup Restore(p) : Keeps(p, e.then)
  <2>1. \A e \in Flush(p) : Keeps(p, e.then)
    BY SeesIsOne DEF Flush, Flushed, Keeps
  <2>2. \A e \in Dump(p) : Keeps(p, e.then)
    BY SeesIsOne DEF Dump, Keeps
  <2>3. \A e \in CreateDatabase(p) : Keeps(p, e.then)
    BY SeesIsOne DEF CreateDatabase, Keeps
  <2>4. \A e \in Restore(p) : Keeps(p, e.then)
    <3>1. Keeps(p, [p EXCEPT !.copies = "restored", !.data.copy = p.dump])
      BY DEF Keeps
    <3> QED BY <3>1, SeesIsOne DEF Restore
  <2> QED BY <2>1, <2>2, <2>3, <2>4
<1>4. \A e \in Remember(p) \cup Count(p) : Keeps(p, e.then)
  <2>1. \A e \in Remember(p) : Keeps(p, e.then)
    BY SeesIsOne DEF Remember, Keeps
  <2>2. \A e \in Count(p) : Keeps(p, e.then)
    BY SeesIsOne DEF Count, Keeps
  <2> QED BY <2>1, <2>2
<1>5. \A e \in Logout(p, x) \cup Race(p, x) : Keeps(p, e.then)
  BY SeesIsOne DEF Logout, Race, Refresh, Rotated, Keeps
<1>6. \A e \in Login(p, s, x) \cup ReadDirectly(p, s, x) : Keeps(p, e.then)
  BY SeesIsOne DEF Login, ReadDirectly, Filled, Keeps
<1> QED BY <1>1, <1>2, <1>3, <1>4, <1>5, <1>6

(* Only docker compose run starts a temporary container.                     *)
LEMMA EffectKeeps ==
    ASSUME NEW p, "temp" \in DOMAIN p, NEW s, s.do # "run", NEW e \in Effect(p, s)
    PROVE  Keeps(p, e.then)
<1>1. ASSUME NEW b, e \in Sees(b, p) PROVE Keeps(p, e.then)
  BY <1>1, SeesIsOne DEF Keeps
<1>2. ASSUME NEW want, e \in Read(p, want) PROVE Keeps(p, e.then)
  BY <1>2, ReadKeeps DEF Read, Outcome
<1>3. ASSUME NEW mail, e \in ReadUser(p, mail) PROVE Keeps(p, e.then)
  BY <1>3, ReadKeeps DEF ReadUser, Outcome
<1>4. ASSUME NEW mail, e \in Denied(p) PROVE Keeps(p, e.then)
  BY <1>4, ReadKeeps DEF Denied, Outcome
<1>5. ASSUME NEW db, NEW k, NEW want, e \in Refresh(p, db, k, want) PROVE Keeps(p, e.then)
  BY <1>5, SeesIsOne DEF Refresh, Rotated, Keeps
<1> QED BY <1>1, <1>2, <1>3, <1>4, <1>5, WritesKeep
       DEF Effect, WaitHealth, WaitBreaker, WaitRead, Unchanged, Recount
-----------------------------------------------------------------------------
(* The scripts.  A part of a script is a literal sequence; what the proofs   *)
(* need of a script holds of its parts and survives concatenation.           *)
IsScript(a) == \E S : a \in Seq(S)

(* After step n of p there is a step that sees x serve; before it there is   *)
(* one that notes the name, one after which Redis holds no user list.        *)
Awaited(p, n, x) == \E m \in DOMAIN p : m > n /\ p[m].do \in {"health", "ping"} /\ p[m].on = x
NamedBefore(p, n) == \E m \in DOMAIN p : m < n /\ p[m].do = "name" /\ p[m].on = p[n].on
Quiets == {"name", "run", "health"}
Emptied(p, n) ==
    \E m \in DOMAIN p : /\ m < n /\ p[m].do \in {"flush", "listEmpty"}
                        /\ \A k \in DOMAIN p : m < k /\ k < n => p[k].do \in Quiets

(* The checks that say where a user list comes from read it over an emptied  *)
(* cache, at the user service whose database they are about.                 *)
StoreChecks == {"cache.authoritative-read-recovers", "recovery.restored-user-readable"}
Sourced(p, n) ==
    /\ p[n].id = "cache.authoritative-read-recovers" => p[n].do = "readUser"
    /\ p[n].id = "recovery.restored-user-readable" => p[n].do = "readCopy"
    /\ p[n].id \in StoreChecks => Emptied(p, n)

(* A part none of whose steps matters here.                                  *)
Remarkable == {"try", "run", "stop", "restart", "publish", "readUser", "readCopy"}
Calm(p) == IsScript(p) /\ \A n \in DOMAIN p : p[n].do \notin Remarkable

(* A step that records no check.                                             *)
Plain(step) == step.id = ""

(* What is right about step n of a part p of the script of s; the services   *)
(* in `later` are awaited in a later part.                                   *)
SoundAt(s, p, n, later) ==
    /\ p[n].do # "publish"
    /\ p[n].do = "try" => Plain(p[n])
    /\ p[n].do \in {"stop", "restart"} => \A x \in p[n].on : x \in later \/ Awaited(p, n, x)
    /\ p[n].do = "run" => s = "recovery" /\ NamedBefore(p, n)
    /\ p[n].do \in {"readUser", "readCopy"} => Sourced(p, n)
Sound(s, p, later) == IsScript(p) /\ \A n \in DOMAIN p : SoundAt(s, p, n, later)

(* The try block is entered before anything is recorded; the end of a script *)
(* compares and publishes; a script is a sound body and such an end.         *)
Opens(p) == \E n \in DOMAIN p : p[n].do = "try" /\ \A k \in 1..n : Plain(p[k])
Closes(s, e) ==
    \E x, y : /\ x.do = "compare" /\ Plain(x) /\ y.do = "publish" /\ Plain(y)
              /\ e = IF s = "browser" THEN <<y>> ELSE <<x, y>>
Proper(s, q) == \E b, e : q = b \o e /\ Sound(s, b, {}) /\ Opens(b) /\ Closes(s, e)

LEMMA LiteralScript ==
    ASSUME NEW f, NEW n \in Nat, f = [i \in 1..n |-> f[i]]
    PROVE  IsScript(f) /\ Len(f) = n /\ DOMAIN f = 1..n
<1>1. f \in Seq({f[i] : i \in 1..n})
  OBVIOUS
<1> QED  BY <1>1 DEF IsScript

LEMMA CalmIsSound ==
    ASSUME NEW p, Calm(p), NEW s
    PROVE  Sound(s, p, {})
BY DEF Calm, Sound, SoundAt, Remarkable

LEMMA Joined ==
    ASSUME NEW a, NEW b, IsScript(a), IsScript(b)
    PROVE  /\ IsScript(a \o b)
           /\ Len(a) \in Nat /\ Len(b) \in Nat
           /\ DOMAIN a = 1..Len(a) /\ DOMAIN b = 1..Len(b)
           /\ DOMAIN (a \o b) = 1..(Len(a) + Len(b))
           /\ \A n \in 1..Len(a) : (a \o b)[n] = a[n]
           /\ \A n \in 1..Len(b) : (a \o b)[Len(a) + n] = b[n]
<1>1. PICK S : a \in Seq(S)
  BY DEF IsScript
<1>2. PICK T : b \in Seq(T)
  BY DEF IsScript
<1>3. a \in Seq(S \cup T) /\ b \in Seq(S \cup T)
  BY <1>1, <1>2
<1>4. a \o b \in Seq(S \cup T)
  BY <1>3
<1> HIDE <1>1, <1>2
<1> QED  BY <1>3, <1>4 DEF IsScript

(* Parts stay sound when they are joined, in either place.                   *)
LEMMA SoundJoined ==
    ASSUME NEW a, NEW b, NEW s, NEW later, NEW more, Sound(s, a, later), Sound(s, b, more),
           \A x \in later : \/ x \in more
                           \/ \E m \in DOMAIN b : b[m].do \in {"health", "ping"} /\ b[m].on = x
    PROVE  Sound(s, a \o b, more)
<1> DEFINE q == a \o b
<1>1. /\ IsScript(q)
      /\ Len(a) \in Nat /\ Len(b) \in Nat
      /\ DOMAIN a = 1..Len(a) /\ DOMAIN b = 1..Len(b)
      /\ DOMAIN q = 1..(Len(a) + Len(b))
      /\ \A n \in 1..Len(a) : q[n] = a[n]
      /\ \A n \in 1..Len(b) : q[Len(a) + n] = b[n]
  <2>1. IsScript(a) /\ IsScript(b)
    BY DEF Sound
  <2> QED BY <2>1, Joined
<1> HIDE DEF q
<1>2. ASSUME NEW n \in DOMAIN a
      PROVE  /\ n \in DOMAIN q /\ q[n] = a[n]
             /\ \A x : Awaited(a, n, x) => Awaited(q, n, x)
             /\ \A x \in later : x \in more \/ Awaited(q, n, x)
             /\ NamedBefore(a, n) => NamedBefore(q, n)
             /\ Emptied(a, n) => Emptied(q, n)
  <2>1. n \in DOMAIN q /\ q[n] = a[n]
    BY <1>1
  <2>2. \A x : Awaited(a, n, x) => Awaited(q, n, x)
    BY <1>1 DEF Awaited
  <2>3. ASSUME NEW x \in later, x \notin more PROVE Awaited(q, n, x)
    <3>1. PICK m \in DOMAIN b : b[m].do \in {"health", "ping"} /\ b[m].on = x
      BY <2>3
    <3>2. Len(a) + m \in DOMAIN q /\ Len(a) + m > n /\ q[Len(a) + m] = b[m]
      BY <1>1
    <3> QED BY <3>1, <3>2 DEF Awaited
  <2>4. NamedBefore(a, n) => NamedBefore(q, n)
    BY <1>1 DEF NamedBefore
  <2>5. Emptied(a, n) => Emptied(q, n)
    <3> SUFFICES ASSUME Emptied(a, n) PROVE Emptied(q, n)
      OBVIOUS
    <3>1. PICK m \in DOMAIN a : /\ m < n /\ a[m].do \in {"flush", "listEmpty"}
                                /\ \A k \in DOMAIN a : m < k /\ k < n => a[k].do \in Quiets
      BY DEF Emptied
    <3>2. m \in DOMAIN q /\ q[m] = a[m]
      BY <1>1
    <3>3. ASSUME NEW k \in DOMAIN q, m < k /\ k < n PROVE q[k].do \in Quiets
      <4>1. k \in DOMAIN a /\ q[k] = a[k]
        BY <1>1, <3>3
      <4> QED BY <3>1, <3>3, <4>1
    <3> QED BY <3>1, <3>2, <3>3 DEF Emptied
  <2> QED BY <2>1, <2>2, <2>3, <2>4, <2>5
<1>3. ASSUME NEW n \in DOMAIN b, NEW i, i = Len(a) + n
      PROVE  /\ i \in DOMAIN q /\ q[i] = b[n]
             /\ \A x : Awaited(b, n, x) => Awaited(q, i, x)
             /\ NamedBefore(b, n) => NamedBefore(q, i)
             /\ Emptied(b, n) => Emptied(q, i)
  <2>1. i \in DOMAIN q /\ q[i] = b[n]
    BY <1>1, <1>3
  <2>2. ASSUME NEW x, Awaited(b, n, x) PROVE Awaited(q, i, x)
    <3>1. PICK m \in DOMAIN b : m > n /\ b[m].do \in {"health", "ping"} /\ b[m].on = x
      BY <2>2 DEF Awaited
    <3>2. Len(a) + m \in DOMAIN q /\ Len(a) + m > i /\ q[Len(a) + m] = b[m]
      BY <1>1, <1>3, <3>1
    <3> QED BY <3>1, <3>2 DEF Awaited
  <2>3. ASSUME NamedBefore(b, n) PROVE NamedBefore(q, i)
    <3>1. PICK m \in DOMAIN b : m < n /\ b[m].do = "name" /\ b[m].on = b[n].on
      BY <2>3 DEF NamedBefore
    <3>2. Len(a) + m \in DOMAIN q /\ Len(a) + m < i /\ q[Len(a) + m] = b[m]
      BY <1>1, <1>3, <3>1
    <3> QED BY <2>1, <3>1, <3>2 DEF NamedBefore
  <2>4. ASSUME Emptied(b, n) PROVE Emptied(q, i)
    <3>1. PICK m \in DOMAIN b : /\ m < n /\ b[m].do \in {"flush", "listEmpty"}
                                /\ \A k \in DOMAIN b : m < k /\ k < n => b[k].do \in Quiets
      BY <2>4 DEF Emptied
    <3>2. Len(a) + m \in DOMAIN q /\ Len(a) + m < i /\ q[Len(a) + m] = b[m]
      BY <1>1, <1>3, <3>1
    <3>3. ASSUME NEW k \in DOMAIN q, Len(a) + m < k /\ k < i PROVE q[k].do \in Quiets
      <4>1. k - Len(a) \in DOMAIN b /\ m < k - Len(a) /\ k - Len(a) < n /\ Len(a) + (k - Len(a)) = k
        BY <1>1, <1>3, <3>1, <3>3
      <4> QED BY <1>1, <3>1, <4>1
    <3> QED BY <3>1, <3>2, <3>3 DEF Emptied
  <2> QED BY <2>1, <2>2, <2>3, <2>4
<1>4. ASSUME NEW i \in DOMAIN q PROVE i \in DOMAIN a \/ \E n \in DOMAIN b : i = Len(a) + n
  <2>1. CASE i <= Len(a)
    BY <1>1, <2>1
  <2>2. CASE ~(i <= Len(a))
    <3>1. i - Len(a) \in DOMAIN b /\ i = Len(a) + (i - Len(a))
      BY <1>1, <2>2
    <3> QED BY <3>1
  <2> QED BY <2>1, <2>2
<1>5. ASSUME NEW i \in DOMAIN q PROVE SoundAt(s, q, i, more)
  <2>1. CASE i \in DOMAIN a
    <3>1. SoundAt(s, a, i, later)
      BY <2>1 DEF Sound
    <3> QED BY <1>2, <2>1, <3>1 DEF SoundAt, Sourced
  <2>2. CASE \E n \in DOMAIN b : i = Len(a) + n
    <3>1. PICK n \in DOMAIN b : i = Len(a) + n
      BY <2>2
    <3>2. SoundAt(s, b, n, more)
      BY DEF Sound
    <3> QED BY <1>3, <3>1, <3>2 DEF SoundAt, Sourced
  <2> QED BY <1>4, <2>1, <2>2
<1> QED BY <1>1, <1>5 DEF Sound, q

LEMMA OpensJoined ==
    ASSUME NEW a, NEW b, IsScript(a), IsScript(b), Opens(a)
    PROVE  Opens(a \o b)
<1>1. PICK n \in DOMAIN a : a[n].do = "try" /\ \A k \in 1..n : Plain(a[k])
  BY DEF Opens
<1>2. n \in DOMAIN (a \o b) /\ \A k \in 1..n : (a \o b)[k] = a[k]
  BY Joined
<1>3. n \in 1..n
  <2>1. n \in 1..Len(a) /\ Len(a) \in Nat
    BY Joined
  <2> QED BY <2>1
<1> QED BY <1>1, <1>2, <1>3 DEF Opens

(* Each part, step by step.                                                  *)
LEMMA CoreReadinessIsCalm == Calm(CoreReadiness)
<1>1. CoreReadiness = [n \in 1..7 |-> CoreReadiness[n]]
  BY DEF CoreReadiness
<1>2. /\ CoreReadiness[1].do = "ping" /\ CoreReadiness[2].do = "ping"
      /\ CoreReadiness[3].do = "ping" /\ CoreReadiness[4].do = "health"
      /\ CoreReadiness[5].do = "health" /\ CoreReadiness[6].do = "health"
      /\ CoreReadiness[7].do = "health"
  BY DEF CoreReadiness, Do, Step, Proves, Health
<1>3. IsScript(CoreReadiness) /\ DOMAIN CoreReadiness = 1..7
  BY <1>1, LiteralScript
<1>4. \A n \in 1..7 : CoreReadiness[n].do \notin Remarkable
  BY <1>2 DEF Remarkable
<1> QED  BY <1>3, <1>4 DEF Calm

LEMMA CoreIdentityIsCalm == Calm(CoreIdentity)
<1>1. CoreIdentity = [n \in 1..8 |-> CoreIdentity[n]]
  BY DEF CoreIdentity
<1>2. /\ CoreIdentity[1].do = "register" /\ CoreIdentity[2].do = "rejected"
      /\ CoreIdentity[3].do = "read" /\ CoreIdentity[4].do = "rejected"
      /\ CoreIdentity[5].do = "refresh" /\ CoreIdentity[6].do = "refresh"
      /\ CoreIdentity[7].do = "logout" /\ CoreIdentity[8].do = "refresh"
  BY DEF CoreIdentity, Do, Step, Proves, Health
<1>3. IsScript(CoreIdentity) /\ DOMAIN CoreIdentity = 1..8
  BY <1>1, LiteralScript
<1>4. \A n \in 1..8 : CoreIdentity[n].do \notin Remarkable
  BY <1>2 DEF Remarkable
<1> QED  BY <1>3, <1>4 DEF Calm

LEMMA CoreUsersIsCalm == Calm(CoreUsers)
<1>1. CoreUsers = [n \in 1..5 |-> CoreUsers[n]]
  BY DEF CoreUsers
<1>2. /\ CoreUsers[1].do = "create" /\ CoreUsers[2].do = "readById"
      /\ CoreUsers[3].do = "byIdCached" /\ CoreUsers[4].do = "readMain"
      /\ CoreUsers[5].do = "listCached"
  BY DEF CoreUsers, Do, Step, Proves, Health
<1>3. IsScript(CoreUsers) /\ DOMAIN CoreUsers = 1..5
  BY <1>1, LiteralScript
<1>4. \A n \in 1..5 : CoreUsers[n].do \notin Remarkable
  BY <1>2 DEF Remarkable
<1> QED  BY <1>3, <1>4 DEF Calm

LEMMA ResilienceRecoveryIsCalm == Calm(ResilienceRecovery)
<1>1. ResilienceRecovery = [n \in 1..8 |-> ResilienceRecovery[n]]
  BY DEF ResilienceRecovery
<1>2. /\ ResilienceRecovery[1].do = "start" /\ ResilienceRecovery[2].do = "health"
      /\ ResilienceRecovery[3].do = "breaker" /\ ResilienceRecovery[4].do = "read"
      /\ ResilienceRecovery[5].do = "read" /\ ResilienceRecovery[6].do = "read"
      /\ ResilienceRecovery[7].do = "breaker" /\ ResilienceRecovery[8].do = "read"
  BY DEF ResilienceRecovery, Do, Step, Proves, Health
<1>3. IsScript(ResilienceRecovery) /\ DOMAIN ResilienceRecovery = 1..8
  BY <1>1, LiteralScript
<1>4. \A n \in 1..8 : ResilienceRecovery[n].do \notin Remarkable
  BY <1>2 DEF Remarkable
<1> QED  BY <1>3, <1>4 DEF Calm

LEMMA SecurityAccessIsCalm == Calm(SecurityAccess)
<1>1. SecurityAccess = [n \in 1..9 |-> SecurityAccess[n]]
  BY DEF SecurityAccess
<1>2. /\ SecurityAccess[1].do = "health" /\ SecurityAccess[2].do = "health"
      /\ SecurityAccess[3].do = "register" /\ SecurityAccess[4].do = "rejected"
      /\ SecurityAccess[5].do = "rejected" /\ SecurityAccess[6].do = "read"
      /\ SecurityAccess[7].do = "rejected" /\ SecurityAccess[8].do = "rejected"
      /\ SecurityAccess[9].do = "rejected"
  BY DEF SecurityAccess, Do, Step, Proves, Health
<1>3. IsScript(SecurityAccess) /\ DOMAIN SecurityAccess = 1..9
  BY <1>1, LiteralScript
<1>4. \A n \in 1..9 : SecurityAccess[n].do \notin Remarkable
  BY <1>2 DEF Remarkable
<1> QED  BY <1>3, <1>4 DEF Calm

LEMMA SecurityTokensIsCalm == Calm(SecurityTokens)
<1>1. SecurityTokens = [n \in 1..7 |-> SecurityTokens[n]]
  BY DEF SecurityTokens
<1>2. /\ SecurityTokens[1].do = "psql" /\ SecurityTokens[2].do = "psql"
      /\ SecurityTokens[3].do = "onlyActive" /\ SecurityTokens[4].do = "refresh"
      /\ SecurityTokens[5].do = "revoked" /\ SecurityTokens[6].do = "active"
      /\ SecurityTokens[7].do = "refresh"
  BY DEF SecurityTokens, Do, Step, Proves, Health
<1>3. IsScript(SecurityTokens) /\ DOMAIN SecurityTokens = 1..7
  BY <1>1, LiteralScript
<1>4. \A n \in 1..7 : SecurityTokens[n].do \notin Remarkable
  BY <1>2 DEF Remarkable
<1> QED  BY <1>3, <1>4 DEF Calm

LEMMA SecurityRaceIsCalm == Calm(SecurityRace)
<1>1. SecurityRace = [n \in 1..4 |-> SecurityRace[n]]
  BY DEF SecurityRace
<1>2. /\ SecurityRace[1].do = "race" /\ SecurityRace[2].do = "revoked"
      /\ SecurityRace[3].do = "active" /\ SecurityRace[4].do = "onlyActive"
  BY DEF SecurityRace, Do, Step, Proves, Health
<1>3. IsScript(SecurityRace) /\ DOMAIN SecurityRace = 1..4
  BY <1>1, LiteralScript
<1>4. \A n \in 1..4 : SecurityRace[n].do \notin Remarkable
  BY <1>2 DEF Remarkable
<1> QED  BY <1>3, <1>4 DEF Calm

LEMMA RecoveryBackupIsCalm == Calm(RecoveryBackup)
<1>1. RecoveryBackup = [n \in 1..7 |-> RecoveryBackup[n]]
  BY DEF RecoveryBackup
<1>2. /\ RecoveryBackup[1].do = "dump" /\ RecoveryBackup[2].do = "psql"
      /\ RecoveryBackup[3].do = "createdb" /\ RecoveryBackup[4].do = "restore"
      /\ RecoveryBackup[5].do = "unchanged" /\ RecoveryBackup[6].do = "unchanged"
      /\ RecoveryBackup[7].do = "unchanged"
  BY DEF RecoveryBackup, Do, Step, Proves, Health
<1>3. IsScript(RecoveryBackup) /\ DOMAIN RecoveryBackup = 1..7
  BY <1>1, LiteralScript
<1>4. \A n \in 1..7 : RecoveryBackup[n].do \notin Remarkable
  BY <1>2 DEF Remarkable
<1> QED  BY <1>3, <1>4 DEF Calm

LEMMA ObservabilityIsCalm == Calm(Observability)
<1>1. Observability = [n \in 1..17 |-> Observability[n]]
  BY DEF Observability
<1>2. /\ Observability[1].do = "ping" /\ Observability[2].do = "ping"
      /\ Observability[3].do = "ping" /\ Observability[4].do = "ping"
      /\ Observability[5].do = "ping" /\ Observability[6].do = "ping"
      /\ Observability[7].do = "targets" /\ Observability[8].do = "register"
      /\ Observability[9].do = "read" /\ Observability[10].do = "read"
      /\ Observability[11].do = "read" /\ Observability[12].do = "read"
      /\ Observability[13].do = "ping" /\ Observability[14].do = "ping"
      /\ Observability[15].do = "ping" /\ Observability[16].do = "ping"
      /\ Observability[17].do = "ping"
  BY DEF Observability, Do, Step, Proves, Health
<1>3. IsScript(Observability) /\ DOMAIN Observability = 1..17
  BY <1>1, LiteralScript
<1>4. \A n \in 1..17 : Observability[n].do \notin Remarkable
  BY <1>2 DEF Remarkable
<1> QED  BY <1>3, <1>4 DEF Calm

LEMMA LoadSetupIsCalm == Calm(LoadSetup)
<1>1. LoadSetup = [n \in 1..11 |-> LoadSetup[n]]
  BY DEF LoadSetup
<1>2. /\ LoadSetup[1].do = "health" /\ LoadSetup[2].do = "health"
      /\ LoadSetup[3].do = "health" /\ LoadSetup[4].do = "register"
      /\ LoadSetup[5].do = "read" /\ LoadSetup[6].do = "count" /\ LoadSetup[7].do = "read"
      /\ LoadSetup[8].do = "read" /\ LoadSetup[9].do = "read" /\ LoadSetup[10].do = "read"
      /\ LoadSetup[11].do = "listCached"
  BY DEF LoadSetup, Do, Step, Proves, Health
<1>3. IsScript(LoadSetup) /\ DOMAIN LoadSetup = 1..11
  BY <1>1, LiteralScript
<1>4. \A n \in 1..11 : LoadSetup[n].do \notin Remarkable
  BY <1>2 DEF Remarkable
<1> QED  BY <1>3, <1>4 DEF Calm

LEMMA LoadProfilesIsCalm == Calm(LoadProfiles)
<1>1. LoadProfiles = [n \in 1..10 |-> LoadProfiles[n]]
  BY DEF LoadProfiles
<1>2. /\ LoadProfiles[1].do = "load" /\ LoadProfiles[2].do = "load"
      /\ LoadProfiles[3].do = "load" /\ LoadProfiles[4].do = "load"
      /\ LoadProfiles[5].do = "load" /\ LoadProfiles[6].do = "load"
      /\ LoadProfiles[7].do = "load" /\ LoadProfiles[8].do = "load"
      /\ LoadProfiles[9].do = "load" /\ LoadProfiles[10].do = "load"
  BY DEF LoadProfiles, Do, Step, Proves, Health
<1>3. IsScript(LoadProfiles) /\ DOMAIN LoadProfiles = 1..10
  BY <1>1, LiteralScript
<1>4. \A n \in 1..10 : LoadProfiles[n].do \notin Remarkable
  BY <1>2 DEF Remarkable
<1> QED  BY <1>3, <1>4 DEF Calm

LEMMA LoadRecoveryIsCalm == Calm(LoadRecovery)
<1>1. LoadRecovery = [n \in 1..6 |-> LoadRecovery[n]]
  BY DEF LoadRecovery
<1>2. /\ LoadRecovery[1].do = "health" /\ LoadRecovery[2].do = "health"
      /\ LoadRecovery[3].do = "health" /\ LoadRecovery[4].do = "read"
      /\ LoadRecovery[5].do = "recount" /\ LoadRecovery[6].do = "load"
  BY DEF LoadRecovery, Do, Step, Proves, Health
<1>3. IsScript(LoadRecovery) /\ DOMAIN LoadRecovery = 1..6
  BY <1>1, LiteralScript
<1>4. \A n \in 1..6 : LoadRecovery[n].do \notin Remarkable
  BY <1>2 DEF Remarkable
<1> QED  BY <1>3, <1>4 DEF Calm

LEMMA CoreAuditIsSound == Sound("core", CoreAudit, {})
<1>1. CoreAudit = [n \in 1..4 |-> CoreAudit[n]]
  BY DEF CoreAudit
<1>2. /\ CoreAudit[1].do = "event" /\ CoreAudit[2].do = "restart"
      /\ CoreAudit[3].do = "health" /\ CoreAudit[4].do = "event"
  BY DEF CoreAudit, Do, Step, Proves, Health
<1>3. IsScript(CoreAudit) /\ DOMAIN CoreAudit = 1..4
  BY <1>1, LiteralScript
<1>4. \A n \in (1..4) \ {2} : CoreAudit[n].do \notin Remarkable
  BY <1>2 DEF Remarkable
<1>5. SoundAt("core", CoreAudit, 2, {})
  <2>1. CoreAudit[2].on = {"audit-service"} /\ CoreAudit[3].on = "audit-service"
    BY DEF CoreAudit, Do, Step, Proves, Health, Plain
  <2>2. Awaited(CoreAudit, 2, "audit-service")
    BY <1>2, <1>3, <2>1 DEF Awaited
  <2> QED BY <1>2, <2>1, <2>2 DEF SoundAt
<1>6. \A n \in DOMAIN CoreAudit : SoundAt("core", CoreAudit, n, {})
  BY <1>3, <1>4, <1>5 DEF SoundAt, Remarkable
<1> QED  BY <1>3, <1>6 DEF Sound

LEMMA CoreOutageIsSound == Sound("core", CoreOutage, {})
<1>1. CoreOutage = [n \in 1..5 |-> CoreOutage[n]]
  BY DEF CoreOutage
<1>2. /\ CoreOutage[1].do = "stop" /\ CoreOutage[2].do = "read"
      /\ CoreOutage[3].do = "start" /\ CoreOutage[4].do = "health"
      /\ CoreOutage[5].do = "waitRead"
  BY DEF CoreOutage, Do, Step, Proves, Health
<1>3. IsScript(CoreOutage) /\ DOMAIN CoreOutage = 1..5
  BY <1>1, LiteralScript
<1>4. \A n \in (1..5) \ {1} : CoreOutage[n].do \notin Remarkable
  BY <1>2 DEF Remarkable
<1>5. SoundAt("core", CoreOutage, 1, {})
  <2>1. CoreOutage[1].on = {"user-service"} /\ CoreOutage[4].on = "user-service"
    BY DEF CoreOutage, Do, Step, Proves, Health, Plain
  <2>2. Awaited(CoreOutage, 1, "user-service")
    BY <1>2, <1>3, <2>1 DEF Awaited
  <2> QED BY <1>2, <2>1, <2>2 DEF SoundAt
<1>6. \A n \in DOMAIN CoreOutage : SoundAt("core", CoreOutage, n, {})
  BY <1>3, <1>4, <1>5 DEF SoundAt, Remarkable
<1> QED  BY <1>3, <1>6 DEF Sound

LEMMA ResilienceOutageIsSound == Sound("resilience", ResilienceOutage, {"user-service"})
<1>1. ResilienceOutage = [n \in 1..11 |-> ResilienceOutage[n]]
  BY DEF ResilienceOutage
<1>2. /\ ResilienceOutage[1].do = "health" /\ ResilienceOutage[2].do = "health"
      /\ ResilienceOutage[3].do = "health" /\ ResilienceOutage[4].do = "register"
      /\ ResilienceOutage[5].do = "read" /\ ResilienceOutage[6].do = "breaker"
      /\ ResilienceOutage[7].do = "stop" /\ ResilienceOutage[8].do = "outage"
      /\ ResilienceOutage[9].do = "breaker" /\ ResilienceOutage[10].do = "denied"
      /\ ResilienceOutage[11].do = "health"
  BY DEF ResilienceOutage, Do, Step, Proves, Health
<1>3. IsScript(ResilienceOutage) /\ DOMAIN ResilienceOutage = 1..11
  BY <1>1, LiteralScript
<1>4. \A n \in (1..11) \ {7} : ResilienceOutage[n].do \notin Remarkable
  BY <1>2 DEF Remarkable
<1>5. SoundAt("resilience", ResilienceOutage, 7, {"user-service"})
  <2>1. ResilienceOutage[7].on = {"user-service"}
    BY DEF ResilienceOutage, Do, Step, Proves, Health, Plain
  <2> QED BY <1>2, <2>1 DEF SoundAt
<1>6. \A n \in DOMAIN ResilienceOutage : SoundAt("resilience", ResilienceOutage, n, {"user-service"})
  BY <1>3, <1>4, <1>5 DEF SoundAt, Remarkable
<1> QED  BY <1>3, <1>6 DEF Sound

LEMMA RecoveryBaselineIsSound == Sound("recovery", RecoveryBaseline, {})
<1>1. RecoveryBaseline = [n \in 1..9 |-> RecoveryBaseline[n]]
  BY DEF RecoveryBaseline
<1>2. /\ RecoveryBaseline[1].do = "health" /\ RecoveryBaseline[2].do = "health"
      /\ RecoveryBaseline[3].do = "health" /\ RecoveryBaseline[4].do = "register"
      /\ RecoveryBaseline[5].do = "create" /\ RecoveryBaseline[6].do = "remember"
      /\ RecoveryBaseline[7].do = "unchanged" /\ RecoveryBaseline[8].do = "active"
      /\ RecoveryBaseline[9].do = "readUser"
  BY DEF RecoveryBaseline, Do, Step, Proves, Health
<1>3. IsScript(RecoveryBaseline) /\ DOMAIN RecoveryBaseline = 1..9
  BY <1>1, LiteralScript
<1>4. \A n \in (1..9) \ {9} : RecoveryBaseline[n].do \notin Remarkable
  BY <1>2 DEF Remarkable
<1>5. SoundAt("recovery", RecoveryBaseline, 9, {})
  <2>1. Plain(RecoveryBaseline[9])
    BY DEF RecoveryBaseline, Do, Step, Proves, Health, Plain
  <2> QED BY <1>2, <2>1 DEF SoundAt, Sourced, StoreChecks, Plain
<1>6. \A n \in DOMAIN RecoveryBaseline : SoundAt("recovery", RecoveryBaseline, n, {})
  BY <1>3, <1>4, <1>5 DEF SoundAt, Remarkable
<1> QED  BY <1>3, <1>6 DEF Sound

LEMMA RecoveryRestartsIsSound == Sound("recovery", RecoveryRestarts, {})
<1>1. RecoveryRestarts = [n \in 1..16 |-> RecoveryRestarts[n]]
  BY DEF RecoveryRestarts
<1>2. /\ RecoveryRestarts[1].do = "restart" /\ RecoveryRestarts[2].do = "ping"
      /\ RecoveryRestarts[3].do = "health" /\ RecoveryRestarts[4].do = "health"
      /\ RecoveryRestarts[5].do = "unchanged" /\ RecoveryRestarts[6].do = "readUser"
      /\ RecoveryRestarts[7].do = "restart" /\ RecoveryRestarts[8].do = "health"
      /\ RecoveryRestarts[9].do = "health" /\ RecoveryRestarts[10].do = "health"
      /\ RecoveryRestarts[11].do = "readUser" /\ RecoveryRestarts[12].do = "listCached"
      /\ RecoveryRestarts[13].do = "flush" /\ RecoveryRestarts[14].do = "listEmpty"
      /\ RecoveryRestarts[15].do = "readUser" /\ RecoveryRestarts[16].do = "listCached"
  BY DEF RecoveryRestarts, Do, Step, Proves, Health
<1>3. IsScript(RecoveryRestarts) /\ DOMAIN RecoveryRestarts = 1..16
  BY <1>1, LiteralScript
<1>4. \A n \in (1..16) \ {1, 6, 7, 11, 15} : RecoveryRestarts[n].do \notin Remarkable
  BY <1>2 DEF Remarkable
<1>5. SoundAt("recovery", RecoveryRestarts, 1, {})
  <2>1. RecoveryRestarts[1].on = {"postgres"} /\ RecoveryRestarts[2].on = "postgres"
    BY DEF RecoveryRestarts, Do, Step, Proves, Health, Plain
  <2>2. Awaited(RecoveryRestarts, 1, "postgres")
    BY <1>2, <1>3, <2>1 DEF Awaited
  <2> QED BY <1>2, <2>1, <2>2 DEF SoundAt
<1>6. SoundAt("recovery", RecoveryRestarts, 6, {})
  <2>1. RecoveryRestarts[6].id = "durability.postgres-restart-survives"
    BY DEF RecoveryRestarts, Do, Step, Proves, Health, Plain
  <2> QED BY <1>2, <2>1 DEF SoundAt, Sourced, StoreChecks, Plain
<1>7. SoundAt("recovery", RecoveryRestarts, 7, {})
  <2>1. RecoveryRestarts[7].on = {"identity-service", "user-service", "gateway"}
     /\ RecoveryRestarts[8].on = "identity-service"
     /\ RecoveryRestarts[9].on = "user-service" /\ RecoveryRestarts[10].on = "gateway"
    BY DEF RecoveryRestarts, Do, Step, Proves, Health, Plain
  <2>2. Awaited(RecoveryRestarts, 7, "identity-service")
    BY <1>2, <1>3, <2>1 DEF Awaited
  <2>3. Awaited(RecoveryRestarts, 7, "user-service")
    BY <1>2, <1>3, <2>1 DEF Awaited
  <2>4. Awaited(RecoveryRestarts, 7, "gateway")
    BY <1>2, <1>3, <2>1 DEF Awaited
  <2> QED BY <1>2, <2>1, <2>2, <2>3, <2>4 DEF SoundAt
<1>8. SoundAt("recovery", RecoveryRestarts, 11, {})
  <2>1. RecoveryRestarts[11].id = "durability.service-restart-survives"
    BY DEF RecoveryRestarts, Do, Step, Proves, Health, Plain
  <2> QED BY <1>2, <2>1 DEF SoundAt, Sourced, StoreChecks, Plain
<1>9. SoundAt("recovery", RecoveryRestarts, 15, {})
  <2>1. RecoveryRestarts[15].id = "cache.authoritative-read-recovers"
    BY DEF RecoveryRestarts, Do, Step, Proves, Health, Plain
  <2>2. Emptied(RecoveryRestarts, 15)
    BY <1>2, <1>3, <2>1 DEF Emptied, Quiets
  <2> QED BY <1>2, <2>1, <2>2 DEF SoundAt, Sourced
<1>10. \A n \in DOMAIN RecoveryRestarts : SoundAt("recovery", RecoveryRestarts, n, {})
  BY <1>3, <1>4, <1>5, <1>6, <1>7, <1>8, <1>9 DEF SoundAt, Remarkable
<1> QED  BY <1>3, <1>10 DEF Sound

LEMMA RecoveryOfServicesIsSound == Sound("recovery", RecoveryOfServices, {})
<1>1. RecoveryOfServices = [n \in 1..11 |-> RecoveryOfServices[n]]
  BY DEF RecoveryOfServices
<1>2. /\ RecoveryOfServices[1].do = "name" /\ RecoveryOfServices[2].do = "run"
      /\ RecoveryOfServices[3].do = "health" /\ RecoveryOfServices[4].do = "login"
      /\ RecoveryOfServices[5].do = "refreshCopy" /\ RecoveryOfServices[6].do = "flush"
      /\ RecoveryOfServices[7].do = "name" /\ RecoveryOfServices[8].do = "run"
      /\ RecoveryOfServices[9].do = "health" /\ RecoveryOfServices[10].do = "readCopy"
      /\ RecoveryOfServices[11].do = "readUser"
  BY DEF RecoveryOfServices, Do, Step, Proves, Health
<1>3. IsScript(RecoveryOfServices) /\ DOMAIN RecoveryOfServices = 1..11
  BY <1>1, LiteralScript
<1>4. \A n \in (1..11) \ {2, 8, 10, 11} : RecoveryOfServices[n].do \notin Remarkable
  BY <1>2 DEF Remarkable
<1>5. SoundAt("recovery", RecoveryOfServices, 2, {})
  <2>1. RecoveryOfServices[2].on = "recovery-identity"
     /\ RecoveryOfServices[1].on = "recovery-identity"
    BY DEF RecoveryOfServices, Do, Step, Proves, Health, Plain
  <2>2. NamedBefore(RecoveryOfServices, 2)
    BY <1>2, <1>3, <2>1 DEF NamedBefore
  <2> QED BY <1>2, <2>1, <2>2 DEF SoundAt
<1>6. SoundAt("recovery", RecoveryOfServices, 8, {})
  <2>1. RecoveryOfServices[8].on = "recovery-user"
     /\ RecoveryOfServices[7].on = "recovery-user"
    BY DEF RecoveryOfServices, Do, Step, Proves, Health, Plain
  <2>2. NamedBefore(RecoveryOfServices, 8)
    BY <1>2, <1>3, <2>1 DEF NamedBefore
  <2> QED BY <1>2, <2>1, <2>2 DEF SoundAt
<1>7. SoundAt("recovery", RecoveryOfServices, 10, {})
  <2>1. RecoveryOfServices[10].id = "recovery.restored-user-readable"
    BY DEF RecoveryOfServices, Do, Step, Proves, Health, Plain
  <2>2. Emptied(RecoveryOfServices, 10)
    BY <1>2, <1>3, <2>1 DEF Emptied, Quiets
  <2> QED BY <1>2, <2>1, <2>2 DEF SoundAt, Sourced
<1>8. SoundAt("recovery", RecoveryOfServices, 11, {})
  <2>1. RecoveryOfServices[11].id = "recovery.primary-remains-operational"
    BY DEF RecoveryOfServices, Do, Step, Proves, Health, Plain
  <2> QED BY <1>2, <2>1 DEF SoundAt, Sourced, StoreChecks, Plain
<1>9. \A n \in DOMAIN RecoveryOfServices : SoundAt("recovery", RecoveryOfServices, n, {})
  BY <1>3, <1>4, <1>5, <1>6, <1>7, <1>8 DEF SoundAt, Remarkable
<1> QED  BY <1>3, <1>9 DEF Sound

LEMMA ReleaseManifestIsSound == Sound("deployment", ReleaseManifest, {})
<1>1. ReleaseManifest = [n \in 1..8 |-> ReleaseManifest[n]]
  BY DEF ReleaseManifest
<1>2. /\ ReleaseManifest[1].do = "contract" /\ ReleaseManifest[2].do = "release"
      /\ ReleaseManifest[3].do = "try" /\ ReleaseManifest[4].do = "release"
      /\ ReleaseManifest[5].do = "release" /\ ReleaseManifest[6].do = "release"
      /\ ReleaseManifest[7].do = "release" /\ ReleaseManifest[8].do = "release"
  BY DEF ReleaseManifest, Do, Step, Proves, Health
<1>3. IsScript(ReleaseManifest) /\ DOMAIN ReleaseManifest = 1..8
  BY <1>1, LiteralScript
<1>4. \A n \in (1..8) \ {3} : ReleaseManifest[n].do \notin Remarkable
  BY <1>2 DEF Remarkable
<1>5. SoundAt("deployment", ReleaseManifest, 3, {})
  <2>1. Plain(ReleaseManifest[3])
    BY DEF ReleaseManifest, Do, Step, Proves, Health, Plain
  <2> QED BY <1>2, <2>1 DEF SoundAt
<1>6. \A n \in DOMAIN ReleaseManifest : SoundAt("deployment", ReleaseManifest, n, {})
  BY <1>3, <1>4, <1>5 DEF SoundAt, Remarkable
<1> QED  BY <1>3, <1>6 DEF Sound

LEMMA ReleaseOutageIsSound == Sound("deployment", ReleaseOutage, {})
<1>1. ReleaseOutage = [n \in 1..17 |-> ReleaseOutage[n]]
  BY DEF ReleaseOutage
<1>2. /\ ReleaseOutage[1].do = "health" /\ ReleaseOutage[2].do = "health"
      /\ ReleaseOutage[3].do = "health" /\ ReleaseOutage[4].do = "register"
      /\ ReleaseOutage[5].do = "create" /\ ReleaseOutage[6].do = "readUser"
      /\ ReleaseOutage[7].do = "count" /\ ReleaseOutage[8].do = "stop"
      /\ ReleaseOutage[9].do = "down" /\ ReleaseOutage[10].do = "read"
      /\ ReleaseOutage[11].do = "start" /\ ReleaseOutage[12].do = "health"
      /\ ReleaseOutage[13].do = "release" /\ ReleaseOutage[14].do = "read"
      /\ ReleaseOutage[15].do = "recount" /\ ReleaseOutage[16].do = "release"
      /\ ReleaseOutage[17].do = "release"
  BY DEF ReleaseOutage, Do, Step, Proves, Health
<1>3. IsScript(ReleaseOutage) /\ DOMAIN ReleaseOutage = 1..17
  BY <1>1, LiteralScript
<1>4. \A n \in (1..17) \ {6, 8} : ReleaseOutage[n].do \notin Remarkable
  BY <1>2 DEF Remarkable
<1>5. SoundAt("deployment", ReleaseOutage, 6, {})
  <2>1. Plain(ReleaseOutage[6])
    BY DEF ReleaseOutage, Do, Step, Proves, Health, Plain
  <2> QED BY <1>2, <2>1 DEF SoundAt, Sourced, StoreChecks, Plain
<1>6. SoundAt("deployment", ReleaseOutage, 8, {})
  <2>1. ReleaseOutage[8].on = {"gateway"} /\ ReleaseOutage[12].on = "gateway"
    BY DEF ReleaseOutage, Do, Step, Proves, Health, Plain
  <2>2. Awaited(ReleaseOutage, 8, "gateway")
    BY <1>2, <1>3, <2>1 DEF Awaited
  <2> QED BY <1>2, <2>1, <2>2 DEF SoundAt
<1>7. \A n \in DOMAIN ReleaseOutage : SoundAt("deployment", ReleaseOutage, n, {})
  BY <1>3, <1>4, <1>5, <1>6 DEF SoundAt, Remarkable
<1> QED  BY <1>3, <1>7 DEF Sound

LEMMA BrowserSessionIsSound == Sound("browser", BrowserSession, {})
<1>1. BrowserSession = [n \in 1..9 |-> BrowserSession[n]]
  BY DEF BrowserSession
<1>2. /\ BrowserSession[1].do = "try" /\ BrowserSession[2].do = "rejected"
      /\ BrowserSession[3].do = "rejected" /\ BrowserSession[4].do = "register"
      /\ BrowserSession[5].do = "refresh" /\ BrowserSession[6].do = "refresh"
      /\ BrowserSession[7].do = "rejected" /\ BrowserSession[8].do = "logout"
      /\ BrowserSession[9].do = "refresh"
  BY DEF BrowserSession, Do, Step, Proves, Health
<1>3. IsScript(BrowserSession) /\ DOMAIN BrowserSession = 1..9
  BY <1>1, LiteralScript
<1>4. \A n \in (1..9) \ {1} : BrowserSession[n].do \notin Remarkable
  BY <1>2 DEF Remarkable
<1>5. SoundAt("browser", BrowserSession, 1, {})
  <2>1. Plain(BrowserSession[1])
    BY DEF BrowserSession, Do, Step, Proves, Health, Plain
  <2> QED BY <1>2, <2>1 DEF SoundAt
<1>6. \A n \in DOMAIN BrowserSession : SoundAt("browser", BrowserSession, n, {})
  BY <1>3, <1>4, <1>5 DEF SoundAt, Remarkable
<1> QED  BY <1>3, <1>6 DEF Sound

LEMMA PrologueIsSound == \A s : Sound(s, Prologue, {})
<1>1. Prologue = [n \in 1..2 |-> Prologue[n]]
  BY DEF Prologue
<1>2. /\ Prologue[1].do = "contract" /\ Prologue[2].do = "try"
  BY DEF Prologue, Do, Step, Proves, Health
<1>3. IsScript(Prologue) /\ DOMAIN Prologue = 1..2
  BY <1>1, LiteralScript
<1>4. \A n \in (1..2) \ {2} : Prologue[n].do \notin Remarkable
  BY <1>2 DEF Remarkable
<1>5. \A s : SoundAt(s, Prologue, 2, {})
  <2>1. Plain(Prologue[2])
    BY DEF Prologue, Do, Step, Proves, Health, Plain
  <2> QED BY <1>2, <2>1 DEF SoundAt
<1>6. \A s : \A n \in DOMAIN Prologue : SoundAt(s, Prologue, n, {})
  BY <1>3, <1>4, <1>5 DEF SoundAt, Remarkable
<1> QED  BY <1>3, <1>6 DEF Sound

(* A body: a sound sequence of steps that has entered its try block.         *)
Body(s, p) == Sound(s, p, {}) /\ Opens(p)

LEMMA BodyJoined ==
    ASSUME NEW a, NEW b, NEW s, Body(s, a), Sound(s, b, {})
    PROVE  Body(s, a \o b)
<1>1. Sound(s, a, {}) /\ Opens(a) /\ IsScript(a) /\ IsScript(b)
  BY DEF Body, Sound
<1>2. Sound(s, a \o b, {})
  BY <1>1, SoundJoined
<1>3. Opens(a \o b)
  BY <1>1, OpensJoined
<1> QED BY <1>2, <1>3 DEF Body

LEMMA ProloguesOpen == Opens(Prologue) /\ Opens(ReleaseManifest) /\ Opens(BrowserSession)
<1>1. Opens(Prologue)
  <2>1. Prologue = [n \in 1..2 |-> Prologue[n]]
    BY DEF Prologue
  <2>2. Plain(Prologue[1]) /\ Prologue[2].do = "try" /\ Plain(Prologue[2])
    BY DEF Prologue, Do, Step, Plain
  <2>3. \A k \in 1..2 : Plain(Prologue[k])
    BY <2>2
  <2>4. 2 \in DOMAIN Prologue
    BY <2>1
  <2> QED BY <2>2, <2>3, <2>4 DEF Opens
<1>2. Opens(ReleaseManifest)
  <2>1. ReleaseManifest = [n \in 1..8 |-> ReleaseManifest[n]]
    BY DEF ReleaseManifest
  <2>2. /\ Plain(ReleaseManifest[1]) /\ Plain(ReleaseManifest[2])
        /\ ReleaseManifest[3].do = "try" /\ Plain(ReleaseManifest[3])
    BY DEF ReleaseManifest, Do, Step, Plain
  <2>3. \A k \in 1..3 : Plain(ReleaseManifest[k])
    BY <2>2
  <2>4. 3 \in DOMAIN ReleaseManifest
    BY <2>1
  <2> QED BY <2>2, <2>3, <2>4 DEF Opens
<1>3. Opens(BrowserSession)
  <2>1. BrowserSession = [n \in 1..9 |-> BrowserSession[n]]
    BY DEF BrowserSession
  <2>2. BrowserSession[1].do = "try" /\ Plain(BrowserSession[1])
    BY DEF BrowserSession, Do, Step, Plain
  <2>3. \A k \in 1..1 : Plain(BrowserSession[k])
    BY <2>2
  <2>4. 1 \in DOMAIN BrowserSession
    BY <2>1
  <2> QED BY <2>2, <2>3, <2>4 DEF Opens
<1> QED BY <1>1, <1>2, <1>3

LEMMA EpiloguesClose ==
    ASSUME NEW s
    PROVE  /\ s # "browser" => Closes(s, Epilogue) /\ Closes(s, ReleaseEpilogue)
           /\ s = "browser" => Closes(s, <<Do("publish", "")>>)
<1>1. /\ Do("compare", "both").do = "compare" /\ Plain(Do("compare", "both"))
      /\ Do("compare", "missing").do = "compare" /\ Plain(Do("compare", "missing"))
      /\ Do("publish", "").do = "publish" /\ Plain(Do("publish", ""))
  BY DEF Do, Step, Plain
<1> QED BY <1>1 DEF Closes, Epilogue, ReleaseEpilogue

(* All eight scripts.                                                        *)
LEMMA ScriptsAreProper == \A s \in Suites : Proper(s, Script(s))
<1>1. Proper("core", CoreScript)
  <2>1. Body("core", Prologue \o CoreReadiness)
    BY BodyJoined, PrologueIsSound, ProloguesOpen, CoreReadinessIsCalm, CalmIsSound DEF Body
  <2>2. Body("core", Prologue \o CoreReadiness \o CoreIdentity \o CoreUsers)
    BY <2>1, BodyJoined, CoreIdentityIsCalm, CoreUsersIsCalm, CalmIsSound
  <2>3. Body("core", Prologue \o CoreReadiness \o CoreIdentity \o CoreUsers \o CoreAudit \o CoreOutage)
    BY <2>2, BodyJoined, CoreAuditIsSound, CoreOutageIsSound
  <2> QED BY <2>3, EpiloguesClose DEF Body, Proper, CoreScript
<1>2. Proper("resilience", ResilienceScript)
  <2>1. Sound("resilience", Prologue \o ResilienceOutage, {"user-service"})
    BY SoundJoined, PrologueIsSound, ResilienceOutageIsSound
  <2>2. 2 \in DOMAIN ResilienceRecovery /\ ResilienceRecovery[2].do = "health"
        /\ ResilienceRecovery[2].on = "user-service"
    <3>1. ResilienceRecovery = [n \in 1..8 |-> ResilienceRecovery[n]]
      BY DEF ResilienceRecovery
    <3>2. ResilienceRecovery[2].do = "health" /\ ResilienceRecovery[2].on = "user-service"
      BY DEF ResilienceRecovery, Health, Proves, Step
    <3> QED BY <3>1, <3>2
  <2>3. Sound("resilience", ResilienceRecovery, {})
    BY ResilienceRecoveryIsCalm, CalmIsSound
  <2>4. Sound("resilience", Prologue \o ResilienceOutage \o ResilienceRecovery, {})
    BY <2>1, <2>2, <2>3, SoundJoined
  <2>5. Opens(Prologue \o ResilienceOutage \o ResilienceRecovery)
    BY <2>1, <2>3, OpensJoined, ProloguesOpen, PrologueIsSound, ResilienceOutageIsSound DEF Sound
  <2> QED BY <2>4, <2>5, EpiloguesClose DEF Proper, ResilienceScript
<1>3. Proper("security", SecurityScript)
  <2>1. Body("security", Prologue \o SecurityAccess)
    BY BodyJoined, PrologueIsSound, ProloguesOpen, SecurityAccessIsCalm, CalmIsSound DEF Body
  <2>2. Body("security", Prologue \o SecurityAccess \o SecurityTokens \o SecurityRace)
    BY <2>1, BodyJoined, SecurityTokensIsCalm, SecurityRaceIsCalm, CalmIsSound
  <2> QED BY <2>2, EpiloguesClose DEF Body, Proper, SecurityScript
<1>4. Proper("recovery", RecoveryScript)
  <2>1. Body("recovery", Prologue \o RecoveryBaseline)
    BY BodyJoined, PrologueIsSound, ProloguesOpen, RecoveryBaselineIsSound DEF Body
  <2>2. Body("recovery", Prologue \o RecoveryBaseline \o RecoveryRestarts \o RecoveryBackup)
    BY <2>1, BodyJoined, RecoveryRestartsIsSound, RecoveryBackupIsCalm, CalmIsSound
  <2>3. Body("recovery", Prologue \o RecoveryBaseline \o RecoveryRestarts \o RecoveryBackup
                         \o RecoveryOfServices)
    BY <2>2, BodyJoined, RecoveryOfServicesIsSound
  <2> QED BY <2>3, EpiloguesClose DEF Body, Proper, RecoveryScript
<1>5. Proper("deployment", DeploymentScript)
  <2>1. Body("deployment", ReleaseManifest \o ReleaseOutage)
    BY BodyJoined, ReleaseManifestIsSound, ProloguesOpen, ReleaseOutageIsSound DEF Body
  <2> QED BY <2>1, EpiloguesClose DEF Body, Proper, DeploymentScript
<1>6. Proper("browser", BrowserScript)
  BY BrowserSessionIsSound, ProloguesOpen, EpiloguesClose DEF Proper, BrowserScript
<1>7. Proper("observability", ObservabilityScript)
  <2>1. Body("observability", Prologue \o Observability)
    BY BodyJoined, PrologueIsSound, ProloguesOpen, ObservabilityIsCalm, CalmIsSound DEF Body
  <2> QED BY <2>1, EpiloguesClose DEF Body, Proper, ObservabilityScript
<1>8. Proper("load", LoadScript)
  <2>1. Body("load", Prologue \o LoadSetup)
    BY BodyJoined, PrologueIsSound, ProloguesOpen, LoadSetupIsCalm, CalmIsSound DEF Body
  <2>2. Body("load", Prologue \o LoadSetup \o LoadProfiles \o LoadRecovery)
    BY <2>1, BodyJoined, LoadProfilesIsCalm, LoadRecoveryIsCalm, CalmIsSound
  <2> QED BY <2>2, EpiloguesClose DEF Body, Proper, LoadScript
<1> QED BY <1>1, <1>2, <1>3, <1>4, <1>5, <1>6, <1>7, <1>8 DEF Suites, Script

(* Where the body of a proper script ends.                                   *)
LEMMA ProperShape ==
    ASSUME NEW s, NEW q, Proper(s, q)
    PROVE  \E b, e :
              /\ Sound(s, b, {}) /\ Opens(b) /\ Closes(s, e)
              /\ Len(b) \in Nat /\ Len(e) = IF s = "browser" THEN 1 ELSE 2
              /\ DOMAIN b = 1..Len(b)
              /\ DOMAIN q = 1..(Len(b) + Len(e))
              /\ \A n \in 1..Len(b) : q[n] = b[n]
              /\ \A n \in 1..Len(e) : q[Len(b) + n] = e[n]
<1>1. PICK b, e : q = b \o e /\ Sound(s, b, {}) /\ Opens(b) /\ Closes(s, e)
  BY DEF Proper
<1>2. IsScript(e) /\ Len(e) = IF s = "browser" THEN 1 ELSE 2
  <2>1. PICK x, y : e = IF s = "browser" THEN <<y>> ELSE <<x, y>>
    BY <1>1 DEF Closes
  <2>2. <<y>> \in Seq({x, y}) /\ <<x, y>> \in Seq({x, y}) /\ Len(<<y>>) = 1 /\ Len(<<x, y>>) = 2
    OBVIOUS
  <2>3. CASE s = "browser"
    <3>1. e \in Seq({x, y}) /\ Len(e) = 1
      BY <2>1, <2>2, <2>3
    <3>2. IsScript(e)
      BY <3>1 DEF IsScript
    <3> QED BY <2>3, <3>1, <3>2
  <2>4. CASE s # "browser"
    <3>1. e \in Seq({x, y}) /\ Len(e) = 2
      BY <2>1, <2>2, <2>4
    <3>2. IsScript(e)
      BY <3>1 DEF IsScript
    <3> QED BY <2>4, <3>1, <3>2
  <2> QED BY <2>3, <2>4
<1>3. IsScript(b) /\ IsScript(e)
  BY <1>1, <1>2 DEF Sound
<1>4. /\ Len(b) \in Nat
      /\ DOMAIN b = 1..Len(b)
      /\ DOMAIN q = 1..(Len(b) + Len(e))
      /\ \A n \in 1..Len(b) : q[n] = b[n]
      /\ \A n \in 1..Len(e) : q[Len(b) + n] = e[n]
  <2> HIDE <1>1
  <2>1. q = b \o e
    BY <1>1
  <2> QED BY <2>1, <1>3, Joined
<1> QED BY <1>1, <1>2, <1>4

(* What the invariants below use of a script s at its step n.                *)
LEMMA ShapeOfScripts ==
    ASSUME NEW s \in Suites, NEW n \in DOMAIN Script(s)
    PROVE  LET q == Script(s) IN
           /\ n \in Nat \ {0} /\ \A k \in 1..n : k \in DOMAIN q
           /\ q[n].do = "publish" \/ ~Plain(q[n]) => \E k \in 1..(n - 1) : q[k].do = "try"
           /\ q[n].do = "try" => Plain(q[n])
           /\ n + 1 \in DOMAIN q /\ q[n + 1].do = "publish" /\ s # "browser"
                  => q[n].do = "compare" /\ Plain(q[n])
           /\ q[n].do = "publish" => n + 1 \notin DOMAIN q
           /\ \A m \in 1..(n - 1) : q[n].do = "publish" /\ q[m].do \in {"stop", "restart"}
                  => \A x \in q[m].on : \E k \in (m + 1)..(n - 1) :
                        q[k].do \in {"health", "ping"} /\ q[k].on = x
           /\ q[n].do = "run" => s = "recovery" /\ NamedBefore(q, n)
           /\ q[n].do \in {"readUser", "readCopy"} => Sourced(q, n)
<1> DEFINE q == Script(s)
<1>1. PICK b, e :
         /\ Sound(s, b, {}) /\ Opens(b) /\ Closes(s, e)
         /\ Len(b) \in Nat /\ Len(e) = IF s = "browser" THEN 1 ELSE 2
         /\ DOMAIN b = 1..Len(b)
         /\ DOMAIN q = 1..(Len(b) + Len(e))
         /\ \A k \in 1..Len(b) : q[k] = b[k]
         /\ \A k \in 1..Len(e) : q[Len(b) + k] = e[k]
  BY ScriptsAreProper, ProperShape
<1> HIDE DEF q
<1> DEFINE L == Len(b)
<1>2. PICK t \in 1..L : b[t].do = "try" /\ \A k \in 1..t : Plain(b[k])
  BY <1>1 DEF Opens
<1>3. /\ s = "browser" => q[L + 1].do = "publish" /\ Plain(q[L + 1])
      /\ s # "browser" => /\ q[L + 1].do = "compare" /\ Plain(q[L + 1])
                          /\ q[L + 2].do = "publish" /\ Plain(q[L + 2])
  <2>1. PICK x, y : /\ x.do = "compare" /\ Plain(x) /\ y.do = "publish" /\ Plain(y)
                    /\ e = IF s = "browser" THEN <<y>> ELSE <<x, y>>
    BY <1>1 DEF Closes
  <2>2. CASE s = "browser"
    <3>1. e[1] = y /\ 1 \in 1..Len(e)
      BY <2>1, <2>2, <1>1
    <3> QED BY <3>1, <2>1, <2>2, <1>1
  <2>3. CASE s # "browser"
    <3>1. e[1] = x /\ e[2] = y /\ 1 \in 1..Len(e) /\ 2 \in 1..Len(e)
      BY <2>1, <2>3, <1>1
    <3> QED BY <3>1, <2>1, <2>3, <1>1
  <2> QED BY <2>2, <2>3
<1>4. \A k \in 1..L : SoundAt(s, b, k, {}) /\ q[k] = b[k]
  BY <1>1 DEF Sound
<1>5. L \in Nat /\ DOMAIN q = 1..(L + IF s = "browser" THEN 1 ELSE 2)
  BY <1>1
<1>6. /\ n \in Nat \ {0} /\ \A k \in 1..n : k \in DOMAIN q
  BY <1>5 DEF q
<1>7. n \in 1..L \/ n = L + 1 \/ (n = L + 2 /\ s # "browser")
  BY <1>5 DEF q
<1>8. q[t].do = "try" /\ \A k \in 1..t : Plain(q[k])
  BY <1>2, <1>4, <1>5
<1>9. q[n].do = "publish" \/ ~Plain(q[n]) => t \in 1..(n - 1)
  <2> SUFFICES ASSUME q[n].do = "publish" \/ ~Plain(q[n]) PROVE t < n
    BY <1>2, <1>5, <1>6
  <2>1. CASE n \in 1..L
    <3>1. q[n].do # "publish"
      BY <2>1, <1>4 DEF SoundAt
    <3>2. n \notin 1..t
      BY <3>1, <1>8
    <3> QED BY <3>2, <1>2, <1>5, <1>6
  <2>2. CASE n \notin 1..L
    BY <2>2, <1>2, <1>5, <1>7
  <2> QED BY <2>1, <2>2
<1>10. q[n].do = "try" => Plain(q[n])
  BY <1>7, <1>4, <1>3 DEF SoundAt
<1>11. n + 1 \in DOMAIN q /\ q[n + 1].do = "publish" /\ s # "browser"
                  => q[n].do = "compare" /\ Plain(q[n])
  <2> SUFFICES ASSUME n + 1 \in DOMAIN q, q[n + 1].do = "publish", s # "browser"
               PROVE  q[n].do = "compare" /\ Plain(q[n])
    OBVIOUS
  <2>1. n + 1 \notin 1..L
    BY <1>4 DEF SoundAt
  <2>2. n = L \/ n = L + 1
    BY <1>5, <1>6, <1>7, <2>1
  <2>3. n # L
    BY <1>3
  <2> QED BY <2>2, <2>3, <1>3
<1>12. q[n].do = "publish" => n + 1 \notin DOMAIN q /\ n > L
  BY <1>3, <1>4, <1>5, <1>6, <1>7 DEF SoundAt
<1>13. ASSUME q[n].do = "publish", NEW m \in 1..(n - 1), q[m].do \in {"stop", "restart"}, NEW x \in q[m].on
       PROVE  \E k \in (m + 1)..(n - 1) : q[k].do \in {"health", "ping"} /\ q[k].on = x
  <2>1. m \in 1..L
    BY <1>3, <1>5, <1>6, <1>7, <1>13
  <2>2. Awaited(b, m, x)
    BY <2>1, <1>4, <1>13 DEF SoundAt
  <2>3. PICK k \in 1..L : k > m /\ b[k].do \in {"health", "ping"} /\ b[k].on = x
    BY <2>2, <1>1 DEF Awaited
  <2>4. q[k] = b[k] /\ k \in (m + 1)..(n - 1)
    BY <1>4, <1>5, <1>6, <1>12, <1>13, <2>1, <2>3
  <2> QED BY <2>3, <2>4
<1>14. /\ q[n].do = "run" => s = "recovery" /\ NamedBefore(q, n)
       /\ q[n].do \in {"readUser", "readCopy"} => Sourced(q, n)
  <2>1. CASE n \in 1..L
    <3>1. SoundAt(s, b, n, {}) /\ q[n] = b[n]
      BY <2>1, <1>4
    <3>2. NamedBefore(b, n) => NamedBefore(q, n)
      BY <2>1, <1>1, <1>4, <1>5 DEF NamedBefore
    <3>3. Emptied(b, n) => Emptied(q, n)
      <4> SUFFICES ASSUME NEW m \in DOMAIN b, m < n, b[m].do \in {"flush", "listEmpty"},
                          \A k \in DOMAIN b : m < k /\ k < n => b[k].do \in Quiets
                   PROVE  Emptied(q, n)
        BY DEF Emptied
      <4>1. m \in DOMAIN q /\ q[m] = b[m]
        BY <1>1, <1>4, <1>5
      <4>2. ASSUME NEW k \in DOMAIN q, m < k, k < n PROVE q[k].do \in Quiets
        <5>1. k \in DOMAIN b /\ q[k] = b[k]
          BY <1>1, <1>4, <1>5, <2>1, <4>2
        <5> QED BY <5>1, <4>2
      <4> QED BY <4>1, <4>2 DEF Emptied
    <3> QED BY <3>1, <3>2, <3>3 DEF SoundAt, Sourced
  <2>2. CASE n \notin 1..L
    BY <2>2, <1>3, <1>7
  <2> QED BY <2>1, <2>2
<1>15. q[n].do = "publish" \/ ~Plain(q[n]) => \E k \in 1..(n - 1) : q[k].do = "try"
  BY <1>8, <1>9
<1> QED BY <1>6, <1>10, <1>11, <1>12, <1>13, <1>14, <1>15 DEF q
-----------------------------------------------------------------------------
(* The inductive invariant.  Entered and Compared carry what the script did  *)
(* before the next step into the step that records or publishes.             *)
Entered == \A k \in 1..(pc - 1) : Script(suite)[k].do = "try" => guarded
Declares == suite # "browser" => checks \subseteq Contract(suite)
Compared ==
    stage = "running" /\ pc \in DOMAIN Script(suite) /\ Current.do = "publish" /\ suite # "browser"
        => Contract(suite) \subseteq checks
Open == stage = "running" => report \in {"none", "earlier"} /\ status = Pending
Closed == stage # "running" /\ guarded => report \in {"PASS", "FAIL"}
IInv == ProofTypeOK /\ Entered /\ Declares /\ Compared /\ Open /\ Closed /\ ExitAgreesWithReport

LEMMA InitIInv == Init => IInv
<1> SUFFICES ASSUME Init PROVE IInv
  OBVIOUS
<1>1. suite \in Suites /\ pc = 1 /\ guarded = FALSE /\ checks = {} /\ stage = "running"
      /\ status = -1 /\ report \in {"none", "earlier"}
  BY DEF Init, Pending
<1>2. Compared
  <2> SUFFICES ASSUME 1 \in DOMAIN Script(suite), Script(suite)[1].do = "publish"
               PROVE  FALSE
    BY <1>1 DEF Compared, Current
  <2>1. PICK k \in 1..(1 - 1) : Script(suite)[k].do = "try"
    BY <1>1, ShapeOfScripts
  <2> QED OBVIOUS
<1>3. ProofTypeOK
  <2>1. guarded \in BOOLEAN
    BY <1>1, Zenon
  <2> QED BY <1>1, <2>1 DEF ProofTypeOK
<1>4. Entered
  <2>1. 1..(pc - 1) = {}
    BY <1>1
  <2> QED BY <2>1 DEF Entered
<1>5. Declares
  BY <1>1 DEF Declares
<1>6. Open
  BY <1>1 DEF Open, Pending
<1>7. Closed /\ ExitAgreesWithReport
  BY <1>1 DEF Closed, ExitAgreesWithReport
<1> QED BY <1>2, <1>3, <1>4, <1>5, <1>6, <1>7 DEF IInv

(* Raising and returning close the run.                                      *)
LEMMA RaiseStep ==
    ASSUME IInv, Running, NEW t, Raise(t)
    PROVE  IInv' /\ stage' # "running"
  BY DEF IInv, ProofTypeOK, Entered, Declares, Compared, Open, Closed, ExitAgreesWithReport, Running,
         Raise, Leave, Over, runVars, noteVars, Pending, Current

LEMMA AdvanceStep ==
    ASSUME IInv, Running, NEW t, Advance(t), Declared(Current.id),
           Current.do = "compare" => Contract(suite) \subseteq checks
    PROVE  IInv'
<1> /\ pc \in Nat \ {0}
    /\ suite \in Suites
  BY DEF IInv, ProofTypeOK
<1>1. /\ suite' = suite /\ stage' = stage /\ report' = report /\ status' = status
      /\ checks' = IF Current.id = "" THEN checks ELSE checks \cup {Current.id}
  BY DEF Advance, runVars
<1>a. pc' = pc + 1
  BY DEF Advance
<1>b. guarded' = (guarded \/ Current.do = "try")
  BY DEF Advance
<1>2. ProofTypeOK'
  <2>1. guarded' \in BOOLEAN
    BY <1>b, Zenon
  <2>2. pc' \in Nat \ {0}
    BY <1>a
  <2> QED BY <1>1, <2>1, <2>2 DEF IInv, ProofTypeOK
<1>3. Entered'
  <2> SUFFICES ASSUME NEW k \in 1..(pc' - 1), Script(suite)[k].do = "try"
               PROVE  guarded'
    BY <1>1 DEF Entered
  <2>1. CASE k = pc
    BY <1>b, <2>1 DEF Current
  <2>2. CASE k # pc
    <3>1. k \in 1..(pc - 1)
      BY <2>2, <1>a
    <3> QED BY <1>b, <3>1 DEF IInv, Entered
  <2> QED BY <2>1, <2>2
<1>4. Declares'
  BY <1>1 DEF IInv, Declares, Declared
<1>5. Compared'
  <2> SUFFICES ASSUME pc + 1 \in DOMAIN Script(suite), Script(suite)[pc + 1].do = "publish",
                      suite # "browser"
               PROVE  Contract(suite) \subseteq checks'
    BY <1>1, <1>a DEF Compared, Current
  <2>1. pc \in DOMAIN Script(suite)
    BY DEF Running
  <2>3. Script(suite)[pc].do = "compare" /\ Script(suite)[pc].id = ""
    BY <2>1, ShapeOfScripts DEF IInv, ProofTypeOK, Plain
  <2> QED BY <1>1, <2>3 DEF Current
<1> QED BY <1>1, <1>2, <1>3, <1>4, <1>5 DEF IInv, Open, Closed, ExitAgreesWithReport, Running, Pending

(* A step taken: it advances past an assertion that held, or it raises.      *)
LEMMA TakeStepAlternatives ==
    ASSUME TakeStep
    PROVE  \/ \E t : /\ Advance(t) /\ Declared(Current.id)
                     /\ Current.do = "compare" => Contract(suite) \subseteq checks
           \/ \E t : Raise(t)
<1>1. PICK e \in Effect(platform, Current) :
         IF e.ok /\ Declared(Current.id) THEN Advance(e.then) /\ Note(Current)
         ELSE Raise(e.then) /\ UNCHANGED faults
  BY DEF TakeStep
<1>2. CASE e.ok /\ Declared(Current.id)
  <2>1. ASSUME Current.do = "compare"
        PROVE  Contract(suite) \subseteq checks
    <3>1. Effect(platform, Current) = Sees(Matches(Current.on), platform)
      BY <2>1 DEF Effect
    <3>2. e = Outcome(Matches(Current.on), platform)
      BY <1>1, <3>1 DEF Sees
    <3> QED BY <1>2, <3>2 DEF Outcome, Matches
  <2> QED BY <1>1, <1>2, <2>1
<1>3. CASE ~(e.ok /\ Declared(Current.id))
  BY <1>1, <1>3
<1> QED BY <1>2, <1>3

(* The outage loop has no check of its own to compare.                       *)
LEMMA OutageAlternatives ==
    ASSUME OutageOver
    PROVE  \/ Current.do = "outage" /\ Advance(platform)
           \/ Raise(platform)
  BY DEF OutageOver

(* What every step of the machine is, as far as the report is concerned.     *)
Quiet ==
    /\ UNCHANGED <<suite, pc, guarded, checks, report, stage, status>>
Ending ==
    /\ stage # "running"
    /\ stage' # "running" /\ stage' \in {"cleanup", "over"}
    /\ status' \in {status, 1}
    /\ UNCHANGED <<suite, pc, guarded, checks, report>>

LEMMA OtherSteps ==
    ASSUME IInv, Cleanup \/ CleanupFails \/ HalfOpen \/ \E s \in Services : Crash(s)
    PROVE  Quiet \/ Ending
  BY DEF Cleanup, CleanupFails, HalfOpen, Crash, Over, Quiet, Ending, runVars

LEMMA PublishStep ==
    ASSUME IInv, Publish
    PROVE  IInv' /\ stage' # "running"
  BY DEF IInv, ProofTypeOK, Entered, Declares, Compared, Open, Closed, ExitAgreesWithReport, Running,
         Publish, Leave, Over, runVars, noteVars, Pending, Current

LEMMA QuietStep ==
    ASSUME IInv, Quiet
    PROVE  IInv'
  BY DEF IInv, ProofTypeOK, Entered, Declares, Compared, Open, Closed, ExitAgreesWithReport, Quiet, Current

LEMMA EndingStep ==
    ASSUME IInv, Ending
    PROVE  IInv'
  BY DEF IInv, ProofTypeOK, Entered, Declares, Compared, Open, Closed, ExitAgreesWithReport, Ending, Current

(* Every step is one of five kinds.                                          *)
LEMMA StepKinds ==
    ASSUME IInv, [Next]_vars
    PROVE  \/ Quiet
           \/ Ending
           \/ Running /\ \E t : Raise(t)
           \/ /\ Running /\ Declared(Current.id)
              /\ \E t : Advance(t)
              /\ Current.do = "compare" => Contract(suite) \subseteq checks
           \/ Publish
<1>1. CASE TakeStep
  BY <1>1, TakeStepAlternatives DEF TakeStep
<1>2. CASE OutageRound
  BY <1>2 DEF OutageRound, Quiet, runVars
<1>3. CASE OutageOver
  BY <1>3 DEF OutageOver
<1>4. CASE Publish
  BY <1>4
<1>5. CASE Cleanup \/ CleanupFails \/ HalfOpen \/ \E s \in Core \cup {"postgres", "redis"} : Crash(s)
  BY <1>5, OtherSteps DEF Services, Stores
<1>6. CASE Interrupted
  BY <1>6 DEF Interrupted
<1>7. CASE UNCHANGED vars
  BY <1>7 DEF vars, Quiet, runVars
<1> QED BY <1>1, <1>2, <1>3, <1>4, <1>5, <1>6, <1>7 DEF Next, Proceed, Finished

LEMMA StepIInv == IInv /\ [Next]_vars => IInv'
  BY StepKinds, QuietStep, EndingStep, RaiseStep, AdvanceStep, PublishStep

LEMMA InvariantIInv == Spec => []IInv
  BY InitIInv, StepIInv, PTL DEF Spec

(* Place, stage and report of a run keep their types.                        *)
THEOREM ProofTyped == Spec => []ProofTypeOK
  BY InvariantIInv, PTL DEF IInv

(* The exit status is no better than the report.                             *)
THEOREM ExitTheorem == Spec => []ExitAgreesWithReport
  BY InvariantIInv, PTL DEF IInv

(* A run that got into its try block leaves its own report.                  *)
THEOREM ReportTheorem == Spec => []ReportIsOfThisRun
<1>1. IInv => ReportIsOfThisRun
  BY DEF IInv, Closed, ReportIsOfThisRun
<1> QED BY InvariantIInv, <1>1, PTL
-----------------------------------------------------------------------------
(* Nothing is recorded or published outside the try block.                   *)
LEMMA RecordingIsGuarded ==
    ASSUME IInv, Running, Current.do = "publish" \/ Current.id # ""
    PROVE  guarded
<1>1. suite \in Suites /\ pc \in DOMAIN Script(suite)
  BY DEF IInv, ProofTypeOK, Running
<1>2. Script(suite)[pc].do = "publish" \/ Script(suite)[pc].id # ""
  BY DEF Current
<1>3. Script(suite)[pc].do = "publish" \/ ~Plain(Script(suite)[pc])
  BY <1>2 DEF Plain
<1>4. PICK k \in 1..(pc - 1) : Script(suite)[k].do = "try"
  BY <1>1, <1>3, ShapeOfScripts
<1> QED BY <1>4 DEF IInv, Entered

LEMMA BrowserHasNoContract == Contract("browser") = {}
  BY DEF Contract

(* The five kinds of step, as steps of an evidence run.                      *)
LEMMA RaiseIsAbandonOrFail ==
    ASSUME IInv, Running, NEW t, Raise(t)
    PROVE  Evidence!Abandon \/ Evidence!Publish("FAIL")
<1>1. /\ stage = "running" /\ stage' # "running"
      /\ suite' = suite /\ checks' = checks /\ guarded' = guarded
      /\ report' = IF guarded THEN "FAIL" ELSE report
  BY DEF Raise, Running, Leave, Over, runVars
<1>2. CASE guarded
  BY <1>1, <1>2 DEF Evidence!Publish, Verdict
<1>3. CASE ~guarded
  BY <1>1, <1>3 DEF Evidence!Abandon, Verdict, IInv, Open
<1> QED BY <1>2, <1>3

LEMMA AdvanceIsStartOrClaim ==
    ASSUME IInv, Running, NEW t, Advance(t), Declared(Current.id)
    PROVE  Evidence!Start \/ Evidence!Claim \/ UNCHANGED Evidence!runVars
<1>1. /\ stage = "running" /\ stage' = "running" /\ suite' = suite /\ report' = report
      /\ checks' = IF Current.id = "" THEN checks ELSE checks \cup {Current.id}
      /\ guarded' = (guarded \/ Current.do = "try")
  BY DEF Advance, Running, runVars
<1>2. CASE Current.id # ""
  <2>1. guarded /\ guarded'
    BY <1>1, <1>2, RecordingIsGuarded
  <2>2. Contract(suite) # {} => Current.id \in Contract(suite)
    BY <1>2, BrowserHasNoContract DEF Declared
  <2>3. Current.id \in checks' /\ checks' = checks \cup {Current.id}
    BY <1>1, <1>2
  <2> QED BY <1>1, <2>1, <2>2, <2>3 DEF Evidence!Claim, Verdict
<1>3. CASE Current.id = "" /\ (guarded \/ Current.do # "try")
  <2>1. (guarded' <=> guarded) /\ checks' = checks
    BY <1>1, <1>3
  <2>2. CASE guarded
    BY <1>1, <2>1, <2>2 DEF Evidence!runVars, Verdict
  <2>3. CASE ~guarded
    BY <1>1, <2>1, <2>3 DEF Evidence!runVars, Verdict
  <2> QED BY <2>2, <2>3
<1>4. CASE Current.id = "" /\ ~guarded /\ Current.do = "try"
  BY <1>1, <1>4 DEF Evidence!Start, Verdict
<1> QED BY <1>2, <1>3, <1>4

LEMMA PublishIsPass ==
    ASSUME IInv, Publish
    PROVE  Evidence!Publish("PASS")
<1>1. /\ stage = "running" /\ stage' # "running" /\ report' = "PASS"
      /\ suite' = suite /\ checks' = checks /\ guarded' = guarded
  BY DEF Publish, Running, Leave, Over, runVars
<1>2. guarded
  BY RecordingIsGuarded DEF Publish
<1>3. Contract(suite) \subseteq checks
  BY BrowserHasNoContract DEF IInv, Compared, Publish, Running
<1> QED BY <1>1, <1>2, <1>3 DEF Evidence!Publish, Verdict

LEMMA StepImplements ==
    ASSUME IInv, [Next]_vars
    PROVE  [Evidence!Next]_(Evidence!runVars)
<1>1. CASE Quiet
  BY <1>1 DEF Quiet, Evidence!runVars, Verdict
<1>2. CASE Ending
  BY <1>2 DEF Ending, Evidence!runVars, Verdict
<1>3. CASE Running /\ \E t : Raise(t)
  BY <1>3, RaiseIsAbandonOrFail DEF Evidence!Next
<1>4. CASE Running /\ Declared(Current.id) /\ \E t : Advance(t)
  BY <1>4, AdvanceIsStartOrClaim DEF Evidence!Next
<1>5. CASE Publish
  BY <1>5, PublishIsPass DEF Evidence!Next
<1> QED BY <1>1, <1>2, <1>3, <1>4, <1>5, StepKinds

(* A hosted proof is an evidence run: a verdict is published once, from      *)
(* inside the try block, over claims of the contract only, and PASS covers   *)
(* the contract whatever the platform did meanwhile.                         *)
THEOREM ImplementsEvidence == Spec => EvidenceSpec
<1>1. Init => Evidence!RunInit
  BY DEF Init, Evidence!RunInit, Verdict
<1> QED BY <1>1, InvariantIInv, StepImplements, PTL DEF Spec, EvidenceSpec, Evidence!Spec
-----------------------------------------------------------------------------
(* The second invariant, about what the run leaves on the platform.          *)
Did(k) == Script(suite)[k]
SeenAt(k, x) == Did(k).do \in {"health", "ping"} /\ Did(k).on = x

(* A service not seen since was stopped by a step after which no step waits  *)
(* for it.                                                                   *)
Overdue ==
    \A x \in unseen : \E m \in 1..(pc - 1) :
        /\ Did(m).do \in {"stop", "restart"} /\ x \in Did(m).on
        /\ \A k \in (m + 1)..(pc - 1) : ~SeenAt(k, x)

(* The containers of docker compose run are known by name until the finally  *)
(* block, and only data recovery has any.                                    *)
Names == \A k \in 1..(pc - 1) : Did(k).do = "name" => Did(k).on \in named
Temporaries ==
    /\ platform.temp # {} => suite = "recovery"
    /\ stage # "over" => platform.temp \subseteq named /\ missed = {}
    /\ stage = "over" => platform.temp \subseteq missed

(* Before a user list is taken as a proof of where it comes from, Redis      *)
(* holds none.                                                               *)
ListEmptied ==
    Running /\ Current.do \in Quiets \cup {"readUser", "readCopy"} /\ Emptied(Script(suite), pc)
        => platform.list = Nothing

PlatformKept == {"temp", "list"} \subseteq DOMAIN platform

StoreInv ==
    /\ PlatformKept /\ Overdue /\ Names /\ Temporaries /\ ListEmptied
    /\ AnswersComeFromTheirStore /\ PassSawRecovery

LEMMA InitStoreInv == Init => StoreInv
<1> SUFFICES ASSUME Init PROVE StoreInv
  OBVIOUS
<1>1. /\ pc = 1 /\ unseen = {} /\ source = {} /\ missed = {} /\ stage = "running"
      /\ \E n \in EarlierReads : platform = Found(used, n)
  BY DEF Init
<1>2. platform.temp = {} /\ platform.list = Nothing /\ {"temp", "list"} \subseteq DOMAIN platform
  BY <1>1 DEF Found
<1>3. 1..(pc - 1) = {}
  BY <1>1
<1> QED BY <1>1, <1>2, <1>3
       DEF StoreInv, PlatformKept, Overdue, Names, Temporaries, ListEmptied,
           AnswersComeFromTheirStore, PassSawRecovery

(* Every step that is taken or fails keeps the fields of the platform.       *)
LEMMA RunKeeps ==
    ASSUME NEW p, "temp" \in DOMAIN p, NEW c, NEW e \in RunTemporary(p, c)
    PROVE  DOMAIN e.then = DOMAIN p /\ e.then.temp = p.temp \cup {c}
BY SeesIsOne DEF RunTemporary

LEMMA EffectTemp ==
    ASSUME NEW p, "temp" \in DOMAIN p, NEW s, NEW e \in Effect(p, s)
    PROVE  /\ DOMAIN e.then = DOMAIN p
           /\ e.then.temp = IF s.do = "run" THEN p.temp \cup {s.on} ELSE p.temp
<1>1. CASE s.do = "run"
  <2>1. e \in RunTemporary(p, s.on)
    BY <1>1 DEF Effect
  <2> QED BY <1>1, <2>1, RunKeeps
<1>2. CASE s.do # "run"
  BY <1>2, EffectKeeps DEF Keeps
<1> QED BY <1>1, <1>2

(* ... and the steps before a user list that matters empty it or leave it.   *)
LEMMA EffectList ==
    ASSUME NEW p, {"temp", "list"} \subseteq DOMAIN p, NEW s, NEW e \in Effect(p, s)
    PROVE  /\ s.do \in {"flush", "listEmpty"} /\ e.ok => e.then.list = Nothing
           /\ s.do \in Quiets => e.then.list = p.list
<1>1. CASE s.do = "flush"
  <2>1. e \in Flush(p)
    BY <1>1 DEF Effect
  <2>2. e.then = Flushed(p)
    BY <2>1, SeesIsOne DEF Flush
  <2> QED BY <1>1, <2>2 DEF Flushed, Quiets
<1>2. CASE s.do = "listEmpty"
  <2>1. e \in Sees(p.list = Nothing, p)
    BY <1>2 DEF Effect
  <2>2. e.ok => p.list = Nothing
    <3>1. e = Outcome(p.list = Nothing, p)
      BY <2>1 DEF Sees
    <3>2. e.ok = (p.list = Nothing)
      BY <3>1 DEF Outcome
    <3> QED BY <3>2
  <2> QED BY <1>2, <2>1, <2>2, SeesIsOne DEF Quiets
<1>3. CASE s.do = "health"
  BY <1>3, SeesIsOne DEF Effect, WaitHealth
<1>4. CASE s.do = "name"
  BY <1>4, SeesIsOne DEF Effect
<1>5. CASE s.do = "run"
  <2>1. e \in RunTemporary(p, s.on)
    BY <1>5 DEF Effect
  <2> QED BY <1>5, <2>1, SeesIsOne DEF RunTemporary
<1> QED BY <1>1, <1>2, <1>3, <1>4, <1>5 DEF Quiets

(* The four kinds of step, as these invariants see them: standing on the     *)
(* step, advancing past it, leaving the run, and the end of it.              *)
Stands ==
    /\ UNCHANGED <<suite, pc, named, stage, report, missed, unseen, source>>
    /\ DOMAIN platform' = DOMAIN platform /\ platform'.temp = platform.temp
    /\ Running /\ Current.do # "outage" => platform'.list = platform.list
Leaves(code) ==
    /\ Running
    /\ Leave(code)
    /\ UNCHANGED <<suite, pc, named, missed, unseen, source>>
    /\ report' \in {report, "FAIL"} \/ Current.do = "publish"
    /\ DOMAIN platform' = DOMAIN platform
    /\ platform'.temp \subseteq platform.temp \cup (IF Current.do = "run" THEN {Current.on} ELSE {})
Ends ==
    /\ stage = "cleanup" /\ stage' = "over"
    /\ UNCHANGED <<suite, pc, named, report, unseen, source>>
    /\ DOMAIN platform' = DOMAIN platform
    /\ platform'.temp \subseteq platform.temp \ (named \ missed')
Moves ==
    /\ Running /\ UNCHANGED <<suite, stage, report, missed>>
    /\ pc' = pc + 1
    /\ named' = IF Current.do = "name" THEN named \cup {Current.on} ELSE named
    /\ DOMAIN platform' = DOMAIN platform
    /\ platform'.temp = IF Current.do = "run" THEN platform.temp \cup {Current.on} ELSE platform.temp
    /\ Current.do \in {"flush", "listEmpty"} => platform'.list = Nothing
    /\ Current.do \in Quiets => platform'.list = platform.list
    /\ \/ Note(Current)
       \/ Current.do = "outage" /\ UNCHANGED <<unseen, source>>

LEMMA RaiseLeaves ==
    ASSUME Running, NEW p, Raise(p), DOMAIN p = DOMAIN platform,
           p.temp \subseteq platform.temp \cup (IF Current.do = "run" THEN {Current.on} ELSE {})
    PROVE  \E code : Leaves(code)
<1>1. Leave(1) /\ platform' = p /\ UNCHANGED <<suite, pc, named, missed, unseen, source>>
      /\ report' \in {report, "FAIL"}
  BY DEF Raise, runVars, noteVars
<1> QED BY <1>1 DEF Leaves

LEMMA StoreKinds ==
    ASSUME PlatformKept, [Next]_vars
    PROVE  Stands \/ Moves \/ (\E code : Leaves(code)) \/ Ends
<1> "temp" \in DOMAIN platform
  BY DEF PlatformKept
<1>1. CASE TakeStep
  <2>1. PICK e \in Effect(platform, Current) :
           IF e.ok /\ Declared(Current.id) THEN Advance(e.then) /\ Note(Current)
           ELSE Raise(e.then) /\ UNCHANGED faults
    BY <1>1 DEF TakeStep
  <2>2. /\ DOMAIN e.then = DOMAIN platform
        /\ e.then.temp = IF Current.do = "run" THEN platform.temp \cup {Current.on} ELSE platform.temp
    BY EffectTemp
  <2>3. Running
    BY <1>1 DEF TakeStep
  <2>4. CASE e.ok /\ Declared(Current.id)
    <3>1. Advance(e.then) /\ Note(Current)
      BY <2>1, <2>4
    <3>2. /\ Current.do \in {"flush", "listEmpty"} => e.then.list = Nothing
          /\ Current.do \in Quiets => e.then.list = platform.list
      BY <2>4, EffectList DEF PlatformKept
    <3> QED BY <2>2, <2>3, <3>1, <3>2 DEF Moves, Advance, Note, runVars
  <2>5. CASE ~(e.ok /\ Declared(Current.id))
    <3>1. Raise(e.then)
      BY <2>1, <2>5
    <3>2. e.then.temp \subseteq platform.temp \cup (IF Current.do = "run" THEN {Current.on} ELSE {})
      BY <2>2
    <3> QED BY <2>2, <2>3, <3>1, <3>2, RaiseLeaves
  <2> QED BY <2>4, <2>5
<1>2. CASE OutageRound
  <2>1. Running /\ Current.do = "outage"
    BY <1>2 DEF OutageRound
  <2>2. CASE /\ loop.limited < MaxLimited
             /\ UNCHANGED <<platform, pc, guarded, checks, named, runVars, report, stage,
                            status, faults, noteVars>>
    BY <2>2 DEF Stands, runVars, noteVars
  <2>3. ASSUME NEW r \in GatewayRead(platform), platform' = r.then,
               UNCHANGED <<pc, guarded, checks, named, runVars, report, stage,
                           status, faults, noteVars>>
        PROVE  Stands
    BY <2>1, <2>3, ReadKeeps DEF Stands, Keeps, runVars, noteVars
  <2>4. ASSUME NEW r \in GatewayRead(platform), Raise(r.then)
        PROVE  \E code : Leaves(code)
    <3>1. DOMAIN r.then = DOMAIN platform /\ r.then.temp = platform.temp
      BY ReadKeeps DEF Keeps
    <3> QED BY <2>1, <2>4, <3>1, RaiseLeaves
  <2> QED BY <1>2, <2>2, <2>3, <2>4 DEF OutageRound
<1>3. CASE OutageOver
  <2>1. Running /\ Current.do = "outage"
    BY <1>3 DEF OutageOver
  <2>2. CASE Advance(platform) /\ UNCHANGED noteVars
    BY <2>1, <2>2 DEF Moves, Advance, runVars, noteVars, Quiets
  <2>3. CASE Raise(platform)
    BY <2>1, <2>3, RaiseLeaves
  <2> QED BY <1>3, <2>2, <2>3 DEF OutageOver
<1>4. CASE Publish
  <2>1. /\ Running /\ Current.do = "publish" /\ Leave(0) /\ platform' = platform
        /\ UNCHANGED <<suite, pc, named, missed, unseen, source>>
    BY <1>4 DEF Publish, runVars, noteVars
  <2>2. Leaves(0)
    BY <2>1 DEF Leaves
  <2> QED BY <2>2
<1>5. CASE Cleanup
  <2>1. /\ stage = "cleanup" /\ stage' = "over" /\ platform' = [platform EXCEPT !.temp = @ \ named]
        /\ UNCHANGED <<suite, pc, named, report, missed, unseen, source>>
    BY <1>5 DEF Cleanup, Over, runVars, noteVars
  <2> QED BY <2>1 DEF Ends
<1>6. CASE CleanupFails
  <2>1. /\ stage = "cleanup" /\ stage' = "over"
        /\ platform' = [platform EXCEPT !.temp = @ \ (named \ missed')]
        /\ UNCHANGED <<suite, pc, named, report, unseen, source>>
    BY <1>6 DEF CleanupFails, Over, runVars
  <2> QED BY <2>1 DEF Ends
<1>7. CASE HalfOpen
  <2>1. /\ platform' = Reset(platform, "HALF_OPEN")
        /\ UNCHANGED <<suite, pc, named, stage, report, missed, unseen, source>>
    BY <1>7 DEF HalfOpen, runVars, noteVars
  <2>2. platform'.list = platform.list
    BY <2>1 DEF Reset, PlatformKept
  <2> QED BY <2>1, <2>2, ResetKeeps DEF Stands, Keeps
<1>8. CASE \E s \in Core \cup {"postgres", "redis"} : Crash(s)
  <2>1. PICK s : /\ platform' = [platform EXCEPT !.up = @ \ {s}]
                 /\ UNCHANGED <<suite, pc, named, stage, report, missed, unseen, source>>
    BY <1>8 DEF Crash, runVars, noteVars
  <2>2. platform'.list = platform.list /\ platform'.temp = platform.temp
    BY <2>1 DEF PlatformKept
  <2> QED BY <2>1, <2>2 DEF Stands
<1>9. CASE Interrupted
  <2>1. Running
    BY <1>9 DEF Interrupted
  <2>2. CASE Raise(platform)
    BY <2>1, <2>2, RaiseLeaves
  <2>3. ASSUME NEW e \in Effect(platform, Current), Raise(e.then)
        PROVE  \E code : Leaves(code)
    <3>1. /\ DOMAIN e.then = DOMAIN platform
          /\ e.then.temp = IF Current.do = "run" THEN platform.temp \cup {Current.on} ELSE platform.temp
      BY EffectTemp
    <3>2. e.then.temp \subseteq platform.temp \cup (IF Current.do = "run" THEN {Current.on} ELSE {})
      BY <3>1
    <3> QED BY <2>1, <2>3, <3>1, <3>2, RaiseLeaves
  <2> QED BY <1>9, <2>2, <2>3 DEF Interrupted
<1>10. CASE UNCHANGED vars
  BY <1>10 DEF vars, runVars, noteVars, Stands
<1> QED BY <1>1, <1>2, <1>3, <1>4, <1>5, <1>6, <1>7, <1>8, <1>9, <1>10 DEF Next, Proceed, Finished

(* The place of a run: what ShapeOfScripts says of the step it is at.        *)
LEMMA AtRun ==
    ASSUME ProofTypeOK, Names, Running, Current.do = "run"
    PROVE  suite = "recovery" /\ Current.on \in named
<1>1. suite = "recovery" /\ NamedBefore(Script(suite), pc)
  BY ShapeOfScripts DEF ProofTypeOK, Running, Current
<1>2. pc \in Nat /\ DOMAIN Script(suite) \subseteq Nat \ {0}
  BY ShapeOfScripts DEF ProofTypeOK
<1>3. PICK m \in DOMAIN Script(suite) : m < pc /\ Did(m).do = "name" /\ Did(m).on = Current.on
  BY <1>1 DEF NamedBefore, Did, Current
<1>4. m \in 1..(pc - 1)
  BY <1>2, <1>3
<1> QED BY <1>1, <1>3, <1>4 DEF Names

(* ... and of the step that publishes.                                       *)
LEMMA AtPublish ==
    ASSUME ProofTypeOK, Overdue, Running, Current.do = "publish"
    PROVE  unseen = {}
<1> SUFFICES ASSUME NEW x \in unseen PROVE FALSE
  OBVIOUS
<1>1. PICK m \in 1..(pc - 1) : /\ Did(m).do \in {"stop", "restart"} /\ x \in Did(m).on
                               /\ \A k \in (m + 1)..(pc - 1) : ~SeenAt(k, x)
  BY DEF Overdue
<1>2. \E k \in (m + 1)..(pc - 1) : SeenAt(k, x)
  BY <1>1, ShapeOfScripts DEF ProofTypeOK, Running, Current, Did, SeenAt
<1> QED BY <1>1, <1>2

LEMMA StandsStoreInv ==
    ASSUME StoreInv, Stands
    PROVE  StoreInv'
<1>1. PlatformKept' /\ Overdue' /\ Names' /\ Temporaries' /\ AnswersComeFromTheirStore'
      /\ PassSawRecovery'
  BY DEF StoreInv, Stands, PlatformKept, Overdue, Names, Temporaries,
         AnswersComeFromTheirStore, Did, SeenAt, PassSawRecovery
<1>2. ListEmptied'
  BY DEF StoreInv, Stands, ListEmptied, Running, Current, Quiets
<1> QED BY <1>1, <1>2 DEF StoreInv

LEMMA EndsStoreInv ==
    ASSUME StoreInv, Ends
    PROVE  StoreInv'
<1>1. PlatformKept' /\ Overdue' /\ Names' /\ AnswersComeFromTheirStore'
      /\ PassSawRecovery'
  BY DEF StoreInv, Ends, PlatformKept, Overdue, Names, AnswersComeFromTheirStore, Did, SeenAt, PassSawRecovery
<1>2. Temporaries'
  BY DEF StoreInv, Ends, Temporaries
<1>3. ListEmptied'
  BY DEF Ends, ListEmptied, Running
<1> QED BY <1>1, <1>2, <1>3 DEF StoreInv

LEMMA LeavesStoreInv ==
    ASSUME ProofTypeOK, StoreInv, NEW code, Leaves(code)
    PROVE  StoreInv'
<1>1. PlatformKept' /\ Overdue' /\ Names' /\ AnswersComeFromTheirStore'
  BY DEF StoreInv, Leaves, PlatformKept, Overdue, Names, AnswersComeFromTheirStore, Did, SeenAt
<1>2. Temporaries'
  <2>1. Current.do = "run" => suite = "recovery" /\ Current.on \in named
    BY AtRun DEF Leaves, StoreInv
  <2>2. stage = "running" /\ suite' = suite /\ named' = named /\ missed' = missed
    BY DEF Leaves, Running
  <2>3. platform'.temp \subseteq named /\ missed = {} /\ (platform'.temp # {} => suite = "recovery")
    BY <2>1, <2>2 DEF Leaves, StoreInv, Temporaries
  <2> QED BY <2>2, <2>3 DEF Leaves, Leave, Over, Temporaries
<1>3. ListEmptied'
  BY DEF Leaves, Leave, Over, ListEmptied, Running
<1>4. PassSawRecovery'
  BY AtPublish DEF Leaves, StoreInv, PassSawRecovery
<1> QED BY <1>1, <1>2, <1>3, <1>4 DEF StoreInv

LEMMA MovesStoreInv ==
    ASSUME IInv, StoreInv, Moves
    PROVE  StoreInv'
<1>0. ProofTypeOK /\ report # "PASS"
  BY DEF IInv, Open, Moves, Running
<1>1. pc \in Nat \ {0} /\ suite \in Suites /\ pc \in DOMAIN Script(suite) /\ suite' = suite /\ pc' = pc + 1
  BY <1>0 DEF ProofTypeOK, Moves, Running
<1>2. PlatformKept'
  BY DEF Moves, StoreInv, PlatformKept
<1>3. Overdue'
  <2> SUFFICES ASSUME NEW x \in unseen'
               PROVE  \E m \in 1..(pc' - 1) :
                         /\ Did(m).do \in {"stop", "restart"} /\ x \in Did(m).on
                         /\ \A k \in (m + 1)..(pc' - 1) : ~SeenAt(k, x)
    BY <1>1 DEF Overdue, Did, SeenAt
  <2>1. CASE x \in unseen /\ ~SeenAt(pc, x)
    <3>1. PICK m \in 1..(pc - 1) : /\ Did(m).do \in {"stop", "restart"} /\ x \in Did(m).on
                                   /\ \A k \in (m + 1)..(pc - 1) : ~SeenAt(k, x)
      BY <2>1 DEF StoreInv, Overdue
    <3>2. m \in 1..(pc' - 1) /\ \A k \in (m + 1)..(pc' - 1) : k = pc \/ k \in (m + 1)..(pc - 1)
      BY <1>1
    <3> QED BY <2>1, <3>1, <3>2
  <2>2. CASE Current.do \in {"stop", "restart"} /\ x \in Current.on
    <3>1. pc \in 1..(pc' - 1) /\ (pc + 1)..(pc' - 1) = {}
      BY <1>1
    <3> QED BY <2>2, <3>1 DEF Did, Current
  <2> QED BY <2>1, <2>2 DEF Moves, Note, SeenAt, Did, Current
<1>4. Names'
  <2> SUFFICES ASSUME NEW k \in 1..(pc' - 1), Did(k).do = "name" PROVE Did(k).on \in named'
    BY <1>1 DEF Names, Did
  <2>1. CASE k = pc
    BY <2>1 DEF Moves, Current, Did
  <2>2. CASE k # pc
    <3>1. k \in 1..(pc - 1)
      BY <1>1, <2>2
    <3> QED BY <3>1 DEF Moves, StoreInv, Names
  <2> QED BY <2>1, <2>2
<1>5. Temporaries'
  <2>1. Current.do = "run" => suite = "recovery" /\ Current.on \in named
    BY <1>0, AtRun DEF Moves, StoreInv
  <2> QED BY <2>1 DEF Moves, StoreInv, Temporaries, Running
<1>6. ListEmptied'
  <2> SUFFICES ASSUME Emptied(Script(suite), pc + 1) PROVE platform'.list = Nothing
    BY <1>1 DEF ListEmptied
  <2>1. PICK m \in DOMAIN Script(suite) :
           /\ m < pc + 1 /\ Script(suite)[m].do \in {"flush", "listEmpty"}
           /\ \A k \in DOMAIN Script(suite) : m < k /\ k < pc + 1 => Script(suite)[k].do \in Quiets
    BY DEF Emptied
  <2>2. m \in Nat \ {0}
    BY <1>1, ShapeOfScripts
  <2>3. CASE m = pc
    BY <2>1, <2>3 DEF Moves, Current
  <2>4. CASE m # pc
    <3>1. m < pc
      BY <1>1, <2>1, <2>2, <2>4
    <3>2. Current.do \in Quiets
      BY <1>1, <2>1, <3>1 DEF Current
    <3>3. Emptied(Script(suite), pc)
      <4>1. \A k \in DOMAIN Script(suite) : k \in Nat \ {0}
        BY <1>1, ShapeOfScripts
      <4>2. \A k \in DOMAIN Script(suite) : k < pc => k < pc + 1
        BY <1>1, <4>1
      <4> QED BY <2>1, <3>1, <4>2 DEF Emptied
    <3>4. platform.list = Nothing
      BY <3>2, <3>3 DEF StoreInv, ListEmptied, Moves
    <3> QED BY <3>2, <3>4 DEF Moves
  <2> QED BY <2>3, <2>4
<1>7. AnswersComeFromTheirStore'
  <2> SUFFICES ASSUME NEW r \in source' \ source
               PROVE  /\ r.id = "cache.authoritative-read-recovers" => ~r.cached /\ r.from = "main"
                      /\ r.id = "recovery.restored-user-readable" => r.from = "copy"
    BY DEF StoreInv, AnswersComeFromTheirStore
  <2>1. /\ Current.do \in {"readUser", "readCopy"}
        /\ r.id = Current.id /\ r.cached = (platform.list # Nothing)
        /\ r.from = Answer(platform, IF Current.do = "readCopy" THEN "copy" ELSE "main").from
    BY DEF Moves, Note
  <2>2. Sourced(Script(suite), pc)
    BY <1>1, <2>1, ShapeOfScripts DEF Current
  <2>3. ASSUME r.id \in StoreChecks
        PROVE  platform.list = Nothing
    <3>1. Emptied(Script(suite), pc)
      BY <2>1, <2>2, <2>3 DEF Sourced, Current
    <3> QED BY <2>1, <3>1 DEF StoreInv, ListEmptied, Moves
  <2>4. ASSUME r.id = "cache.authoritative-read-recovers"
        PROVE  ~r.cached /\ r.from = "main"
    BY <2>1, <2>2, <2>3, <2>4 DEF Sourced, StoreChecks, Current, Answer
  <2>5. ASSUME r.id = "recovery.restored-user-readable"
        PROVE  r.from = "copy"
    BY <2>1, <2>2, <2>3, <2>5 DEF Sourced, StoreChecks, Current, Answer
  <2> QED BY <2>4, <2>5
<1>8. PassSawRecovery'
  BY <1>0 DEF Moves, PassSawRecovery
<1> QED BY <1>2, <1>3, <1>4, <1>5, <1>6, <1>7, <1>8 DEF StoreInv

LEMMA InvariantStoreInv == Spec => []StoreInv
<1>1. IInv /\ StoreInv /\ [Next]_vars => StoreInv'
  BY StoreKinds, StandsStoreInv, MovesStoreInv, LeavesStoreInv, EndsStoreInv DEF IInv, StoreInv
<1> QED BY <1>1, InitStoreInv, InvariantIInv, PTL DEF Spec

(* A PASS is not reported while a service the proof itself stopped or        *)
(* restarted has not been seen serving again.                                *)
THEOREM PassTheorem == Spec => []PassSawRecovery
<1>1. StoreInv => PassSawRecovery
  BY DEF StoreInv, PassSawRecovery
<1> QED BY InvariantStoreInv, <1>1, PTL

(* The user lists that prove a recovery come from their database, not Redis. *)
THEOREM AnswersTheorem == Spec => []AnswersComeFromTheirStore
<1>1. StoreInv => AnswersComeFromTheirStore
  BY DEF StoreInv
<1> QED BY InvariantStoreInv, <1>1, PTL

(* No container of docker compose run outlives data recovery, except one     *)
(* docker stop failed for.                                                   *)
THEOREM TemporaryTheorem == Spec => []NoTemporaryOutlives
<1>1. StoreInv => NoTemporaryOutlives
  BY DEF StoreInv, Temporaries, NoTemporaryOutlives
<1> QED BY InvariantStoreInv, <1>1, PTL
-----------------------------------------------------------------------------
(* The route the proofs read through, as GatewayCircuit has it.              *)
CONSTANT Request
VARIABLES up, breaker, window, permits, request, attempt, served, late, answer
Route == INSTANCE GatewayCircuit WITH pc <- request, status <- answer

LEMMA SameCardinality == \A S : Route!Cardinality(S) = Cardinality(S)
BY DEF Route!Cardinality, Cardinality, Route!IsFiniteSet, IsFiniteSet

(* The breaker of HostedPlatform is this one: what a read of a proof does to *)
(* its record is a Record of GatewayCircuit with no other call in between.   *)
THEOREM RecordedIsRecord ==
    ASSUME NEW F, NEW p, p = [f \in F |-> p[f]], {"breaker", "window"} \subseteq F,
           p.breaker = breaker, p.window = window, breaker \in {"CLOSED", "HALF_OPEN"},
           NEW result, Route!Record(result)
    PROVE  LET q == Recorded(p, result) IN q.breaker = breaker' /\ q.window = window'
<1>1. \A state : Reset(p, state).breaker = state /\ Reset(p, state).window = <<>>
  BY DEF Reset
<1>2. \A w : [p EXCEPT !.window = w].breaker = breaker /\ [p EXCEPT !.window = w].window = w
  OBVIOUS
<1>3. CASE breaker = "CLOSED"
  <2> DEFINE w == Latest(Append(window, result), WindowSize)
  <2>1. Recorded(p, result) = IF Len(w) >= MinimumCalls /\ TooMany(w) THEN Reset(p, "OPEN")
                              ELSE [p EXCEPT !.window = w]
    BY <1>3 DEF Recorded
  <2>2. IF Len(w) >= MinimumCalls /\ TooMany(w) THEN breaker' = "OPEN" /\ window' = <<>>
        ELSE window' = w /\ breaker' = breaker
    BY <1>3, SameCardinality DEF Route!Record, Route!RecordClosed, Route!Enter, Route!Latest, Latest,
                Route!TooMany, Route!Failures, TooMany
  <2> HIDE DEF w
  <2> QED  BY <1>1, <1>2, <2>1, <2>2
<1>4. CASE breaker = "HALF_OPEN"
  <2> DEFINE w == Append(window, result)
             state == IF TooMany(w) THEN "OPEN" ELSE "CLOSED"
  <2>1. Recorded(p, result) = IF Len(w) < Permitted THEN [p EXCEPT !.window = w]
                              ELSE Reset(p, state)
    BY <1>4 DEF Recorded
  <2>2. IF Len(w) < Permitted THEN window' = w /\ breaker' = breaker
        ELSE breaker' = state /\ window' = <<>>
    BY <1>4, SameCardinality
       DEF Route!Record, Route!RecordProbe, Route!Enter, Route!TooMany, Route!Failures, TooMany
  <2> HIDE DEF w, state
  <2> QED  BY <1>1, <1>2, <2>1, <2>2
<1> QED  BY <1>3, <1>4
=============================================================================
