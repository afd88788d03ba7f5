------------------------- MODULE UserService_proofs -------------------------
(* Theorems about the writes of the user service, for every number of        *)
(* request threads, ids and e-mails: with either order of the advices, and   *)
(* with a failure at any step.                                               *)
EXTENDS UserService, FiniteSetTheorems, TLAPS

PCValue == {"idle", "lookup", "query", "put", "exists", "insert", "find", "publish", "flush",
            "commit", "evictList", "evictId", "reply"}
OpValue == {"none", "findAll", "findById", "create", "delete"}

RowsOK ==
    /\ users \subseteq created
    /\ created \subseteq drawn
    /\ drawn \subseteq Id
    /\ email \in [Id -> Email \cup {NoEmail}]
    /\ published \in Seq([type : EventType, user : Id])

RequestsOK ==
    /\ pc \in [Request -> PCValue]
    /\ op \in [Request -> OpValue]
    /\ target \in [Request -> Id \cup {NoId}]
    /\ address \in [Request -> Email \cup {NoEmail}]

(* A create whose row is inserted and not yet committed.                     *)
Inserted(r) == op[r] = "create" /\ pc[r] \in {"publish", "commit"} \cup EvictingInside
Removing(r) == op[r] = "delete" /\ pc[r] \in {"flush", "commit", "evictList", "evictId"}

Working(r) ==
    /\ pc[r] \in {"exists", "insert"} => op[r] = "create"
    /\ pc[r] \in {"find", "flush"} => op[r] = "delete"
    /\ pc[r] \in {"publish", "commit", "evictList", "evictId"} => op[r] \in {"create", "delete"}
    /\ op[r] = "delete" => target[r] \in created
    /\ Inserted(r) => target[r] \in drawn \ created /\ address[r] \notin Emails
    /\ Inserted(r) /\ pc[r] # "publish" => target[r] \in Announced("user.created")
    /\ Removing(r) => target[r] \in Announced("user.deleted")

(* The constraint holds between open transactions too.                       *)
Apart(q, r) ==
    q # r /\ Inserted(q) /\ Inserted(r) => target[q] # target[r] /\ address[q] # address[r]

IInv ==
    /\ RowsOK
    /\ RequestsOK
    /\ \A r \in Request : Working(r)
    /\ \A q, r \in Request : Apart(q, r)
    /\ EveryChangeIsAnnounced
    /\ EmailsAreUnique

rowVars == <<users, email, drawn, created, published, evictsFirst>>
-----------------------------------------------------------------------------
LEMMA InitIInv == Init => IInv
<1> SUFFICES ASSUME Init PROVE IInv
  OBVIOUS
<1>1. RowsOK /\ RequestsOK
  BY DEF Init, RowsOK, RequestsOK, PCValue, OpValue
<1>2. \A r \in Request : Working(r)
  BY DEF Init, Working, Inserted, Removing, EvictingInside
<1>3. \A q, r \in Request : Apart(q, r)
  BY DEF Init, Apart, Inserted
<1>4. EveryChangeIsAnnounced /\ EmailsAreUnique
  BY DEF Init, EveryChangeIsAnnounced, EmailsAreUnique
<1> QED  BY <1>1, <1>2, <1>3, <1>4 DEF IInv

(* A step of one request that leaves table and exchange alone and opens no   *)
(* transaction.                                                              *)
LEMMA Frame ==
    ASSUME IInv, NEW r \in Request, UNCHANGED rowVars,
           RequestsOK',
           \A q \in Request \ {r} : /\ pc'[q] = pc[q] /\ op'[q] = op[q]
                                    /\ target'[q] = target[q] /\ address'[q] = address[q],
           Working(r)',
           Inserted(r)' => Inserted(r) /\ target'[r] = target[r] /\ address'[r] = address[r]
    PROVE  IInv'
<1>1. RowsOK' /\ EveryChangeIsAnnounced' /\ EmailsAreUnique'
  BY DEF IInv, RowsOK, EveryChangeIsAnnounced, EmailsAreUnique, Announced, rowVars
<1>2. \A q \in Request \ {r} : Working(q)'
  BY DEF IInv, Working, Inserted, Removing, EvictingInside, Emails, Announced, rowVars
<1>3. \A q \in Request : Inserted(q)' => /\ Inserted(q) /\ target'[q] = target[q]
                                         /\ address'[q] = address[q]
  BY DEF Inserted, EvictingInside, rowVars
<1>4. \A p, q \in Request : Apart(p, q)'
  BY <1>3 DEF IInv, Apart
<1> QED  BY <1>1, <1>2, <1>4 DEF IInv

LEMMA StopIInv ==
    ASSUME IInv, NEW r \in Request, Stop(r), UNCHANGED rowVars
    PROVE  IInv'
<1>1. RequestsOK'
  BY DEF IInv, RequestsOK, Stop, PCValue, OpValue
<1>2. pc'[r] = "idle" /\ op'[r] = "none"
  BY DEF IInv, RequestsOK, Stop
<1>3. Working(r)' /\ ~Inserted(r)'
  BY <1>2 DEF Working, Inserted, Removing
<1>4. \A q \in Request \ {r} : /\ pc'[q] = pc[q] /\ op'[q] = op[q]
                               /\ target'[q] = target[q] /\ address'[q] = address[q]
  BY DEF IInv, RequestsOK, Stop
<1> QED  BY <1>1, <1>3, <1>4, Frame

LEMMA StepIInv ==
    ASSUME IInv, NEW r \in Request, NEW s \in PCValue, Step(r, s), UNCHANGED rowVars,
           Working(r)', Inserted(r)' => Inserted(r)
    PROVE  IInv'
<1>1. RequestsOK'
  BY DEF IInv, RequestsOK, Step, Goto
<1>2. \A q \in Request \ {r} : /\ pc'[q] = pc[q] /\ op'[q] = op[q]
                               /\ target'[q] = target[q] /\ address'[q] = address[q]
  BY DEF IInv, RequestsOK, Step, Goto
<1> QED  BY <1>1, <1>2, Frame DEF Step

LEMMA BeginIInv ==
    ASSUME IInv, NEW r \in Request,
           BeginFindAll(r) \/ BeginFindById(r) \/ BeginCreate(r) \/ BeginDelete(r)
    PROVE  IInv'
<1>1. PICK o \in OpValue, s \in {"lookup", "exists", "find"}, i \in Id \cup {NoId},
           e \in Email \cup {NoEmail} :
        /\ Begin(r, o, s, i, e)
        /\ s = "exists" => o = "create"
        /\ s = "find" => o = "delete"
        /\ o = "delete" => i \in created
  BY DEF BeginFindAll, BeginFindById, BeginCreate, BeginDelete, OpValue, IInv, RowsOK
<1>2. RequestsOK'
  BY <1>1 DEF IInv, RequestsOK, Begin, Goto, PCValue
<1>3. pc'[r] = s /\ op'[r] = o /\ target'[r] = i
  BY <1>1 DEF IInv, RequestsOK, Begin, Goto
<1>4. UNCHANGED rowVars
  BY <1>1 DEF Begin, NoStoreChange, tableVars, rowVars
<1>5. Working(r)' /\ ~Inserted(r)'
  BY <1>1, <1>3, <1>4 DEF Working, Inserted, Removing, EvictingInside, rowVars
<1>6. \A q \in Request \ {r} : /\ pc'[q] = pc[q] /\ op'[q] = op[q]
                               /\ target'[q] = target[q] /\ address'[q] = address[q]
  BY <1>1 DEF IInv, RequestsOK, Begin, Goto
<1> QED  BY <1>2, <1>4, <1>5, <1>6, Frame

(* Reads, the checks of a write and what follows its commit: only the        *)
(* request moves on.                                                         *)
LEMMA QuietIInv ==
    ASSUME IInv, NEW r \in Request,
           Lookup(r) \/ Query(r) \/ Put(r) \/ CheckEmail(r) \/ FindForDelete(r) \/ Flush(r)
             \/ EvictList(r) \/ EvictId(r) \/ Reply(r) \/ Fail(r)
    PROVE  IInv'
<1>1. UNCHANGED rowVars
  BY DEF Lookup, Query, Put, CheckEmail, FindForDelete, Flush, EvictList, EvictId, Reply, Fail,
         NoStoreChange, tableVars, rowVars
<1>2. CASE Stop(r)
  BY <1>1, <1>2, StopIInv
<1>3. ASSUME ~Stop(r), Lookup(r) \/ Query(r) \/ Put(r) \/ Fail(r) \/ Reply(r)
      PROVE  IInv'
  <2>1. /\ pc'[r] \in {"query", "put"} /\ RequestsOK'
        /\ UNCHANGED <<op, target, address>>
        /\ \A q \in Request \ {r} : pc'[q] = pc[q]
    BY <1>3 DEF Lookup, Query, Put, Fail, Reply, Step, Goto, IInv, RequestsOK, PCValue
  <2>2. Working(r)' /\ ~Inserted(r)'
    BY <1>1, <2>1 DEF IInv, Working, Inserted, Removing, EvictingInside, rowVars
  <2> QED  BY <1>1, <2>1, <2>2, Frame
<1>4. ASSUME ~Stop(r), CheckEmail(r) \/ FindForDelete(r)
      PROVE  IInv'
  <2>1. \/ pc[r] = "exists" /\ Step(r, "insert")
        \/ pc[r] = "find" /\ Step(r, "publish")
    BY <1>4 DEF CheckEmail, FindForDelete, At
  <2>2. /\ \/ pc[r] = "exists" /\ pc'[r] = "insert"
           \/ pc[r] = "find" /\ pc'[r] = "publish"
        /\ UNCHANGED <<op, target, address>>
    BY <2>1 DEF Step, Goto, IInv, RequestsOK
  <2>3. Working(r)' /\ ~Inserted(r)'
    BY <1>1, <2>2 DEF IInv, Working, Inserted, Removing, EvictingInside, rowVars
  <2> QED  BY <1>1, <2>1, <2>3, StepIInv DEF PCValue
<1>5. ASSUME ~Stop(r), Flush(r)
      PROVE  IInv'
  <2>1. pc[r] = "flush" /\ Step(r, "commit")
    BY <1>5 DEF Flush, At
  <2>2. pc'[r] = "commit" /\ UNCHANGED <<op, target, address>>
    BY <2>1 DEF Step, Goto, IInv, RequestsOK
  <2>3. Working(r)' /\ ~Inserted(r)'
    BY <1>1, <2>1, <2>2
       DEF IInv, Working, Inserted, Removing, EvictingInside, rowVars, Announced
  <2> QED  BY <1>1, <2>1, <2>3, StepIInv DEF PCValue
<1>6. ASSUME EvictList(r) \/ EvictId(r)
      PROVE  IInv'
  <2>1. \/ pc[r] = "evictList" /\ Step(r, "evictId")
        \/ pc[r] = "evictId" /\ Step(r, AfterEvict(r))
    BY <1>6 DEF EvictList, EvictId, At
  <2>2. PICK s \in PCValue :
          /\ Step(r, s)
          /\ pc[r] \in {"evictList", "evictId"}
          /\ s \in {"evictId", "reply"} \cup (IF evictsFirst THEN {EndOfTransaction(r)} ELSE {})
          /\ evictsFirst => s # "reply"
    BY <2>1 DEF AfterEvict, EndOfTransaction, PCValue
  <2>3. pc'[r] = s /\ UNCHANGED <<op, target, address>>
    BY <2>2 DEF Step, Goto, IInv, RequestsOK
  <2>4. op[r] \in {"create", "delete"}
    BY <2>2 DEF IInv, Working
  <2>5. Inserted(r)' => Inserted(r)
    BY <1>1, <2>2, <2>3, <2>4 DEF Inserted, EvictingInside, EndOfTransaction, rowVars
  <2>6. Working(r)'
    BY <1>1, <2>2, <2>3, <2>4, <2>5
       DEF IInv, Working, Inserted, Removing, EvictingInside, EndOfTransaction, rowVars,
           Announced, Emails
  <2> QED  BY <1>1, <2>2, <2>5, <2>6, StepIInv
<1> QED  BY <1>2, <1>3, <1>4, <1>5, <1>6

(* The INSERT: the unique constraint, seen by the committed rows and by the  *)
(* transactions still open.                                                  *)
LEMMA InsertIInv ==
    ASSUME IInv, NEW r \in Request, Insert(r)
    PROVE  IInv'
<1>1. PICK i \in Id \ drawn :
        /\ drawn' = drawn \cup {i}
        /\ IF EmailTaken(address[r]) THEN Stop(r)
           ELSE /\ Goto(r, "publish")
                /\ target' = [target EXCEPT ![r] = i]
                /\ UNCHANGED <<op, address, seen>>
  BY DEF Insert
<1>2. /\ pc[r] = "insert" /\ ~EmailLocked(r, address[r])
      /\ UNCHANGED <<users, email, published, created, evictsFirst>>
  BY DEF Insert, At
<1>3. op[r] = "create"
  BY <1>2 DEF IInv, Working
<1>4. RowsOK' /\ EveryChangeIsAnnounced' /\ EmailsAreUnique'
  BY <1>1, <1>2 DEF IInv, RowsOK, EveryChangeIsAnnounced, EmailsAreUnique, Announced
<1>5. CASE EmailTaken(address[r])
  <2>1. RequestsOK' /\ pc'[r] = "idle" /\ op'[r] = "none"
    BY <1>1, <1>5 DEF IInv, RequestsOK, Stop, PCValue, OpValue
  <2>2. \A q \in Request \ {r} : /\ pc'[q] = pc[q] /\ op'[q] = op[q]
                                 /\ target'[q] = target[q] /\ address'[q] = address[q]
    BY <1>1, <1>5 DEF IInv, RequestsOK, Stop
  <2>3. \A q \in Request : Working(q)'
    BY <1>1, <1>2, <2>1, <2>2
       DEF IInv, Working, Inserted, Removing, EvictingInside, Emails, Announced
  <2>4. \A p, q \in Request : Apart(p, q)'
    BY <1>2, <2>1, <2>2 DEF IInv, Apart, Inserted, EvictingInside
  <2> QED  BY <1>4, <2>1, <2>3, <2>4 DEF IInv
<1>6. CASE ~EmailTaken(address[r])
  <2>1. RequestsOK' /\ pc'[r] = "publish" /\ op'[r] = "create" /\ target'[r] = i
    BY <1>1, <1>3, <1>6 DEF IInv, RequestsOK, Goto, PCValue
  <2>2. /\ \A q \in Request \ {r} : /\ pc'[q] = pc[q] /\ op'[q] = op[q]
                                    /\ target'[q] = target[q]
        /\ address' = address
    BY <1>1, <1>6 DEF IInv, RequestsOK, Goto
  <2>3. Working(r)'
    BY <1>1, <1>2, <1>6, <2>1, <2>2
       DEF IInv, RowsOK, Working, Inserted, Removing, EvictingInside, Emails, EmailTaken
  <2>4. \A q \in Request \ {r} : Working(q)'
    BY <1>1, <1>2, <2>2
       DEF IInv, Working, Inserted, Removing, EvictingInside, Emails, Announced
  <2>5. \A q \in Request \ {r} : Inserted(q) =>
          target[q] # i /\ address[q] # address[r]
    BY <1>1, <1>2 DEF IInv, Working, Inserted, EvictingInside, EmailLocked, Open
  <2>6. \A p, q \in Request : Apart(p, q)'
    BY <1>2, <2>1, <2>2, <2>5 DEF IInv, Apart, Inserted, EvictingInside
  <2> QED  BY <1>4, <2>1, <2>3, <2>4, <2>6 DEF IInv
<1> QED  BY <1>5, <1>6

LEMMA AnnouncedGrows ==
    ASSUME published \in Seq([type : EventType, user : Id]),
           NEW t \in EventType, NEW i \in Id,
           published' = Append(published, Event(t, i)), NEW type
    PROVE  /\ Announced(type) \subseteq Announced(type)'
           /\ i \in Announced(t)'
<1>1. /\ DOMAIN published' = 1..(Len(published) + 1)
      /\ published'[Len(published) + 1] = Event(t, i)
      /\ \A k \in 1..Len(published) : published'[k] = published[k]
      /\ DOMAIN published = 1..Len(published) /\ Len(published) \in Nat
  BY DEF Event
<1>2. Announced(type) \subseteq Announced(type)'
  BY <1>1 DEF Announced
<1>3. i \in Announced(t)'
  BY <1>1 DEF Announced, Event
<1> QED  BY <1>2, <1>3

LEMMA PublishIInv ==
    ASSUME IInv, NEW r \in Request, Publish(r)
    PROVE  IInv'
<1>1. PICK t \in EventType :
        /\ pc[r] = "publish" /\ op[r] \in {"create", "delete"}
        /\ target[r] \in Id
        /\ t = IF op[r] = "create" THEN "user.created" ELSE "user.deleted"
        /\ published' = Append(published, Event(t, target[r]))
        /\ UNCHANGED <<users, email, drawn, created, evictsFirst>>
  BY DEF Publish, At, IInv, Working, Inserted, RowsOK, tableVars, EventType
<1>2. /\ \A type \in EventType : Announced(type) \subseteq Announced(type)'
      /\ target[r] \in Announced(t)'
  BY <1>1, AnnouncedGrows DEF IInv, RowsOK, EventType
<1>3. PICK s \in PCValue : /\ Step(r, s)
                           /\ s \in {"evictList", "flush", "commit"}
                           /\ s = AfterBody(r)
  BY DEF Publish, AfterBody, EndOfTransaction, PCValue
<1>4. /\ RequestsOK' /\ pc'[r] = s /\ UNCHANGED <<op, target, address>>
      /\ \A q \in Request \ {r} : pc'[q] = pc[q]
  BY <1>3 DEF Step, Goto, IInv, RequestsOK
<1>5. RowsOK'
  BY <1>1 DEF IInv, RowsOK, Event, EventType
<1>6. EveryChangeIsAnnounced' /\ EmailsAreUnique'
  BY <1>1, <1>2 DEF IInv, EveryChangeIsAnnounced, EmailsAreUnique, EventType
<1>7. Inserted(r)' => Inserted(r)
  BY <1>1, <1>4 DEF Inserted, EvictingInside
<1>8. Working(r)'
  <2>1. CASE op[r] = "create"
    BY <1>1, <1>2, <1>3, <1>4, <1>7, <2>1
       DEF IInv, Working, Inserted, Removing, EvictingInside, Emails, AfterBody, EndOfTransaction
  <2>2. CASE op[r] = "delete"
    BY <1>1, <1>2, <1>3, <1>4, <2>2 DEF IInv, Working, Inserted, Removing, AfterBody, EndOfTransaction
  <2> QED  BY <1>1, <2>1, <2>2
<1>9. \A q \in Request \ {r} : Working(q)'
  BY <1>1, <1>2, <1>4 DEF IInv, Working, Inserted, Removing, EvictingInside, Emails, EventType
<1>10. \A p, q \in Request : Apart(p, q)'
  BY <1>1, <1>4, <1>7 DEF IInv, Apart, Inserted, EvictingInside
<1> QED  BY <1>4, <1>5, <1>6, <1>8, <1>9, <1>10 DEF IInv

LEMMA CommitIInv ==
    ASSUME IInv, NEW r \in Request, Commit(r)
    PROVE  IInv'
<1>1. /\ pc[r] = "commit" /\ op[r] \in {"create", "delete"}
      /\ UNCHANGED <<drawn, published, evictsFirst>>
      /\ Step(r, AfterCommit)
  BY DEF Commit, At, IInv, Working
<1>2. /\ RequestsOK' /\ pc'[r] \in {"reply", "evictList"} /\ UNCHANGED <<op, target, address>>
      /\ evictsFirst => pc'[r] = "reply"
      /\ \A q \in Request \ {r} : pc'[q] = pc[q]
  BY <1>1 DEF Step, Goto, AfterCommit, IInv, RequestsOK, PCValue
<1>3. ~Inserted(r)'
  BY <1>1, <1>2 DEF Inserted, EvictingInside
<1>4. \A p, q \in Request : Apart(p, q)'
  BY <1>1, <1>2, <1>3 DEF IInv, Apart, Inserted, EvictingInside
<1>5. \A type : Announced(type)' = Announced(type)
  BY <1>1 DEF Announced
<1>6. CASE op[r] = "create"
  <2>1. /\ users' = users \cup {target[r]} /\ created' = created \cup {target[r]}
        /\ email' = [email EXCEPT ![target[r]] = address[r]]
    BY <1>6 DEF Commit
  <2>2. /\ Inserted(r) /\ target[r] \in drawn \ created /\ address[r] \notin Emails
        /\ target[r] \in Announced("user.created") /\ target[r] \in Id
    BY <1>1, <1>6 DEF IInv, Working, Inserted, RowsOK
  <2>3. RowsOK'
    BY <1>1, <2>1, <2>2 DEF IInv, RowsOK, RequestsOK
  <2>4. EveryChangeIsAnnounced'
    BY <1>5, <2>1, <2>2 DEF IInv, EveryChangeIsAnnounced
  <2>5. \A i \in users : i # target[r] /\ email'[i] = email[i] /\ email[i] # address[r]
    BY <2>1, <2>2 DEF IInv, RowsOK, Emails
  <2>6. email'[target[r]] = address[r]
    BY <2>1, <2>2 DEF IInv, RowsOK
  <2>7. EmailsAreUnique'
    BY <2>1, <2>5, <2>6 DEF IInv, EmailsAreUnique
  <2>8. Emails' = Emails \cup {address[r]}
    BY <2>1, <2>5, <2>6 DEF Emails
  <2>9. \A q \in Request \ {r} : Inserted(q) =>
          target[q] # target[r] /\ address[q] # address[r]
    BY <2>2 DEF IInv, Apart
  <2>10. \A q \in Request \ {r} : Working(q)'
    BY <1>1, <1>2, <1>5, <2>1, <2>8, <2>9
       DEF IInv, Working, Inserted, Removing, EvictingInside
  <2>11. Working(r)'
    BY <1>2, <1>3, <1>6 DEF Working, Removing
  <2> QED  BY <1>2, <1>4, <2>3, <2>4, <2>7, <2>10, <2>11 DEF IInv
<1>7. CASE op[r] = "delete"
  <2>1. users' = users \ {target[r]} /\ UNCHANGED <<created, email>>
    BY <1>7 DEF Commit
  <2>2. target[r] \in Announced("user.deleted")
    BY <1>1, <1>7 DEF IInv, Working, Removing
  <2>3. RowsOK' /\ EmailsAreUnique'
    BY <1>1, <2>1 DEF IInv, RowsOK, EmailsAreUnique
  <2>4. EveryChangeIsAnnounced'
    BY <1>5, <2>1, <2>2 DEF IInv, EveryChangeIsAnnounced
  <2>5. Emails' \subseteq Emails
    BY <2>1 DEF Emails
  <2>6. \A q \in Request \ {r} : Working(q)'
    BY <1>1, <1>2, <1>5, <2>1, <2>5 DEF IInv, Working, Inserted, Removing, EvictingInside
  <2>7. Working(r)'
    BY <1>2, <1>3, <1>5, <1>7, <2>1, <2>2 DEF IInv, Working, Removing
  <2> QED  BY <1>2, <1>4, <2>3, <2>4, <2>6, <2>7 DEF IInv
<1> QED  BY <1>1, <1>6, <1>7

LEMMA StillIInv ==
    ASSUME IInv, UNCHANGED <<rowVars, requestVars>>
    PROVE  IInv'
<1>1. RowsOK' /\ RequestsOK' /\ EveryChangeIsAnnounced' /\ EmailsAreUnique'
  BY DEF IInv, RowsOK, RequestsOK, EveryChangeIsAnnounced, EmailsAreUnique, Announced, rowVars,
         requestVars
<1>2. \A r \in Request : Working(r)'
  BY DEF IInv, Working, Inserted, Removing, EvictingInside, Emails, Announced, rowVars, requestVars
<1>3. \A q, r \in Request : Apart(q, r)'
  BY DEF IInv, Apart, Inserted, EvictingInside, rowVars, requestVars
<1> QED  BY <1>1, <1>2, <1>3 DEF IInv

LEMMA InvariantOfSpec == Spec => []IInv
<1>1. IInv /\ [Next]_vars => IInv'
  <2> SUFFICES ASSUME IInv, [Next]_vars PROVE IInv'
    OBVIOUS
  <2>1. CASE ExpireList \/ (\E i \in Id : ExpireId(i)) \/ UNCHANGED vars
    <3>1. UNCHANGED <<rowVars, requestVars>>
      BY <2>1 DEF ExpireList, ExpireId, vars, rowVars, tableVars, requestVars
    <3> QED  BY <3>1, StillIInv
  <2>2. ASSUME NEW r \in Request,
               \/ BeginFindAll(r) \/ BeginFindById(r) \/ BeginCreate(r) \/ BeginDelete(r)
               \/ Run(r) \/ Fail(r)
        PROVE  IInv'
    BY <2>2, BeginIInv, QuietIInv, InsertIInv, PublishIInv, CommitIInv DEF Run
  <2> QED  BY <2>1, <2>2 DEF Next
<1> QED  BY <1>1, InitIInv, PTL DEF Spec

(* Nothing is committed in silence: rows appear and disappear only after     *)
(* their event has reached the exchange.                                     *)
THEOREM Announcements == Spec => []EveryChangeIsAnnounced
<1>1. IInv => EveryChangeIsAnnounced
  BY DEF IInv
<1> QED  BY <1>1, InvariantOfSpec, PTL

(* The e-mails of the committed rows differ, though existsByEmail sees       *)
(* nothing of the transactions still open.                                   *)
THEOREM UniqueEmails == Spec => []EmailsAreUnique
<1>1. IInv => EmailsAreUnique
  BY DEF IInv
<1> QED  BY <1>1, InvariantOfSpec, PTL
-----------------------------------------------------------------------------
(* The caches: what a request has read, what it puts and what a cache holds  *)
(* are rows that were once committed, however late the put.                  *)
ReadsOK ==
    /\ seen \in [Request -> SUBSET created]
    /\ \A r \in Request : op[r] = "findById" => target[r] \in created
CachesOK ==
    /\ usersList = {} \/ \E snapshot \in SUBSET created : usersList = {snapshot}
    /\ userById \subseteq created
    /\ deleted \subseteq created
CInv == ReadsOK /\ CachesOK /\ evictsFirst \in BOOLEAN

LEMMA InitCInv == Init => CInv
BY DEF Init, CInv, ReadsOK, CachesOK

(* Rows are remembered for good.                                             *)
LEMMA CreatedGrows ==
    ASSUME IInv, [Next]_vars
    PROVE  created \subseteq created'
BY DEF Next, Run, BeginFindAll, BeginFindById, BeginCreate, BeginDelete, Begin, Lookup, Query, Put,
       CheckEmail, Insert, FindForDelete, Publish, Flush, Commit, EvictList, EvictId, Reply, Fail,
       ExpireList, ExpireId, NoStoreChange, vars

LEMMA StopReads ==
    ASSUME IInv, CInv, NEW r \in Request, Stop(r), created \subseteq created'
    PROVE  ReadsOK'
BY DEF Stop, ReadsOK, CInv, IInv, RequestsOK

LEMMA StepReads ==
    ASSUME CInv, UNCHANGED <<op, target, seen>>, created \subseteq created'
    PROVE  ReadsOK'
BY DEF ReadsOK, CInv

LEMMA NextReads ==
    ASSUME IInv, CInv, [Next]_vars
    PROVE  ReadsOK'
<1>1. created \subseteq created'
  BY CreatedGrows
<1>2. ASSUME NEW r \in Request,
             BeginFindAll(r) \/ BeginFindById(r) \/ BeginCreate(r) \/ BeginDelete(r)
      PROVE  ReadsOK'
  <2>1. PICK o \in OpValue, i \in Id \cup {NoId} :
          /\ op' = [op EXCEPT ![r] = o] /\ target' = [target EXCEPT ![r] = i]
          /\ o = "findById" => i \in created
          /\ UNCHANGED seen
    BY <1>2 DEF BeginFindAll, BeginFindById, BeginCreate, BeginDelete, Begin, OpValue, IInv, RowsOK
  <2> QED  BY <1>1, <2>1 DEF ReadsOK, CInv, IInv, RequestsOK
<1>3. ASSUME NEW r \in Request, Query(r)
      PROVE  ReadsOK'
  <2>1. CASE Stop(r)
    BY <1>1, <2>1, StopReads
  <2>2. CASE ~Stop(r)
    <3>1. PICK rows \in SUBSET created :
            seen' = [seen EXCEPT ![r] = rows] /\ UNCHANGED <<op, target>>
      BY <1>3, <2>2 DEF Query, IInv, RowsOK
    <3> QED  BY <1>1, <3>1 DEF ReadsOK, CInv
  <2> QED  BY <2>1, <2>2
<1>4. ASSUME NEW r \in Request, Insert(r)
      PROVE  ReadsOK'
  <2>1. CASE Stop(r)
    BY <1>1, <2>1, StopReads
  <2>2. CASE ~Stop(r)
    <3>1. op[r] = "create" /\ UNCHANGED <<op, seen>>
      BY <1>4, <2>2 DEF Insert, At, IInv, Working
    <3>2. \A q \in Request \ {r} : target'[q] = target[q]
      BY <1>4, <2>2 DEF Insert, IInv, RequestsOK
    <3> QED  BY <1>1, <3>1, <3>2 DEF ReadsOK, CInv
  <2> QED  BY <2>1, <2>2
<1>5. ASSUME NEW r \in Request,
             Lookup(r) \/ Put(r) \/ CheckEmail(r) \/ FindForDelete(r) \/ Publish(r) \/ Flush(r)
               \/ Commit(r) \/ EvictList(r) \/ EvictId(r) \/ Reply(r) \/ Fail(r)
      PROVE  ReadsOK'
  <2>1. Stop(r) \/ UNCHANGED <<op, target, seen>>
    BY <1>5 DEF Lookup, Put, CheckEmail, FindForDelete, Publish, Flush, Commit, EvictList, EvictId,
                Reply, Fail, Step
  <2> QED  BY <1>1, <2>1, StopReads, StepReads
<1>6. CASE ExpireList \/ (\E i \in Id : ExpireId(i)) \/ UNCHANGED vars
  <2>1. UNCHANGED <<op, target, seen>>
    BY <1>6 DEF ExpireList, ExpireId, vars, requestVars
  <2> QED  BY <1>1, <2>1, StepReads
<1> QED  BY <1>2, <1>3, <1>4, <1>5, <1>6 DEF Next, Run

LEMMA NextCaches ==
    ASSUME IInv, CInv, [Next]_vars
    PROVE  CachesOK'
<1>1. created \subseteq created'
  BY CreatedGrows
<1>2. ASSUME UNCHANGED <<cacheVars, deleted>>
      PROVE  CachesOK'
  BY <1>1, <1>2 DEF CInv, CachesOK, cacheVars
<1>3. ASSUME NEW r \in Request, Put(r)
      PROVE  CachesOK'
  <2>1. seen[r] \in SUBSET created /\ (op[r] = "findById" => target[r] \in created)
    BY DEF CInv, ReadsOK
  <2>2. /\ usersList' = IF op[r] = "findAll" THEN {seen[r]} ELSE usersList
        /\ userById' = IF op[r] = "findById" THEN userById \cup {target[r]} ELSE userById
        /\ UNCHANGED <<created, deleted>>
    BY <1>3 DEF Put
  <2> QED  BY <2>1, <2>2 DEF CInv, CachesOK
<1>4. ASSUME NEW r \in Request, EvictList(r) \/ EvictId(r)
      PROVE  CachesOK'
  BY <1>1, <1>4 DEF EvictList, EvictId, CInv, CachesOK
<1>5. ASSUME NEW r \in Request, Reply(r)
      PROVE  CachesOK'
  BY <1>1, <1>5 DEF Reply, IInv, Working, CInv, CachesOK, cacheVars
<1>6. ASSUME NEW r \in Request,
             \/ BeginFindAll(r) \/ BeginFindById(r) \/ BeginCreate(r) \/ BeginDelete(r)
             \/ Lookup(r) \/ Query(r) \/ CheckEmail(r) \/ Insert(r) \/ FindForDelete(r)
             \/ Publish(r) \/ Flush(r) \/ Commit(r) \/ Fail(r)
      PROVE  UNCHANGED <<cacheVars, deleted>>
  BY <1>6 DEF BeginFindAll, BeginFindById, BeginCreate, BeginDelete, Begin, Lookup, Query,
              CheckEmail, Insert, FindForDelete, Publish, Flush, Commit, Fail, NoStoreChange
<1>7. CASE ExpireList \/ \E i \in Id : ExpireId(i)
  BY <1>7 DEF ExpireList, ExpireId, CInv, CachesOK
<1>8. CASE UNCHANGED vars
  BY <1>2, <1>8 DEF vars
<1> QED  BY <1>2, <1>3, <1>4, <1>5, <1>6, <1>7, <1>8 DEF Next, Run

LEMMA AdviceOrderStays ==
    ASSUME [Next]_vars
    PROVE  UNCHANGED evictsFirst
BY DEF Next, Run, BeginFindAll, BeginFindById, BeginCreate, BeginDelete, Begin, Lookup, Query, Put,
       CheckEmail, Insert, FindForDelete, Publish, Flush, Commit, EvictList, EvictId, Reply, Fail,
       ExpireList, ExpireId, NoStoreChange, vars

LEMMA CInvOfSpec == Spec => []CInv
<1>1. IInv /\ CInv /\ [Next]_vars => CInv'
  <2> SUFFICES ASSUME IInv, CInv, [Next]_vars PROVE CInv'
    OBVIOUS
  <2>1. evictsFirst' \in BOOLEAN
    BY AdviceOrderStays DEF CInv
  <2> QED  BY <2>1, NextReads, NextCaches DEF CInv
<1> QED  BY <1>1, InitCInv, InvariantOfSpec, PTL DEF Spec

(* Every variable keeps its type: the caches hold rows that were committed   *)
(* once, the list at most one snapshot of them.                              *)
THEOREM UsersTyped == Spec => []UserTypeOK
<1>1. IInv /\ CInv => UserTypeOK
  <2> SUFFICES ASSUME IInv, CInv PROVE UserTypeOK
    OBVIOUS
  <2>1. /\ \A snapshot \in usersList : snapshot \subseteq created
        /\ Cardinality(usersList) <= 1
    <3>1. CASE usersList = {}
      BY <3>1, FS_EmptySet
    <3>2. ASSUME NEW snapshot \in SUBSET created, usersList = {snapshot}
          PROVE  Cardinality(usersList) = 1 /\ \A other \in usersList : other \subseteq created
      BY <3>2, FS_Singleton
    <3> QED  BY <3>1, <3>2 DEF CInv, CachesOK
  <2>2. seen \in [Request -> SUBSET Id]
    BY DEF IInv, RowsOK, CInv, ReadsOK
  <2>3. evictsFirst \in BOOLEAN
    BY DEF CInv
  <2> QED  BY <2>1, <2>2, <2>3 DEF IInv, RowsOK, RequestsOK, CInv, CachesOK, UserTypeOK, PCValue, OpValue
<1> QED  BY <1>1, InvariantOfSpec, CInvOfSpec, PTL
=============================================================================
