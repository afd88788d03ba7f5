---------------------------- MODULE UserService ----------------------------
(* The user service: cached reads, and writes that change a row, publish an  *)
(* event and evict the cache in one request (UserService, UserEventPublisher,*)
(* CacheConfig).  Three stores take part and nothing ties them together: the *)
(* table users in Postgres, the caches usersList and userById in Redis, and  *)
(* the exchange aetheris.events in RabbitMQ.  The event leaves before the    *)
(* transaction commits, and the cached value of a read is put long after the *)
(* row was read.                                                             *)
EXTENDS Integers, FiniteSets, Sequences

CONSTANTS Request,      \* request threads of the service
          Id, NoId,     \* values of the identity column of users
          Email, NoEmail,
          MaxEvents     \* bound: events published in a behaviour

ASSUME UserAssumption == NoId \notin Id /\ NoEmail \notin Email /\ MaxEvents \in Nat

VARIABLES users,        \* committed rows
          email,        \* e-mail of a row
          drawn,        \* ids the sequence has handed out
          usersList,    \* cache: {} or {the list last put}
          userById,     \* cache: ids with an entry
          published,    \* what the exchange has received, oldest first
          pc, op, target, address, seen,
          created,      \* history: rows ever committed
          deleted,      \* history: users whose deletion a client was told of
          evictsFirst   \* the cache advice runs inside the transaction

tableVars == <<users, email, drawn>>
cacheVars == <<usersList, userById>>
requestVars == <<pc, op, target, address, seen>>
vars == <<tableVars, cacheVars, requestVars, published, created, deleted, evictsFirst>>

Event(type, i) == [type |-> type, user |-> i]
EventType == {"user.created", "user.deleted"}

UserTypeOK ==
    /\ users \subseteq created
    /\ created \subseteq drawn
    /\ drawn \subseteq Id
    /\ email \in [Id -> Email \cup {NoEmail}]
    /\ \A snapshot \in usersList : snapshot \subseteq created
    /\ Cardinality(usersList) <= 1
    /\ userById \subseteq created
    /\ published \in Seq([type : EventType, user : Id])
    /\ pc \in [Request -> {"idle", "lookup", "query", "put", "exists", "insert", "find",
                           "publish", "flush", "commit", "evictList", "evictId",
                           "reply"}]
    /\ op \in [Request -> {"none", "findAll", "findById", "create", "delete"}]
    /\ target \in [Request -> Id \cup {NoId}]
    /\ address \in [Request -> Email \cup {NoEmail}]
    /\ seen \in [Request -> SUBSET Id]
    /\ deleted \subseteq created
    /\ evictsFirst \in BOOLEAN

(* Spring orders the two advices by bean order alone, both having the lowest *)
(* precedence: either may be the inner one, for the life of the process.     *)
Init ==
    /\ users = {} /\ created = {} /\ deleted = {} /\ drawn = {}
    /\ email = [i \in Id |-> NoEmail]
    /\ usersList = {}
    /\ userById = {}
    /\ published = <<>>
    /\ pc = [r \in Request |-> "idle"]
    /\ op = [r \in Request |-> "none"]
    /\ target = [r \in Request |-> NoId]
    /\ address = [r \in Request |-> NoEmail]
    /\ seen = [r \in Request |-> {}]
    /\ evictsFirst \in BOOLEAN
-----------------------------------------------------------------------------
At(r, s) == pc[r] = s
Goto(r, s) == pc' = [pc EXCEPT ![r] = s]

(* Rows written by transactions that are still open.                         *)
EvictingInside == IF evictsFirst THEN {"evictList", "evictId"} ELSE {}
Open(q) ==
    \/ op[q] = "create" /\ pc[q] \in {"publish", "commit"} \cup EvictingInside
    \/ op[q] = "delete" /\ pc[q] = "commit"
RowLocked(r, i) == \E q \in Request \ {r} : Open(q) /\ target[q] = i
EmailLocked(r, e) ==
    \E q \in Request \ {r} :
        Open(q) /\ e = (IF op[q] = "create" THEN address[q] ELSE email[target[q]])

Emails == {email[i] : i \in users}

(* Bounds: a write starts only while the sequence and MaxEvents leave room.  *)
Unpublished ==
    {q \in Request : op[q] \in {"create", "delete"}
                     /\ pc[q] \in {"exists", "insert", "find", "publish"}}
Undrawn == {q \in Request : op[q] = "create" /\ pc[q] \in {"exists", "insert"}}
EventRoom == Len(published) + Cardinality(Unpublished) < MaxEvents
IdRoom == Cardinality(drawn) + Cardinality(Undrawn) < Cardinality(Id)

Stop(r) ==
    /\ pc' = [pc EXCEPT ![r] = "idle"]
    /\ op' = [op EXCEPT ![r] = "none"]
    /\ target' = [target EXCEPT ![r] = NoId]
    /\ address' = [address EXCEPT ![r] = NoEmail]
    /\ seen' = [seen EXCEPT ![r] = {}]

NoStoreChange == UNCHANGED <<tableVars, cacheVars, published, created, deleted, evictsFirst>>
Step(r, s) == Goto(r, s) /\ UNCHANGED <<op, target, address, seen>>

Begin(r, o, s, i, e) ==
    /\ At(r, "idle")
    /\ Goto(r, s)
    /\ op' = [op EXCEPT ![r] = o]
    /\ target' = [target EXCEPT ![r] = i]
    /\ address' = [address EXCEPT ![r] = e]
    /\ UNCHANGED seen
    /\ NoStoreChange

(* UserController.  Ids come from earlier responses; e-mails are normalised. *)
BeginFindAll(r) == Begin(r, "findAll", "lookup", NoId, NoEmail)
BeginFindById(r) == \E i \in created : Begin(r, "findById", "lookup", i, NoEmail)
BeginCreate(r) ==
    EventRoom /\ IdRoom /\ \E e \in Email : Begin(r, "create", "exists", NoId, e)
BeginDelete(r) ==
    EventRoom /\ \E i \in created : Begin(r, "delete", "find", i, NoEmail)

(* @Cacheable: a hit is returned as it is, a miss goes to the repository.    *)
Cached(r) == IF op[r] = "findAll" THEN usersList # {} ELSE target[r] \in userById

Lookup(r) ==
    /\ At(r, "lookup")
    /\ IF Cached(r) THEN Stop(r) ELSE Step(r, "query")
    /\ NoStoreChange

(* repository.findAll, findById: the committed rows; an absent id is a 404,  *)
(* which nothing caches.                                                     *)
\* Mutant: the read sees rows that are not committed yet.
QueryUncommitted(r) ==
    /\ At(r, "query")
    /\ Goto(r, "put")
    /\ seen' = [seen EXCEPT ![r] = users \cup {target[q] : q \in {p \in Request : Open(p)}}]
    /\ UNCHANGED <<op, target, address>>
    /\ NoStoreChange

Query(r) ==
    /\ At(r, "query")
    /\ IF op[r] = "findById" /\ target[r] \notin users THEN Stop(r)
       ELSE /\ Goto(r, "put")
            /\ seen' = [seen EXCEPT ![r] = IF op[r] = "findAll" THEN users ELSE {}]
            /\ UNCHANGED <<op, target, address>>
    /\ NoStoreChange

(* The value is put in the cache and returned.                               *)
Put(r) ==
    /\ At(r, "put")
    /\ usersList' = IF op[r] = "findAll" THEN {seen[r]} ELSE usersList
    /\ userById' = IF op[r] = "findById" THEN userById \cup {target[r]} ELSE userById
    /\ Stop(r)
    /\ UNCHANGED <<tableVars, published, created, deleted, evictsFirst>>

(* create: existsByEmail, then save.  Its INSERT runs at once because the    *)
(* column is an identity; the unique constraint refuses the later of two.    *)
CheckEmail(r) ==
    /\ At(r, "exists")
    /\ IF address[r] \in Emails THEN Stop(r) ELSE Step(r, "insert")
    /\ NoStoreChange

\* Mutant: the column without its unique constraint.
EmailNeverTaken(e) == FALSE

EmailTaken(e) == e \in Emails

Insert(r) ==
    /\ At(r, "insert")
    /\ ~EmailLocked(r, address[r])
    /\ \E i \in Id \ drawn :
          /\ drawn' = drawn \cup {i}
          /\ IF EmailTaken(address[r]) THEN Stop(r)
             ELSE /\ Goto(r, "publish")
                  /\ target' = [target EXCEPT ![r] = i]
                  /\ UNCHANGED <<op, address, seen>>
    /\ UNCHANGED <<users, email, cacheVars, published, created, deleted, evictsFirst>>

(* delete: findById; repository.delete only marks the entity as removed.     *)
FindForDelete(r) ==
    /\ At(r, "find")
    /\ IF target[r] \notin users THEN Stop(r) ELSE Step(r, "publish")
    /\ NoStoreChange

(* What follows the method body, innermost advice first.                     *)
EndOfTransaction(r) == IF op[r] = "delete" THEN "flush" ELSE "commit"
AfterBody(r) == IF evictsFirst THEN "evictList" ELSE EndOfTransaction(r)
AfterCommit == IF evictsFirst THEN "reply" ELSE "evictList"
AfterEvict(r) == IF evictsFirst THEN EndOfTransaction(r) ELSE "reply"

(* UserEventPublisher: convertAndSend is not part of the transaction.        *)
\* Mutant: a failed send is caught and logged.
PublishBestEffort(r) ==
    /\ At(r, "publish")
    /\ \/ published' = Append(published,
             Event(IF op[r] = "create" THEN "user.created" ELSE "user.deleted", target[r]))
       \/ UNCHANGED published
    /\ Step(r, AfterBody(r))
    /\ UNCHANGED <<tableVars, cacheVars, created, deleted, evictsFirst>>

Publish(r) ==
    /\ At(r, "publish")
    /\ published' = Append(published,
          Event(IF op[r] = "create" THEN "user.created" ELSE "user.deleted", target[r]))
    /\ Step(r, AfterBody(r))
    /\ UNCHANGED <<tableVars, cacheVars, created, deleted, evictsFirst>>

(* The DELETE statement: it waits for another delete of the row, and fails   *)
(* on a row that is gone (Hibernate expects one row to be deleted).          *)
Flush(r) ==
    /\ At(r, "flush")
    /\ ~RowLocked(r, target[r])
    /\ IF target[r] \notin users THEN Stop(r) ELSE Step(r, "commit")
    /\ NoStoreChange

Commit(r) ==
    /\ At(r, "commit")
    /\ IF op[r] = "create"
       THEN /\ users' = users \cup {target[r]}
            /\ created' = created \cup {target[r]}
            /\ email' = [email EXCEPT ![target[r]] = address[r]]
       ELSE users' = users \ {target[r]} /\ UNCHANGED <<created, email>>
    /\ Step(r, AfterCommit)
    /\ UNCHANGED <<drawn, cacheVars, published, deleted, evictsFirst>>

(* @CacheEvict: usersList as a whole, then userById, all of it on a create   *)
(* and one key on a delete.                                                  *)
EvictList(r) ==
    /\ At(r, "evictList")
    /\ usersList' = {}
    /\ Step(r, "evictId")
    /\ UNCHANGED <<tableVars, userById, published, created, deleted, evictsFirst>>

EvictId(r) ==
    /\ At(r, "evictId")
    /\ userById' = IF op[r] = "create" THEN {} ELSE userById \ {target[r]}
    /\ Step(r, AfterEvict(r))
    /\ UNCHANGED <<tableVars, usersList, published, created, deleted, evictsFirst>>

Reply(r) ==
    /\ At(r, "reply")
    /\ deleted' = IF op[r] = "delete" THEN deleted \cup {target[r]} ELSE deleted
    /\ Stop(r)
    /\ UNCHANGED <<tableVars, cacheVars, published, created, evictsFirst>>

(* A statement, the COMMIT, Redis, RabbitMQ or the connection to the client  *)
(* fails, or the process dies (every request fails): an open transaction is  *)
(* rolled back, what Redis and RabbitMQ have received stays.                 *)
Fail(r) == ~At(r, "idle") /\ Stop(r) /\ NoStoreChange

(* The time to live of an entry, 60 seconds after its put.                   *)
ExpireList ==
    /\ usersList # {}
    /\ usersList' = {}
    /\ UNCHANGED <<tableVars, userById, requestVars, published, created, deleted, evictsFirst>>
\* Mutant: entries without a time to live.
KeepId(i) == i \in userById /\ FALSE

ExpireId(i) ==
    /\ i \in userById
    /\ userById' = userById \ {i}
    /\ UNCHANGED <<tableVars, usersList, requestVars, published, created, deleted, evictsFirst>>

Run(r) ==
    \/ Lookup(r) \/ Query(r) \/ Put(r)
    \/ CheckEmail(r) \/ Insert(r) \/ FindForDelete(r) \/ Publish(r) \/ Flush(r)
    \/ Commit(r) \/ EvictList(r) \/ EvictId(r) \/ Reply(r)

Next ==
    \/ \E r \in Request :
          \/ BeginFindAll(r) \/ BeginFindById(r) \/ BeginCreate(r) \/ BeginDelete(r)
          \/ Run(r) \/ Fail(r)
    \/ ExpireList
    \/ \E i \in Id : ExpireId(i)

Spec == Init /\ [][Next]_vars

(* Threads keep running, Postgres serves the waiters of a row in turn, Redis *)
(* drops what has outlived its time to live.                                 *)
Fairness ==
    /\ \A r \in Request : WF_vars(Run(r)) /\ SF_vars(Insert(r)) /\ SF_vars(Flush(r))
    /\ WF_vars(ExpireList)
    /\ \A i \in Id : WF_vars(ExpireId(i))
FairSpec == Spec /\ Fairness
-----------------------------------------------------------------------------
Announced(type) == {published[k].user : k \in {n \in DOMAIN published : published[n].type = type}}

(* Nothing happens to the table in silence: a row is committed, or removed,  *)
(* only after its event has been handed to the exchange.                     *)
EveryChangeIsAnnounced ==
    /\ created \subseteq Announced("user.created")
    /\ created \ users \subseteq Announced("user.deleted")

(* Two creates of one e-mail race between existsByEmail and the INSERT: two  *)
(* committed rows never share it.                                            *)
EmailsAreUnique == \A i, j \in users : email[i] = email[j] => i = j

(* A stale cache heals: a deleted user, whatever reads were under way, is    *)
(* served for some time at most, and a new user is missing from the list     *)
(* for some time at most.                                                    *)
Served(i) == i \in userById \/ \E snapshot \in usersList : i \in snapshot
Missing(i) == \E snapshot \in usersList : i \notin snapshot
CachesConverge ==
    \A i \in Id :
        /\ i \in created \ users ~> [](~Served(i))
        /\ i \in users ~> [](i \in users => ~Missing(i))

(* Once a client has been told that a user is deleted, findById of that id   *)
(* goes to the table, as UserServiceCacheTest expects of delete.             *)
DeleteEvictsIdentity == \A i \in deleted : i \notin userById

(* A user announced as deleted is deleted, once nobody is working on it: the *)
(* deletion is published after the repository has been changed.              *)
AnnouncedDeletionHappened ==
    (\A r \in Request : At(r, "idle")) => Announced("user.deleted") \cap users = {}
=============================================================================
