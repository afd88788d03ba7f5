----------------------------- MODULE AuditTrail ----------------------------
(* The audit service and the broker it listens to (AuditEventStore,          *)
(* AuditEventRepository, RabbitAuditConfig).  The exchange drops what no     *)
(* queue is bound for; the durable queue keeps a message until a listener    *)
(* acknowledges it, and gives it out again when the listener rejects it or   *)
(* its connection breaks.  The listener acknowledges after its transaction,  *)
(* so a message may be handled twice, even by two threads at once: the one   *)
(* that lost its connection is not stopped.                                  *)
EXTENDS Integers, FiniteSets, AuditLog

CONSTANTS Consumer,    \* listener threads, over all instances of the service
          Malformed,   \* ids of messages that consume cannot turn into an event
          NoMessage

ASSUME MessageAssumption == Malformed \subseteq EventId /\ NoMessage \notin EventId

VARIABLES sent,        \* messages the exchange has received
          routed,      \* those of them that went to the queue
          bound,       \* queue and binding are declared
          queue,       \* ready messages
          pc,          \* what each listener is doing
          message,     \* the message it works on
          connected,   \* the broker still counts the message as delivered to it
          inserted     \* its open transaction has inserted the row

listenerVars == <<pc, message, connected, inserted>>
vars == <<recorded, sent, routed, bound, queue, listenerVars>>

AuditTypeOK ==
    /\ recorded \in [EventId -> Nat]
    /\ routed \subseteq sent
    /\ sent \subseteq EventId
    /\ bound \in BOOLEAN
    /\ queue \subseteq routed
    /\ pc \in [Consumer -> {"idle", "parse", "insert", "commit", "ack"}]
    /\ message \in [Consumer -> EventId \cup {NoMessage}]
    /\ connected \in [Consumer -> BOOLEAN]
    /\ inserted \in [Consumer -> BOOLEAN]

Init ==
    /\ LogInit
    /\ sent = {} /\ routed = {} /\ queue = {}
    /\ bound = FALSE
    /\ pc = [c \in Consumer |-> "idle"]
    /\ message = [c \in Consumer |-> NoMessage]
    /\ connected = [c \in Consumer |-> FALSE]
    /\ inserted = [c \in Consumer |-> FALSE]
-----------------------------------------------------------------------------
At(c, s) == pc[c] = s
Step(c, s) == pc' = [pc EXCEPT ![c] = s] /\ UNCHANGED <<message, connected, inserted>>
NoStoreChange == UNCHANGED <<recorded, sent, routed, bound>>

Unacked == {message[c] : c \in {d \in Consumer : connected[d]}}

(* The service declares queue and binding when it starts; both are durable.  *)
Declare ==
    /\ ~bound
    /\ bound' = TRUE
    /\ UNCHANGED <<recorded, sent, routed, queue, listenerVars>>

(* UserEventPublisher.publish: every message has an id of its own.           *)
Send(e) ==
    /\ e \notin sent
    /\ sent' = sent \cup {e}
    /\ routed' = IF bound THEN routed \cup {e} ELSE routed
    /\ queue' = IF bound THEN queue \cup {e} ELSE queue
    /\ UNCHANGED <<recorded, bound, listenerVars>>

(* The listener gets a ready message.  What it has prefetched and not begun  *)
(* still counts as ready: the broker takes it back like the rest.            *)
Deliver(c, e) ==
    /\ At(c, "idle")
    /\ e \in queue
    /\ queue' = queue \ {e}
    /\ pc' = [pc EXCEPT ![c] = "parse"]
    /\ message' = [message EXCEPT ![c] = e]
    /\ connected' = [connected EXCEPT ![c] = TRUE]
    /\ UNCHANGED inserted
    /\ NoStoreChange

(* The listener ends without an acknowledgement: rollback, and the broker    *)
(* takes the message back unless it has done so already.                     *)
Reject(c) ==
    /\ queue' = IF connected[c] THEN queue \cup {message[c]} ELSE queue
    /\ pc' = [pc EXCEPT ![c] = "idle"]
    /\ message' = [message EXCEPT ![c] = NoMessage]
    /\ connected' = [connected EXCEPT ![c] = FALSE]
    /\ inserted' = [inserted EXCEPT ![c] = FALSE]
    /\ NoStoreChange

(* consume: Instant.parse and Long.valueOf throw on a malformed message, and *)
(* the container requeues what a listener throws on.                         *)
Parse(c) ==
    /\ At(c, "parse")
    /\ IF message[c] \in Malformed THEN Reject(c)
       ELSE Step(c, "insert") /\ UNCHANGED queue /\ NoStoreChange

(* saveIfAbsent: INSERT ... ON CONFLICT (event_id) DO NOTHING, which waits   *)
(* for an open transaction that has inserted the same id.                    *)
KeyLocked(c) ==
    \E d \in Consumer \ {c} : inserted[d] /\ message[d] = message[c]

\* Mutant: INSERT without ON CONFLICT on a table without its primary key.
NoConflict(e) == FALSE

Conflict(e) == recorded[e] > 0

Insert(c) ==
    /\ At(c, "insert")
    /\ ~KeyLocked(c)
    /\ inserted' = [inserted EXCEPT ![c] = ~Conflict(message[c])]
    /\ pc' = [pc EXCEPT ![c] = "commit"]
    /\ UNCHANGED <<message, connected, queue>>
    /\ NoStoreChange

\* Mutant: the row is never flushed.
CommitNothing(c) ==
    /\ At(c, "commit")
    /\ inserted' = [inserted EXCEPT ![c] = FALSE]
    /\ pc' = [pc EXCEPT ![c] = "ack"]
    /\ UNCHANGED <<recorded, message, connected, queue, sent, routed, bound>>

Commit(c) ==
    /\ At(c, "commit")
    /\ recorded' = IF inserted[c] THEN [recorded EXCEPT ![message[c]] = @ + 1] ELSE recorded
    /\ inserted' = [inserted EXCEPT ![c] = FALSE]
    /\ pc' = [pc EXCEPT ![c] = "ack"]
    /\ UNCHANGED <<message, connected, queue, sent, routed, bound>>

(* The acknowledgement of a broken connection reaches nobody.                *)
Ack(c) ==
    /\ At(c, "ack")
    /\ pc' = [pc EXCEPT ![c] = "idle"]
    /\ message' = [message EXCEPT ![c] = NoMessage]
    /\ connected' = [connected EXCEPT ![c] = FALSE]
    /\ UNCHANGED <<inserted, queue>>
    /\ NoStoreChange

(* INSERT or COMMIT fails: the exception leaves consume.                     *)
DatabaseFails(c) == pc[c] \in {"insert", "commit"} /\ Reject(c)

(* The broker loses the connection and requeues; the thread carries on.      *)
Disconnect(c) ==
    /\ connected[c]
    /\ connected' = [connected EXCEPT ![c] = FALSE]
    /\ queue' = queue \cup {message[c]}
    /\ UNCHANGED <<pc, message, inserted>>
    /\ NoStoreChange

(* The process of a listener dies, in whatever it is doing.                  *)
Crash(c) == pc[c] # "idle" /\ Reject(c)

Work(c) == Parse(c) \/ Insert(c) \/ Commit(c) \/ Ack(c)

Next ==
    \/ Declare
    \/ \E e \in EventId : Send(e)
    \/ \E c \in Consumer :
          \/ \E e \in EventId : Deliver(c, e)
          \/ Work(c) \/ DatabaseFails(c) \/ Disconnect(c) \/ Crash(c)

Spec == Init /\ [][Next]_vars

(* Threads keep running.  The queue is first in, first out, so every ready   *)
(* message is handed out in the end, though a poisonous one keeps coming     *)
(* back.  Failures pass: they do not hit the same step of the same message   *)
(* on each of infinitely many attempts.                                      *)
Attempt(e, A(_)) == \E c \in Consumer : message[c] = e /\ A(c)

Fairness ==
    /\ \A c \in Consumer : WF_vars(Work(c))
    /\ \A e \in EventId :
          /\ SF_vars(\E c \in Consumer : Deliver(c, e))
          /\ SF_vars(Attempt(e, Parse))
          /\ SF_vars(Attempt(e, Insert))
          /\ SF_vars(Attempt(e, Commit))
FairSpec == Spec /\ Fairness
-----------------------------------------------------------------------------
(* An event is recorded once, however often its message is delivered.        *)
RecordedOnce == \A e \in EventId : recorded[e] <= 1

(* Between the queue and the table no well-formed event gets lost: until it  *)
(* is recorded, the broker has it ready or counts it as delivered.           *)
RoutedIsKept ==
    \A e \in routed \ Malformed : recorded[e] = 0 => e \in queue \cup Unacked

(* The trail holds what was sent and nothing that could not be read.         *)
OnlySentIsRecorded == \A e \in EventId : recorded[e] > 0 => e \in routed \ Malformed

(* Every well-formed event that reached the queue is recorded in the end, in *)
(* spite of poisonous messages, broken connections and failing transactions. *)
RoutedIsRecorded == \A e \in EventId \ Malformed : e \in routed ~> recorded[e] = 1
=============================================================================
