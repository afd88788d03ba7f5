------------------------- MODULE AuditTrail_proofs -------------------------
(* Theorems about the audit trail, for every set of listeners, events and    *)
(* malformed messages: whatever the broker repeats, the table records each   *)
(* event once, and no event is lost between the queue and the table.         *)
EXTENDS AuditTrail, TLAPS

(* What a listener knows about its message at each of its steps.             *)
Working(c) ==
    /\ pc[c] = "idle" => ~connected[c] /\ ~inserted[c]
    /\ pc[c] # "idle" => message[c] \in routed
    /\ pc[c] \in {"insert", "commit", "ack"} => message[c] \notin Malformed
    /\ inserted[c] => pc[c] = "commit" /\ recorded[message[c]] = 0
    /\ pc[c] = "commit" /\ ~inserted[c] => recorded[message[c]] = 1
    /\ pc[c] = "ack" => recorded[message[c]] = 1

(* The primary key: one open transaction at most has inserted an id.         *)
KeysApart ==
    \A c, d \in Consumer : inserted[c] /\ inserted[d] /\ message[c] = message[d] => c = d

IInv ==
    /\ AuditTypeOK
    /\ \A c \in Consumer : Working(c)
    /\ KeysApart
    /\ RecordedOnce
    /\ OnlySentIsRecorded
    /\ RoutedIsKept
-----------------------------------------------------------------------------
LEMMA RecordedNumber ==
    ASSUME IInv, NEW e \in EventId
    PROVE  recorded[e] = 0 \/ recorded[e] = 1
  BY DEF IInv, AuditTypeOK, RecordedOnce

LEMMA InitInv == Init => IInv
<1> SUFFICES ASSUME Init PROVE IInv
  OBVIOUS
<1>1. AuditTypeOK
  BY DEF Init, LogInit, AuditTypeOK
<1>2. \A c \in Consumer : Working(c)
  BY DEF Init, Working
<1>3. KeysApart /\ RecordedOnce /\ OnlySentIsRecorded /\ RoutedIsKept
  BY DEF Init, LogInit, KeysApart, RecordedOnce, OnlySentIsRecorded, RoutedIsKept
<1> QED  BY <1>1, <1>2, <1>3 DEF IInv

(* A rejected message is ready again or still counts as delivered elsewhere. *)
LEMMA RejectInv ==
    ASSUME IInv, NEW c \in Consumer, pc[c] # "idle", Reject(c)
    PROVE  IInv'
<1> USE MessageAssumption
<1>1. AuditTypeOK'
  BY DEF IInv, AuditTypeOK, Working, Reject, NoStoreChange
<1>2. \A d \in Consumer : Working(d)'
  BY DEF IInv, AuditTypeOK, Working, Reject, NoStoreChange
<1>3. KeysApart'
  BY DEF IInv, AuditTypeOK, KeysApart, Reject
<1>4. RecordedOnce' /\ OnlySentIsRecorded'
  BY DEF IInv, RecordedOnce, OnlySentIsRecorded, Reject, NoStoreChange
<1>5. RoutedIsKept'
  <2> SUFFICES ASSUME NEW e \in routed \ Malformed, recorded[e] = 0, e \notin queue'
               PROVE  e \in Unacked'
    BY DEF RoutedIsKept, Reject, NoStoreChange
  <2>1. e \in Unacked
    BY DEF IInv, RoutedIsKept, Reject
  <2>2. PICK d \in Consumer : connected[d] /\ message[d] = e
    BY <2>1 DEF Unacked
  <2>3. d # c
    BY <2>2 DEF Reject
  <2>4. connected'[d] /\ message'[d] = e
    BY <2>2, <2>3 DEF Reject, IInv, AuditTypeOK
  <2> QED  BY <2>4 DEF Unacked
<1> QED  BY <1>1, <1>2, <1>3, <1>4, <1>5 DEF IInv

(* A step that leaves queue, table and deliveries alone keeps every event.   *)
LEMMA KeptUnchanged ==
    ASSUME RoutedIsKept, UNCHANGED <<recorded, routed, queue, message, connected>>
    PROVE  RoutedIsKept'
  BY DEF RoutedIsKept, Unacked

LEMMA DeclareInv ==
    ASSUME IInv, Declare PROVE IInv'
<1>1. RoutedIsKept'
  BY KeptUnchanged DEF IInv, Declare, listenerVars
<1> QED
  BY <1>1 DEF IInv, AuditTypeOK, Working, KeysApart, RecordedOnce, OnlySentIsRecorded,
              Declare, listenerVars

LEMMA SendInv ==
    ASSUME IInv, NEW e \in EventId, Send(e) PROVE IInv'
<1>1. RoutedIsKept'
  BY DEF IInv, RoutedIsKept, Unacked, Send, listenerVars
<1> QED
  BY <1>1 DEF IInv, AuditTypeOK, Working, KeysApart, RecordedOnce, OnlySentIsRecorded,
              Send, listenerVars

LEMMA DeliverInv ==
    ASSUME IInv, NEW c \in Consumer, NEW e \in EventId, Deliver(c, e) PROVE IInv'
<1> USE MessageAssumption
<1>1. AuditTypeOK' /\ KeysApart' /\ RecordedOnce' /\ OnlySentIsRecorded'
  BY DEF IInv, AuditTypeOK, Working, KeysApart, RecordedOnce, OnlySentIsRecorded,
         Deliver, At, NoStoreChange
<1>2. \A d \in Consumer : Working(d)'
  BY DEF IInv, AuditTypeOK, Working, Deliver, At, NoStoreChange
<1>3. RoutedIsKept'
  <2> SUFFICES ASSUME NEW f \in routed \ Malformed, recorded[f] = 0, f \notin queue'
               PROVE  f \in Unacked'
    BY DEF RoutedIsKept, Deliver, NoStoreChange
  <2>1. CASE f = e
    <3>1. connected'[c] /\ message'[c] = e
      BY DEF Deliver, IInv, AuditTypeOK
    <3> QED  BY <2>1, <3>1 DEF Unacked
  <2>2. CASE f # e
    <3>1. f \in Unacked
      BY <2>2 DEF IInv, RoutedIsKept, Deliver
    <3>2. PICK d \in Consumer : connected[d] /\ message[d] = f
      BY <3>1 DEF Unacked
    <3>3. d # c
      BY <3>2 DEF IInv, Working, Deliver, At
    <3>4. connected'[d] /\ message'[d] = f
      BY <3>2, <3>3 DEF Deliver, IInv, AuditTypeOK
    <3> QED  BY <3>4 DEF Unacked
  <2> QED  BY <2>1, <2>2
<1> QED  BY <1>1, <1>2, <1>3 DEF IInv

LEMMA ParseInv ==
    ASSUME IInv, NEW c \in Consumer, Parse(c) PROVE IInv'
<1>1. CASE message[c] \in Malformed
  BY <1>1, RejectInv DEF Parse, At
<1>2. CASE message[c] \notin Malformed
  <2> USE <1>2
  <2>1. RoutedIsKept'
    BY KeptUnchanged DEF IInv, Parse, Step, NoStoreChange
  <2>2. \A d \in Consumer : Working(d)'
    BY DEF IInv, AuditTypeOK, Working, Parse, Step, At, NoStoreChange
  <2> QED
    BY <2>1, <2>2 DEF IInv, AuditTypeOK, KeysApart, RecordedOnce, OnlySentIsRecorded,
                      Parse, Step, At, NoStoreChange
<1> QED  BY <1>1, <1>2

LEMMA InsertInv ==
    ASSUME IInv, NEW c \in Consumer, Insert(c) PROVE IInv'
<1>1. RoutedIsKept'
  BY KeptUnchanged DEF IInv, Insert, NoStoreChange
<1>2. message[c] \in EventId
  BY DEF IInv, AuditTypeOK, Working, Insert, At
<1>3. recorded[message[c]] = 0 \/ recorded[message[c]] = 1
  BY <1>2, RecordedNumber
<1>4. ASSUME NEW d \in Consumer PROVE Working(d)'
  <2>1. CASE d = c
    <3>1. pc'[c] = "commit" /\ inserted'[c] = (recorded[message[c]] = 0)
      BY <1>3 DEF IInv, AuditTypeOK, Insert, Conflict
    <3> QED  BY <2>1, <3>1, <1>3 DEF IInv, Working, Insert, At, NoStoreChange
  <2>2. CASE d # c
    BY <2>2 DEF IInv, AuditTypeOK, Working, Insert, NoStoreChange
  <2> QED  BY <2>1, <2>2
<1>5. KeysApart'
  BY DEF IInv, AuditTypeOK, KeysApart, Insert, KeyLocked
<1> QED
  BY <1>1, <1>4, <1>5 DEF IInv, AuditTypeOK, RecordedOnce, OnlySentIsRecorded,
                          Insert, At, NoStoreChange

LEMMA CommitInv ==
    ASSUME IInv, NEW c \in Consumer, Commit(c) PROVE IInv'
<1> DEFINE e == message[c]
<1>1. /\ e \in EventId /\ e \in routed \ Malformed
      /\ recorded \in [EventId -> Nat] /\ recorded' \in [EventId -> Nat]
  BY DEF IInv, AuditTypeOK, Working, Commit, At
<1>2. \A f \in EventId : recorded'[f] = IF inserted[c] /\ f = e THEN 1 ELSE recorded[f]
  BY <1>1 DEF IInv, Working, Commit
<1>3. recorded'[e] = 1
  BY <1>1, <1>2 DEF IInv, Working, Commit, At
<1>4. AuditTypeOK' /\ KeysApart'
  BY <1>1 DEF IInv, AuditTypeOK, KeysApart, Commit
<1>5. RecordedOnce' /\ OnlySentIsRecorded'
  BY <1>1, <1>2 DEF IInv, RecordedOnce, OnlySentIsRecorded, Commit
<1>6. RoutedIsKept'
  BY <1>1, <1>2 DEF IInv, AuditTypeOK, RoutedIsKept, Unacked, Commit
<1>7. ASSUME NEW d \in Consumer PROVE Working(d)'
  <2>1. CASE d = c
    BY <2>1, <1>1, <1>3 DEF IInv, AuditTypeOK, Working, Commit, At
  <2>2. CASE d # c
    <3>1. pc'[d] = pc[d] /\ message'[d] = message[d] /\ inserted'[d] = inserted[d]
          /\ connected'[d] = connected[d]
      BY <2>2 DEF Commit, IInv, AuditTypeOK
    <3>2. pc[d] # "idle" => message[d] \in EventId
      BY DEF IInv, AuditTypeOK, Working
    <3>3. inserted[d] => recorded'[message[d]] = 0
      BY <2>2, <3>2, <1>2 DEF IInv, Working, KeysApart
    <3>4. pc[d] # "idle" /\ recorded[message[d]] = 1 => recorded'[message[d]] = 1
      BY <3>2, <1>2
    <3> QED  BY <3>1, <3>3, <3>4 DEF IInv, Working, Commit
  <2> QED  BY <2>1, <2>2
<1> QED  BY <1>4, <1>5, <1>6, <1>7 DEF IInv

LEMMA AckInv ==
    ASSUME IInv, NEW c \in Consumer, Ack(c) PROVE IInv'
<1> USE MessageAssumption
<1>1. \A d \in Consumer : Working(d)'
  BY DEF IInv, AuditTypeOK, Working, Ack, At, NoStoreChange
<1>2. RoutedIsKept'
  <2> SUFFICES ASSUME NEW e \in routed \ Malformed, recorded[e] = 0, e \notin queue
               PROVE  e \in Unacked'
    BY DEF RoutedIsKept, Ack, NoStoreChange
  <2>1. e \in Unacked
    BY DEF IInv, RoutedIsKept
  <2>2. PICK d \in Consumer : connected[d] /\ message[d] = e
    BY <2>1 DEF Unacked
  <2>3. d # c
    BY <2>2 DEF IInv, Working, Ack, At
  <2>4. connected'[d] /\ message'[d] = e
    BY <2>2, <2>3 DEF Ack, IInv, AuditTypeOK
  <2> QED  BY <2>4 DEF Unacked
<1> QED
  BY <1>1, <1>2 DEF IInv, AuditTypeOK, KeysApart, RecordedOnce, OnlySentIsRecorded,
                    Working, Ack, At, NoStoreChange

LEMMA DisconnectInv ==
    ASSUME IInv, NEW c \in Consumer, Disconnect(c) PROVE IInv'
<1> USE MessageAssumption
<1>1. message[c] \in routed
  BY DEF IInv, Working, Disconnect
<1>2. AuditTypeOK' /\ KeysApart' /\ RecordedOnce' /\ OnlySentIsRecorded'
  BY <1>1 DEF IInv, AuditTypeOK, KeysApart, RecordedOnce, OnlySentIsRecorded, Disconnect,
              NoStoreChange
<1>3. \A d \in Consumer : Working(d)'
  BY DEF IInv, AuditTypeOK, Working, Disconnect, NoStoreChange
<1>4. RoutedIsKept'
  <2> SUFFICES ASSUME NEW e \in routed \ Malformed, recorded[e] = 0, e \notin queue'
               PROVE  e \in Unacked'
    BY DEF RoutedIsKept, Disconnect, NoStoreChange
  <2>1. e \in Unacked
    BY DEF IInv, RoutedIsKept, Disconnect
  <2>2. PICK d \in Consumer : connected[d] /\ message[d] = e
    BY <2>1 DEF Unacked
  <2>3. d # c
    BY <2>2 DEF Disconnect
  <2>4. connected'[d] /\ message'[d] = e
    BY <2>2, <2>3 DEF Disconnect, IInv, AuditTypeOK
  <2> QED  BY <2>4 DEF Unacked
<1> QED  BY <1>2, <1>3, <1>4 DEF IInv

LEMMA NextInv == IInv /\ [Next]_vars => IInv'
<1> SUFFICES ASSUME IInv, [Next]_vars PROVE IInv'
  OBVIOUS
<1>1. CASE Declare
  BY <1>1, DeclareInv
<1>2. ASSUME NEW e \in EventId, Send(e) PROVE IInv'
  BY <1>2, SendInv
<1>3. ASSUME NEW c \in Consumer, NEW e \in EventId, Deliver(c, e) PROVE IInv'
  BY <1>3, DeliverInv
<1>4. ASSUME NEW c \in Consumer, Work(c) PROVE IInv'
  BY <1>4, ParseInv, InsertInv, CommitInv, AckInv DEF Work
<1>5. ASSUME NEW c \in Consumer, DatabaseFails(c) \/ Crash(c) PROVE IInv'
  BY <1>5, RejectInv DEF DatabaseFails, Crash
<1>6. ASSUME NEW c \in Consumer, Disconnect(c) PROVE IInv'
  BY <1>6, DisconnectInv
<1>7. CASE UNCHANGED vars
  BY <1>7 DEF IInv, AuditTypeOK, Working, KeysApart, RecordedOnce, OnlySentIsRecorded,
              RoutedIsKept, Unacked, vars, listenerVars
<1> QED
  BY <1>1, <1>2, <1>3, <1>4, <1>5, <1>6, <1>7 DEF Next

(* Table, queue and listeners stay consistent with each other.               *)
THEOREM Consistent == Spec => []IInv
  BY InitInv, NextInv, PTL DEF Spec

(* Every variable of AuditTrail keeps its type.                              *)
THEOREM AuditTyped == Spec => []AuditTypeOK
<1>1. IInv => AuditTypeOK  BY DEF IInv
<1> QED  BY <1>1, Consistent, PTL

(* saveIfAbsent: a redelivered event leaves one row, even when two listeners *)
(* work on it at once.                                                       *)
THEOREM OneRowPerEvent == Spec => []RecordedOnce
<1>1. IInv => RecordedOnce  BY DEF IInv
<1> QED  BY <1>1, Consistent, PTL

(* consume acknowledges after its commit: a well-formed event that reached   *)
(* the queue is ready, delivered and unacknowledged, or recorded.            *)
THEOREM NoEventLost == Spec => []RoutedIsKept
<1>1. IInv => RoutedIsKept  BY DEF IInv
<1> QED  BY <1>1, Consistent, PTL

(* consume stores nothing it could not read, nor anything nobody sent.       *)
THEOREM NothingInvented == Spec => []OnlySentIsRecorded
<1>1. IInv => OnlySentIsRecorded  BY DEF IInv
<1> QED  BY <1>1, Consistent, PTL

(* Queue, redelivery and transactions implement the log that records each    *)
(* event once: COMMIT of a transaction that has inserted is Record, every    *)
(* other step is a stutter.                                                  *)
THEOREM ImplementsLog == Spec => LogSpec
<1>1. Init => LogInit
  BY DEF Init
<1>2. IInv /\ [Next]_vars => [LogNext]_recorded
  <2> SUFFICES ASSUME IInv, [Next]_vars, recorded' # recorded PROVE LogNext
    OBVIOUS
  <2>1. PICK c \in Consumer : Commit(c) /\ inserted[c]
    BY DEF Next, Work, Declare, Send, Deliver, Parse, Step, Insert, Commit, Ack,
           DatabaseFails, Disconnect, Crash, Reject, NoStoreChange, vars
  <2>2. message[c] \in EventId /\ recorded[message[c]] = 0
    BY <2>1 DEF IInv, AuditTypeOK, Working
  <2>3. Record(message[c])
    BY <2>1, <2>2 DEF Record, Commit, IInv, AuditTypeOK
  <2> QED  BY <2>2, <2>3 DEF LogNext
<1> QED  BY <1>1, <1>2, Consistent, PTL DEF Spec, LogSpec
=============================================================================
