----------------------------- MODULE AuditLog ------------------------------
(* What the audit service promises about the events that reach its queue:    *)
(* each one is recorded once, whatever the broker repeats or reorders, and a *)
(* recorded event stays recorded.  AuditTrail.tla implements this.           *)
EXTENDS Naturals

CONSTANT EventId     \* event ids, the conflict boundary of the table

VARIABLE recorded    \* rows of audit_events per event id

LogInit == recorded = [e \in EventId |-> 0]

Record(e) == recorded[e] = 0 /\ recorded' = [recorded EXCEPT ![e] = 1]

LogNext == \E e \in EventId : Record(e)

LogSpec == LogInit /\ [][LogNext]_recorded
=============================================================================
