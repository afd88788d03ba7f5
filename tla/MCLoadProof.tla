----------------------------- MODULE MCLoadProof -----------------------------
(* A TLC instance of LoadProof: two principals with two tokens each take the *)
(* burst, two the sustained profile, and one the probe.                      *)
EXTENDS LoadProof

MCRequests == [burst |-> 4, sustained |-> 3, probe |-> 4]
MCWorkers == [burst |-> 3, sustained |-> 2, probe |-> 3]
MCPrincipals == [burst |-> 2, sustained |-> 2, probe |-> 1]
=============================================================================
