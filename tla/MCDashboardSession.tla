------------------------ MODULE MCDashboardSession -------------------------
(* TLC instances of DashboardSession.                                        *)
EXTENDS DashboardSession, TLC

(* Calls and tokens are interchangeable.                                     *)
Symmetry == Permutations(Call) \cup Permutations(Token)
=============================================================================
