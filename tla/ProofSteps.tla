----------------------------- MODULE ProofSteps -----------------------------
(* The vocabulary of the scripts: a proof tool's main() is a sequence of     *)
(* steps; a step [do, on, want, id] does `do` to `on`, asserts `want` and,   *)
(* when id is not empty, then records the check id.  The effect of a step on *)
(* a platform is a set of outcomes [ok, then]: ok is whether its assertion   *)
(* holds, then is the platform after it.                                     *)
EXTENDS Integers, Sequences

Step(do, on, want, id) == [do |-> do, on |-> on, want |-> want, id |-> id]
Do(do, on) == Step(do, on, 0, "")
Proves(do, on, id) == Step(do, on, 0, id)
Notes(id) == Proves("note", "", id)        \* passed() with nothing asserted since
Health(s, id) == Proves("health", s, id)

Outcome(b, p) == [ok |-> b, then |-> p]
Sees(b, p) == {Outcome(b, p)}
=============================================================================
