---------------------------- MODULE MCScheduler ----------------------------
(* Instances of Scheduler for TLC: small fingerprint graphs and Run sets.  *)
EXTENDS Scheduler, TLC

CONSTANTS a, b, c, r1, r2, r3

\* b reads a.
ChainUpstream == (a :> {}) @@ (b :> {a})

\* b and c both read a.
ForkUpstream == (a :> {}) @@ (b :> {a}) @@ (c :> {a})

\* a and b are independent.
FlatUpstream == (a :> {}) @@ (b :> {})

RunSymmetry == Permutations(Run)

=============================================================================
