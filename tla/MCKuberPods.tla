----------------------------- MODULE MCKuberPods -----------------------------
(***************************************************************************)
(* Instances of KuberPods for TLC.                                         *)
(***************************************************************************)
EXTENDS KuberPods

CONSTANTS c1, c2, u1, u2, n1, n2

\* Two calls for different users compete for the placeholders.
DifferentUsers == [c \in {c1, c2} |-> IF c = c1 THEN u1 ELSE u2]

\* Bound: at most one of the users gets a job of its own.
OneOwnJob == Cardinality({u \in Users : jobRv[u] > 0}) <= 1

\* With room for one placeholder only, how many a call found is of no account.
WithoutFew ==
    <<kubeVars, faults, pc, listed, claimed, seenRv, result, spawn, boot>>

=============================================================================
