----------------------------- MODULE MCTrustState -----------------------------
(* Instances of TrustState for TLC.                                        *)
EXTENDS TrustState, TLC

CONSTANTS p1, p2, p3, k1, k2

Pol(g, on, off) == [gen |-> g, active |-> on, revoked |-> off]

First  == Pol(1, {k1}, {})
Second == Pol(2, {k2}, {k1})

(* Two successors of one generation, one of which revokes the first key, a *)
(* later policy after each, and a foreign policy that knows one key only.  *)
MCHeld == { First, Second, Pol(2, {k1, k2}, {}), Pol(3, {k1}, {k2}),
            Pol(3, {k2}, {k1}), Pol(3, {k1, k2}, {}), Pol(3, {}, {k1, k2}) }

MCSymmetry == Permutations(Procs)
=============================================================================
