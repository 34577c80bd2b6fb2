--------------------------- MODULE MCCiphertextOps --------------------------
(***************************************************************************)
(* Instances of CiphertextOps: three handles, two of them on the same      *)
(* parameters, the third on parameters whose whole chain is the end of     *)
(* the chain of the others.                                                *)
(***************************************************************************)
EXTENDS CiphertextOps, TLC

CONSTANTS p1, p2, p3, q0, q1, q2, large, small, s1, s2, r1, r2

MCParams == {p1, p2, p3}

MCValue == (p1 :> large) @@ (p2 :> large) @@ (p3 :> small)

MCModuli == (p1 :> << q0, q1, q2 >>) @@ (p2 :> << q0, q1, q2 >>) @@ (p3 :> << q0, q1 >>)

MCSeeds == {s1, s2}

MCRegs == {r1, r2}

(* Registers, seeds and the two handles on the same parameters are         *)
(* interchangeable.                                                        *)
Symmetry == Permutations(MCRegs) \cup Permutations(MCSeeds) \cup Permutations({p1, p2})

=============================================================================
