--------------------------- MODULE MCEvaluationKeys --------------------------
(***************************************************************************)
(* The instance of EvaluationKeys that TLC checks: degree 8, modulo 17.    *)
(***************************************************************************)
EXTENDS EvaluationKeys

CONSTANT MinSize

(* One plaintext with no symmetry: every slot and coefficient differs.     *)
MCInputs == {[k \in Index |-> (k * k + 3 * k + 5) % T]}

(* One more than the degree: a size no key supports.                       *)
MCSizes == MinSize .. N + 1
=============================================================================
