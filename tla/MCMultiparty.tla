---------------------------- MODULE MCMultiparty -----------------------------
(***************************************************************************)
(* The instance of Multiparty that TLC checks: two parties, two moduli.    *)
(***************************************************************************)
EXTENDS Multiparty

CONSTANTS p1, p2

MCModuli == << 79, 83 >>

MCMask == {-1, 1}

(* Errors of one sign add up to the most noise. *)
MCNoiseRow == {<< 1, 1 >>}

(* Any repeated or missing share changes the sum of the keys.              *)
MCSecret == {[p \in {p1, p2} |-> IF p = p1 THEN 1 ELSE -2]}

(* One polynomial at each level, and another at level 0 to mix it with.    *)
MCCrp == {[level |-> 0, a |-> 1234], [level |-> 0, a |-> 77], [level |-> 1, a |-> 35]}

MCCrpVector == {<< 1234, 3001 >>, << 5 >>}

(* -a * key + e and a, at the two levels.                                  *)
MCRecipient ==
    {[c |-> << (1 - 2222) % 6557, 2222 >>, level |-> 0, key |-> 1],
     [c |-> << (40 + 1) % 79, 40 >>, level |-> 1, key |-> -1]}

(* The moduli are large enough to decrypt what the parties encrypt.        *)
ASSUME MCWithinBudget == WithinBudget

MCOutSecret == [p \in {p1, p2} |-> IF p = p1 THEN 2 ELSE 1]

MCThirdPart == {9}
=============================================================================
