---------------------------- MODULE MCArithmetic ----------------------------
(***************************************************************************)
(* Words of seven bits, so that moduli have five and every double word can *)
(* be tried; the bit pools with their real widths.                         *)
(***************************************************************************)
EXTENDS Arithmetic

MCPrimes == {2, 3, 4, 5, 15, 17, 23, 24, 27, 29, 31, 32}

(* The largest words, and a unit. *)
MCCoefficients == {<< 127, 126, 125, 124, 123, 122, 121, 120 >>, << 0, 1, 0, 0, 0, 0, 0, 0 >>}

MCFactors == {<< 16, 0, 3, 0, 0, 0, 0, 9 >>}

MCVectors == {<< 1, 2, 3, 4, 5, 6, 7, 8 >>, << 16, 0, 5 >>, << >>}

MCOthers == {<< 3, 1, 4, 1, 5, 9, 2, 6 >>}

Scaler(from, to, num, den) == [from |-> from, to |-> to, num |-> num, den |-> den]

(* Extension, conversion, switching up and down, and t / Q as in the       *)
(* product of ciphertexts; the last is no quotient of the moduli, and the  *)
(* third is refused (15 and 9 share a factor).                             *)
MCScalers ==
    {Scaler(<< 29, 31 >>, << 29, 31, 23, 25 >>, 1, 1), Scaler(<< 29, 31 >>, << 23, 25, 27 >>, 1, 1),
     Scaler(<< 15, 9 >>, << 31 >>, 1, 1), Scaler(<< 29, 31 >>, << 29 >>, 29, 899),
     Scaler(<< 13, 11, 7 >>, << 13, 11 >>, 3, 143), Scaler(<< 13, 11, 7 >>, << 31 >>, 5, 16)}

MCChain == << 17, 11, 7 >>

MCIntegers64 == {-64, -63, -1, 0, 1, 63}

MCNumbers == {1, 654, 1308}

MCDotModuli == << 31, 13, 31 >>

(* The largest products of residues, and some that leave no rest. *)
MCFactors2 ==
    {[x |-> << 30, 12, 30 >>, y |-> << 30, 12, 30 >>], [x |-> << 30, 12, 1 >>, y |-> << 29, 12, 0 >>]}

MCSwitchModuli == << 31, 29, 23 >>

MCSecrets == {[s |-> 1, sub |-> -1], [s |-> -2, sub |-> 1]}

MCErrors == {<< 1, 1, 1 >>, << -1, 1, -1 >>}

(* Reduced at each level. *)
MCExpand ==
    [seed \in 1 .. 2 |-> [level \in 0 .. 2 |->
        [i \in 1 .. 3 |-> (7919 * seed + 104 * i * i) % (<< 20677, 899, 31 >>)[level + 1]]]]

(* Every residue of the last level, some of the others.                    *)
MCInputs ==
    [level \in 0 .. 2 |->
        {<< x \div 2, (3 * x + 1) % (<< 20677, 899, 31 >>)[level + 1], x >> :
            x \in IF level = 0 THEN {0, 1, 899, 10338, 10339, 20676}
                 ELSE IF level = 1 THEN {29 * k : k \in 0 .. 30} \cup {31 * k - 1 : k \in 1 .. 29}
                 ELSE 0 .. 30}]
=============================================================================
