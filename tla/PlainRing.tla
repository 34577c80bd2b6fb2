------------------------------ MODULE PlainRing ------------------------------
(***************************************************************************)
(* The plaintext ring Z_T[X]/(X^N + 1), N = 2^LogN, as the rotations and   *)
(* the expansion of a ciphertext act on the plaintext inside it, and the   *)
(* two ways of reading a plaintext: its coefficients, and its slots, the   *)
(* values at the powers of Zeta, arranged in two rows.                     *)
(***************************************************************************)
EXTENDS Integers, Functions

CONSTANTS LogN,    \* log2 of the degree
          T,       \* the plaintext modulus
          Zeta     \* a primitive 2N-th root of unity modulo T

N == 2 ^ LogN

ASSUME RingAssumption ==
    /\ LogN \in Nat /\ N >= 8
    /\ T \in Nat /\ T >= 2
    /\ Zeta \in 0 .. T - 1

RowSize == N \div 2

Index  == 0 .. N - 1
Value  == 0 .. T - 1
Poly   == [Index -> Value]
Slot   == (0 .. 1) \X (0 .. RowSize - 1)
Vector == [Slot -> Value]

Plus(p, q)  == [k \in Index |-> (p[k] + q[k]) % T]
Minus(p, q) == [k \in Index |-> (p[k] - q[k]) % T]

(* c as the coefficient of X^e: X^N = -1.                                  *)
Signed(e, c) == IF (e \div N) % 2 = 0 THEN c ELSE -c

Times(p, q) ==
    [k \in Index |->
        SumFunction([j \in Index |-> Signed(j + ((k - j) % N), p[j] * q[(k - j) % N])]) % T]

(* X becomes X^e, for an odd e.                                            *)
Substitute(p, e) ==
    [k \in Index |->
        SumFunction([j \in {i \in Index : (i * e) % N = k} |-> Signed(j * e, p[j])]) % T]

(* The l-th monomial of the expansion, -X^(N - 2^l).                       *)
Monomial(l) == [k \in Index |-> IF k = N - 2 ^ l THEN T - 1 ELSE 0]

(* Powers of the generator 3 of the column rotations, modulo 2N.           *)
Power3[i \in Nat] == IF i = 0 THEN 1 ELSE (3 * Power3[i - 1]) % (2 * N)

(* The power of Zeta at which a slot is the value of the polynomial.       *)
SlotExponent(s) == IF s[1] = 0 THEN Power3[s[2]] ELSE 2 * N - Power3[s[2]]

ZetaPower[i \in Nat] == IF i = 0 THEN 1 ELSE (Zeta * ZetaPower[i - 1]) % T

(* Zeta is primitive.                                                      *)
ASSUME ZetaAssumption == ZetaPower[N] = T - 1

Slots(p) ==
    [s \in Slot |->
        SumFunction([k \in Index |-> p[k] * ZetaPower[(k * SlotExponent(s)) % (2 * N)]]) % T]
=============================================================================
