-------------------------- MODULE Multiparty_proof --------------------------
(***************************************************************************)
(* Proofs about the multiparty protocols, for any number of parties, any   *)
(* moduli and any shares.  Two numbers are Near when they differ by a      *)
(* small error modulo q; sums, multiples and reductions of near numbers    *)
(* are near, and that carries over from shares to what is made of them.    *)
(* The second half follows the noise of keys and ciphertexts to where they *)
(* are decrypted, which gives back the message if the moduli leave room.   *)
(***************************************************************************)
EXTENDS Multiparty, NumberLemmas

-----------------------------------------------------------------------------
(* Arithmetic. *)

(* A multiple of an error is at most that multiple of its bound.           *)
LEMMA ScaledError ==
    ASSUME NEW c \in Int, NEW e \in Int, NEW b \in Int, -b <= e, e <= b
    PROVE  -(Abs(c) * b) <= c * e /\ c * e <= Abs(c) * b
<1>1. b - e >= 0 /\ b + e >= 0
  OBVIOUS
<1>2. CASE c >= 0
  <2>1. c * (b - e) >= 0 /\ c * (b + e) >= 0
    BY <1>1, <1>2
  <2>2. c * (b - e) = c * b - c * e /\ c * (b + e) = c * b + c * e
    OBVIOUS
  <2>3. Abs(c) = c
    BY <1>2 DEF Abs
  <2> QED
    BY <2>1, <2>2, <2>3
<1>3. CASE c < 0
  <2>1. (-c) * (b - e) >= 0 /\ (-c) * (b + e) >= 0
    BY <1>1, <1>3
  <2>2. (-c) * (b - e) = (-c) * b + c * e /\ (-c) * (b + e) = (-c) * b - c * e
    OBVIOUS
  <2>3. Abs(c) = -c
    BY <1>3 DEF Abs
  <2> QED
    BY <2>1, <2>2, <2>3
<1> QED
  BY <1>2, <1>3

LEMMA NearScale ==
    ASSUME NEW x \in Int, NEW y \in Int, NEW b \in Int, NEW c \in Int, NEW q \in Nat \ {0},
           Near(x, y, b, q)
    PROVE  Near(c * x, c * y, Abs(c) * b, q)
<1>1. PICK e \in Int, k \in Int : -b <= e /\ e <= b /\ x = y + e + k * q
  BY DEF Near
<1>2. c * (y + e + k * q) = c * y + c * e + (c * k) * q
  OBVIOUS
<1>3. c * x = c * y + c * e + (c * k) * q
  BY <1>1, <1>2
<1>4. -(Abs(c) * b) <= c * e /\ c * e <= Abs(c) * b
  BY <1>1, ScaledError
<1>5. c * e \in Int /\ c * k \in Int
  OBVIOUS
<1> QED
  BY <1>3, <1>4, <1>5 DEF Near

(* The representative taken is the one of least absolute value.            *)
LEMMA NearCentered ==
    ASSUME NEW x \in Int, NEW b \in Int, NEW q \in Nat \ {0}, Near(x, 0, b, q)
    PROVE  Abs(Centered(x, q)) <= b
<1>1. PICK e \in Int, k \in Int : -b <= e /\ e <= b /\ x = 0 + e + k * q
  BY DEF Near
<1> DEFINE r == x % q
           d == x \div q
<1>2. r \in Int /\ d \in Int /\ 0 <= r /\ r < q /\ x = d * q + r
  BY Remainder
<1>3. Centered(x, q) = IF 2 * r >= q THEN r - q ELSE r
  BY DEF Centered
<1> HIDE DEF r, d
<1> DEFINE j == k - d
<1>4. j \in Int /\ j * q = k * q - d * q
  BY <1>2
<1> HIDE DEF j
<1>5. r = e + j * q
  BY <1>1, <1>2, <1>4
<1>6. CASE j <= 0
  <2>1. (-j) * q >= 0 /\ (-j) * q = -(j * q)
    BY <1>4, <1>6
  <2>2. j * q <= 0 /\ j * q \in Int
    BY <2>1, <1>4
  <2>3. r <= b
    BY <1>1, <1>2, <1>5, <2>2
  <2> QED
    BY <1>2, <1>3, <2>3 DEF Abs
<1>7. CASE j >= 1
  <2>1. (j - 1) * q >= 0 /\ (j - 1) * q = j * q - q
    BY <1>4, <1>7
  <2>2. j * q >= q /\ j * q \in Int
    BY <2>1, <1>4
  <2>3. r >= q - b
    BY <1>1, <1>2, <1>5, <2>2
  <2> QED
    BY <1>2, <1>3, <2>3 DEF Abs
<1> QED
  BY <1>4, <1>6, <1>7

-----------------------------------------------------------------------------
(* What shares are, and what is made of them.                              *)

Rows == [Row -> Int]

PkShare(s) ==
    /\ s.on \in Crp /\ s.key \in Int
    /\ s.noise \in Int /\ Abs(s.noise) <= NoiseBound
    /\ 1 \in DOMAIN s.h0 /\ s.h0[1] \in Int
    /\ Near(s.h0[1], -(s.on.a * s.key) + s.noise, 0, Q(s.on.level))

(* Rows h0 and h1 of a first round on a, for a key and a mask.             *)
Round1Near(h0, h1, a, key, mask, b) ==
    \A i \in Row : /\ Near(h0[i], -(a[i] * mask) + Garner[i] * key, b, Q(0))
                   /\ Near(h1[i], a[i] * key, b, Q(0))

(* Rows h0 and h1 of a second round against an aggregate r of the first.   *)
Round2Near(h0, h1, r, key, mask, b) ==
    \A i \in Row : /\ Near(h0[i], r.h0[i] * key, b, Q(0))
                   /\ Near(h1[i], r.h1[i] * (mask - key), b, Q(0))

RowsOk(x) == x.h0 \in Rows /\ x.h1 \in Rows /\ x.key \in Int /\ x.mask \in Int

R1Share(s) ==
    RowsOk(s) /\ s.on \in Rows /\ Round1Near(s.h0, s.h1, s.on, s.key, s.mask, NoiseBound)

(* An aggregate of the first round. *)
RoundOk(r) ==
    /\ r.h0 \in Rows /\ r.h1 \in Rows
    /\ r.of.key \in Int /\ r.of.mask \in Int /\ r.of.count \in Nat
    /\ r.of.same => \E a \in Rows :
          Round1Near(r.h0, r.h1, a, r.of.key, r.of.mask, r.of.count * NoiseBound)

R2Share(s) ==
    RowsOk(s) /\ RoundOk(s.on) /\ Round2Near(s.h0, s.h1, s.on, s.key, s.mask, NoiseBound)

ShareInv(s) ==
    /\ s.kind = "pk" => PkShare(s)
    /\ s.kind = "r1" => R1Share(s)
    /\ s.kind = "r2" => R2Share(s)

PkFold(x) ==
    /\ PkShare(x.first) /\ x.key \in Int /\ x.noise \in Int /\ x.count \in Nat
    /\ Abs(x.noise) <= x.count * NoiseBound
    /\ 1 \in DOMAIN x.h0 /\ x.h0[1] \in Int
    /\ x.same => Near(x.h0[1], -(x.first.on.a * x.key) + x.noise, 0, Q(x.first.on.level))

R1Fold(x) ==
    /\ RowsOk(x) /\ R1Share(x.first) /\ x.count \in Nat
    /\ x.same => Round1Near(x.h0, x.h1, x.first.on, x.key, x.mask, x.count * NoiseBound)

R2Fold(x) ==
    /\ RowsOk(x) /\ R2Share(x.first) /\ x.count \in Nat
    /\ x.same => Round2Near(x.h0, x.h1, x.first.on, x.key, x.mask, x.count * NoiseBound)

FoldInv(x) ==
    /\ x.first.kind = "pk" => PkFold(x)
    /\ x.first.kind = "r1" => R1Fold(x)
    /\ x.first.kind = "r2" => R2Fold(x)

(* Secrets and masks are numbers; generators hold a vector with a row for  *)
(* each modulus.                                                           *)
PartyInv ==
    /\ sk \in [Party -> Int]
    /\ \A p \in Party : gen[p] # None => gen[p].u \in Int /\ gen[p].crp \in Rows

BoardInv == \A s \in board : ShareInv(s)

AccInv == acc # None => FoldInv(acc)

RoundsInv == \A r \in r1 : RoundOk(r)

IInv == PartyInv /\ BoardInv /\ AccInv /\ RoundsInv /\ CollectiveKey /\ CollectiveRelinKey

-----------------------------------------------------------------------------
(* The shares that are published are as their kind says.                   *)

LEMMA ConstantTypes ==
    /\ \A l \in Levels : Q(l) \in Nat \ {0}
    /\ 0 \in Levels
    /\ \A c \in Crp : c.a \in Int /\ c.level \in Levels
    /\ \A v \in CrpVector : Len(v) = Len(Moduli) => v \in Rows
    /\ \A e \in Noise : e \in Int /\ -NoiseBound <= e /\ e <= NoiseBound /\ Abs(e) <= NoiseBound
    /\ \A e \in NoiseRow : \A i \in Row : e[i] \in Int /\ -NoiseBound <= e[i] /\ e[i] <= NoiseBound
    /\ \A u \in Mask : u \in Int
    /\ \A i \in Row : Garner[i] \in Int
    /\ NoiseBound \in Nat
<1>1. Len(Moduli) \in Nat /\ Len(Moduli) >= 1 /\ NoiseBound \in Nat
  BY MultipartyAssumption
<1>2. 0 \in Levels
  BY <1>1 DEF Levels
<1>3. \A v \in CrpVector : Len(v) = Len(Moduli) => v \in Rows
  BY MultipartyAssumption DEF Rows, Row
<1>4. \A e \in Noise : e \in Int /\ -NoiseBound <= e /\ e <= NoiseBound /\ Abs(e) <= NoiseBound
  BY MultipartyAssumption DEF Abs
<1>5. \A e \in NoiseRow : \A i \in Row : e[i] \in Noise
  BY NoiseRowAssumption
<1> QED
  BY <1>1, <1>2, <1>3, <1>4, <1>5, MultipartyAssumption, GarnerAssumption

LEMMA PublicKeyShareOk ==
    ASSUME PartyInv, NEW p \in Party, NEW c \in Crp, NEW e \in Noise
    PROVE  ShareInv(PublicKeyShare(p, c, e))
<1> DEFINE s == PublicKeyShare(p, c, e)
           q == Q(c.level)
           y == -(c.a * sk[p]) + e
<1>1. c.a \in Int /\ q \in Nat \ {0} /\ sk[p] \in Int /\ e \in Int /\ Abs(e) <= NoiseBound
  BY ConstantTypes DEF PartyInv
<1>2. y \in Int /\ -c.a * sk[p] + e = y
  BY <1>1
<1>3. s.kind = "pk" /\ s.on = c /\ s.key = sk[p] /\ s.noise = e /\ s.h0 = << (-c.a * sk[p] + e) % q >>
  BY DEF PublicKeyShare, Share
<1>4. 1 \in DOMAIN s.h0 /\ s.h0[1] = y % q
  BY <1>2, <1>3
<1> HIDE DEF s, q, y
<1>5. Near(y, y, 0, q)
  <2>1. y = y + 0 + 0 * q /\ -0 <= 0
    BY <1>1, <1>2
  <2> QED
    BY <2>1 DEF Near
<1>6. Near(y % q, y, 0, q) /\ y % q \in Int
  BY <1>1, <1>2, <1>5, NearMod, Remainder
<1>7. PkShare(s)
  BY <1>1, <1>3, <1>4, <1>6 DEF PkShare, q, y
<1> QED
  BY <1>3, <1>7 DEF ShareInv, s

(* A row of a share: a number and an error, reduced.                       *)
LEMMA NoisyRow ==
    ASSUME NEW y \in Int, NEW e \in Int, -NoiseBound <= e, e <= NoiseBound
    PROVE  (y + e) % Q(0) \in Int /\ Near((y + e) % Q(0), y, NoiseBound, Q(0))
<1>1. Q(0) \in Nat \ {0} /\ NoiseBound \in Int
  BY ConstantTypes
<1>2. Near(y + e, y, NoiseBound, Q(0)) /\ y + e \in Int
  BY <1>1, NearSame
<1> QED
  BY <1>1, <1>2, NearMod, Remainder

LEMMA Round1Ok ==
    ASSUME PartyInv, NEW p \in Party, gen[p] # None, NEW e0 \in NoiseRow, NEW e1 \in NoiseRow
    PROVE  ShareInv(RelinRound1(p, e0, e1))
<1> DEFINE s == RelinRound1(p, e0, e1)
           a == gen[p].crp
           u == gen[p].u
           k == sk[p]
<1>1. a \in Rows /\ u \in Int /\ k \in Int
  BY DEF PartyInv
<1>2. /\ s.kind = "r1" /\ s.on = a /\ s.key = k /\ s.mask = u
      /\ s.h0 = [i \in Row |-> (-a[i] * u + Garner[i] * k + e0[i]) % Q(0)]
      /\ s.h1 = [i \in Row |-> (a[i] * k + e1[i]) % Q(0)]
  BY DEF RelinRound1, Share
<1> HIDE DEF s, a, u, k
<1>3. ASSUME NEW i \in Row
      PROVE  /\ s.h0[i] \in Int /\ Near(s.h0[i], -(a[i] * u) + Garner[i] * k, NoiseBound, Q(0))
             /\ s.h1[i] \in Int /\ Near(s.h1[i], a[i] * k, NoiseBound, Q(0))
  <2>1. /\ a[i] \in Int /\ Garner[i] \in Int
        /\ e0[i] \in Int /\ -NoiseBound <= e0[i] /\ e0[i] <= NoiseBound
        /\ e1[i] \in Int /\ -NoiseBound <= e1[i] /\ e1[i] <= NoiseBound
    BY <1>1, ConstantTypes DEF Rows
  <2>2. /\ -(a[i] * u) + Garner[i] * k \in Int /\ a[i] * k \in Int
        /\ -a[i] * u + Garner[i] * k + e0[i] = (-(a[i] * u) + Garner[i] * k) + e0[i]
    BY <1>1, <2>1
  <2>3. s.h0[i] = ((-(a[i] * u) + Garner[i] * k) + e0[i]) % Q(0) /\ s.h1[i] = (a[i] * k + e1[i]) % Q(0)
    BY <1>2, <2>2
  <2> QED
    BY <2>1, <2>2, <2>3, NoisyRow, ZenonT(60)
<1>4. s.h0 \in Rows /\ s.h1 \in Rows
  BY <1>2, <1>3 DEF Rows
<1>5. Round1Near(s.h0, s.h1, a, k, u, NoiseBound)
  BY <1>3 DEF Round1Near
<1>6. R1Share(s)
  BY <1>1, <1>2, <1>4, <1>5 DEF R1Share, RowsOk
<1> QED
  BY <1>2, <1>6 DEF ShareInv, s

LEMMA Round2Ok ==
    ASSUME PartyInv, NEW p \in Party, gen[p] # None, NEW e0 \in NoiseRow, NEW e1 \in NoiseRow,
           NEW r, RoundOk(r)
    PROVE  ShareInv(RelinRound2(p, r, e0, e1))
<1> DEFINE s == RelinRound2(p, r, e0, e1)
           u == gen[p].u
           k == sk[p]
<1>1. r.h0 \in Rows /\ r.h1 \in Rows /\ u \in Int /\ k \in Int
  BY DEF PartyInv, RoundOk
<1>2. /\ s.kind = "r2" /\ s.on = r /\ s.key = k /\ s.mask = u
      /\ s.h0 = [i \in Row |-> (r.h0[i] * k + e0[i]) % Q(0)]
      /\ s.h1 = [i \in Row |-> ((u - k) * r.h1[i] + e1[i]) % Q(0)]
  BY DEF RelinRound2, Share
<1> HIDE DEF s, u, k
<1>3. ASSUME NEW i \in Row
      PROVE  /\ s.h0[i] \in Int /\ Near(s.h0[i], r.h0[i] * k, NoiseBound, Q(0))
             /\ s.h1[i] \in Int /\ Near(s.h1[i], r.h1[i] * (u - k), NoiseBound, Q(0))
  <2>1. /\ r.h0[i] \in Int /\ r.h1[i] \in Int
        /\ e0[i] \in Int /\ -NoiseBound <= e0[i] /\ e0[i] <= NoiseBound
        /\ e1[i] \in Int /\ -NoiseBound <= e1[i] /\ e1[i] <= NoiseBound
    BY <1>1, ConstantTypes DEF Rows
  <2>2. /\ r.h0[i] * k \in Int /\ r.h1[i] * (u - k) \in Int
        /\ (u - k) * r.h1[i] + e1[i] = r.h1[i] * (u - k) + e1[i]
    BY <1>1, <2>1
  <2>3. s.h0[i] = (r.h0[i] * k + e0[i]) % Q(0) /\ s.h1[i] = (r.h1[i] * (u - k) + e1[i]) % Q(0)
    BY <1>2, <2>2
  <2> QED
    BY <2>1, <2>2, <2>3, NoisyRow, ZenonT(60)
<1>4. s.h0 \in Rows /\ s.h1 \in Rows
  BY <1>2, <1>3 DEF Rows
<1>5. Round2Near(s.h0, s.h1, r, k, u, NoiseBound)
  BY <1>3 DEF Round2Near
<1>6. R2Share(s)
  BY <1>1, <1>2, <1>4, <1>5 DEF R2Share, RowsOk
<1> QED
  BY <1>2, <1>6 DEF ShareInv, s

-----------------------------------------------------------------------------
(* Aggregation: near rows add up to near rows.                             *)

LEMMA FirstOk ==
    ASSUME NEW s, ShareInv(s)
    PROVE  FoldInv(First(s))
<1> DEFINE x == First(s)
<1>1. /\ x.first = s /\ x.h0 = s.h0 /\ x.h1 = s.h1 /\ x.count = 1
      /\ x.key = s.key /\ x.mask = s.mask /\ x.noise = s.noise
  BY DEF First
<1> HIDE DEF x
<1>2. NoiseBound \in Nat /\ x.count * NoiseBound = NoiseBound /\ x.count \in Nat
  BY <1>1, ConstantTypes
<1>3. s.kind = "pk" => PkFold(x)
  BY <1>1, <1>2 DEF PkFold, PkShare, ShareInv
<1>4. s.kind = "r1" => R1Fold(x)
  BY <1>1, <1>2 DEF R1Fold, R1Share, RowsOk, ShareInv
<1>5. s.kind = "r2" => R2Fold(x)
  BY <1>1, <1>2 DEF R2Fold, R2Share, RowsOk, ShareInv
<1> QED
  BY <1>1, <1>3, <1>4, <1>5 DEF FoldInv, x

(* The sum of two rows, reduced. *)
LEMMA AddedInt ==
    ASSUME NEW l \in Levels, NEW x \in Int, NEW z \in Int
    PROVE  (x + z) % Q(l) \in Int
  BY ConstantTypes, Remainder

LEMMA AddedNear ==
    ASSUME NEW l \in Levels, NEW x \in Int, NEW z \in Int,
           NEW y1 \in Int, NEW y2 \in Int, NEW b1 \in Int, NEW b2 \in Int,
           Near(x, y1, b1, Q(l)), Near(z, y2, b2, Q(l)), NEW r, r = (x + z) % Q(l)
    PROVE  Near(r, y1 + y2, b1 + b2, Q(l))
<1>1. Q(l) \in Nat \ {0} /\ x + z \in Int
  BY ConstantTypes
<1>2. Near(x + z, y1 + y2, b1 + b2, Q(l))
  BY <1>1, NearAdd
<1> QED
  BY <1>1, <1>2, NearMod

LEMMA AddRowsRows ==
    ASSUME NEW x \in Rows, NEW z \in Rows
    PROVE  /\ AddRows(x, z, 0) \in Rows
           /\ \A i \in Row : /\ x[i] \in Int /\ z[i] \in Int
                             /\ AddRows(x, z, 0)[i] = (x[i] + z[i]) % Q(0)
<1>1. DOMAIN x = Row /\ \A i \in Row : x[i] \in Int /\ z[i] \in Int
  BY DEF Rows
<1>2. AddRows(x, z, 0) = [i \in Row |-> (x[i] + z[i]) % Q(0)]
  BY <1>1 DEF AddRows
<1>3. \A i \in Row : (x[i] + z[i]) % Q(0) \in Int
  BY <1>1, AddedInt, ConstantTypes
<1> QED
  BY <1>1, <1>2, <1>3 DEF Rows

LEMMA FoldedFields ==
    ASSUME NEW x, NEW s
    PROVE  /\ Folded(x, s).first = x.first
           /\ Folded(x, s).h0 = AddRows(x.h0, s.h0, LevelOf(x.first))
           /\ Folded(x, s).h1 = AddRows(x.h1, s.h1, LevelOf(x.first))
           /\ Folded(x, s).count = x.count + 1
           /\ Folded(x, s).key = x.key + s.key
           /\ Folded(x, s).mask = x.mask + s.mask
           /\ Folded(x, s).noise = x.noise + s.noise
  BY DEF Folded

LEMMA FoldedSame ==
    ASSUME NEW x, NEW s, Folded(x, s).same
    PROVE  x.same /\ s.on = x.first.on
  BY Zenon DEF Folded

LEMMA PkFolded ==
    ASSUME NEW x, NEW s, PkFold(x), PkShare(s), x.first.kind = "pk"
    PROVE  PkFold(Folded(x, s))
<1> DEFINE f == Folded(x, s)
           l == x.first.on.level
<1>1. /\ f.first = x.first /\ f.h0 = AddRows(x.h0, s.h0, l) /\ f.count = x.count + 1
      /\ f.key = x.key + s.key /\ f.noise = x.noise + s.noise
  BY FoldedFields DEF LevelOf
<1>2. f.same => x.same /\ s.on = x.first.on
  BY FoldedSame
<1> HIDE DEF f
<1>3. x.first.on \in Crp /\ l \in Levels /\ x.first.on.a \in Int
  BY ConstantTypes DEF PkFold, PkShare
<1>4. 1 \in DOMAIN f.h0 /\ f.h0[1] = (x.h0[1] + s.h0[1]) % Q(l)
  BY <1>1 DEF AddRows, PkFold
<1> HIDE DEF l
<1>5. x.h0[1] \in Int /\ s.h0[1] \in Int
  BY DEF PkFold, PkShare
<1>6. f.h0[1] \in Int
  BY <1>3, <1>4, <1>5, AddedInt
<1>7. /\ f.key \in Int /\ f.noise \in Int /\ f.count \in Nat
      /\ x.key \in Int /\ x.noise \in Int /\ s.key \in Int /\ s.noise \in Int
  BY <1>1 DEF PkFold, PkShare
<1>8. Abs(f.noise) <= f.count * NoiseBound
  <2>1. x.count \in Nat /\ NoiseBound \in Nat
    BY ConstantTypes DEF PkFold
  <2>2. (x.count + 1) * NoiseBound = x.count * NoiseBound + NoiseBound /\ x.count * NoiseBound \in Int
    BY <2>1
  <2>3. Abs(x.noise) <= x.count * NoiseBound /\ Abs(s.noise) <= NoiseBound
    BY DEF PkFold, PkShare
  <2>4. Abs(x.noise + s.noise) <= x.count * NoiseBound + NoiseBound
    BY <1>7, <2>1, <2>2, <2>3 DEF Abs
  <2> QED
    BY <1>1, <2>2, <2>4
<1>9. ASSUME f.same
      PROVE  Near(f.h0[1], -(x.first.on.a * f.key) + f.noise, 0, Q(l))
  <2> DEFINE a == x.first.on.a
  <2>1. /\ Near(x.h0[1], -(a * x.key) + x.noise, 0, Q(l))
        /\ Near(s.h0[1], -(a * s.key) + s.noise, 0, Q(l))
    BY <1>2, <1>9 DEF PkFold, PkShare, l
  <2> HIDE DEF a
  <2>2. a \in Int /\ -(a * x.key) + x.noise \in Int /\ -(a * s.key) + s.noise \in Int
    BY <1>3, <1>7 DEF a
  <2>3. Near(f.h0[1], (-(a * x.key) + x.noise) + (-(a * s.key) + s.noise), 0 + 0, Q(l))
    <3> DEFINE v == x.h0[1]
               w == s.h0[1]
               r == f.h0[1]
               y1 == -(a * x.key) + x.noise
               y2 == -(a * s.key) + s.noise
               b == 0
    <3>1. /\ v \in Int /\ w \in Int /\ r = (v + w) % Q(l) /\ y1 \in Int /\ y2 \in Int
          /\ Near(v, y1, b, Q(l)) /\ Near(w, y2, b, Q(l)) /\ b \in Int
      BY <1>4, <1>5, <2>1, <2>2
    <3> HIDE DEF v, w, r, y1, y2, b
    <3>2. Near(r, y1 + y2, b + b, Q(l))
      BY <1>3, <3>1, AddedNear
    <3> QED
      BY <3>2 DEF r, y1, y2, b
  <2>4. (-(a * x.key) + x.noise) + (-(a * s.key) + s.noise) = -(a * (x.key + s.key)) + (x.noise + s.noise)
    BY <1>7, <2>2
  <2>5. 0 + 0 = 0
    OBVIOUS
  <2> QED
    BY <1>1, <2>3, <2>4, <2>5 DEF a
<1> QED
  BY <1>1, <1>4, <1>6, <1>7, <1>8, <1>9 DEF PkFold, f, l

(* The types of a fold of shares of rows. *)
LEMMA RowsFolded ==
    ASSUME NEW x, NEW s, RowsOk(x), RowsOk(s), x.first.kind \in {"r1", "r2"}, x.count \in Nat
    PROVE  /\ RowsOk(Folded(x, s)) /\ Folded(x, s).count \in Nat
           /\ Folded(x, s).count * NoiseBound = x.count * NoiseBound + NoiseBound
           /\ \A i \in Row :
                /\ x.h0[i] \in Int /\ s.h0[i] \in Int /\ x.h1[i] \in Int /\ s.h1[i] \in Int
                /\ Folded(x, s).h0[i] = (x.h0[i] + s.h0[i]) % Q(0)
                /\ Folded(x, s).h1[i] = (x.h1[i] + s.h1[i]) % Q(0)
<1>1. LevelOf(x.first) = 0
  BY DEF LevelOf
<1>2. /\ Folded(x, s).h0 = AddRows(x.h0, s.h0, 0) /\ Folded(x, s).h1 = AddRows(x.h1, s.h1, 0)
      /\ Folded(x, s).count = x.count + 1
      /\ Folded(x, s).key = x.key + s.key /\ Folded(x, s).mask = x.mask + s.mask
  BY <1>1, FoldedFields
<1>3. x.h0 \in Rows /\ x.h1 \in Rows /\ s.h0 \in Rows /\ s.h1 \in Rows
  BY DEF RowsOk
<1>4. Folded(x, s).h0 \in Rows /\ Folded(x, s).h1 \in Rows
  BY <1>2, <1>3, AddRowsRows
<1>5. Folded(x, s).key \in Int /\ Folded(x, s).mask \in Int
  BY <1>2 DEF RowsOk
<1>6. NoiseBound \in Nat /\ (x.count + 1) * NoiseBound = x.count * NoiseBound + NoiseBound
  BY ConstantTypes
<1> QED
  BY <1>2, <1>3, <1>4, <1>5, <1>6, AddRowsRows DEF RowsOk

LEMMA R1Folded ==
    ASSUME NEW x, NEW s, R1Fold(x), R1Share(s), x.first.kind = "r1"
    PROVE  R1Fold(Folded(x, s))
<1> DEFINE f == Folded(x, s)
<1>1. /\ f.first = x.first /\ f.key = x.key + s.key /\ f.mask = x.mask + s.mask
  BY FoldedFields
<1>2. f.same => x.same /\ s.on = x.first.on
  BY FoldedSame
<1>3. RowsOk(x) /\ RowsOk(s) /\ x.count \in Nat
  BY DEF R1Fold, R1Share
<1>4. /\ RowsOk(f) /\ f.count \in Nat /\ f.count * NoiseBound = x.count * NoiseBound + NoiseBound
      /\ \A i \in Row :
            /\ x.h0[i] \in Int /\ s.h0[i] \in Int /\ x.h1[i] \in Int /\ s.h1[i] \in Int
            /\ f.h0[i] = (x.h0[i] + s.h0[i]) % Q(0) /\ f.h1[i] = (x.h1[i] + s.h1[i]) % Q(0)
  BY <1>3, RowsFolded
<1> HIDE DEF f
<1>5. ASSUME f.same, NEW i \in Row
      PROVE  /\ Near(f.h0[i], -(f.first.on[i] * f.mask) + Garner[i] * f.key, f.count * NoiseBound, Q(0))
             /\ Near(f.h1[i], f.first.on[i] * f.key, f.count * NoiseBound, Q(0))
  <2> DEFINE a == x.first.on[i]
             g == Garner[i]
             b == x.count * NoiseBound
  <2>1. /\ Near(x.h0[i], -(a * x.mask) + g * x.key, b, Q(0)) /\ Near(x.h1[i], a * x.key, b, Q(0))
        /\ Near(s.h0[i], -(a * s.mask) + g * s.key, NoiseBound, Q(0))
        /\ Near(s.h1[i], a * s.key, NoiseBound, Q(0))
    BY <1>2, <1>5 DEF R1Fold, R1Share, Round1Near
  <2>2. a \in Int /\ g \in Int /\ b \in Int /\ NoiseBound \in Int /\ 0 \in Levels
    BY ConstantTypes DEF R1Fold, R1Share, Rows
  <2> HIDE DEF a, g, b
  <2>3. x.key \in Int /\ x.mask \in Int /\ s.key \in Int /\ s.mask \in Int
    BY <1>3 DEF RowsOk
  <2>4. /\ -(a * x.mask) + g * x.key \in Int /\ a * x.key \in Int
        /\ -(a * s.mask) + g * s.key \in Int /\ a * s.key \in Int
        /\ (-(a * x.mask) + g * x.key) + (-(a * s.mask) + g * s.key)
               = -(a * (x.mask + s.mask)) + g * (x.key + s.key)
        /\ a * x.key + a * s.key = a * (x.key + s.key)
    <3> DEFINE p1 == a * x.mask
               p2 == a * s.mask
               p3 == a * (x.mask + s.mask)
               t1 == g * x.key
               t2 == g * s.key
               t3 == g * (x.key + s.key)
    <3>1. p1 \in Int /\ p2 \in Int /\ p3 \in Int /\ p1 + p2 = p3
      BY <2>2, <2>3, Distributes
    <3>2. t1 \in Int /\ t2 \in Int /\ t3 \in Int /\ t1 + t2 = t3
      BY <2>2, <2>3, Distributes
    <3>3. /\ a * x.key \in Int /\ a * s.key \in Int
          /\ a * x.key + a * s.key = a * (x.key + s.key)
      BY <2>2, <2>3, Distributes
    <3> HIDE DEF p1, p2, p3, t1, t2, t3
    <3>4. -p1 + t1 \in Int /\ -p2 + t2 \in Int /\ (-p1 + t1) + (-p2 + t2) = -p3 + t3
      BY <3>1, <3>2
    <3> QED
      BY <3>3, <3>4 DEF p1, p2, p3, t1, t2, t3
  <2>5. Near(f.h0[i], (-(a * x.mask) + g * x.key) + (-(a * s.mask) + g * s.key), b + NoiseBound, Q(0))
    <3> DEFINE v == x.h0[i]
               w == s.h0[i]
               o == f.h0[i]
               z1 == -(a * x.mask) + g * x.key
               z2 == -(a * s.mask) + g * s.key
    <3>1. /\ v \in Int /\ w \in Int /\ o = (v + w) % Q(0) /\ z1 \in Int /\ z2 \in Int
          /\ Near(v, z1, b, Q(0)) /\ Near(w, z2, NoiseBound, Q(0))
      BY <1>4, <2>1, <2>4
    <3> HIDE DEF v, w, o, z1, z2
    <3>2. Near(o, z1 + z2, b + NoiseBound, Q(0))
      BY <2>2, <3>1, AddedNear
    <3> QED
      BY <3>2 DEF o, z1, z2
  <2>6. Near(f.h1[i], a * x.key + a * s.key, b + NoiseBound, Q(0))
    <3> DEFINE v == x.h1[i]
               w == s.h1[i]
               o == f.h1[i]
               z1 == a * x.key
               z2 == a * s.key
    <3>1. /\ v \in Int /\ w \in Int /\ o = (v + w) % Q(0) /\ z1 \in Int /\ z2 \in Int
          /\ Near(v, z1, b, Q(0)) /\ Near(w, z2, NoiseBound, Q(0))
      BY <1>4, <2>1, <2>4
    <3> HIDE DEF v, w, o, z1, z2
    <3>2. Near(o, z1 + z2, b + NoiseBound, Q(0))
      BY <2>2, <3>1, AddedNear
    <3> QED
      BY <3>2 DEF o, z1, z2
  <2> QED
    BY <1>1, <1>4, <2>4, <2>5, <2>6 DEF a, g, b
<1>6. f.same => Round1Near(f.h0, f.h1, f.first.on, f.key, f.mask, f.count * NoiseBound)
  BY <1>5 DEF Round1Near
<1> QED
  BY <1>1, <1>4, <1>6 DEF R1Fold, f

LEMMA R2Folded ==
    ASSUME NEW x, NEW s, R2Fold(x), R2Share(s), x.first.kind = "r2"
    PROVE  R2Fold(Folded(x, s))
<1> DEFINE f == Folded(x, s)
           r == x.first.on
<1>1. /\ f.first = x.first /\ f.key = x.key + s.key /\ f.mask = x.mask + s.mask
  BY FoldedFields
<1>2. f.same => x.same /\ s.on = r
  BY FoldedSame
<1>3. RowsOk(x) /\ RowsOk(s) /\ x.count \in Nat
  BY DEF R2Fold, R2Share
<1>4. /\ RowsOk(f) /\ f.count \in Nat /\ f.count * NoiseBound = x.count * NoiseBound + NoiseBound
      /\ \A i \in Row :
            /\ x.h0[i] \in Int /\ s.h0[i] \in Int /\ x.h1[i] \in Int /\ s.h1[i] \in Int
            /\ f.h0[i] = (x.h0[i] + s.h0[i]) % Q(0) /\ f.h1[i] = (x.h1[i] + s.h1[i]) % Q(0)
  BY <1>3, RowsFolded
<1> HIDE DEF f
<1>5. ASSUME f.same, NEW i \in Row
      PROVE  /\ Near(f.h0[i], r.h0[i] * f.key, f.count * NoiseBound, Q(0))
             /\ Near(f.h1[i], r.h1[i] * (f.mask - f.key), f.count * NoiseBound, Q(0))
  <2> DEFINE y0 == r.h0[i]
             y1 == r.h1[i]
             b == x.count * NoiseBound
  <2>1. /\ Near(x.h0[i], y0 * x.key, b, Q(0)) /\ Near(x.h1[i], y1 * (x.mask - x.key), b, Q(0))
        /\ Near(s.h0[i], y0 * s.key, NoiseBound, Q(0))
        /\ Near(s.h1[i], y1 * (s.mask - s.key), NoiseBound, Q(0))
    BY <1>2, <1>5 DEF R2Fold, R2Share, Round2Near
  <2>2. y0 \in Int /\ y1 \in Int /\ b \in Int /\ NoiseBound \in Int /\ 0 \in Levels
    <3>1. r.h0 \in Rows /\ r.h1 \in Rows
      BY DEF R2Fold, R2Share, RoundOk
    <3>2. y0 \in Int /\ y1 \in Int
      BY <3>1 DEF Rows
    <3>3. NoiseBound \in Int /\ 0 \in Levels
      BY ConstantTypes
    <3> QED
      BY <1>3, <3>2, <3>3
  <2> HIDE DEF y0, y1, b
  <2>3. x.key \in Int /\ x.mask \in Int /\ s.key \in Int /\ s.mask \in Int
    BY <1>3 DEF RowsOk
  <2>4. /\ y0 * x.key \in Int /\ y0 * s.key \in Int
        /\ y1 * (x.mask - x.key) \in Int /\ y1 * (s.mask - s.key) \in Int
        /\ y0 * x.key + y0 * s.key = y0 * (x.key + s.key)
        /\ y1 * (x.mask - x.key) + y1 * (s.mask - s.key) = y1 * ((x.mask + s.mask) - (x.key + s.key))
    BY <2>2, <2>3
  <2>5. Near(f.h0[i], y0 * x.key + y0 * s.key, b + NoiseBound, Q(0))
    <3> DEFINE v == x.h0[i]
               w == s.h0[i]
               o == f.h0[i]
               z1 == y0 * x.key
               z2 == y0 * s.key
    <3>1. /\ v \in Int /\ w \in Int /\ o = (v + w) % Q(0) /\ z1 \in Int /\ z2 \in Int
          /\ Near(v, z1, b, Q(0)) /\ Near(w, z2, NoiseBound, Q(0))
      BY <1>4, <2>1, <2>4
    <3> HIDE DEF v, w, o, z1, z2
    <3>2. Near(o, z1 + z2, b + NoiseBound, Q(0))
      BY <2>2, <3>1, AddedNear
    <3> QED
      BY <3>2 DEF o, z1, z2
  <2>6. Near(f.h1[i], y1 * (x.mask - x.key) + y1 * (s.mask - s.key), b + NoiseBound, Q(0))
    <3> DEFINE v == x.h1[i]
               w == s.h1[i]
               o == f.h1[i]
               z1 == y1 * (x.mask - x.key)
               z2 == y1 * (s.mask - s.key)
    <3>1. /\ v \in Int /\ w \in Int /\ o = (v + w) % Q(0) /\ z1 \in Int /\ z2 \in Int
          /\ Near(v, z1, b, Q(0)) /\ Near(w, z2, NoiseBound, Q(0))
      BY <1>4, <2>1, <2>4
    <3> HIDE DEF v, w, o, z1, z2
    <3>2. Near(o, z1 + z2, b + NoiseBound, Q(0))
      BY <2>2, <3>1, AddedNear
    <3> QED
      BY <3>2 DEF o, z1, z2
  <2> QED
    BY <1>1, <1>4, <2>4, <2>5, <2>6 DEF y0, y1, b
<1>6. f.same => Round2Near(f.h0, f.h1, f.first.on, f.key, f.mask, f.count * NoiseBound)
  BY <1>1, <1>5 DEF Round2Near
<1> QED
  BY <1>1, <1>4, <1>6 DEF R2Fold, f

LEMMA FoldedOk ==
    ASSUME NEW x, NEW s, FoldInv(x), ShareInv(s), s.kind = x.first.kind
    PROVE  FoldInv(Folded(x, s))
<1>1. Folded(x, s).first = x.first
  BY FoldedFields
<1>2. x.first.kind = "pk" => PkFold(Folded(x, s))
  BY PkFolded DEF FoldInv, ShareInv
<1>3. x.first.kind = "r1" => R1Fold(Folded(x, s))
  BY R1Folded DEF FoldInv, ShareInv
<1>4. x.first.kind = "r2" => R2Fold(Folded(x, s))
  BY R2Folded DEF FoldInv, ShareInv
<1> QED
  BY <1>1, <1>2, <1>3, <1>4 DEF FoldInv

-----------------------------------------------------------------------------
(* What is made of the sums.                                               *)

LEMMA MadePublicKeyOk ==
    ASSUME NEW x, PkFold(x), x.same, NEW k, k = MadePublicKey(x)
    PROVE  /\ (k.c[1] + k.c[2] * k.of.key - k.of.noise) % Q(k.level) = 0
           /\ Abs(k.of.noise) <= k.of.count * NoiseBound
<1> DEFINE h == x.h0[1]
           a == x.first.on.a
           key == x.key
           noise == x.noise
           q == Q(x.first.on.level)
<1>1. /\ k.c[1] = h /\ k.c[2] = a /\ k.level = x.first.on.level
      /\ k.of.key = key /\ k.of.noise = noise /\ k.of.count = x.count
  BY DEF MadePublicKey, History
<1>2. /\ h \in Int /\ key \in Int /\ noise \in Int /\ Near(h, -(a * key) + noise, 0, q)
      /\ Abs(noise) <= x.count * NoiseBound /\ x.first.on \in Crp
  BY DEF PkFold, PkShare
<1>3. a \in Int /\ q \in Nat \ {0}
  BY <1>2, ConstantTypes
<1> HIDE DEF h, a, key, noise, q
<1>4. PICK e \in Int, m \in Int : -0 <= e /\ e <= 0 /\ h = (-(a * key) + noise) + e + m * q
  BY <1>2 DEF Near
<1>5. h + a * key - noise = m * q /\ h + a * key - noise \in Int
  BY <1>2, <1>3, <1>4
<1>6. (h + a * key - noise) % q = 0
  BY <1>3, <1>5, MultipleRemainder
<1> QED
  BY <1>1, <1>2, <1>6 DEF q

LEMMA MadeRound1Ok ==
    ASSUME NEW x, R1Fold(x)
    PROVE  RoundOk(MadeRound1(x))
<1> DEFINE r == MadeRound1(x)
<1>1. /\ r.h0 = x.h0 /\ r.h1 = x.h1 /\ r.of.key = x.key /\ r.of.mask = x.mask
      /\ r.of.count = x.count /\ r.of.same = x.same
  BY DEF MadeRound1, History
<1> HIDE DEF r
<1>2. x.first.on \in Rows
  BY DEF R1Fold, R1Share
<1> QED
  BY <1>1, <1>2 DEF RoundOk, R1Fold, RowsOk, r

(* The algebra of the two rounds on one row: with R0 and R1 near to what   *)
(* the first round makes of a, the second round makes an encryption of     *)
(* g k^2 under k, whatever the masks were.                                 *)
LEMMA RelinRow ==
    ASSUME NEW q \in Nat \ {0}, NEW b \in Int, NEW a \in Int, NEW g \in Int,
           NEW k \in Int, NEW u \in Int, NEW R0 \in Int, NEW R1 \in Int,
           NEW S0 \in Int, NEW S1 \in Int, NEW c0, c0 = (S0 + S1) % q,
           Near(R0, -(a * u) + g * k, b, q), Near(R1, a * k, b, q),
           Near(S0, R0 * k, b, q), Near(S1, R1 * (u - k), b, q)
    PROVE  /\ c0 + R1 * k - g * k * k \in Int
           /\ Near(c0 + R1 * k - g * k * k, 0, (Abs(k) + Abs(u) + 2) * b, q)
<1> DEFINE y0 == -(a * u) + g * k
           y1 == a * k
           z0 == R0 * k
           z1 == R1 * (u - k)
           d == R1 * k - g * k * k
           m == k * R0 + u * R1
           n == k * y0 + u * y1
           bk == Abs(k) * b
           bu == Abs(u) * b
<1>1. /\ y0 \in Int /\ y1 \in Int /\ z0 \in Int /\ z1 \in Int /\ d \in Int
      /\ Abs(k) \in Int /\ Abs(u) \in Int
  BY DEF Abs
<1>2. c0 \in Int /\ S0 + S1 \in Int
  BY Remainder
<1>3. Near(S0 + S1, z0 + z1, b + b, q)
  <2>1. Near(S0, z0, b, q) /\ Near(S1, z1, b, q)
    OBVIOUS
  <2> HIDE DEF z0, z1
  <2> QED
    BY <1>1, <2>1, NearAdd
<1>4. Near(c0, z0 + z1, b + b, q)
  <2>1. z0 + z1 \in Int /\ b + b \in Int
    BY <1>1
  <2> QED
    BY <1>2, <1>3, <2>1, NearMod
<1>5. Near(c0 + d, (z0 + z1) + d, b + b, q)
  <2> HIDE DEF z0, z1, d
  <2>1. PICK e \in Int, j \in Int :
            -(b + b) <= e /\ e <= b + b /\ c0 = (z0 + z1) + e + j * q
    BY <1>4 DEF Near
  <2>2. c0 + d = ((z0 + z1) + d) + e + j * q
    BY <1>1, <1>2, <2>1
  <2> QED
    BY <2>1, <2>2 DEF Near
<1>6. (z0 + z1) + d = m - g * k * k
  OBVIOUS
<1>7. Near(k * R0, k * y0, bk, q) /\ Near(u * R1, u * y1, bu, q)
  <2>1. Near(R0, y0, b, q) /\ Near(R1, y1, b, q)
    OBVIOUS
  <2> HIDE DEF y0, y1
  <2> QED
    BY <1>1, <2>1, NearScale
<1>8. Near(m, n, bk + bu, q)
  <2> DEFINE m0 == k * R0
             m1 == u * R1
             n0 == k * y0
             n1 == u * y1
  <2>1. m0 \in Int /\ m1 \in Int /\ n0 \in Int /\ n1 \in Int /\ bk \in Int /\ bu \in Int
    BY <1>1
  <2>2. Near(m0, n0, bk, q) /\ Near(m1, n1, bu, q)
    BY <1>7
  <2> HIDE DEF m0, m1, n0, n1, bk, bu
  <2>3. Near(m0 + m1, n0 + n1, bk + bu, q)
    BY <2>1, <2>2, NearAdd
  <2> QED
    BY <2>3 DEF m0, m1, n0, n1
<1>9. n = g * k * k
  OBVIOUS
<1>10. m \in Int /\ n \in Int /\ bk \in Int /\ bu \in Int
  BY <1>1
<1>11. Near(m - g * k * k, 0, bk + bu, q)
  <2> HIDE DEF m, n, bk, bu
  <2>1. PICK e \in Int, j \in Int : -(bk + bu) <= e /\ e <= bk + bu /\ m = n + e + j * q
    BY <1>8 DEF Near
  <2>2. m - g * k * k = 0 + e + j * q
    BY <1>9, <1>10, <2>1
  <2> QED
    BY <2>1, <2>2 DEF Near
<1>12. Near(c0 + d, 0, (b + b) + (bk + bu), q)
  <2> DEFINE x == c0 + d
             y == m - g * k * k
             b1 == b + b
             b2 == bk + bu
  <2>1. x \in Int /\ y \in Int /\ b1 \in Int /\ b2 \in Int /\ 0 \in Int
    BY <1>1, <1>2, <1>10
  <2>2. Near(x, y, b1, q) /\ Near(y, 0, b2, q)
    BY <1>5, <1>6, <1>11
  <2> HIDE DEF x, y, b1, b2
  <2>3. Near(x, 0, b1 + b2, q)
    BY <2>1, <2>2, NearTrans
  <2> QED
    BY <2>3 DEF x, b1, b2
<1>13. (b + b) + (bk + bu) = (Abs(k) + Abs(u) + 2) * b
  BY <1>1
<1>14. c0 + d = c0 + R1 * k - g * k * k /\ c0 + d \in Int
  BY <1>1, <1>2
<1> QED
  BY <1>12, <1>13, <1>14

LEMMA MadeRelinKeyOk ==
    ASSUME NEW x, R2Fold(x), NEW y, y = MadeRelinKey(x),
           x.same, y.r1.same, x.key = y.r1.key, x.mask = y.r1.mask, x.count = y.r1.count,
           NEW i \in Row
    PROVE  Abs(Centered(y.c0[i] + y.c1[i] * x.key - Garner[i] * x.key * x.key, Q(0)))
                <= (Abs(x.key) + Abs(x.mask) + 2) * x.count * NoiseBound
<1> DEFINE r == x.first.on
           k == x.key
           u == x.mask
           b == x.count * NoiseBound
           g == Garner[i]
           R0 == r.h0[i]
           R1 == r.h1[i]
           S0 == x.h0[i]
           S1 == x.h1[i]
           c0 == y.c0[i]
<1>1. y.c0 = AddRows(x.h0, x.h1, 0) /\ y.c1 = r.h1 /\ y.r1 = r.of
  BY DEF MadeRelinKey
<1>2. RowsOk(x) /\ RoundOk(r) /\ x.count \in Nat
  BY DEF R2Fold, R2Share
<1>3. k \in Int /\ u \in Int /\ S0 \in Int /\ S1 \in Int /\ c0 = (S0 + S1) % Q(0)
  BY <1>1, <1>2, AddRowsRows DEF RowsOk
<1>4. R0 \in Int /\ R1 \in Int
  BY <1>2 DEF RoundOk, Rows
<1>5. PICK a \in Rows : Round1Near(r.h0, r.h1, a, k, u, b)
  BY <1>1, <1>2 DEF RoundOk
<1>6. Near(R0, -(a[i] * u) + g * k, b, Q(0)) /\ Near(R1, a[i] * k, b, Q(0))
  BY <1>5 DEF Round1Near
<1>7. Near(S0, R0 * k, b, Q(0)) /\ Near(S1, R1 * (u - k), b, Q(0))
  BY DEF R2Fold, Round2Near
<1>8. /\ Q(0) \in Nat \ {0} /\ b \in Int /\ g \in Int /\ a[i] \in Int
  BY <1>2, ConstantTypes DEF Rows
<1>9. /\ y.c1[i] = R1 /\ (Abs(k) + Abs(u) + 2) * b = (Abs(k) + Abs(u) + 2) * x.count * NoiseBound
      /\ (Abs(k) + Abs(u) + 2) * b \in Int
  <2>1. Abs(k) \in Int /\ Abs(u) \in Int /\ x.count \in Int /\ NoiseBound \in Int
    BY <1>2, <1>3, ConstantTypes, SMTT(60) DEF Abs
  <2> QED
    BY <1>1, <2>1
<1> DEFINE ai == a[i]
<1> HIDE DEF r, k, u, b, g, R0, R1, S0, S1, c0, ai
<1>10. Near(R0, -(ai * u) + g * k, b, Q(0)) /\ Near(R1, ai * k, b, Q(0)) /\ ai \in Int
  BY <1>6, <1>8 DEF ai
<1>11. /\ c0 + R1 * k - g * k * k \in Int
       /\ Near(c0 + R1 * k - g * k * k, 0, (Abs(k) + Abs(u) + 2) * b, Q(0))
  BY <1>3, <1>4, <1>7, <1>8, <1>10, RelinRow
<1>12. Abs(Centered(c0 + R1 * k - g * k * k, Q(0))) <= (Abs(k) + Abs(u) + 2) * b
  BY <1>8, <1>9, <1>11, NearCentered
<1> QED
  BY <1>9, <1>12 DEF c0, g, k, u

-----------------------------------------------------------------------------
(* The invariant is inductive.                                             *)

LEMMA Initially == Init => IInv
<1> SUFFICES ASSUME Init PROVE IInv
  OBVIOUS
<1>1. PartyInv
  BY MultipartyAssumption DEF Init, PartyInv
<1> QED
  BY <1>1 DEF Init, IInv, BoardInv, AccInv, RoundsInv, CollectiveKey, CollectiveRelinKey

(* A share is published, and nothing else changes that the invariant reads.*)
LEMMA PublishStep ==
    ASSUME IInv, NEW s, ShareInv(s), Publish(s), UNCHANGED gen
    PROVE  IInv'
<1>1. /\ board' = board \cup {s}
      /\ UNCHANGED << sk, acc, pk, r1, rlk >>
  BY DEF Publish
<1>2. BoardInv'
  BY <1>1 DEF IInv, BoardInv
<1>3. PartyInv' /\ AccInv' /\ RoundsInv'
  BY <1>1 DEF IInv, PartyInv, AccInv, RoundsInv
<1>4. CollectiveKey' /\ CollectiveRelinKey'
  BY <1>1 DEF IInv, CollectiveKey, CollectiveRelinKey
<1> QED
  BY <1>2, <1>3, <1>4 DEF IInv

LEMMA NewGeneratorStep ==
    ASSUME IInv, NEW p \in Party, NEW v \in CrpVector, NEW u \in Mask, NewGenerator(p, v, u)
    PROVE  IInv'
<1>1. /\ gen' = [gen EXCEPT ![p] = [u |-> u, crp |-> v]]
      /\ UNCHANGED << sk, board, acc, pk, r1, rlk >>
      /\ Len(v) = Len(Moduli)
  BY DEF NewGenerator, RelinKeyGeneratorOk
<1>2. u \in Int /\ v \in Rows
  BY <1>1, ConstantTypes
<1>3. \A o \in Party : gen'[o] = gen[o] \/ gen'[o] = [u |-> u, crp |-> v]
  BY <1>1
<1>4. PartyInv'
  BY <1>1, <1>2, <1>3 DEF IInv, PartyInv
<1>5. BoardInv' /\ AccInv' /\ RoundsInv'
  BY <1>1 DEF IInv, BoardInv, AccInv, RoundsInv
<1>6. CollectiveKey' /\ CollectiveRelinKey'
  BY <1>1 DEF IInv, CollectiveKey, CollectiveRelinKey
<1> QED
  BY <1>4, <1>5, <1>6 DEF IInv

LEMMA PublishingSteps ==
    ASSUME IInv, NEW p \in Party
    PROVE  /\ (\E e0, e1 \in NoiseRow : Round1(p, e0, e1)) => IInv'
           /\ (\E r \in r1, e0, e1 \in NoiseRow : Round2(p, r, e0, e1)) => IInv'
           /\ (\E c \in Crp, e \in Noise : PublishPublicKeyShare(p, c, e)) => IInv'
           /\ (\E e \in Noise : PublishSecretKeySwitchShare(p, e)) => IInv'
           /\ (\E e \in Noise : PublishDecryptionShare(p, e)) => IInv'
           /\ (\E u \in Mask, e0, e1 \in Noise : FinishPublicKeySwitchShare(p, u, e0, e1)) => IInv'
<1>1. PartyInv /\ RoundsInv
  BY DEF IInv
<1>2. ASSUME NEW e0 \in NoiseRow, NEW e1 \in NoiseRow, Round1(p, e0, e1) PROVE IInv'
  <2>1. gen[p] # None /\ Publish(RelinRound1(p, e0, e1)) /\ UNCHANGED gen
    BY <1>2 DEF Round1
  <2>2. ShareInv(RelinRound1(p, e0, e1))
    BY <1>1, <2>1, Round1Ok
  <2> QED
    BY <2>1, <2>2, PublishStep
<1>3. ASSUME NEW r \in r1, NEW e0 \in NoiseRow, NEW e1 \in NoiseRow, Round2(p, r, e0, e1) PROVE IInv'
  <2>1. gen[p] # None /\ Publish(RelinRound2(p, r, e0, e1)) /\ UNCHANGED gen
    BY <1>3 DEF Round2
  <2>2. RoundOk(r)
    BY <1>1 DEF RoundsInv
  <2>3. ShareInv(RelinRound2(p, r, e0, e1))
    BY <1>1, <2>1, <2>2, Round2Ok
  <2> QED
    BY <2>1, <2>3, PublishStep
<1>4. ASSUME NEW c \in Crp, NEW e \in Noise, PublishPublicKeyShare(p, c, e) PROVE IInv'
  <2>1. Publish(PublicKeyShare(p, c, e)) /\ UNCHANGED gen
    BY <1>4 DEF PublishPublicKeyShare
  <2>2. ShareInv(PublicKeyShare(p, c, e))
    BY <1>1, PublicKeyShareOk
  <2> QED
    BY <2>1, <2>2, PublishStep
<1>5. ASSUME NEW s, s.kind \in {"sks", "dec", "pks"} PROVE ShareInv(s)
  BY <1>5 DEF ShareInv
<1>6. ASSUME NEW e \in Noise, PublishSecretKeySwitchShare(p, e) PROVE IInv'
  <2> DEFINE s == SecretKeySwitchShare(p, ct, OutSecret[p], e, "sks")
  <2>1. Publish(s) /\ UNCHANGED gen
    BY <1>6 DEF PublishSecretKeySwitchShare
  <2>2. s.kind = "sks"
    BY DEF SecretKeySwitchShare, Share
  <2> QED
    BY <1>5, <2>1, <2>2, PublishStep
<1>7. ASSUME NEW e \in Noise, PublishDecryptionShare(p, e) PROVE IInv'
  <2> DEFINE s == DecryptionShare(p, ct, e)
  <2>1. Publish(s) /\ UNCHANGED gen
    BY <1>7 DEF PublishDecryptionShare
  <2>2. s.kind = "dec"
    BY DEF DecryptionShare, SecretKeySwitchShare, Share
  <2> QED
    BY <1>5, <2>1, <2>2, PublishStep
<1>8. ASSUME NEW u \in Mask, NEW e0 \in Noise, NEW e1 \in Noise,
             FinishPublicKeySwitchShare(p, u, e0, e1)
      PROVE  IInv'
  <2> DEFINE s == PublicKeySwitchShare(p, ct, loop.k, u, e0, e1)
  <2>1. Publish(s) /\ UNCHANGED gen
    BY <1>8 DEF FinishPublicKeySwitchShare
  <2>2. s.kind = "pks"
    BY DEF PublicKeySwitchShare, Share
  <2> QED
    BY <1>5, <2>1, <2>2, PublishStep
<1> QED
  BY <1>2, <1>3, <1>4, <1>6, <1>7, <1>8

(* An aggregation goes on or is abandoned. *)
LEMMA FoldSteps ==
    ASSUME IInv
    PROVE  /\ (\E s \in board : Begin(s) \/ Absorb(s)) => IInv'
           /\ AbsorbErr => IInv'
<1>1. ASSUME AccInv', UNCHANGED << sk, gen, board, pk, r1, rlk >>
      PROVE  IInv'
  <2>1. PartyInv' /\ BoardInv' /\ RoundsInv'
    BY <1>1 DEF IInv, PartyInv, BoardInv, RoundsInv
  <2>2. CollectiveKey' /\ CollectiveRelinKey'
    BY <1>1 DEF IInv, CollectiveKey, CollectiveRelinKey
  <2> QED
    BY <1>1, <2>1, <2>2 DEF IInv
<1>2. ASSUME NEW s \in board, Begin(s) PROVE IInv'
  <2>1. acc' = First(s) /\ UNCHANGED << sk, gen, board, pk, r1, rlk >>
    BY <1>2 DEF Begin
  <2>2. FoldInv(First(s))
    BY FirstOk DEF IInv, BoardInv
  <2>3. AccInv'
    BY <2>1, <2>2 DEF AccInv
  <2> QED
    BY <1>1, <2>1, <2>3
<1>3. ASSUME NEW s \in board, Absorb(s) PROVE IInv'
  <2>1. /\ acc # None /\ s.kind = acc.first.kind
        /\ acc' = Folded(acc, s) /\ UNCHANGED << sk, gen, board, pk, r1, rlk >>
    BY <1>3 DEF Absorb
  <2>2. FoldInv(acc) /\ ShareInv(s)
    BY <2>1 DEF IInv, BoardInv, AccInv
  <2>3. FoldInv(Folded(acc, s))
    BY <2>1, <2>2, FoldedOk
  <2>4. AccInv'
    BY <2>1, <2>3 DEF AccInv
  <2> QED
    BY <1>1, <2>1, <2>4
<1>4. ASSUME AbsorbErr PROVE IInv'
  <2>1. acc' = None /\ UNCHANGED << sk, gen, board, pk, r1, rlk >>
    BY <1>4 DEF AbsorbErr
  <2> QED
    BY <1>1, <2>1 DEF AccInv
<1> QED
  BY <1>2, <1>3, <1>4

(* The sums become an object, and the board is cleared. *)
LEMMA FinishSteps ==
    ASSUME IInv
    PROVE  /\ FinishPublicKey => IInv'
           /\ FinishRound1 => IInv'
           /\ FinishRelinKey => IInv'
           /\ FinishSecretKeySwitch \/ FinishDecryption \/ FinishPublicKeySwitch => IInv'
<1>1. ASSUME acc' = None, board' = {}, UNCHANGED << sk, gen >>
      PROVE  PartyInv' /\ AccInv' /\ BoardInv'
  BY <1>1 DEF IInv, PartyInv, AccInv, BoardInv
<1>2. ASSUME FinishPublicKey PROVE IInv'
  <2>1. /\ acc # None /\ acc.first.kind = "pk" /\ acc' = None /\ board' = {}
        /\ pk' = MadePublicKey(acc) /\ UNCHANGED << sk, gen, r1, rlk >>
    BY <1>2 DEF FinishPublicKey, Ended
  <2>2. PkFold(acc)
    BY <2>1 DEF IInv, AccInv, FoldInv
  <2>3. pk'.of.same = acc.same
    BY <2>1 DEF MadePublicKey, History
  <2>4. CollectiveKey'
    BY <2>1, <2>2, <2>3, MadePublicKeyOk DEF CollectiveKey
  <2>5. CollectiveRelinKey' /\ RoundsInv'
    BY <2>1 DEF IInv, CollectiveRelinKey, RoundsInv
  <2> QED
    BY <1>1, <2>1, <2>4, <2>5 DEF IInv
<1>3. ASSUME FinishRound1 PROVE IInv'
  <2>1. /\ acc # None /\ acc.first.kind = "r1" /\ acc' = None /\ board' = {}
        /\ r1' = r1 \cup {MadeRound1(acc)} /\ UNCHANGED << sk, gen, pk, rlk >>
    BY <1>3 DEF FinishRound1, Ended
  <2>2. RoundOk(MadeRound1(acc))
    BY <2>1, MadeRound1Ok DEF IInv, AccInv, FoldInv
  <2>3. RoundsInv'
    BY <2>1, <2>2 DEF IInv, RoundsInv
  <2>4. CollectiveKey' /\ CollectiveRelinKey'
    BY <2>1 DEF IInv, CollectiveKey, CollectiveRelinKey
  <2> QED
    BY <1>1, <2>1, <2>3, <2>4 DEF IInv
<1>4. ASSUME FinishRelinKey PROVE IInv'
  <2>1. /\ acc # None /\ acc.first.kind = "r2" /\ acc' = None /\ board' = {}
        /\ rlk' = MadeRelinKey(acc) /\ UNCHANGED << sk, gen, pk, r1 >>
    BY <1>4 DEF FinishRelinKey, Ended
  <2>2. R2Fold(acc)
    BY <2>1 DEF IInv, AccInv, FoldInv
  <2> DEFINE y == rlk'
  <2>3. /\ y = MadeRelinKey(acc) /\ y.of.same = acc.same /\ y.of.key = acc.key
        /\ y.of.mask = acc.mask /\ y.of.count = acc.count
    BY <2>1 DEF MadeRelinKey, History
  <2>4. ASSUME y.of.same, y.r1.same, y.of.key = y.r1.key, y.of.mask = y.r1.mask,
               y.of.count = y.r1.count, NEW i \in Row
        PROVE  Abs(Centered(y.c0[i] + y.c1[i] * y.of.key - Garner[i] * y.of.key * y.of.key, Q(0)))
                   <= (Abs(y.of.key) + Abs(y.of.mask) + 2) * y.of.count * NoiseBound
    <3> HIDE DEF y
    <3> QED
      BY <2>2, <2>3, <2>4, MadeRelinKeyOk, ZenonT(60)
  <2>5. CollectiveRelinKey'
    BY <2>4 DEF CollectiveRelinKey, RelinNoise
  <2>6. CollectiveKey' /\ RoundsInv'
    BY <2>1 DEF IInv, CollectiveKey, RoundsInv
  <2> QED
    BY <1>1, <2>1, <2>5, <2>6 DEF IInv
<1>5. ASSUME NEW kind, NEW made, FinishOutput(kind, made) PROVE IInv'
  <2>1. acc' = None /\ board' = {} /\ UNCHANGED << sk, gen, pk, r1, rlk >>
    BY <1>5 DEF FinishOutput, Ended
  <2>2. CollectiveKey' /\ CollectiveRelinKey' /\ RoundsInv'
    BY <2>1 DEF IInv, CollectiveKey, CollectiveRelinKey, RoundsInv
  <2> QED
    BY <1>1, <2>1, <2>2 DEF IInv
<1> QED
  BY <1>2, <1>3, <1>4, <1>5 DEF FinishSecretKeySwitch, FinishDecryption, FinishPublicKeySwitch

(* What is done with a finished key touches none of this. *)
LEMMA OtherSteps ==
    ASSUME IInv, UNCHANGED << sk, gen, board, acc, pk, r1, rlk >>
    PROVE  IInv'
<1>1. PartyInv' /\ BoardInv' /\ AccInv' /\ RoundsInv'
  BY DEF IInv, PartyInv, BoardInv, AccInv, RoundsInv
<1>2. CollectiveKey' /\ CollectiveRelinKey'
  BY DEF IInv, CollectiveKey, CollectiveRelinKey
<1> QED
  BY <1>1, <1>2 DEF IInv

LEMMA Inductive == IInv /\ [Next]_vars => IInv'
<1> SUFFICES ASSUME IInv, [Next]_vars PROVE IInv'
  OBVIOUS
<1>1. CASE UNCHANGED vars
  BY <1>1, OtherSteps DEF vars
<1>2. ASSUME NEW p \in Party, NEW v \in CrpVector, NEW u \in Mask, NewGenerator(p, v, u)
      PROVE  IInv'
  BY <1>2, NewGeneratorStep
<1>3. ASSUME NEW l \in Levels, StartEncrypt(l) PROVE IInv'
  BY <1>3, OtherSteps DEF StartEncrypt, StartLoop
<1>4. ASSUME NEW k \in Recipient, StartPublicKeySwitch(k) PROVE IInv'
  BY <1>4, OtherSteps DEF StartPublicKeySwitch, StartLoop
<1>5. CASE LoopStep
  BY <1>5, OtherSteps DEF LoopStep
<1>6. ASSUME NEW m \in 0 .. T - 1, NEW u \in Mask, NEW e1 \in Noise, NEW e2 \in Noise,
             FinishEncrypt(m, u, e1, e2)
      PROVE  IInv'
  <2>1. UNCHANGED << sk, gen, board, acc, pk, r1, rlk >>
    BY <1>6 DEF FinishEncrypt
  <2> QED
    BY <2>1, OtherSteps
<1>7. ASSUME NEW z \in ThirdPart, Multiply(z) PROVE IInv'
  <2>1. UNCHANGED << sk, gen, board, acc, pk, r1, rlk >>
    BY <1>7 DEF Multiply
  <2> QED
    BY <2>1, OtherSteps
<1> QED
  BY <1>1, <1>2, <1>3, <1>4, <1>5, <1>6, <1>7, PublishingSteps, FoldSteps, FinishSteps DEF Next

LEMMA AlwaysIInv == Spec => []IInv
  BY Initially, Inductive, PTL DEF Spec

(* Aggregate<PublicKeyShare> makes an encryption of zero under the sum of  *)
(* the secrets that went in, with no more noise than one error a share,    *)
(* for any number of parties and shares in any order.                      *)
THEOREM KeyIsCollective == Spec => []CollectiveKey
<1>1. IInv => CollectiveKey
  BY DEF IInv
<1> QED
  BY <1>1, AlwaysIInv, PTL

(* The two rounds of RelinKeyGen make a key that switches the square of    *)
(* the collective secret, within the noise of its shares, whatever masks   *)
(* the parties drew and however the shares arrived.                        *)
THEOREM RelinKeyIsCollective == Spec => []CollectiveRelinKey
<1>1. IInv => CollectiveRelinKey
  BY DEF IInv
<1> QED
  BY <1>1, AlwaysIInv, PTL

-----------------------------------------------------------------------------
(* What decryption rests on: how far from a message a ciphertext is, and   *)
(* from an encryption of zero a key, and what shares add to them.          *)

Within(x, b) == -b <= x /\ x <= b

(* A public key at some level, with the secret key it is for.              *)
KeyRecord(k, bound) ==
    /\ k = [c |-> k.c, level |-> k.level, key |-> k.key]
    /\ DOMAIN k.c = 1 .. 2 /\ k.c[1] \in Int /\ k.c[2] \in Int
    /\ k.level \in Levels /\ k.key \in Int /\ Within(k.key, bound)

KeyNear(k, noise) == Near(k.c[1] + k.c[2] * k.key, 0, noise, Q(k.level))

RecipientOk(k) ==
    /\ KeyRecord(k, RecipientBound)
    /\ KeyNear(k, AfterSwitching(RecipientNoise, RecipientBound))

CtOk(x) ==
    /\ x \in Ciphertext /\ Len(x.c) \in {2, 3}
    /\ x.good /\ Len(x.c) = 2 =>
          Near(x.c[1] + x.c[2] * x.key, ToPoly(x.m, x.level), CiphertextNoise, Q(x.level))

(* n shares of a key switch of x away from key, and to outKey.             *)
SwitchNear(x, h, key, outKey, n) ==
    Near(h, (key - outKey) * x.c[2], n * NoiseBound, Q(x.level))

(* n shares of a public key switch of x away from key, and to the key of k.*)
PublicSwitchNear(x, k, h0, h1, key, n) ==
    Near(h0 + h1 * k.key, key * x.c[2], n * SwitchNoise, Q(x.level))

OutKey(kind, key) == IF kind = "sks" THEN key ELSE 0

Kind == {"pk", "r1", "r2", "sks", "dec", "pks"}

InRange(h, l) == h \in Seq(Residues(l))

(* What a share has been made against. *)
SourceOk(s) ==
    /\ s.kind \in Kind
    /\ LevelOf(s) \in Levels
    /\ s.kind \in {"sks", "dec"} => CtOk(s.on) /\ Len(s.on.c) = 2
    /\ s.kind = "pks" => CtOk(s.on.ct) /\ s.on.level = s.on.ct.level /\ RecipientOk(s.on.to)

(* Of shares made against the source of s, n of them: x holds the sums.    *)
SumsOk(s, x, outKey, n) ==
    /\ s.kind \in {"sks", "dec"} =>
          SwitchNear(s.on, x.h0[1], x.key, OutKey(s.kind, outKey), n)
    /\ s.kind = "pks" =>
          PublicSwitchNear(s.on.ct, s.on.to, x.h0[1], x.h1[1], x.key, n)

HasRows(s, x) ==
    /\ InRange(x.h0, LevelOf(s))
    /\ s.kind \in {"sks", "dec", "pks"} => 1 \in DOMAIN x.h0
    /\ s.kind = "pks" => 1 \in DOMAIN x.h1 /\ x.h1[1] \in Int

ShareDec(s) ==
    /\ SourceOk(s) /\ HasRows(s, s)
    /\ s.of \in Party /\ s.key \in Int /\ Within(s.key, SecretBound)
    /\ SumsOk(s, s, OutSecret[s.of], 1)

FoldDec(x) ==
    /\ SourceOk(x.first) /\ HasRows(x.first, x)
    /\ x.count \in 1 .. MaxAbsorbed
    /\ x.key \in Int /\ Within(x.key, x.count * SecretBound) /\ x.outKey \in Int
    /\ x.same \in BOOLEAN
    /\ x.same => SumsOk(x.first, x, x.outKey, x.count)

(* Shares of a ciphertext are of the one there is, and there are no shares *)
(* of the public key once it is there.                                     *)
Current(s) ==
    /\ s.kind \in {"sks", "dec"} => ct # None /\ s.on.good = ct.good
    /\ s.kind = "pks" => ct # None /\ s.on.ct.good = ct.good
    /\ s.kind = "pk" => pk = None

BoardDec == \A s \in board : ShareDec(s) /\ Current(s)

AccDec == acc # None => FoldDec(acc) /\ Current(acc.first)

PkDec ==
    pk # None =>
        /\ DOMAIN pk.c = 1 .. 2 /\ pk.c[1] \in Residues(pk.level) /\ pk.c[2] \in Int
        /\ pk.level \in Levels /\ pk.of.key \in Int /\ Within(pk.of.key, KeyBound)
        /\ pk.of.count \in 1 .. MaxAbsorbed /\ pk.of.noise \in Int
        /\ pk.of.same \in BOOLEAN

CtDec == ct # None => CtOk(ct)

LoopDec ==
    loop # None =>
        /\ loop = [k |-> loop.k, target |-> loop.target, use |-> loop.use]
        /\ loop.target \in Levels /\ loop.use \in {"encrypt", "pks"}
        /\ loop.use = "pks" => ct # None /\ loop.target = ct.level /\ RecipientOk(loop.k)
        /\ loop.use = "encrypt" =>
              /\ ct = None /\ pk # None /\ KeyRecord(loop.k, KeyBound)
              /\ loop.k.key = pk.of.key
              /\ pk.of.same =>
                    KeyNear(loop.k, AfterSwitching(MaxAbsorbed * NoiseBound, KeyBound))

OutDec ==
    /\ out # None => ct # None
    /\ WithinBudget => DecryptsTogether /\ SwitchedToOutputKeys /\ SwitchedToPublicKey

PartyDec ==
    /\ task \in {"relin", "cipher"} /\ sk \in Secret
    /\ \A p \in Party : gen[p] # None => gen[p].u \in Mask /\ gen[p].crp \in CrpVector

RlkDec == rlk # None => \A i \in Row : rlk.c0[i] \in Residues(0)

DInv == PartyDec /\ BoardDec /\ AccDec /\ PkDec /\ RlkDec /\ CtDec /\ LoopDec /\ OutDec

-----------------------------------------------------------------------------
(* The moduli. *)

LEMMA ProductDefined ==
    Product = [n \in 0 .. Len(Moduli) |-> IF n = 0 THEN 1 ELSE Moduli[n] * Product[n - 1]]
<1> DEFINE L == Len(Moduli)
           step == [t \in (1 .. L) \X Nat |-> Moduli[t[1]] * t[2]]
<1>1. L \in Nat /\ \A n \in 1 .. L : Moduli[n] \in Nat
  BY MultipartyAssumption
<1>2. step \in [(1 .. L) \X Nat -> Nat]
  BY <1>1
<1> HIDE DEF L
<1>3. \A n \in 1 .. L, x \in Nat : step[<< n, x >>] = Moduli[n] * x
  OBVIOUS
<1> HIDE DEF step
<1>4. PICK g \in [0 .. L -> Nat] : g[0] = 1 /\ \A k \in 1 .. L : g[k] = step[<< k, g[k - 1] >>]
  <2>1. \E g \in [0 .. L -> Nat] : Steps(g, L, 1, step)
    BY <1>1, <1>2, RecursionExists
  <2> QED
    BY <2>1 DEF Steps
<1>5. ASSUME NEW n \in 0 .. L PROVE g[n] = IF n = 0 THEN 1 ELSE Moduli[n] * g[n - 1]
  <2>1. CASE n = 0
    BY <1>4, <2>1
  <2>2. CASE n # 0
    <3>1. n \in 1 .. L /\ n - 1 \in 0 .. L
      BY <1>1, <2>2
    <3> QED
      BY <1>3, <1>4, <2>2, <3>1
  <2> QED
    BY <2>1, <2>2
<1>6. g = [n \in 0 .. L |-> IF n = 0 THEN 1 ELSE Moduli[n] * g[n - 1]]
  BY <1>5
<1> QED
  BY <1>6 DEF Product, L

(* A level less is a modulus less. *)
LEMMA ModulusStep ==
    ASSUME NEW l \in Levels, l < Len(Moduli) - 1
    PROVE  /\ l + 1 \in Levels
           /\ Moduli[Len(Moduli) - l] \in Nat \ {0}
           /\ Q(l) = Moduli[Len(Moduli) - l] * Q(l + 1)
<1> DEFINE L == Len(Moduli)
           n == L - l
<1>1. L \in Nat /\ l \in Int /\ 0 <= l
  BY MultipartyAssumption DEF Levels
<1>2. n \in 1 .. L /\ n # 0 /\ n - 1 = L - (l + 1) /\ l + 1 \in Levels
  BY <1>1 DEF Levels
<1>3. Moduli[n] \in Nat
  BY <1>2, MultipartyAssumption
<1>4. Q(l) = Product[n] /\ Q(l + 1) = Product[n - 1]
  BY <1>2 DEF Q, Modulus
<1>5. Product[n] = Moduli[n] * Product[n - 1]
  BY <1>2, ProductDefined
<1>6. Q(l) \in Nat \ {0} /\ Q(l + 1) \in Nat \ {0}
  BY <1>2, ConstantTypes
<1>7. Moduli[n] # 0
  BY <1>4, <1>5, <1>6
<1> QED
  BY <1>2, <1>3, <1>4, <1>5, <1>7

-----------------------------------------------------------------------------
(* Decoding. *)

(* The representative that is scaled. *)
LEMMA CenteredIs ==
    ASSUME NEW x \in Int, NEW q \in Nat \ {0}
    PROVE  \E j \in Int : /\ Centered(x, q) = x + j * q
                          /\ -q <= 2 * Centered(x, q) /\ 2 * Centered(x, q) < q
<1> DEFINE r == x % q
           d == x \div q
<1>1. r \in Int /\ d \in Int /\ 0 <= r /\ r < q /\ x = d * q + r
  BY Remainder
<1>2. Centered(x, q) = IF 2 * r >= q THEN r - q ELSE r
  BY DEF Centered
<1> HIDE DEF r, d
<1>3. (-d) * q = -(d * q) /\ (-d - 1) * q = -(d * q) - q /\ d * q \in Int
  BY <1>1
<1>4. CASE 2 * r >= q
  <2>1. Centered(x, q) = x + (-d - 1) * q
    BY <1>1, <1>2, <1>3, <1>4
  <2>2. -d - 1 \in Int /\ -q <= 2 * (r - q) /\ 2 * (r - q) < q
    BY <1>1, <1>4
  <2> QED
    BY <1>2, <1>4, <2>1, <2>2
<1>5. CASE 2 * r < q
  <2>1. Centered(x, q) = x + (-d) * q
    BY <1>1, <1>2, <1>3, <1>5
  <2>2. -d \in Int /\ -q <= 2 * r /\ 2 * r < q /\ ~(2 * r >= q)
    BY <1>1, <1>5
  <2> QED
    BY <1>2, <2>1, <2>2
<1> QED
  BY <1>1, <1>4, <1>5

(* What a number close to a message scales to: the message, or the message *)
(* less T, and in the first case the message is in the lower half.         *)
CloseTo(t, q, b, m, M, r, e, C, k) ==
    /\ t \in Nat \ {0} /\ q \in Nat \ {0} /\ b \in Nat /\ m \in 0 .. t - 1
    /\ M \in Int /\ r \in Int /\ e \in Int /\ C \in Int /\ k \in Int
    /\ q * m = M * t + r /\ 0 <= r /\ r < t
    /\ -b <= e /\ e <= b /\ 2 * t * (b + 1) <= q
    /\ C = M + e + k * q /\ -q <= 2 * C /\ 2 * C < q

LEMMA ScaledMessage ==
    ASSUME NEW t, NEW q, NEW b, NEW m, NEW M, NEW r, NEW e, NEW C, NEW k,
           CloseTo(t, q, b, m, M, r, e, C, k)
    PROVE  /\ (2 * t * C + q) \div (2 * q) = m + t * k
           /\ k \in {0, -1}
           /\ k = 0 => 2 * m <= t
<1>. /\ t \in Nat \ {0} /\ q \in Nat \ {0} /\ b \in Nat /\ m \in 0 .. t - 1
     /\ M \in Int /\ r \in Int /\ e \in Int /\ C \in Int /\ k \in Int
  BY DEF CloseTo
<1>0. /\ q * m = M * t + r /\ 0 <= r /\ r < t
      /\ -b <= e /\ e <= b /\ 2 * t * (b + 1) <= q
      /\ C = M + e + k * q /\ -q <= 2 * C /\ 2 * C < q
  BY DEF CloseTo
<1> DEFINE f == t * e
           n == q * m
           w == t * k
           v == t * C
<1>1. -(t * b) <= f /\ f <= t * b /\ 2 * (t * b) + 2 * t <= q
  <2>1. t * (b - e) >= 0 /\ t * (b + e) >= 0
    BY <1>0
  <2>2. t * (b - e) = t * b - f /\ t * (b + e) = t * b + f /\ 2 * t * (b + 1) = 2 * (t * b) + 2 * t
    OBVIOUS
  <2>3. t * b \in Int /\ f \in Int
    OBVIOUS
  <2> QED
    BY <1>0, <2>1, <2>2, <2>3
<1> DEFINE s == q - 2 * r + 2 * f
<1>2. f \in Int /\ n \in Int /\ w \in Int /\ v \in Int /\ t * b \in Int /\ s \in Int
  OBVIOUS
<1>3. 0 < s /\ s < 2 * q
  BY <1>0, <1>1, <1>2
<1>4. v = n - r + f + w * q
  <2>1. t * C = M * t + t * e + (t * k) * q
    BY <1>0
  <2> QED
    BY <1>0, <2>1
<1>5. 2 * t * C + q = (m + w) * (2 * q) + s
  <2>1. 2 * t * C = 2 * v /\ (m + w) * (2 * q) = 2 * n + 2 * (w * q)
    OBVIOUS
  <2>2. w * q \in Int
    BY <1>2
  <2> HIDE DEF v, n, w, f
  <2> QED
    BY <1>2, <1>4, <2>1, <2>2
<1>6. (2 * t * C + q) \div (2 * q) = m + w
  <2> DEFINE z == 2 * t * C + q
             y == m + w
  <2>1. z \in Int /\ y \in Int /\ 2 * q \in Nat \ {0}
    OBVIOUS
  <2>2. z = y * (2 * q) + s
    BY <1>5
  <2> HIDE DEF z, y, s
  <2>3. z \div (2 * q) = y
    BY <1>2, <1>3, <2>1, <2>2, QuotientUnique
  <2> QED
    BY <2>3 DEF z, y
<1>7. -(t * q) <= 2 * v /\ 2 * v < t * q
  <2>1. t * (2 * C + q) >= 0 /\ t * (q - 2 * C) > 0
    BY <1>0
  <2>2. t * (2 * C + q) = 2 * v + t * q /\ t * (q - 2 * C) = t * q - 2 * v
    OBVIOUS
  <2>3. t * q \in Int
    OBVIOUS
  <2> QED
    BY <1>2, <2>1, <2>2, <2>3
<1>8. 0 <= n /\ n <= t * q - q
  <2>1. q * m >= 0 /\ q * (t - 1 - m) >= 0
    OBVIOUS
  <2>2. q * (t - 1 - m) = t * q - q - n
    OBVIOUS
  <2> QED
    BY <1>2, <2>1, <2>2
<1> DEFINE tq == t * q
           g == w * q
<1>9. tq \in Int /\ g \in Int /\ g = k * tq
  OBVIOUS
<1>10. tq >= q /\ tq > 0
  <2>1. (t - 1) * q >= 0 /\ (t - 1) * q = tq - q
    OBVIOUS
  <2> QED
    BY <1>9, <2>1
<1>11. /\ -tq <= 2 * n - 2 * r + 2 * f + 2 * g /\ 2 * n - 2 * r + 2 * f + 2 * g < tq
       /\ 0 <= n /\ n <= tq - q
       /\ -q < 2 * f - 2 * r /\ 2 * f - 2 * r < q
  <2>1. -q < 2 * f - 2 * r /\ 2 * f - 2 * r < q
    BY <1>0, <1>1, <1>2
  <2> QED
    BY <1>2, <1>4, <1>7, <1>8, <2>1
<1>12. k \in {0, -1}
  <2> HIDE DEF f, n, w, v, s, tq, g
  <2>1. CASE k >= 1
    <3>1. (k - 1) * tq >= 0 /\ (k - 1) * tq = k * tq - tq
      BY <1>9, <1>10, <2>1
    <3>2. g >= tq
      BY <1>9, <3>1
    <3> QED
      BY <1>2, <1>9, <1>10, <1>11, <3>2
  <2>2. CASE k <= -2
    <3>1. (-2 - k) * tq >= 0 /\ (-2 - k) * tq = -2 * tq - k * tq
      BY <1>9, <1>10, <2>2
    <3>2. g <= -2 * tq
      BY <1>9, <3>1
    <3> QED
      BY <1>2, <1>9, <1>10, <1>11, <3>2
  <2> QED
    BY <2>1, <2>2
<1>13. ASSUME k = 0 PROVE 2 * m <= t
  <2>1. g = 0
    BY <1>13
  <2>2. 2 * n < tq + q
    <3> HIDE DEF f, n, w, v, s, tq, g
    <3> QED
      BY <1>2, <1>9, <1>11, <2>1
  <2>3. (t + 1 - 2 * m) * q = tq + q - 2 * n
    OBVIOUS
  <2>4. (t + 1 - 2 * m) * q > 0
    <3> DEFINE h == (t + 1 - 2 * m) * q
    <3>1. h \in Int /\ h = tq + q - 2 * n
      BY <2>3
    <3> HIDE DEF f, n, w, v, s, tq, g, h
    <3>2. h > 0
      BY <1>2, <1>9, <2>2, <3>1
    <3> QED
      BY <3>2 DEF h
  <2>5. t + 1 - 2 * m >= 1
    BY <2>4, Positive
  <2> QED
    BY <2>5
<1> QED
  BY <1>6, <1>12, <1>13

(* A number close to an encoded message decodes to it. *)
LEMMA DecodedExact ==
    ASSUME NEW l \in Levels, NEW x \in Int, NEW m \in 0 .. T - 1, NEW b \in Nat,
           Near(x, ToPoly(m, l), b, Q(l)), 2 * T * (b + 1) <= Q(l), 3 * T < 2 * Moduli[1]
    PROVE  Decoded(x, l) = m
<1> DEFINE q == Q(l)
           P == Moduli[1]
           M == ToPoly(m, l)
           r == (q * m) % T
           C == Centered(x, q)
<1>1. q \in Nat \ {0} /\ T \in Nat \ {0} /\ P \in Nat \ {0}
  <2>1. Moduli[1] \in Nat
    BY MultipartyAssumption
  <2> QED
    BY <2>1, ConstantTypes, MultipartyAssumption, SMTT(60)
<1>2. M \in Int /\ r \in Int /\ 0 <= r /\ r < T /\ q * m = M * T + r
  <2> HIDE DEF q
  <2>1. q * m \in Int
    BY <1>1
  <2>2. M = (q * m) \div T
    BY DEF ToPoly, q
  <2> HIDE DEF M
  <2> QED
    BY <1>1, <2>1, <2>2, Remainder
<1>3. PICK e \in Int, j \in Int : -b <= e /\ e <= b /\ x = M + e + j * q
  BY DEF Near
<1> HIDE DEF q, M, r
<1>4. PICK i \in Int : C = x + i * q /\ -q <= 2 * C /\ 2 * C < q
  BY <1>1, CenteredIs
<1>5. C \in Int /\ j + i \in Int /\ C = M + e + (j + i) * q
  <2>1. (j + i) * q = j * q + i * q /\ j * q \in Int /\ i * q \in Int
    BY <1>1
  <2> HIDE DEF C
  <2> QED
    BY <1>1, <1>2, <1>3, <1>4, <2>1
<1> HIDE DEF C
<1> DEFINE k == j + i
<1>6. k \in Int /\ C = M + e + k * q
  BY <1>5
<1> HIDE DEF k
<1>7. 2 * T * (b + 1) <= q
  BY DEF q
<1>8. /\ (2 * T * C + q) \div (2 * q) = m + T * k
      /\ k \in {0, -1} /\ (k = 0 => 2 * m <= T)
  <2>1. CloseTo(T, q, b, m, M, r, e, C, k)
    BY <1>1, <1>2, <1>3, <1>4, <1>5, <1>6, <1>7 DEF CloseTo
  <2> QED
    BY <2>1, ScaledMessage
<1>9. Scaled(x, Q(l)) = m + T * k
  BY <1>8 DEF Scaled, C, q
<1> DEFINE z == m + T * k
<1>10. Decoded(x, l) = (((z % P) + T) % P) % T
  BY <1>9 DEF Decoded
<1>11. 3 * T < 2 * P /\ m \in Int /\ 0 <= m /\ m < T
  BY <1>1
<1> HIDE DEF P
<1>12. m % T = m
  <2>1. m = 0 * T + m
    BY <1>1, <1>11
  <2> QED
    BY <1>1, <1>11, <2>1, RemainderUnique
<1>13. CASE k = 0
  <2>1. z = m /\ 2 * m <= T
    BY <1>1, <1>8, <1>11, <1>13
  <2>2. m % P = m
    <3>1. m = 0 * P + m
      BY <1>1
    <3> QED
      BY <1>1, <1>11, <3>1, RemainderUnique
  <2>3. (m + T) % P = m + T
    <3>1. m + T = 0 * P + (m + T) /\ m + T < P /\ m + T \in Int
      BY <1>1, <1>11, <2>1
    <3> QED
      BY <1>1, <1>11, <3>1, RemainderUnique
  <2>4. (m + T) % T = m
    <3>1. m + T = 1 * T + m /\ m + T \in Int
      BY <1>1
    <3> QED
      BY <1>1, <1>11, <3>1, RemainderUnique
  <2> QED
    BY <1>10, <2>1, <2>2, <2>3, <2>4
<1>14. CASE k = -1
  <2>1. z = m - T
    BY <1>1, <1>14
  <2>2. (m - T) % P = P + m - T
    <3>1. m - T = (-1) * P + (P + m - T) /\ P + m - T < P /\ 0 <= P + m - T
          /\ m - T \in Int /\ P + m - T \in Int
      BY <1>1, <1>11
    <3> QED
      BY <1>1, <3>1, RemainderUnique
  <2>3. (P + m - T) + T = 1 * P + m /\ P + m \in Int
    BY <1>1
  <2>4. (P + m) % P = m
    <3>1. P + m = 1 * P + m /\ m < P
      BY <1>1, <1>11
    <3> QED
      BY <1>1, <1>11, <2>3, <3>1, RemainderUnique
  <2>5. (P + m - T) + T = P + m
    BY <1>1, <1>11
  <2> QED
    BY <1>10, <1>12, <2>1, <2>2, <2>4, <2>5
<1> QED
  BY <1>8, <1>13, <1>14

-----------------------------------------------------------------------------
(* Switching a key down. *)

(* x1 + x2 * s is an error of at most X, and the parts are divided by p.   *)
DividedBy(p, q, x1, x2, s, X) ==
    /\ p \in Nat \ {0} /\ q \in Nat \ {0} /\ X \in Nat
    /\ x1 \in Int /\ x2 \in Int /\ s \in Int
    /\ Within(s, X - 1)
    /\ Near(x1 + x2 * s, 0, X, p * q)

(* Dividing a number by p, to the nearest, is off by half of p at most.    *)
LEMMA Rounding ==
    ASSUME NEW x \in Int, NEW p \in Nat \ {0}
    PROVE  \E d \in Int : /\ -(p \div 2) <= d /\ d <= p \div 2
                          /\ ((x + (p \div 2)) \div p) \in Int
                          /\ ((x + (p \div 2)) \div p) * p = x + d
<1> DEFINE h == p \div 2
           z == (x + h) \div p
           r == (x + h) % p
           i == p % 2
<1>1. h \in Int /\ i \in Int /\ 0 <= i /\ i < 2 /\ p = h * 2 + i
  BY Remainder
<1>2. z \in Int /\ r \in Int /\ 0 <= r /\ r < p /\ x + h = z * p + r
  <2> HIDE DEF h
  <2> QED
    BY <1>1, Remainder
<1> HIDE DEF h, z, r, i
<1>3. -h <= h - r /\ h - r <= h /\ h - r \in Int
  BY <1>1, <1>2
<1>4. z * p = x + (h - r)
  <2>1. z * p \in Int
    BY <1>2
  <2> QED
    BY <1>1, <1>2, <2>1
<1>5. z \in Int /\ -h <= h - r /\ h - r <= h /\ h - r \in Int /\ z * p = x + (h - r)
  BY <1>2, <1>3, <1>4
<1> QED
  BY <1>5 DEF z, h

LEMMA DividedNoise ==
    ASSUME NEW p, NEW q, NEW x1, NEW x2, NEW s, NEW X, DividedBy(p, q, x1, x2, s, X)
    PROVE  Near((((x1 + (p \div 2)) \div p) % q) + (((x2 + (p \div 2)) \div p) % q) * s, 0, X, q)
<1>. /\ p \in Nat \ {0} /\ q \in Nat \ {0} /\ X \in Nat
     /\ x1 \in Int /\ x2 \in Int /\ s \in Int
  BY DEF DividedBy
<1> DEFINE h == p \div 2
           z1 == (x1 + h) \div p
           z2 == (x2 + h) \div p
           y1 == z1 % q
           y2 == z2 % q
           k1 == z1 \div q
           k2 == z2 \div q
<1>1. -(X - 1) <= s /\ s <= X - 1
  BY DEF DividedBy, Within
<1>2. PICK e \in Int, j \in Int : -X <= e /\ e <= X /\ x1 + x2 * s = 0 + e + j * (p * q)
  BY DEF DividedBy, Near
<1>3. h \in Int /\ 0 <= h /\ h + 1 <= p
  OBVIOUS
<1>4. PICK d1 \in Int : -h <= d1 /\ d1 <= h /\ z1 \in Int /\ z1 * p = x1 + d1
  BY Rounding
<1>5. PICK d2 \in Int : -h <= d2 /\ d2 <= h /\ z2 \in Int /\ z2 * p = x2 + d2
  BY Rounding
<1> HIDE DEF h, z1, z2
<1>6. /\ y1 \in Int /\ k1 \in Int /\ z1 = k1 * q + y1
      /\ y2 \in Int /\ k2 \in Int /\ z2 = k2 * q + y2
  BY <1>4, <1>5, Remainder
<1> HIDE DEF y1, y2, k1, k2
<1> DEFINE f == z1 + z2 * s - j * q
           ds == d2 * s
<1>7. f * p = e + d1 + ds
  <2>1. f * p = z1 * p + (z2 * p) * s - j * (p * q)
    BY <1>4, <1>5
  <2>2. (z2 * p) * s = x2 * s + ds
    BY <1>5
  <2>3. /\ f * p \in Int /\ z1 * p \in Int /\ j * (p * q) \in Int /\ x2 * s \in Int /\ ds \in Int
        /\ (z2 * p) * s \in Int
    BY <1>4, <1>5
  <2> HIDE DEF f, ds
  <2> QED
    BY <1>2, <1>4, <2>1, <2>2, <2>3
<1>8. -(h * X) <= d1 + ds /\ d1 + ds <= h * X
  <2>1. -(Abs(s) * h) <= s * d2 /\ s * d2 <= Abs(s) * h
    BY <1>3, <1>5, ScaledError
  <2>2. Abs(s) \in Int /\ Abs(s) <= X - 1
    BY <1>1 DEF Abs
  <2>3. (X - 1 - Abs(s)) * h >= 0
    BY <1>3, <2>2
  <2>4. (X - 1 - Abs(s)) * h = h * X - h - Abs(s) * h
    BY <1>3, <2>2
  <2>5. s * d2 = ds /\ ds \in Int /\ h * X \in Int /\ Abs(s) * h \in Int
    BY <1>3, <2>2
  <2> HIDE DEF ds
  <2> QED
    BY <1>3, <1>4, <2>1, <2>3, <2>4, <2>5
<1>9. -(X * p) <= f * p /\ f * p <= X * p
  <2>1. X * (p - 1 - h) >= 0 /\ X * (p - 1 - h) = X * p - X - h * X
    BY <1>3
  <2>2. X * p \in Int /\ h * X \in Int /\ ds \in Int /\ f * p \in Int
    BY <1>3, <1>4, <1>5
  <2> HIDE DEF f, ds
  <2> QED
    BY <1>2, <1>7, <1>8, <2>1, <2>2
<1>10. -X <= f /\ f <= X /\ f \in Int
  <2>1. f \in Int
    BY <1>4, <1>5
  <2> HIDE DEF f
  <2>2. (X - f) * p >= 0 /\ (X + f) * p >= 0
    <3>1. (X - f) * p = X * p - f * p /\ (X + f) * p = X * p + f * p
      BY <2>1
    <3>2. X * p \in Int /\ f * p \in Int
      BY <2>1
    <3> QED
      BY <1>9, <3>1, <3>2
  <2>3. X - f >= 0 /\ X + f >= 0
    BY <2>1, <2>2, NotNegative
  <2> QED
    BY <2>1, <2>3
<1>11. y1 + y2 * s = 0 + f + (j - k1 - k2 * s) * q
  <2>1. y1 = z1 - k1 * q /\ y2 = z2 - k2 * q
    BY <1>4, <1>5, <1>6
  <2>2. y2 * s = z2 * s - (k2 * s) * q
    BY <1>4, <1>5, <1>6, <2>1
  <2>3. (j - k1 - k2 * s) * q = j * q - k1 * q - (k2 * s) * q
    BY <1>6
  <2>4. /\ z1 \in Int /\ y1 \in Int /\ y2 * s \in Int /\ z2 * s \in Int /\ (k2 * s) * q \in Int
        /\ j * q \in Int /\ k1 * q \in Int
    BY <1>4, <1>5, <1>6
  <2> QED
    BY <2>1, <2>2, <2>3, <2>4
<1>12. j - k1 - k2 * s \in Int
  BY <1>6
<1> HIDE DEF f
<1>13. Near(y1 + y2 * s, 0, X, q)
  BY <1>10, <1>11, <1>12 DEF Near
<1> QED
  BY <1>13 DEF y1, y2, z1, z2, h

-----------------------------------------------------------------------------
(* Numbers near each other. *)

LEMMA NearWeaken ==
    ASSUME NEW x, NEW y, NEW b \in Int, NEW c \in Int, NEW q, Near(x, y, b, q), b <= c
    PROVE  Near(x, y, c, q)
<1>1. PICK e \in Int, k \in Int : -b <= e /\ e <= b /\ x = y + e + k * q
  BY DEF Near
<1>2. -c <= e /\ e <= c
  BY <1>1
<1> QED
  BY <1>1, <1>2 DEF Near

(* A number that is reduced, as the first or the second part.              *)
LEMMA ReducedPart ==
    ASSUME NEW x0 \in Int, NEW x1 \in Int, NEW s \in Int, NEW y \in Int, NEW b \in Int,
           NEW q \in Nat \ {0}, Near(x0 + x1 * s, y, b, q)
    PROVE  Near((x0 % q) + (x1 % q) * s, y, b, q)
<1>1. PICK e \in Int, k \in Int : -b <= e /\ e <= b /\ x0 + x1 * s = y + e + k * q
  BY DEF Near
<1> DEFINE r0 == x0 % q
           d0 == x0 \div q
           r1_ == x1 % q
           d1 == x1 \div q
<1>2. /\ r0 \in Int /\ d0 \in Int /\ x0 = d0 * q + r0
      /\ r1_ \in Int /\ d1 \in Int /\ x1 = d1 * q + r1_
  BY Remainder
<1> HIDE DEF r0, d0, r1_, d1
<1>3. x1 * s = (d1 * s) * q + r1_ * s
  BY <1>2
<1>4. (k - d0 - d1 * s) * q = k * q - d0 * q - (d1 * s) * q
  BY <1>2
<1>5. /\ x1 * s \in Int /\ (d1 * s) * q \in Int /\ r1_ * s \in Int /\ k * q \in Int /\ d0 * q \in Int
      /\ k - d0 - d1 * s \in Int
  BY <1>2
<1>6. r0 + r1_ * s = y + e + (k - d0 - d1 * s) * q
  BY <1>1, <1>2, <1>3, <1>4, <1>5
<1>7. Near(r0 + r1_ * s, y, b, q)
  BY <1>1, <1>5, <1>6 DEF Near
<1> QED
  BY <1>7 DEF r0, r1_

(* Two sums under a key s, added part by part. *)
LEMMA AddedParts ==
    ASSUME NEW x0 \in Int, NEW x1 \in Int, NEW z0 \in Int, NEW z1 \in Int, NEW s \in Int,
           NEW y \in Int, NEW w \in Int, NEW b \in Int, NEW c \in Int, NEW q \in Nat \ {0},
           Near(x0 + x1 * s, y, b, q), Near(z0 + z1 * s, w, c, q)
    PROVE  Near(((x0 + z0) % q) + ((x1 + z1) % q) * s, y + w, b + c, q)
<1> DEFINE f == x0 + x1 * s
           g == z0 + z1 * s
           t0 == x0 + z0
           t1 == x1 + z1
           v == y + w
           d == b + c
<1>1. f \in Int /\ g \in Int /\ t0 \in Int /\ t1 \in Int /\ v \in Int /\ d \in Int
  OBVIOUS
<1>2. f + g = t0 + t1 * s
  OBVIOUS
<1>3. Near(f, y, b, q) /\ Near(g, w, c, q)
  OBVIOUS
<1> HIDE DEF f, g
<1>4. Near(f + g, y + w, b + c, q)
  BY <1>1, <1>3, NearAdd
<1>5. Near(t0 + t1 * s, v, d, q)
  BY <1>2, <1>4
<1> HIDE DEF t0, t1, v, d
<1>6. Near((t0 % q) + (t1 % q) * s, v, d, q)
  BY <1>1, <1>5, ReducedPart
<1> QED
  BY <1>6 DEF t0, t1, v, d

(* A number near to a difference, with the first summand put back.         *)
LEMMA NearShift ==
    ASSUME NEW x \in Int, NEW y \in Int, NEW z \in Int, NEW b \in Int, NEW q \in Nat \ {0},
           Near(x, y, b, q)
    PROVE  Near(x + z, y + z, b, q)
<1>1. PICK e \in Int, k \in Int : -b <= e /\ e <= b /\ x = y + e + k * q
  BY DEF Near
<1>2. x + z = (y + z) + e + k * q
  <2>1. k * q \in Int
    OBVIOUS
  <2> QED
    BY <1>1, <2>1
<1> QED
  BY <1>1, <1>2 DEF Near

(* A product with a mask of at most U in absolute value.                   *)
LEMMA MaskedError ==
    ASSUME NEW u \in Int, NEW U \in Nat, NEW e \in Int, NEW X \in Nat,
           Within(u, U), Within(e, X)
    PROVE  Within(u * e, U * X)
<1>1. -U <= u /\ u <= U /\ -X <= e /\ e <= X
  BY DEF Within
<1>2. -(Abs(u) * X) <= u * e /\ u * e <= Abs(u) * X
  BY <1>1, ScaledError, SMTT(60)
<1>3. Abs(u) \in Int /\ Abs(u) <= U
  BY <1>1 DEF Abs
<1>4. (U - Abs(u)) * X >= 0 /\ (U - Abs(u)) * X = U * X - Abs(u) * X
  BY <1>3
<1>5. U * X \in Int /\ Abs(u) * X \in Int /\ u * e \in Int
  BY <1>3
<1> QED
  BY <1>2, <1>4, <1>5 DEF Within

(* Encryption under a public key << k1, k2 >>, an encryption of zero under *)
(* s with a noise of at most X.                                            *)
Encrypts(k1, k2, s, X, K, u, e1, e2, q) ==
    /\ k1 \in Int /\ k2 \in Int /\ s \in Int /\ u \in Int /\ e1 \in Int /\ e2 \in Int
    /\ X \in Nat /\ K \in Nat /\ q \in Nat \ {0}
    /\ Near(k1 + k2 * s, 0, X, q)
    /\ Within(s, K) /\ Within(u, MaskBound) /\ Within(e1, NoiseBound) /\ Within(e2, NoiseBound)

LEMMA EncryptedNear ==
    ASSUME NEW k1, NEW k2, NEW s, NEW X, NEW K, NEW u, NEW e1, NEW e2, NEW q,
           Encrypts(k1, k2, s, X, K, u, e1, e2, q), NEW M \in Int
    PROVE  Near(((u * k1 + e1 + M) % q) + ((u * k2 + e2) % q) * s, M,
                MaskBound * X + NoiseBound + NoiseBound * K, q)
<1>. /\ k1 \in Int /\ k2 \in Int /\ s \in Int /\ u \in Int /\ e1 \in Int /\ e2 \in Int
     /\ X \in Nat /\ K \in Nat /\ q \in Nat \ {0} /\ MaskBound \in Nat /\ NoiseBound \in Nat
  BY BoundsAssumption, ConstantTypes DEF Encrypts
<1>1. /\ Within(s, K) /\ Within(u, MaskBound) /\ Within(e1, NoiseBound) /\ Within(e2, NoiseBound)
  BY DEF Encrypts
<1>2. PICK e \in Int, k \in Int : -X <= e /\ e <= X /\ k1 + k2 * s = 0 + e + k * q
  BY DEF Encrypts, Near
<1>3. Within(u * e, MaskBound * X)
  BY <1>1, <1>2, MaskedError DEF Within
<1>4. Within(e2 * s, NoiseBound * K)
  BY <1>1, MaskedError
<1> DEFINE x0 == u * k1 + e1 + M
           x1 == u * k2 + e2
           b == MaskBound * X + NoiseBound + NoiseBound * K
           f == u * e + e1 + e2 * s
<1>5. x0 \in Int /\ x1 \in Int /\ b \in Int /\ f \in Int
  OBVIOUS
<1>6. -b <= f /\ f <= b
  <2>1. /\ MaskBound * X \in Int /\ NoiseBound * K \in Int /\ u * e \in Int /\ e2 * s \in Int
    OBVIOUS
  <2> QED
    BY <1>1, <1>3, <1>4, <2>1 DEF Within
<1>7. x0 + x1 * s = M + f + (u * k) * q
  <2>1. x0 + x1 * s = u * (k1 + k2 * s) + e1 + M + e2 * s
    OBVIOUS
  <2>2. u * (0 + e + k * q) = u * e + (u * k) * q
    OBVIOUS
  <2>3. /\ u * e \in Int /\ (u * k) * q \in Int /\ e2 * s \in Int /\ u * (k1 + k2 * s) \in Int
        /\ u * (k1 + k2 * s) = u * (0 + e + k * q)
    BY <1>2
  <2> QED
    BY <2>1, <2>2, <2>3
<1>8. u * k \in Int
  OBVIOUS
<1> HIDE DEF x0, x1, b, f
<1>9. Near(x0 + x1 * s, M, b, q)
  BY <1>5, <1>6, <1>7, <1>8 DEF Near
<1>10. Near((x0 % q) + (x1 % q) * s, M, b, q)
  BY <1>5, <1>9, ReducedPart
<1> QED
  BY <1>10 DEF x0, x1, b

-----------------------------------------------------------------------------
(* Bounds. *)

LEMMA AfterSwitchingIs ==
    ASSUME NEW noise \in Nat, NEW bound \in Nat
    PROVE  /\ AfterSwitching(noise, bound) \in Nat
           /\ noise <= AfterSwitching(noise, bound)
           /\ 1 + bound <= AfterSwitching(noise, bound)
  BY DEF AfterSwitching

LEMMA EncryptionNoiseIs ==
    ASSUME NEW noise \in Nat, NEW bound \in Nat
    PROVE  EncryptionNoise(noise, bound) \in Nat /\ NoiseBound <= EncryptionNoise(noise, bound)
<1>1. AfterSwitching(noise, bound) \in Nat /\ MaskBound \in Nat /\ NoiseBound \in Nat
  BY AfterSwitchingIs, BoundsAssumption, ConstantTypes
<1> DEFINE a == MaskBound * AfterSwitching(noise, bound)
           b == NoiseBound * bound
<1>2. a \in Nat /\ b \in Nat
  BY <1>1
<1>3. EncryptionNoise(noise, bound) = a + NoiseBound + b
  BY DEF EncryptionNoise
<1> HIDE DEF a, b
<1> QED
  BY <1>1, <1>2, <1>3

LEMMA Bounds ==
    /\ MaxAbsorbed \in Nat \ {0} /\ NoiseBound \in Nat /\ MaskBound \in Nat
    /\ SecretBound \in Nat /\ RecipientBound \in Nat /\ RecipientNoise \in Nat
    /\ MaxAbsorbed * NoiseBound \in Nat /\ KeyBound \in Nat
    /\ CiphertextNoise \in Nat /\ SwitchNoise \in Nat /\ NoiseBound <= SwitchNoise
    /\ \A u \in Mask : u \in Int /\ Within(u, MaskBound)
    /\ \A e \in Noise : e \in Int /\ Within(e, NoiseBound)
    /\ \A s \in Secret, p \in Party : s[p] \in Int /\ Within(s[p], SecretBound)
    /\ \A p \in Party : OutSecret[p] \in Int
<1>1. /\ MaxAbsorbed \in Nat \ {0} /\ NoiseBound \in Nat /\ MaskBound \in Nat
      /\ SecretBound \in Nat /\ RecipientBound \in Nat /\ RecipientNoise \in Nat
  BY MultipartyAssumption, BoundsAssumption
<1>2. MaxAbsorbed * NoiseBound \in Nat /\ KeyBound \in Nat
  BY <1>1 DEF KeyBound
<1>3. CiphertextNoise \in Nat /\ SwitchNoise \in Nat /\ NoiseBound <= SwitchNoise
  BY <1>1, <1>2, EncryptionNoiseIs DEF CiphertextNoise, SwitchNoise
<1>4. ASSUME NEW x \in Int, NEW b \in Nat, Abs(x) <= b PROVE Within(x, b)
  BY <1>4 DEF Abs, Within
<1>5. \A u \in Mask : u \in Int /\ Within(u, MaskBound)
  BY <1>1, <1>4, ConstantTypes, BoundsAssumption
<1>6. \A e \in Noise : e \in Int /\ Within(e, NoiseBound)
  BY ConstantTypes DEF Within
<1>7. \A s \in Secret, p \in Party : s[p] \in Int /\ Within(s[p], SecretBound)
  <2>1. \A s \in Secret, p \in Party : s[p] \in Int
    BY MultipartyAssumption
  <2> QED
    BY <1>1, <1>4, <2>1, BoundsAssumption
<1>8. \A p \in Party : OutSecret[p] \in Int
  BY MultipartyAssumption
<1> QED
  BY <1>1, <1>2, <1>3, <1>5, <1>6, <1>7, <1>8

-----------------------------------------------------------------------------
(* The keys. *)

LEMMA SwitchedDownOk ==
    ASSUME NEW k, NEW bound \in Nat, NEW X \in Nat, KeyRecord(k, bound), 1 + bound <= X
    PROVE  /\ KeyRecord(SwitchedDown(k), bound) /\ SwitchedDown(k).key = k.key
           /\ KeyNear(k, X) => KeyNear(SwitchedDown(k), X)
<1>1. CASE ~(k.level < Len(Moduli) - 1)
  BY <1>1 DEF SwitchedDown
<1>2. CASE k.level < Len(Moduli) - 1
  <2> DEFINE l == k.level
             p == Moduli[Len(Moduli) - l]
             j == SwitchedDown(k)
             y(x) == ((x + (p \div 2)) \div p) % Q(l + 1)
  <2>1. /\ k = [c |-> k.c, level |-> l, key |-> k.key]
        /\ DOMAIN k.c = 1 .. 2 /\ k.c[1] \in Int /\ k.c[2] \in Int
        /\ l \in Levels /\ k.key \in Int /\ Within(k.key, bound)
    BY DEF KeyRecord
  <2>2. l + 1 \in Levels /\ p \in Nat \ {0} /\ Q(l) = p * Q(l + 1) /\ Q(l + 1) \in Nat \ {0}
    BY <1>2, <2>1, ModulusStep, ConstantTypes
  <2>3. /\ j = [k EXCEPT !.c = [i \in DOMAIN k.c |-> SwitchDownValue(k.c[i], l)], !.level = l + 1]
        /\ \A x : SwitchDownValue(x, l) = y(x)
    BY <1>2 DEF SwitchedDown, SwitchDownValue
  <2>4. /\ j = [c |-> j.c, level |-> j.level, key |-> j.key]
        /\ j.level = l + 1 /\ j.key = k.key
        /\ j.c = [i \in 1 .. 2 |-> SwitchDownValue(k.c[i], l)]
    <3> HIDE DEF j
    <3> QED
      BY <2>1, <2>3
  <2>5. DOMAIN j.c = 1 .. 2 /\ j.c[1] = y(k.c[1]) /\ j.c[2] = y(k.c[2])
    <3> HIDE DEF j, y
    <3> QED
      BY <2>3, <2>4
  <2>6. ASSUME NEW x \in Int PROVE y(x) \in Int
    <3> DEFINE h == p \div 2
               z == (x + h) \div p
    <3>1. h \in Int
      BY <2>2, Remainder, SMTT(60)
    <3> HIDE DEF h
    <3>2. z \in Int
      <4> HIDE DEF p
      <4> QED
        BY <2>2, <3>1, Remainder
    <3> HIDE DEF z
    <3>3. z % Q(l + 1) \in Int
      BY <2>2, <3>2, Remainder
    <3> QED
      BY <3>3 DEF z, h
  <2>7. KeyRecord(j, bound)
    <3> HIDE DEF j, y
    <3> QED
      BY <2>1, <2>2, <2>4, <2>5, <2>6 DEF KeyRecord
  <2>8. ASSUME KeyNear(k, X) PROVE KeyNear(j, X)
    <3>1. Within(k.key, X - 1)
      BY <2>1 DEF Within
    <3>2. DividedBy(p, Q(l + 1), k.c[1], k.c[2], k.key, X)
      <4> HIDE DEF p
      <4> QED
        BY <2>1, <2>2, <2>8, <3>1 DEF DividedBy, KeyNear
    <3>3. Near(y(k.c[1]) + y(k.c[2]) * k.key, 0, X, Q(l + 1))
      <4> HIDE DEF p
      <4> QED
        BY <3>2, DividedNoise
    <3> HIDE DEF j, y
    <3> QED
      BY <2>4, <2>5, <3>3 DEF KeyNear
  <2> QED
    BY <2>4, <2>7, <2>8
<1> QED
  BY <1>1, <1>2

(* What the recipients publish is as the constants say.                    *)
LEMMA RecipientsOk ==
    ASSUME NEW k \in Recipient
    PROVE  RecipientOk(k)
<1> DEFINE q == Q(k.level)
           x == k.c[1] + k.c[2] * k.key
           X == AfterSwitching(RecipientNoise, RecipientBound)
<1>1. /\ k \in [c : Int \X Int, level : Levels, key : -RecipientBound .. RecipientBound]
      /\ Abs(Centered(x, q)) <= RecipientNoise
      /\ RecipientBound \in Nat /\ RecipientNoise \in Nat
  BY BoundsAssumption
<1>2. KeyRecord(k, RecipientBound)
  BY <1>1 DEF KeyRecord, Within
<1>3. q \in Nat \ {0} /\ x \in Int
  BY <1>2, ConstantTypes DEF KeyRecord
<1> HIDE DEF q, x
<1>4. PICK j \in Int : Centered(x, q) = x + j * q
  BY <1>3, CenteredIs
<1> DEFINE e == x + j * q
<1>5. e \in Int /\ -RecipientNoise <= e /\ e <= RecipientNoise
  <2>1. e \in Int
    BY <1>3
  <2>2. Abs(e) <= RecipientNoise
    BY <1>1, <1>4
  <2> HIDE DEF e
  <2> QED
    BY <1>1, <2>1, <2>2 DEF Abs
<1>6. x = 0 + e + (-j) * q
  BY <1>3
<1>7. Near(x, 0, RecipientNoise, q)
  <2> HIDE DEF e
  <2> QED
    BY <1>5, <1>6 DEF Near
<1>8. X \in Nat /\ RecipientNoise <= X
  BY <1>1, AfterSwitchingIs
<1> HIDE DEF X
<1>9. Near(x, 0, X, q)
  BY <1>1, <1>7, <1>8, NearWeaken
<1> QED
  BY <1>2, <1>9 DEF RecipientOk, KeyNear, X, x, q

-----------------------------------------------------------------------------
(* The shares. *)

LEMMA ReducedIs ==
    ASSUME NEW l \in Levels, NEW x \in Int
    PROVE  x % Q(l) \in Residues(l) /\ x % Q(l) \in Int
  BY ConstantTypes, Remainder DEF Residues

LEMMA RowsRange ==
    ASSUME NEW l, NEW n \in Nat, NEW h, h = [i \in 1 .. n |-> h[i]],
           \A i \in 1 .. n : h[i] \in Residues(l)
    PROVE  InRange(h, l)
  BY DEF InRange

LEMMA RangeIs ==
    ASSUME NEW l \in Levels, NEW h, InRange(h, l)
    PROVE  /\ DOMAIN h = 1 .. Len(h)
           /\ \A i \in DOMAIN h : h[i] \in Residues(l) /\ h[i] \in Int
<1>1. h \in Seq(Residues(l)) /\ Q(l) \in Nat
  BY ConstantTypes DEF InRange
<1>2. \A r \in Residues(l) : r \in Int
  BY <1>1 DEF Residues
<1> QED
  BY <1>1, <1>2

(* A number and an error, reduced. *)
LEMMA NoisyNear ==
    ASSUME NEW l \in Levels, NEW y \in Int, NEW e \in Noise
    PROVE  /\ (y + e) % Q(l) \in Residues(l) /\ (y + e) % Q(l) \in Int
           /\ Near((y + e) % Q(l), y, NoiseBound, Q(l))
<1>1. Q(l) \in Nat \ {0} /\ NoiseBound \in Int /\ e \in Int /\ -NoiseBound <= e /\ e <= NoiseBound
  BY ConstantTypes
<1>2. Near(y + e, y, NoiseBound, Q(l)) /\ y + e \in Int
  BY <1>1, NearSame
<1> QED
  BY <1>1, <1>2, NearMod, ReducedIs

LEMMA CiphertextFields ==
    ASSUME NEW x \in Ciphertext
    PROVE  /\ x.level \in Levels /\ x.m \in 0 .. T - 1 /\ x.key \in Int /\ x.good \in BOOLEAN
           /\ x.c \in Seq(Int)
  BY Zenon DEF Ciphertext

LEMMA CtTypes ==
    ASSUME NEW x, CtOk(x)
    PROVE  /\ x.level \in Levels /\ Q(x.level) \in Nat \ {0}
           /\ x.m \in 0 .. T - 1 /\ x.key \in Int /\ x.good \in BOOLEAN
           /\ x.c[1] \in Int /\ x.c[2] \in Int
<1>1. x \in Ciphertext /\ Len(x.c) \in {2, 3}
  BY DEF CtOk
<1>0. /\ x.level \in Levels /\ x.m \in 0 .. T - 1 /\ x.key \in Int /\ x.good \in BOOLEAN
      /\ x.c \in Seq(Int)
  BY <1>1, CiphertextFields
<1>2. 1 \in 1 .. Len(x.c) /\ 2 \in 1 .. Len(x.c)
  <2>1. \A n \in {2, 3} : 1 \in 1 .. n /\ 2 \in 1 .. n
    OBVIOUS
  <2> QED
    BY <1>1, <2>1, Zenon
<1>3. x.c[1] \in Int /\ x.c[2] \in Int
  BY <1>0, <1>2
<1> QED
  BY <1>0, <1>3, ConstantTypes

LEMMA SwitchShareOk ==
    ASSUME PartyDec, NEW p \in Party, NEW x, CtOk(x), Len(x.c) = 2, NEW e \in Noise,
           NEW kind \in {"sks", "dec"}
    PROVE  ShareDec(SecretKeySwitchShare(p, x, OutKey(kind, OutSecret[p]), e, kind))
<1> DEFINE o == OutKey(kind, OutSecret[p])
           s == SecretKeySwitchShare(p, x, o, e, kind)
           l == x.level
           y == (sk[p] - o) * x.c[2]
<1>1. o \in Int
  BY Bounds DEF OutKey
<1>2. l \in Levels /\ x.c[2] \in Int
  BY CtTypes
<1>3. sk[p] \in Int /\ Within(sk[p], SecretBound)
  BY Bounds DEF PartyDec
<1>4. /\ s.kind = kind /\ s.of = p /\ s.on = x /\ s.key = sk[p]
      /\ s.h0 = << (y + e) % Q(l) >>
  BY DEF SecretKeySwitchShare, Share
<1>5. LevelOf(s) = l
  BY <1>4 DEF LevelOf
<1> HIDE DEF s
<1>6. y \in Int
  BY <1>1, <1>2, <1>3
<1> HIDE DEF y, l
<1>7. DOMAIN s.h0 = {1} /\ s.h0[1] = (y + e) % Q(l)
  BY <1>4
<1>8. s.h0[1] \in Residues(l) /\ Near(s.h0[1], y, NoiseBound, Q(l))
  BY <1>2, <1>6, <1>7, NoisyNear
<1>9. SourceOk(s)
  BY <1>2, <1>4, <1>5 DEF SourceOk, Kind
<1>10. HasRows(s, s)
  BY <1>4, <1>5, <1>7, <1>8 DEF HasRows, InRange
<1>11. SwitchNear(s.on, s.h0[1], s.key, OutKey(s.kind, OutSecret[s.of]), 1)
  <2>1. 1 * NoiseBound = NoiseBound
    BY Bounds
  <2> QED
    BY <1>4, <1>8, <2>1 DEF SwitchNear, y, l
<1>12. SumsOk(s, s, OutSecret[s.of], 1)
  BY <1>4, <1>11 DEF SumsOk
<1>13. ShareDec(s)
  BY <1>3, <1>4, <1>9, <1>10, <1>12 DEF ShareDec
<1> QED
  BY <1>13 DEF s

LEMMA PublicSwitchShareOk ==
    ASSUME PartyDec, NEW p \in Party, NEW x, CtOk(x), NEW k, RecipientOk(k), k.level = x.level,
           NEW u \in Mask, NEW e0 \in Noise, NEW e1 \in Noise
    PROVE  ShareDec(PublicKeySwitchShare(p, x, k, u, e0, e1))
<1> DEFINE s == PublicKeySwitchShare(p, x, k, u, e0, e1)
           l == x.level
           M == sk[p] * x.c[2]
           X == AfterSwitching(RecipientNoise, RecipientBound)
<1>1. /\ l \in Levels /\ x.c[2] \in Int /\ Q(l) \in Nat \ {0}
  BY CtTypes
<1>2. sk[p] \in Int /\ Within(sk[p], SecretBound)
  BY Bounds DEF PartyDec
<1>3. /\ k.c[1] \in Int /\ k.c[2] \in Int /\ k.key \in Int /\ Within(k.key, RecipientBound)
      /\ Near(k.c[1] + k.c[2] * k.key, 0, X, Q(l))
  BY DEF RecipientOk, KeyRecord, KeyNear
<1>4. u \in Int /\ e0 \in Int /\ e1 \in Int /\ M \in Int /\ X \in Nat
  <2>1. u \in Int /\ e0 \in Int /\ e1 \in Int
    BY Bounds
  <2>2. M \in Int
    BY <1>1, <1>2
  <2>3. X \in Nat
    BY Bounds, AfterSwitchingIs
  <2> QED
    BY <2>1, <2>2, <2>3
<1>5. Within(u, MaskBound) /\ Within(e0, NoiseBound) /\ Within(e1, NoiseBound)
  BY Bounds
<1> DEFINE h0 == (u * k.c[1] + e0 + M) % Q(l)
           h1 == (u * k.c[2] + e1) % Q(l)
<1>6. /\ s.kind = "pks" /\ s.of = p /\ s.key = sk[p]
      /\ s.on = [level |-> l, ct |-> x, to |-> k]
      /\ s.h0 = << (k.c[1] * u + M + e0) % Q(l) >> /\ s.h1 = << (k.c[2] * u + e1) % Q(l) >>
  BY DEF PublicKeySwitchShare, Share
<1>7. s.h0 = << h0 >> /\ s.h1 = << h1 >>
  <2> DEFINE a == k.c[1]
             b == k.c[2]
  <2>1. a \in Int /\ b \in Int
    BY <1>3
  <2> HIDE DEF a, b, M
  <2>2. a * u + M + e0 = u * a + e0 + M /\ b * u + e1 = u * b + e1
    BY <1>4, <2>1
  <2> QED
    BY <1>6, <2>2 DEF a, b
<1>8. h0 \in Residues(l) /\ h1 \in Int
  BY <1>1, <1>3, <1>4, ReducedIs
<1>9. Encrypts(k.c[1], k.c[2], k.key, X, RecipientBound, u, e0, e1, Q(l))
  <2> HIDE DEF X
  <2> QED
    BY <1>1, <1>3, <1>4, <1>5, Bounds DEF Encrypts
<1>10. Near(h0 + h1 * k.key, M, MaskBound * X + NoiseBound + NoiseBound * RecipientBound, Q(l))
  <2> HIDE DEF X
  <2> QED
    BY <1>4, <1>9, EncryptedNear
<1>11. Near(h0 + h1 * k.key, M, SwitchNoise, Q(l))
  BY <1>10 DEF SwitchNoise, EncryptionNoise
<1> HIDE DEF s, h0, h1
<1>12. LevelOf(s) = l
  BY <1>6 DEF LevelOf
<1>13. SourceOk(s)
  BY <1>1, <1>6, <1>12 DEF SourceOk, Kind
<1>14. HasRows(s, s)
  BY <1>6, <1>7, <1>8, <1>12 DEF HasRows, InRange
<1>15. SumsOk(s, s, OutSecret[s.of], 1)
  <2>1. 1 * SwitchNoise = SwitchNoise
    BY Bounds
  <2>2. PublicSwitchNear(s.on.ct, s.on.to, s.h0[1], s.h1[1], s.key, 1)
    BY <1>6, <1>7, <1>11, <2>1 DEF PublicSwitchNear
  <2> QED
    BY <1>6, <2>2 DEF SumsOk
<1>16. ShareDec(s)
  BY <1>2, <1>6, <1>13, <1>14, <1>15 DEF ShareDec
<1> QED
  BY <1>16 DEF s

(* The other shares are within the modulus of their level.                 *)
LEMMA OtherShareOk ==
    ASSUME PartyDec, NEW p \in Party, NEW s, s.of = p, s.key = sk[p],
           s.kind \in {"pk", "r1", "r2"}, LevelOf(s) \in Levels, InRange(s.h0, LevelOf(s))
    PROVE  ShareDec(s)
<1>1. sk[p] \in Int /\ Within(sk[p], SecretBound)
  BY Bounds DEF PartyDec
<1>2. SourceOk(s) /\ HasRows(s, s) /\ SumsOk(s, s, OutSecret[s.of], 1)
  BY DEF SourceOk, HasRows, SumsOk, Kind
<1> QED
  BY <1>1, <1>2 DEF ShareDec

LEMMA PublicKeyShareDec ==
    ASSUME PartyDec, NEW p \in Party, NEW c \in Crp, NEW e \in Noise
    PROVE  ShareDec(PublicKeyShare(p, c, e))
<1> DEFINE s == PublicKeyShare(p, c, e)
           y == -c.a * sk[p] + e
<1>1. c.a \in Int /\ c.level \in Levels /\ sk[p] \in Int /\ e \in Int
  BY ConstantTypes, Bounds DEF PartyDec
<1>2. y \in Int
  BY <1>1
<1>3. s.kind = "pk" /\ s.of = p /\ s.key = sk[p] /\ s.on = c /\ s.h0 = << y % Q(c.level) >>
  BY DEF PublicKeyShare, Share
<1> HIDE DEF s, y
<1>4. LevelOf(s) = c.level
  BY <1>3 DEF LevelOf
<1>5. InRange(s.h0, LevelOf(s))
  BY <1>1, <1>2, <1>3, <1>4, ReducedIs DEF InRange
<1>6. ShareDec(s)
  BY <1>1, <1>3, <1>4, <1>5, OtherShareOk
<1> QED
  BY <1>6 DEF s

LEMMA RelinShareDec ==
    ASSUME IInv, PartyDec, NEW p \in Party, gen[p] # None,
           NEW e0 \in NoiseRow, NEW e1 \in NoiseRow
    PROVE  /\ ShareDec(RelinRound1(p, e0, e1))
           /\ \A r \in r1 : ShareDec(RelinRound2(p, r, e0, e1))
<1>1. /\ gen[p].crp \in Rows /\ gen[p].u \in Int /\ sk[p] \in Int
      /\ \A i \in Row : e0[i] \in Int /\ Garner[i] \in Int
      /\ 0 \in Levels
  BY ConstantTypes DEF IInv, PartyInv
<1>2. ShareDec(RelinRound1(p, e0, e1))
  <2> DEFINE s == RelinRound1(p, e0, e1)
             a == gen[p].crp
             u == gen[p].u
             y == [i \in Row |-> -a[i] * u + Garner[i] * sk[p] + e0[i]]
  <2>1. \A i \in Row : y[i] \in Int
    BY <1>1 DEF Rows
  <2>2. /\ s.kind = "r1" /\ s.of = p /\ s.key = sk[p]
        /\ s.h0 = [i \in Row |-> y[i] % Q(0)]
    BY DEF RelinRound1, Share
  <2> HIDE DEF s, y
  <2>3. LevelOf(s) = 0
    BY <2>2 DEF LevelOf
  <2>4. InRange(s.h0, 0)
    <3>1. s.h0 = [i \in 1 .. Len(Moduli) |-> s.h0[i]] /\ Len(Moduli) \in Nat
      BY <2>2, MultipartyAssumption DEF Row
    <3>2. \A i \in 1 .. Len(Moduli) : s.h0[i] \in Residues(0)
      BY <1>1, <2>1, <2>2, ReducedIs DEF Row
    <3> QED
      BY <3>1, <3>2, RowsRange
  <2>5. ShareDec(s)
    BY <1>1, <2>2, <2>3, <2>4, OtherShareOk
  <2> QED
    BY <2>5 DEF s
<1>3. ASSUME NEW r \in r1 PROVE ShareDec(RelinRound2(p, r, e0, e1))
  <2> DEFINE s == RelinRound2(p, r, e0, e1)
             y == [i \in Row |-> r.h0[i] * sk[p] + e0[i]]
  <2>1. \A i \in Row : y[i] \in Int
    BY <1>1 DEF IInv, RoundsInv, RoundOk, Rows
  <2>2. /\ s.kind = "r2" /\ s.of = p /\ s.key = sk[p]
        /\ s.h0 = [i \in Row |-> y[i] % Q(0)]
    BY DEF RelinRound2, Share
  <2> HIDE DEF s, y
  <2>3. LevelOf(s) = 0
    BY <2>2 DEF LevelOf
  <2>4. InRange(s.h0, 0)
    <3>1. s.h0 = [i \in 1 .. Len(Moduli) |-> s.h0[i]] /\ Len(Moduli) \in Nat
      BY <2>2, MultipartyAssumption DEF Row
    <3>2. \A i \in 1 .. Len(Moduli) : s.h0[i] \in Residues(0)
      BY <1>1, <2>1, <2>2, ReducedIs DEF Row
    <3> QED
      BY <3>1, <3>2, RowsRange
  <2>5. ShareDec(s)
    BY <1>1, <2>2, <2>3, <2>4, OtherShareOk
  <2> QED
    BY <2>5 DEF s
<1> QED
  BY <1>2, <1>3

-----------------------------------------------------------------------------
(* Aggregation. *)

LEMMA FirstDec ==
    ASSUME NEW s, ShareDec(s)
    PROVE  FoldDec(First(s)) /\ First(s).first = s
<1> DEFINE x == First(s)
<1>1. /\ x.first = s /\ x.h0 = s.h0 /\ x.h1 = s.h1 /\ x.count = 1
      /\ x.key = s.key /\ x.outKey = OutSecret[s.of]
  BY DEF First
<1> HIDE DEF x
<1>2. x.count \in 1 .. MaxAbsorbed
  BY <1>1, Bounds
<1>3. x.key \in Int /\ Within(x.key, x.count * SecretBound) /\ x.outKey \in Int
  <2>1. x.count * SecretBound = SecretBound
    BY <1>1, Bounds
  <2> QED
    BY <1>1, <2>1, Bounds DEF ShareDec
<1>4. HasRows(s, x) /\ SumsOk(s, x, x.outKey, x.count)
  BY <1>1 DEF ShareDec, HasRows, SumsOk
<1>5. x.same \in BOOLEAN
  BY DEF First, x
<1> QED
  BY <1>1, <1>2, <1>3, <1>4, <1>5 DEF FoldDec, ShareDec, x

LEMMA WithinAdd ==
    ASSUME NEW x \in Int, NEW y \in Int, NEW n \in Nat, NEW b \in Nat,
           Within(x, n * b), Within(y, b)
    PROVE  Within(x + y, (n + 1) * b)
<1>1. (n + 1) * b = n * b + b /\ n * b \in Int
  OBVIOUS
<1> QED
  BY <1>1 DEF Within

(* A sum of reduced rows has the rows of the first.                        *)
LEMMA AddRowsRange ==
    ASSUME NEW l \in Levels, NEW x, NEW y, InRange(x, l),
           \A i \in DOMAIN x : x[i] \in Int /\ y[i] \in Int
    PROVE  /\ InRange(AddRows(x, y, l), l)
           /\ DOMAIN AddRows(x, y, l) = DOMAIN x
           /\ \A i \in DOMAIN x : AddRows(x, y, l)[i] = (x[i] + y[i]) % Q(l)
<1>1. DOMAIN AddRows(x, y, l) = DOMAIN x
  BY DEF AddRows
<1>2. \A i \in DOMAIN x : AddRows(x, y, l)[i] = (x[i] + y[i]) % Q(l)
  BY DEF AddRows
<1>3. \A i \in DOMAIN x : AddRows(x, y, l)[i] \in Residues(l)
  BY <1>2, ReducedIs
<1>4. DOMAIN x = 1 .. Len(x) /\ Len(x) \in Nat
  BY DEF InRange
<1>5. InRange(AddRows(x, y, l), l)
  <2> DEFINE h == AddRows(x, y, l)
  <2>1. h = [i \in 1 .. Len(x) |-> h[i]]
    BY <1>4 DEF AddRows
  <2>2. \A i \in 1 .. Len(x) : h[i] \in Residues(l)
    BY <1>3, <1>4
  <2> HIDE DEF h
  <2>3. InRange(h, l)
    BY <1>4, <2>1, <2>2, RowsRange
  <2> QED
    BY <2>3 DEF h
<1> QED
  BY <1>1, <1>2, <1>5

(* Shares of a key switch, added. *)
LEMMA SwitchFolded ==
    ASSUME NEW c, CtOk(c), NEW h \in Int, NEW g \in Int,
           NEW key \in Int, NEW key2 \in Int, NEW o \in Int, NEW o2 \in Int, NEW n \in Nat,
           SwitchNear(c, h, key, o, n), SwitchNear(c, g, key2, o2, 1)
    PROVE  SwitchNear(c, (h + g) % Q(c.level), key + key2, o + o2, n + 1)
<1> DEFINE l == c.level
           c2 == c.c[2]
           y == (key - o) * c2
           w == (key2 - o2) * c2
           b == n * NoiseBound
           d == 1 * NoiseBound
           r == (h + g) % Q(l)
<1>1. l \in Levels /\ c2 \in Int /\ NoiseBound \in Nat
  BY Bounds, CtTypes
<1>2. y \in Int /\ w \in Int /\ b \in Int /\ d \in Int
  BY <1>1
<1>3. Near(h, y, b, Q(l)) /\ Near(g, w, d, Q(l))
  BY DEF SwitchNear
<1>4. /\ y + w = ((key + key2) - (o + o2)) * c2
      /\ b + d = (n + 1) * NoiseBound
  BY <1>1
<1> HIDE DEF y, w, b, d
<1>5. Near(r, y + w, b + d, Q(l))
  <2> HIDE DEF l
  <2> QED
    BY <1>1, <1>2, <1>3, AddedNear
<1> QED
  BY <1>4, <1>5 DEF SwitchNear

LEMMA PublicSwitchFolded ==
    ASSUME NEW c, CtOk(c), NEW k, RecipientOk(k), NEW h0 \in Int, NEW h1 \in Int,
           NEW g0 \in Int, NEW g1 \in Int, NEW key \in Int, NEW key2 \in Int, NEW n \in Nat,
           PublicSwitchNear(c, k, h0, h1, key, n), PublicSwitchNear(c, k, g0, g1, key2, 1)
    PROVE  PublicSwitchNear(c, k, (h0 + g0) % Q(c.level), (h1 + g1) % Q(c.level), key + key2, n + 1)
<1> DEFINE q == Q(c.level)
           c2 == c.c[2]
           y == key * c2
           w == key2 * c2
           b == n * SwitchNoise
           d == 1 * SwitchNoise
           s == k.key
<1>1. q \in Nat \ {0} /\ c2 \in Int /\ SwitchNoise \in Nat /\ s \in Int
  BY Bounds, CtTypes DEF RecipientOk, KeyRecord
<1>2. y \in Int /\ w \in Int /\ b \in Int /\ d \in Int
  BY <1>1
<1>3. Near(h0 + h1 * s, y, b, q) /\ Near(g0 + g1 * s, w, d, q)
  BY DEF PublicSwitchNear
<1>4. y + w = (key + key2) * c2 /\ b + d = (n + 1) * SwitchNoise
  BY <1>1
<1> HIDE DEF y, w, b, d
<1>5. Near(((h0 + g0) % q) + ((h1 + g1) % q) * s, y + w, b + d, q)
  <2> HIDE DEF q, s
  <2> QED
    BY <1>1, <1>2, <1>3, AddedParts
<1> QED
  BY <1>4, <1>5 DEF PublicSwitchNear

LEMMA FoldedDec ==
    ASSUME NEW x, FoldDec(x), x.count < MaxAbsorbed, NEW s, ShareDec(s),
           s.kind = x.first.kind, LevelOf(s) = LevelOf(x.first), Len(s.h0) = Len(x.h0)
    PROVE  FoldDec(Folded(x, s)) /\ Folded(x, s).first = x.first
<1> DEFINE f == Folded(x, s)
           l == LevelOf(x.first)
           k == x.first.kind
<1>1. /\ f.first = x.first /\ f.h0 = AddRows(x.h0, s.h0, l) /\ f.h1 = AddRows(x.h1, s.h1, l)
      /\ f.count = x.count + 1 /\ f.key = x.key + s.key /\ f.outKey = x.outKey + OutSecret[s.of]
  BY FoldedFields DEF Folded
<1>2. f.same => x.same /\ s.on = x.first.on
  BY FoldedSame
<1>0. f.same \in BOOLEAN
  BY Zenon DEF Folded
<1> HIDE DEF f
<1>3. l \in Levels /\ SourceOk(x.first)
  BY DEF FoldDec, SourceOk
<1>4. /\ x.count \in 1 .. MaxAbsorbed /\ x.key \in Int /\ x.outKey \in Int
      /\ Within(x.key, x.count * SecretBound)
      /\ s.key \in Int /\ Within(s.key, SecretBound) /\ OutSecret[s.of] \in Int
  BY Bounds DEF FoldDec, ShareDec
<1>5. f.count \in 1 .. MaxAbsorbed /\ f.key \in Int /\ f.outKey \in Int
  BY <1>1, <1>4, Bounds, SMTT(60)
<1>6. Within(f.key, f.count * SecretBound)
  <2>1. x.count \in Nat /\ SecretBound \in Nat
    BY <1>4, Bounds
  <2> QED
    BY <1>1, <1>4, <2>1, WithinAdd
<1>7. \A i \in DOMAIN x.h0 : x.h0[i] \in Int /\ s.h0[i] \in Int
  <2>1. InRange(x.h0, l)
    BY DEF FoldDec, HasRows
  <2>2. InRange(s.h0, l)
    BY DEF ShareDec, HasRows
  <2> HIDE DEF l
  <2>3. DOMAIN x.h0 = DOMAIN s.h0
    BY <1>3, <2>1, <2>2, RangeIs
  <2> QED
    BY <1>3, <2>1, <2>2, <2>3, RangeIs
<1>8. /\ InRange(f.h0, l) /\ DOMAIN f.h0 = DOMAIN x.h0
      /\ \A i \in DOMAIN x.h0 : f.h0[i] = (x.h0[i] + s.h0[i]) % Q(l)
  <2>1. InRange(x.h0, l)
    BY DEF FoldDec, HasRows
  <2> HIDE DEF l
  <2> QED
    BY <1>1, <1>3, <1>7, <2>1, AddRowsRange
<1>9. k = "pks" => /\ 1 \in DOMAIN f.h1 /\ f.h1[1] = (x.h1[1] + s.h1[1]) % Q(l)
                   /\ f.h1[1] \in Int /\ x.h1[1] \in Int /\ s.h1[1] \in Int
  <2> SUFFICES ASSUME k = "pks"
               PROVE  /\ 1 \in DOMAIN f.h1 /\ f.h1[1] = (x.h1[1] + s.h1[1]) % Q(l)
                      /\ f.h1[1] \in Int /\ x.h1[1] \in Int /\ s.h1[1] \in Int
    OBVIOUS
  <2>1. 1 \in DOMAIN x.h1 /\ x.h1[1] \in Int /\ s.h1[1] \in Int
    BY DEF FoldDec, ShareDec, HasRows
  <2>2. 1 \in DOMAIN f.h1 /\ f.h1[1] = (x.h1[1] + s.h1[1]) % Q(l)
    BY <1>1, <2>1 DEF AddRows
  <2> QED
    BY <1>3, <2>1, <2>2, AddedInt
<1>10. HasRows(x.first, f)
  BY <1>8, <1>9 DEF FoldDec, HasRows
<1>11. ASSUME f.same PROVE SumsOk(x.first, f, f.outKey, f.count)
  <2>1. x.same /\ s.on = x.first.on
    BY <1>2, <1>11
  <2>2. SumsOk(x.first, x, x.outKey, x.count) /\ SumsOk(s, s, OutSecret[s.of], 1)
    BY <2>1 DEF FoldDec, ShareDec
  <2>3. ASSUME k \in {"sks", "dec"}
        PROVE  SwitchNear(x.first.on, f.h0[1], f.key, OutKey(k, f.outKey), f.count)
    <3> DEFINE c == x.first.on
               o == OutKey(k, x.outKey)
               o2 == OutKey(k, OutSecret[s.of])
    <3>1. CtOk(c) /\ l = c.level
      BY <1>3, <2>3 DEF SourceOk, LevelOf
    <3>2. SwitchNear(c, x.h0[1], x.key, o, x.count) /\ SwitchNear(c, s.h0[1], s.key, o2, 1)
      BY <2>1, <2>2, <2>3 DEF SumsOk
    <3>3. o \in Int /\ o2 \in Int /\ OutKey(k, f.outKey) = o + o2
      BY <1>1, <1>4 DEF OutKey
    <3>4. 1 \in DOMAIN x.h0 /\ x.h0[1] \in Int /\ s.h0[1] \in Int
      BY <1>7, <2>3 DEF FoldDec, HasRows
    <3>5. x.count \in Nat
      BY <1>4, Bounds, SMTT(60)
    <3> HIDE DEF o, o2, c
    <3>6. SwitchNear(c, (x.h0[1] + s.h0[1]) % Q(c.level), x.key + s.key, o + o2, x.count + 1)
      BY <1>4, <3>1, <3>2, <3>3, <3>4, <3>5, SwitchFolded
    <3> QED
      BY <1>1, <1>8, <3>1, <3>3, <3>4, <3>6 DEF c
  <2>4. ASSUME k = "pks"
        PROVE  PublicSwitchNear(x.first.on.ct, x.first.on.to, f.h0[1], f.h1[1], f.key, f.count)
    <3> DEFINE c == x.first.on.ct
               t == x.first.on.to
    <3>1. CtOk(c) /\ l = c.level /\ RecipientOk(t)
      BY <1>3, <2>4 DEF SourceOk, LevelOf
    <3>2. /\ PublicSwitchNear(c, t, x.h0[1], x.h1[1], x.key, x.count)
          /\ PublicSwitchNear(c, t, s.h0[1], s.h1[1], s.key, 1)
      BY <2>1, <2>2, <2>4 DEF SumsOk
    <3>3. 1 \in DOMAIN x.h0 /\ x.h0[1] \in Int /\ s.h0[1] \in Int
      BY <1>7, <2>4 DEF FoldDec, HasRows
    <3>4. x.count \in Nat
      BY <1>4, Bounds
    <3> HIDE DEF c, t
    <3>5. PublicSwitchNear(c, t, (x.h0[1] + s.h0[1]) % Q(c.level),
                           (x.h1[1] + s.h1[1]) % Q(c.level), x.key + s.key, x.count + 1)
      BY <1>4, <1>9, <2>4, <3>1, <3>2, <3>3, <3>4, PublicSwitchFolded
    <3> QED
      BY <1>1, <1>8, <1>9, <2>4, <3>1, <3>3, <3>5 DEF c, t
  <2> QED
    BY <2>3, <2>4 DEF SumsOk
<1> QED
  BY <1>0, <1>1, <1>3, <1>5, <1>6, <1>10, <1>11 DEF FoldDec, f

-----------------------------------------------------------------------------
(* What the sums become. *)

LEMMA Decodes ==
    ASSUME WithinBudget, NEW l \in Levels, NEW m \in 0 .. T - 1, NEW v \in Int,
           NEW n \in 1 .. MaxAbsorbed, NEW b \in Nat, b <= SwitchNoise,
           NEW d, d = CiphertextNoise + n * b, Near(v, ToPoly(m, l), d, Q(l))
    PROVE  Decoded(v, l) = m
<1> DEFINE D == CiphertextNoise + MaxAbsorbed * SwitchNoise
<1>1. /\ CiphertextNoise \in Nat /\ SwitchNoise \in Nat /\ MaxAbsorbed \in Nat \ {0}
      /\ T \in Nat
  BY Bounds, MultipartyAssumption
<1>2. D \in Nat
  BY <1>1
<1>3. d \in Int /\ d <= D
  <2>1. n * (SwitchNoise - b) >= 0 /\ n * (SwitchNoise - b) = n * SwitchNoise - n * b
    BY <1>1
  <2>2. /\ (MaxAbsorbed - n) * SwitchNoise >= 0
        /\ (MaxAbsorbed - n) * SwitchNoise = MaxAbsorbed * SwitchNoise - n * SwitchNoise
    BY <1>1
  <2>3. n * SwitchNoise \in Int /\ n * b \in Int /\ MaxAbsorbed * SwitchNoise \in Int
    BY <1>1
  <2> QED
    BY <1>1, <2>1, <2>2, <2>3
<1>4. 2 * T * (D + 1) <= Q(l) /\ 3 * T < 2 * Moduli[1]
  BY DEF WithinBudget
<1> HIDE DEF D
<1>5. Near(v, ToPoly(m, l), D, Q(l))
  BY <1>2, <1>3, NearWeaken
<1> QED
  BY <1>2, <1>4, <1>5, DecodedExact

LEMMA ReducedSummand ==
    ASSUME NEW x \in Int, NEW w \in Int, NEW y \in Int, NEW b \in Int, NEW q \in Nat \ {0},
           Near(x + w, y, b, q)
    PROVE  Near((x % q) + w, y, b, q) /\ (x % q) + w \in Int
<1>1. PICK e \in Int, j \in Int : -b <= e /\ e <= b /\ x + w = y + e + j * q
  BY DEF Near
<1> DEFINE r == x % q
           f == x \div q
<1>2. r \in Int /\ f \in Int /\ x = f * q + r
  BY Remainder
<1> HIDE DEF r, f
<1>3. (j - f) * q = j * q - f * q /\ j - f \in Int /\ j * q \in Int /\ f * q \in Int
  BY <1>2
<1>4. r + w = y + e + (j - f) * q /\ r + w \in Int
  BY <1>1, <1>2, <1>3
<1>5. Near(r + w, y, b, q)
  BY <1>1, <1>3, <1>4 DEF Near
<1> QED
  BY <1>4, <1>5 DEF r

(* Two shares of a message: one near it less y, one near y.                *)
LEMMA TwoNear ==
    ASSUME NEW x \in Int, NEW h \in Int, NEW M \in Int, NEW y \in Int, NEW b \in Int, NEW c \in Int,
           NEW q \in Nat \ {0}, Near(x + y, M, b, q), Near(h, y, c, q)
    PROVE  Near(x + h, M, b + c, q)
<1> DEFINE z == x + y
           w == M - y
<1>1. z \in Int /\ x = z + (-y) /\ x \in Int /\ w \in Int /\ -y \in Int
  OBVIOUS
<1>2. Near(z, M, b, q)
  OBVIOUS
<1> HIDE DEF z
<1>3. Near(z + (-y), M + (-y), b, q)
  BY <1>1, <1>2, NearShift
<1>4. Near(x, w, b, q)
  BY <1>1, <1>3
<1>5. w + y = M
  OBVIOUS
<1> HIDE DEF w
<1>6. Near(x + h, w + y, b + c, q)
  BY <1>1, <1>4, NearAdd
<1> QED
  BY <1>5, <1>6

LEMMA MessageInt ==
    ASSUME NEW l \in Levels, NEW m \in 0 .. T - 1
    PROVE  ToPoly(m, l) \in Int
<1>1. Q(l) * m \in Int /\ T \in Nat \ {0}
  BY ConstantTypes, MultipartyAssumption
<1> QED
  BY <1>1, Remainder DEF ToPoly

(* A correct ciphertext of two parts. *)
CtExact(c) == CtOk(c) /\ c.good /\ Len(c.c) = 2

LEMMA CtFacts ==
    ASSUME NEW c, CtExact(c)
    PROVE  /\ c.level \in Levels /\ Q(c.level) \in Nat \ {0}
           /\ c.m \in 0 .. T - 1 /\ ToPoly(c.m, c.level) \in Int
           /\ c.key \in Int /\ c.c[1] \in Int /\ c.c[2] \in Int
           /\ Near(c.c[1] + c.key * c.c[2], ToPoly(c.m, c.level), CiphertextNoise, Q(c.level))
<1>1. /\ c.level \in Levels /\ c.m \in 0 .. T - 1 /\ c.key \in Int /\ c.c[1] \in Int /\ c.c[2] \in Int
      /\ Near(c.c[1] + c.c[2] * c.key, ToPoly(c.m, c.level), CiphertextNoise, Q(c.level))
  BY CtTypes DEF CtExact, CtOk
<1>2. c.c[2] * c.key = c.key * c.c[2]
  <2> DEFINE a == c.c[2]
             b == c.key
  <2>1. a \in Int /\ b \in Int
    BY <1>1
  <2> HIDE DEF a, b
  <2>2. a * b = b * a
    BY <2>1
  <2> QED
    BY <2>2 DEF a, b
<1> QED
  BY <1>1, <1>2, ConstantTypes, MessageInt

LEMMA DecryptedOk ==
    ASSUME WithinBudget, NEW c, CtExact(c), NEW h \in Int, NEW n \in 1 .. MaxAbsorbed,
           SwitchNear(c, h, c.key, 0, n)
    PROVE  Decoded(c.c[1] + h, c.level) = c.m
<1> DEFINE l == c.level
           q == Q(l)
           M == ToPoly(c.m, l)
           x == c.c[1]
           y == c.key * c.c[2]
           b == n * NoiseBound
           m == c.m
<1>1. /\ l \in Levels /\ q \in Nat \ {0} /\ m \in 0 .. T - 1 /\ M \in Int /\ x \in Int /\ y \in Int
      /\ Near(x + y, M, CiphertextNoise, q)
  BY CtFacts
<1>2. (c.key - 0) * c.c[2] = y
  BY CtFacts
<1>3. Near(h, y, b, q)
  BY <1>2 DEF SwitchNear
<1>4. CiphertextNoise \in Int /\ b \in Int /\ NoiseBound \in Nat /\ NoiseBound <= SwitchNoise
  BY Bounds
<1> HIDE DEF M, x, y, b, q, l, m
<1>5. Near(x + h, M, CiphertextNoise + b, q)
  BY <1>1, <1>3, <1>4, TwoNear
<1>6. x + h \in Int
  BY <1>1
<1>7. Decoded(x + h, l) = m
  <2>1. Near(x + h, ToPoly(m, l), CiphertextNoise + n * NoiseBound, Q(l))
    BY <1>5 DEF M, b, q, m
  <2> QED
    BY <1>1, <1>4, <1>6, <2>1, Decodes
<1> QED
  BY <1>7 DEF x, l, m

LEMMA SwitchedOk ==
    ASSUME WithinBudget, NEW c, CtExact(c), NEW h \in Int, NEW n \in 1 .. MaxAbsorbed,
           NEW o \in Int, SwitchNear(c, h, c.key, o, n)
    PROVE  Decoded(((c.c[1] + h) % Q(c.level)) + c.c[2] * o, c.level) = c.m
<1> DEFINE l == c.level
           q == Q(l)
           M == ToPoly(c.m, l)
           c1 == c.c[1]
           c2 == c.c[2]
           k == c.key
           b == n * NoiseBound
           m == c.m
<1>1. /\ l \in Levels /\ q \in Nat \ {0} /\ m \in 0 .. T - 1 /\ M \in Int
      /\ c1 \in Int /\ c2 \in Int /\ k \in Int
      /\ Near(c1 + k * c2, M, CiphertextNoise, q)
  BY CtFacts
<1>2. Near(h, (k - o) * c2, b, q)
  BY DEF SwitchNear
<1>3. CiphertextNoise \in Int /\ b \in Int /\ NoiseBound \in Nat /\ NoiseBound <= SwitchNoise
  BY Bounds
<1> HIDE DEF M, c1, c2, k, b, q, l, m
<1> DEFINE w == (k - o) * c2
           y == k * c2
           t == o * c2
<1>4. w \in Int /\ y \in Int /\ t \in Int /\ w + t = y /\ c2 * o = t
  BY <1>1
<1>5. Near(h + t, y, b, q)
  <2>1. Near(h, w, b, q)
    BY <1>2
  <2> HIDE DEF w, t, y
  <2>2. Near(h + t, w + t, b, q)
    BY <1>1, <1>3, <1>4, <2>1, NearShift
  <2> QED
    BY <1>4, <2>2
<1>6. Near(c1 + y, M, CiphertextNoise, q)
  BY <1>1
<1> HIDE DEF w, y, t
<1> DEFINE g == h + t
           d == CiphertextNoise + b
<1>7. g \in Int /\ d \in Int
  BY <1>3, <1>4
<1>8. Near(c1 + g, M, d, q)
  <2>1. Near(g, y, b, q)
    BY <1>5
  <2> HIDE DEF g
  <2> QED
    BY <1>1, <1>3, <1>4, <1>6, <1>7, <2>1, TwoNear
<1> DEFINE z0 == c1 + h
           v == (z0 % q) + c2 * o
<1>9. z0 \in Int /\ z0 + c2 * o = c1 + g
  BY <1>1, <1>4
<1>10. Near(z0 + c2 * o, M, d, q)
  BY <1>8, <1>9
<1> HIDE DEF z0, d, g
<1>11. c2 * o \in Int
  BY <1>1
<1>12. Near(v, M, d, q) /\ v \in Int
  BY <1>1, <1>7, <1>9, <1>10, <1>11, ReducedSummand
<1> HIDE DEF v
<1>13. Decoded(v, l) = m
  <2>1. d = CiphertextNoise + n * NoiseBound /\ Near(v, ToPoly(m, l), d, Q(l))
    BY <1>12 DEF M, q, m, d, b
  <2> QED
    BY <1>1, <1>3, <1>12, <2>1, Decodes
<1> QED
  BY <1>13 DEF v, z0, c1, c2, q, l, m


LEMMA PublicSwitchedOk ==
    ASSUME WithinBudget, NEW c, CtExact(c), NEW k, RecipientOk(k),
           NEW h0 \in Int, NEW h1 \in Int, NEW n \in 1 .. MaxAbsorbed,
           PublicSwitchNear(c, k, h0, h1, c.key, n)
    PROVE  Decoded(((c.c[1] + h0) % Q(c.level)) + h1 * k.key, c.level) = c.m
<1> DEFINE l == c.level
           q == Q(l)
           M == ToPoly(c.m, l)
           c1 == c.c[1]
           y == c.key * c.c[2]
           o == k.key
           b == n * SwitchNoise
           m == c.m
           d == CiphertextNoise + b
           w == h1 * o
           g == h0 + w
           z0 == c1 + h0
           v == (z0 % q) + w
<1>1. /\ l \in Levels /\ q \in Nat \ {0} /\ m \in 0 .. T - 1 /\ M \in Int
      /\ c1 \in Int /\ y \in Int
      /\ Near(c1 + y, M, CiphertextNoise, q)
  BY CtFacts
<1>2. Near(g, y, b, q) /\ o \in Int
  BY DEF PublicSwitchNear, RecipientOk, KeyRecord
<1>3. CiphertextNoise \in Int /\ b \in Int /\ SwitchNoise \in Nat
  BY Bounds
<1> HIDE DEF M, c1, y, b, q, l, m, o
<1>4. w \in Int /\ g \in Int /\ z0 \in Int /\ d \in Int /\ z0 + w = c1 + g
  BY <1>1, <1>2, <1>3
<1> HIDE DEF w, g, z0
<1>5. Near(c1 + g, M, d, q)
  BY <1>1, <1>2, <1>3, <1>4, TwoNear
<1>6. Near(v, M, d, q) /\ v \in Int
  <2>1. Near(z0 + w, M, d, q)
    BY <1>4, <1>5
  <2> HIDE DEF d
  <2> QED
    BY <1>1, <1>4, <2>1, ReducedSummand
<1> HIDE DEF v, d
<1>7. Decoded(v, l) = m
  <2>1. d = CiphertextNoise + n * SwitchNoise /\ Near(v, ToPoly(m, l), d, Q(l)) /\ SwitchNoise <= SwitchNoise
    BY <1>3, <1>6 DEF M, q, m, d, b
  <2> QED
    BY <1>1, <1>3, <1>6, <2>1, Decodes
<1> QED
  BY <1>7 DEF v, z0, c1, q, l, m, w, o

-----------------------------------------------------------------------------
(* The invariant is inductive. *)

LEMMA DInitially == Init => DInv
<1> SUFFICES ASSUME Init PROVE DInv
  OBVIOUS
<1>1. PartyDec
  BY DEF Init, PartyDec
<1>2. BoardDec /\ AccDec /\ PkDec /\ RlkDec /\ CtDec /\ LoopDec
  BY DEF Init, BoardDec, AccDec, PkDec, RlkDec, CtDec, LoopDec
<1>3. OutDec
  BY DEF Init, OutDec, DecryptsTogether, SwitchedToOutputKeys, SwitchedToPublicKey, Complete
<1> QED
  BY <1>1, <1>2, <1>3 DEF DInv

LEMMA OutSame ==
    ASSUME OutDec, UNCHANGED << out, ct >>
    PROVE  OutDec'
  BY DEF OutDec, DecryptsTogether, SwitchedToOutputKeys, SwitchedToPublicKey, Complete

LEMMA PartySame ==
    ASSUME PartyDec, UNCHANGED << task, sk, gen >>
    PROVE  PartyDec'
  BY DEF PartyDec

LEMMA SharesSame ==
    ASSUME BoardDec, AccDec, UNCHANGED << board, acc, ct, pk >>
    PROVE  BoardDec' /\ AccDec'
  BY DEF BoardDec, AccDec, Current

LEMMA KeysSame ==
    ASSUME PkDec, RlkDec, CtDec, UNCHANGED << pk, rlk, ct >>
    PROVE  PkDec' /\ RlkDec' /\ CtDec'
  BY DEF PkDec, RlkDec, CtDec

LEMMA LoopSame ==
    ASSUME LoopDec, UNCHANGED << loop, ct, pk >>
    PROVE  LoopDec'
  BY DEF LoopDec

LEMMA NewGeneratorDec ==
    ASSUME DInv, NEW p \in Party, NEW v \in CrpVector, NEW u \in Mask, NewGenerator(p, v, u)
    PROVE  DInv'
<1>1. /\ gen' = [gen EXCEPT ![p] = [u |-> u, crp |-> v]]
      /\ UNCHANGED << task, sk, board, acc, pk, r1, rlk, ct, loop, out >>
  BY DEF NewGenerator
<1>2. \A o \in Party : gen'[o] = gen[o] \/ gen'[o] = [u |-> u, crp |-> v]
  BY <1>1
<1>3. PartyDec'
  BY <1>1, <1>2 DEF DInv, PartyDec
<1> QED
  BY <1>1, <1>3, OutSame, SharesSame, KeysSame, LoopSame DEF DInv

(* A share is published. *)
LEMMA PublishDec ==
    ASSUME DInv, NEW s, ShareDec(s), Current(s), Publish(s), UNCHANGED gen, LoopDec'
    PROVE  DInv'
<1>1. board' = board \cup {s} /\ UNCHANGED << task, sk, acc, pk, rlk, ct, out >>
  BY DEF Publish
<1>2. BoardDec' /\ AccDec'
  BY <1>1 DEF DInv, BoardDec, AccDec, Current
<1> QED
  BY <1>1, <1>2, OutSame, PartySame, KeysSame DEF DInv

LEMMA PublishingDec ==
    ASSUME IInv, DInv, NEW p \in Party
    PROVE  /\ (\E e0, e1 \in NoiseRow : Round1(p, e0, e1)) => DInv'
           /\ (\E r \in r1, e0, e1 \in NoiseRow : Round2(p, r, e0, e1)) => DInv'
           /\ (\E c \in Crp, e \in Noise : PublishPublicKeyShare(p, c, e)) => DInv'
           /\ (\E e \in Noise : PublishSecretKeySwitchShare(p, e)) => DInv'
           /\ (\E e \in Noise : PublishDecryptionShare(p, e)) => DInv'
           /\ (\E u \in Mask, e0, e1 \in Noise : FinishPublicKeySwitchShare(p, u, e0, e1)) => DInv'
<1> PartyDec /\ LoopDec /\ CtDec
  BY DEF DInv
<1>1. ASSUME NEW s, Publish(s), UNCHANGED loop PROVE LoopDec'
  <2>1. UNCHANGED << loop, ct, pk >>
    BY <1>1 DEF Publish
  <2> QED
    BY <2>1, LoopSame
<1>2. ASSUME NEW e0 \in NoiseRow, NEW e1 \in NoiseRow, Round1(p, e0, e1) PROVE DInv'
  <2> DEFINE s == RelinRound1(p, e0, e1)
  <2>1. gen[p] # None /\ Publish(s) /\ UNCHANGED << gen, loop >>
    BY <1>2 DEF Round1
  <2>2. ShareDec(s)
    BY <2>1, RelinShareDec
  <2>3. s.kind = "r1"
    BY DEF RelinRound1, Share
  <2> HIDE DEF s
  <2>4. Current(s) /\ LoopDec'
    BY <1>1, <2>1, <2>3 DEF Current
  <2> QED
    BY <2>1, <2>2, <2>4, PublishDec
<1>3. ASSUME NEW r \in r1, NEW e0 \in NoiseRow, NEW e1 \in NoiseRow, Round2(p, r, e0, e1)
      PROVE  DInv'
  <2> DEFINE s == RelinRound2(p, r, e0, e1)
  <2>1. gen[p] # None /\ Publish(s) /\ UNCHANGED << gen, loop >>
    BY <1>3 DEF Round2
  <2>2. ShareDec(s)
    BY <2>1, RelinShareDec
  <2>3. s.kind = "r2"
    BY DEF RelinRound2, Share
  <2> HIDE DEF s
  <2>4. Current(s) /\ LoopDec'
    BY <1>1, <2>1, <2>3 DEF Current
  <2> QED
    BY <2>1, <2>2, <2>4, PublishDec
<1>4. ASSUME NEW c \in Crp, NEW e \in Noise, PublishPublicKeyShare(p, c, e) PROVE DInv'
  <2> DEFINE s == PublicKeyShare(p, c, e)
  <2>1. pk = None /\ Publish(s) /\ UNCHANGED << gen, loop >>
    BY <1>4 DEF PublishPublicKeyShare
  <2>2. ShareDec(s)
    BY PublicKeyShareDec
  <2>3. s.kind = "pk"
    BY DEF PublicKeyShare, Share
  <2> HIDE DEF s
  <2>4. Current(s) /\ LoopDec'
    BY <1>1, <2>1, <2>3 DEF Current
  <2> QED
    BY <2>1, <2>2, <2>4, PublishDec
<1>5. ASSUME NEW e \in Noise, PublishSecretKeySwitchShare(p, e) PROVE DInv'
  <2> DEFINE s == SecretKeySwitchShare(p, ct, OutSecret[p], e, "sks")
  <2>1. ct # None /\ Len(ct.c) = 2 /\ Publish(s) /\ UNCHANGED << gen, loop >>
    BY <1>5 DEF PublishSecretKeySwitchShare, KeySwitchOk
  <2>2. OutKey("sks", OutSecret[p]) = OutSecret[p]
    BY DEF OutKey
  <2>3. CtOk(ct)
    BY <2>1 DEF CtDec
  <2>4. ShareDec(s)
    BY <2>1, <2>2, <2>3, SwitchShareOk
  <2>5. s.kind = "sks" /\ s.on = ct
    BY DEF SecretKeySwitchShare, Share
  <2> HIDE DEF s
  <2>6. Current(s) /\ LoopDec'
    BY <1>1, <2>1, <2>5 DEF Current
  <2> QED
    BY <2>1, <2>4, <2>6, PublishDec
<1>6. ASSUME NEW e \in Noise, PublishDecryptionShare(p, e) PROVE DInv'
  <2> DEFINE s == SecretKeySwitchShare(p, ct, 0, e, "dec")
  <2>1. ct # None /\ Len(ct.c) = 2 /\ Publish(s) /\ UNCHANGED << gen, loop >>
    BY <1>6 DEF PublishDecryptionShare, KeySwitchOk, DecryptionShare
  <2>2. OutKey("dec", OutSecret[p]) = 0
    BY DEF OutKey
  <2>3. CtOk(ct)
    BY <2>1 DEF CtDec
  <2>4. ShareDec(s)
    BY <2>1, <2>2, <2>3, SwitchShareOk
  <2>5. s.kind = "dec" /\ s.on = ct
    BY DEF SecretKeySwitchShare, Share
  <2> HIDE DEF s
  <2>6. Current(s) /\ LoopDec'
    BY <1>1, <2>1, <2>5 DEF Current
  <2> QED
    BY <2>1, <2>4, <2>6, PublishDec
<1>7. ASSUME NEW u \in Mask, NEW e0 \in Noise, NEW e1 \in Noise,
             FinishPublicKeySwitchShare(p, u, e0, e1)
      PROVE  DInv'
  <2> DEFINE s == PublicKeySwitchShare(p, ct, loop.k, u, e0, e1)
  <2>1. /\ loop # None /\ loop.use = "pks" /\ loop.k.level = loop.target /\ loop' = None
        /\ Publish(s) /\ UNCHANGED gen
    BY <1>7 DEF FinishPublicKeySwitchShare, LoopLeft
  <2>2. ct # None /\ loop.target = ct.level /\ RecipientOk(loop.k) /\ CtOk(ct)
    BY <2>1 DEF LoopDec, CtDec
  <2>3. ShareDec(s)
    BY <2>1, <2>2, PublicSwitchShareOk
  <2>4. s.kind = "pks" /\ s.on.ct = ct
    BY DEF PublicKeySwitchShare, Share
  <2> HIDE DEF s
  <2>5. Current(s)
    BY <2>2, <2>4 DEF Current
  <2>6. LoopDec'
    BY <2>1 DEF LoopDec
  <2> QED
    BY <2>1, <2>3, <2>5, <2>6, PublishDec
<1> QED
  BY <1>2, <1>3, <1>4, <1>5, <1>6, <1>7

LEMMA FoldingDec ==
    ASSUME DInv
    PROVE  /\ (\E s \in board : Begin(s) \/ Absorb(s)) => DInv'
           /\ AbsorbErr => DInv'
<1>1. ASSUME AccDec', UNCHANGED << task, sk, gen, board, pk, r1, rlk, ct, loop, out >>
      PROVE  DInv'
  <2>1. BoardDec'
    BY <1>1 DEF DInv, BoardDec, Current
  <2> QED
    BY <1>1, <2>1, OutSame, PartySame, KeysSame, LoopSame DEF DInv
<1>2. ASSUME NEW s \in board PROVE ShareDec(s) /\ Current(s)
  BY DEF DInv, BoardDec
<1>3. ASSUME NEW s \in board, Begin(s) PROVE DInv'
  <2>1. acc' = First(s) /\ UNCHANGED << task, sk, gen, board, pk, r1, rlk, ct, loop, out >>
    BY <1>3 DEF Begin
  <2>2. FoldDec(First(s)) /\ First(s).first = s
    BY <1>2, FirstDec
  <2>3. AccDec'
    BY <1>2, <2>1, <2>2 DEF AccDec, Current
  <2> QED
    BY <1>1, <2>1, <2>3
<1>4. ASSUME NEW s \in board, Absorb(s) PROVE DInv'
  <2>1. /\ acc # None /\ acc.count < MaxAbsorbed
        /\ s.kind = acc.first.kind /\ LevelOf(s) = LevelOf(acc.first) /\ Len(s.h0) = Len(acc.h0)
        /\ acc' = Folded(acc, s) /\ UNCHANGED << task, sk, gen, board, pk, r1, rlk, ct, loop, out >>
    BY <1>4 DEF Absorb
  <2>2. FoldDec(acc) /\ Current(acc.first)
    BY <2>1 DEF DInv, AccDec
  <2>3. FoldDec(Folded(acc, s)) /\ Folded(acc, s).first = acc.first
    BY <1>2, <2>1, <2>2, FoldedDec
  <2>4. AccDec'
    BY <2>1, <2>2, <2>3 DEF AccDec, Current
  <2> QED
    BY <1>1, <2>1, <2>4
<1>5. ASSUME AbsorbErr PROVE DInv'
  <2>1. acc' = None /\ UNCHANGED << task, sk, gen, board, pk, r1, rlk, ct, loop, out >>
    BY <1>5 DEF AbsorbErr
  <2> QED
    BY <1>1, <2>1 DEF AccDec
<1> QED
  BY <1>3, <1>4, <1>5


LEMMA WithinAll ==
    ASSUME NEW x \in Int, NEW n \in 1 .. MaxAbsorbed, Within(x, n * SecretBound)
    PROVE  Within(x, KeyBound)
<1>1. MaxAbsorbed \in Nat /\ SecretBound \in Nat
  BY Bounds
<1>2. /\ (MaxAbsorbed - n) * SecretBound >= 0
      /\ (MaxAbsorbed - n) * SecretBound = MaxAbsorbed * SecretBound - n * SecretBound
  BY <1>1
<1>3. n * SecretBound \in Int /\ MaxAbsorbed * SecretBound \in Int
  BY <1>1
<1> QED
  BY <1>2, <1>3 DEF Within, KeyBound

(* The sums become a key, and the board is cleared. *)
LEMMA KeysFinishedDec ==
    ASSUME IInv, DInv
    PROVE  /\ FinishPublicKey => DInv'
           /\ FinishRound1 => DInv'
           /\ FinishRelinKey => DInv'
<1>1. ASSUME acc' = None, board' = {}, UNCHANGED << task, sk, gen, ct, loop, out >>
      PROVE  PartyDec' /\ BoardDec' /\ AccDec' /\ CtDec' /\ OutDec'
  <2>1. BoardDec' /\ AccDec'
    BY <1>1 DEF BoardDec, AccDec
  <2>2. CtDec'
    BY <1>1 DEF DInv, CtDec
  <2> QED
    BY <1>1, <2>1, <2>2, OutSame, PartySame DEF DInv
<1>2. ASSUME FinishPublicKey PROVE DInv'
  <2>1. /\ acc # None /\ acc.first.kind = "pk" /\ acc' = None /\ board' = {}
        /\ pk' = MadePublicKey(acc) /\ UNCHANGED << task, sk, gen, rlk, ct, loop, out >>
    BY <1>2 DEF FinishPublicKey, Ended
  <2>2. FoldDec(acc) /\ pk = None
    BY <2>1 DEF DInv, AccDec, Current
  <2>3. PkFold(acc)
    BY <2>1 DEF IInv, AccInv, FoldInv
  <2> DEFINE c == acc.first.on
             k == pk'
  <2>4. /\ k.c = << acc.h0[1], c.a >> /\ k.level = c.level
        /\ k.of.key = acc.key /\ k.of.count = acc.count /\ k.of.noise = acc.noise
        /\ k.of.same = acc.same
    BY <2>1 DEF MadePublicKey, History
  <2>5. /\ c.a \in Int /\ c.level \in Levels /\ 1 \in DOMAIN acc.h0 /\ acc.noise \in Int
    BY <2>3, ConstantTypes DEF PkFold, PkShare
  <2>6. LevelOf(acc.first) = c.level
    BY <2>1 DEF LevelOf
  <2>7. InRange(acc.h0, c.level)
    BY <2>2, <2>6 DEF FoldDec, HasRows
  <2>8. acc.h0[1] \in Residues(c.level)
    <3> HIDE DEF c
    <3> QED
      BY <2>5, <2>7, RangeIs
  <2>9. acc.key \in Int /\ Within(acc.key, KeyBound) /\ acc.count \in 1 .. MaxAbsorbed
        /\ acc.same \in BOOLEAN
    BY <2>2, WithinAll DEF FoldDec
  <2>10. PkDec'
    <3>1. /\ DOMAIN k.c = 1 .. 2 /\ k.c[1] \in Residues(k.level) /\ k.c[2] \in Int
          /\ k.level \in Levels /\ k.of.key \in Int /\ Within(k.of.key, KeyBound)
          /\ k.of.count \in 1 .. MaxAbsorbed /\ k.of.noise \in Int
          /\ k.of.same \in BOOLEAN
      <4> HIDE DEF k, c
      <4> QED
        BY <2>4, <2>5, <2>8, <2>9
    <3> QED
      BY <3>1 DEF PkDec
  <2>11. RlkDec' /\ LoopDec'
    BY <2>1, <2>2 DEF DInv, RlkDec, LoopDec
  <2> QED
    BY <1>1, <2>1, <2>10, <2>11 DEF DInv
<1>3. ASSUME FinishRound1 PROVE DInv'
  <2>1. acc' = None /\ board' = {} /\ UNCHANGED << task, sk, gen, pk, rlk, ct, loop, out >>
    BY <1>3 DEF FinishRound1, Ended
  <2>2. PkDec' /\ RlkDec' /\ LoopDec'
    BY <2>1, KeysSame, LoopSame DEF DInv
  <2> QED
    BY <1>1, <2>1, <2>2 DEF DInv
<1>4. ASSUME FinishRelinKey PROVE DInv'
  <2>1. /\ acc # None /\ acc.first.kind = "r2" /\ acc' = None /\ board' = {}
        /\ rlk' = MadeRelinKey(acc) /\ UNCHANGED << task, sk, gen, pk, ct, loop, out >>
    BY <1>4 DEF FinishRelinKey, Ended
  <2>2. acc.h0 \in Rows /\ acc.h1 \in Rows
    BY <2>1 DEF IInv, AccInv, FoldInv, R2Fold, RowsOk
  <2>3. rlk'.c0 = AddRows(acc.h0, acc.h1, 0)
    BY <2>1 DEF MadeRelinKey
  <2>4. \A i \in Row : rlk'.c0[i] \in Residues(0)
    <3> DEFINE x == acc.h0
               y == acc.h1
    <3>1. x \in Rows /\ y \in Rows /\ 0 \in Levels
      BY <2>2, ConstantTypes
    <3> HIDE DEF x, y
    <3>2. \A i \in Row : AddRows(x, y, 0)[i] \in Residues(0)
      <4> TAKE i \in Row
      <4>1. x[i] + y[i] \in Int /\ AddRows(x, y, 0)[i] = (x[i] + y[i]) % Q(0)
        BY <3>1, AddRowsRows
      <4> QED
        BY <3>1, <4>1, ReducedIs
    <3> QED
      BY <2>3, <3>2 DEF x, y
  <2>5. RlkDec'
    BY <2>4 DEF RlkDec
  <2>6. PkDec' /\ LoopDec'
    BY <2>1, LoopSame DEF DInv, PkDec
  <2> QED
    BY <1>1, <2>1, <2>5, <2>6 DEF DInv
<1> QED
  BY <1>2, <1>3, <1>4

(* They become a ciphertext or a plaintext. *)
LEMMA OutputsFinishedDec ==
    ASSUME DInv
    PROVE  FinishSecretKeySwitch \/ FinishDecryption \/ FinishPublicKeySwitch => DInv'
<1>1. ASSUME NEW kind, NEW made, FinishOutput(kind, made),
             WithinBudget => /\ DecryptsTogether' /\ SwitchedToOutputKeys' /\ SwitchedToPublicKey',
             ct # None
      PROVE  DInv'
  <2>1. /\ acc' = None /\ board' = {}
        /\ UNCHANGED << task, sk, gen, pk, rlk, ct, loop >>
    BY <1>1 DEF FinishOutput, Ended
  <2>2. BoardDec' /\ AccDec'
    BY <2>1 DEF BoardDec, AccDec
  <2>3. OutDec'
    BY <1>1, <2>1 DEF OutDec, WithinBudget
  <2> QED
    BY <2>1, <2>2, <2>3, PartySame, KeysSame, LoopSame DEF DInv
<1>2. ASSUME NEW kind, Ended(kind), kind \in {"sks", "dec"}
      PROVE  /\ FoldDec(acc) /\ CtOk(acc.first.on) /\ Len(acc.first.on.c) = 2
             /\ ct # None /\ acc.first.on.good = ct.good /\ acc.first.kind = kind
             /\ acc.h0[1] \in Int
  <2>1. acc # None /\ acc.first.kind = kind
    BY <1>2 DEF Ended
  <2>2. FoldDec(acc) /\ Current(acc.first)
    BY <2>1 DEF DInv, AccDec
  <2>3. SourceOk(acc.first) /\ HasRows(acc.first, acc)
    BY <2>2 DEF FoldDec
  <2>4. acc.h0[1] \in Int
    <3> DEFINE l == LevelOf(acc.first)
    <3>1. InRange(acc.h0, l) /\ 1 \in DOMAIN acc.h0 /\ l \in Levels
      BY <1>2, <2>1, <2>3 DEF HasRows, SourceOk
    <3> HIDE DEF l
    <3> QED
      BY <3>1, RangeIs
  <2> QED
    BY <1>2, <2>1, <2>2, <2>3, <2>4 DEF SourceOk, Current
<1>3. ASSUME FinishDecryption PROVE DInv'
  <2> DEFINE c == acc.first.on
             h == acc.h0[1]
  <2>1. FinishOutput("dec", MadePlaintext(acc)) /\ Ended("dec") /\ out' = MadePlaintext(acc) /\ UNCHANGED ct
    BY <1>3 DEF FinishDecryption, FinishOutput
  <2>2. /\ FoldDec(acc) /\ CtOk(c) /\ Len(c.c) = 2 /\ ct # None /\ c.good = ct.good
        /\ acc.first.kind = "dec" /\ h \in Int
    BY <1>2, <2>1
  <2>3. /\ out'.kind = "dec" /\ out'.value = Decoded(c.c[1] + h, c.level) /\ out'.m = c.m
        /\ out'.from = c.key /\ out'.of.same = acc.same /\ out'.of.key = acc.key
    BY <2>1 DEF MadePlaintext, History
  <2>4. SwitchedToOutputKeys' /\ SwitchedToPublicKey'
    BY <2>3 DEF SwitchedToOutputKeys, SwitchedToPublicKey, Complete
  <2>5. ASSUME WithinBudget, Complete("dec")' PROVE (out.value = out.m)'
    <3>1. acc.same /\ acc.key = c.key /\ c.good
      BY <2>1, <2>2, <2>3, <2>5 DEF Complete
    <3>2. SwitchNear(c, h, c.key, 0, acc.count) /\ acc.count \in 1 .. MaxAbsorbed
      BY <2>2, <3>1 DEF FoldDec, SumsOk, OutKey
    <3>3. CtExact(c)
      BY <2>2, <3>1 DEF CtExact
    <3> HIDE DEF c, h
    <3>4. Decoded(c.c[1] + h, c.level) = c.m
      BY <2>2, <2>5, <3>2, <3>3, DecryptedOk
    <3> QED
      BY <2>3, <3>4
  <2>6. WithinBudget => DecryptsTogether'
    BY <2>5 DEF DecryptsTogether
  <2> QED
    BY <1>1, <2>1, <2>2, <2>4, <2>6
<1>4. ASSUME FinishSecretKeySwitch PROVE DInv'
  <2> DEFINE c == acc.first.on
             h == acc.h0[1]
  <2>1. FinishOutput("sks", MadeSwitched(acc)) /\ Ended("sks") /\ out' = MadeSwitched(acc) /\ UNCHANGED ct
    BY <1>4 DEF FinishSecretKeySwitch, FinishOutput
  <2>2. /\ FoldDec(acc) /\ CtOk(c) /\ Len(c.c) = 2 /\ ct # None /\ c.good = ct.good
        /\ acc.first.kind = "sks" /\ h \in Int
    BY <1>2, <2>1
  <2>3. /\ out'.kind = "sks" /\ out'.c = << (c.c[1] + h) % Q(c.level), c.c[2] >>
        /\ out'.level = c.level /\ out'.key = acc.outKey /\ out'.m = c.m
        /\ out'.from = c.key /\ out'.of.same = acc.same /\ out'.of.key = acc.key
    BY <2>1 DEF MadeSwitched, History
  <2>4. DecryptsTogether' /\ SwitchedToPublicKey'
    BY <2>3 DEF DecryptsTogether, SwitchedToPublicKey, Complete
  <2>5. ASSUME WithinBudget, Complete("sks")'
        PROVE  (Decoded(out.c[1] + out.c[2] * out.key, out.level) = out.m)'
    <3>1. acc.same /\ acc.key = c.key /\ c.good
      BY <2>1, <2>2, <2>3, <2>5 DEF Complete
    <3>2. /\ SwitchNear(c, h, c.key, acc.outKey, acc.count)
          /\ acc.count \in 1 .. MaxAbsorbed /\ acc.outKey \in Int
      BY <2>2, <3>1 DEF FoldDec, SumsOk, OutKey
    <3>3. CtExact(c)
      BY <2>2, <3>1 DEF CtExact
    <3> HIDE DEF c, h
    <3>4. Decoded(((c.c[1] + h) % Q(c.level)) + c.c[2] * acc.outKey, c.level) = c.m
      BY <2>2, <2>5, <3>2, <3>3, SwitchedOk
    <3>5. out'.c[1] = (c.c[1] + h) % Q(c.level) /\ out'.c[2] = c.c[2]
      BY <2>3
    <3> QED
      BY <2>3, <3>4, <3>5
  <2>6. WithinBudget => SwitchedToOutputKeys'
    BY <2>5 DEF SwitchedToOutputKeys
  <2> QED
    BY <1>1, <2>1, <2>2, <2>4, <2>6
<1>5. ASSUME FinishPublicKeySwitch PROVE DInv'
  <2> DEFINE c == acc.first.on.ct
             k == acc.first.on.to
             h0 == acc.h0[1]
             h1 == acc.h1[1]
  <2>1. /\ FinishOutput("pks", MadePublicSwitched(acc)) /\ out' = MadePublicSwitched(acc) /\ UNCHANGED ct
        /\ acc # None /\ acc.first.kind = "pks"
    BY <1>5 DEF FinishPublicKeySwitch, FinishOutput, Ended
  <2>2. FoldDec(acc) /\ Current(acc.first)
    BY <2>1 DEF DInv, AccDec
  <2>3. SourceOk(acc.first) /\ HasRows(acc.first, acc)
    BY <2>2 DEF FoldDec
  <2>4. /\ CtOk(c) /\ RecipientOk(k) /\ ct # None /\ c.good = ct.good
        /\ h1 \in Int /\ 1 \in DOMAIN acc.h0
    BY <2>1, <2>2, <2>3 DEF SourceOk, HasRows, Current
  <2>5. h0 \in Int
    <3> DEFINE l == LevelOf(acc.first)
    <3>1. InRange(acc.h0, l) /\ l \in Levels
      BY <2>3, SMTT(60) DEF HasRows, SourceOk
    <3> HIDE DEF l
    <3> QED
      BY <2>4, <3>1, RangeIs
  <2>6. /\ out'.kind = "pks" /\ out'.c = << (c.c[1] + h0) % Q(c.level), h1 >>
        /\ out'.level = c.level /\ out'.key = k.key /\ out'.m = c.m /\ out'.parts = Len(c.c)
        /\ out'.from = c.key /\ out'.of.same = acc.same /\ out'.of.key = acc.key
    BY <2>1 DEF MadePublicSwitched, History
  <2>7. DecryptsTogether' /\ SwitchedToOutputKeys'
    BY <2>6 DEF DecryptsTogether, SwitchedToOutputKeys, Complete
  <2>8. ASSUME WithinBudget, Complete("pks")', (out.parts = 2)'
        PROVE  (Decoded(out.c[1] + out.c[2] * out.key, out.level) = out.m)'
    <3>1. acc.same /\ acc.key = c.key /\ c.good /\ Len(c.c) = 2
      BY <2>1, <2>4, <2>6, <2>8 DEF Complete
    <3>2. PublicSwitchNear(c, k, h0, h1, c.key, acc.count) /\ acc.count \in 1 .. MaxAbsorbed
      BY <2>1, <2>2, <3>1 DEF FoldDec, SumsOk
    <3>3. CtExact(c)
      BY <2>4, <3>1 DEF CtExact
    <3> HIDE DEF c, k, h0, h1
    <3>4. Decoded(((c.c[1] + h0) % Q(c.level)) + h1 * k.key, c.level) = c.m
      BY <2>4, <2>5, <2>8, <3>2, <3>3, PublicSwitchedOk
    <3>5. out'.c[1] = (c.c[1] + h0) % Q(c.level) /\ out'.c[2] = h1
      BY <2>6
    <3> QED
      BY <2>6, <3>4, <3>5
  <2>9. WithinBudget => SwitchedToPublicKey'
    BY <2>8 DEF SwitchedToPublicKey
  <2> QED
    BY <1>1, <2>1, <2>4, <2>7, <2>9
<1> QED
  BY <1>3, <1>4, <1>5


-----------------------------------------------------------------------------
(* The loops, and what follows them. *)

LEMMA LoopOnlyDec ==
    ASSUME DInv, LoopDec', UNCHANGED << task, sk, gen, board, acc, pk, r1, rlk, ct, out >>
    PROVE  DInv'
  BY OutSame, PartySame, SharesSame, KeysSame DEF DInv

LEMMA LoopStartsDec ==
    ASSUME IInv, DInv
    PROVE  /\ \A l \in Levels : StartEncrypt(l) => DInv'
           /\ \A k \in Recipient : StartPublicKeySwitch(k) => DInv'
<1>1. ASSUME NEW l \in Levels, StartEncrypt(l) PROVE DInv'
  <2> DEFINE k == [c |-> pk.c, level |-> pk.level, key |-> pk.of.key]
             X == AfterSwitching(MaxAbsorbed * NoiseBound, KeyBound)
             q == Q(pk.level)
             x == pk.c[1] + pk.c[2] * pk.of.key
             e == pk.of.noise
  <2>1. /\ pk # None /\ ct = None
        /\ loop' = [k |-> k, target |-> l, use |-> "encrypt"]
        /\ UNCHANGED << task, sk, gen, board, acc, pk, r1, rlk, ct, out >>
    BY <1>1 DEF StartEncrypt, StartLoop
  <2>2. /\ DOMAIN pk.c = 1 .. 2 /\ pk.c[1] \in Residues(pk.level) /\ pk.c[2] \in Int
        /\ pk.level \in Levels /\ pk.of.key \in Int /\ Within(pk.of.key, KeyBound)
        /\ pk.of.count \in 1 .. MaxAbsorbed /\ e \in Int
    BY <2>1 DEF DInv, PkDec
  <2>3. pk.c[1] \in Int /\ q \in Nat \ {0}
    BY <2>2, ConstantTypes DEF Residues
  <2>4. KeyRecord(k, KeyBound)
    BY <2>2, <2>3 DEF KeyRecord
  <2>5. ASSUME pk.of.same PROVE KeyNear(k, X)
    <3>1. (x - e) % q = 0 /\ Abs(e) <= pk.of.count * NoiseBound
      <4>1. CollectiveKey
        BY DEF IInv
      <4>2. pk # None
        BY <2>1
      <4>3. /\ (pk.c[1] + pk.c[2] * pk.of.key - pk.of.noise) % Q(pk.level) = 0
            /\ Abs(pk.of.noise) <= pk.of.count * NoiseBound
        <5> HIDE DEF k, X, q, x, e
        <5> QED
          BY <2>5, <4>1, <4>2 DEF CollectiveKey
      <4>4. x - e = pk.c[1] + pk.c[2] * pk.of.key - pk.of.noise
        <5> DEFINE y == pk.c[2] * pk.of.key
        <5>1. y \in Int
          BY <2>2
        <5> HIDE DEF y
        <5>2. pk.c[1] + y - pk.of.noise = (pk.c[1] + y) - pk.of.noise
          BY <2>2, <2>3, <5>1
        <5> QED
          BY <5>2 DEF y
      <4> QED
        BY <4>3, <4>4
    <3>2. x \in Int
      BY <2>2, <2>3
    <3> HIDE DEF x, q
    <3>3. PICK j \in Int : x = 0 + e + j * q
      <4> DEFINE d == (x - e) \div q
                 r == (x - e) % q
      <4>1. x - e \in Int
        BY <2>2, <3>2
      <4>2. d \in Int /\ x - e = d * q + r
        <5> DEFINE y == x - e
        <5> HIDE DEF y
        <5>1. y \div q \in Int /\ y = (y \div q) * q + (y % q)
          BY <2>3, <4>1, Remainder DEF y
        <5> QED
          BY <5>1 DEF y
      <4>3. r = 0
        BY <3>1
      <4> HIDE DEF d, r
      <4>4. x = 0 + e + d * q
        <5>1. d * q \in Int
          BY <2>3, <4>2
        <5> QED
          BY <2>2, <3>2, <4>2, <4>3, <5>1
      <4> QED
        BY <4>2, <4>4
    <3> HIDE DEF e
    <3>4. MaxAbsorbed * NoiseBound \in Nat /\ KeyBound \in Nat /\ NoiseBound \in Nat
      BY Bounds
    <3>5. X \in Nat /\ MaxAbsorbed * NoiseBound <= X
      BY <3>4, AfterSwitchingIs
    <3> HIDE DEF X
    <3>6. pk.of.count * NoiseBound <= MaxAbsorbed * NoiseBound /\ pk.of.count * NoiseBound \in Int
      <4> DEFINE n == pk.of.count
      <4>1. n \in 1 .. MaxAbsorbed /\ MaxAbsorbed \in Nat
        BY <2>2, Bounds
      <4> HIDE DEF n
      <4>2. /\ (MaxAbsorbed - n) * NoiseBound >= 0
            /\ (MaxAbsorbed - n) * NoiseBound = MaxAbsorbed * NoiseBound - n * NoiseBound
            /\ n * NoiseBound \in Int
        BY <3>4, <4>1
      <4>3. n * NoiseBound <= MaxAbsorbed * NoiseBound
        BY <3>4, <4>2
      <4> QED
        BY <4>2, <4>3 DEF n
    <3>7. -X <= e /\ e <= X
      <4>1. Abs(e) <= X /\ Abs(e) \in Int
        BY <2>2, <3>1, <3>4, <3>5, <3>6 DEF Abs
      <4> QED
        BY <2>2, <3>5, <4>1 DEF Abs
    <3>8. Near(x, 0, X, q)
      BY <2>2, <3>3, <3>7 DEF Near
    <3> QED
      BY <3>8 DEF KeyNear, x, q
  <2>6. LoopDec'
    <3> HIDE DEF k, X
    <3>1. /\ loop'.k = k /\ loop'.target = l /\ loop'.use = "encrypt" /\ ct' = None /\ pk' = pk
          /\ loop' = [k |-> loop'.k, target |-> loop'.target, use |-> loop'.use]
      BY <2>1
    <3>2. k.key = pk.of.key
      BY DEF k
    <3> QED
      BY <2>1, <2>4, <2>5, <3>1, <3>2 DEF LoopDec, X
  <2> QED
    BY <2>1, <2>6, LoopOnlyDec
<1>2. ASSUME NEW k \in Recipient, StartPublicKeySwitch(k) PROVE DInv'
  <2>1. /\ ct # None /\ loop' = [k |-> k, target |-> ct.level, use |-> "pks"]
        /\ UNCHANGED << task, sk, gen, board, acc, pk, r1, rlk, ct, out >>
    BY <1>2 DEF StartPublicKeySwitch, StartLoop
  <2>2. RecipientOk(k) /\ ct.level \in Levels
    BY <2>1, RecipientsOk, CtTypes DEF DInv, CtDec
  <2>3. LoopDec'
    BY <2>1, <2>2 DEF LoopDec
  <2> QED
    BY <2>1, <2>3, LoopOnlyDec
<1> QED
  BY <1>1, <1>2

LEMMA LoopStepDec ==
    ASSUME DInv, LoopStep
    PROVE  DInv'
<1> DEFINE k == loop.k
           j == SwitchedDown(loop.k)
           X == AfterSwitching(MaxAbsorbed * NoiseBound, KeyBound)
           Y == AfterSwitching(RecipientNoise, RecipientBound)
<1>1. /\ loop # None /\ loop.k.level # loop.target
      /\ loop' = [loop EXCEPT !.k = j]
      /\ UNCHANGED << task, sk, gen, board, acc, pk, r1, rlk, ct, out >>
  BY DEF LoopStep
<1>2. /\ loop = [k |-> loop.k, target |-> loop.target, use |-> loop.use]
      /\ loop.target \in Levels /\ loop.use \in {"encrypt", "pks"}
      /\ loop.use = "pks" => ct # None /\ loop.target = ct.level /\ RecipientOk(loop.k)
      /\ loop.use = "encrypt" =>
            /\ ct = None /\ pk # None /\ KeyRecord(loop.k, KeyBound)
            /\ loop.k.key = pk.of.key
            /\ pk.of.same => KeyNear(loop.k, X)
  BY <1>1 DEF DInv, LoopDec
<1>3. loop' = [k |-> j, target |-> loop.target, use |-> loop.use]
  <2> HIDE DEF j
  <2> QED
    BY <1>1, <1>2
<1>4. X \in Nat /\ 1 + KeyBound <= X /\ KeyBound \in Nat
  BY Bounds, AfterSwitchingIs
<1>5. Y \in Nat /\ 1 + RecipientBound <= Y /\ RecipientBound \in Nat
  BY Bounds, AfterSwitchingIs
<1>6. ASSUME loop.use = "pks" PROVE RecipientOk(j)
  <2>1. KeyRecord(k, RecipientBound) /\ KeyNear(k, Y)
    BY <1>2, <1>6 DEF RecipientOk
  <2>2. KeyRecord(j, RecipientBound) /\ KeyNear(j, Y)
    <3> HIDE DEF Y
    <3> QED
      BY <1>5, <2>1, SwitchedDownOk
  <2> QED
    BY <2>2 DEF RecipientOk
<1>7. ASSUME loop.use = "encrypt"
      PROVE  KeyRecord(j, KeyBound) /\ j.key = k.key /\ (KeyNear(k, X) => KeyNear(j, X))
  <2>1. KeyRecord(k, KeyBound)
    BY <1>2, <1>7
  <2> HIDE DEF X
  <2> QED
    BY <1>4, <2>1, SwitchedDownOk
<1>8. LoopDec'
  <2> HIDE DEF j, X, Y
  <2>1. loop'.k = j /\ loop'.target = loop.target /\ loop'.use = loop.use
    BY <1>3
  <2> QED
    BY <1>1, <1>2, <1>3, <1>6, <1>7, <2>1 DEF LoopDec, X
<1> QED
  BY <1>1, <1>8, LoopOnlyDec

LEMMA EncryptDec ==
    ASSUME DInv, NEW m \in 0 .. T - 1, NEW u \in Mask, NEW e1 \in Noise, NEW e2 \in Noise,
           FinishEncrypt(m, u, e1, e2)
    PROVE  DInv'
<1> DEFINE l == loop.target
           k == loop.k
           X == AfterSwitching(MaxAbsorbed * NoiseBound, KeyBound)
           M == ToPoly(m, l)
           c1 == (u * k.c[1] + e1 + M) % Q(l)
           c2 == (u * k.c[2] + e2) % Q(l)
           x == [c |-> << c1, c2 >>, level |-> l, m |-> m, key |-> k.key, good |-> pk.of.same]
<1>1. /\ loop # None /\ loop.use = "encrypt" /\ k.level = l /\ loop' = None
      /\ ct' = x /\ UNCHANGED << task, sk, gen, board, acc, pk, r1, rlk, out >>
  BY DEF FinishEncrypt, LoopLeft
<1>2. /\ l \in Levels /\ ct = None /\ pk # None /\ KeyRecord(k, KeyBound)
      /\ pk.of.same => KeyNear(k, X)
  BY <1>1 DEF DInv, LoopDec
<1>3. /\ Q(l) \in Nat \ {0} /\ k.c[1] \in Int /\ k.c[2] \in Int /\ k.key \in Int
      /\ Within(k.key, KeyBound) /\ M \in Int
  BY <1>2, MessageInt, ConstantTypes DEF KeyRecord
<1>4. u \in Int /\ e1 \in Int /\ e2 \in Int
  BY Bounds
<1>5. Within(u, MaskBound) /\ Within(e1, NoiseBound) /\ Within(e2, NoiseBound)
  BY Bounds
<1>6. X \in Nat /\ KeyBound \in Nat
  BY Bounds, AfterSwitchingIs
<1>7. c1 \in Int /\ c2 \in Int
  <2> HIDE DEF M
  <2>1. u * k.c[1] + e1 + M \in Int /\ u * k.c[2] + e2 \in Int
    BY <1>3, <1>4
  <2> QED
    BY <1>2, <2>1, ReducedIs
<1>8. ASSUME pk.of.same PROVE Near(c1 + c2 * k.key, M, CiphertextNoise, Q(l))
  <2>1. Near(k.c[1] + k.c[2] * k.key, 0, X, Q(l))
    BY <1>1, <1>2, <1>8 DEF KeyNear
  <2>2. Encrypts(k.c[1], k.c[2], k.key, X, KeyBound, u, e1, e2, Q(l))
    <3> HIDE DEF X, l, k
    <3> QED
      BY <1>3, <1>4, <1>5, <1>6, <2>1 DEF Encrypts
  <2>3. Near(c1 + c2 * k.key, M, MaskBound * X + NoiseBound + NoiseBound * KeyBound, Q(l))
    <3> HIDE DEF X, l, k, M
    <3> QED
      BY <1>3, <2>2, EncryptedNear
  <2> QED
    BY <2>3 DEF CiphertextNoise, EncryptionNoise
<1>9. CtOk(x)
  <2>1. pk.of.same \in BOOLEAN
    BY <1>2 DEF DInv, PkDec
  <2>2. << c1, c2 >> \in Seq(Int) /\ Len(<< c1, c2 >>) = 2
    <3> HIDE DEF c1, c2
    <3> QED
      BY <1>7
  <2>3. /\ x.c = << c1, c2 >> /\ x.level = l /\ x.m = m /\ x.key = k.key /\ x.good = pk.of.same
        /\ x.c[1] = c1 /\ x.c[2] = c2
    OBVIOUS
  <2>4. x \in Ciphertext
    <3> HIDE DEF c1, c2, l, k
    <3> QED
      BY <1>2, <1>3, <2>1, <2>2 DEF Ciphertext
  <2> HIDE DEF x, c1, c2, l, k
  <2> QED
    BY <1>8, <2>2, <2>3, <2>4 DEF CtOk, M
<1> HIDE DEF x
<1>10. CtDec' /\ LoopDec'
  BY <1>1, <1>9 DEF CtDec, LoopDec
<1>11. BoardDec' /\ AccDec'
  BY <1>1, <1>2 DEF DInv, BoardDec, AccDec, Current
<1>12. OutDec'
  <2>1. out = None
    BY <1>2 DEF DInv, OutDec
  <2> QED
    BY <1>1, <2>1 DEF OutDec, DecryptsTogether, SwitchedToOutputKeys, SwitchedToPublicKey, Complete
<1>13. PartyDec' /\ PkDec' /\ RlkDec'
  BY <1>1, PartySame DEF DInv, PkDec, RlkDec
<1> QED
  BY <1>10, <1>11, <1>12, <1>13 DEF DInv

LEMMA MultiplyDec ==
    ASSUME DInv, NEW z \in ThirdPart, Multiply(z)
    PROVE  DInv'
<1> DEFINE c1 == (ct.c[1] - z * ct.key * ct.key) % Q(ct.level)
<1>1. /\ ct # None /\ board = {} /\ loop = None /\ out = None
      /\ ct' = [ct EXCEPT !.c = << c1, ct.c[2], z >>]
      /\ UNCHANGED << task, sk, gen, board, acc, pk, r1, rlk, loop, out >>
  BY DEF Multiply
<1>2. CtOk(ct)
  BY <1>1 DEF DInv, CtDec
<1>3. /\ ct \in Ciphertext /\ ct.level \in Levels /\ ct.key \in Int
      /\ ct.c[1] \in Int /\ ct.c[2] \in Int /\ z \in Int
  BY <1>2, CtTypes, MultipartyAssumption DEF CtOk
<1>4. c1 \in Int
  <2>1. ct.c[1] - z * ct.key * ct.key \in Int
    BY <1>3
  <2> QED
    BY <1>3, <2>1, ReducedIs
<1> HIDE DEF c1
<1>5. /\ ct' \in Ciphertext /\ ct'.good = ct.good /\ Len(ct'.c) = 3
  <2> DEFINE d == << c1, ct.c[2], z >>
  <2>1. d \in Seq(Int) /\ Len(d) = 3
    BY <1>3, <1>4
  <2> HIDE DEF d
  <2> QED
    BY <1>1, <1>3, <2>1 DEF Ciphertext, d
<1>6. CtOk(ct')
  BY <1>5 DEF CtOk
<1>7. ct' # None
  BY <1>5, NoneAssumption
<1>8. BoardDec' /\ AccDec'
  BY <1>1, <1>5, <1>7 DEF DInv, BoardDec, AccDec, Current
<1>9. CtDec' /\ LoopDec'
  BY <1>1, <1>6 DEF CtDec, LoopDec
<1>10. OutDec'
  BY <1>1 DEF OutDec, DecryptsTogether, SwitchedToOutputKeys, SwitchedToPublicKey, Complete
<1>11. PartyDec' /\ PkDec' /\ RlkDec'
  BY <1>1, PartySame DEF DInv, PkDec, RlkDec
<1> QED
  BY <1>8, <1>9, <1>10, <1>11 DEF DInv

LEMMA DInductive == IInv /\ DInv /\ [Next]_vars => DInv'
<1> SUFFICES ASSUME IInv, DInv, [Next]_vars PROVE DInv'
  OBVIOUS
<1>1. CASE UNCHANGED vars
  BY <1>1, OutSame, PartySame, SharesSame, KeysSame, LoopSame DEF vars, DInv
<1>2. ASSUME NEW p \in Party, NEW v \in CrpVector, NEW u \in Mask, NewGenerator(p, v, u)
      PROVE  DInv'
  BY <1>2, NewGeneratorDec
<1>3. ASSUME NEW m \in 0 .. T - 1, NEW u \in Mask, NEW e1 \in Noise, NEW e2 \in Noise,
             FinishEncrypt(m, u, e1, e2)
      PROVE  DInv'
  BY <1>3, EncryptDec
<1>4. ASSUME NEW z \in ThirdPart, Multiply(z) PROVE DInv'
  BY <1>4, MultiplyDec
<1> QED
  BY <1>1, <1>2, <1>3, <1>4, PublishingDec, FoldingDec, KeysFinishedDec, OutputsFinishedDec,
     LoopStartsDec, LoopStepDec DEF Next

LEMMA AlwaysDInv == Spec => []DInv
<1>1. Init => DInv
  BY DInitially
<1>2. IInv /\ DInv /\ [Next]_vars => DInv'
  BY DInductive
<1> QED
  BY <1>1, <1>2, AlwaysIInv, PTL DEF Spec

-----------------------------------------------------------------------------
(* Theorems. *)

(* Everything that is published, aggregated or made of an aggregation is   *)
(* reduced modulo its level, the loops stay among the levels, and no       *)
(* aggregation is empty, for any moduli and any shares.                    *)
THEOREM MultipartyTypes == Spec => []TypeOK
<1>1. DInv => TypeOK
  <2> SUFFICES ASSUME DInv PROVE TypeOK
    OBVIOUS
  <2>1. PartyDec /\ PkDec /\ RlkDec
    BY DEF DInv
  <2>2. ASSUME NEW s \in board PROVE \A i \in DOMAIN s.h0 : s.h0[i] \in Residues(LevelOf(s))
    <3> DEFINE l == LevelOf(s)
    <3>1. InRange(s.h0, l) /\ l \in Levels
      BY DEF DInv, BoardDec, ShareDec, HasRows, SourceOk
    <3> HIDE DEF l
    <3>2. \A i \in DOMAIN s.h0 : s.h0[i] \in Residues(l)
      BY <3>1, RangeIs
    <3> QED
      BY <3>2 DEF l
  <2>3. ASSUME acc # None
        PROVE  /\ acc.count \in 1 .. MaxAbsorbed
               /\ \A i \in DOMAIN acc.h0 : acc.h0[i] \in Residues(LevelOf(acc.first))
    <3> DEFINE l == LevelOf(acc.first)
    <3>1. InRange(acc.h0, l) /\ l \in Levels /\ acc.count \in 1 .. MaxAbsorbed
      BY <2>3 DEF DInv, AccDec, FoldDec, HasRows, SourceOk
    <3> HIDE DEF l
    <3>2. \A i \in DOMAIN acc.h0 : acc.h0[i] \in Residues(l)
      BY <3>1, RangeIs
    <3> QED
      BY <3>1, <3>2 DEF l
  <2>4. ct # None => ct.level \in Levels
    BY CtTypes DEF DInv, CtDec
  <2>5. loop # None => loop.k.level \in Levels
    BY DEF DInv, LoopDec, RecipientOk, KeyRecord
  <2> QED
    BY <2>1, <2>2, <2>3, <2>4, <2>5 DEF TypeOK, PartyDec, PkDec, RlkDec
<1> QED
  BY <1>1, AlwaysDInv, PTL

(* Where the moduli leave room for the noise, decryption shares of a       *)
(* complete set of parties give back the message, however the shares were  *)
(* published and folded and however far the public key was switched down   *)
(* (DecryptionShare and Aggregate<DecryptionShare> for Plaintext).         *)
THEOREM DecryptionIsExact ==
    ASSUME WithinBudget
    PROVE  Spec => []DecryptsTogether
<1>1. DInv => DecryptsTogether
  BY DEF DInv, OutDec
<1> QED
  BY <1>1, AlwaysDInv, PTL

(* Under the same hypothesis, the ciphertext that a complete key switch    *)
(* leaves decrypts to the message under the sum of the output secrets      *)
(* (Aggregate<SecretKeySwitchShare>).                                      *)
THEOREM KeySwitchIsExact ==
    ASSUME WithinBudget
    PROVE  Spec => []SwitchedToOutputKeys
<1>1. DInv => SwitchedToOutputKeys
  BY DEF DInv, OutDec
<1> QED
  BY <1>1, AlwaysDInv, PTL

(* And the one that a complete public key switch leaves does so under the  *)
(* recipient's key (Aggregate<PublicKeySwitchShare>).                      *)
THEOREM PublicKeySwitchIsExact ==
    ASSUME WithinBudget
    PROVE  Spec => []SwitchedToPublicKey
<1>1. DInv => SwitchedToPublicKey
  BY DEF DInv, OutDec
<1> QED
  BY <1>1, AlwaysDInv, PTL
=============================================================================
