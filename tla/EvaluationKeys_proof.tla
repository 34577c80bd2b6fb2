------------------------- MODULE EvaluationKeys_proof ------------------------
(***************************************************************************)
(* Theorems on evaluation keys, for every degree, chain and set of sizes.  *)
(*                                                                         *)
(* Two things carry the proofs.  The key is always the one the builder     *)
(* describes, because the bytes of a key determine it.  A call in progress *)
(* stays within what was checked when it began; for the expansion this     *)
(* means that the ciphertexts already computed are a prefix of the output  *)
(* that is always long enough for the next step.                           *)
(***************************************************************************)
EXTENDS EvaluationKeys, NumberLemmas

BuilderInv ==
    /\ builder = [ctLevel |-> builder.ctLevel, keyLevel |-> builder.keyLevel,
                  innerSum |-> builder.innerSum, rowRotation |-> builder.rowRotation,
                  expansionLevel |-> builder.expansionLevel,
                  columnRotation |-> builder.columnRotation]
    /\ builder.ctLevel \in 0 .. MaxLevel
    /\ builder.keyLevel \in 0 .. MaxLevel
    /\ builder.ctLevel >= builder.keyLevel
    /\ builder.expansionLevel \in 0 .. LogN

KeyInv == key # NoKey => key = Built(builder) /\ BuildOk(builder)

(* Rotations and the inner sum work on one ciphertext.                     *)
OneInv ==
    call # Idle /\ call.op # "expands" /\ ~call.done =>
        /\ call.op = "rows" => SupportsRowRotation(key)
        /\ call.op = "columns" => SupportsColumnRotation(key, call.arg)
        /\ call.op = "innerSum" => SupportsInnerSum(key) /\ call.l \in 0 .. LogN - 1
        /\ call.out[0] # Empty

(* The first 2^l + i ciphertexts have been computed, except those that are *)
(* not asked for.                                                          *)
ExpandInv ==
    call # Idle /\ call.op = "expands" /\ ~call.done =>
        /\ call.arg \in Nat /\ call.level \in 0 .. LogN + 1
        /\ IsCeilLog2(call.level, call.arg)
        /\ SupportsExpansion(key, call.level)
        /\ call.l \in 0 .. call.level
        /\ call.i \in Nat /\ call.i < 2 ^ call.l
        /\ DOMAIN call.out = 0 .. 2 ^ call.level - 1
        /\ \A m \in Nat : m < 2 ^ call.l + call.i /\ m < 2 ^ call.level
                            /\ (m < call.arg \/ m = 0) => call.out[m] # Empty

CallInv ==
    call # Idle => key # NoKey /\ call.op \in {"rows", "columns", "innerSum", "expands"}

IInv == BuilderInv /\ KeyInv /\ CallInv /\ OneInv /\ ExpandInv
-----------------------------------------------------------------------------
(* Facts on the constants and on the ring.                                 *)

LEMMA DegreeFacts == LogN \in Nat /\ LogN >= 1 /\ N \in Int /\ N >= 8
<1>1. LogN \in Nat /\ N >= 8
    BY RingAssumption
<1>2. 2 ^ 0 = 1
    OBVIOUS
<1>3. LogN # 0
    <2> SUFFICES ASSUME LogN = 0 PROVE FALSE
        OBVIOUS
    <2>1. N = 2 ^ 0
        BY Zenon DEF N
    <2> QED
        BY <1>1, <1>2, <2>1
<1>4. 2 ^ LogN \in Int
    BY <1>1
<1> QED
    BY <1>1, <1>3, <1>4 DEF N

(* The powers of two up to twice the degree.                               *)
LEMMA PowersOfTwo == \A l \in 0 .. LogN + 1 : 2 ^ l \in Nat /\ 2 ^ l >= 1
<1> DEFINE U == {l \in Nat : 2 ^ l \in Nat /\ 2 ^ l >= 1}
<1>1. 0 \in U
    <2>1. 2 ^ 0 = 1
        OBVIOUS
    <2> QED
        BY <2>1
<1>2. ASSUME NEW l \in 0 .. (LogN + 1) - 1, l \in U PROVE l + 1 \in U
    <2>1. 2 ^ (l + 1) = 2 * 2 ^ l
        BY PowersAssumption, DegreeFacts
    <2> DEFINE a == 2 ^ l
               b == 2 ^ (l + 1)
    <2>2. b = 2 * a /\ a \in Nat /\ a >= 1
        BY <1>2, <2>1
    <2>3. b \in Nat /\ b >= 1
        <3> HIDE DEF a, b
        <3> QED
            BY <2>2
    <2> QED
        BY <2>3
<1> HIDE DEF U
<1>3. LogN + 1 \in Nat
    BY DegreeFacts
<1>4. \A l \in 0 .. LogN + 1 : l \in U
    BY <1>1, <1>2, <1>3, InductionUpTo
<1> QED
    BY <1>4 DEF U

LEMMA PowersGrow == \A m \in 0 .. LogN + 1 : \A l \in 0 .. m : 2 ^ l <= 2 ^ m
<1> DEFINE U == {m \in 0 .. LogN + 1 : \A l \in 0 .. m : 2 ^ l <= 2 ^ m}
<1>1. 0 \in U
    <2>1. \A l \in 0 .. 0 : l = 0
        OBVIOUS
    <2>2. 2 ^ 0 = 1
        OBVIOUS
    <2>3. \A l \in 0 .. 0 : 2 ^ l <= 2 ^ 0
        BY <2>1, <2>2
    <2>4. 0 \in 0 .. LogN + 1
        BY DegreeFacts
    <2> QED
        BY <2>3, <2>4
<1>2. ASSUME NEW m \in 0 .. (LogN + 1) - 1, m \in U PROVE m + 1 \in U
    <2>1. m + 1 \in 0 .. LogN + 1 /\ m \in 0 .. LogN
        BY DegreeFacts
    <2>2. 2 ^ (m + 1) = 2 * 2 ^ m
        BY <2>1, PowersAssumption
    <2>3. ASSUME NEW l \in 0 .. m + 1 PROVE 2 ^ l <= 2 ^ (m + 1)
        <3> DEFINE a == 2 ^ l
                   b == 2 ^ m
                   c == 2 ^ (m + 1)
        <3>1. l \in 0 .. LogN + 1 /\ m \in 0 .. LogN + 1
            BY <2>1, DegreeFacts
        <3>2. a \in Nat /\ b \in Nat /\ c = 2 * b
            BY <2>2, <3>1, PowersOfTwo
        <3>3. CASE l = m + 1
            <4>1. a = c
                BY <3>3
            <4> HIDE DEF a, b, c
            <4>2. a <= c
                BY <3>2, <4>1
            <4> QED
                BY <4>2 DEF a, c
        <3>4. CASE l # m + 1
            <4>1. a <= b
                BY <1>2, <3>4
            <4> HIDE DEF a, b, c
            <4>2. a <= c
                BY <3>2, <4>1
            <4> QED
                BY <4>2 DEF a, c
        <3> QED
            BY <3>3, <3>4
    <2> QED
        BY <2>1, <2>3
<1> HIDE DEF U
<1>3. LogN + 1 \in Nat
    BY DegreeFacts
<1>4. \A m \in 0 .. LogN + 1 : m \in U
    BY <1>1, <1>2, <1>3, InductionUpTo
<1> QED
    BY <1>4 DEF U

(* The degree is a multiple of each of them, an even one of the smaller.   *)
LEMMA DegreeDivides ==
    \A l \in 0 .. LogN :
        \E k \in Nat : k >= 1 /\ N = 2 ^ l * k /\ (l < LogN => \E h \in Nat : k = 2 * h)
<1> DEFINE Divides(l) ==
        \E k \in Nat : k >= 1 /\ N = 2 ^ l * k /\ (l < LogN => \E h \in Nat : k = 2 * h)
           U == {n \in Nat : Divides(LogN - n)}
<1>1. 0 \in U
    <2>1. N = 2 ^ LogN * 1
        BY PowersOfTwo, DegreeFacts DEF N
    <2>2. LogN - 0 = LogN
        BY DegreeFacts
    <2>3. Divides(LogN)
        BY <2>1, DegreeFacts
    <2> HIDE DEF Divides
    <2> QED
        BY <2>2, <2>3
<1>2. ASSUME NEW n \in 0 .. LogN - 1, n \in U PROVE n + 1 \in U
    <2> DEFINE l == LogN - n
               j == LogN - (n + 1)
    <2>1. PICK k \in Nat : k >= 1 /\ N = 2 ^ l * k
        BY <1>2
    <2>2. l = j + 1 /\ j \in 0 .. LogN /\ j < LogN
        BY DegreeFacts
    <2>3. 2 ^ l = 2 * 2 ^ j
        <3>1. 2 ^ (j + 1) = 2 * 2 ^ j
            BY <2>2, PowersAssumption
        <3> QED
            BY <2>2, <3>1
    <2>4. 2 ^ j \in Nat
        BY <2>2, PowersOfTwo, DegreeFacts
    <2> DEFINE a == 2 ^ j
               m == 2 * k
    <2>5. N = a * m /\ m \in Nat /\ m >= 1
        <3>1. N = (2 * a) * k /\ a \in Nat
            BY <2>1, <2>3, <2>4
        <3> HIDE DEF a
        <3> QED
            BY <2>1, <3>1
    <2> HIDE DEF m
    <2>6. \E h \in Nat : m = 2 * h
        BY DEF m
    <2> QED
        BY <2>5, <2>6
<1> HIDE DEF U, Divides
<1>3. \A n \in 0 .. LogN : n \in U
    BY <1>1, <1>2, DegreeFacts, InductionUpTo
<1>4. ASSUME NEW l \in 0 .. LogN PROVE Divides(l)
    <2>1. LogN - l \in 0 .. LogN /\ LogN - (LogN - l) = l
        BY DegreeFacts
    <2>2. LogN - l \in U
        BY <1>3, <2>1
    <2> QED
        BY <2>1, <2>2 DEF U
<1> QED
    BY <1>4 DEF Divides

(* The powers of 3 modulo 2N: their recursion, and that they are odd.      *)
LEMMA PowersOfThree ==
    /\ Power3[0] = 1
    /\ \A i \in Nat : /\ Power3[i] \in Exponent
                      /\ Power3[i + 1] = (3 * Power3[i]) % (2 * N)
<1> DEFINE step == [x \in (Nat \ {0}) \X Exponent |-> (3 * x[2]) % (2 * N)]
<1>1. 1 \in Exponent
    BY DegreeFacts DEF Exponent
<1>2. \A k \in Nat \ {0}, e \in Exponent :
            /\ (3 * e) % (2 * N) \in Exponent
            /\ step[<< k, e >>] = (3 * e) % (2 * N)
    <2> SUFFICES ASSUME NEW k \in Nat \ {0}, NEW e \in Exponent
                 PROVE  /\ (3 * e) % (2 * N) \in Exponent
                        /\ step[<< k, e >>] = (3 * e) % (2 * N)
        OBVIOUS
    <2>1. step[<< k, e >>] = (3 * e) % (2 * N)
        OBVIOUS
    <2> DEFINE q == (3 * e) \div (2 * N)
               r == (3 * e) % (2 * N)
    <2>2. e \in Int /\ e % 2 = 1 /\ N \in Int /\ N >= 8
        BY DegreeFacts DEF Exponent
    <2>3. 3 * e = q * (2 * N) + r /\ q \in Int /\ r \in Int /\ 0 <= r /\ r < 2 * N
        <3>1. 3 * e \in Int /\ 2 * N \in Nat \ {0}
            BY <2>2
        <3> QED
            BY <3>1, Remainder
    <2>4. 3 * e = 2 * (q * N) + r /\ q * N \in Int
        <3> HIDE DEF q, r
        <3>1. q * (2 * N) = 2 * (q * N)
            BY <2>2, <2>3
        <3> QED
            BY <2>2, <2>3, <3>1
    <2>5. r % 2 = 1
        <3> DEFINE p == q * N
        <3>1. 3 * e = 2 * p + r /\ p \in Int
            BY <2>4
        <3> HIDE DEF p, q, r
        <3> QED
            BY <2>2, <2>3, <3>1
    <2>6. r \in 1 .. 2 * N - 1
        <3> HIDE DEF q, r
        <3> QED
            BY <2>2, <2>3, <2>5
    <2> QED
        BY <2>1, <2>5, <2>6 DEF Exponent
<1>3. step \in [(Nat \ {0}) \X Exponent -> Exponent]
    <2>1. ASSUME NEW x \in (Nat \ {0}) \X Exponent PROVE (3 * x[2]) % (2 * N) \in Exponent
        <3>1. x[1] \in Nat \ {0} /\ x[2] \in Exponent
            OBVIOUS
        <3> QED
            BY <1>2, <3>1
    <2> QED
        BY <2>1
<1> HIDE DEF step
<1>4. PICK g \in [Nat -> Exponent] : StepsForever(g, 1, step)
    BY <1>1, <1>3, EndlessRecursion
<1>5. ASSUME NEW k \in Nat \ {0} PROVE g[k] = (3 * g[k - 1]) % (2 * N)
    <2>1. k - 1 \in Nat
        OBVIOUS
    <2>2. g[k - 1] \in Exponent
        BY <2>1
    <2> QED
        BY <1>2, <1>4, <2>2 DEF StepsForever
<1>6. g = [i \in Nat |-> IF i = 0 THEN 1 ELSE (3 * g[i - 1]) % (2 * N)]
    <2>1. ASSUME NEW i \in Nat
          PROVE  g[i] = IF i = 0 THEN 1 ELSE (3 * g[i - 1]) % (2 * N)
        BY <1>4, <1>5 DEF StepsForever
    <2> QED
        BY <2>1
<1>7. Power3 = [i \in Nat |-> IF i = 0 THEN 1 ELSE (3 * Power3[i - 1]) % (2 * N)]
    BY <1>6 DEF Power3
<1>8. Power3[0] = 1
    BY <1>7
<1>9. ASSUME NEW i \in Nat PROVE Power3[i + 1] = (3 * Power3[i]) % (2 * N)
    <2>1. i + 1 \in Nat /\ i + 1 # 0 /\ (i + 1) - 1 = i
        OBVIOUS
    <2> QED
        BY <1>7, <2>1
<1> DEFINE U == {i \in Nat : Power3[i] \in Exponent}
<1>10. 0 \in U
    BY <1>1, <1>8
<1>11. ASSUME NEW i \in Nat, i \in U PROVE i + 1 \in U
    <2>1. Power3[i] \in Exponent
        BY <1>11
    <2>2. (3 * Power3[i]) % (2 * N) \in Exponent
        <3>1. 1 \in Nat \ {0}
            OBVIOUS
        <3> QED
            BY <1>2, <2>1, <3>1
    <2> QED
        BY <1>9, <2>2
<1> HIDE DEF U
<1>12. Nat \subseteq U
    BY <1>10, <1>11, SetInduction
<1>13. \A i \in Nat : Power3[i] \in Exponent
    BY <1>12 DEF U
<1> QED
    BY <1>8, <1>9, <1>13

(* A polynomial, whatever its coefficients, is not the empty ciphertext.   *)
LEMMA NotEmpty == ASSUME NEW f, DOMAIN f = Index PROVE f # Empty
<1>1. 0 \in Index
    BY DegreeFacts DEF Index
<1>2. DOMAIN Empty = {}
    BY DEF Empty
<1> QED
    BY <1>1, <1>2

LEMMA PlusNotEmpty == ASSUME NEW p, NEW q PROVE Plus(p, q) # Empty
<1>1. DOMAIN Plus(p, q) = Index
    BY DEF Plus
<1> QED
    BY <1>1, NotEmpty

LEMMA TimesNotEmpty == ASSUME NEW p, NEW q PROVE Times(p, q) # Empty
<1>1. DOMAIN Times(p, q) = Index
    BY DEF Times
<1> QED
    BY <1>1, NotEmpty

LEMMA InputNotEmpty == ASSUME NEW p \in Inputs PROVE p # Empty
<1>1. DOMAIN p = Index
    BY KeysAssumption DEF Poly
<1> QED
    BY <1>1, NotEmpty

-----------------------------------------------------------------------------
(* The bytes of a key the builder made determine the key.                  *)
LEMMA BuiltRoundTrip ==
    ASSUME NEW b, BuildOk(b),
           b.ctLevel \in 0 .. MaxLevel, b.keyLevel \in 0 .. MaxLevel,
           b.ctLevel >= b.keyLevel
    PROVE  /\ DeserializeOk(Serialize(Built(b)))
           /\ Deserialize(Serialize(Built(b))) = Built(b)
<1> DEFINE G(e) == NewGaloisKey(e, b.ctLevel, b.keyLevel)
           M == Serialize(Built(b))
<1>1. /\ M.ctLevel = b.ctLevel
      /\ M.keyLevel = b.keyLevel
      /\ M.gk = {G(e) : e \in Indices(b)}
    BY DEF Serialize, Built
<1>2. ASSUME NEW e \in Indices(b)
      PROVE  /\ G(e).exponent = e
             /\ G(e).ctLevel = b.ctLevel
             /\ G(e).kskLevel = b.keyLevel
             /\ GaloisKeyFromProtoOk(G(e))
    <2>1. /\ G(e).exponent = e
          /\ G(e).ctLevel = b.ctLevel
          /\ G(e).kskLevel = b.keyLevel
        BY DEF NewGaloisKey
    <2>2. NewGaloisKeyOk(e)
        BY DEF BuildOk
    <2>3. MaxLevel \in Nat /\ LogModulus \in Nat
        BY KeysAssumption
    <2>4. CASE Moduli(b.keyLevel) = 1
        <3>1. b.keyLevel = MaxLevel /\ b.ctLevel = MaxLevel
            BY <2>3, <2>4 DEF Moduli
        <3>2. /\ G(e).logBase = LogModulus \div 2
              /\ G(e).rows = IF G(e).logBase = 0 THEN Moduli(b.ctLevel) ELSE Digits(G(e).logBase)
            BY <2>4 DEF NewGaloisKey
        <3> QED
            BY <2>1, <2>2, <2>3, <3>1, <3>2 DEF GaloisKeyFromProtoOk
    <2>5. CASE Moduli(b.keyLevel) # 1
        <3>1. G(e).logBase = 0 /\ G(e).rows = Moduli(b.ctLevel)
            BY <2>5 DEF NewGaloisKey
        <3> QED
            BY <2>1, <2>2, <2>3, <3>1 DEF GaloisKeyFromProtoOk
    <2> QED
        BY <2>1, <2>4, <2>5
<1> HIDE DEF G, M
<1>3. DeserializeOk(M)
    BY <1>1, <1>2 DEF DeserializeOk
<1>4. {g.exponent : g \in M.gk} = Indices(b)
    BY <1>1, <1>2
<1>5. ASSUME NEW e \in Indices(b)
      PROVE  (CHOOSE g \in M.gk : g.exponent = e) = G(e)
    <2>1. G(e) \in M.gk /\ G(e).exponent = e
        BY <1>1, <1>2
    <2>2. \A g \in M.gk : g.exponent = e => g = G(e)
        BY <1>1, <1>2
    <2> QED
        BY <2>1, <2>2
<1>6. [e \in {g.exponent : g \in M.gk} |-> CHOOSE g \in M.gk : g.exponent = e]
            = [e \in Indices(b) |-> G(e)]
    BY <1>4, <1>5
<1>7. Built(b) = [ctLevel |-> b.ctLevel, keyLevel |-> b.keyLevel,
                  gk |-> [e \in Indices(b) |-> G(e)]]
    BY DEF Built, G
<1>8. Deserialize(M) = Built(b)
    BY <1>1, <1>6, <1>7 DEF Deserialize
<1> QED
    BY <1>3, <1>8 DEF M

(* Every feature of the builder is supported by the key it describes.      *)
LEMMA BuiltDelivers ==
    ASSUME BuilderInv, KeyInv
    PROVE  BuilderDelivers
<1> SUFFICES ASSUME key # NoKey PROVE BuilderDelivers
    BY DEF BuilderDelivers
<1>1. /\ key.keyLevel = builder.keyLevel
      /\ DOMAIN key.gk = Indices(builder)
    BY DEF KeyInv, Built
<1>2. builder.rowRotation => SupportsRowRotation(key)
    BY <1>1 DEF SupportsRowRotation, Indices
<1>3. builder.innerSum => SupportsInnerSum(key)
    BY <1>1 DEF SupportsInnerSum, Indices
<1>4. SupportsExpansion(key, builder.expansionLevel)
    <2>1. key.keyLevel # MaxLevel + 1
        BY <1>1, KeysAssumption DEF BuilderInv
    <2>2. builder.expansionLevel < LeadingZeros \/ builder.expansionLevel = 0
        BY KeysAssumption, RingAssumption DEF BuilderInv, LeadingZeros
    <2> QED
        BY <1>1, <2>1, <2>2 DEF SupportsExpansion, Indices
<1>5. \A i \in Rotation : ColumnExponent(i) \in builder.columnRotation
                                => SupportsColumnRotation(key, i)
    BY <1>1 DEF SupportsColumnRotation, Indices
<1> QED
    BY <1>2, <1>3, <1>4, <1>5 DEF BuilderDelivers

(* The invariant holds what the next step of a call needs.                 *)
LEMMA InvStepIsDefined == ASSUME CallInv, OneInv, ExpandInv PROVE StepIsDefined
<1> SUFFICES ASSUME Running, ~Expanded PROVE StepDefined
    BY DEF StepIsDefined
<1>1. call # Idle /\ ~call.done
    BY DEF Running
<1>2. CASE call.op = "rows"
    BY <1>1, <1>2 DEF OneInv, StepDefined, StepExponent, Operand, SupportsRowRotation
<1>3. CASE call.op = "columns"
    BY <1>1, <1>3 DEF OneInv, StepDefined, StepExponent, Operand, SupportsColumnRotation
<1>4. CASE call.op = "innerSum"
    <2>1. SupportsInnerSum(key) /\ call.l \in 0 .. LogN - 1 /\ call.out[0] # Empty
        BY <1>1, <1>4 DEF OneInv
    <2>2. StepExponent \in DOMAIN key.gk
        <3>1. CASE call.l <= LogN - 2
            <4>1. 2 ^ call.l \in SumRotations
                <5>1. call.l \in 0 .. LogN - 2
                    BY <2>1, <3>1, RingAssumption
                <5> QED
                    BY <5>1, Zenon DEF SumRotations
            <4> QED
                BY <1>4, <2>1, <3>1, <4>1 DEF StepExponent, SupportsInnerSum
        <3>2. CASE ~(call.l <= LogN - 2)
            BY <1>4, <2>1, <3>2 DEF StepExponent, SupportsInnerSum
        <3> QED
            BY <3>1, <3>2
    <2> QED
        BY <1>4, <2>1, <2>2 DEF StepDefined, Operand
<1>5. CASE call.op = "expands"
    <2>1. /\ call.arg \in Nat /\ call.level \in 0 .. LogN + 1
          /\ IsCeilLog2(call.level, call.arg) /\ SupportsExpansion(key, call.level)
          /\ call.l \in 0 .. call.level
          /\ call.i \in Nat /\ call.i < 2 ^ call.l
          /\ \A m \in Nat : m < 2 ^ call.l + call.i /\ m < 2 ^ call.level
                            /\ (m < call.arg \/ m = 0) => call.out[m] # Empty
        BY <1>1, <1>5 DEF ExpandInv
    <2>2. call.l \in 0 .. call.level - 1
        BY <1>5, <2>1, RingAssumption DEF Expanded
    <2>3. 2 ^ call.l < call.arg /\ call.arg <= 2 ^ call.level
        BY <2>1, <2>2, RingAssumption DEF IsCeilLog2
    <2>4. call.out[call.i] # Empty
        <3>1. 2 ^ call.l \in Int /\ 2 ^ call.level \in Int
            BY <2>1, <2>2, RingAssumption
        <3>2. /\ call.i < 2 ^ call.l + call.i
              /\ call.i < 2 ^ call.level
              /\ call.i < call.arg
            BY <2>1, <2>3, <3>1
        <3> QED
            BY <2>1, <3>2
    <2>5. ExpandExponent(call.l) \in DOMAIN key.gk
        BY <2>1, <2>2, RingAssumption DEF SupportsExpansion
    <2> QED
        BY <1>5, <2>4, <2>5 DEF StepDefined, StepExponent, Operand
<1> QED
    BY <1>1, <1>2, <1>3, <1>4, <1>5 DEF CallInv
-----------------------------------------------------------------------------
(* The inductive invariant.                                                *)
LEMMA InitInv == Init => IInv
<1> SUFFICES ASSUME Init PROVE IInv
    OBVIOUS
<1>1. BuilderInv
    <2>1. PICK c, k \in 0 .. MaxLevel : NewLeveledOk(c, k) /\ builder = NewLeveled(c, k)
        BY DEF Init
    <2> QED
        BY <2>1, KeysAssumption, RingAssumption DEF BuilderInv, NewLeveled, NewLeveledOk
<1>2. KeyInv /\ CallInv /\ OneInv /\ ExpandInv
    BY DEF Init, KeyInv, CallInv, OneInv, ExpandInv
<1> QED
    BY <1>1, <1>2 DEF IInv

(* Configuring the builder: there is no key yet, hence no call.            *)
LEMMA ConfigureInv ==
    ASSUME IInv, NEW b, Configure(b),
           b = [ctLevel |-> builder.ctLevel, keyLevel |-> builder.keyLevel,
                innerSum |-> b.innerSum, rowRotation |-> b.rowRotation,
                expansionLevel |-> b.expansionLevel, columnRotation |-> b.columnRotation],
           b.expansionLevel \in 0 .. LogN
    PROVE  IInv'
<1>1. key = NoKey /\ key' = key /\ call' = call /\ builder' = b
    BY DEF Configure
<1>2. b.ctLevel = builder.ctLevel /\ b.keyLevel = builder.keyLevel
    OBVIOUS
<1>3. BuilderInv'
    BY <1>1, <1>2 DEF IInv, BuilderInv
<1>4. KeyInv' /\ CallInv' /\ OneInv' /\ ExpandInv'
    BY <1>1 DEF IInv, KeyInv, CallInv, OneInv, ExpandInv
<1> QED
    BY <1>3, <1>4 DEF IInv

LEMMA BuilderStepInv ==
    ASSUME IInv,
           EnableExpansion \/ EnableInnerSum \/ EnableRowRotation \/ EnableColumnRotation
    PROVE  IInv'
<1> USE DEF IInv, BuilderInv
<1>1. CASE EnableExpansion
    <2>1. PICK level \in 0 .. LogN + 1 :
            EnableExpansionOk(level) /\ Configure([builder EXCEPT !.expansionLevel = level])
        BY <1>1 DEF EnableExpansion
    <2>2. level \in 0 .. LogN
        BY <2>1, RingAssumption DEF EnableExpansionOk
    <2> QED
        BY <2>1, <2>2, ConfigureInv
<1>2. CASE EnableInnerSum
    BY <1>2, ConfigureInv DEF EnableInnerSum
<1>3. CASE EnableRowRotation
    BY <1>3, ConfigureInv DEF EnableRowRotation
<1>4. CASE EnableColumnRotation
    BY <1>4, ConfigureInv DEF EnableColumnRotation
<1> QED
    BY <1>1, <1>2, <1>3, <1>4

LEMMA BuildInv == ASSUME IInv, Build PROVE IInv'
<1>1. /\ key = NoKey /\ BuildOk(builder)
      /\ key' = Built(builder) /\ builder' = builder /\ call' = call
    BY DEF Build
<1>2. call = Idle
    BY <1>1 DEF IInv, CallInv
<1>3. BuilderInv' /\ KeyInv'
    BY <1>1 DEF IInv, BuilderInv, KeyInv
<1>4. CallInv' /\ OneInv' /\ ExpandInv'
    BY <1>1, <1>2 DEF CallInv, OneInv, ExpandInv
<1> QED
    BY <1>3, <1>4 DEF IInv

LEMMA InvRoundTrip == ASSUME BuilderInv, KeyInv PROVE KeyRoundTrip
BY BuiltRoundTrip DEF BuilderInv, KeyInv, KeyRoundTrip

(* A key comes back as it was, so nothing changes.                         *)
LEMMA TransferInv == ASSUME IInv, Transfer PROVE IInv'
<1>1. key # NoKey /\ key' = Deserialize(Serialize(key)) /\ builder' = builder /\ call' = call
    BY DEF Transfer
<1>2. key' = key
    BY <1>1, InvRoundTrip DEF IInv, KeyRoundTrip
<1> QED
    BY <1>1, <1>2 DEF IInv, BuilderInv, KeyInv, CallInv, OneInv, ExpandInv
-----------------------------------------------------------------------------
(* A new call has been checked against what the key supports.              *)
LEMMA StartsInv ==
    ASSUME IInv, NEW op \in {"rows", "columns", "innerSum", "expands"}, NEW arg, NEW level,
           Start(op, arg, level),
           op = "expands" =>
               arg \in Nat /\ level \in 0 .. LogN + 1 /\ IsCeilLog2(level, arg),
           op # "expands" => level = 0
    PROVE  IInv'
<1>1. /\ key # NoKey /\ key' = key /\ builder' = builder
      /\ Supports(key, op, arg, level)
    BY DEF Start
<1>2. PICK p \in Inputs : call' = NewCall(op, arg, level, p)
    BY DEF Start
<1>3. /\ call'.op = op /\ call'.arg = arg /\ call'.level = level
      /\ call'.l = 0 /\ call'.i = 0
      /\ call'.out = [j \in 0 .. 2 ^ level - 1 |-> IF j = 0 THEN p ELSE Empty]
    BY <1>2 DEF NewCall
<1>4. p # Empty
    BY InputNotEmpty
<1>5. 2 ^ 0 = 1
    OBVIOUS
<1>6. BuilderInv' /\ KeyInv' /\ CallInv'
    BY <1>1, <1>3 DEF IInv, BuilderInv, KeyInv, CallInv
<1>7. OneInv'
    <2> SUFFICES ASSUME op # "expands" PROVE OneInv'
        BY <1>3 DEF OneInv
    <2>1. 2 ^ level - 1 = 0
        BY <1>5
    <2>2. call'.out[0] # Empty
        BY <1>3, <1>4, <2>1
    <2>3. 0 \in 0 .. LogN - 1
        BY DegreeFacts
    <2> QED
        BY <1>1, <1>3, <2>2, <2>3
        DEF OneInv, Supports, SupportsRowRotation, SupportsColumnRotation, SupportsInnerSum
<1>8. ExpandInv'
    <2> SUFFICES ASSUME op = "expands" PROVE ExpandInv'
        BY <1>3 DEF ExpandInv
    <2>1. SupportsExpansion(key', level)
        BY <1>1 DEF Supports
    <2>2. level \in Nat /\ 2 ^ level \in Int
        BY RingAssumption
    <2>3. ASSUME NEW m \in Nat, m < 2 ^ 0 + 0, m < 2 ^ level
          PROVE  call'.out[m] # Empty
        <3>1. m = 0 /\ 0 \in 0 .. 2 ^ level - 1
            BY <1>5, <2>2, <2>3
        <3> QED
            BY <1>3, <1>4, <3>1
    <2>4. 0 \in 0 .. level /\ 0 \in Nat /\ 0 < 2 ^ 0
        BY <1>5, <2>2
    <2>5. DOMAIN call'.out = 0 .. 2 ^ level - 1
        BY <1>3
    <2> QED
        BY <1>3, <2>1, <2>3, <2>4, <2>5 DEF ExpandInv, IsCeilLog2
<1> QED
    BY <1>6, <1>7, <1>8 DEF IInv

LEMMA StartCallInv == ASSUME IInv, StartCall PROVE IInv'
<1>1. CASE Start("rows", 0, 0)
    BY <1>1, StartsInv
<1>2. ASSUME NEW i \in 0 .. RowSize, Start("columns", i, 0) PROVE IInv'
    BY <1>2, StartsInv
<1>3. CASE Start("innerSum", 0, 0)
    BY <1>3, StartsInv
<1>4. ASSUME NEW size \in Sizes, NEW level \in 0 .. LogN + 1,
             IsCeilLog2(level, size), Start("expands", size, level)
      PROVE  IInv'
    <2>1. size \in Nat
        BY KeysAssumption
    <2> QED
        BY <1>4, <2>1, StartsInv
<1> QED
    BY <1>1, <1>2, <1>3, <1>4 DEF StartCall

(* Rotations and the inner sum: one ciphertext replaces another.           *)
LEMMA OneStepInv == ASSUME IInv, RotateStep \/ SumStep PROVE IInv'
<1>1. /\ call # Idle /\ ~call.done /\ key' = key /\ builder' = builder
      /\ call.op \in {"rows", "columns", "innerSum"}
    BY DEF RotateStep, SumStep, Running
<1>2. call'.op = call.op /\ call'.arg = call.arg
    BY DEF RotateStep, SumStep, Proceed
<1>3. BuilderInv' /\ KeyInv' /\ CallInv'
    BY <1>1, <1>2 DEF IInv, BuilderInv, KeyInv, CallInv
<1>4. ExpandInv'
    BY <1>1, <1>2 DEF ExpandInv
<1>5. OneInv'
    <2>1. CASE RotateStep
        <3>1. call'.done
            BY <2>1 DEF RotateStep, Proceed
        <3> QED
            BY <3>1 DEF OneInv
    <2>2. CASE SumStep
        <3>1. /\ call.op = "innerSum"
              /\ call'.out = [j \in 0 .. 0 |-> Plus(Operand, Rotated)]
              /\ call'.l = call.l + 1
              /\ call'.done = (call.l = LogN - 1)
            BY <2>2 DEF SumStep, Proceed
        <3>2. SupportsInnerSum(key) /\ call.l \in 0 .. LogN - 1
            BY <1>1, <3>1 DEF IInv, OneInv
        <3>3. SupportsInnerSum(key')
            BY <1>1, <3>2
        <3>4. call'.out[0] # Empty
            BY <3>1, PlusNotEmpty
        <3>5. ASSUME ~call'.done PROVE call'.l \in 0 .. LogN - 1
            <4>1. call.l # LogN - 1
                BY <3>1, <3>5, Zenon
            <4> QED
                BY <3>1, <3>2, <4>1, RingAssumption
        <3> QED
            BY <1>2, <3>1, <3>3, <3>4, <3>5 DEF OneInv
    <2> QED
        BY <2>1, <2>2
<1> QED
    BY <1>3, <1>4, <1>5 DEF IInv

(* One iteration of the inner loop of the expansion.                       *)
LEMMA ExpandStepInv == ASSUME IInv, ExpandStep PROVE IInv'
<1> DEFINE l == call.l
           i == call.i
           arg == call.arg
           level == call.level
<1>1. /\ call # Idle /\ ~call.done /\ key' = key /\ builder' = builder
      /\ call.op = "expands" /\ l < level
    BY DEF ExpandStep, Running, Expanding
<1>2. /\ arg \in Nat /\ level \in 0 .. LogN + 1
      /\ IsCeilLog2(level, arg) /\ SupportsExpansion(key, level)
      /\ l \in 0 .. level /\ i \in Nat /\ i < 2 ^ l
      /\ DOMAIN call.out = 0 .. 2 ^ level - 1
    BY <1>1 DEF IInv, ExpandInv
<1>3. \A m \in Nat : m < 2 ^ l + i /\ m < 2 ^ level /\ (m < arg \/ m = 0)
                        => call.out[m] # Empty
    BY <1>1 DEF IInv, ExpandInv
<1>4. /\ call'.op = "expands" /\ call'.arg = arg /\ call'.level = level /\ ~call'.done
      /\ call'.l = IF i + 1 = 2 ^ l THEN l + 1 ELSE l
      /\ call'.i = IF i + 1 = 2 ^ l THEN 0 ELSE i + 1
      /\ call'.out = [m \in DOMAIN call.out |->
                        CASE m = i                          -> Plus(Operand, Rotated)
                          [] m = 2 ^ l + i /\ 2 ^ l + i < arg -> Target
                          [] OTHER                          -> call.out[m]]
    BY <1>1 DEF ExpandStep, Proceed
<1>5. BuilderInv' /\ KeyInv' /\ CallInv' /\ OneInv'
    BY <1>1, <1>4 DEF IInv, BuilderInv, KeyInv, CallInv, OneInv
<1>6. Target # Empty /\ Plus(Operand, Rotated) # Empty
    BY TimesNotEmpty, PlusNotEmpty DEF Target
<1>7. l \in Nat /\ 2 ^ l \in Int /\ 2 ^ level \in Int /\ 2 ^ (l + 1) = 2 * 2 ^ l
    <2>1. l \in 0 .. LogN /\ level \in Nat
        BY <1>1, <1>2, RingAssumption
    <2> QED
        BY <2>1, RingAssumption, PowersAssumption
<1>8. call'.l \in 0 .. level /\ call'.i \in Nat
    BY <1>1, <1>2, <1>4, SMTT(60)
<1>9. 2 ^ call'.l + call'.i = 2 ^ l + i + 1 /\ call'.i < 2 ^ call'.l
    <2>1. CASE i + 1 = 2 ^ l
        <3>1. call'.l = l + 1 /\ call'.i = 0
            BY <1>4, <2>1
        <3>2. 2 ^ call'.l = 2 ^ (l + 1)
            BY <3>1
        <3>3. 2 ^ call'.l = 2 * 2 ^ l
            BY <1>7, <3>2
        <3> HIDE DEF l, i
        <3> QED
            BY <1>2, <1>7, <2>1, <3>1, <3>3
    <2>2. CASE i + 1 # 2 ^ l
        <3>1. call'.l = l /\ call'.i = i + 1
            BY <1>4, <2>2
        <3>2. 2 ^ call'.l = 2 ^ l
            BY <3>1
        <3> HIDE DEF l, i
        <3> QED
            BY <1>2, <1>7, <2>2, <3>1, <3>2
    <2> QED
        BY <2>1, <2>2
<1>10. ASSUME NEW m \in Nat, m < 2 ^ l + i + 1, m < 2 ^ level, m < arg \/ m = 0
       PROVE  call'.out[m] # Empty
    <2>1. m \in DOMAIN call.out
        BY <1>2, <1>7, <1>10
    <2>2. CASE m = i
        BY <1>4, <1>6, <2>1, <2>2
    <2>3. CASE m # i /\ m = 2 ^ l + i
        <3>1. 2 ^ l + i < arg
            BY <1>2, <1>7, <1>10, <2>3, SMTT(60)
        <3> QED
            BY <1>4, <1>6, <2>1, <2>3, <3>1
    <2>4. CASE m # i /\ m # 2 ^ l + i
        <3>1. call'.out[m] = call.out[m]
            BY <1>4, <2>1, <2>4
        <3>2. m < 2 ^ l + i
            <4> HIDE DEF l, i
            <4> QED
                BY <1>2, <1>7, <1>10, <2>4
        <3> QED
            BY <1>3, <1>10, <3>1, <3>2
    <2> QED
        BY <2>2, <2>3, <2>4
<1>11. DOMAIN call'.out = 0 .. 2 ^ level - 1
    BY <1>2, <1>4
<1>12. SupportsExpansion(key', level)
    BY <1>1, <1>2
<1>13. ExpandInv'
    <2> HIDE DEF l, i, arg, level
    <2> SUFFICES
           /\ call'.arg \in Nat /\ call'.level \in 0 .. LogN + 1
           /\ IsCeilLog2(call'.level, call'.arg)
           /\ SupportsExpansion(key', call'.level)
           /\ call'.l \in 0 .. call'.level
           /\ call'.i \in Nat /\ call'.i < 2 ^ call'.l
           /\ DOMAIN call'.out = 0 .. 2 ^ call'.level - 1
           /\ \A m \in Nat : m < 2 ^ call'.l + call'.i /\ m < 2 ^ call'.level
                            /\ (m < call'.arg \/ m = 0) => call'.out[m] # Empty
        BY DEF ExpandInv, IsCeilLog2, SupportsExpansion, ExpandExponent, LeadingZeros
    <2> QED
        BY <1>2, <1>4, <1>8, <1>9, <1>10, <1>11, <1>12
<1> QED
    BY <1>5, <1>13 DEF IInv

(* The end of a call, and the caller taking the result.                    *)
LEMMA EndInv == ASSUME IInv, ExpandReturn \/ Return PROVE IInv'
<1>1. CASE ExpandReturn
    <2>1. /\ call # Idle /\ key' = key /\ builder' = builder
          /\ call'.op = "expands" /\ call.op = "expands" /\ call'.done
        BY <1>1 DEF ExpandReturn, Expanded, Running, Proceed
    <2> QED
        BY <2>1 DEF IInv, BuilderInv, KeyInv, CallInv, OneInv, ExpandInv
<1>2. CASE Return
    <2>1. call' = Idle /\ key' = key /\ builder' = builder
        BY <1>2 DEF Return
    <2> QED
        BY <2>1 DEF IInv, BuilderInv, KeyInv, CallInv, OneInv, ExpandInv
<1> QED
    BY <1>1, <1>2

LEMMA StutterInv == ASSUME IInv, UNCHANGED vars PROVE IInv'
BY DEF vars, IInv, BuilderInv, KeyInv, CallInv, OneInv, ExpandInv

LEMMA Invariance == Spec => []IInv
<1>1. Init => IInv
    BY InitInv
<1>2. IInv /\ [Next]_vars => IInv'
    BY BuilderStepInv, BuildInv, TransferInv, StartCallInv, OneStepInv, ExpandStepInv,
       EndInv, StutterInv DEF Next, Step
<1> QED
    BY <1>1, <1>2, PTL DEF Spec

-----------------------------------------------------------------------------
(* Every exponent a builder collects is odd and below 2N.                  *)
LEMMA ExpandExponents == \A l \in 0 .. LogN - 1 : ExpandExponent(l) \in Exponent
<1> SUFFICES ASSUME NEW l \in 0 .. LogN - 1 PROVE ExpandExponent(l) \in Exponent
    OBVIOUS
<1>1. l \in 0 .. LogN /\ l < LogN /\ N \in Int /\ N >= 8
    BY DegreeFacts
<1>2. PICK k \in Nat : k >= 1 /\ N = 2 ^ l * k /\ \E h \in Nat : k = 2 * h
    BY <1>1, DegreeDivides
<1>3. PICK h \in Nat : k = 2 * h
    BY <1>2
<1> DEFINE a == 2 ^ l
<1>4. a \in Nat /\ a >= 1
    <2>1. l \in 0 .. LogN + 1
        BY <1>1, DegreeFacts
    <2> QED
        BY <2>1, PowersOfTwo
<1>5. N = a * k /\ ExpandExponent(l) = N \div a + 1
    BY <1>2 DEF ExpandExponent
<1> HIDE DEF a
<1>6. N = k * a + 0 /\ 0 < a
    BY <1>4, <1>5
<1>7. N \div a = k
    BY <1>1, <1>4, <1>6, QuotientUnique
<1>8. k <= N
    BY <1>4, <1>5
<1> QED
    BY <1>1, <1>2, <1>3, <1>5, <1>7, <1>8 DEF Exponent

(* The exponent of the level after the last is 2.                          *)
LEMMA LastExpandExponent == ExpandExponent(LogN) = 2
<1>1. N \in Int /\ N >= 8 /\ N = 1 * N + 0
    BY DegreeFacts
<1>2. N \div N = 1
    BY <1>1, QuotientUnique
<1> QED
    BY <1>2 DEF ExpandExponent, N

LEMMA ExponentsOdd ==
    ASSUME NEW b, b.columnRotation \subseteq Exponent, b.expansionLevel \in 0 .. LogN
    PROVE  Indices(b) \subseteq Exponent
<1>1. RowExponent \in Exponent
    BY DegreeFacts DEF RowExponent, Exponent
<1>2. ASSUME NEW i \in SumRotations PROVE ColumnExponent(i) \in Exponent
    <2>1. PICK l \in 0 .. LogN - 2 : i = 2 ^ l
        BY DEF SumRotations
    <2>2. l \in 0 .. LogN + 1
        BY DegreeFacts
    <2>3. i \in Nat
        BY <2>1, <2>2, PowersOfTwo
    <2> QED
        BY <2>3, PowersOfThree DEF ColumnExponent
<1>3. ASSUME NEW l \in 0 .. b.expansionLevel - 1 PROVE ExpandExponent(l) \in Exponent
    <2>1. l \in 0 .. LogN - 1
        BY DegreeFacts
    <2> QED
        BY <2>1, ExpandExponents
<1> QED
    BY <1>1, <1>2, <1>3 DEF Indices

LEMMA RotationExponents == \A i \in Rotation : ColumnExponent(i) \in Exponent
<1>1. ASSUME NEW i \in Rotation PROVE i \in Nat
    <2>1. N \in Int /\ N >= 8
        BY DegreeFacts
    <2>2. N \div 2 \in Int
        BY <2>1
    <2> QED
        BY <2>2 DEF Rotation, RowSize
<1> QED
    BY <1>1, PowersOfThree DEF ColumnExponent

(* What TypeOK says of the builder; with IInv it gives the rest of what it *)
(* says of the builder and of the key.                                     *)
BuilderTypes ==
    /\ builder.innerSum \in BOOLEAN /\ builder.rowRotation \in BOOLEAN
    /\ builder.columnRotation \subseteq Exponent

LEMMA InvBuildSucceeds == ASSUME BuilderInv, BuilderTypes PROVE BuildSucceeds
<1>1. Indices(builder) \subseteq Exponent
    BY ExponentsOdd DEF BuilderInv, BuilderTypes
<1> QED
    BY <1>1 DEF BuildSucceeds, BuildOk, NewGaloisKeyOk, Exponent

LEMMA InvKeyTypes ==
    ASSUME BuilderInv, BuilderTypes, KeyInv, key # NoKey
    PROVE  << key.ctLevel, key.keyLevel >> \in Levels /\ DOMAIN key.gk \subseteq Exponent
<1>1. /\ key.ctLevel = builder.ctLevel /\ key.keyLevel = builder.keyLevel
      /\ DOMAIN key.gk = Indices(builder)
    BY DEF KeyInv, Built
<1>2. Indices(builder) \subseteq Exponent
    BY ExponentsOdd DEF BuilderInv, BuilderTypes
<1> QED
    BY <1>1, <1>2 DEF BuilderInv, Levels

LEMMA BuilderTypesStep ==
    ASSUME IInv, BuilderTypes, [Next]_vars
    PROVE  BuilderTypes'
<1> USE DEF BuilderTypes
<1>0. builder = [ctLevel |-> builder.ctLevel, keyLevel |-> builder.keyLevel,
                 innerSum |-> builder.innerSum, rowRotation |-> builder.rowRotation,
                 expansionLevel |-> builder.expansionLevel,
                 columnRotation |-> builder.columnRotation]
    BY DEF IInv, BuilderInv
<1>1. CASE EnableExpansion
    <2>1. PICK level : builder' = [builder EXCEPT !.expansionLevel = level]
        BY <1>1 DEF EnableExpansion, Configure
    <2>2. /\ builder'.innerSum = builder.innerSum
          /\ builder'.rowRotation = builder.rowRotation
          /\ builder'.columnRotation = builder.columnRotation
        BY <1>0, <2>1
    <2> QED
        BY <2>2
<1>2. CASE EnableInnerSum
    <2>1. builder' = [builder EXCEPT !.innerSum = TRUE]
        BY <1>2 DEF EnableInnerSum, Configure
    <2>2. /\ builder'.innerSum = TRUE
          /\ builder'.rowRotation = builder.rowRotation
          /\ builder'.columnRotation = builder.columnRotation
        BY <1>0, <2>1
    <2> QED
        BY <2>2
<1>3. CASE EnableRowRotation
    <2>1. builder' = [builder EXCEPT !.rowRotation = TRUE]
        BY <1>3 DEF EnableRowRotation, Configure
    <2>2. /\ builder'.innerSum = builder.innerSum
          /\ builder'.rowRotation = TRUE
          /\ builder'.columnRotation = builder.columnRotation
        BY <1>0, <2>1
    <2> QED
        BY <2>2
<1>4. CASE EnableColumnRotation
    <2>1. PICK i \in Rotation :
            builder' = [builder EXCEPT !.columnRotation = @ \cup {ColumnExponent(i)}]
        BY <1>4 DEF EnableColumnRotation, Configure
    <2>2. /\ builder'.innerSum = builder.innerSum
          /\ builder'.rowRotation = builder.rowRotation
          /\ builder'.columnRotation = builder.columnRotation \cup {ColumnExponent(i)}
        BY <1>0, <2>1
    <2> QED
        BY <2>2, RotationExponents
<1>5. CASE UNCHANGED builder
    BY <1>5
<1> QED
    BY <1>1, <1>2, <1>3, <1>4, <1>5
    DEF Next, vars, Build, Transfer, StartCall, Start, Step, RotateStep, SumStep, ExpandStep,
        ExpandReturn, Return

-----------------------------------------------------------------------------
(* The ring is closed under the operations of a call: a sum of integers is *)
(* an integer, and its remainder modulo T a coefficient.                   *)
LEMMA Remainders == \A x \in Int : x % T \in Value
BY RingAssumption DEF Value

LEMMA PlusPoly == ASSUME NEW p \in Poly, NEW q \in Poly PROVE Plus(p, q) \in Poly
<1>1. ASSUME NEW k \in Index PROVE (p[k] + q[k]) % T \in Value
    <2>1. p[k] \in Int /\ q[k] \in Int
        BY RingAssumption DEF Poly, Value
    <2> QED
        BY <2>1, Remainders
<1> QED
    BY <1>1 DEF Plus, Poly

LEMMA MinusPoly == ASSUME NEW p \in Poly, NEW q \in Poly PROVE Minus(p, q) \in Poly
<1>1. ASSUME NEW k \in Index PROVE (p[k] - q[k]) % T \in Value
    <2>1. p[k] \in Int /\ q[k] \in Int
        BY RingAssumption DEF Poly, Value
    <2>2. p[k] - q[k] \in Int
        BY <2>1
    <2> QED
        BY <2>2, Remainders
<1> QED
    BY <1>1 DEF Minus, Poly

LEMMA IndexFinite == IsFiniteSet(Index)
BY FS_Interval, DegreeFacts DEF Index

LEMMA SignedInt == ASSUME NEW e, NEW c \in Int PROVE Signed(e, c) \in Int
BY DEF Signed

LEMMA SumValue == ASSUME NEW f, NEW S, DOMAIN f = S, Terms(f, S) PROVE SumFunction(f) % T \in Value
<1>1. SumFunction(f) = SumFunctionOnSet(f, S)
    BY DEF SumFunction
<1>2. SumFunctionOnSet(f, S) \in Int
    BY SumInt
<1> QED
    BY <1>1, <1>2, Remainders

LEMMA TimesPoly == ASSUME NEW p \in Poly, NEW q \in Poly PROVE Times(p, q) \in Poly
<1>1. ASSUME NEW k \in Index
      PROVE  SumFunction([j \in Index |-> Signed(j + ((k - j) % N), p[j] * q[(k - j) % N])]) % T
                    \in Value
    <2> DEFINE g == [j \in Index |-> Signed(j + ((k - j) % N), p[j] * q[(k - j) % N])]
    <2>1. ASSUME NEW j \in Index PROVE g[j] \in Int
        <3>1. (k - j) % N \in Index
            BY DegreeFacts DEF Index
        <3>2. p[j] \in Int /\ q[(k - j) % N] \in Int
            BY <3>1, RingAssumption DEF Poly, Value
        <3>3. p[j] * q[(k - j) % N] \in Int
            BY <3>2
        <3> QED
            BY <3>3, SignedInt
    <2>2. DOMAIN g = Index
        OBVIOUS
    <2> HIDE DEF g
    <2>3. Terms(g, Index)
        BY <2>1, IndexFinite DEF Terms
    <2>4. SumFunction(g) % T \in Value
        BY <2>2, <2>3, SumValue
    <2> QED
        BY <2>4 DEF g
<1> QED
    BY <1>1 DEF Times, Poly

LEMMA SubstitutePoly == ASSUME NEW p \in Poly, NEW e PROVE Substitute(p, e) \in Poly
<1>1. ASSUME NEW k \in Index
      PROVE  SumFunction([j \in {i \in Index : (i * e) % N = k} |-> Signed(j * e, p[j])]) % T
                    \in Value
    <2> DEFINE I == {i \in Index : (i * e) % N = k}
               g == [j \in I |-> Signed(j * e, p[j])]
    <2>1. ASSUME NEW j \in I PROVE g[j] \in Int
        <3>1. p[j] \in Int
            BY RingAssumption DEF Poly, Value
        <3> QED
            BY <3>1, SignedInt
    <2>2. IsFiniteSet(I)
        <3>1. I \in SUBSET Index
            OBVIOUS
        <3> HIDE DEF I
        <3> QED
            BY <3>1, IndexFinite, FS_Subset
    <2>3. DOMAIN g = I
        OBVIOUS
    <2> HIDE DEF g, I
    <2>4. Terms(g, I)
        BY <2>1, <2>2 DEF Terms
    <2>5. SumFunction(g) % T \in Value
        BY <2>3, <2>4, SumValue
    <2> QED
        BY <2>5 DEF g, I
<1> QED
    BY <1>1 DEF Substitute, Poly

LEMMA MonomialPoly == ASSUME NEW l PROVE Monomial(l) \in Poly
<1>1. T - 1 \in Value /\ 0 \in Value
    BY RingAssumption DEF Value
<1> QED
    BY <1>1 DEF Monomial, Poly
-----------------------------------------------------------------------------
(* The types of a call.  Rotations and the inner sum have one ciphertext.  *)
CallTypes ==
    call # Idle =>
        /\ call.op \in {"rows", "columns", "innerSum", "expands"}
        /\ call.arg \in Nat /\ call.level \in 0 .. LogN /\ call.input \in Poly
        /\ call.l \in 0 .. LogN /\ call.i \in 0 .. N - 1 /\ call.done \in BOOLEAN
        /\ \A j \in DOMAIN call.out : call.out[j] \in Poly \cup {Empty}
        /\ call.op # "expands" => 0 \in DOMAIN call.out

(* An expansion that is accepted has no more levels than the degree.       *)
LEMMA LevelWithinDegree ==
    ASSUME NEW k, DOMAIN k.gk \subseteq Exponent, NEW level \in 0 .. LogN + 1,
           SupportsExpansion(k, level)
    PROVE  level \in 0 .. LogN
<1> SUFFICES ASSUME level = LogN + 1 PROVE FALSE
    BY DegreeFacts
<1>1. LogN \in 0 .. level - 1 /\ level # 0
    BY DegreeFacts
<1>2. ExpandExponent(LogN) \in Exponent
    BY <1>1 DEF SupportsExpansion
<1> QED
    BY <1>2, LastExpandExponent DEF Exponent

LEMMA StartTypes ==
    ASSUME NEW op \in {"rows", "columns", "innerSum", "expands"}, NEW arg \in Nat,
           NEW level \in 0 .. LogN, Start(op, arg, level)
    PROVE  CallTypes'
<1>1. PICK p \in Inputs : call' = NewCall(op, arg, level, p)
    BY DEF Start
<1>2. /\ call'.op = op /\ call'.arg = arg /\ call'.level = level /\ call'.input = p
      /\ call'.l = 0 /\ call'.i = 0 /\ call'.done = FALSE
      /\ call'.out = [j \in 0 .. 2 ^ level - 1 |-> IF j = 0 THEN p ELSE Empty]
    BY <1>1 DEF NewCall
<1>3. p \in Poly
    BY KeysAssumption
<1>4. \A j \in DOMAIN call'.out : call'.out[j] \in Poly \cup {Empty}
    BY <1>2, <1>3
<1>5. 0 \in DOMAIN call'.out
    <2>1. level \in 0 .. LogN + 1
        BY DegreeFacts
    <2>2. 0 \in 0 .. 2 ^ level - 1
        BY <2>1, PowersOfTwo
    <2> QED
        BY <1>2, <2>2
<1>6. 0 \in 0 .. LogN /\ 0 \in 0 .. N - 1
    BY DegreeFacts
<1> QED
    BY <1>2, <1>3, <1>4, <1>5, <1>6 DEF CallTypes

LEMMA StartCallTypes ==
    ASSUME IInv, BuilderTypes, StartCall
    PROVE  CallTypes'
<1>1. 0 \in 0 .. LogN /\ 0 \in Nat
    BY DegreeFacts
<1>2. CASE Start("rows", 0, 0)
    BY <1>1, <1>2, StartTypes
<1>3. ASSUME NEW i \in 0 .. RowSize, Start("columns", i, 0) PROVE CallTypes'
    <2>1. N \div 2 \in Int
        BY DegreeFacts
    <2>2. i \in Nat
        BY <2>1 DEF RowSize
    <2> QED
        BY <1>1, <1>3, <2>2, StartTypes
<1>4. CASE Start("innerSum", 0, 0)
    BY <1>1, <1>4, StartTypes
<1>5. ASSUME NEW size \in Sizes, NEW level \in 0 .. LogN + 1,
             IsCeilLog2(level, size), Start("expands", size, level)
      PROVE  CallTypes'
    <2>1. key # NoKey /\ SupportsExpansion(key, level)
        BY <1>5 DEF Start, Supports
    <2>2. DOMAIN key.gk \subseteq Exponent
        BY <2>1, InvKeyTypes DEF IInv
    <2>3. level \in 0 .. LogN
        BY <2>1, <2>2, LevelWithinDegree
    <2>4. size \in Nat
        BY KeysAssumption
    <2> QED
        BY <1>5, <2>3, <2>4, StartTypes
<1> QED
    BY <1>2, <1>3, <1>4, <1>5 DEF StartCall

LEMMA OneStepTypes ==
    ASSUME IInv, CallTypes, RotateStep \/ SumStep
    PROVE  CallTypes'
<1>1. /\ call # Idle /\ ~call.done /\ StepDefined
      /\ call.op \in {"rows", "columns", "innerSum"}
    BY DEF RotateStep, SumStep, Running
<1>2. /\ call.arg \in Nat /\ call.level \in 0 .. LogN /\ call.input \in Poly
      /\ call.l \in 0 .. LogN /\ call.i \in 0 .. N - 1
      /\ call.out[0] \in Poly \cup {Empty}
    BY <1>1 DEF CallTypes
<1>3. Operand \in Poly
    BY <1>1, <1>2 DEF StepDefined, Operand
<1>4. Rotated \in Poly
    BY <1>3, SubstitutePoly DEF Rotated
<1>5. Plus(Operand, Rotated) \in Poly
    BY <1>3, <1>4, PlusPoly
<1>6. CASE RotateStep
    <2>1. /\ call'.op = call.op /\ call'.arg = call.arg /\ call'.level = call.level
          /\ call'.input = call.input /\ call'.l = call.l /\ call'.i = call.i
          /\ call'.done = TRUE /\ call'.out = [j \in 0 .. 0 |-> Rotated]
        BY <1>6 DEF RotateStep, Proceed
    <2>2. 0 \in DOMAIN call'.out /\ \A j \in DOMAIN call'.out : call'.out[j] = Rotated
        BY <2>1
    <2> QED
        BY <1>1, <1>2, <1>4, <2>1, <2>2 DEF CallTypes
<1>7. CASE SumStep
    <2>1. /\ call'.op = call.op /\ call'.arg = call.arg /\ call'.level = call.level
          /\ call'.input = call.input /\ call'.l = call.l + 1 /\ call'.i = call.i
          /\ call'.done = (call.l = LogN - 1)
          /\ call'.out = [j \in 0 .. 0 |-> Plus(Operand, Rotated)]
        BY <1>7 DEF SumStep, Proceed
    <2>2. call.l \in 0 .. LogN - 1
        BY <1>1, <1>7 DEF SumStep, IInv, OneInv
    <2>3. call'.l \in 0 .. LogN
        BY <2>1, <2>2, DegreeFacts
    <2>4. call'.done \in BOOLEAN
        BY <2>1, Zenon
    <2> QED
        BY <1>1, <1>2, <1>5, <2>1, <2>3, <2>4 DEF CallTypes
<1> QED
    BY <1>6, <1>7

LEMMA ExpandStepTypes ==
    ASSUME IInv, IInv', CallTypes, ExpandStep
    PROVE  CallTypes'
<1>1. call # Idle /\ ~call.done /\ StepDefined /\ call.op = "expands" /\ call.l < call.level
    BY DEF ExpandStep, Running, Expanding
<1>2. /\ call.arg \in Nat /\ call.level \in 0 .. LogN /\ call.input \in Poly
      /\ call.l \in 0 .. LogN /\ call.i \in 0 .. N - 1
      /\ \A j \in DOMAIN call.out : call.out[j] \in Poly \cup {Empty}
    BY <1>1 DEF CallTypes
<1>3. /\ DOMAIN call.out = 0 .. 2 ^ call.level - 1 /\ call.i \in Nat
      /\ call.i < 2 ^ call.l /\ call.l \in 0 .. call.level
    BY <1>1 DEF IInv, ExpandInv
<1>4. /\ call'.op = "expands" /\ call'.arg = call.arg /\ call'.level = call.level
      /\ call'.input = call.input /\ call'.done = FALSE
      /\ call'.out = [m \in DOMAIN call.out |->
                        CASE m = call.i                          -> Plus(Operand, Rotated)
                          [] m = 2 ^ call.l + call.i /\ 2 ^ call.l + call.i < call.arg -> Target
                          [] OTHER                          -> call.out[m]]
    BY <1>1 DEF ExpandStep, Proceed
<1> SUFFICES ASSUME call' # Idle PROVE CallTypes'
    BY DEF CallTypes
<1>5. /\ call'.l \in 0 .. call.level /\ call'.i \in Nat /\ call'.i < 2 ^ call'.l
    BY <1>4 DEF IInv, ExpandInv
<1>6. call'.l \in 0 .. LogN /\ call'.i \in 0 .. N - 1
    <2>1. call'.l \in 0 .. LogN
        BY <1>2, <1>5, DegreeFacts
    <2>2. 2 ^ call'.l <= N /\ 2 ^ call'.l \in Nat
        BY <2>1, PowersGrow, PowersOfTwo, DegreeFacts DEF N
    <2> QED
        BY <1>5, <2>1, <2>2, DegreeFacts
<1>7. call.out[call.i] \in Poly
    <2>1. call.out[call.i] # Empty
        BY <1>1 DEF StepDefined, Operand
    <2>2. /\ 2 ^ call.l \in Nat /\ 2 ^ call.level \in Nat
          /\ 2 ^ call.l <= 2 ^ call.level
        BY <1>2, <1>3, PowersGrow, PowersOfTwo, DegreeFacts, SMTT(60)
    <2>3. call.i \in DOMAIN call.out
        BY <1>3, <2>2
    <2> QED
        BY <1>2, <2>1, <2>3
<1>8. Plus(Operand, Rotated) \in Poly /\ Target \in Poly
    <2>1. Operand \in Poly
        BY <1>1, <1>7 DEF Operand
    <2>2. Rotated \in Poly
        BY <2>1, SubstitutePoly DEF Rotated
    <2> QED
        BY <2>1, <2>2, PlusPoly, MinusPoly, TimesPoly, MonomialPoly DEF Target
<1>9. \A j \in DOMAIN call'.out : call'.out[j] \in Poly \cup {Empty}
    BY <1>2, <1>4, <1>8
<1> QED
    BY <1>1, <1>2, <1>4, <1>6, <1>9 DEF CallTypes

LEMMA ExpandReturnTypes ==
    ASSUME IInv, CallTypes, ExpandReturn
    PROVE  CallTypes'
<1>1. call # Idle /\ ~call.done /\ call.op = "expands" /\ call.l = call.level
    BY DEF ExpandReturn, Running, Expanded
<1>2. /\ call.arg \in Nat /\ call.level \in 0 .. LogN /\ call.input \in Poly
      /\ call.l \in 0 .. LogN /\ call.i \in 0 .. N - 1
      /\ \A j \in DOMAIN call.out : call.out[j] \in Poly \cup {Empty}
    BY <1>1 DEF CallTypes
<1>3. DOMAIN call.out = 0 .. 2 ^ call.level - 1 /\ call.arg <= 2 ^ call.level
    BY <1>1 DEF IInv, ExpandInv, IsCeilLog2
<1>4. /\ call'.op = "expands" /\ call'.arg = call.arg /\ call'.level = call.level
      /\ call'.input = call.input /\ call'.done = TRUE
      /\ call'.l = call.l /\ call'.i = call.i
      /\ call'.out = IF call.l = 0 THEN call.out
                     ELSE [j \in 0 .. call.arg - 1 |-> call.out[j]]
    BY <1>1 DEF ExpandReturn, Proceed
<1>5. 2 ^ call.level \in Nat
    BY <1>2, PowersOfTwo, DegreeFacts
<1>6. \A j \in DOMAIN call'.out : j \in DOMAIN call.out /\ call'.out[j] = call.out[j]
    BY <1>2, <1>3, <1>4, <1>5, SMTT(60)
<1> QED
    BY <1>2, <1>4, <1>6 DEF CallTypes

LEMMA CallTypesStep ==
    ASSUME IInv, IInv', BuilderTypes, CallTypes, [Next]_vars
    PROVE  CallTypes'
<1>1. CASE UNCHANGED call
    BY <1>1 DEF CallTypes
<1>2. CASE StartCall
    BY <1>2, StartCallTypes
<1>3. CASE RotateStep \/ SumStep
    BY <1>3, OneStepTypes
<1>4. CASE ExpandStep
    BY <1>4, ExpandStepTypes
<1>5. CASE ExpandReturn
    BY <1>5, ExpandReturnTypes
<1>6. CASE Return
    BY <1>6 DEF Return, CallTypes
<1> QED
    BY <1>1, <1>2, <1>3, <1>4, <1>5, <1>6
    DEF Next, vars, Step, EnableExpansion, EnableInnerSum, EnableRowRotation,
        EnableColumnRotation, Configure, Build, Transfer

TypeInv == IInv /\ BuilderTypes /\ CallTypes

LEMMA TypeInvariance == Spec => []TypeInv
<1>1. Init => TypeInv
    <2> SUFFICES ASSUME Init PROVE TypeInv
        OBVIOUS
    <2>1. BuilderTypes
        BY DEF Init, NewLeveled, BuilderTypes
    <2>2. CallTypes
        BY DEF Init, CallTypes
    <2> QED
        BY <2>1, <2>2, InitInv DEF TypeInv
<1>2. TypeInv /\ [Next]_vars => TypeInv'
    <2> SUFFICES ASSUME TypeInv, [Next]_vars PROVE TypeInv'
        OBVIOUS
    <2>1. IInv'
        BY BuilderStepInv, BuildInv, TransferInv, StartCallInv, OneStepInv, ExpandStepInv,
           EndInv, StutterInv DEF TypeInv, Next, Step
    <2>2. BuilderTypes' /\ CallTypes'
        BY <2>1, BuilderTypesStep, CallTypesStep DEF TypeInv
    <2> QED
        BY <2>1, <2>2 DEF TypeInv
<1> QED
    BY <1>1, <1>2, PTL DEF Spec

-----------------------------------------------------------------------------
(* The lookups of a call never fail: no step of a rotation, an inner sum   *)
(* or an expansion that was accepted unwraps None or meets the empty       *)
(* ciphertext (evaluation_key.rs, the loops of computes_inner_sum and      *)
(* expands).                                                               *)
THEOREM StepsDefined == Spec => []StepIsDefined
<1>1. IInv => StepIsDefined
    BY InvStepIsDefined DEF IInv
<1> QED
    BY <1>1, Invariance, PTL

(* from_bytes after to_bytes gives the same evaluation key, at all levels. *)
THEOREM KeyRoundTrips == Spec => []KeyRoundTrip
<1>1. IInv => KeyRoundTrip
    BY InvRoundTrip DEF IInv
<1> QED
    BY <1>1, Invariance, PTL

(* The key made by build() supports every feature that was enabled.        *)
THEOREM Delivers == Spec => []BuilderDelivers
<1>1. IInv => BuilderDelivers
    BY BuiltDelivers DEF IInv
<1> QED
    BY <1>1, Invariance, PTL

(* Types, for every degree and chain.  Above all: the exponents of Galois  *)
(* keys stay odd and below 2N, an accepted expansion has at most LogN      *)
(* levels, and what a call computes stays in the ring.                     *)
THEOREM EvaluationKeyTypes == Spec => []TypeOK
<1>1. TypeInv => TypeOK
    <2> SUFFICES ASSUME TypeInv PROVE TypeOK
        OBVIOUS
    <2>1. << builder.ctLevel, builder.keyLevel >> \in Levels /\ builder.expansionLevel \in 0 .. LogN
        BY DEF TypeInv, IInv, BuilderInv, Levels
    <2>2. key # NoKey => /\ << key.ctLevel, key.keyLevel >> \in Levels
                         /\ DOMAIN key.gk \subseteq Exponent
        BY InvKeyTypes DEF TypeInv, IInv
    <2> QED
        BY <2>1, <2>2 DEF TypeOK, Operation, TypeInv, BuilderTypes, CallTypes
<1> QED
    BY <1>1, TypeInvariance, PTL

(* build() never fails (evaluation_key.rs, build): GaloisKey::new is only  *)
(* asked for odd exponents, whatever was enabled in whatever order.        *)
THEOREM BuildNeverFails == Spec => []BuildSucceeds
<1>1. TypeInv => BuildSucceeds
    BY InvBuildSucceeds DEF TypeInv, IInv
<1> QED
    BY <1>1, TypeInvariance, PTL

-----------------------------------------------------------------------------
(* The calls of an evaluation key compute what PromisedCalls promises, for *)
(* every degree, plaintext modulus, plaintext and request but the one of   *)
(* no ciphertexts at all.                                                  *)

-----------------------------------------------------------------------------
(* Powers modulo m.                                                        *)
ReducedPowers(f, c, m) ==
    /\ f[0] = 1
    /\ \A i \in Nat : f[i] \in Int /\ f[i + 1] = (c * f[i]) % m

LEMMA ReducedPowersAdd ==
    ASSUME NEW f, NEW c \in Int, NEW m \in Nat \ {0}, ReducedPowers(f, c, m)
    PROVE  \A a, b \in Nat : Same(f[a + b], f[a] * f[b], m)
<1> SUFFICES ASSUME NEW a \in Nat PROVE \A b \in Nat : Same(f[a + b], f[a] * f[b], m)
    OBVIOUS
<1> DEFINE U == {b \in Nat : Same(f[a + b], f[a] * f[b], m)}
<1>1. \A i \in Nat : f[i] \in Int
    BY DEF ReducedPowers
<1>2. 0 \in U
    <2>1. f[a + 0] = f[a] * f[0]
        BY <1>1 DEF ReducedPowers
    <2>2. f[a] * f[0] \in Int
        BY <1>1
    <2> QED
        BY <2>1, <2>2, SameReflexive
<1>3. ASSUME NEW b \in Nat, b \in U PROVE b + 1 \in U
    <2> DEFINE x == f[a]
               y == f[b]
               z == f[a + b]
    <2>1. x \in Int /\ y \in Int /\ z \in Int /\ m \in Int /\ Same(z, x * y, m)
        BY <1>1, <1>3
    <2>2. a + (b + 1) = (a + b) + 1 /\ a + b \in Nat
        OBVIOUS
    <2>3. f[a + (b + 1)] = (c * z) % m /\ f[b + 1] = (c * y) % m
        BY <2>2 DEF ReducedPowers
    <2> HIDE DEF x, y, z
    <2>4. Same((c * z) % m, c * z, m)
        <3>1. c * z \in Int
            BY <2>1
        <3> QED
            BY <3>1, SameMod
    <2>5. Same(c * z, c * (x * y), m)
        BY <2>1, SameScaled
    <2>6. Same((c * y) % m, c * y, m)
        <3>1. c * y \in Int
            BY <2>1
        <3> QED
            BY <3>1, SameMod
    <2>7. Same(x * ((c * y) % m), x * (c * y), m)
        BY <2>1, <2>6, SameScaled
    <2>8. x * (c * y) = c * (x * y)
        BY <2>1
    <2>9. Same(c * (x * y), x * ((c * y) % m), m)
        BY <2>7, <2>8, SameSymmetric
    <2>10. Same((c * z) % m, c * (x * y), m)
        BY <2>4, <2>5, SameTransitive
    <2>11. Same((c * z) % m, x * ((c * y) % m), m)
        BY <2>9, <2>10, SameTransitive
    <2> QED
        BY <2>3, <2>11 DEF x
<1> HIDE DEF U
<1>4. Nat \subseteq U
    BY <1>2, <1>3, SetInduction
<1> QED
    BY <1>4 DEF U

LEMMA ZetaPowers ==
    /\ ReducedPowers(ZetaPower, Zeta, T)
    /\ \A i \in Nat : ZetaPower[i] \in Value
<1> DEFINE step == [x \in (Nat \ {0}) \X Value |-> (Zeta * x[2]) % T]
<1>1. 1 \in Value /\ T \in Nat \ {0} /\ Zeta \in Int
    BY RingAssumption DEF Value
<1>2. \A k \in Nat \ {0}, v \in Value :
            (Zeta * v) % T \in Value /\ step[<< k, v >>] = (Zeta * v) % T
    <2> SUFFICES ASSUME NEW k \in Nat \ {0}, NEW v \in Value
                 PROVE  (Zeta * v) % T \in Value /\ step[<< k, v >>] = (Zeta * v) % T
        OBVIOUS
    <2>1. step[<< k, v >>] = (Zeta * v) % T
        OBVIOUS
    <2>2. Zeta * v \in Int
        BY <1>1 DEF Value
    <2> QED
        BY <2>1, <2>2, Remainders
<1>3. step \in [(Nat \ {0}) \X Value -> Value]
    <2>1. ASSUME NEW x \in (Nat \ {0}) \X Value PROVE (Zeta * x[2]) % T \in Value
        <3>1. x[1] \in Nat \ {0} /\ x[2] \in Value
            OBVIOUS
        <3> QED
            BY <1>2, <3>1
    <2> QED
        BY <2>1
<1> HIDE DEF step
<1>4. PICK g \in [Nat -> Value] : StepsForever(g, 1, step)
    BY <1>1, <1>3, EndlessRecursion
<1>5. ASSUME NEW k \in Nat \ {0} PROVE g[k] = (Zeta * g[k - 1]) % T
    <2>1. k - 1 \in Nat
        OBVIOUS
    <2>2. g[k - 1] \in Value
        BY <2>1
    <2> QED
        BY <1>2, <1>4, <2>2 DEF StepsForever
<1>6. g = [i \in Nat |-> IF i = 0 THEN 1 ELSE (Zeta * g[i - 1]) % T]
    <2>1. ASSUME NEW i \in Nat
          PROVE  g[i] = IF i = 0 THEN 1 ELSE (Zeta * g[i - 1]) % T
        BY <1>4, <1>5 DEF StepsForever
    <2> QED
        BY <2>1
<1>7. ZetaPower = [i \in Nat |-> IF i = 0 THEN 1 ELSE (Zeta * ZetaPower[i - 1]) % T]
    BY <1>6 DEF ZetaPower
<1>8. ZetaPower[0] = 1
    BY <1>7
<1>9. ASSUME NEW i \in Nat PROVE ZetaPower[i + 1] = (Zeta * ZetaPower[i]) % T
    <2>1. i + 1 \in Nat /\ i + 1 # 0 /\ (i + 1) - 1 = i
        OBVIOUS
    <2> QED
        BY <1>7, <2>1
<1> DEFINE U == {i \in Nat : ZetaPower[i] \in Value}
<1>10. 0 \in U
    BY <1>1, <1>8
<1>11. ASSUME NEW i \in Nat, i \in U PROVE i + 1 \in U
    <2>1. 1 \in Nat \ {0} /\ ZetaPower[i] \in Value
        BY <1>11
    <2>2. (Zeta * ZetaPower[i]) % T \in Value
        BY <1>2, <2>1
    <2> QED
        BY <1>9, <2>2
<1> HIDE DEF U
<1>12. Nat \subseteq U
    BY <1>10, <1>11, SetInduction
<1>13. \A i \in Nat : ZetaPower[i] \in Value
    BY <1>12 DEF U
<1>14. \A i \in Nat : ZetaPower[i] \in Int
    BY <1>1, <1>13 DEF Value
<1> QED
    BY <1>8, <1>9, <1>13, <1>14 DEF ReducedPowers

LEMMA ZetaAdd == \A a, b \in Nat : Same(ZetaPower[a + b], ZetaPower[a] * ZetaPower[b], T)
<1>1. T \in Nat \ {0} /\ Zeta \in Int
    BY RingAssumption
<1> QED
    BY <1>1, ZetaPowers, ReducedPowersAdd

(* Residues that are the same are equal.                                   *)
LEMMA SameValue ==
    ASSUME NEW x \in Value, NEW y \in Value, Same(x, y, T)
    PROVE  x = y
<1>1. T \in Nat \ {0} /\ x \in Int /\ 0 <= x /\ x < T /\ y \in Int /\ 0 <= y /\ y < T
    BY RingAssumption DEF Value
<1>2. x % T = y % T
    BY <1>1, SameEqual
<1>3. x % T = x /\ y % T = y
    BY <1>1
<1> QED
    BY <1>2, <1>3

(* Zeta^N = -1.                                                            *)
LEMMA ZetaHalf == \A a \in Nat : Same(ZetaPower[a + N], -ZetaPower[a], T)
<1> SUFFICES ASSUME NEW a \in Nat PROVE Same(ZetaPower[a + N], -ZetaPower[a], T)
    OBVIOUS
<1> DEFINE x == ZetaPower[a]
<1>1. T \in Nat \ {0} /\ N \in Nat /\ x \in Int
    BY RingAssumption, DegreeFacts, ZetaPowers DEF ReducedPowers
<1>2. Same(ZetaPower[a + N], x * (T - 1), T)
    BY <1>1, ZetaAdd, ZetaAssumption
<1>3. x * (T - 1) = -x + x * T /\ x * (T - 1) \in Int /\ -x \in Int
    <2> HIDE DEF x
    <2> QED
        BY <1>1
<1> HIDE DEF x
<1>4. Same(x * (T - 1), -x, T)
    BY <1>1, <1>3 DEF Same
<1>5. Same(ZetaPower[a + N], -x, T)
    BY <1>1, <1>2, <1>4, SameTransitive
<1> QED
    BY <1>5 DEF x

LEMMA ZetaFull == \A a \in Nat : ZetaPower[a + 2 * N] = ZetaPower[a]
<1> SUFFICES ASSUME NEW a \in Nat PROVE ZetaPower[a + 2 * N] = ZetaPower[a]
    OBVIOUS
<1>1. T \in Nat \ {0} /\ N \in Nat /\ a + N \in Nat /\ a + 2 * N = (a + N) + N /\ a + 2 * N \in Nat
    BY RingAssumption, DegreeFacts
<1> DEFINE x == ZetaPower[a]
           y == ZetaPower[a + N]
           z == ZetaPower[a + 2 * N]
<1>2. Same(y, -x, T)
    BY ZetaHalf
<1>3. Same(z, -y, T)
    BY <1>1, ZetaHalf
<1>4. x \in Int /\ y \in Int /\ z \in Int /\ x \in Value /\ z \in Value
    BY <1>1, ZetaPowers DEF ReducedPowers
<1> HIDE DEF x, y, z
<1>5. Same(-y, -(-x), T)
    BY <1>1, <1>2, SameNegated
<1>6. -(-x) = x
    BY <1>4
<1>7. Same(z, x, T)
    BY <1>1, <1>3, <1>5, <1>6, SameTransitive
<1> QED
    BY <1>4, <1>7, SameValue DEF x, z

LEMMA ZetaCycle == \A a \in Nat : \A k \in Nat : ZetaPower[a + k * (2 * N)] = ZetaPower[a]
<1> SUFFICES ASSUME NEW a \in Nat PROVE \A k \in Nat : ZetaPower[a + k * (2 * N)] = ZetaPower[a]
    OBVIOUS
<1> DEFINE U == {k \in Nat : ZetaPower[a + k * (2 * N)] = ZetaPower[a]}
<1>1. 2 * N \in Nat
    BY DegreeFacts
<1>2. 0 \in U
    <2>1. a + 0 * (2 * N) = a
        BY <1>1
    <2> QED
        BY <2>1
<1>3. ASSUME NEW k \in Nat, k \in U PROVE k + 1 \in U
    <2> DEFINE m == 2 * N
               p == k * m
    <2>1. p \in Nat /\ (k + 1) * m = p + m
        BY <1>1
    <2>2. a + (k + 1) * m = (a + p) + 2 * N /\ a + p \in Nat
        <3>1. m = 2 * N /\ m \in Nat
            BY <1>1
        <3> HIDE DEF p, m
        <3> QED
            BY <2>1, <3>1
    <2>3. ZetaPower[(a + p) + 2 * N] = ZetaPower[a + p]
        BY <2>2, ZetaFull
    <2> QED
        BY <1>3, <2>2, <2>3
<1> HIDE DEF U
<1>4. Nat \subseteq U
    BY <1>2, <1>3, SetInduction
<1> QED
    BY <1>4 DEF U

LEMMA ZetaRemainder == \A x \in Nat : ZetaPower[x % (2 * N)] = ZetaPower[x]
<1> SUFFICES ASSUME NEW x \in Nat PROVE ZetaPower[x % (2 * N)] = ZetaPower[x]
    OBVIOUS
<1> DEFINE m == 2 * N
           k == x \div m
           r == x % m
<1>1. m \in Nat \ {0} /\ m > 0
    BY DegreeFacts
<1>2. r \in Nat /\ k \in Int /\ x = k * m + r
    <2> HIDE DEF m
    <2>1. x = (x \div m) * m + (x % m) /\ x % m \in Int /\ 0 <= x % m /\ x \div m \in Int
        BY <1>1, Remainder
    <2> QED
        BY <2>1
<1>3. k \in Nat
    <2> HIDE DEF m
    <2> QED
        BY <1>1
<1>4. ZetaPower[r + k * m] = ZetaPower[r]
    BY <1>2, <1>3, ZetaCycle
<1>5. r + k * m = x
    <2> DEFINE p == k * m
    <2>1. p \in Int
        BY <1>1, <1>2
    <2> HIDE DEF p, r
    <2> QED
        BY <1>2, <2>1 DEF p
<1> QED
    BY <1>4, <1>5

-----------------------------------------------------------------------------
(* The exponents of the slots.                                             *)
LEMMA RingFacts ==
    /\ N \in Nat /\ N >= 8 /\ 2 * N \in Nat \ {0} /\ 2 * N \in Int /\ 2 * N >= 16
    /\ T \in Nat \ {0} /\ T \in Int /\ T >= 2
    /\ RowSize \in Nat /\ RowSize >= 1 /\ N = 2 * RowSize
    /\ LogN \in Nat /\ LogN >= 3 /\ RowSize = 2 ^ (LogN - 1)
<1>1. N \in Nat /\ N >= 8 /\ LogN \in Nat /\ LogN >= 1
    BY DegreeFacts
<1>2. T \in Nat \ {0} /\ T \in Int /\ T >= 2
    BY RingAssumption
<1>3. 2 ^ ((LogN - 1) + 1) = 2 * 2 ^ (LogN - 1)
    BY <1>1, PowersAssumption
<1>4. (LogN - 1) + 1 = LogN
    BY <1>1
<1> DEFINE h == 2 ^ (LogN - 1)
<1>5. N = 2 * h
    BY <1>3, <1>4 DEF N
<1>6. h \in Nat /\ h >= 1
    <2>1. LogN - 1 \in 0 .. LogN + 1
        BY <1>1
    <2> QED
        BY <2>1, PowersOfTwo
<1> HIDE DEF h
<1>7. N \div 2 = h
    <2>1. N = h * 2 + 0
        BY <1>5, <1>6
    <2> QED
        BY <1>1, <1>6, <2>1, QuotientUnique
<1>8. LogN >= 3
    <2>0. 2 ^ 0 = 1
        OBVIOUS
    <2>1. LogN # 1
        <3> SUFFICES ASSUME LogN = 1 PROVE FALSE
            OBVIOUS
        <3>1. 2 ^ (0 + 1) = 2 * 2 ^ 0
            BY PowersAssumption, <1>1
        <3>2. N = 2 ^ (0 + 1)
            BY DEF N
        <3> QED
            BY <1>1, <2>0, <3>1, <3>2
    <2>2. LogN # 2
        <3> SUFFICES ASSUME LogN = 2 PROVE FALSE
            OBVIOUS
        <3>1. 2 ^ (0 + 1) = 2 * 2 ^ 0 /\ 2 ^ (1 + 1) = 2 * 2 ^ 1
            BY PowersAssumption, <1>1
        <3>2. N = 2 ^ (1 + 1) /\ 0 + 1 = 1
            BY DEF N
        <3> QED
            BY <1>1, <2>0, <3>1, <3>2
    <2> QED
        BY <1>1, <2>1, <2>2
<1>9. RowSize = h
    BY <1>7 DEF RowSize
<1> QED
    BY <1>1, <1>2, <1>5, <1>6, <1>8, <1>9 DEF h

LEMMA Power3Add == \A a, b \in Nat : Same(Power3[a + b], Power3[a] * Power3[b], 2 * N)
<1>1. ReducedPowers(Power3, 3, 2 * N)
    BY PowersOfThree DEF ReducedPowers, Exponent
<1> QED
    BY <1>1, RingFacts, ReducedPowersAdd

LEMMA SameExponent ==
    ASSUME NEW x \in 0 .. 2 * N - 1, NEW y \in 0 .. 2 * N - 1, Same(x, y, 2 * N)
    PROVE  x = y
<1> DEFINE m == 2 * N
<1>1. m \in Nat \ {0} /\ x \in Nat /\ x < m /\ y \in Nat /\ y < m
    BY RingFacts
<1>2. Same(x, y, m)
    OBVIOUS
<1> HIDE DEF m
<1>3. x % m = y % m
    BY <1>1, <1>2, SameEqual
<1>4. x % m = x /\ y % m = y
    BY <1>1
<1> QED
    BY <1>3, <1>4

(* 3^(2^l) is 1 modulo 2^(l + 2).                                          *)
LEMMA SquaresOfThree ==
    \A l \in 1 .. LogN - 1 :
        \E m \in Int : Same(Power3[2 ^ l], 1 + 2 ^ (l + 2) * m, 2 * N)
<1> DEFINE Claim(l) == \E m \in Int : Same(Power3[2 ^ l], 1 + 2 ^ (l + 2) * m, 2 * N)
           U == {n \in Nat : Claim(n + 1)}
<1>0. LogN \in Nat /\ LogN >= 3 /\ 2 * N \in Nat \ {0} /\ 2 * N \in Int /\ 2 * N >= 16 /\ 2 ^ 0 = 1
    BY RingFacts
<1>1. 0 \in U
    <2>1. 2 ^ (0 + 1) = 2 * 2 ^ 0 /\ 2 ^ (1 + 1) = 2 * 2 ^ 1 /\ 2 ^ (2 + 1) = 2 * 2 ^ 2
        BY <1>0, PowersAssumption
    <2>2. 2 ^ 1 = 2 /\ 2 ^ 2 = 4 /\ 2 ^ 3 = 8
        BY <1>0, <2>1
    <2>3. Power3[0 + 1] = (3 * 1) % (2 * N)
        BY PowersOfThree
    <2>4. Power3[1] = 3
        <3> DEFINE m == 2 * N
        <3>1. m \in Nat /\ m >= 16 /\ Power3[1] = (3 * 1) % m
            BY <1>0, <2>3
        <3> HIDE DEF m
        <3> QED
            BY <3>1
    <2>5. Power3[1 + 1] = (3 * 3) % (2 * N)
        BY <2>4, PowersOfThree
    <2>6. Power3[2] = 9
        <3> DEFINE m == 2 * N
        <3>1. m \in Nat /\ m >= 16 /\ Power3[2] = (3 * 3) % m
            BY <1>0, <2>5
        <3> HIDE DEF m
        <3> QED
            BY <3>1
    <2>7. Same(9, 9, 2 * N)
        BY <1>0, SameReflexive
    <2>8. 2 ^ (0 + 1) = 2 /\ 2 ^ ((0 + 1) + 2) = 8 /\ 1 + 8 * 1 = 9 /\ 1 \in Int
        <3>1. 0 + 1 = 1 /\ (0 + 1) + 2 = 3
            OBVIOUS
        <3> QED
            BY <2>2, <3>1
    <2>9. Same(Power3[2 ^ (0 + 1)], 1 + 2 ^ ((0 + 1) + 2) * 1, 2 * N)
        BY <2>6, <2>7, <2>8
    <2> QED
        BY <2>8, <2>9
<1>2. ASSUME NEW n \in 0 .. (LogN - 2) - 1, n \in U PROVE n + 1 \in U
    <2> DEFINE l == n + 1
               A == 2 ^ (l + 2)
               B == 2 ^ (l + 1)
               x == Power3[2 ^ l]
    <2>1. PICK m \in Int : Same(x, 1 + A * m, 2 * N)
        BY <1>2
    <2>2. l \in 0 .. LogN /\ l + 1 \in 0 .. LogN /\ l + 2 \in 0 .. LogN
        BY <1>0
    <2>3. /\ 2 ^ (l + 1) = 2 * 2 ^ l
          /\ 2 ^ ((l + 1) + 1) = 2 * 2 ^ (l + 1)
          /\ 2 ^ ((l + 2) + 1) = 2 * 2 ^ (l + 2)
        BY <2>2, PowersAssumption
    <2>4. 2 ^ l \in Nat /\ B \in Nat /\ A \in Nat
        <3>1. l \in 0 .. LogN + 1 /\ l + 1 \in 0 .. LogN + 1 /\ l + 2 \in 0 .. LogN + 1
            BY <2>2, <1>0
        <3> QED
            BY <3>1, PowersOfTwo
    <2>5. A = 2 * B /\ 2 ^ ((l + 1) + 2) = 2 * A
        <3>1. (l + 1) + 1 = l + 2 /\ (l + 1) + 2 = (l + 2) + 1
            BY <2>2
        <3> QED
            BY <2>3, <3>1
    <2>6. 2 ^ (l + 1) = 2 ^ l + 2 ^ l
        <3> DEFINE c == 2 ^ l
                   d == 2 ^ (l + 1)
        <3>1. d = 2 * c /\ c \in Nat
            BY <2>3, <2>4
        <3>2. d = c + c
            <4> HIDE DEF c, d
            <4> QED
                BY <3>1
        <3> QED
            BY <3>2
    <2>7. Same(Power3[2 ^ (l + 1)], x * x, 2 * N)
        BY <2>4, <2>6, Power3Add
    <2> DEFINE y == 1 + A * m
    <2>8. Same(x * x, y * y, 2 * N)
        BY <1>0, <2>1, SameTimes
    <2>9. y * y = 1 + (2 * A) * (m + B * (m * m)) /\ m + B * (m * m) \in Int
        <3> HIDE DEF A, B, x
        <3>1. y * y = 1 + 2 * (A * m) + (A * m) * (A * m)
            BY <2>4
        <3>2. (A * m) * (A * m) = (2 * A) * (B * (m * m))
            <4>1. (A * m) * (A * m) = A * (A * (m * m))
                BY <2>4
            <4>2. A * (m * m) = 2 * (B * (m * m))
                BY <2>4, <2>5
            <4> DEFINE w == B * (m * m)
            <4>3. w \in Int /\ A * (m * m) = 2 * w
                BY <2>4, <4>2
            <4> HIDE DEF w
            <4>4. A * (2 * w) = (2 * A) * w
                BY <2>4, <4>3
            <4> QED
                BY <4>1, <4>3, <4>4 DEF w
        <3> DEFINE w == B * (m * m)
        <3>3. w \in Int
            BY <2>4
        <3> HIDE DEF w
        <3>4. (2 * A) * m + (2 * A) * w = (2 * A) * (m + w) /\ m + w \in Int
            BY <2>4, <3>3
        <3>5. 2 * (A * m) = (2 * A) * m
            BY <2>4
        <3>6. y * y = 1 + ((2 * A) * m + (2 * A) * w)
            <4> DEFINE p == A * m
                       q == (2 * A) * m
                       r == (2 * A) * w
                       z == y * y
            <4>1. p \in Int /\ q \in Int /\ r \in Int /\ q = 2 * p /\ p * p = r
                BY <2>4, <3>2, <3>3, <3>5 DEF w
            <4>2. z = 1 + 2 * p + p * p
                BY <3>1
            <4>3. z = 1 + 2 * p + r
                BY <4>1, <4>2
            <4> HIDE DEF p, q, r, z
            <4>4. z = 1 + (q + r)
                BY <4>1, <4>3
            <4> QED
                BY <4>4 DEF z, q, r
        <3> QED
            BY <3>4, <3>6 DEF w
    <2> HIDE DEF y
    <2>10. Same(Power3[2 ^ (l + 1)], 1 + 2 ^ ((l + 1) + 2) * (m + B * (m * m)), 2 * N)
        <3>1. Same(Power3[2 ^ (l + 1)], y * y, 2 * N)
            BY <1>0, <2>7, <2>8, SameTransitive
        <3> QED
            BY <2>5, <2>9, <3>1
    <2> HIDE DEF A, B, x
    <2>11. Claim(l + 1)
        BY <2>9, <2>10
    <2> HIDE DEF Claim
    <2> QED
        BY <2>11
<1> HIDE DEF U, Claim
<1>3. \A n \in 0 .. LogN - 2 : n \in U
    <2>1. LogN - 2 \in Nat
        BY <1>0
    <2> QED
        BY <1>1, <1>2, <2>1, InductionUpTo
<1>4. ASSUME NEW l \in 1 .. LogN - 1 PROVE Claim(l)
    <2>1. l - 1 \in 0 .. LogN - 2 /\ (l - 1) + 1 = l
        BY <1>0
    <2>2. l - 1 \in U
        BY <1>3, <2>1
    <2> QED
        BY <2>1, <2>2 DEF U
<1> QED
    BY <1>4 DEF Claim

LEMMA Power3Row == Power3[RowSize] = 1
<1>1. LogN - 1 \in 1 .. LogN - 1 /\ (LogN - 1) + 2 = LogN + 1 /\ LogN \in 0 .. LogN
    BY RingFacts
<1>2. PICK m \in Int : Same(Power3[RowSize], 1 + 2 ^ ((LogN - 1) + 2) * m, 2 * N)
    BY <1>1, SquaresOfThree, RingFacts
<1>3. 2 ^ (LogN + 1) = 2 * N
    BY <1>1, PowersAssumption DEF N
<1>4. Same(Power3[RowSize], 1 + (2 * N) * m, 2 * N)
    BY <1>1, <1>2, <1>3
<1>5. Same(1 + (2 * N) * m, 1, 2 * N)
    <2> DEFINE q == 2 * N
    <2>1. q \in Int
        BY RingFacts
    <2> HIDE DEF q
    <2>2. 1 + q * m = 1 + m * q /\ 1 + q * m \in Int
        BY <2>1
    <2>3. Same(1 + q * m, 1, q)
        BY <2>2 DEF Same
    <2> QED
        BY <2>3 DEF q
<1>6. Same(Power3[RowSize], 1, 2 * N)
    BY <1>4, <1>5, RingFacts, SameTransitive
<1>7. Power3[RowSize] \in 0 .. 2 * N - 1 /\ 1 \in 0 .. 2 * N - 1
    BY RingFacts, PowersOfThree DEF Exponent
<1> QED
    BY <1>6, <1>7, SameExponent

LEMMA Power3Cycle == \A a \in Nat : Power3[a + RowSize] = Power3[a]
<1> SUFFICES ASSUME NEW a \in Nat PROVE Power3[a + RowSize] = Power3[a]
    OBVIOUS
<1>1. Same(Power3[a + RowSize], Power3[a] * 1, 2 * N)
    BY RingFacts, Power3Add, Power3Row
<1>2. Power3[a] \in 0 .. 2 * N - 1 /\ Power3[a + RowSize] \in 0 .. 2 * N - 1
    BY RingFacts, PowersOfThree DEF Exponent
<1>3. Power3[a] * 1 = Power3[a]
    BY <1>2
<1> QED
    BY <1>1, <1>2, <1>3, SameExponent

(* Columns are numbered modulo the size of a row.                          *)
LEMMA Power3Column ==
    \A c \in 0 .. RowSize - 1 : \A i \in 0 .. RowSize :
        Power3[(c + i) % RowSize] = Power3[c + i]
<1> SUFFICES ASSUME NEW c \in 0 .. RowSize - 1, NEW i \in 0 .. RowSize
             PROVE  Power3[(c + i) % RowSize] = Power3[c + i]
    OBVIOUS
<1>1. RowSize \in Nat /\ RowSize >= 1
    BY RingFacts
<1>2. CASE c + i < RowSize
    <2>1. (c + i) % RowSize = c + i
        BY <1>1, <1>2
    <2> QED
        BY <2>1
<1>3. CASE c + i >= RowSize
    <2> DEFINE d == c + i - RowSize
    <2>1. d \in Nat /\ d + RowSize = c + i /\ d < RowSize
        BY <1>1, <1>3
    <2>2. (c + i) % RowSize = d
        <3> DEFINE x == c + i
                   y == d
        <3>1. x = 1 * RowSize + y /\ x \in Int /\ y \in Int /\ 0 <= y /\ y < RowSize
            BY <1>1, <2>1
        <3> HIDE DEF x, y
        <3>2. x % RowSize = y
            BY <1>1, <3>1, RemainderUnique
        <3> QED
            BY <3>2 DEF x, y
    <2> HIDE DEF d
    <2> QED
        BY <2>1, <2>2, Power3Cycle
<1> QED
    BY <1>1, <1>2, <1>3

LEMMA SlotParts ==
    \A s \in Slot : s[1] \in 0 .. 1 /\ s[2] \in 0 .. RowSize - 1 /\ s = << s[1], s[2] >>
BY DEF Slot

LEMMA ExponentRange == \A e \in Exponent : e \in Nat /\ e >= 1 /\ e < 2 * N /\ e \in 0 .. 2 * N - 1
<1> DEFINE m == 2 * N
<1>1. m \in Nat
    BY RingFacts
<1>2. \A e \in Exponent : e \in 1 .. m - 1
    BY DEF Exponent
<1> HIDE DEF m
<1>3. \A e \in Exponent : e \in Nat /\ e >= 1 /\ e < m /\ e \in 0 .. m - 1
    BY <1>1, <1>2
<1> QED
    BY <1>3 DEF m

LEMMA SlotExponents == \A s \in Slot : SlotExponent(s) \in Exponent
<1> SUFFICES ASSUME NEW s \in Slot PROVE SlotExponent(s) \in Exponent
    OBVIOUS
<1> DEFINE e == Power3[s[2]]
<1>1. s[2] \in Nat /\ e \in Exponent
    BY SlotParts, RingFacts, PowersOfThree
<1>2. 2 * N - e \in Exponent
    <2>1. e \in 1 .. 2 * N - 1 /\ e % 2 = 1 /\ N \in Nat
        BY <1>1, RingFacts DEF Exponent
    <2> HIDE DEF e
    <2>2. 2 * N - e \in 1 .. 2 * N - 1 /\ (2 * N - e) % 2 = 1
        BY <2>1
    <2> QED
        BY <2>2 DEF Exponent
<1> QED
    BY <1>1, <1>2 DEF SlotExponent

(* A row rotation exchanges the exponents of the two rows.                 *)
LEMMA SlotRow ==
    ASSUME NEW s \in Slot
    PROVE  /\ << 1 - s[1], s[2] >> \in Slot
           /\ SlotExponent(<< 1 - s[1], s[2] >>) = (RowExponent * SlotExponent(s)) % (2 * N)
<1> DEFINE t == << 1 - s[1], s[2] >>
           E == SlotExponent(s)
           P == Power3[s[2]]
           m == 2 * N
<1>1. s[1] \in 0 .. 1 /\ s[2] \in 0 .. RowSize - 1 /\ E \in Exponent
    BY SlotParts, SlotExponents
<1>2. t \in Slot
    BY <1>1 DEF Slot
<1>3. P \in Nat /\ E \in Nat /\ m \in Nat \ {0} /\ 1 <= E /\ E < m
    BY <1>1, RingFacts, PowersOfThree, ExponentRange
<1>4. SlotExponent(t) = m - E
    <2>1. CASE s[1] = 0
        <3>1. E = P /\ SlotExponent(t) = m - P
            BY <2>1 DEF SlotExponent
        <3> QED
            BY <3>1
    <2>2. CASE s[1] = 1
        <3>1. E = m - P /\ SlotExponent(t) = P
            BY <2>2 DEF SlotExponent
        <3> HIDE DEF E, P, m, t
        <3> QED
            BY <1>3, <3>1
    <2> QED
        BY <1>1, <2>1, <2>2
<1>5. (RowExponent * E) % m = m - E
    <2>1. RowExponent = m - 1
        BY DEF RowExponent
    <2> HIDE DEF E, P, m
    <2> DEFINE x == RowExponent * E
               k == E - 1
               r == m - E
    <2>2. x = k * m + r /\ x \in Int /\ k \in Int /\ r \in Int /\ 0 <= r /\ r < m
        BY <1>3, <2>1
    <2> HIDE DEF x, k, r
    <2>3. x % m = r
        BY <1>3, <2>2, RemainderUnique
    <2> QED
        BY <2>3 DEF x, r
<1> QED
    BY <1>2, <1>4, <1>5

(* A column rotation moves along the row.                                  *)
LEMMA SlotColumn ==
    ASSUME NEW s \in Slot, NEW i \in 0 .. RowSize
    PROVE  /\ << s[1], (s[2] + i) % RowSize >> \in Slot
           /\ SlotExponent(<< s[1], (s[2] + i) % RowSize >>)
                = (ColumnExponent(i) * SlotExponent(s)) % (2 * N)
<1> DEFINE c == (s[2] + i) % RowSize
           t == << s[1], c >>
           P == Power3[s[2]]
           G == Power3[i]
           R == Power3[s[2] + i]
           m == 2 * N
<1>1. s[1] \in 0 .. 1 /\ s[2] \in 0 .. RowSize - 1 /\ RowSize \in Nat /\ RowSize >= 1
    BY SlotParts, RingFacts
<1>2. c \in 0 .. RowSize - 1 /\ s[2] \in Nat /\ i \in Nat /\ s[2] + i \in Nat
    BY <1>1
<1>3. t \in Slot
    BY <1>1, <1>2 DEF Slot
<1>4. Power3[c] = R
    BY <1>1, Power3Column
<1>5. /\ P \in Nat /\ G \in Nat /\ R \in Nat /\ m \in Nat \ {0}
      /\ 1 <= R /\ R < m /\ Same(R, P * G, m)
    <2>1. P \in Exponent /\ G \in Exponent /\ R \in Exponent
        BY <1>2, PowersOfThree
    <2>2. Same(R, P * G, m)
        BY <1>2, Power3Add
    <2> QED
        BY <2>1, <2>2, RingFacts, ExponentRange
<1>6. PICK k \in Int : R = P * G + k * m
    BY <1>5 DEF Same
<1> HIDE DEF P, G, R, m
<1>7. CASE s[1] = 0
    <2>1. SlotExponent(s) = P /\ SlotExponent(t) = R
        BY <1>4, <1>7 DEF SlotExponent, P
    <2>2. (G * P) % m = R
        <3> DEFINE x == G * P
                   l == -k
        <3>1. x = l * m + R /\ x \in Int /\ l \in Int
            BY <1>5, <1>6
        <3> HIDE DEF x, l
        <3>2. x % m = R
            BY <1>5, <3>1, RemainderUnique
        <3> QED
            BY <3>2 DEF x
    <2> QED
        BY <1>3, <2>1, <2>2 DEF ColumnExponent, G, m
<1>8. CASE s[1] = 1
    <2>1. SlotExponent(s) = m - P /\ SlotExponent(t) = m - R
        BY <1>4, <1>8 DEF SlotExponent, P, m
    <2>2. (G * (m - P)) % m = m - R
        <3> DEFINE x == G * (m - P)
                   l == G + k - 1
                   r == m - R
        <3>1. x = l * m + r /\ x \in Int /\ l \in Int /\ r \in Int /\ 0 <= r /\ r < m
            <4>1. x = G * m - G * P /\ x \in Int
                BY <1>5
            <4>2. l * m = G * m + k * m - m /\ l \in Int
                BY <1>5
            <4>3. P * G = G * P /\ G * P \in Int /\ k * m \in Int /\ G * m \in Int
                BY <1>5
            <4> DEFINE u == G * P
                       v == k * m
                       w == G * m
                       z == l * m
            <4>4. x = w - u /\ z = w + v - m /\ R = u + v /\ u \in Int /\ v \in Int /\ w \in Int
                BY <1>6, <4>1, <4>2, <4>3
            <4> HIDE DEF u, v, w, z, x, l
            <4>5. x = z + r
                BY <1>5, <4>4
            <4> QED
                BY <1>5, <4>1, <4>2, <4>5 DEF z
        <3> HIDE DEF x, l, r
        <3>2. x % m = r
            BY <1>5, <3>1, RemainderUnique
        <3> QED
            BY <3>2 DEF x, r
    <2> QED
        BY <1>3, <2>1, <2>2 DEF ColumnExponent, G, m
<1> QED
    BY <1>1, <1>7, <1>8

-----------------------------------------------------------------------------
(* An odd exponent permutes the coefficients: it has an inverse modulo N.  *)
LEMMA OddInverse ==
    ASSUME NEW e \in Nat, e % 2 = 1
    PROVE  HasInverse(e, N)
<1> DEFINE U == {l \in Nat : HasInverse(e, 2 ^ l)}
<1>1. 0 \in U
    <2>1. 2 ^ 0 = 1 /\ e - 1 \in Int
        OBVIOUS
    <2>2. e * 1 = 1 + 1 * (e - 1)
        BY <2>1
    <2>3. HasInverse(e, 1)
        BY <2>1, <2>2, IsInverse
    <2> QED
        BY <2>1, <2>3
<1>2. ASSUME NEW l \in 0 .. LogN - 1, l \in U PROVE l + 1 \in U
    <2>1. l \in 0 .. LogN /\ l \in 0 .. LogN + 1 /\ l + 1 \in Nat
        BY RingFacts
    <2>2. 2 ^ l \in Nat /\ 2 ^ (l + 1) = 2 * 2 ^ l
        BY <2>1, PowersAssumption, PowersOfTwo
    <2>3. HasInverse(e, 2 ^ l)
        BY <1>2
    <2>4. HasInverse(e, 2 * 2 ^ l)
        BY <2>2, <2>3, InverseDoubles
    <2> QED
        BY <2>1, <2>2, <2>4
<1> HIDE DEF U
<1>3. \A l \in 0 .. LogN : l \in U
    BY <1>1, <1>2, RingFacts, InductionUpTo
<1>4. LogN \in U
    BY <1>3, RingFacts
<1> QED
    BY <1>4 DEF U, N

LEMMA Permuted ==
    ASSUME NEW e \in Exponent
    PROVE  /\ \A j \in Index : (j * e) % N \in Index
           /\ \A i, j \in Index : (i * e) % N = (j * e) % N => i = j
           /\ \A k \in Index : \E j \in Index : (j * e) % N = k
<1>1. e \in Nat /\ e % 2 = 1 /\ N \in Nat \ {0} /\ Index = 0 .. N - 1
    BY ExponentRange, RingFacts DEF Exponent, Index
<1>2. HasInverse(e, N)
    BY <1>1, OddInverse
<1> QED
    BY <1>1, <1>2, InversePermutes

(* Where a substitution puts a coefficient.                                *)
LEMMA SubstituteAt ==
    ASSUME NEW p \in Poly, NEW e \in Exponent, NEW j \in Index
    PROVE  Substitute(p, e)[(j * e) % N] = Signed(j * e, p[j]) % T
<1> DEFINE k == (j * e) % N
           I == {i \in Index : (i * e) % N = k}
           g == [i \in I |-> Signed(i * e, p[i])]
<1>1. k \in Index
    BY Permuted
<1>2. Substitute(p, e)[k] = SumFunction(g) % T
    BY <1>1 DEF Substitute
<1>3. I = {j}
    BY Permuted
<1>4. DOMAIN g = {j} /\ g[j] = Signed(j * e, p[j])
    BY <1>3
<1>5. Signed(j * e, p[j]) \in Int
    <2>1. p[j] \in Int
        BY RingFacts DEF Poly, Value
    <2> QED
        BY <2>1, SignedInt
<1> HIDE DEF g, k, I
<1>6. Terms(g, {j})
    BY <1>4, <1>5, FS_Singleton DEF Terms
<1>7. SumFunctionOnSet(g, {j}) = g[j]
    BY <1>6, SumOnly
<1>8. SumFunction(g) = Signed(j * e, p[j])
    BY <1>4, <1>7 DEF SumFunction
<1> QED
    BY <1>2, <1>8 DEF k

-----------------------------------------------------------------------------
(* A polynomial at a power of Zeta.                                        *)
ValueTerms(p, E) == [k \in Index |-> p[k] * ZetaPower[(k * E) % (2 * N)]]

At(p, E) == SumFunction(ValueTerms(p, E)) % T

LEMMA SlotsAt == ASSUME NEW p, NEW s \in Slot PROVE Slots(p)[s] = At(p, SlotExponent(s))
BY DEF Slots, At, ValueTerms

LEMMA ZetaInt == \A x \in Nat : ZetaPower[x] \in Int /\ ZetaPower[x % (2 * N)] \in Int
<1> SUFFICES ASSUME NEW x \in Nat PROVE ZetaPower[x] \in Int /\ ZetaPower[x % (2 * N)] \in Int
    OBVIOUS
<1>1. ZetaPower[x] \in Int
    BY ZetaPowers DEF ReducedPowers
<1> QED
    BY <1>1, ZetaRemainder

LEMMA Coefficient == ASSUME NEW p \in Poly, NEW k \in Index PROVE p[k] \in Int /\ p[k] \in Value /\ k \in Nat
BY RingFacts DEF Poly, Value, Index

LEMMA ValueTermsInt ==
    ASSUME NEW p \in Poly, NEW E \in Nat
    PROVE  /\ Terms(ValueTerms(p, E), Index)
           /\ DOMAIN ValueTerms(p, E) = Index
           /\ \A k \in Index : ValueTerms(p, E)[k] = p[k] * ZetaPower[k * E]
<1>1. ASSUME NEW k \in Index
      PROVE  /\ ValueTerms(p, E)[k] \in Int
             /\ ValueTerms(p, E)[k] = p[k] * ZetaPower[k * E]
    <2>1. p[k] \in Int /\ k \in Nat
        BY Coefficient
    <2>2. k * E \in Nat
        BY <2>1
    <2>3. ZetaPower[(k * E) % (2 * N)] = ZetaPower[k * E] /\ ZetaPower[k * E] \in Int
        BY <2>2, ZetaRemainder, ZetaInt
    <2>4. ValueTerms(p, E)[k] = p[k] * ZetaPower[k * E]
        BY <2>3 DEF ValueTerms
    <2> QED
        BY <2>1, <2>3, <2>4
<1>2. DOMAIN ValueTerms(p, E) = Index
    BY DEF ValueTerms
<1> QED
    BY <1>1, <1>2, IndexFinite DEF Terms

LEMMA ZetaTimes ==
    ASSUME NEW j \in Nat, NEW x \in Nat
    PROVE  ZetaPower[j * (x % (2 * N))] = ZetaPower[j * x]
<1> DEFINE m == 2 * N
           d == x \div m
           w == x % m
<1>1. m \in Nat \ {0}
    BY RingFacts
<1>2. d \in Int /\ w \in Nat /\ x = d * m + w
    <2> HIDE DEF m
    <2>1. d \in Int /\ w \in Int /\ 0 <= w /\ x = d * m + w
        BY <1>1, Remainder
    <2> QED
        BY <2>1
<1>3. d \in Nat
    <2> HIDE DEF m
    <2> QED
        BY <1>1
<1>4. j * x = j * w + (j * d) * m
    <2> HIDE DEF m, d, w
    <2>1. j * (d * m + w) = j * (d * m) + j * w
        BY <1>1, <1>2, Distributes
    <2>2. j * (d * m) = (j * d) * m /\ (j * d) * m \in Int /\ j * w \in Int
        BY <1>1, <1>2
    <2> QED
        BY <1>2, <2>1, <2>2
<1>5. j * w \in Nat /\ j * d \in Nat
    <2> HIDE DEF m, d, w
    <2> QED
        BY <1>2, <1>3
<1>6. ZetaPower[j * w + (j * d) * m] = ZetaPower[j * w]
    <2> DEFINE a == j * w
               k == j * d
    <2> HIDE DEF a, k
    <2>1. a \in Nat /\ k \in Nat
        BY <1>5 DEF a, k
    <2>2. ZetaPower[a + k * m] = ZetaPower[a]
        BY <2>1, ZetaCycle
    <2> QED
        BY <2>2 DEF a, k
<1> QED
    BY <1>4, <1>6

(* X^N is -1 at an odd power of Zeta.                                      *)
LEMMA ZetaSigned ==
    ASSUME NEW x \in Nat, NEW E \in Nat, E % 2 = 1, NEW c \in Int
    PROVE  Same(Signed(x, c) * ZetaPower[(x % N) * E], c * ZetaPower[x * E], T)
<1> DEFINE q == x \div N
           r == x % N
           a == r * E
<1>1. N \in Nat \ {0} /\ T \in Nat \ {0} /\ T \in Int
    BY RingFacts
<1>2. q \in Nat /\ r \in Nat /\ x = q * N + r
    <2>1. q \in Int /\ r \in Int /\ 0 <= r /\ x = q * N + r
        BY <1>1, Remainder
    <2>2. q \in Nat
        BY <1>1
    <2> QED
        BY <2>1, <2>2
<1>3. x * E = a + (q * E) * N
    <2> HIDE DEF q, r
    <2>1. E * (q * N + r) = E * (q * N) + E * r
        BY <1>1, <1>2, Distributes
    <2>2. E * (q * N) = (q * E) * N /\ E * r = r * E /\ (q * E) * N \in Int /\ r * E \in Int
        BY <1>1, <1>2
    <2>3. x * E = E * x
        OBVIOUS
    <2> QED
        BY <1>2, <2>1, <2>2, <2>3
<1>4. a \in Nat /\ ZetaPower[a] \in Int
    <2>1. a \in Nat
        BY <1>2
    <2> QED
        BY <2>1, ZetaInt
<1>5. CASE q % 2 = 0
    <2>1. Signed(x, c) = c
        BY <1>5 DEF Signed
    <2>2. PICK h \in Nat : q = 2 * h
        BY <1>2, <1>5
    <2>3. (q * E) * N = (h * E) * (2 * N) /\ h * E \in Nat
        BY <1>1, <2>2
    <2> HIDE DEF a, q, r
    <2>4. ZetaPower[x * E] = ZetaPower[a]
        BY <1>3, <1>4, <2>3, ZetaCycle
    <2>5. c * ZetaPower[a] \in Int
        BY <1>4
    <2> QED
        BY <1>1, <2>1, <2>4, <2>5, SameReflexive DEF a, r
<1>6. CASE q % 2 # 0
    <2>1. Signed(x, c) = -c
        BY <1>6 DEF Signed
    <2>2. PICK h \in Nat : q * E = 2 * h + 1
        <3>1. PICK f \in Nat : q = 2 * f + 1
            BY <1>2, <1>6
        <3>2. PICK g \in Nat : E = 2 * g + 1
            OBVIOUS
        <3>3. E * (2 * f + 1) = E * (2 * f) + E * 1
            BY Distributes
        <3>4. q * E = E * (2 * f + 1)
            BY <3>1
        <3> DEFINE z == E * f
        <3>5. z \in Nat /\ E * (2 * f) = 2 * z
            OBVIOUS
        <3> HIDE DEF z
        <3>6. q * E = 2 * (z + g) + 1 /\ z + g \in Nat
            BY <3>2, <3>3, <3>4, <3>5
        <3> QED
            BY <3>6
    <2> HIDE DEF a, q, r
    <2>3. x * E = (a + N) + h * (2 * N) /\ a + N \in Nat
        <3>1. (2 * h + 1) * N = h * (2 * N) + N
            BY <1>1
        <3>2. h * (2 * N) \in Int
            BY <1>1
        <3> QED
            BY <1>1, <1>3, <1>4, <2>2, <3>1, <3>2
    <2>4. ZetaPower[x * E] = ZetaPower[a + N]
        BY <2>3, ZetaCycle
    <2>5. Same(ZetaPower[x * E], -ZetaPower[a], T)
        BY <1>4, <2>4, ZetaHalf
    <2>6. Same(c * ZetaPower[x * E], c * (-ZetaPower[a]), T)
        BY <1>1, <2>5, SameScaled
    <2>7. c * (-ZetaPower[a]) = (-c) * ZetaPower[a]
        BY <1>4
    <2>8. Same((-c) * ZetaPower[a], c * ZetaPower[x * E], T)
        BY <1>1, <2>6, <2>7, SameSymmetric
    <2> QED
        BY <2>1, <2>8 DEF a, r
<1> QED
    BY <1>5, <1>6

LEMMA AtSame ==
    ASSUME NEW p \in Poly, NEW E \in Nat
    PROVE  /\ At(p, E) \in Value
           /\ Same(At(p, E), SumFunctionOnSet(ValueTerms(p, E), Index), T)
<1>1. Terms(ValueTerms(p, E), Index) /\ DOMAIN ValueTerms(p, E) = Index
    BY ValueTermsInt
<1>2. SumFunction(ValueTerms(p, E)) = SumFunctionOnSet(ValueTerms(p, E), Index)
    BY <1>1 DEF SumFunction
<1>3. SumFunctionOnSet(ValueTerms(p, E), Index) \in Int
    BY <1>1, SumInt
<1>4. T \in Nat \ {0}
    BY RingFacts
<1> QED
    BY <1>2, <1>3, <1>4, SameMod, Remainders DEF At

(* The substitution X -> X^e, at a power of Zeta.                          *)
LEMMA AtSubstitute ==
    ASSUME NEW p \in Poly, NEW e \in Exponent, NEW E \in Exponent
    PROVE  At(Substitute(p, e), E) = At(p, (e * E) % (2 * N))
<1> DEFINE q == Substitute(p, e)
           F == (e * E) % (2 * N)
           b == [j \in Index |-> (j * e) % N]
           f == ValueTerms(p, F)
           g == ValueTerms(q, E)
<1>1. e \in Nat /\ E \in Nat /\ E % 2 = 1 /\ e * E \in Nat
    BY ExponentRange DEF Exponent
<1>2. q \in Poly /\ N \in Nat \ {0} /\ T \in Nat \ {0} /\ T \in Int
    BY SubstitutePoly, RingFacts
<1>3. F \in Nat
    <2> DEFINE x == e * E
               m == 2 * N
    <2>1. x \in Nat /\ m \in Nat \ {0}
        BY <1>1, <1>2
    <2> HIDE DEF x, m
    <2>2. x % m \in Nat
        BY <2>1
    <2> QED
        BY <2>2 DEF x, m
<1>4. /\ Terms(f, Index) /\ \A k \in Index : f[k] = p[k] * ZetaPower[k * F]
      /\ Terms(g, Index) /\ \A k \in Index : g[k] = q[k] * ZetaPower[k * E]
    BY <1>1, <1>2, <1>3, ValueTermsInt
<1>5. ASSUME NEW j \in Index PROVE b[j] \in Index /\ Same(f[j], g[b[j]], T)
    <2> DEFINE x == j * e
               r == x % N
               c == p[j]
    <2>1. j \in Nat /\ c \in Int /\ x \in Nat /\ r \in Index /\ b[j] = r
        BY <1>1, Coefficient, Permuted
    <2>2. g[r] = q[r] * ZetaPower[r * E]
        BY <1>4, <2>1
    <2>3. q[r] = Signed(x, c) % T
        BY SubstituteAt
    <2>4. f[j] = c * ZetaPower[x * E]
        <3>1. ZetaPower[j * F] = ZetaPower[j * (e * E)]
            BY <1>1, <2>1, ZetaTimes
        <3>2. j * (e * E) = x * E
            BY <1>1, <2>1
        <3> QED
            BY <1>4, <3>1, <3>2
    <2>5. Same(Signed(x, c) * ZetaPower[r * E], c * ZetaPower[x * E], T)
        BY <1>1, <2>1, ZetaSigned
    <2> DEFINE z == ZetaPower[r * E]
               t == Signed(x, c)
    <2>6. z \in Int /\ t \in Int
        <3>1. r * E \in Nat
            BY <1>1, <2>1 DEF Index
        <3> QED
            BY <2>1, <3>1, ZetaInt, SignedInt
    <2> HIDE DEF r, c, x, f, g, b, q
    <2>7. Same(z * (t % T), z * t, T)
        <3> HIDE DEF z, t
        <3>1. Same(t % T, t, T)
            BY <1>2, <2>6, SameMod
        <3> QED
            BY <1>2, <2>6, <3>1, SameScaled
    <2>8. g[r] = z * (t % T) /\ Same(z * t, f[j], T)
        <3>1. z * (t % T) = (t % T) * z /\ z * t = t * z
            <4> HIDE DEF z, t
            <4>1. t % T \in Int
                BY <1>2, <2>6
            <4> QED
                BY <2>6, <4>1
        <3> QED
            BY <2>2, <2>3, <2>4, <2>5, <3>1
    <2>9. Same(g[r], f[j], T)
        BY <1>2, <2>7, <2>8, SameTransitive
    <2>10. Same(f[j], g[r], T)
        BY <1>2, <2>9, SameSymmetric
    <2> QED
        BY <2>1, <2>10
<1>6. /\ \A i, j \in Index : b[i] = b[j] => i = j
      /\ \A k \in Index : \E j \in Index : b[j] = k
    BY Permuted
<1> DEFINE A == SumFunctionOnSet(f, Index)
           B == SumFunctionOnSet(g, Index)
<1>7. Same(A, B, T)
    <2> HIDE DEF f, g, b
    <2> QED
        BY <1>2, <1>4, <1>5, <1>6, SumSame
<1>8. At(p, F) = A % T /\ At(q, E) = B % T
    BY <1>1, <1>2, <1>3, ValueTermsInt DEF At, SumFunction
<1>9. A % T = B % T
    <2> HIDE DEF A, B
    <2> QED
        BY <1>2, <1>7, SameEqual
<1> QED
    BY <1>8, <1>9

(* A sum, at a power of Zeta.                                              *)
LEMMA AtPlus ==
    ASSUME NEW p \in Poly, NEW q \in Poly, NEW E \in Nat
    PROVE  Same(At(Plus(p, q), E), At(p, E) + At(q, E), T)
<1> DEFINE s == Plus(p, q)
           f == ValueTerms(p, E)
           g == ValueTerms(q, E)
           h == [k \in Index |-> f[k] + g[k]]
           i == ValueTerms(s, E)
<1>1. s \in Poly /\ T \in Nat \ {0} /\ T \in Int
    BY PlusPoly, RingFacts
<1>2. /\ Terms(f, Index) /\ \A k \in Index : f[k] = p[k] * ZetaPower[k * E]
      /\ Terms(g, Index) /\ \A k \in Index : g[k] = q[k] * ZetaPower[k * E]
      /\ Terms(i, Index) /\ \A k \in Index : i[k] = s[k] * ZetaPower[k * E]
    BY <1>1, ValueTermsInt
<1>3. \A k \in Index : h[k] = f[k] + g[k]
    OBVIOUS
<1>4. \A k \in Index : s[k] = (p[k] + q[k]) % T
    BY DEF Plus
<1>5. /\ At(p, E) \in Int /\ At(q, E) \in Int /\ At(s, E) \in Int
      /\ Same(At(p, E), SumFunctionOnSet(f, Index), T)
      /\ Same(At(q, E), SumFunctionOnSet(g, Index), T)
      /\ Same(At(s, E), SumFunctionOnSet(i, Index), T)
    <2>1. Value \subseteq Int
        BY RingFacts DEF Value
    <2> QED
        BY <1>1, <2>1, AtSame
<1> HIDE DEF f, g, h, i, s
<1>6. Terms(h, Index)
    <2>1. ASSUME NEW k \in Index PROVE h[k] \in Int
        <3>1. f[k] \in Int /\ g[k] \in Int
            BY <1>2 DEF Terms
        <3> QED
            BY <1>3, <3>1
    <2> QED
        BY <2>1, IndexFinite DEF Terms
<1>7. ASSUME NEW k \in Index PROVE Same(i[k], h[k], T)
    <2> DEFINE z == ZetaPower[k * E]
               x == p[k] + q[k]
    <2>1. p[k] \in Int /\ q[k] \in Int /\ z \in Int
        <3>1. k * E \in Nat
            BY Coefficient
        <3> QED
            BY <3>1, Coefficient, ZetaInt
    <2>2. i[k] = (x % T) * z /\ h[k] = p[k] * z + q[k] * z
        BY <1>2, <1>3, <1>4
    <2> HIDE DEF z
    <2>3. h[k] = z * x /\ x \in Int
        <3>1. z * (p[k] + q[k]) = z * p[k] + z * q[k]
            BY <2>1, Distributes
        <3>2. z * p[k] = p[k] * z /\ z * q[k] = q[k] * z
            BY <2>1
        <3> QED
            BY <2>1, <2>2, <3>1, <3>2
    <2> HIDE DEF x
    <2>4. Same(x % T, x, T)
        BY <1>1, <2>3, SameMod
    <2>5. Same(z * (x % T), z * x, T)
        BY <1>1, <2>1, <2>4, SameScaled
    <2>6. (x % T) * z = z * (x % T)
        <3>1. x % T \in Int
            BY <1>1, <2>3
        <3> QED
            BY <2>1, <3>1
    <2> QED
        BY <2>2, <2>3, <2>5, <2>6
<1> DEFINE P == SumFunctionOnSet(f, Index)
           Q == SumFunctionOnSet(g, Index)
           R == SumFunctionOnSet(h, Index)
           S == SumFunctionOnSet(i, Index)
<1>8. R = P + Q
    BY <1>2, <1>3, SumPlus
<1>9. Same(S, R, T)
    BY <1>1, <1>2, <1>6, <1>7, SumCongruent
<1> HIDE DEF P, Q, R, S
<1>10. Same(At(p, E) + At(q, E), P + Q, T)
    BY <1>1, <1>5, SameAdd DEF P, Q
<1>11. Same(P + Q, At(p, E) + At(q, E), T)
    BY <1>1, <1>10, SameSymmetric
<1>12. Same(At(s, E), R, T)
    BY <1>1, <1>5, <1>9, SameTransitive DEF S
<1>13. Same(At(s, E), At(p, E) + At(q, E), T)
    BY <1>1, <1>8, <1>11, <1>12, SameTransitive
<1> QED
    BY <1>13 DEF s

-----------------------------------------------------------------------------
(* What the rotations do to the slots.                                     *)
LEMMA SlotValue == ASSUME NEW p \in Poly PROVE Slots(p) \in Vector
<1>1. ASSUME NEW s \in Slot PROVE Slots(p)[s] \in Value
    <2>1. SlotExponent(s) \in Nat
        BY SlotExponents, ExponentRange
    <2> QED
        BY <2>1, SlotsAt, AtSame
<1>2. Slots(p) = [s \in Slot |-> Slots(p)[s]]
    BY DEF Slots
<1> HIDE DEF Slots
<1> QED
    BY <1>1, <1>2 DEF Vector

LEMMA RowExponentOdd == RowExponent \in Exponent
<1>1. N \in Nat /\ N >= 8
    BY RingFacts
<1>2. 2 * N - 1 \in 1 .. 2 * N - 1 /\ (2 * N - 1) % 2 = 1
    BY <1>1
<1> QED
    BY <1>2 DEF RowExponent, Exponent

LEMMA SlotsOfRow ==
    ASSUME NEW p \in Poly, NEW s \in Slot
    PROVE  Slots(Substitute(p, RowExponent))[s] = Slots(p)[<< 1 - s[1], s[2] >>]
<1> DEFINE t == << 1 - s[1], s[2] >>
           E == SlotExponent(s)
<1>1. t \in Slot /\ SlotExponent(t) = (RowExponent * E) % (2 * N)
    BY SlotRow
<1>2. E \in Exponent
    BY SlotExponents
<1>3. Slots(Substitute(p, RowExponent))[s] = At(Substitute(p, RowExponent), E)
    BY SlotsAt
<1>4. At(Substitute(p, RowExponent), E) = At(p, (RowExponent * E) % (2 * N))
    BY <1>2, RowExponentOdd, AtSubstitute
<1>5. Slots(p)[t] = At(p, SlotExponent(t))
    BY <1>1, SlotsAt
<1> QED
    BY <1>1, <1>3, <1>4, <1>5

LEMMA SlotsOfColumns ==
    ASSUME NEW p \in Poly, NEW s \in Slot, NEW i \in 0 .. RowSize
    PROVE  Slots(Substitute(p, ColumnExponent(i)))[s] = Slots(p)[<< s[1], (s[2] + i) % RowSize >>]
<1> DEFINE t == << s[1], (s[2] + i) % RowSize >>
           E == SlotExponent(s)
           e == ColumnExponent(i)
<1>1. t \in Slot /\ SlotExponent(t) = (e * E) % (2 * N)
    BY SlotColumn
<1>2. E \in Exponent
    BY SlotExponents
<1>3. e \in Exponent
    <2>1. i \in Nat
        BY RingFacts
    <2> QED
        BY <2>1, PowersOfThree DEF ColumnExponent
<1> HIDE DEF e
<1>4. Slots(Substitute(p, e))[s] = At(Substitute(p, e), E)
    BY SlotsAt
<1>5. At(Substitute(p, e), E) = At(p, (e * E) % (2 * N))
    BY <1>2, <1>3, AtSubstitute
<1>6. Slots(p)[t] = At(p, SlotExponent(t))
    BY <1>1, SlotsAt
<1> QED
    BY <1>1, <1>4, <1>5, <1>6 DEF e

LEMMA SlotsOfSum ==
    ASSUME NEW p \in Poly, NEW q \in Poly, NEW s \in Slot
    PROVE  Same(Slots(Plus(p, q))[s], Slots(p)[s] + Slots(q)[s], T)
<1>1. SlotExponent(s) \in Nat
    BY SlotExponents, ExponentRange
<1> QED
    BY <1>1, SlotsAt, AtPlus

-----------------------------------------------------------------------------
(* The inner sum: after l steps a slot holds the sum of a window of 2^l    *)
(* slots of its row, and after the last one, of all slots.                 *)
Window(s, w) == {<< s[1], (s[2] + d) % RowSize >> : d \in 0 .. w - 1}

LEMMA SlotShift ==
    ASSUME NEW s \in Slot, NEW i \in 0 .. RowSize
    PROVE  << s[1], (s[2] + i) % RowSize >> \in Slot
BY SlotColumn

LEMMA SlotFinite == IsFiniteSet(Slot)
<1>1. IsFiniteSet(0 .. 1) /\ IsFiniteSet(0 .. RowSize - 1)
    <2> DEFINE r == RowSize - 1
    <2>1. r \in Int /\ 0 \in Int /\ 1 \in Int
        BY RingFacts
    <2> HIDE DEF r
    <2>2. IsFiniteSet(0 .. 1) /\ IsFiniteSet(0 .. r)
        BY <2>1, FS_Interval
    <2> QED
        BY <2>2 DEF r
<1> QED
    BY <1>1, FS_Product DEF Slot

LEMMA WindowOne == ASSUME NEW s \in Slot PROVE Window(s, 1) = {s}
<1>1. s[2] \in 0 .. RowSize - 1 /\ s = << s[1], s[2] >> /\ RowSize \in Nat \ {0}
    BY SlotParts, RingFacts
<1>2. (s[2] + 0) % RowSize = s[2]
    BY <1>1
<1>3. 0 .. 1 - 1 = {0}
    OBVIOUS
<1> QED
    BY <1>1, <1>2, <1>3 DEF Window

(* Two rotations of a column make one.                                     *)
LEMMA ColumnAdd ==
    ASSUME NEW c \in 0 .. RowSize - 1, NEW a \in Nat, NEW d \in Nat
    PROVE  (((c + a) % RowSize) + d) % RowSize = (c + (a + d)) % RowSize
<1>1. RowSize \in Nat \ {0} /\ RowSize \in Int
    BY RingFacts
<1>2. Same((c + a) % RowSize, c + a, RowSize)
    BY <1>1, SameMod
<1>3. Same(d, d, RowSize)
    BY <1>1, SameReflexive
<1>4. Same(((c + a) % RowSize) + d, (c + a) + d, RowSize)
    BY <1>1, <1>2, <1>3, SameAdd
<1>5. (((c + a) % RowSize) + d) % RowSize = ((c + a) + d) % RowSize
    BY <1>1, <1>4, SameEqual
<1>6. (c + a) + d = c + (a + d)
    OBVIOUS
<1> QED
    BY <1>5, <1>6

(* Columns within one row of one another are different.                    *)
LEMMA ColumnsDiffer ==
    ASSUME NEW c \in Int, NEW a \in 0 .. RowSize - 1, NEW b \in 0 .. RowSize - 1,
           (c + a) % RowSize = (c + b) % RowSize
    PROVE  a = b
<1>1. RowSize \in Nat \ {0} /\ RowSize \in Int /\ a \in Nat /\ b \in Nat
    BY RingFacts
<1>2. Same((c + a) % RowSize, c + a, RowSize) /\ Same((c + b) % RowSize, c + b, RowSize)
    <2>1. c + a \in Int /\ c + b \in Int
        BY <1>1
    <2> QED
        BY <1>1, <2>1, SameMod
<1>3. Same(c + a, (c + b) % RowSize, RowSize)
    BY <1>1, <1>2, SameSymmetric
<1>4. Same(c + a, c + b, RowSize)
    BY <1>1, <1>2, <1>3, SameTransitive
<1>5. Same(-c, -c, RowSize)
    BY <1>1, SameReflexive
<1>6. Same((c + a) + (-c), (c + b) + (-c), RowSize)
    BY <1>1, <1>4, <1>5, SameAdd
<1>7. (c + a) + (-c) = a /\ (c + b) + (-c) = b
    BY <1>1
<1>8. a % RowSize = b % RowSize
    BY <1>1, <1>6, <1>7, SameEqual
<1>9. a % RowSize = a /\ b % RowSize = b
    BY <1>1
<1> QED
    BY <1>8, <1>9

LEMMA WindowDoubles ==
    ASSUME NEW s \in Slot, NEW w \in Nat, w >= 1, 2 * w <= RowSize,
           NEW t, t = << s[1], (s[2] + w) % RowSize >>
    PROVE  /\ t \in Slot
           /\ Window(s, 2 * w) = Window(s, w) \cup Window(t, w)
           /\ Window(s, w) \cap Window(t, w) = {}
<1>1. s[1] \in 0 .. 1 /\ s[2] \in 0 .. RowSize - 1 /\ s[2] \in Nat /\ RowSize \in Nat
    BY SlotParts, RingFacts
<1>2. t \in Slot /\ t[1] = s[1] /\ t[2] = (s[2] + w) % RowSize
    <2>1. w \in 0 .. RowSize
        BY <1>1
    <2> QED
        BY <2>1, SlotShift
<1> DEFINE At1(d) == << s[1], (s[2] + d) % RowSize >>
<1>3. Window(s, 2 * w) = {At1(d) : d \in 0 .. 2 * w - 1} /\ Window(s, w) = {At1(d) : d \in 0 .. w - 1}
    BY DEF Window
<1>4. Window(t, w) = {At1(w + d) : d \in 0 .. w - 1}
    <2>1. \A d \in 0 .. w - 1 : << t[1], (t[2] + d) % RowSize >> = At1(w + d)
        <3> SUFFICES ASSUME NEW d \in 0 .. w - 1
                     PROVE  (((s[2] + w) % RowSize) + d) % RowSize = (s[2] + (w + d)) % RowSize
            BY <1>2
        <3>1. d \in Nat
            OBVIOUS
        <3> QED
            BY <1>1, <3>1, ColumnAdd
    <2> QED
        BY <2>1 DEF Window
<1>5. ASSUME NEW d \in 0 .. 2 * w - 1 PROVE d \in 0 .. w - 1 \/ (d - w \in 0 .. w - 1 /\ d = w + (d - w))
    OBVIOUS
<1>6. ASSUME NEW a \in 0 .. w - 1, NEW b \in 0 .. w - 1 PROVE At1(a) # At1(w + b)
    <2> SUFFICES ASSUME (s[2] + a) % RowSize = (s[2] + (w + b)) % RowSize PROVE FALSE
        OBVIOUS
    <2> DEFINE z == w + b
    <2>1. a \in 0 .. RowSize - 1 /\ z \in 0 .. RowSize - 1 /\ s[2] \in Int /\ a # z
        BY <1>1
    <2>2. (s[2] + a) % RowSize = (s[2] + z) % RowSize
        OBVIOUS
    <2> HIDE DEF z
    <2>3. a = z
        BY <2>1, <2>2, ColumnsDiffer
    <2> QED
        BY <2>1, <2>3
<1>7. \A d \in 0 .. w - 1 : d \in 0 .. 2 * w - 1 /\ w + d \in 0 .. 2 * w - 1
    OBVIOUS
<1> HIDE DEF At1
<1>8. Window(s, 2 * w) = Window(s, w) \cup Window(t, w)
    <2>1. Window(s, 2 * w) \subseteq Window(s, w) \cup Window(t, w)
        BY <1>3, <1>4, <1>5
    <2>2. Window(s, w) \cup Window(t, w) \subseteq Window(s, 2 * w)
        BY <1>3, <1>4, <1>7
    <2> QED
        BY <2>1, <2>2
<1>9. Window(s, w) \cap Window(t, w) = {}
    BY <1>3, <1>4, <1>6
<1> QED
    BY <1>2, <1>8, <1>9

LEMMA WindowRow ==
    ASSUME NEW s \in Slot
    PROVE  Window(s, RowSize) = {s[1]} \X (0 .. RowSize - 1)
<1>1. s[1] \in 0 .. 1 /\ s[2] \in 0 .. RowSize - 1 /\ RowSize \in Nat \ {0}
    BY SlotParts, RingFacts
<1>2. ASSUME NEW d \in 0 .. RowSize - 1 PROVE (s[2] + d) % RowSize \in 0 .. RowSize - 1
    BY <1>1
<1>3. ASSUME NEW c \in 0 .. RowSize - 1
      PROVE  \E d \in 0 .. RowSize - 1 : (s[2] + d) % RowSize = c
    <2>1. CASE c >= s[2]
        <3>1. c - s[2] \in 0 .. RowSize - 1 /\ (s[2] + (c - s[2])) % RowSize = c
            BY <1>1, <2>1
        <3> QED
            BY <3>1
    <2>2. CASE c < s[2]
        <3> DEFINE d == c - s[2] + RowSize
                   x == s[2] + d
        <3>1. d \in 0 .. RowSize - 1 /\ x = 1 * RowSize + c /\ x \in Int
            BY <1>1, <2>2
        <3>2. x % RowSize = c
            <4> HIDE DEF x
            <4>1. c \in Int /\ 0 <= c /\ c < RowSize /\ 1 \in Int
                BY <1>1
            <4> QED
                BY <1>1, <3>1, <4>1, RemainderUnique
        <3> QED
            BY <3>1, <3>2
    <2> QED
        BY <1>1, <2>1, <2>2
<1> QED
    BY <1>2, <1>3 DEF Window

WindowSums(v, p, w) == \A s \in Slot : Same(Slots(p)[s], SumFunctionOnSet(v, Window(s, w)), T)

LEMMA VectorTerms ==
    ASSUME NEW v \in Vector, NEW S \in SUBSET Slot
    PROVE  Terms(v, S)
<1>1. \A s \in Slot : v[s] \in Int
    BY RingFacts DEF Vector, Value
<1>2. IsFiniteSet(S)
    BY SlotFinite, FS_Subset
<1> QED
    BY <1>1, <1>2 DEF Terms

LEMMA SumStarts == ASSUME NEW p \in Poly PROVE WindowSums(Slots(p), p, 1)
<1> SUFFICES ASSUME NEW s \in Slot
             PROVE  Same(Slots(p)[s], SumFunctionOnSet(Slots(p), Window(s, 1)), T)
    BY DEF WindowSums
<1> DEFINE v == Slots(p)
<1>1. v \in Vector
    BY SlotValue
<1> HIDE DEF v
<1>2. Terms(v, {s}) /\ v[s] \in Int
    <2>1. {s} \in SUBSET Slot
        OBVIOUS
    <2>2. Terms(v, {s})
        BY <1>1, <2>1, VectorTerms
    <2> QED
        BY <2>2 DEF Terms
<1>3. SumFunctionOnSet(v, {s}) = v[s]
    BY <1>2, SumOnly
<1>4. Same(v[s], v[s], T)
    BY <1>2, RingFacts, SameReflexive
<1> QED
    BY <1>3, <1>4, WindowOne DEF v

LEMMA SumDoubles ==
    ASSUME NEW v \in Vector, NEW p \in Poly, NEW w \in Nat, w >= 1, 2 * w <= RowSize,
           WindowSums(v, p, w)
    PROVE  WindowSums(v, Plus(p, Substitute(p, ColumnExponent(w))), 2 * w)
<1> DEFINE q == Substitute(p, ColumnExponent(w))
<1> SUFFICES ASSUME NEW s \in Slot
             PROVE  Same(Slots(Plus(p, q))[s], SumFunctionOnSet(v, Window(s, 2 * w)), T)
    BY DEF WindowSums
<1> DEFINE t == << s[1], (s[2] + w) % RowSize >>
           A == SumFunctionOnSet(v, Window(s, w))
           B == SumFunctionOnSet(v, Window(t, w))
<1>1. w \in 0 .. RowSize /\ T \in Int
    BY RingFacts
<1>2. q \in Poly
    BY SubstitutePoly
<1>3. /\ t \in Slot
      /\ Window(s, 2 * w) = Window(s, w) \cup Window(t, w)
      /\ Window(s, w) \cap Window(t, w) = {}
    BY WindowDoubles
<1>4. Slots(q)[s] = Slots(p)[t]
    BY <1>1, SlotsOfColumns
<1> HIDE DEF q, t
<1>5. Same(Slots(Plus(p, q))[s], Slots(p)[s] + Slots(p)[t], T)
    BY <1>2, <1>4, SlotsOfSum
<1>6. Same(Slots(p)[s], A, T) /\ Same(Slots(p)[t], B, T)
    BY <1>3 DEF WindowSums
<1>7. SumFunctionOnSet(v, Window(s, 2 * w)) = A + B
    <2>1. Window(s, 2 * w) \in SUBSET Slot
        <3>1. \A d \in 0 .. 2 * w - 1 : d \in 0 .. RowSize
            BY <1>1, RingFacts
        <3> QED
            BY <3>1, SlotShift DEF Window
    <2>2. Terms(v, Window(s, w) \cup Window(t, w))
        BY <1>3, <2>1, VectorTerms
    <2> QED
        BY <1>3, <2>2, SumUnion
<1>8. Same(Slots(p)[s] + Slots(p)[t], A + B, T)
    BY <1>1, <1>6, SameAdd
<1> HIDE DEF A, B
<1>9. Same(Slots(Plus(p, q))[s], A + B, T)
    BY <1>1, <1>5, <1>8, SameTransitive
<1> QED
    BY <1>7, <1>9

LEMMA SumEnds ==
    ASSUME NEW v \in Vector, NEW p \in Poly, WindowSums(v, p, RowSize)
    PROVE  Slots(Plus(p, Substitute(p, RowExponent))) = [s \in Slot |-> SumFunction(v) % T]
<1> DEFINE q == Substitute(p, RowExponent)
           r == Plus(p, q)
<1>1. q \in Poly /\ r \in Poly /\ T \in Int /\ T \in Nat \ {0}
    BY SubstitutePoly, PlusPoly, RingFacts
<1>2. ASSUME NEW s \in Slot PROVE Slots(r)[s] = SumFunction(v) % T
    <2> DEFINE t == << 1 - s[1], s[2] >>
               A == SumFunctionOnSet(v, Window(s, RowSize))
               B == SumFunctionOnSet(v, Window(t, RowSize))
    <2>1. t \in Slot /\ t[1] = 1 - s[1] /\ s[1] \in 0 .. 1
        BY SlotRow, SlotParts
    <2>2. Slots(q)[s] = Slots(p)[t]
        BY SlotsOfRow
    <2>3. Window(s, RowSize) = {s[1]} \X (0 .. RowSize - 1)
        BY WindowRow
    <2>4. Window(t, RowSize) = {1 - s[1]} \X (0 .. RowSize - 1)
        BY <2>1, WindowRow
    <2>5. Window(s, RowSize) \cup Window(t, RowSize) = Slot
        <3>1. {s[1]} \cup {1 - s[1]} = 0 .. 1
            BY <2>1
        <3> DEFINE R == 0 .. RowSize - 1
                   a == s[1]
                   b == 1 - s[1]
        <3> HIDE DEF R, a, b
        <3>2. ({a} \X R) \cup ({b} \X R) = ({a} \cup {b}) \X R
            OBVIOUS
        <3> QED
            BY <2>3, <2>4, <3>1, <3>2 DEF R, a, b, Slot
    <2>6. Window(s, RowSize) \cap Window(t, RowSize) = {}
        <3>1. s[1] # 1 - s[1]
            BY <2>1
        <3> QED
            BY <2>3, <2>4, <3>1
    <2> HIDE DEF q, r, t
    <2>7. Same(Slots(r)[s], Slots(p)[s] + Slots(p)[t], T)
        BY <1>1, <2>2, SlotsOfSum DEF r
    <2>8. Same(Slots(p)[s], A, T) /\ Same(Slots(p)[t], B, T)
        BY <2>1 DEF WindowSums
    <2>9. SumFunctionOnSet(v, Slot) = A + B
        <3>1. Terms(v, Slot)
            BY VectorTerms
        <3> QED
            BY <2>5, <2>6, <3>1, SumUnion
    <2>10. Same(Slots(p)[s] + Slots(p)[t], A + B, T)
        BY <1>1, <2>8, SameAdd
    <2> HIDE DEF A, B
    <2>11. Same(Slots(r)[s], A + B, T)
        BY <1>1, <2>7, <2>10, SameTransitive
    <2>12. Slots(r)[s] % T = (A + B) % T
        BY <1>1, <2>11, SameEqual
    <2>13. Slots(r)[s] \in Value
        BY <1>1, SlotValue DEF Vector
    <2>14. Slots(r)[s] % T = Slots(r)[s]
        BY <1>1, <2>13 DEF Value
    <2>15. SumFunction(v) = SumFunctionOnSet(v, Slot)
        BY DEF SumFunction, Vector
    <2> QED
        BY <2>9, <2>12, <2>14, <2>15
<1>3. Slots(r) = [s \in Slot |-> Slots(r)[s]]
    BY DEF Slots
<1> HIDE DEF r
<1>4. Slots(r) = [s \in Slot |-> SumFunction(v) % T]
    <2> HIDE DEF Slots
    <2> QED
        BY <1>2, <1>3
<1> QED
    BY <1>4 DEF r

-----------------------------------------------------------------------------
(* The expansion.  Even and odd multiples of w, and all other numbers.     *)
Even(k, w) == \E t \in Nat : k = (2 * t) * w
Odd(k, w)  == \E t \in Nat : k = (2 * t + 1) * w

LEMMA EvenMultiple ==
    ASSUME NEW k \in Nat, NEW w \in Nat \ {0}
    PROVE  (k % (2 * w) = 0) <=> Even(k, w)
<1> DEFINE m == 2 * w
<1>1. m \in Nat \ {0}
    OBVIOUS
<1>2. ASSUME k % (2 * w) = 0 PROVE Even(k, w)
    <2> DEFINE t == k \div m
    <2>1. k = t * m
        <3>1. k = (k \div m) * m + (k % m) /\ k \div m \in Int
            <4> HIDE DEF m
            <4> QED
                BY <1>1, Remainder
        <3>2. (k \div m) * m \in Int
            <4> HIDE DEF m
            <4> QED
                BY <1>1, <3>1
        <3> QED
            BY <1>2, <3>1, <3>2
    <2>2. t \in Nat
        <3> HIDE DEF m
        <3> QED
            BY <1>1
    <2> HIDE DEF t
    <2>3. k = (2 * t) * w
        BY <2>1, <2>2
    <2> QED
        BY <2>2, <2>3 DEF Even
<1>3. ASSUME Even(k, w) PROVE k % (2 * w) = 0
    <2>1. PICK t \in Nat : k = (2 * t) * w
        BY <1>3 DEF Even
    <2>2. k = t * m
        BY <2>1
    <2> HIDE DEF m
    <2>3. k % m = 0
        BY <1>1, <2>2, MultipleRemainder
    <2> QED
        BY <2>3 DEF m
<1> QED
    BY <1>2, <1>3

LEMMA Multiple ==
    ASSUME NEW k \in Nat, NEW w \in Nat \ {0}
    PROVE  (k % w = 0) <=> (Even(k, w) \/ Odd(k, w))
<1>1. ASSUME k % w = 0 PROVE Even(k, w) \/ Odd(k, w)
    <2> DEFINE u == k \div w
    <2>1. k = u * w /\ u \in Nat
        <3>1. k = (k \div w) * w + (k % w) /\ k \div w \in Int
            BY Remainder
        <3>2. (k \div w) * w \in Int
            BY <3>1
        <3>3. u \in Nat
            OBVIOUS
        <3> QED
            BY <1>1, <3>1, <3>2, <3>3
    <2> HIDE DEF u
    <2>2. (\E t \in Nat : u = 2 * t) \/ (\E t \in Nat : u = 2 * t + 1)
        <3> DEFINE d == u \div 2
        <3>1. d \in Nat /\ (u = 2 * d \/ u = 2 * d + 1)
            BY <2>1
        <3> HIDE DEF d
        <3> QED
            BY <3>1
    <2> QED
        BY <2>1, <2>2 DEF Even, Odd
<1>2. ASSUME Even(k, w) \/ Odd(k, w) PROVE k % w = 0
    <2>1. \E u \in Nat : k = u * w
        <3>1. \A t \in Nat : 2 * t \in Nat /\ 2 * t + 1 \in Nat
            OBVIOUS
        <3> QED
            BY <1>2, <3>1 DEF Even, Odd
    <2> QED
        BY <2>1, MultipleRemainder
<1> QED
    BY <1>1, <1>2

LEMMA NotBoth ==
    ASSUME NEW k \in Nat, NEW w \in Nat \ {0}, Even(k, w), Odd(k, w)
    PROVE  FALSE
<1>1. PICK t \in Nat : k = (2 * t) * w
    BY DEF Even
<1>2. PICK u \in Nat : k = (2 * u + 1) * w
    BY DEF Odd
<1> DEFINE a == 2 * t
           b == 2 * u + 1
<1>3. a \in Int /\ b \in Int /\ k = a * w + 0 /\ k = b * w + 0
    BY <1>1, <1>2
<1>4. a # b
    OBVIOUS
<1> HIDE DEF a, b
<1>5. k \div w = a /\ k \div w = b
    BY <1>3, QuotientUnique
<1> QED
    BY <1>4, <1>5

LEMMA EvenShift ==
    ASSUME NEW k \in Nat, NEW w \in Nat \ {0}
    PROVE  Even(k, w) <=> Odd(k + w, w)
<1>1. ASSUME Even(k, w) PROVE Odd(k + w, w)
    <2>1. PICK t \in Nat : k = (2 * t) * w
        BY <1>1 DEF Even
    <2>2. k + w = (2 * t + 1) * w
        <3> DEFINE a == 2 * t
        <3>1. a \in Nat /\ k = a * w
            BY <2>1
        <3> HIDE DEF a
        <3>2. k + w = (a + 1) * w
            BY <3>1
        <3> QED
            BY <3>2 DEF a
    <2> QED
        BY <2>2 DEF Odd
<1>2. ASSUME Odd(k + w, w) PROVE Even(k, w)
    <2>1. PICK t \in Nat : k + w = (2 * t + 1) * w
        BY <1>2 DEF Odd
    <2>2. k = (2 * t) * w
        <3> DEFINE a == 2 * t
        <3>1. a \in Nat /\ k + w = (a + 1) * w
            BY <2>1
        <3> HIDE DEF a
        <3>2. (a + 1) * w = a * w + w /\ a * w \in Int
            BY <3>1
        <3>3. k = a * w
            BY <3>1, <3>2
        <3> QED
            BY <3>3 DEF a
    <2> QED
        BY <2>2 DEF Even
<1> QED
    BY <1>1, <1>2

(* Room above a multiple, in a number that is a multiple of 2w.            *)
LEMMA EvenRoom ==
    ASSUME NEW k \in Nat, NEW w \in Nat \ {0}, NEW h \in Nat, k < h * (2 * w), Even(k, w)
    PROVE  k + 2 * w <= h * (2 * w)
<1>1. PICK t \in Nat : k = (2 * t) * w
    BY DEF Even
<1> DEFINE m == 2 * w
<1>2. k = t * m /\ m \in Nat /\ m >= 1 /\ k < h * m
    BY <1>1
<1> HIDE DEF m
<1>3. t < h
    <2> SUFFICES ASSUME h <= t PROVE FALSE
        OBVIOUS
    <2>1. h * m <= t * m
        BY <1>2
    <2>2. h * m \in Int /\ t * m \in Int
        BY <1>2
    <2> QED
        BY <1>2, <2>1, <2>2
<1>4. (t + 1) * m <= h * m
    BY <1>2, <1>3
<1>5. (t + 1) * m = k + m
    BY <1>2
<1> QED
    BY <1>4, <1>5 DEF m

LEMMA OddRoom ==
    ASSUME NEW k \in Nat, NEW w \in Nat \ {0}, NEW h \in Nat, k < h * (2 * w), Odd(k, w)
    PROVE  k + w <= h * (2 * w)
<1>1. PICK t \in Nat : k = (2 * t + 1) * w
    BY DEF Odd
<1> DEFINE a == 2 * t + 1
           b == h * 2
<1>2. a \in Nat /\ b \in Nat /\ k = a * w /\ h * (2 * w) = b * w
    BY <1>1
<1> HIDE DEF a, b
<1>3. a < b
    <2> SUFFICES ASSUME b <= a PROVE FALSE
        BY <1>2
    <2>1. b * w <= a * w
        BY <1>2
    <2>2. b * w \in Int /\ a * w \in Int
        BY <1>2
    <2> QED
        BY <1>2, <2>1, <2>2
<1>4. (a + 1) * w <= b * w
    BY <1>2, <1>3
<1>5. (a + 1) * w = k + w
    BY <1>2
<1> QED
    BY <1>2, <1>4, <1>5

(* Twice a remainder, and a remainder with its opposite.                   *)
LEMMA Doubling ==
    ASSUME NEW x \in Int, NEW q \in Nat \ {0}
    PROVE  /\ ((x % q) + (x % q)) % q = (2 * x) % q
           /\ ((x % q) + ((-(x % q)) % q)) % q = 0
           /\ ((x % q) - ((-(x % q)) % q)) % q = (2 * x) % q
<1> DEFINE y == x % q
           z == (-y) % q
<1>1. q \in Int /\ Same(y, x, q) /\ y \in Int
    BY SameMod
<1>2. Same(z, -y, q) /\ z \in Int
    <2> DEFINE v == -y
    <2>1. v \in Int /\ z = v % q
        BY <1>1
    <2> HIDE DEF v, y, z
    <2>2. Same(v % q, v, q) /\ v % q \in Int
        BY <2>1, SameMod, Remainder
    <2> QED
        BY <2>1, <2>2 DEF v
<1> HIDE DEF y, z
<1>3. Same(y + y, 2 * x, q)
    <2>1. Same(y + y, x + x, q)
        BY <1>1, SameAdd
    <2>2. x + x = 2 * x
        OBVIOUS
    <2> QED
        BY <2>1, <2>2
<1>4. Same(y + z, 0, q)
    <2>1. Same(y, y, q)
        BY <1>1, SameReflexive
    <2>2. Same(y + z, y + (-y), q)
        BY <1>1, <1>2, <2>1, SameAdd
    <2>3. y + (-y) = 0
        BY <1>1
    <2> QED
        BY <2>2, <2>3
<1>5. Same(y - z, 2 * x, q)
    <2>1. Same(-z, -(-y), q)
        BY <1>1, <1>2, SameNegated
    <2>2. -(-y) = y
        BY <1>1
    <2>3. Same(y, y, q)
        BY <1>1, SameReflexive
    <2>4. Same(y + (-z), y + y, q)
        BY <1>1, <2>1, <2>2, <2>3, SameAdd
    <2>5. Same(y + (-z), 2 * x, q)
        BY <1>1, <1>3, <2>4, SameTransitive
    <2>6. y + (-z) = y - z
        BY <1>1, <1>2
    <2> QED
        BY <2>5, <2>6
<1>6. (y + y) % q = (2 * x) % q /\ (y - z) % q = (2 * x) % q
    BY <1>3, <1>5, SameEqual
<1>7. (y + z) % q = 0
    <2>1. (y + z) % q = 0 % q
        BY <1>4, SameEqual
    <2>2. 0 % q = 0
        OBVIOUS
    <2> QED
        BY <2>1, <2>2
<1> QED
    BY <1>6, <1>7 DEF y, z

LEMMA SignedBound ==
    ASSUME NEW e, NEW c \in Int, NEW b \in Int, -b <= c, c <= b
    PROVE  Signed(e, c) \in Int /\ -b <= Signed(e, c) /\ Signed(e, c) <= b
<1>1. -c \in Int /\ -b <= -c /\ -c <= b
    OBVIOUS
<1> QED
    BY <1>1 DEF Signed

LEMMA SignedZero == ASSUME NEW e PROVE Signed(e, 0) = 0
<1> SUFFICES ASSUME NEW c \in Int, c >= 0, c <= 0 PROVE Signed(e, c) = 0
    OBVIOUS
<1>1. -c <= c /\ c <= c
    OBVIOUS
<1> DEFINE s == Signed(e, c)
<1>2. s \in Int /\ -c <= s /\ s <= c
    BY <1>1, SignedBound
<1> HIDE DEF s
<1> QED
    BY <1>2 DEF s

(* A polynomial times -X^(N - w): its coefficients move down by w.         *)
LEMMA TimesMonomial ==
    ASSUME NEW d \in Poly, NEW l \in 0 .. LogN - 1,
           \A j \in Index : j < 2 ^ l => d[j] = 0,
           NEW k \in Index
    PROVE  Times(d, Monomial(l))[k] = IF k + 2 ^ l < N THEN d[k + 2 ^ l] ELSE 0
<1> DEFINE w == 2 ^ l
           M == Monomial(l)
           g == [j \in Index |-> Signed(j + ((k - j) % N), d[j] * M[(k - j) % N])]
<1>1. w \in Nat /\ w >= 1 /\ w < N /\ N \in Nat \ {0} /\ T \in Nat \ {0} /\ T \in Int /\ T >= 2
    <2>1. l \in 0 .. LogN + 1 /\ l \in 0 .. LogN /\ LogN \in 0 .. LogN + 1 /\ l + 1 \in 0 .. LogN
        BY RingFacts
    <2>2. 2 ^ l \in Nat /\ 2 ^ l >= 1
        BY <2>1, PowersOfTwo
    <2>3. 2 ^ (l + 1) = 2 * 2 ^ l
        BY <2>1, PowersAssumption
    <2>4. 2 ^ (l + 1) <= 2 ^ LogN
        BY <2>1, PowersGrow
    <2> DEFINE n == 2 ^ LogN
    <2>5. 2 * w <= n /\ n \in Nat
        BY <2>1, <2>3, <2>4, PowersOfTwo
    <2>6. w < n
        <3>1. w \in Nat /\ w >= 1
            BY <2>2
        <3> HIDE DEF w, n
        <3> QED
            BY <2>5, <3>1
    <2> QED
        BY <2>2, <2>6, RingFacts DEF N
<1>2. \A i \in Index : M[i] = IF i = N - w THEN T - 1 ELSE 0
    BY DEF Monomial
<1>3. Times(d, M)[k] = SumFunction(g) % T
    BY DEF Times
<1>4. DOMAIN g = Index
    OBVIOUS
<1>5. \A j \in Index : g[j] = Signed(j + ((k - j) % N), d[j] * M[(k - j) % N])
    OBVIOUS
<1>6. \A j \in Index : d[j] \in Int /\ j \in Nat /\ j < N
    BY <1>1, Coefficient DEF Index
<1>7. k \in Nat /\ k < N
    BY <1>1 DEF Index
<1>8. ASSUME NEW j \in Index PROVE (k - j) % N \in Index /\ M[(k - j) % N] \in Int /\ g[j] \in Int
    <2> DEFINE i == (k - j) % N
    <2>1. i \in Index
        BY <1>1, <1>6, <1>7 DEF Index
    <2> HIDE DEF i
    <2>2. M[i] \in Int
        BY <1>1, <1>2, <2>1
    <2>3. d[j] * M[i] \in Int
        BY <1>6, <2>2
    <2> HIDE DEF M
    <2>4. Signed(j + i, d[j] * M[i]) \in Int
        BY <2>3, SignedInt
    <2>5. g[j] = Signed(j + i, d[j] * M[i])
        BY <1>5 DEF i
    <2> QED
        BY <2>1, <2>2, <2>4, <2>5 DEF i
<1> DEFINE c == IF k + w < N THEN k + w ELSE k + w - N
<1>9. c \in Index
    <2> HIDE DEF w
    <2> QED
        BY <1>1, <1>7 DEF Index
<1>10. (k - c) % N = N - w
    <2>1. CASE k + w < N
        <3> DEFINE x == k - c
                   r == N - w
        <3>1. x = (-1) * N + r /\ x \in Int /\ r \in Int /\ 0 <= r /\ r < N /\ -1 \in Int
            <4> HIDE DEF w
            <4> QED
                BY <1>1, <1>7, <2>1
        <3> HIDE DEF x, r
        <3>2. x % N = r
            BY <1>1, <3>1, RemainderUnique
        <3> QED
            BY <3>2 DEF x, r
    <2>2. CASE ~(k + w < N)
        <3> HIDE DEF w
        <3>1. k - c = N - w
            BY <1>1, <1>7, <2>2
        <3>2. (N - w) % N = N - w
            BY <1>1
        <3> QED
            BY <3>1, <3>2
    <2> QED
        BY <2>1, <2>2
<1>11. ASSUME NEW j \in Index, j # c PROVE g[j] = 0
    <2>1. (k - j) % N # N - w
        <3> SUFFICES ASSUME (k - j) % N = N - w PROVE FALSE
            OBVIOUS
        <3> DEFINE q == (k - j) \div N
        <3>1. k - j = q * N + (N - w) /\ q \in Int
            BY <1>1, <1>6, <1>7, Remainder
        <3> DEFINE z == q * N
        <3>2. z \in Int /\ k - j = z + (N - w)
            BY <1>1, <3>1
        <3>3. q = 0 \/ q = -1 \/ q >= 1 \/ q <= -2
            <4>1. q \in Int
                BY <3>1
            <4> HIDE DEF q
            <4> QED
                BY <4>1
        <3>4. (q = 0 => z = 0) /\ (q = -1 => z = -N) /\ (q >= 1 => z >= N) /\ (q <= -2 => z <= -2 * N)
            <4>1. q \in Int
                BY <3>1
            <4> HIDE DEF q
            <4> QED
                BY <1>1, <4>1
        <3> HIDE DEF z, q, w
        <3>5. j = c
            BY <1>1, <1>6, <1>7, <3>2, <3>3, <3>4
        <3> QED
            BY <1>11, <3>5
    <2>2. M[(k - j) % N] = 0
        BY <1>2, <1>8, <2>1
    <2>3. d[j] * 0 = 0
        BY <1>6
    <2>4. Signed(j + ((k - j) % N), 0) = 0
        BY SignedZero
    <2> QED
        BY <1>5, <2>2, <2>3, <2>4
<1>12. SumFunction(g) = g[c]
    <2>1. Terms(g, Index)
        BY <1>8, IndexFinite DEF Terms
    <2> HIDE DEF g, c
    <2>2. SumFunctionOnSet(g, Index) = g[c]
        BY <1>9, <1>11, <2>1, SumOnly
    <2> QED
        BY <1>4, <2>2 DEF SumFunction
<1>13. g[c] = Signed(c + (N - w), d[c] * (T - 1))
    <2>1. g[c] = Signed(c + ((k - c) % N), d[c] * M[(k - c) % N])
        BY <1>5, <1>9
    <2>2. M[(k - c) % N] = T - 1
        BY <1>2, <1>8, <1>9, <1>10
    <2> QED
        BY <1>10, <2>1, <2>2
<1>14. Times(d, M)[k] = Signed(c + (N - w), d[c] * (T - 1)) % T
    BY <1>3, <1>12, <1>13
<1> HIDE DEF g, M
<1>15. CASE k + w < N
    <2> DEFINE x == d[c]
    <2>1. c = k + w /\ x \in Value /\ x \in Int
        BY <1>9, <1>15, Coefficient
    <2>2. c + (N - w) = k + N
        <3> HIDE DEF w
        <3> QED
            BY <1>1, <1>7, <2>1
    <2>3. (k + N) \div N = 1
        <3>1. k + N = 1 * N + k /\ k + N \in Int
            BY <1>1, <1>7
        <3> QED
            BY <1>1, <1>7, <3>1, QuotientUnique
    <2>4. Signed(k + N, x * (T - 1)) = -(x * (T - 1))
        BY <2>3 DEF Signed
    <2> HIDE DEF x
    <2>5. (-(x * (T - 1))) % T = x
        <3> DEFINE y == -(x * (T - 1))
        <3>1. y = (-x) * T + x /\ y \in Int /\ -x \in Int
            BY <1>1, <2>1
        <3>2. 0 <= x /\ x < T
            BY <1>1, <2>1 DEF Value
        <3> HIDE DEF y
        <3>3. y % T = x
            BY <1>1, <2>1, <3>1, <3>2, RemainderUnique
        <3> QED
            BY <3>3 DEF y
    <2>6. Times(d, M)[k] = x
        BY <1>14, <2>2, <2>4, <2>5 DEF x
    <2> QED
        BY <1>15, <2>1, <2>6 DEF x, M
<1>16. CASE ~(k + w < N)
    <2>1. c = k + w - N
        BY <1>16
    <2>2. c < w
        <3> HIDE DEF w
        <3> QED
            BY <1>1, <1>7, <2>1
    <2>3. d[c] = 0
        BY <1>9, <2>2
    <2>4. 0 * (T - 1) = 0 /\ 0 % T = 0
        BY <1>1
    <2>5. Signed(c + (N - w), 0) = 0
        BY SignedZero
    <2>6. Times(d, M)[k] = 0
        BY <1>14, <2>3, <2>4, <2>5
    <2> QED
        BY <1>16, <2>6 DEF M
<1> QED
    BY <1>15, <1>16

(* A step of the expansion: w ciphertexts, and the exponent for them.      *)
IsStep(w, e) ==
    w \in Nat \ {0} /\ e \in Exponent /\ \E h \in Nat : N = h * (2 * w) /\ e = 2 * h + 1

LEMMA StepSize ==
    ASSUME NEW l \in 0 .. LogN - 1
    PROVE  IsStep(2 ^ l, ExpandExponent(l)) /\ 2 ^ (l + 1) = 2 * 2 ^ l
<1>1. l \in 0 .. LogN /\ l < LogN /\ N \in Int /\ N >= 8 /\ l \in 0 .. LogN + 1
    BY DegreeFacts
<1> DEFINE a == 2 ^ l
<1>2. a \in Nat /\ a >= 1 /\ 2 ^ (l + 1) = 2 * a
    BY <1>1, PowersOfTwo, PowersAssumption
<1>3. PICK k \in Nat : k >= 1 /\ N = a * k /\ \E h \in Nat : k = 2 * h
    BY <1>1, DegreeDivides
<1>4. PICK h \in Nat : k = 2 * h
    BY <1>3
<1>5. ExpandExponent(l) = N \div a + 1
    BY DEF ExpandExponent
<1> HIDE DEF a
<1>6. N = k * a + 0 /\ 0 < a
    BY <1>2, <1>3
<1>7. N \div a = k
    BY <1>1, <1>2, <1>6, QuotientUnique
<1>8. N = h * (2 * a)
    BY <1>2, <1>3, <1>4
<1>9. ExpandExponent(l) = 2 * h + 1
    BY <1>4, <1>5, <1>7
<1>10. ExpandExponent(l) \in Exponent
    BY ExpandExponents
<1>11. IsStep(a, ExpandExponent(l))
    BY <1>2, <1>8, <1>9, <1>10 DEF IsStep
<1> QED
    BY <1>2, <1>11 DEF a

(* Exponent k of a multiple of w: where X^k goes, and with which sign.     *)
LEMMA MultipleGoes ==
    ASSUME NEW w, NEW e, IsStep(w, e), NEW k \in Index, NEW u \in Nat, k = u * w
    PROVE  (k * e) % N = k /\ (k * e) \div N = u
<1>1. N \in Nat \ {0} /\ k \in Nat /\ k < N /\ w \in Nat
    BY RingFacts DEF Index, IsStep
<1>2. PICK h \in Nat : N = h * (2 * w) /\ e = 2 * h + 1
    BY DEF IsStep
<1> DEFINE x == k * e
<1>3. x = u * N + k /\ x \in Int
    <2>1. k * (2 * h + 1) = k * (2 * h) + k * 1
        BY <1>1, Distributes
    <2>2. k * (2 * h) = u * (h * (2 * w))
        <3>1. (u * w) * (2 * h) = u * (h * (2 * w))
            BY <1>1
        <3> QED
            BY <3>1
    <2>3. k * (2 * h) = u * N
        BY <1>2, <2>2
    <2>4. u * N \in Int /\ k * 1 = k
        BY <1>1
    <2> DEFINE y == u * N
    <2>5. x = y + k /\ y \in Int
        BY <1>2, <2>1, <2>3, <2>4
    <2> HIDE DEF x, y
    <2>6. x \in Int
        BY <1>1, <2>5
    <2> QED
        BY <2>5, <2>6 DEF y
<1> HIDE DEF x
<1>4. u \in Int /\ k \in Int /\ 0 <= k
    BY <1>1
<1>5. x % N = k
    BY <1>1, <1>3, <1>4, RemainderUnique
<1>6. x \div N = u
    BY <1>1, <1>3, <1>4, QuotientUnique
<1> QED
    BY <1>5, <1>6 DEF x

(* A polynomial in X^w after the substitution of a step.                   *)
LEMMA StepSubstitute ==
    ASSUME NEW q \in Poly, NEW w, NEW e, IsStep(w, e),
           \A k \in Index : ~Even(k, w) /\ ~Odd(k, w) => q[k] = 0,
           NEW k \in Index
    PROVE  Substitute(q, e)[k] =
                IF Even(k, w) THEN q[k] ELSE IF Odd(k, w) THEN (-q[k]) % T ELSE 0
<1>0. e \in Exponent /\ w \in Nat \ {0}
    BY DEF IsStep
<1>1. k \in Nat /\ T \in Nat \ {0} /\ q[k] \in Int /\ q[k] % T = q[k]
    <2>1. k \in Nat /\ q[k] \in Value /\ q[k] \in Int /\ T \in Nat \ {0}
        BY Coefficient, RingFacts
    <2> DEFINE c == q[k]
    <2>2. c \in 0 .. T - 1
        BY <2>1 DEF Value
    <2> HIDE DEF c
    <2>3. c % T = c
        BY <2>1, <2>2
    <2> QED
        BY <2>1, <2>3 DEF c
<1>2. ASSUME NEW u \in Nat, k = u * w
      PROVE  Substitute(q, e)[k] = (IF u % 2 = 0 THEN q[k] ELSE -q[k]) % T
    <2>1. (k * e) % N = k /\ (k * e) \div N = u
        BY <1>2, MultipleGoes
    <2>2. Substitute(q, e)[(k * e) % N] = Signed(k * e, q[k]) % T
        BY <1>0, SubstituteAt
    <2>3. Signed(k * e, q[k]) = IF u % 2 = 0 THEN q[k] ELSE -q[k]
        BY <2>1 DEF Signed
    <2> QED
        BY <2>1, <2>2, <2>3
<1>3. CASE Even(k, w)
    <2>1. PICK t \in Nat : k = (2 * t) * w
        BY <1>3 DEF Even
    <2>2. 2 * t \in Nat /\ (2 * t) % 2 = 0
        OBVIOUS
    <2>3. Substitute(q, e)[k] = q[k] % T
        BY <1>2, <2>1, <2>2
    <2> QED
        BY <1>1, <1>3, <2>3
<1>4. CASE Odd(k, w)
    <2>1. PICK t \in Nat : k = (2 * t + 1) * w
        BY <1>4 DEF Odd
    <2>2. 2 * t + 1 \in Nat /\ (2 * t + 1) % 2 # 0
        OBVIOUS
    <2>3. Substitute(q, e)[k] = (-q[k]) % T
        BY <1>2, <2>1, <2>2
    <2>4. ~Even(k, w)
        BY <1>0, <1>1, <1>4, NotBoth
    <2> QED
        BY <1>4, <2>3, <2>4
<1>5. CASE ~Even(k, w) /\ ~Odd(k, w)
    <2>1. PICK j \in Index : (j * e) % N = k
        BY <1>0, Permuted
    <2>2. q[j] = 0
        <3>1. SUFFICES ASSUME Even(j, w) \/ Odd(j, w) PROVE FALSE
            OBVIOUS
        <3>2. \E u \in Nat : j = u * w
            <4>1. \A t \in Nat : 2 * t \in Nat /\ 2 * t + 1 \in Nat
                OBVIOUS
            <4> QED
                BY <3>1, <4>1 DEF Even, Odd
        <3>3. (j * e) % N = j
            BY <3>2, MultipleGoes
        <3> QED
            BY <1>5, <2>1, <3>1, <3>3
    <2>3. Substitute(q, e)[(j * e) % N] = Signed(j * e, q[j]) % T
        BY <1>0, SubstituteAt
    <2>4. Signed(j * e, q[j]) = 0
        BY <2>2, SignedZero
    <2>5. 0 % T = 0
        BY <1>1
    <2>6. Substitute(q, e)[k] = 0
        BY <2>1, <2>3, <2>4, <2>5
    <2> QED
        BY <1>5, <2>6
<1> QED
    BY <1>3, <1>4, <1>5

(* Every step-th coefficient of p from the m-th on, times step.            *)
Spread(p, step, m) ==
    [k \in Index |-> IF k % step = 0 THEN (step * p[k + m]) % T ELSE 0]

LEMMA SpreadPoly ==
    ASSUME NEW p \in Poly, NEW w, NEW e, IsStep(w, e), NEW m \in 0 .. w - 1
    PROVE  /\ Spread(p, w, m) \in Poly
           /\ \A k \in Index :
                /\ Even(k, w) \/ Odd(k, w) =>
                        k + m \in Index /\ Spread(p, w, m)[k] = (w * p[k + m]) % T
                /\ ~Even(k, w) /\ ~Odd(k, w) => Spread(p, w, m)[k] = 0
<1> DEFINE q == Spread(p, w, m)
<1>1. w \in Nat \ {0} /\ T \in Nat \ {0} /\ T >= 1 /\ N \in Nat
    BY RingFacts DEF IsStep
<1>2. PICK h \in Nat : N = h * (2 * w)
    BY DEF IsStep
<1>3. ASSUME NEW k \in Index
      PROVE  /\ Even(k, w) \/ Odd(k, w) =>
                    /\ k + m \in Index /\ q[k] = (w * p[k + m]) % T /\ q[k] \in Value
             /\ ~Even(k, w) /\ ~Odd(k, w) => q[k] = 0 /\ q[k] \in Value
    <2>1. k \in Nat /\ k < N
        BY <1>1, Coefficient DEF Index
    <2>2. q[k] = IF k % w = 0 THEN (w * p[k + m]) % T ELSE 0
        BY DEF Spread
    <2>3. (k % w = 0) <=> (Even(k, w) \/ Odd(k, w))
        BY <1>1, <2>1, Multiple
    <2>4. ASSUME Even(k, w) \/ Odd(k, w)
          PROVE  k + m \in Index /\ q[k] = (w * p[k + m]) % T /\ q[k] \in Value
        <3>1. k + w <= N
            <4>1. CASE Even(k, w)
                <5>1. k + 2 * w <= N
                    BY <1>1, <1>2, <2>1, <4>1, EvenRoom
                <5> QED
                    BY <1>1, <2>1, <5>1
            <4>2. CASE Odd(k, w)
                BY <1>1, <1>2, <2>1, <4>2, OddRoom
            <4> QED
                BY <2>4, <4>1, <4>2
        <3>2. k + m \in Index
            BY <1>1, <2>1, <3>1 DEF Index
        <3>3. p[k + m] \in Int
            BY <3>2, Coefficient
        <3>4. w * p[k + m] \in Int
            BY <1>1, <3>3
        <3>5. (w * p[k + m]) % T \in Value
            BY <3>4, Remainders
        <3> HIDE DEF q
        <3> QED
            BY <2>2, <2>3, <2>4, <3>2, <3>5
    <2>5. 0 \in Value
        BY <1>1 DEF Value
    <2> HIDE DEF q
    <2> QED
        BY <2>2, <2>3, <2>4, <2>5
<1>4. q = [k \in Index |-> q[k]]
    BY DEF Spread
<1> HIDE DEF q
<1>5. q \in Poly
    BY <1>3, <1>4 DEF Poly
<1> QED
    BY <1>3, <1>5 DEF q

(* The three values a step has to tell apart.                              *)
LEMMA StepValues ==
    ASSUME NEW p \in Poly, NEW w, NEW e, IsStep(w, e), NEW m \in 0 .. w - 1, NEW k \in Index,
           NEW q, q = Spread(p, w, m)
    PROVE  /\ q \in Poly /\ Substitute(q, e) \in Poly /\ k \in Nat /\ w \in Nat \ {0}
           /\ Even(k, w) \/ Odd(k, w) => k + m \in Index
           /\ Plus(q, Substitute(q, e))[k] =
                IF Even(k, w) THEN (2 * (w * p[k + m])) % T ELSE 0
           /\ Minus(q, Substitute(q, e))[k] =
                IF Odd(k, w) THEN (2 * (w * p[k + m])) % T ELSE 0
<1> DEFINE r == Substitute(q, e)
           c == w * p[k + m]
           y == c % T
<1>1. w \in Nat \ {0} /\ k \in Nat /\ T \in Nat \ {0}
    BY Coefficient, RingFacts DEF IsStep
<1>2. /\ q \in Poly
      /\ \A i \in Index :
            /\ Even(i, w) \/ Odd(i, w) => i + m \in Index /\ q[i] = (w * p[i + m]) % T
            /\ ~Even(i, w) /\ ~Odd(i, w) => q[i] = 0
    BY SpreadPoly
<1>3. r \in Poly
    BY <1>2, SubstitutePoly
<1>4. r[k] = IF Even(k, w) THEN q[k] ELSE IF Odd(k, w) THEN (-q[k]) % T ELSE 0
    BY <1>2, StepSubstitute
<1>5. Plus(q, r)[k] = (q[k] + r[k]) % T /\ Minus(q, r)[k] = (q[k] - r[k]) % T
    BY DEF Plus, Minus
<1>6. ~(Even(k, w) /\ Odd(k, w))
    BY <1>1, NotBoth
<1> HIDE DEF r
<1>7. CASE Even(k, w) \/ Odd(k, w)
    <2>1. k + m \in Index /\ q[k] = y
        BY <1>2, <1>7
    <2>2. c \in Int
        <3>1. p[k + m] \in Int
            BY <2>1, Coefficient
        <3> QED
            BY <1>1, <3>1
    <2> HIDE DEF c
    <2>3. /\ (y + y) % T = (2 * c) % T
          /\ (y + ((-y) % T)) % T = 0
          /\ (y - ((-y) % T)) % T = (2 * c) % T
        BY <1>1, <2>2, Doubling
    <2>4. (y - y) % T = 0
        <3>1. y \in Int
            BY <1>1, <2>2
        <3> HIDE DEF y
        <3>2. y - y = 0 /\ 0 % T = 0
            BY <1>1, <3>1
        <3> QED
            BY <3>2
    <2> HIDE DEF y
    <2> QED
        BY <1>1, <1>2, <1>3, <1>4, <1>5, <1>6, <1>7, <2>1, <2>3, <2>4 DEF c, r
<1>8. CASE ~Even(k, w) /\ ~Odd(k, w)
    <2>1. q[k] = 0 /\ r[k] = 0
        BY <1>2, <1>4, <1>8
    <2>2. (0 + 0) % T = 0 /\ (0 - 0) % T = 0
        BY <1>1
    <2> HIDE DEF c, y
    <2> QED
        BY <1>1, <1>2, <1>3, <1>5, <1>8, <2>1, <2>2 DEF r
<1> QED
    BY <1>7, <1>8

LEMMA StepLow ==
    ASSUME NEW p \in Poly, NEW w, NEW e, IsStep(w, e), NEW m \in 0 .. w - 1,
           NEW q, q = Spread(p, w, m)
    PROVE  Plus(q, Substitute(q, e)) = Spread(p, 2 * w, m)
<1> DEFINE r == Substitute(q, e)
<1>1. ASSUME NEW k \in Index
      PROVE  Plus(q, r)[k] = IF k % (2 * w) = 0 THEN ((2 * w) * p[k + m]) % T ELSE 0
    <2>1. /\ k \in Nat /\ w \in Nat \ {0}
          /\ Even(k, w) => k + m \in Index
          /\ Plus(q, r)[k] = IF Even(k, w) THEN (2 * (w * p[k + m])) % T ELSE 0
        BY StepValues
    <2>2. (k % (2 * w) = 0) <=> Even(k, w)
        BY <2>1, EvenMultiple
    <2>3. Even(k, w) => 2 * (w * p[k + m]) = (2 * w) * p[k + m]
        <3> SUFFICES ASSUME Even(k, w) PROVE 2 * (w * p[k + m]) = (2 * w) * p[k + m]
            OBVIOUS
        <3> DEFINE c == p[k + m]
        <3>1. c \in Int
            BY <2>1, Coefficient
        <3> HIDE DEF c
        <3>2. 2 * (w * c) = (2 * w) * c
            BY <2>1, <3>1
        <3> QED
            BY <3>2 DEF c
    <2> HIDE DEF r
    <2> QED
        BY <2>1, <2>2, <2>3
<1>2. Plus(q, r) = [k \in Index |-> Plus(q, r)[k]]
    BY DEF Plus
<1>3. Spread(p, 2 * w, m) = [k \in Index |->
                                IF k % (2 * w) = 0 THEN ((2 * w) * p[k + m]) % T ELSE 0]
    BY DEF Spread
<1> HIDE DEF r
<1> QED
    BY <1>1, <1>2, <1>3 DEF r

LEMMA StepHigh ==
    ASSUME NEW p \in Poly, NEW l \in 0 .. LogN - 1, NEW m \in 0 .. 2 ^ l - 1,
           NEW q, q = Spread(p, 2 ^ l, m)
    PROVE  Times(Minus(q, Substitute(q, ExpandExponent(l))), Monomial(l))
                = Spread(p, 2 * 2 ^ l, m + 2 ^ l)
<1> DEFINE w == 2 ^ l
           e == ExpandExponent(l)
           r == Substitute(q, e)
           d == Minus(q, r)
           t == Times(d, Monomial(l))
<1>1. IsStep(w, e)
    BY StepSize
<1>2. w \in Nat \ {0} /\ N \in Nat /\ m \in Nat /\ m < w
    BY <1>1, RingFacts DEF IsStep
<1>3. PICK h \in Nat : N = h * (2 * w)
    BY <1>1 DEF IsStep
<1>4. ASSUME NEW k \in Index
      PROVE  /\ k \in Nat /\ k < N
             /\ Odd(k, w) => k + m \in Index
             /\ d[k] = IF Odd(k, w) THEN (2 * (w * p[k + m])) % T ELSE 0
    <2>1. k \in Nat /\ k < N
        BY <1>2, Coefficient DEF Index
    <2> HIDE DEF w, e
    <2> QED
        BY <1>1, <1>2, <2>1, StepValues DEF w
<1>5. d \in Poly
    <2>1. q \in Poly
        <3> HIDE DEF e
        <3> QED
            BY <1>1, SpreadPoly
    <2>2. r \in Poly
        BY <2>1, SubstitutePoly
    <2> HIDE DEF r
    <2> QED
        BY <2>1, <2>2, MinusPoly
<1> HIDE DEF e, d
<1>6. ASSUME NEW j \in Index, j < w PROVE d[j] = 0
    <2>1. ~Odd(j, w)
        <3> SUFFICES ASSUME Odd(j, w) PROVE FALSE
            OBVIOUS
        <3> HIDE DEF w
        <3>1. PICK u \in Nat : j = (2 * u + 1) * w
            BY DEF Odd
        <3> DEFINE a == 2 * u
        <3>2. a \in Nat /\ j = (a + 1) * w
            BY <3>1
        <3> HIDE DEF a
        <3>3. (a + 1) * w = a * w + w /\ a * w \in Int /\ a * w >= 0
            BY <1>2, <3>2
        <3>4. j \in Nat
            BY <1>4
        <3> QED
            BY <1>2, <1>6, <3>2, <3>3, <3>4
    <2> HIDE DEF w
    <2> QED
        BY <1>4, <2>1
<1>7. ASSUME NEW k \in Index PROVE t[k] = IF k + w < N THEN d[k + w] ELSE 0
    <2> HIDE DEF d
    <2> QED
        BY <1>5, <1>6, TimesMonomial
<1>8. t = [k \in Index |-> t[k]]
    BY DEF Times
<1> HIDE DEF t
<1>9. ASSUME NEW k \in Index
      PROVE  t[k] = IF k % (2 * w) = 0 THEN ((2 * w) * p[k + (m + w)]) % T ELSE 0
    <2> HIDE DEF w
    <2>1. k \in Nat /\ k < N
        BY <1>4
    <2>2. (k % (2 * w) = 0) <=> Even(k, w)
        BY <1>2, <2>1, EvenMultiple
    <2>3. Even(k, w) <=> Odd(k + w, w)
        BY <1>2, <2>1, EvenShift
    <2>4. CASE Even(k, w)
        <3>1. k + 2 * w <= N
            BY <1>2, <1>3, <2>1, <2>4, EvenRoom
        <3>2. k + w < N /\ k + w \in Index
            BY <1>2, <2>1, <3>1 DEF Index
        <3>3. /\ (k + w) + m \in Index
              /\ d[k + w] = (2 * (w * p[(k + w) + m])) % T
            BY <1>4, <2>3, <2>4, <3>2
        <3>4. (k + w) + m = k + (m + w)
            BY <1>2, <2>1
        <3> DEFINE c == p[k + (m + w)]
        <3>5. c \in Int
            BY <3>3, <3>4, Coefficient
        <3> HIDE DEF c
        <3>6. 2 * (w * c) = (2 * w) * c
            BY <1>2, <3>5
        <3>7. t[k] = (2 * (w * c)) % T
            BY <1>7, <3>2, <3>3, <3>4 DEF w, c
        <3> QED
            BY <2>2, <2>4, <3>6, <3>7 DEF c
    <2>5. CASE ~Even(k, w)
        <3>1. k + w < N => k + w \in Index
            BY <1>2, <2>1 DEF Index
        <3>2. k + w < N => d[k + w] = 0
            BY <1>4, <2>3, <2>5, <3>1
        <3>3. t[k] = 0
            BY <1>7, <3>2 DEF w
        <3> QED
            BY <2>2, <2>5, <3>3
    <2> QED
        BY <2>4, <2>5
<1>10. Spread(p, 2 * w, m + w) = [k \in Index |->
            IF k % (2 * w) = 0 THEN ((2 * w) * p[k + (m + w)]) % T ELSE 0]
    BY DEF Spread
<1> HIDE DEF w
<1>11. t = Spread(p, 2 * w, m + w)
    BY <1>8, <1>9, <1>10
<1> QED
    BY <1>11 DEF t, d, e, w

-----------------------------------------------------------------------------
(* The definitions of the ring are the same on both sides.                 *)
LEMMA PromisedRing ==
    /\ Promised!Poly = Poly /\ Promised!Vector = Vector /\ Promised!Slot = Slot
    /\ Promised!RowSize = RowSize /\ Promised!N = N /\ Promised!Index = Index
<1>1. Promised!N = N
    BY Zenon DEF N, Promised!N
<1>2. Promised!RowSize = RowSize /\ Promised!Index = Index /\ Promised!Value = Value
    BY <1>1, Zenon DEF RowSize, Promised!RowSize, Index, Promised!Index, Value, Promised!Value
<1>3. Promised!Poly = Poly /\ Promised!Slot = Slot
    BY <1>2, Zenon DEF Poly, Promised!Poly, Slot, Promised!Slot
<1>4. Promised!Vector = Vector
    BY <1>2, <1>3, Zenon DEF Vector, Promised!Vector
<1> QED
    BY <1>1, <1>2, <1>3, <1>4

LEMMA PromisedSpread ==
    ASSUME NEW p, NEW step, NEW m
    PROVE  Promised!Every(p, step, m) = Spread(p, step, m)
BY PromisedRing, Zenon DEF Promised!Every, Spread

LEMMA PromisedSum == ASSUME NEW f PROVE Promised!SumFunction(f) = SumFunction(f)
BY Zenon DEF Promised!SumFunction, SumFunction, Promised!SumFunctionOnSet, SumFunctionOnSet,
             Promised!FoldFunctionOnSet, FoldFunctionOnSet,
             Promised!MapThenFoldSet, MapThenFoldSet

LEMMA SmallPowers == \A l \in 0 .. LogN : l <= 2 ^ l
<1> DEFINE U == {l \in Nat : l <= 2 ^ l}
<1>1. 0 \in U
    <2>1. 2 ^ 0 = 1
        OBVIOUS
    <2> QED
        BY <2>1
<1>2. ASSUME NEW l \in 0 .. LogN - 1, l \in U PROVE l + 1 \in U
    <2>1. l \in 0 .. LogN /\ l \in 0 .. LogN + 1
        BY RingFacts
    <2> DEFINE a == 2 ^ l
    <2>2. 2 ^ (l + 1) = 2 * a /\ a \in Nat /\ a >= 1 /\ l <= a
        BY <1>2, <2>1, PowersAssumption, PowersOfTwo
    <2>3. l + 1 <= 2 * a /\ l + 1 \in Nat
        <3> HIDE DEF a
        <3> QED
            BY <2>2
    <2> HIDE DEF a
    <2> QED
        BY <2>2, <2>3
<1> HIDE DEF U
<1>3. \A l \in 0 .. LogN : l \in U
    BY <1>1, <1>2, RingFacts, InductionUpTo
<1> QED
    BY <1>3 DEF U

(* The level a size asks for is the one promised.                          *)
LEMMA LevelPromised ==
    ASSUME NEW n \in Nat \ {0}, NEW l \in 0 .. LogN, IsCeilLog2(l, n)
    PROVE  Promised!CeilLog2(n) = l
<1> DEFINE Is(m) == 2 ^ m >= n /\ \A i \in 0 .. m - 1 : 2 ^ i < n
<1>1. Is(l) /\ LogN \in Nat
    BY RingFacts DEF IsCeilLog2
<1>2. l \in 0 .. n
    <2>1. CASE l = 0
        BY <2>1
    <2>2. CASE l # 0
        <3> DEFINE j == l - 1
        <3>1. j \in 0 .. l - 1 /\ j \in 0 .. LogN /\ j \in 0 .. LogN + 1 /\ l = j + 1
            BY <1>1, <2>2
        <3> HIDE DEF j
        <3>2. 2 ^ j < n /\ j <= 2 ^ j /\ 2 ^ j \in Nat
            BY <1>1, <3>1, SmallPowers, PowersOfTwo
        <3> DEFINE a == 2 ^ j
        <3>3. a \in Nat /\ a < n /\ j <= a
            BY <3>2
        <3> HIDE DEF a
        <3> QED
            BY <3>1, <3>3
    <2> QED
        BY <2>1, <2>2
<1>3. ASSUME NEW m \in 0 .. n, Is(m) PROVE m = l
    <2>1. CASE m < l
        <3>1. m \in 0 .. l - 1 /\ m \in 0 .. LogN + 1
            BY <1>1, <2>1
        <3>2. 2 ^ m < n /\ 2 ^ m >= n /\ 2 ^ m \in Nat
            BY <1>1, <1>3, <3>1, PowersOfTwo
        <3> DEFINE a == 2 ^ m
        <3>3. a < n /\ a >= n /\ a \in Nat
            BY <3>2
        <3> HIDE DEF a
        <3> QED
            BY <3>3
    <2>2. CASE l < m
        <3>1. l \in 0 .. m - 1 /\ l \in 0 .. LogN + 1
            BY <1>1, <2>2
        <3>2. 2 ^ l < n /\ 2 ^ l >= n /\ 2 ^ l \in Nat
            BY <1>1, <1>3, <3>1, PowersOfTwo
        <3> DEFINE a == 2 ^ l
        <3>3. a < n /\ a >= n /\ a \in Nat
            BY <3>2
        <3> HIDE DEF a
        <3> QED
            BY <3>3
    <2> QED
        BY <2>1, <2>2
<1>4. Promised!CeilLog2(n) = CHOOSE m \in 0 .. n : Is(m)
    BY Zenon DEF Promised!CeilLog2
<1> HIDE DEF Is
<1> QED
    BY <1>1, <1>2, <1>3, <1>4

-----------------------------------------------------------------------------
(* A call as its caller sees it.                                           *)
Asked(c) == [op |-> c.op, arg |-> c.arg, input |-> View(c.op, c.input), answer |-> Pending]

Result(c) == [j \in 1 .. Cardinality(DOMAIN c.out) |-> View(c.op, c.out[j - 1])]

Kept(c) == Result(c) = Promised!Promise(Asked(c)) /\ Result(c) # Pending

LEMMA OneResult ==
    ASSUME NEW c, NEW x, c.out = [j \in 0 .. 0 |-> x]
    PROVE  Result(c) = << View(c.op, x) >>
<1>1. DOMAIN c.out = {0} /\ c.out[0] = x
    BY 0 \in 0 .. 0
<1>2. Cardinality(DOMAIN c.out) = 1
    BY <1>1, FS_Singleton
<1>3. Result(c) = [j \in 1 .. 1 |-> View(c.op, c.out[j - 1])]
    BY <1>2 DEF Result
<1>4. \A j \in 1 .. 1 : c.out[j - 1] = x
    BY <1>1
<1> HIDE DEF View
<1>5. [j \in 1 .. 1 |-> View(c.op, c.out[j - 1])] = [j \in 1 .. 1 |-> View(c.op, x)]
    BY <1>4
<1>6. [j \in 1 .. 1 |-> View(c.op, x)] = << View(c.op, x) >>
    OBVIOUS
<1> QED
    BY <1>3, <1>5, <1>6

LEMMA NotPending ==
    ASSUME NEW n \in 0 .. N, NEW r \in [1 .. n -> Poly \cup Vector]
    PROVE  r # Pending
BY NoCallAssumption

LEMMA OneKept ==
    ASSUME NEW c, NEW x \in Poly, c.out = [j \in 0 .. 0 |-> x], c.op # "expands",
           Promised!Promise(Asked(c)) = << Slots(x) >>
    PROVE  Kept(c)
<1>1. View(c.op, x) = Slots(x)
    BY DEF View
<1>2. Result(c) = << Slots(x) >>
    BY <1>1, OneResult, ZenonT(60)
<1>3. Slots(x) \in Poly \cup Vector
    BY SlotValue
<1> DEFINE v == Slots(x)
<1> HIDE DEF v
<1>4. << v >> \in [1 .. 1 -> Poly \cup Vector]
    BY <1>3 DEF v
<1>5. 1 \in 0 .. N
    BY RingFacts
<1>6. << v >> # Pending
    BY <1>4, <1>5, NotPending
<1> QED
    BY <1>2, <1>6 DEF Kept, v

LEMMA RowsKept ==
    ASSUME NEW c, c.op = "rows", c.input \in Poly,
           c.out = [j \in 0 .. 0 |-> Substitute(c.input, RowExponent)]
    PROVE  Kept(c)
<1> DEFINE p == c.input
           x == Substitute(p, RowExponent)
           v == Slots(p)
<1>1. Asked(c).op = "rows" /\ Asked(c).input = v
    BY DEF Asked, View
<1> HIDE DEF v
<1>2. Promised!Promise(Asked(c)) = << Promised!RowsSwapped(v) >>
    BY <1>1 DEF Promised!Promise
<1>3. Promised!RowsSwapped(v) = [s \in Slot |-> v[<< 1 - s[1], s[2] >>]]
    BY PromisedRing, Zenon DEF Promised!RowsSwapped
<1>4. Slots(x) = [s \in Slot |-> Slots(x)[s]]
    BY DEF Slots
<1>5. \A s \in Slot : Slots(x)[s] = v[<< 1 - s[1], s[2] >>]
    BY SlotsOfRow DEF v
<1>6. x \in Poly
    BY SubstitutePoly
<1> HIDE DEF x
<1>7. Slots(x) = Promised!RowsSwapped(v)
    <2> HIDE DEF Slots
    <2> QED
        BY <1>3, <1>4, <1>5
<1>8. Promised!Promise(Asked(c)) = << Slots(x) >>
    BY <1>2, <1>7
<1> QED
    BY <1>6, <1>8, OneKept DEF x

LEMMA ColumnsKept ==
    ASSUME NEW c, c.op = "columns", c.input \in Poly, c.arg \in 0 .. RowSize,
           c.out = [j \in 0 .. 0 |-> Substitute(c.input, ColumnExponent(c.arg))]
    PROVE  Kept(c)
<1> DEFINE p == c.input
           i == c.arg
           x == Substitute(p, ColumnExponent(i))
           v == Slots(p)
<1>1. Asked(c).op = "columns" /\ Asked(c).input = v /\ Asked(c).arg = i
    BY DEF Asked, View
<1> HIDE DEF v
<1>2. Promised!Promise(Asked(c)) = << Promised!ColumnsShifted(v, i) >>
    BY <1>1 DEF Promised!Promise
<1>3. Promised!ColumnsShifted(v, i) = [s \in Slot |-> v[<< s[1], (s[2] + i) % RowSize >>]]
    BY PromisedRing, Zenon DEF Promised!ColumnsShifted
<1>4. Slots(x) = [s \in Slot |-> Slots(x)[s]]
    BY DEF Slots
<1>5. \A s \in Slot : Slots(x)[s] = v[<< s[1], (s[2] + i) % RowSize >>]
    BY SlotsOfColumns DEF v
<1>6. x \in Poly
    BY SubstitutePoly
<1> HIDE DEF x
<1>7. Slots(x) = Promised!ColumnsShifted(v, i)
    <2> HIDE DEF Slots
    <2> QED
        BY <1>3, <1>4, <1>5
<1>8. Promised!Promise(Asked(c)) = << Slots(x) >>
    BY <1>2, <1>7
<1> QED
    BY <1>6, <1>8, OneKept DEF x

LEMMA SumKept ==
    ASSUME NEW c, c.op = "innerSum", c.input \in Poly,
           NEW q \in Poly, WindowSums(Slots(c.input), q, RowSize),
           c.out = [j \in 0 .. 0 |-> Plus(q, Substitute(q, RowExponent))]
    PROVE  Kept(c)
<1> DEFINE p == c.input
           x == Plus(q, Substitute(q, RowExponent))
           v == Slots(p)
<1>1. Asked(c).op = "innerSum" /\ Asked(c).input = v
    BY DEF Asked, View
<1>2. v \in Vector
    BY SlotValue
<1>3. Slots(x) = [s \in Slot |-> SumFunction(v) % T]
    BY <1>2, SumEnds
<1>4. x \in Poly
    BY PlusPoly, SubstitutePoly
<1> HIDE DEF v, x
<1>5. Promised!Promise(Asked(c)) = << Promised!SumEverywhere(v) >>
    BY <1>1 DEF Promised!Promise
<1>6. Promised!SumEverywhere(v) = [s \in Slot |-> SumFunction(v) % T]
    BY PromisedRing, PromisedSum, Zenon DEF Promised!SumEverywhere
<1>7. Promised!Promise(Asked(c)) = << Slots(x) >>
    BY <1>3, <1>5, <1>6
<1> QED
    BY <1>4, <1>7, OneKept DEF x

LEMMA ExpandsKept ==
    ASSUME NEW c, c.op = "expands", c.input \in Poly, c.arg \in Nat \ {0},
           NEW l \in 0 .. LogN, IsCeilLog2(l, c.arg), c.arg <= N,
           DOMAIN c.out = 0 .. c.arg - 1,
           \A j \in 0 .. c.arg - 1 :
                c.out[j] = Spread(c.input, 2 ^ l, j) /\ c.out[j] \in Poly
    PROVE  Kept(c)
<1> DEFINE p == c.input
           n == c.arg
<1>1. Asked(c).op = "expands" /\ Asked(c).input = p /\ Asked(c).arg = n
    BY DEF Asked, View
<1>2. Cardinality(DOMAIN c.out) = n
    <2>1. 0 \in Int /\ n - 1 \in Int
        OBVIOUS
    <2>2. Cardinality(0 .. n - 1) = IF 0 > n - 1 THEN 0 ELSE (n - 1) - 0 + 1
        BY <2>1, FS_Interval
    <2>3. (n - 1) - 0 + 1 = n /\ ~(0 > n - 1)
        OBVIOUS
    <2> QED
        BY <2>2, <2>3
<1>3. ASSUME NEW y PROVE View(c.op, y) = y
    BY DEF View
<1>4. Result(c) = [j \in 1 .. n |-> c.out[j - 1]]
    BY <1>2, <1>3 DEF Result
<1>5. \A j \in 1 .. n : j - 1 \in 0 .. n - 1
    OBVIOUS
<1>6. Promised!Promise(Asked(c))
        = [j \in 1 .. n |-> Promised!Every(p, 2 ^ Promised!CeilLog2(n), j - 1)]
    BY <1>1 DEF Promised!Promise
<1>7. Promised!CeilLog2(n) = l
    BY LevelPromised
<1> DEFINE w == 2 ^ l
<1> HIDE DEF w, n, p
<1>8. \A j \in 1 .. n : Promised!Every(p, w, j - 1) = Spread(p, w, j - 1)
    BY PromisedSpread
<1>9. \A j \in 1 .. n : c.out[j - 1] = Promised!Every(p, w, j - 1)
    BY <1>5, <1>8 DEF w, n, p
<1>10. Result(c) = Promised!Promise(Asked(c))
    BY <1>4, <1>6, <1>7, <1>9 DEF w
<1>11. Result(c) \in [1 .. n -> Poly \cup Vector]
    BY <1>4, <1>5 DEF n
<1>12. n \in 0 .. N
    BY RingFacts DEF n
<1>13. Result(c) # Pending
    BY <1>11, <1>12, NotPending
<1> QED
    BY <1>10, <1>13 DEF Kept

-----------------------------------------------------------------------------
(* A step of the promises for every step of a call.                        *)
PromisedStep == Promised!Next \/ PromisedCall' = PromisedCall

LEMMA IsCall ==
    ASSUME NEW n \in 0 .. N,
           NEW r \in [op : Operation, arg : Nat, level : Nat, input : Poly,
                      out : [0 .. n - 1 -> Poly \cup {Empty}], l : Nat, i : Nat, done : BOOLEAN]
    PROVE  r # Idle
BY NoCallAssumption

LEMMA AskedIsCall ==
    ASSUME NEW c, c.op \in Operation, c.arg \in Nat, c.input \in Poly
    PROVE  /\ View(c.op, c.input) \in Poly \cup Vector
           /\ Asked(c) \in Promised!Request
           /\ Asked(c) # Idle
<1> DEFINE v == View(c.op, c.input)
<1>1. (c.op = "expands" => v \in Poly) /\ (c.op # "expands" => v \in Vector)
    BY SlotValue DEF View
<1>2. Asked(c) = [op |-> c.op, arg |-> c.arg, input |-> v, answer |-> Pending]
    BY DEF Asked
<1> HIDE DEF v
<1>3. Asked(c) \in Promised!Request
    BY <1>1, <1>2, PromisedRing DEF Promised!Request, Operation
<1>4. Asked(c) # Idle
    <2>1. 0 \in 0 .. N
        BY RingFacts
    <2>2. Asked(c) \in [op : Operation, arg : Nat, input : Poly \cup Vector,
                        answer : [1 .. 0 -> Poly \cup Vector] \cup {Pending}]
        BY <1>1, <1>2
    <2> QED
        BY <2>1, <2>2, NoCallAssumption
<1> QED
    BY <1>1, <1>3, <1>4 DEF v

LEMMA AnswerStep ==
    ASSUME CallTypes, call # Idle, ~call.done, call' # Idle,
           call'.op = call.op, call'.arg = call.arg, call'.input = call.input,
           call'.done \in BOOLEAN, call'.done => Kept(call')
    PROVE  PromisedStep
<1>1. call.op \in Operation /\ call.arg \in Nat /\ call.input \in Poly
    BY DEF CallTypes, Operation
<1>2. PromisedCall = Asked(call)
    BY DEF PromisedCall, Asked
<1>3. Asked(call') = Asked(call)
    BY DEF Asked
<1>4. Asked(call) # Idle
    BY <1>1, AskedIsCall
<1>5. CASE ~call'.done
    <2>1. PromisedCall' = Asked(call')
        BY <1>5 DEF PromisedCall, Asked
    <2> QED
        BY <1>2, <1>3, <2>1 DEF PromisedStep
<1>6. CASE call'.done
    <2>1. PromisedCall' = [op |-> call'.op, arg |-> call'.arg,
                           input |-> View(call'.op, call'.input), answer |-> Result(call')]
        BY <1>6 DEF PromisedCall, Result
    <2>2. Asked(call) = [op |-> call.op, arg |-> call.arg,
                         input |-> View(call.op, call.input), answer |-> Pending]
        BY DEF Asked
    <2>3. Result(call') = Promised!Promise(Asked(call))
        BY <1>3, <1>6 DEF Kept
    <2> DEFINE a == Asked(call)
               x == Promised!Promise(Asked(call))
               v == View(call.op, call.input)
    <2>4. a = [op |-> call.op, arg |-> call.arg, input |-> v, answer |-> Pending]
        BY <2>2
    <2>5. PromisedCall' = [op |-> call.op, arg |-> call.arg, input |-> v, answer |-> x]
        BY <2>1, <2>3
    <2> HIDE DEF x, v, a
    <2>6. PromisedCall' = [a EXCEPT !.answer = x] /\ a.answer = Pending
        BY <2>4, <2>5
    <2>7. /\ PromisedCall # Idle /\ PromisedCall.answer = Pending
          /\ PromisedCall' = [PromisedCall EXCEPT !.answer = Promised!Promise(PromisedCall)]
        BY <1>2, <1>4, <2>6 DEF a, x
    <2> QED
        BY <2>7 DEF PromisedStep, Promised!Next, Promised!Answer
<1> QED
    BY <1>5, <1>6

LEMMA AskStep ==
    ASSUME call = Idle, CallTypes', call' # Idle, ~call'.done
    PROVE  PromisedStep
<1>1. PromisedCall = Idle
    BY DEF PromisedCall
<1>2. PromisedCall' = Asked(call')
    BY DEF PromisedCall, Asked
<1>3. call'.op \in Operation /\ call'.arg \in Nat /\ call'.input \in Poly
    BY DEF CallTypes, Operation
<1>4. Asked(call') \in Promised!Request
    BY <1>3, AskedIsCall
<1> QED
    BY <1>1, <1>2, <1>4 DEF PromisedStep, Promised!Next, Promised!Ask

LEMMA ReturnStep ==
    ASSUME CallTypes, call # Idle, call.done, Kept(call), call' = Idle
    PROVE  PromisedStep
<1>1. PromisedCall' = Idle
    BY DEF PromisedCall
<1>2. PromisedCall = [op |-> call.op, arg |-> call.arg,
                      input |-> View(call.op, call.input), answer |-> Result(call)]
    BY DEF PromisedCall, Result
<1>3. PromisedCall.answer # Pending
    BY <1>2 DEF Kept
<1>4. CASE PromisedCall = Idle
    BY <1>1, <1>4 DEF PromisedStep
<1>5. CASE PromisedCall # Idle
    BY <1>1, <1>3, <1>5 DEF PromisedStep, Promised!Next, Promised!Return
<1> QED
    BY <1>4, <1>5

-----------------------------------------------------------------------------
(* What a call has computed so far: the argument itself, the sums over a   *)
(* window of each row, or the first 2^l + i plaintexts of the expansion,   *)
(* those that the pass l has reached being a step ahead.                   *)
Progress(c) ==
    /\ c.op = "columns" => c.arg \in 0 .. RowSize
    /\ c.op = "expands" => c.arg >= 1
    /\ c.done => Kept(c)
    /\ ~c.done /\ c.op \in {"rows", "columns"} => c.out[0] = c.input
    /\ ~c.done /\ c.op = "innerSum" =>
            c.out[0] \in Poly /\ WindowSums(Slots(c.input), c.out[0], 2 ^ c.l)
    /\ ~c.done /\ c.op = "expands" =>
            /\ c.out = [m \in DOMAIN c.out |-> c.out[m]]
            /\ c.l = c.level => c.i = 0
            /\ \A m \in 0 .. c.arg - 1 :
                /\ m < c.i => c.out[m] = Spread(c.input, 2 * 2 ^ c.l, m)
                /\ c.i <= m /\ m < 2 ^ c.l => c.out[m] = Spread(c.input, 2 ^ c.l, m)
                /\ 2 ^ c.l <= m /\ m < 2 ^ c.l + c.i =>
                        c.out[m] = Spread(c.input, 2 * 2 ^ c.l, m)

PromiseInv == call # Idle => Progress(call)

LEMMA SpreadOne == ASSUME NEW p \in Poly PROVE Spread(p, 1, 0) = p
<1>1. ASSUME NEW k \in Index PROVE Spread(p, 1, 0)[k] = p[k]
    <2>1. k \in Nat /\ p[k] \in 0 .. T - 1 /\ T \in Nat \ {0}
        BY Coefficient, RingFacts DEF Value
    <2>2. k % 1 = 0 /\ k + 0 = k
        BY <2>1
    <2>3. Spread(p, 1, 0)[k] = (1 * p[k]) % T
        BY <2>2 DEF Spread
    <2> DEFINE c == p[k]
    <2>4. c \in 0 .. T - 1
        BY <2>1
    <2> HIDE DEF c
    <2>5. (1 * c) % T = c
        BY <2>1, <2>4
    <2> QED
        BY <2>3, <2>5 DEF c
<1>2. Spread(p, 1, 0) = [k \in Index |-> Spread(p, 1, 0)[k]]
    BY DEF Spread
<1>3. p = [k \in Index |-> p[k]]
    BY DEF Poly
<1> HIDE DEF Spread
<1> QED
    BY <1>1, <1>2, <1>3

LEMMA StartProgress ==
    ASSUME NEW op \in Operation, NEW arg \in Nat, NEW level \in 0 .. LogN, Start(op, arg, level),
           op = "expands" => arg >= 1, op # "expands" => level = 0
    PROVE  call = Idle /\ (call' # Idle => ~call'.done /\ Progress(call'))
<1>1. PICK p \in Inputs : call' = NewCall(op, arg, level, p)
    BY DEF Start
<1>2. call = Idle /\ Supports(key, op, arg, level)
    BY DEF Start
<1>3. /\ call'.op = op /\ call'.arg = arg /\ call'.level = level /\ call'.input = p
      /\ call'.l = 0 /\ call'.i = 0 /\ call'.done = FALSE
      /\ call'.out = [j \in 0 .. 2 ^ level - 1 |-> IF j = 0 THEN p ELSE Empty]
    BY <1>1 DEF NewCall
<1>4. p \in Poly /\ 2 ^ 0 = 1
    BY KeysAssumption
<1>5. call'.out[0] = p
    <2>1. level \in 0 .. LogN + 1
        BY RingFacts
    <2>2. 0 \in 0 .. 2 ^ level - 1
        BY <2>1, PowersOfTwo
    <2> QED
        BY <1>3, <2>2
<1>6. op = "columns" => arg \in 0 .. RowSize
    <2> SUFFICES ASSUME op = "columns" PROVE arg \in 0 .. RowSize
        OBVIOUS
    <2>1. arg \in Rotation
        BY <1>2 DEF Supports, SupportsColumnRotation
    <2> QED
        BY <2>1, RingFacts DEF Rotation
<1>7. WindowSums(Slots(p), p, 2 ^ 0)
    BY <1>4, SumStarts
<1>8. ASSUME NEW m \in 0 .. arg - 1, 0 <= m, m < 1 PROVE call'.out[m] = Spread(p, 1, m)
    <2>1. m = 0
        BY <1>8
    <2> QED
        BY <1>4, <1>5, <2>1, SpreadOne
<1>9. call'.out = [m \in DOMAIN call'.out |-> call'.out[m]]
    BY <1>3
<1> HIDE DEF WindowSums
<1>10. Progress(call')
    <2>1. ~call'.done /\ call'.op = "innerSum" =>
            call'.out[0] \in Poly /\ WindowSums(Slots(call'.input), call'.out[0], 2 ^ call'.l)
        BY <1>3, <1>4, <1>5, <1>7
    <2>2. \A m \in 0 .. call'.arg - 1 :
            /\ ~(m < call'.i)
            /\ ~(2 ^ call'.l <= m /\ m < 2 ^ call'.l + call'.i)
            /\ call'.i <= m /\ m < 2 ^ call'.l
                    => call'.out[m] = Spread(call'.input, 2 ^ call'.l, m)
        <3>1. 2 ^ call'.l = 1 /\ call'.arg = arg /\ call'.i = 0 /\ call'.input = p
            BY <1>3, <1>4
        <3> QED
            BY <1>8, <3>1
    <2> QED
        BY <1>3, <1>5, <1>6, <1>9, <2>1, <2>2 DEF Progress
<1> QED
    BY <1>2, <1>3, <1>10

LEMMA StartPromised ==
    ASSUME TypeInv, TypeInv', 0 \notin Sizes, StartCall
    PROVE  PromiseInv' /\ PromisedStep
<1>1. 0 \in 0 .. LogN /\ 0 \in Nat /\ LogN \in Nat /\ RowSize \in Nat
    BY RingFacts
<1>2. call = Idle /\ (call' # Idle => ~call'.done /\ Progress(call'))
    <2>1. CASE Start("rows", 0, 0)
        BY <1>1, <2>1, StartProgress DEF Operation
    <2>2. ASSUME NEW i \in 0 .. RowSize, Start("columns", i, 0)
          PROVE  call = Idle /\ (call' # Idle => ~call'.done /\ Progress(call'))
        BY <1>1, <2>2, StartProgress DEF Operation
    <2>3. CASE Start("innerSum", 0, 0)
        BY <1>1, <2>3, StartProgress DEF Operation
    <2>4. ASSUME NEW size \in Sizes, NEW level \in 0 .. LogN + 1,
                 IsCeilLog2(level, size), Start("expands", size, level)
          PROVE  call = Idle /\ (call' # Idle => ~call'.done /\ Progress(call'))
        <3>1. key # NoKey /\ SupportsExpansion(key, level)
            BY <2>4 DEF Start, Supports
        <3>2. DOMAIN key.gk \subseteq Exponent
            BY <3>1, InvKeyTypes DEF TypeInv, IInv
        <3>3. level \in 0 .. LogN
            BY <3>1, <3>2, LevelWithinDegree
        <3>4. size \in Nat /\ size >= 1
            BY KeysAssumption
        <3> QED
            BY <2>4, <3>3, <3>4, StartProgress DEF Operation
    <2> QED
        BY <2>1, <2>2, <2>3, <2>4 DEF StartCall
<1>3. PromiseInv'
    BY <1>2 DEF PromiseInv
<1>4. CASE call' = Idle
    <2>1. PromisedStep
        BY <1>2, <1>4 DEF PromisedStep, PromisedCall
    <2> QED
        BY <1>3, <2>1
<1>5. CASE call' # Idle
    <2>1. PromisedStep
        BY <1>2, <1>5, AskStep DEF TypeInv
    <2> QED
        BY <1>3, <2>1
<1> QED
    BY <1>3, <1>4, <1>5

LEMMA RotatePromised ==
    ASSUME TypeInv, TypeInv', PromiseInv, RotateStep
    PROVE  PromiseInv' /\ PromisedStep
<1>1. /\ call # Idle /\ ~call.done /\ call.op \in {"rows", "columns"} /\ StepDefined
      /\ call' = [op |-> call.op, arg |-> call.arg, level |-> call.level,
                  input |-> call.input, out |-> [j \in 0 .. 0 |-> Rotated],
                  l |-> call.l, i |-> call.i, done |-> TRUE]
    BY DEF RotateStep, Running, Proceed
<1>2. /\ call.arg \in Nat /\ call.level \in 0 .. LogN /\ call.input \in Poly
      /\ call.l \in 0 .. LogN /\ call.i \in 0 .. N - 1
    BY <1>1 DEF TypeInv, CallTypes
<1>3. call.out[0] = call.input /\ (call.op = "columns" => call.arg \in 0 .. RowSize)
    BY <1>1 DEF PromiseInv, Progress
<1>4. Operand = call.input
    BY <1>1, <1>3 DEF Operand
<1>5. Rotated \in Poly
    BY <1>2, <1>4, SubstitutePoly DEF Rotated
<1>6. call' # Idle
    <2>1. [j \in 0 .. 0 |-> Rotated] \in [0 .. 1 - 1 -> Poly \cup {Empty}]
        BY <1>5
    <2>2. 1 \in 0 .. N /\ call.l \in Nat /\ call.i \in Nat /\ call.level \in Nat
        BY <1>2, RingFacts
    <2>3. call' \in [op : Operation, arg : Nat, level : Nat, input : Poly,
                     out : [0 .. 1 - 1 -> Poly \cup {Empty}], l : Nat, i : Nat, done : BOOLEAN]
        BY <1>1, <1>2, <2>1, <2>2 DEF Operation
    <2> QED
        BY <2>2, <2>3, IsCall
<1>7. Kept(call')
    <2>1. CASE call.op = "rows"
        <3>1. Rotated = Substitute(call.input, RowExponent)
            BY <1>4, <2>1 DEF Rotated, StepExponent
        <3>2. /\ call'.op = "rows" /\ call'.input = call.input
              /\ call'.out = [j \in 0 .. 0 |-> Substitute(call'.input, RowExponent)]
            BY <1>1, <2>1, <3>1
        <3> QED
            BY <1>2, <3>2, RowsKept
    <2>2. CASE call.op = "columns"
        <3>1. Rotated = Substitute(call.input, ColumnExponent(call.arg))
            BY <1>4, <2>2 DEF Rotated, StepExponent
        <3>2. /\ call'.op = "columns" /\ call'.input = call.input /\ call'.arg = call.arg
              /\ call'.out = [j \in 0 .. 0 |-> Substitute(call'.input, ColumnExponent(call'.arg))]
            BY <1>1, <2>2, <3>1
        <3> QED
            BY <1>2, <1>3, <2>2, <3>2, ColumnsKept
    <2> QED
        BY <1>1, <2>1, <2>2
<1>8. /\ call'.op = call.op /\ call'.arg = call.arg /\ call'.input = call.input
      /\ call'.done = TRUE
    BY <1>1
<1>9. PromisedStep
    BY <1>1, <1>6, <1>7, <1>8, AnswerStep DEF TypeInv
<1>10. Progress(call')
    BY <1>1, <1>3, <1>7, <1>8 DEF Progress
<1> QED
    BY <1>9, <1>10 DEF PromiseInv

LEMMA SumPromised ==
    ASSUME TypeInv, TypeInv', PromiseInv, SumStep
    PROVE  PromiseInv' /\ PromisedStep
<1> DEFINE l == call.l
           q == call.out[0]
           v == Slots(call.input)
           x == Plus(Operand, Rotated)
<1>1. /\ call # Idle /\ ~call.done /\ call.op = "innerSum" /\ StepDefined
      /\ call' = [op |-> call.op, arg |-> call.arg, level |-> call.level,
                  input |-> call.input, out |-> [j \in 0 .. 0 |-> x],
                  l |-> l + 1, i |-> call.i, done |-> (l = LogN - 1)]
    BY DEF SumStep, Running, Proceed
<1>2. /\ call.arg \in Nat /\ call.level \in 0 .. LogN /\ call.input \in Poly
      /\ call.i \in 0 .. N - 1
    BY <1>1 DEF TypeInv, CallTypes
<1>3. l \in 0 .. LogN - 1 /\ l \in Nat /\ l \in 0 .. LogN + 1 /\ l \in 0 .. LogN
    BY <1>1, RingFacts DEF TypeInv, IInv, OneInv
<1>4. q \in Poly /\ WindowSums(v, q, 2 ^ l)
    BY <1>1 DEF PromiseInv, Progress
<1>5. v \in Vector
    BY <1>2, SlotValue
<1>6. Operand = q
    BY <1>1 DEF Operand
<1>7. Rotated = Substitute(q, StepExponent)
    BY <1>6 DEF Rotated
<1>8. x \in Poly
    BY <1>4, <1>6, <1>7, SubstitutePoly, PlusPoly
<1>9. /\ call'.op = "innerSum" /\ call'.arg = call.arg /\ call'.input = call.input
      /\ call'.l = l + 1 /\ call'.out = [j \in 0 .. 0 |-> x] /\ call'.done = (l = LogN - 1)
    BY <1>1
<1>10. call'.done \in BOOLEAN
    BY <1>9, Zenon
<1> HIDE DEF v, x
<1>11. call' # Idle
    <2>1. [j \in 0 .. 0 |-> x] \in [0 .. 1 - 1 -> Poly \cup {Empty}]
        BY <1>8
    <2>2. 1 \in 0 .. N /\ l + 1 \in Nat /\ call.i \in Nat /\ call.level \in Nat
        BY <1>2, <1>3, RingFacts
    <2>3. (l = LogN - 1) \in BOOLEAN
        OBVIOUS
    <2> DEFINE d == (l = LogN - 1)
    <2>4. call' = [op |-> call.op, arg |-> call.arg, level |-> call.level,
                   input |-> call.input, out |-> [j \in 0 .. 0 |-> x],
                   l |-> l + 1, i |-> call.i, done |-> d] /\ d \in BOOLEAN
        BY <1>1, <2>3
    <2> HIDE DEF d
    <2>5. call' \in [op : Operation, arg : Nat, level : Nat, input : Poly,
                     out : [0 .. 1 - 1 -> Poly \cup {Empty}], l : Nat, i : Nat, done : BOOLEAN]
        BY <1>1, <1>2, <2>1, <2>2, <2>4 DEF Operation
    <2> QED
        BY <2>2, <2>5, IsCall
<1>12. CASE l = LogN - 1
    <2>1. StepExponent = RowExponent
        BY <1>1, <1>3, <1>12, RingFacts DEF StepExponent
    <2>2. 2 ^ l = RowSize
        BY <1>12, RingFacts
    <2>3. x = Plus(q, Substitute(q, RowExponent))
        BY <1>6, <1>7, <2>1 DEF x
    <2>4. WindowSums(Slots(call'.input), q, RowSize)
        BY <1>4, <1>9, <2>2 DEF v
    <2>5. call'.out = [j \in 0 .. 0 |-> Plus(q, Substitute(q, RowExponent))]
        BY <1>9, <2>3
    <2>6. Kept(call')
        BY <1>2, <1>4, <1>9, <2>4, <2>5, SumKept
    <2>7. PromisedStep
        BY <1>1, <1>9, <1>10, <1>11, <2>6, AnswerStep DEF TypeInv
    <2>8. call'.done
        BY <1>9, <1>12, Zenon
    <2>9. Progress(call')
        BY <1>9, <2>6, <2>8 DEF Progress
    <2> QED
        BY <2>7, <2>9 DEF PromiseInv
<1>13. CASE l # LogN - 1
    <2>1. StepExponent = ColumnExponent(2 ^ l)
        BY <1>1, <1>3, <1>13, RingFacts DEF StepExponent
    <2> DEFINE w == 2 ^ l
    <2>2. 2 ^ (l + 1) = 2 * w /\ w \in Nat /\ w >= 1
        BY <1>3, PowersAssumption, PowersOfTwo
    <2>3. 2 * w <= RowSize
        <3>1. l + 1 \in 0 .. LogN - 1 /\ LogN - 1 \in 0 .. LogN + 1
            BY <1>3, <1>13, RingFacts
        <3>2. 2 ^ (l + 1) <= 2 ^ (LogN - 1)
            BY <3>1, PowersGrow
        <3> QED
            BY <2>2, <3>2, RingFacts
    <2>4. x = Plus(q, Substitute(q, ColumnExponent(w)))
        BY <1>6, <1>7, <2>1 DEF x
    <2>5. WindowSums(v, x, 2 * w)
        <3> HIDE DEF w
        <3>1. WindowSums(v, q, w)
            BY <1>4 DEF w
        <3>2. WindowSums(v, Plus(q, Substitute(q, ColumnExponent(w))), 2 * w)
            BY <1>4, <1>5, <2>2, <2>3, <3>1, SumDoubles
        <3> QED
            BY <2>4, <3>2
    <2>6. ~call'.done
        BY <1>9, <1>13, Zenon
    <2>7. PromisedStep
        BY <1>1, <1>9, <1>10, <1>11, <2>6, AnswerStep DEF TypeInv
    <2>8. call'.out[0] = x
        BY <1>9
    <2>9. WindowSums(Slots(call'.input), call'.out[0], 2 ^ call'.l)
        BY <1>9, <2>2, <2>5, <2>8 DEF v
    <2>10. Progress(call')
        BY <1>8, <1>9, <2>6, <2>8, <2>9 DEF Progress
    <2> QED
        BY <2>7, <2>10 DEF PromiseInv
<1> QED
    BY <1>12, <1>13

(* A pass of the expansion over its ciphertexts, i of w done: what changes. *)
PassInv(out, p, n, w, i) ==
    \A m \in 0 .. n - 1 :
        /\ m < i => out[m] = Spread(p, 2 * w, m)
        /\ i <= m /\ m < w => out[m] = Spread(p, w, m)
        /\ w <= m /\ m < w + i => out[m] = Spread(p, 2 * w, m)

LEMMA PassGoesOn ==
    ASSUME NEW n \in Nat, NEW w \in Nat, NEW i \in Nat, i < w, NEW p, NEW out,
           PassInv(out, p, n, w, i), NEW next,
           \A m \in 0 .. n - 1 :
                /\ m = i => next[m] = Spread(p, 2 * w, m)
                /\ m = w + i => next[m] = Spread(p, 2 * w, m)
                /\ m # i /\ m # w + i => next[m] = out[m]
    PROVE  PassInv(next, p, n, w, i + 1)
<1> SUFFICES ASSUME NEW m \in 0 .. n - 1
             PROVE  /\ m < i + 1 => next[m] = Spread(p, 2 * w, m)
                    /\ i + 1 <= m /\ m < w => next[m] = Spread(p, w, m)
                    /\ w <= m /\ m < w + (i + 1) => next[m] = Spread(p, 2 * w, m)
    BY DEF PassInv
<1> DEFINE a == Spread(p, 2 * w, m)
           b == Spread(p, w, m)
<1>1. /\ m < i => out[m] = a
      /\ i <= m /\ m < w => out[m] = b
      /\ w <= m /\ m < w + i => out[m] = a
    BY DEF PassInv
<1>2. /\ m = i => next[m] = a
      /\ m = w + i => next[m] = a
      /\ m # i /\ m # w + i => next[m] = out[m]
    OBVIOUS
<1>3. m \in Nat
    OBVIOUS
<1> HIDE DEF a, b
<1>4. m < i + 1 => next[m] = a
    BY <1>1, <1>2, <1>3
<1>5. i + 1 <= m /\ m < w => next[m] = b
    BY <1>1, <1>2, <1>3
<1>6. w <= m /\ m < w + (i + 1) => next[m] = a
    BY <1>1, <1>2, <1>3
<1> QED
    BY <1>4, <1>5, <1>6 DEF a, b

LEMMA PassEnds ==
    ASSUME NEW n \in Nat, NEW w \in Nat, NEW p, NEW out, PassInv(out, p, n, w, w)
    PROVE  PassInv(out, p, n, 2 * w, 0)
<1> SUFFICES ASSUME NEW m \in 0 .. n - 1
             PROVE  /\ m < 0 => out[m] = Spread(p, 2 * (2 * w), m)
                    /\ 0 <= m /\ m < 2 * w => out[m] = Spread(p, 2 * w, m)
                    /\ 2 * w <= m /\ m < 2 * w + 0 => out[m] = Spread(p, 2 * (2 * w), m)
    BY DEF PassInv
<1> DEFINE a == Spread(p, 2 * w, m)
<1>1. (m < w => out[m] = a) /\ (w <= m /\ m < w + w => out[m] = a)
    BY DEF PassInv
<1> HIDE DEF a
<1>2. 0 <= m /\ m < 2 * w => out[m] = a
    BY <1>1
<1>3. ~(m < 0) /\ ~(2 * w <= m /\ m < 2 * w + 0)
    OBVIOUS
<1> QED
    BY <1>2, <1>3 DEF a

LEMMA ExpandPromised ==
    ASSUME TypeInv, TypeInv', PromiseInv, ExpandStep
    PROVE  PromiseInv' /\ PromisedStep
<1> DEFINE l == call.l
           i == call.i
           n == call.arg
           p == call.input
           w == 2 ^ l
           q == call.out[i]
           low == Plus(Operand, Rotated)
           out == [m \in DOMAIN call.out |->
                        CASE m = i                        -> low
                          [] m = w + i /\ w + i < n       -> Target
                          [] OTHER                        -> call.out[m]]
<1>1. /\ call # Idle /\ ~call.done /\ call.op = "expands" /\ StepDefined /\ l < call.level
      /\ call' = [op |-> call.op, arg |-> n, level |-> call.level, input |-> p, out |-> out,
                  l |-> IF i + 1 = w THEN l + 1 ELSE l, i |-> IF i + 1 = w THEN 0 ELSE i + 1,
                  done |-> FALSE]
    BY DEF ExpandStep, Running, Expanding, Proceed
<1>2. /\ n \in Nat /\ call.level \in 0 .. LogN /\ p \in Poly
      /\ \A j \in DOMAIN call.out : call.out[j] \in Poly \cup {Empty}
    BY <1>1 DEF TypeInv, CallTypes
<1>3. /\ IsCeilLog2(call.level, n) /\ l \in 0 .. call.level /\ i \in Nat /\ i < w
      /\ DOMAIN call.out = 0 .. 2 ^ call.level - 1
    BY <1>1 DEF TypeInv, IInv, ExpandInv
<1>4. /\ l \in 0 .. LogN - 1 /\ l \in 0 .. call.level - 1 /\ l \in Nat
      /\ w \in Nat \ {0} /\ w < n /\ n <= 2 ^ call.level /\ 2 ^ call.level \in 0 .. N
      /\ 2 ^ (l + 1) = 2 * w
    <2>1. l \in 0 .. LogN - 1 /\ l \in 0 .. call.level - 1 /\ l \in 0 .. LogN + 1
          /\ call.level \in 0 .. LogN + 1 /\ l \in 0 .. LogN /\ LogN \in 0 .. LogN + 1
        <3> DEFINE top == call.level
        <3>1. top \in 0 .. LogN /\ l \in 0 .. top /\ l < top /\ LogN \in Nat
            BY <1>1, <1>2, <1>3, RingFacts
        <3> HIDE DEF top, l
        <3>2. /\ l \in 0 .. LogN - 1 /\ l \in 0 .. top - 1 /\ l \in 0 .. LogN + 1
              /\ top \in 0 .. LogN + 1 /\ l \in 0 .. LogN /\ LogN \in 0 .. LogN + 1
            BY <3>1
        <3> QED
            BY <3>2 DEF top
    <2>2. w < n /\ 2 ^ call.level >= n
        BY <1>3, <2>1 DEF IsCeilLog2
    <2>3. w \in Nat /\ w >= 1 /\ 2 ^ call.level \in Nat /\ 2 ^ (l + 1) = 2 * w
        BY <2>1, PowersOfTwo, PowersAssumption
    <2>4. 2 ^ call.level <= 2 ^ LogN
        BY <1>2, <2>1, PowersGrow
    <2> DEFINE b == 2 ^ call.level
    <2>5. b \in Nat /\ b <= N /\ b >= n
        BY <2>2, <2>3, <2>4 DEF N
    <2> HIDE DEF b
    <2>6. b \in 0 .. N /\ n <= b
        BY <1>2, <2>5, RingFacts
    <2> QED
        BY <2>1, <2>2, <2>3, <2>6 DEF b
<1>5. PassInv(call.out, p, n, w, i)
    BY <1>1 DEF PromiseInv, Progress, PassInv
<1>6. q = Spread(p, w, i) /\ i \in 0 .. w - 1 /\ i \in 0 .. n - 1
    <2> HIDE DEF w, n, i, p, q
    <2>1. i \in 0 .. w - 1 /\ i \in 0 .. n - 1
        BY <1>2, <1>3, <1>4
    <2>2. call.out[i] = Spread(p, w, i)
        BY <1>3, <1>5, <2>1 DEF PassInv
    <2> QED
        BY <2>1, <2>2 DEF q
<1>7. Operand = q /\ Rotated = Substitute(q, ExpandExponent(l))
    BY <1>1 DEF Operand, Rotated, StepExponent
<1>8. low = Spread(p, 2 * w, i) /\ q \in Poly
    <2>1. IsStep(w, ExpandExponent(l))
        BY <1>4, StepSize
    <2> DEFINE e == ExpandExponent(l)
    <2>2. low = Plus(q, Substitute(q, e))
        BY <1>7
    <2> HIDE DEF e, w, q, p, i, low
    <2>3. Plus(q, Substitute(q, e)) = Spread(p, 2 * w, i)
        BY <1>2, <1>6, <2>1, StepLow DEF e
    <2>4. Spread(p, w, i) \in Poly
        BY <1>2, <1>6, <2>1, SpreadPoly DEF e
    <2> QED
        BY <1>6, <2>2, <2>3, <2>4
<1>9. Target = Spread(p, 2 * w, i + w)
    <2>1. Target = Times(Minus(q, Substitute(q, ExpandExponent(l))), Monomial(l))
        BY <1>7 DEF Target
    <2> HIDE DEF q, p, i, l
    <2> QED
        BY <1>2, <1>4, <1>6, <2>1, StepHigh
<1>10. low \in Poly /\ Target \in Poly
    BY <1>7, <1>8, SubstitutePoly, PlusPoly, MinusPoly, TimesPoly, MonomialPoly DEF Target
<1>11. \A m \in 0 .. n - 1 :
            /\ m = i => out[m] = Spread(p, 2 * w, m)
            /\ m = w + i => out[m] = Spread(p, 2 * w, m)
            /\ m # i /\ m # w + i => out[m] = call.out[m]
    <2> SUFFICES ASSUME NEW m \in 0 .. n - 1
                 PROVE  /\ m = i => out[m] = Spread(p, 2 * w, m)
                        /\ m = w + i => out[m] = Spread(p, 2 * w, m)
                        /\ m # i /\ m # w + i => out[m] = call.out[m]
        OBVIOUS
    <2> DEFINE b == 2 ^ call.level
    <2> HIDE DEF b
    <2>1. m \in 0 .. b - 1
        <3> HIDE DEF n
        <3> QED
            BY <1>2, <1>4 DEF b
    <2>2. m \in DOMAIN call.out
        BY <1>3, <2>1 DEF b
    <2> DEFINE t == Target
    <2>3. out[m] = CASE m = i                  -> low
                     [] m = w + i /\ w + i < n -> t
                     [] OTHER                  -> call.out[m]
        BY <2>2
    <2>4. t = Spread(p, 2 * w, i + w)
        BY <1>9
    <2> HIDE DEF out, w, n, i, p, low, t
    <2>5. w + i = i + w /\ m < n /\ w + i # i
        BY <1>2, <1>3, <1>4
    <2>6. CASE m = i
        BY <1>8, <2>3, <2>5, <2>6
    <2>7. CASE m = w + i
        <3>1. m = i + w /\ m # i /\ w + i < n
            BY <2>5, <2>7
        <3>2. out[m] = t
            BY <2>3, <2>7, <3>1
        <3> QED
            BY <2>4, <2>7, <3>1, <3>2
    <2>8. CASE m # i /\ m # w + i
        BY <2>3, <2>8
    <2> QED
        BY <2>6, <2>7, <2>8
<1>12. PassInv(out, p, n, w, i + 1)
    <2> HIDE DEF out, w, n, i, p
    <2> QED
        BY <1>2, <1>3, <1>4, <1>5, <1>11, PassGoesOn
<1>13. /\ call'.op = "expands" /\ call'.arg = n /\ call'.level = call.level /\ call'.input = p
       /\ call'.out = out /\ call'.done = FALSE
       /\ call'.l = (IF i + 1 = w THEN l + 1 ELSE l)
       /\ call'.i = (IF i + 1 = w THEN 0 ELSE i + 1)
    <2> HIDE DEF out
    <2> QED
        BY <1>1
<1>14. call' # Idle
    <2> DEFINE b == 2 ^ call.level
    <2>1. \A m \in DOMAIN call.out : out[m] \in Poly \cup {Empty}
        <3> HIDE DEF low
        <3> QED
            BY <1>2, <1>10
    <2>2. out = [m \in DOMAIN call.out |-> out[m]] /\ DOMAIN call.out = 0 .. b - 1
        BY <1>3
    <2> HIDE DEF out, b
    <2>3. out \in [0 .. b - 1 -> Poly \cup {Empty}]
        BY <2>1, <2>2
    <2>4. b \in 0 .. N
        BY <1>4 DEF b
    <2> DEFINE L == IF i + 1 = w THEN l + 1 ELSE l
               I == IF i + 1 = w THEN 0 ELSE i + 1
    <2>5. call' = [op |-> call.op, arg |-> n, level |-> call.level, input |-> p, out |-> out,
                   l |-> L, i |-> I, done |-> FALSE]
        BY <1>1
    <2>6. L \in Nat /\ I \in Nat
        BY <1>3, <1>4, SMTT(60)
    <2> HIDE DEF L, I, n, p
    <2>7. call' \in [op : Operation, arg : Nat, level : Nat, input : Poly,
                     out : [0 .. b - 1 -> Poly \cup {Empty}], l : Nat, i : Nat, done : BOOLEAN]
        BY <1>1, <1>2, <2>3, <2>5, <2>6 DEF Operation
    <2> QED
        BY <2>4, <2>7, IsCall
<1>15. PromisedStep
    BY <1>1, <1>13, <1>14, AnswerStep DEF TypeInv
<1>16. call'.out = [m \in DOMAIN call'.out |-> call'.out[m]]
    <2>1. out = [m \in DOMAIN out |-> out[m]]
        <3> HIDE DEF low
        <3> QED
            OBVIOUS
    <2> HIDE DEF out
    <2> QED
        BY <1>13, <2>1
<1> HIDE DEF out
<1>17. n >= 1
    BY <1>1 DEF PromiseInv, Progress
<1>18. PassInv(call'.out, call'.input, call'.arg, 2 ^ call'.l, call'.i)
    <2>1. CASE i + 1 = w
        <3>1. call'.l = l + 1 /\ call'.i = 0
            BY <1>13, <2>1
        <3> HIDE DEF w, n, i, p
        <3>2. PassInv(out, p, n, w, w)
            BY <1>12, <2>1
        <3>3. PassInv(out, p, n, 2 * w, 0)
            BY <1>2, <1>4, <3>2, PassEnds
        <3> QED
            BY <1>4, <1>13, <3>1, <3>3
    <2>2. CASE i + 1 # w
        <3>1. call'.l = l /\ call'.i = i + 1
            BY <1>13, <2>2
        <3> QED
            BY <1>12, <1>13, <3>1
    <2> QED
        BY <2>1, <2>2
<1>19. call'.l = call'.level => call'.i = 0
    <2>1. CASE i + 1 = w
        BY <1>13, <2>1
    <2>2. CASE i + 1 # w
        BY <1>1, <1>3, <1>4, <1>13, <2>2
    <2> QED
        BY <2>1, <2>2
<1>20. Progress(call')
    BY <1>13, <1>17, <1>18, <1>19, <1>16 DEF Progress, PassInv
<1> QED
    BY <1>15, <1>20 DEF PromiseInv

LEMMA ExpandReturnPromised ==
    ASSUME TypeInv, TypeInv', PromiseInv, ExpandReturn
    PROVE  PromiseInv' /\ PromisedStep
<1> DEFINE k == call.level
           n == call.arg
           p == call.input
           w == 2 ^ k
           out == [j \in 0 .. n - 1 |-> call.out[j]]
<1>1. /\ call # Idle /\ ~call.done /\ call.op = "expands" /\ call.l = k
      /\ call' = [op |-> call.op, arg |-> n, level |-> k, input |-> p,
                  out |-> IF call.l = 0 THEN call.out ELSE out,
                  l |-> call.l, i |-> call.i, done |-> TRUE]
    BY DEF ExpandReturn, Running, Expanded, Proceed
<1>2. /\ n \in Nat /\ k \in 0 .. LogN /\ p \in Poly /\ call.i \in 0 .. N - 1
      /\ \A j \in DOMAIN call.out : call.out[j] \in Poly \cup {Empty}
    BY <1>1 DEF TypeInv, CallTypes
<1>3. /\ IsCeilLog2(k, n) /\ DOMAIN call.out = 0 .. w - 1
      /\ \A m \in Nat : m < w + call.i /\ m < w /\ (m < n \/ m = 0) => call.out[m] # Empty
    BY <1>1 DEF TypeInv, IInv, ExpandInv
<1>4. /\ n >= 1 /\ call.i = 0
      /\ call.out = [m \in DOMAIN call.out |-> call.out[m]]
      /\ \A m \in 0 .. n - 1 : call.i <= m /\ m < w => call.out[m] = Spread(p, w, m)
    BY <1>1 DEF PromiseInv, Progress
<1>5. w \in Nat /\ n <= w /\ w <= N
    <2>1. k \in 0 .. LogN + 1 /\ LogN \in 0 .. LogN + 1 /\ k \in 0 .. LogN
        BY <1>2, RingFacts
    <2>2. w \in Nat /\ 2 ^ k <= 2 ^ LogN
        BY <2>1, PowersOfTwo, PowersGrow
    <2> QED
        BY <1>3, <2>2 DEF IsCeilLog2, N
<1> HIDE DEF w
<1>6. n \in 0 .. N /\ n \in Nat \ {0} /\ \A m \in 0 .. n - 1 : m \in 0 .. w - 1 /\ m \in Nat
    <2> HIDE DEF n
    <2> QED
        BY <1>2, <1>4, <1>5, RingFacts
<1>7. ASSUME NEW m \in 0 .. n - 1
      PROVE  call.out[m] = Spread(p, w, m) /\ call.out[m] \in Poly
    <2>1. 0 <= m /\ m < w /\ m < n /\ m \in Nat /\ w + call.i = w
        <3> HIDE DEF n
        <3> QED
            BY <1>2, <1>4, <1>5
    <2>2. call.out[m] = Spread(p, w, m)
        BY <1>4, <2>1
    <2>3. call.out[m] # Empty
        BY <1>3, <2>1
    <2>4. m \in DOMAIN call.out
        BY <1>3, <1>6
    <2> QED
        BY <1>2, <2>2, <2>3, <2>4
<1>8. (IF call.l = 0 THEN call.out ELSE out) = out
    <2>1. CASE call.l = 0
        <3>1. w = 1
            <4>1. k = 0 /\ 2 ^ 0 = 1
                BY <1>1, <2>1
            <4> QED
                BY <4>1 DEF w
        <3>2. n = 1
            BY <1>4, <1>5, <1>2, <3>1
        <3>3. DOMAIN call.out = 0 .. n - 1
            BY <1>3, <3>1, <3>2
        <3>4. call.out = out
            BY <1>4, <3>3
        <3> QED
            BY <3>4
    <2>2. CASE call.l # 0
        BY <2>2
    <2> QED
        BY <2>1, <2>2
<1>9. /\ call' = [op |-> call.op, arg |-> n, level |-> k, input |-> p, out |-> out,
                  l |-> call.l, i |-> call.i, done |-> TRUE]
      /\ out \in [0 .. n - 1 -> Poly \cup {Empty}]
      /\ DOMAIN out = 0 .. n - 1
      /\ \A j \in 0 .. n - 1 : out[j] = Spread(p, w, j) /\ out[j] \in Poly
    BY <1>1, <1>7, <1>8
<1> HIDE DEF out
<1>10. /\ call'.op = "expands" /\ call'.arg = n /\ call'.input = p /\ call'.out = out
       /\ call'.done = TRUE
    BY <1>1, <1>9
<1>11. call' # Idle
    <2>1. call.l \in Nat /\ call.i \in Nat /\ k \in Nat
        BY <1>1, <1>2
    <2>2. call' \in [op : Operation, arg : Nat, level : Nat, input : Poly,
                     out : [0 .. n - 1 -> Poly \cup {Empty}], l : Nat, i : Nat, done : BOOLEAN]
        BY <1>1, <1>2, <1>9, <2>1 DEF Operation
    <2> QED
        BY <1>6, <2>2, IsCall
<1>12. Kept(call')
    <2>1. /\ call'.arg \in Nat \ {0} /\ call'.arg <= N /\ call'.input \in Poly
          /\ IsCeilLog2(k, call'.arg)
        BY <1>2, <1>3, <1>4, <1>5, <1>6, <1>10, RingFacts
    <2>2. /\ DOMAIN call'.out = 0 .. call'.arg - 1
          /\ \A j \in 0 .. call'.arg - 1 :
                call'.out[j] = Spread(call'.input, 2 ^ k, j) /\ call'.out[j] \in Poly
        BY <1>9, <1>10 DEF w
    <2> QED
        BY <1>2, <1>10, <2>1, <2>2, ExpandsKept
<1>13. PromisedStep
    BY <1>1, <1>10, <1>11, <1>12, AnswerStep DEF TypeInv
<1>14. Progress(call')
    BY <1>4, <1>10, <1>12 DEF Progress
<1> QED
    BY <1>13, <1>14 DEF PromiseInv

LEMMA NextPromised ==
    ASSUME TypeInv, TypeInv', PromiseInv, 0 \notin Sizes, [Next]_vars
    PROVE  PromiseInv' /\ PromisedStep
<1>1. CASE UNCHANGED call
    <2>1. PromiseInv'
        BY <1>1 DEF PromiseInv
    <2>2. PromisedCall' = PromisedCall
        BY <1>1 DEF PromisedCall
    <2> QED
        BY <2>1, <2>2 DEF PromisedStep
<1>2. CASE StartCall
    BY <1>2, StartPromised
<1>3. CASE RotateStep
    BY <1>3, RotatePromised
<1>4. CASE SumStep
    BY <1>4, SumPromised
<1>5. CASE ExpandStep
    BY <1>5, ExpandPromised
<1>6. CASE ExpandReturn
    BY <1>6, ExpandReturnPromised
<1>7. CASE Return
    <2>1. call # Idle /\ call.done /\ call' = Idle
        BY <1>7 DEF Return
    <2>2. Kept(call)
        BY <2>1 DEF PromiseInv, Progress
    <2>3. PromisedStep
        BY <2>1, <2>2, ReturnStep DEF TypeInv
    <2> QED
        BY <2>1, <2>3 DEF PromiseInv
<1> QED
    BY <1>1, <1>2, <1>3, <1>4, <1>5, <1>6, <1>7
    DEF Next, vars, Step, EnableExpansion, EnableInnerSum, EnableRowRotation,
        EnableColumnRotation, Configure, Build, Transfer

-----------------------------------------------------------------------------
(* Rotations, the inner sum and the expansion of an evaluation key compute *)
(* what PromisedCalls promises (evaluation_key.rs, rotates_rows,           *)
(* rotates_columns_by, computes_inner_sum, expands), for every degree,     *)
(* plaintext, argument and key: a call is answered at most once, after its *)
(* last step, and the answer is right.  No caller asks for an expansion    *)
(* into no ciphertexts: the code answers with one.                         *)
THEOREM KeysKeepPromises == ASSUME 0 \notin Sizes PROVE Spec => ImplementsPromises
<1>1. Init => PromiseInv
    BY DEF Init, PromiseInv
<1>2. TypeInv /\ TypeInv' /\ PromiseInv /\ [Next]_vars => PromiseInv'
    BY NextPromised
<1>3. TypeInv /\ TypeInv' /\ PromiseInv /\ [Next]_vars => [Promised!Next]_PromisedCall
    BY NextPromised DEF PromisedStep
<1>4. Init => Promised!Init
    BY DEF Init, Promised!Init, PromisedCall
<1> QED
    BY <1>1, <1>2, <1>3, <1>4, TypeInvariance, PTL DEF Spec, ImplementsPromises, Promised!Spec
=============================================================================
