---------------------------- MODULE EvaluationKeys ---------------------------
(***************************************************************************)
(* Evaluation keys: a builder collects features, an evaluation key made    *)
(* from it holds the Galois keys they need, the key is sent as bytes, and  *)
(* its holder calls rotations, the inner sum and the oblivious expansion.  *)
(*                                                                         *)
(* A ciphertext is the plaintext it decrypts to (noise is left out), at    *)
(* the level the key is for.  A Galois key for the exponent e turns X into *)
(* X^e in it.  A call is one step per Galois key applied, as in the loops  *)
(* of the code.                                                            *)
(***************************************************************************)
EXTENDS PlainRing, FiniteSets, Sequences

CONSTANTS MaxLevel,      \* the last level of the parameters
          LogModulus,    \* bits of the first modulus
          Inputs,        \* plaintexts in the ciphertexts of the callers
          Sizes,         \* sizes callers ask expansion for
          NoKey, Idle, Pending

ASSUME KeysAssumption ==
    /\ LogN <= 31                \* exponents are sent in 32 bits
    /\ MaxLevel \in Nat
    /\ LogModulus \in Nat /\ LogModulus >= 2
    /\ Inputs \subseteq Poly
    /\ Sizes \subseteq Nat

(* The provers do not know the powers of two; TLC evaluates this.          *)
ASSUME PowersAssumption == \A l \in 0 .. LogN : 2 ^ (l + 1) = 2 * 2 ^ l

VARIABLES builder, key, call

vars == << builder, key, call >>

-----------------------------------------------------------------------------
Moduli(level) == MaxLevel + 1 - level

(* Ciphertext::zero, without parts.                                        *)
Empty == << >>

(* level is ilog2 of the least power of two that is at least size.         *)
IsCeilLog2(level, size) == 2 ^ level >= size /\ \A m \in 0 .. level - 1 : 2 ^ m < size

RowExponent == 2 * N - 1

ColumnExponent(i) == Power3[i]

(* rot_to_gk_exponent: the rotations there are exponents for.              *)
Rotation == 1 .. RowSize - 1

(* Of the degree, in a 64-bit word.                                        *)
LeadingZeros == 63 - LogN

ExpandExponent(l) == N \div 2 ^ l + 1

SumRotations == {2 ^ l : l \in 0 .. LogN - 2}

(* A key switching key: one row per modulus of the ciphertext, or, in a    *)
(* context of one modulus, one per digit of logBase bits.                  *)
Digits(logBase) == (LogModulus + logBase - 1) \div logBase

NewGaloisKey(e, ctLevel, keyLevel) ==
    LET logBase == IF Moduli(keyLevel) = 1 THEN LogModulus \div 2 ELSE 0
    IN  [exponent |-> e, ctLevel |-> ctLevel, kskLevel |-> keyLevel, logBase |-> logBase,
         rows |-> IF logBase = 0 THEN Moduli(ctLevel) ELSE Digits(logBase)]

NewGaloisKeyOk(e) == e % 2 = 1

-----------------------------------------------------------------------------
(* The builder.                                                            *)
NewLeveled(ctLevel, keyLevel) ==
    [ctLevel |-> ctLevel, keyLevel |-> keyLevel, innerSum |-> FALSE,
     rowRotation |-> FALSE, expansionLevel |-> 0, columnRotation |-> {}]

(* Mutant: the levels are not compared.                                    *)
NewLeveledOkUnordered(ctLevel, keyLevel) == ctLevel <= MaxLevel /\ keyLevel <= MaxLevel

NewLeveledOk(ctLevel, keyLevel) == ctLevel >= keyLevel /\ ctLevel <= MaxLevel

(* Mutant: one level more than the degree has.                             *)
EnableExpansionOkOneMore(level) == level <= LogN + 1

EnableExpansionOk(level) == level <= LogN

(* Mutant: the inner sum makes its column rotations only.                  *)
IndicesSumWithoutRows(b) ==
    b.columnRotation
    \cup (IF b.rowRotation THEN {RowExponent} ELSE {})
    \cup (IF b.innerSum THEN {ColumnExponent(i) : i \in SumRotations} ELSE {})
    \cup {ExpandExponent(l) : l \in 0 .. b.expansionLevel - 1}

Indices(b) ==
    b.columnRotation
    \cup (IF b.rowRotation \/ b.innerSum THEN {RowExponent} ELSE {})
    \cup (IF b.innerSum THEN {ColumnExponent(i) : i \in SumRotations} ELSE {})
    \cup {ExpandExponent(l) : l \in 0 .. b.expansionLevel - 1}

Built(b) ==
    [ctLevel |-> b.ctLevel, keyLevel |-> b.keyLevel,
     gk |-> [e \in Indices(b) |-> NewGaloisKey(e, b.ctLevel, b.keyLevel)]]

BuildOk(b) == \A e \in Indices(b) : NewGaloisKeyOk(e)

-----------------------------------------------------------------------------
(* To bytes and back.  Only the Galois keys and the two levels are sent.   *)
Serialize(k) ==
    [ctLevel |-> k.ctLevel, keyLevel |-> k.keyLevel, gk |-> {k.gk[e] : e \in DOMAIN k.gk}]

(* Mutant: one row per modulus whatever the digit size.                    *)
GaloisKeyFromProtoOkRows(g) ==
    /\ g.ctLevel <= MaxLevel /\ g.kskLevel <= MaxLevel
    /\ g.rows = Moduli(g.ctLevel)
    /\ NewGaloisKeyOk(g.exponent)

GaloisKeyFromProtoOk(g) ==
    /\ g.ctLevel <= MaxLevel /\ g.kskLevel <= MaxLevel
    /\ g.logBase # 0 => g.ctLevel = MaxLevel /\ g.kskLevel = MaxLevel
    /\ g.rows = IF g.logBase # 0 THEN Digits(g.logBase) ELSE Moduli(g.ctLevel)
    /\ NewGaloisKeyOk(g.exponent)

DeserializeOk(m) ==
    /\ m.ctLevel <= MaxLevel
    /\ \A g \in m.gk : /\ GaloisKeyFromProtoOk(g)
                       /\ g.ctLevel = m.ctLevel /\ g.kskLevel = m.keyLevel

Deserialize(m) ==
    [ctLevel |-> m.ctLevel, keyLevel |-> m.keyLevel,
     gk |-> [e \in {g.exponent : g \in m.gk} |-> CHOOSE g \in m.gk : g.exponent = e]]

-----------------------------------------------------------------------------
(* What a key says it can do.                                              *)
SupportsRowRotation(k) == RowExponent \in DOMAIN k.gk

SupportsColumnRotation(k, i) == i \in Rotation /\ ColumnExponent(i) \in DOMAIN k.gk

(* Mutant: the row rotation at the end of the sum is forgotten.            *)
SupportsInnerSumColumns(k) == \A i \in SumRotations : ColumnExponent(i) \in DOMAIN k.gk

SupportsInnerSum(k) ==
    RowExponent \in DOMAIN k.gk /\ \A i \in SumRotations : ColumnExponent(i) \in DOMAIN k.gk

(* Mutant: the key of the last level is not looked for.                    *)
SupportsExpansionOneShort(k, level) ==
    level = 0 \/ \A l \in 0 .. level - 2 : ExpandExponent(l) \in DOMAIN k.gk

SupportsExpansion(k, level) ==
    level = 0 \/ (/\ k.keyLevel # MaxLevel + 1
                  /\ level < LeadingZeros
                  /\ \A l \in 0 .. level - 1 : ExpandExponent(l) \in DOMAIN k.gk)

Supports(k, op, arg, level) ==
    CASE op = "rows"     -> SupportsRowRotation(k)
      [] op = "columns"  -> SupportsColumnRotation(k, arg)
      [] op = "innerSum" -> SupportsInnerSum(k)
      [] op = "expands"  -> SupportsExpansion(k, level)

-----------------------------------------------------------------------------
(* A call in progress: its request, the level of expansion, the            *)
(* ciphertexts computed so far, its loop counters, and whether it has      *)
(* returned its result.                                                    *)
NewCall(op, arg, level, input) ==
    [op |-> op, arg |-> arg, level |-> level, input |-> input,
     out |-> [j \in 0 .. 2 ^ level - 1 |-> IF j = 0 THEN input ELSE Empty],
     l |-> 0, i |-> 0, done |-> FALSE]

Proceed(out, l, i, done) ==
    call' = [op |-> call.op, arg |-> call.arg, level |-> call.level, input |-> call.input,
             out |-> out, l |-> l, i |-> i, done |-> done]

Operation == {"rows", "columns", "innerSum", "expands"}

(* What stands for no call is not a call, neither here nor as its caller   *)
(* sees it, and what stands for no answer is not an answer.                *)
ASSUME NoCallAssumption ==
    \A n \in 0 .. N :
        /\ Idle \notin [op : Operation, arg : Nat, level : Nat, input : Poly,
                        out : [0 .. n - 1 -> Poly \cup {Empty}],
                        l : Nat, i : Nat, done : BOOLEAN]
        /\ Idle \notin [op : Operation, arg : Nat, input : Poly \cup Vector,
                        answer : [1 .. n -> Poly \cup Vector] \cup {Pending}]
        /\ Pending \notin [1 .. n -> Poly \cup Vector]

Running == call # Idle /\ ~call.done

(* The ciphertext the next step rotates, and the exponent it looks up.     *)
Operand == IF call.op = "expands" THEN call.out[call.i] ELSE call.out[0]

StepExponent ==
    CASE call.op = "rows"     -> RowExponent
      [] call.op = "columns"  -> ColumnExponent(call.arg)
      [] call.op = "innerSum" -> IF call.l <= LogN - 2 THEN ColumnExponent(2 ^ call.l)
                                                       ELSE RowExponent
      [] call.op = "expands"  -> ExpandExponent(call.l)

Expanding == call.op = "expands" /\ call.l < call.level

Expanded == call.op = "expands" /\ call.l = call.level

(* A missing Galois key is an unwrap of None, an empty operand fails the   *)
(* assertion on its length.                                                *)
StepDefined == StepExponent \in DOMAIN key.gk /\ Operand # Empty

(* The ciphertext relinearize_into computes.                               *)
Rotated == Substitute(Operand, StepExponent)

-----------------------------------------------------------------------------
Init ==
    /\ \E c, k \in 0 .. MaxLevel : NewLeveledOk(c, k) /\ builder = NewLeveled(c, k)
    /\ key = NoKey
    /\ call = Idle

(* The builder is configured until the key is built.                       *)
Configure(b) == key = NoKey /\ builder' = b /\ UNCHANGED << key, call >>

EnableExpansion ==
    \E level \in 0 .. LogN + 1 :
        EnableExpansionOk(level) /\ Configure([builder EXCEPT !.expansionLevel = level])

EnableInnerSum == Configure([builder EXCEPT !.innerSum = TRUE])

EnableRowRotation == Configure([builder EXCEPT !.rowRotation = TRUE])

EnableColumnRotation ==
    \E i \in Rotation :
        Configure([builder EXCEPT !.columnRotation = @ \cup {ColumnExponent(i)}])

Build ==
    /\ key = NoKey /\ BuildOk(builder)
    /\ key' = Built(builder)
    /\ UNCHANGED << builder, call >>

Transfer ==
    /\ key # NoKey /\ call = Idle
    /\ DeserializeOk(Serialize(key))
    /\ key' = Deserialize(Serialize(key))
    /\ UNCHANGED << builder, call >>

Start(op, arg, level) ==
    /\ key # NoKey /\ call = Idle
    /\ Supports(key, op, arg, level)
    /\ \E p \in Inputs : call' = NewCall(op, arg, level, p)
    /\ UNCHANGED << builder, key >>

StartCall ==
    \/ Start("rows", 0, 0)
    \/ \E i \in 0 .. RowSize : Start("columns", i, 0)
    \/ Start("innerSum", 0, 0)
    \/ \E size \in Sizes, level \in 0 .. LogN + 1 :
            IsCeilLog2(level, size) /\ Start("expands", size, level)

RotateStep ==
    /\ Running /\ call.op \in {"rows", "columns"} /\ StepDefined
    /\ Proceed([j \in 0 .. 0 |-> Rotated], call.l, call.i, TRUE)
    /\ UNCHANGED << builder, key >>

SumStep ==
    /\ Running /\ call.op = "innerSum" /\ StepDefined
    /\ Proceed([j \in 0 .. 0 |-> Plus(Operand, Rotated)],
               call.l + 1, call.i, call.l = LogN - 1)
    /\ UNCHANGED << builder, key >>

(* Mutant: target computed from low after its update.                      *)
TargetAfterLow == Times(Minus(Plus(Operand, Rotated), Rotated), Monomial(call.l))

(* low is out[i], target is out[2^l + i], computed before low changes.     *)
Target == Times(Minus(Operand, Rotated), Monomial(call.l))

ExpandStep ==
    /\ Running /\ Expanding /\ StepDefined
    /\ LET j      == 2 ^ call.l + call.i
           last   == call.i + 1 = 2 ^ call.l
       IN  Proceed([m \in DOMAIN call.out |->
                        CASE m = call.i              -> Plus(Operand, Rotated)
                          [] m = j /\ j < call.arg   -> Target
                          [] OTHER                   -> call.out[m]],
                   IF last THEN call.l + 1 ELSE call.l, IF last THEN 0 ELSE call.i + 1, FALSE)
    /\ UNCHANGED << builder, key >>

(* With one ciphertext there is no loop and nothing is truncated.          *)
ExpandReturn ==
    /\ Running /\ Expanded
    /\ Proceed(IF call.l = 0 THEN call.out ELSE [j \in 0 .. call.arg - 1 |-> call.out[j]],
               call.l, call.i, TRUE)
    /\ UNCHANGED << builder, key >>

Step == RotateStep \/ SumStep \/ ExpandStep \/ ExpandReturn

(* The caller takes the result.                                            *)
Return ==
    /\ call # Idle /\ call.done
    /\ call' = Idle
    /\ UNCHANGED << builder, key >>

Next ==
    \/ EnableExpansion \/ EnableInnerSum \/ EnableRowRotation \/ EnableColumnRotation
    \/ Build \/ Transfer \/ StartCall \/ Step \/ Return

(* A call runs to its end: the code has no blocking step.                  *)
Spec == Init /\ [][Next]_vars /\ WF_vars(Step)

-----------------------------------------------------------------------------
(* Properties.                                                             *)

Exponent == {e \in 1 .. 2 * N - 1 : e % 2 = 1}

Levels == {lv \in (0 .. MaxLevel) \X (0 .. MaxLevel) : lv[1] >= lv[2]}

(* Types; the levels of the builder and of the key are in order, and the   *)
(* exponents of the Galois keys are odd and below 2N.                      *)
TypeOK ==
    /\ << builder.ctLevel, builder.keyLevel >> \in Levels
    /\ builder.innerSum \in BOOLEAN /\ builder.rowRotation \in BOOLEAN
    /\ builder.expansionLevel \in 0 .. LogN
    /\ builder.columnRotation \subseteq Exponent
    /\ key # NoKey =>
        /\ << key.ctLevel, key.keyLevel >> \in Levels
        /\ DOMAIN key.gk \subseteq Exponent
    /\ call # Idle =>
        /\ call.op \in Operation
        /\ call.arg \in Nat /\ call.level \in 0 .. LogN /\ call.input \in Poly
        /\ call.l \in 0 .. LogN /\ call.i \in 0 .. N - 1 /\ call.done \in BOOLEAN
        /\ \A j \in DOMAIN call.out : call.out[j] \in Poly \cup {Empty}

(* Whatever was enabled, in any order, build() does not fail: every        *)
(* exponent it needs is odd.                                               *)
BuildSucceeds == BuildOk(builder)

(* The key supports every feature that was enabled: the exponents build()  *)
(* collects are those the supports_... functions ask for.                  *)
BuilderDelivers ==
    key # NoKey =>
        /\ builder.rowRotation => SupportsRowRotation(key)
        /\ builder.innerSum => SupportsInnerSum(key)
        /\ SupportsExpansion(key, builder.expansionLevel)
        /\ \A i \in Rotation : ColumnExponent(i) \in builder.columnRotation
                                    => SupportsColumnRotation(key, i)

(* No step of an accepted call finds a Galois key missing or an operand    *)
(* that is still the empty ciphertext: the lookups of the loops unwrap,    *)
(* after one check at the beginning of the call.                           *)
StepIsDefined == Running /\ ~Expanded => StepDefined

(* A key comes back from its bytes as it was, at every pair of levels: the *)
(* receiver derives the number of rows from the levels and the digit size. *)
KeyRoundTrip ==
    key # NoKey => DeserializeOk(Serialize(key)) /\ Deserialize(Serialize(key)) = key

(* The calls compute what an evaluation key promises, read in slots for    *)
(* the rotations and the inner sum, in coefficients for the expansion.     *)
View(op, p) == IF op = "expands" THEN p ELSE Slots(p)

PromisedCall ==
    IF call = Idle THEN Idle
    ELSE [op |-> call.op, arg |-> call.arg, input |-> View(call.op, call.input),
          answer |-> IF call.done
                     THEN [j \in 1 .. Cardinality(DOMAIN call.out) |->
                              View(call.op, call.out[j - 1])]
                     ELSE Pending]

Promised == INSTANCE PromisedCalls WITH call <- PromisedCall

ImplementsPromises == Promised!Spec

(* Every call that was accepted returns a result.                          *)
EveryCallReturns == Running ~> (call # Idle /\ call.done)

(* The doc of expands, evaluation_key.rs: "The output is a vector of       *)
(* `size` ciphertexts".                                                    *)
ExpandsToSize ==
    call # Idle /\ call.op = "expands" /\ call.done
        => Cardinality(DOMAIN call.out) = call.arg
=============================================================================
