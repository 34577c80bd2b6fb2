---------------------------- MODULE CiphertextOps ---------------------------
(***************************************************************************)
(* A program that holds ciphertexts in registers and calls the library on  *)
(* them: any sequence of legal calls, on operands from different           *)
(* parameters too.  A call that fails an assertion or returns Err before   *)
(* it has written anything is not a step.                                  *)
(*                                                                         *)
(* Mistakes is the set of caller mistakes the code does not detect and     *)
(* that the program of this instance makes:                                *)
(*   "emptyFactor"      ciphertext * Ciphertext::zero                      *)
(*   "foreignGaloisKey" rotation with a key of other parameters            *)
(*   "foreignPlaintext" public-key encryption of a plaintext of other      *)
(*                      parameters                                         *)
(*   "mixedDotProduct"  dot product of ciphertexts of several levels       *)
(*   "writeSeededPart"  a write, through DerefMut, to the part a recorded  *)
(*                      seed stands for                                    *)
(***************************************************************************)
EXTENDS KeyOperations

CONSTANTS Regs, MaxParts, Mistakes

MistakeKinds == {"emptyFactor", "foreignGaloisKey", "foreignPlaintext",
                 "mixedDotProduct", "writeSeededPart"}

ASSUME OpsAssumption ==
    /\ Regs # {} /\ Params # {}
    /\ MaxParts \in Nat /\ MaxParts >= 3
    /\ Mistakes \subseteq MistakeKinds

VARIABLE reg    \* the ciphertexts the program holds

vars == reg

Unless(condition, mistake) == condition \/ mistake \in Mistakes

Put(d, v) == reg' = [reg EXCEPT ![d] = v]

Init == \E p \in Params : reg = [r \in Regs |-> Zero(p)]

-----------------------------------------------------------------------------
NewZero(d) == \E p \in Params : Put(d, Zero(p))

EncryptSk(d) ==
    \E p \in Params, pt \in Plaintext, s \in Seeds :
        SkEncryptOk(p, pt) /\ Put(d, SkEncrypt(p, pt, s))

EncryptPk(d) ==
    \E p \in Params, pt \in Plaintext :
        /\ PkEncryptOk(p, pt)
        /\ Unless(Value[p] = Value[pt.par], "foreignPlaintext")
        /\ Put(d, PkEncrypt(p, pt))

(* Ciphertext::new on parts of two of the ciphertexts at hand.  No seed is *)
(* recorded, so where a part came from no longer matters.                  *)
NewFromParts(d) ==
    \E p \in Params, n \in 1 .. MaxParts, a, b \in Regs :
        /\ reg[a].c # << >> /\ reg[b].c # << >>
        /\ LET from  == [i \in 1 .. n |-> IF i = 1 THEN reg[a].c[1] ELSE reg[b].c[1]]
               parts == [i \in 1 .. n |-> Moved(from[i], from[i].ctx)]
           IN  FromPartsOk(parts, p) /\ Put(d, FromParts(parts, p))

(* A write to one part through DerefMut, of a polynomial of its context.   *)
WritePart(d) ==
    \E i \in DOMAIN reg[d].c :
        /\ Unless(reg[d].seed = NoSeed \/ i # Len(reg[d].c), "writeSeededPart")
        /\ Put(d, [reg[d] EXCEPT !.c[i] = Moved(@, @.ctx)])

(* To bytes, and back in a process that holds the same parameters.         *)
Transfer(d) ==
    \E a \in Regs, p \in Params :
        /\ Value[p] = Value[reg[a].par]
        /\ DeserializeOk(Serialize(reg[a]), p)
        /\ Put(d, Deserialize(Serialize(reg[a]), p))

AddCt(d) == \E a, b \in Regs : AddOk(reg[a], reg[b]) /\ Put(d, Add(reg[a], reg[b]))

SubCt(d) == \E a, b \in Regs : AddOk(reg[a], reg[b]) /\ Put(d, Sub(reg[a], reg[b]))

NegCt(d) == \E a \in Regs : Put(d, Neg(reg[a]))

AddPt(d) ==
    \E a \in Regs, pt \in Plaintext :
        AddPlainOk(reg[a], pt) /\ Put(d, AddPlain(reg[a], pt))

SubFromPt(d) ==
    \E a \in Regs, pt \in Plaintext :
        AddPlainOk(reg[a], pt) /\ Put(d, PlainSub(reg[a], pt))

MulPt(d) ==
    \E a \in Regs, pt \in Plaintext :
        MulPlainOk(reg[a], pt) /\ Put(d, MulPlain(reg[a], pt))

MulCt(d) ==
    \E a, b \in Regs :
        /\ MulOk(reg[a], reg[b])
        /\ Unless(reg[b].c # << >>, "emptyFactor")
        /\ Len(reg[a].c) + Len(reg[b].c) <= MaxParts + 1
        /\ Put(d, Mul(reg[a], reg[b]))

DotProductPt(d) ==
    \E n \in 1 .. 2, m \in 1 .. 2 :
    \E cts \in [1 .. n -> Regs], pt \in Plaintext :
        LET xs  == [i \in 1 .. n |-> reg[cts[i]]]
            pts == [i \in 1 .. m |-> pt]
        IN  /\ DotProductOk(xs, pts)
            /\ Unless(/\ \A i \in 1 .. n : xs[i].level = xs[1].level
                      /\ pt.level <= xs[1].level, "mixedDotProduct")
            /\ Put(d, DotProduct(xs, pts))

-----------------------------------------------------------------------------
Lower(d) == Put(d, SwitchDown(reg[d]))

LowerTo(d) ==
    \E target \in Level :
        SwitchToLevelOk(reg[d], target) /\ Put(d, SwitchToLevel(reg[d], target))

RelinearizeCt(d) ==
    \E k \in RelinKey : RelinearizesOk(reg[d], k) /\ Put(d, Relinearizes(reg[d], k))

OwnGaloisKey(x, k) == Unless(Value[k.par] = Value[x.par], "foreignGaloisKey")

RotateCt(d) ==
    \E a \in Regs, k \in GaloisKey :
        /\ OwnGaloisKey(reg[a], k)
        /\ RotatesOk(reg[a], k)
        /\ Put(d, Rotates(reg[a], k))

InnerSumCt(d) ==
    \E a \in Regs, k \in GaloisKey :
        /\ OwnGaloisKey(reg[a], k)
        /\ InnerSumOk(reg[a], k)
        /\ Put(d, InnerSum(reg[a], k))

MultiplyCt(d) ==
    \E a, b \in Regs, m \in Multiplicator :
        MultiplyOk(m, reg[a], reg[b]) /\ Put(d, Multiply(m, reg[a], reg[b]))

RgswMulCt(d) ==
    \E a \in Regs, g \in RGSW :
        RgswMulOk(reg[a], g) /\ Put(d, RgswMul(reg[a], g))

Create(d) ==
    \/ NewZero(d) \/ EncryptSk(d) \/ EncryptPk(d) \/ NewFromParts(d) \/ Transfer(d)

Compute(d) ==
    \/ WritePart(d) \/ AddCt(d) \/ SubCt(d) \/ NegCt(d) \/ AddPt(d) \/ SubFromPt(d)
    \/ MulPt(d) \/ MulCt(d) \/ DotProductPt(d)

WithKey(d) ==
    \/ RelinearizeCt(d) \/ RotateCt(d) \/ InnerSumCt(d) \/ MultiplyCt(d) \/ RgswMulCt(d)

Next == \E d \in Regs : Create(d) \/ Compute(d) \/ Lower(d) \/ LowerTo(d) \/ WithKey(d)

Spec == Init /\ [][Next]_vars

-----------------------------------------------------------------------------
(* Every register holds a ciphertext at a level its parameters have.       *)
TypeOK ==
    /\ reg \in [Regs -> Ciphertext]
    /\ \A r \in Regs : reg[r].level \in Levels(reg[r].par)

(* The level field and the contexts of the parts move together: every part *)
(* of a ciphertext is in the context its parameters have at its level,     *)
(* whatever was switched, rotated, sent or assembled before.  Operations   *)
(* check one of the two and then work on the other.                        *)
ContextMatchesLevel ==
    \A r \in Regs : \A i \in DOMAIN reg[r].c :
        reg[r].c[i].ctx = CtxAt(reg[r].par, reg[r].level)

(* A recorded seed still generates the last part: only a two-part          *)
(* ciphertext has a seed, and every operation that changes its parts has   *)
(* dropped it (relinearization, which does not, meets no seed).            *)
SeedRegeneratesLast ==
    \A r \in Regs : reg[r].seed # NoSeed =>
        Len(reg[r].c) = 2 /\ reg[r].c[2].src = reg[r].seed

(* from_bytes(to_bytes(ct)) is accepted and gives ct back under any equal  *)
(* parameters, the regenerated part and the level included.                *)
WireRoundTrip ==
    \A r \in Regs, p \in Params :
        (reg[r].c # << >> /\ Value[p] = Value[reg[r].par]) =>
            /\ DeserializeOk(Serialize(reg[r]), p)
            /\ Deserialize(Serialize(reg[r]), p) = [reg[r] EXCEPT !.par = p]

(* No operation zips rows of different contexts: what the debug_assert in  *)
(* every operator on polynomials says, and a release build does not check. *)
NoMixedContexts ==
    \A r \in Regs : \A i \in DOMAIN reg[r].c : reg[r].c[i].src # Mixed

(* A ciphertext that is not empty has at least two parts.                  *)
AtLeastTwoParts == \A r \in Regs : Len(reg[r].c) # 1

SameLevel(xs, pts) ==
    \A i \in DOMAIN xs : xs[i].level = xs[1].level /\ pts[i].level = xs[1].level

SameHandle(xs, pts) ==
    \A i \in DOMAIN xs : xs[i].par = xs[1].par /\ pts[i].par = xs[1].par

(* The sum of two products of a ciphertext and a plaintext.                *)
SumOk(xs, pts) ==
    /\ \A i \in 1 .. 2 : MulPlainOk(xs[i], pts[i])
    /\ AddOk(MulPlain(xs[1], pts[1]), MulPlain(xs[2], pts[2]))

Sum2(xs, pts) == Add(MulPlain(xs[1], pts[1]), MulPlain(xs[2], pts[2]))

(* What test_dot_product_scalar asserts, over every ciphertext a program   *)
(* can reach: on operands of one level the fused dot product is the sum of *)
(* the products, in every field of the result.                             *)
DotProductIsSum ==
    \A a, b \in Regs, pt, qt \in Plaintext :
        LET xs  == << reg[a], reg[b] >>
            pts == << pt, qt >>
        IN  (DotProductOk(xs, pts) /\ SameLevel(xs, pts) /\ SameHandle(xs, pts)) =>
                /\ SumOk(xs, pts)
                /\ DotProduct(xs, pts) = Sum2(xs, pts)

(* The same without the assumption on the levels, each plaintext being at  *)
(* the level of its ciphertext: if the function returns a ciphertext, then *)
(* the products can be added.                                              *)
DotProductAcceptsOnlySums ==
    \A a, b \in Regs, pt, qt \in Plaintext :
        LET xs  == << reg[a], reg[b] >>
            pts == << pt, qt >>
        IN  (/\ DotProductOk(xs, pts) /\ SameHandle(xs, pts)
             /\ pt.level = reg[a].level /\ qt.level = reg[b].level) => SumOk(xs, pts)

=============================================================================
