------------------------------- MODULE Streams ------------------------------
(***************************************************************************)
(* The bit pools of fhe-util: the transcoders between vectors of n-bit     *)
(* words and bytes, through which the rows of a polynomial are serialized, *)
(* and the sampler of centred binomial noise.                              *)
(*                                                                         *)
(* A bit is its origin: << e, i >> is the i-th bit of the e-th element (or *)
(* random word) and Zero is a bit nobody put there.  What holds of origins *)
(* holds of all values.  A pool is the sequence of its bits, the lowest    *)
(* first, and holds two words.                                             *)
(***************************************************************************)
EXTENDS Integers, Sequences

CONSTANTS
    WordBits,       \* 64 in the program
    ByteBits,       \* 8
    Widths,         \* numbers of bits of the words transcoded
    Lengths,        \* lengths of the vectors transcoded
    Variances,      \* variances asked of the sampler
    MaxSamples,     \* bound: the length of the vectors sampled
    NoStream

(* Words transcoded have 1 to 64 bits, which transcode_to_bytes asserts,   *)
(* and a sample takes at most 64, for the largest variance there is.       *)
ASSUME StreamsAssumption ==
    /\ WordBits \in Nat /\ WordBits >= 64
    /\ ByteBits \in 1 .. WordBits /\ Widths \subseteq 1 .. WordBits /\ Lengths \subseteq Nat

VARIABLE stream     \* the call in progress

Zero == << 0, 0 >>

Capacity == 2 * WordBits

CeilDiv(a, b) == (a + b - 1) \div b

Element(e, n) == [i \in 1 .. n |-> << e, i >>]

Vector(len, n) == [e \in 1 .. len |-> Element(e, n)]

(* bits << Len(pool), or-ed into the pool: what exceeds it is lost.        *)
Pooled(pool, bits) ==
    LET b == pool \o bits
    IN  [i \in 1 .. Len(b) |-> IF i <= Capacity THEN b[i] ELSE Zero]

Drop(s, n) == SubSeq(s, n + 1, Len(s))

-----------------------------------------------------------------------------
(* transcode_to_bytes, transcode_from_bytes and transcode_bidirectional    *)
(* are one loop with other widths.  A call takes a, words of inBits bits,  *)
(* to words of outBits bits; back are the bits of the words when the       *)
(* output is to be transcoded back by a second call.                       *)

Transcoding(a, inBits, outBits, back) ==
    [job |-> "transcode", a |-> a, inBits |-> inBits, outBits |-> outBits, back |-> back,
     index |-> 0, pool |-> << >>, out |-> << >>, done |-> FALSE]

StreamInit == stream = NoStream

SerializeVec(n, len) ==
    stream = NoStream /\ stream' = Transcoding(Vector(len, n), n, ByteBits, n)

Bidirectional(n, m, len) ==
    stream = NoStream /\ stream' = Transcoding(Vector(len, n), n, m, 0)

IsTranscoding == stream # NoStream /\ stream.job = "transcode" /\ ~stream.done

TakeWord ==
    /\ IsTranscoding /\ Len(stream.pool) < stream.outBits /\ stream.index < Len(stream.a)
    /\ stream' = [stream EXCEPT !.pool = Pooled(stream.pool, stream.a[stream.index + 1]),
                                !.index = stream.index + 1]

(* What is left makes a last word with zeros above. *)
Padded(bits, n) == [i \in 1 .. n |-> IF i <= Len(bits) THEN bits[i] ELSE Zero]

(* Mutant: emitted one bit early.                                          *)
EmitWordEarly ==
    /\ IsTranscoding /\ Len(stream.pool) >= stream.outBits - 1
    /\ stream' = [stream EXCEPT !.pool = Drop(stream.pool, stream.outBits),
                                !.out = Append(stream.out, Padded(stream.pool, stream.outBits))]

EmitWord ==
    /\ IsTranscoding /\ Len(stream.pool) >= stream.outBits
    /\ stream' = [stream EXCEPT !.pool = Drop(stream.pool, stream.outBits),
                                !.out = Append(stream.out, SubSeq(stream.pool, 1, stream.outBits))]

(* Mutant: finished only when no bits are left.                            *)
FinishEmpty ==
    /\ IsTranscoding /\ stream.pool = << >> /\ stream.index = Len(stream.a)
    /\ stream' = [stream EXCEPT !.done = TRUE]

Finish ==
    /\ IsTranscoding /\ Len(stream.pool) < stream.outBits /\ stream.index = Len(stream.a)
    /\ stream' = [stream EXCEPT !.done = TRUE, !.pool = << >>,
                    !.out = IF stream.pool = << >> THEN stream.out
                            ELSE Append(stream.out, Padded(stream.pool, stream.outBits))]

(* Modulus::deserialize_vec, given what serialize_vec made. *)
DeserializeVec ==
    /\ stream # NoStream /\ stream.job = "transcode" /\ stream.done /\ stream.back # 0
    /\ stream' = Transcoding(stream.out, ByteBits, stream.back, 0)

-----------------------------------------------------------------------------
(* sample_vec_cbd: each sample counts the ones of 2 v bits and subtracts   *)
(* the ones of 2 v others.                                                 *)

StartSampling(v) ==
    /\ stream = NoStream /\ v \in 1 .. 16
    /\ stream' = [job |-> "sample", v |-> v, draws |-> 0, pool |-> << >>, out |-> << >>]

(* Mutant: a pool that still has some bits is not refilled.                *)
RefilledIfEmpty(s) ==
    IF s.pool = << >> THEN Pooled(s.pool, Element(s.draws + 1, WordBits)) ELSE s.pool

(* The pool after a word of random bits is drawn, if it is short. *)
Refilled(s) ==
    IF Len(s.pool) < 4 * s.v THEN Pooled(s.pool, Element(s.draws + 1, WordBits)) ELSE s.pool

Sample ==
    /\ stream # NoStream /\ stream.job = "sample" /\ Len(stream.out) < MaxSamples
    /\ LET pool == Refilled(stream)
           half == 2 * stream.v
       IN  stream' = [stream EXCEPT
               !.draws = IF pool = stream.pool THEN stream.draws ELSE stream.draws + 1,
               !.out = Append(stream.out, [plus |-> Padded(pool, half),
                                           minus |-> Padded(Drop(pool, half), half)]),
               !.pool = Drop(pool, 2 * half)]

StreamNext ==
    \/ \E n \in Widths, len \in Lengths :
        SerializeVec(n, len) \/ \E m \in Widths : Bidirectional(n, m, len)
    \/ TakeWord \/ EmitWord \/ Finish \/ DeserializeVec
    \/ \E v \in Variances : StartSampling(v)
    \/ Sample

StreamSpec == StreamInit /\ [][StreamNext]_stream

-----------------------------------------------------------------------------

Flat(s) == LET f[k \in 0 .. Len(s)] == IF k = 0 THEN << >> ELSE f[k - 1] \o s[k] IN f[Len(s)]

(* A finished transcoding holds the bits of its input in their order, in   *)
(* the number of words that was reserved for it, then zeros up to the last *)
(* word; bytes read back give the words that were written.                 *)
TranscodesExactly ==
    stream # NoStream /\ stream.job = "transcode" /\ stream.done =>
        LET bits == Flat(stream.a)
            out == Flat(stream.out)
        IN  /\ Len(stream.out) = CeilDiv(Len(bits), stream.outBits)
            /\ out = Padded(bits, Len(out))

(* Each sample takes 4 v random bits that no other sample took, and the    *)
(* pool never overflows.                                                   *)
SamplesIndependent ==
    stream # NoStream /\ stream.job = "sample" =>
        LET bits == Flat([k \in 1 .. Len(stream.out) |-> stream.out[k].plus \o stream.out[k].minus])
        IN  /\ Len(bits) = 4 * stream.v * Len(stream.out)
            /\ \A i \in DOMAIN bits : bits[i] # Zero
            /\ \A i, j \in DOMAIN bits : i # j => bits[i] # bits[j]
            /\ Len(stream.pool) <= Capacity

(* Every transcoding ends. *)
TranscodingEnds == IsTranscoding ~> ~IsTranscoding
=============================================================================
