------------------------------ MODULE MCScheme ------------------------------
(***************************************************************************)
(* Words of eleven bits with moduli of seven to nine; the numbers that     *)
(* multiply remain below 2^31.                                             *)
(***************************************************************************)
EXTENDS Scheme

MCSizeLists == {<< >>, << 9 >>, << 8, 8, 8 >>, << 6 >>}

(* One modulus and two; no primes, a prime without a transform; a modulus  *)
(* that is the plaintext modulus.                                          *)
MCModuliLists == {<< >>, << 449, 433 >>, << 17, 449 >>, << 97, 97 >>, << 95 >>}

(* Sets whose first modulus is shorter than plaintext moduli they are used *)
(* with, as for << 0xffffee001, 0xffffc4001, 0x1ffffe0001 >> and 40 bits.  *)
MCDefaultSets == {[degree |-> 8, moduli |-> << 97, 433 >>], [degree |-> 8, moduli |-> << 97 >>]}
=============================================================================
