---------------------------- MODULE PromisedCalls ----------------------------
(***************************************************************************)
(* What an evaluation key promises, without keys: a caller passes the      *)
(* plaintext of a ciphertext, and the answer decrypts to                   *)
(*   "rows"      the two rows of slots exchanged,                          *)
(*   "columns"   both rows rotated to the left by arg,                     *)
(*   "innerSum"  the sum of all slots, in every slot,                      *)
(*   "expands"   arg plaintexts of which the j-th has the coefficients     *)
(*               j, j + 2^L, j + 2 * 2^L, ... of the argument, moved down  *)
(*               by j and multiplied by 2^L, where L = ceil(log2(arg)).    *)
(***************************************************************************)
EXTENDS PlainRing, Sequences

CONSTANTS Idle, Pending

VARIABLE call

Request ==
    [op : {"rows", "columns", "innerSum"}, arg : Nat, input : Vector, answer : {Pending}]
    \cup [op : {"expands"}, arg : Nat, input : Poly, answer : {Pending}]

CeilLog2(n) == CHOOSE l \in 0 .. n : 2 ^ l >= n /\ \A m \in 0 .. l - 1 : 2 ^ m < n

RowsSwapped(v) == [s \in Slot |-> v[<< 1 - s[1], s[2] >>]]

ColumnsShifted(v, i) == [s \in Slot |-> v[<< s[1], (s[2] + i) % RowSize >>]]

SumEverywhere(v) == [s \in Slot |-> SumFunction(v) % T]

Every(p, step, j) ==
    [k \in Index |-> IF k % step = 0 THEN (step * p[k + j]) % T ELSE 0]

Promise(r) ==
    CASE r.op = "rows"     -> << RowsSwapped(r.input) >>
      [] r.op = "columns"  -> << ColumnsShifted(r.input, r.arg) >>
      [] r.op = "innerSum" -> << SumEverywhere(r.input) >>
      [] r.op = "expands"  ->
            [j \in 1 .. r.arg |-> Every(r.input, 2 ^ CeilLog2(r.arg), j - 1)]

Init == call = Idle

Ask == call = Idle /\ call' \in Request

Answer == call # Idle /\ call.answer = Pending /\ call' = [call EXCEPT !.answer = Promise(call)]

Return == call # Idle /\ call.answer # Pending /\ call' = Idle

Next == Ask \/ Answer \/ Return

Spec == Init /\ [][Next]_call
=============================================================================
