----------------------------- MODULE Arithmetic -----------------------------
(***************************************************************************)
(* The number-crunching routines side by side: residues, transforms,       *)
(* encodings, bit pools, scalers, polynomials, dot products and key        *)
(* switches.                                                               *)
(* Each is a value in the hands of one thread; nothing is shared, so a     *)
(* behaviour is that of one of them.                                       *)
(***************************************************************************)
EXTENDS Residues, Slots, Streams, Scaling, Polynomials, Accumulator, KeySwitching

vars == << entry, row, slots, stream, scaling, poly, dot, switching >>

Init == EntryInit /\ RowInit /\ SlotsInit /\ StreamInit /\ ScalingInit /\ PolyInit /\ DotInit
        /\ SwitchingInit

Held ==
    [entry |-> entry # NoEntry, row |-> row # NoRow, slots |-> slots # NoSlots,
     stream |-> stream # NoStream, scaling |-> scaling # NoScaling,
     poly |-> poly # NoPoly, dot |-> dot # NoDot, switching |-> switching # NoSwitch]

HeldOnly(v) == \A w \in DOMAIN Held \ {v} : ~Held[w]

Next ==
    \/ HeldOnly("entry") /\ EntryNext /\ UNCHANGED << row, slots, stream, scaling, poly, dot, switching >>
    \/ HeldOnly("row") /\ RowNext /\ UNCHANGED << entry, slots, stream, scaling, poly, dot, switching >>
    \/ HeldOnly("slots") /\ SlotsNext /\ UNCHANGED << entry, row, stream, scaling, poly, dot, switching >>
    \/ HeldOnly("stream") /\ StreamNext /\ UNCHANGED << entry, row, slots, scaling, poly, dot, switching >>
    \/ HeldOnly("scaling") /\ ScalingNext /\ UNCHANGED << entry, row, slots, stream, poly, dot, switching >>
    \/ HeldOnly("poly") /\ PolyNext /\ UNCHANGED << entry, row, slots, stream, scaling, dot, switching >>
    \/ HeldOnly("dot") /\ DotNext /\ UNCHANGED << entry, row, slots, stream, scaling, poly, switching >>
    \/ HeldOnly("switching") /\ SwitchingNext /\ UNCHANGED << entry, row, slots, stream, scaling, poly, dot >>

(* The loop of a transcoding waits for nothing.                            *)
Spec == Init /\ [][Next]_vars /\ WF_stream(TakeWord \/ EmitWord \/ Finish)
=============================================================================
