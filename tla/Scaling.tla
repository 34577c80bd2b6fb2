------------------------------- MODULE Scaling ------------------------------
(***************************************************************************)
(* Calls of Scaler::scale: a number is projected into residues, scaled and *)
(* lifted again.                                                           *)
(***************************************************************************)
EXTENDS RnsNumbers

CONSTANTS
    Scalers,        \* offered to Scaler::new: records [from, to, num, den]
    NoScaling

VARIABLE scaling    \* the scaler and the call in progress

ScalingInit == scaling = NoScaling

MakeScaler(c) ==
    /\ scaling = NoScaling
    /\ RnsContextOk(c.from) /\ RnsContextOk(c.to)
    /\ scaling' = [s |-> NewScaler(c.from, c.to, c.num, c.den), x |-> 0,
                   rests |-> << >>, out |-> << >>]

ProjectNumber(x) ==
    /\ scaling # NoScaling /\ scaling.rests = << >>
    /\ scaling' = [scaling EXCEPT !.x = x, !.rests = Project(scaling.s.from, x)]

ScaleNumber ==
    /\ scaling # NoScaling /\ scaling.rests # << >> /\ scaling.out = << >>
    /\ scaling' = [scaling EXCEPT !.out = ScaleRests(scaling.s, scaling.rests)]

ScalingNext ==
    \/ \E c \in Scalers : MakeScaler(c)
    \/ scaling # NoScaling /\ \E x \in 0 .. ProductOf(scaling.s.from) - 1 : ProjectNumber(x)
    \/ ScaleNumber
-----------------------------------------------------------------------------

(* The largest sum of residues, against which thetas have ThetaBits bits.  *)
Slack(q) == SumOf(q, Len(q))

(* The number x or x - Q, as it is below or above Q/2; both when it is so  *)
(* close to Q/2 that the fixed-point sum cannot tell.                      *)
Representatives(s, x) ==
    LET q == ProductOf(s.from)
        far == (Slack(s.from) * q) \div Pow2[s.shift]
    IN  {r \in {x, x - q} : 2 * r <= q + far /\ 2 * r >= -q - far}

(* The residues lift to the projected number, and what is scaled is the    *)
(* fraction of its centred representative, to the nearest integer but for  *)
(* ties closer than the precision of the thetas (RnsScaler: "either        *)
(* rounded or floored" by fixed-point sums).                               *)
ScalesToNearest ==
    scaling # NoScaling /\ scaling.rests # << >> =>
        LET s == scaling.s
            to == ProductOf(s.to)
            Close(y) ==     \* the integers close to y / den
                {r \in (y \div s.den) .. (y \div s.den) + 1 :
                    Pow2[ThetaBits] * (2 * (IF r * s.den > y THEN r * s.den - y ELSE y - r * s.den) - s.den)
                        <= 4 * Slack(s.from) * s.den}
        IN  /\ Lift(s.from, scaling.rests) = scaling.x
            /\ scaling.out # << >> =>
                 \E r \in Representatives(s, scaling.x) : \E y \in Close(r * s.num) :
                     scaling.out = Project(s.to, y % to)
=============================================================================
