-------------------------------- MODULE Axis --------------------------------
(***************************************************************************)
(* From the raw position of a stick to the value an application reads:     *)
(* Interface::CalculateAxis, and the calibration the Wii drivers learn     *)
(* from the positions they see.  One axis is modelled; the drivers keep    *)
(* one such state for each.                                                *)
(*                                                                         *)
(* A value is the pair <<n, d>> of integers for the quotient n/d the code  *)
(* computes in floating point; rounding is left out.                       *)
(***************************************************************************)
EXTENDS Integers

CONSTANTS
    Raws,       \* the raw positions of the axis
    Near,       \* half the dead zone around the first position
    Far         \* half the range assumed around the first position

\* 2 and 3 in process_axis (wiimote.cpp), 16^^80 and 16^^100 in WiiUPro.
ASSUME AxisAssumption ==
    /\ Raws \subseteq Int
    /\ Near \in Nat /\ Far \in Nat /\ Near < Far

VARIABLES
    initialized,    \* the first position was seen
    calibration,    \* the four bounds, as int32_t calibration[4]
    raw,            \* the last position
    value           \* the last value sent

vars == <<initialized, calibration, raw, value>>

Calibrations == [1..4 -> Int]

\* HIDPad.h: must satisfy 0 < 1 <= 2 < 3.
Ordered(c) == c[1] < c[2] /\ c[2] <= c[3] /\ c[3] < c[4]

\* Seeded fault: the lower half is measured from the wrong end.
CalculateAxis_Flipped(v, c) ==
    IF v < c[1] THEN <<-1, 1>>
    ELSE IF v > c[4] THEN <<1, 1>>
    ELSE IF v >= c[2] /\ v <= c[3] THEN <<0, 1>>
    ELSE IF v < c[2] THEN <<c[1] - v, c[2] - c[1]>>
    ELSE <<v - c[3], c[4] - c[3]>>

\* Below, 0 - (1 - (v - c0) / (c1 - c0)) is written as one quotient.
CalculateAxis(v, c) ==
    IF v < c[1] THEN <<-1, 1>>
    ELSE IF v > c[4] THEN <<1, 1>>
    ELSE IF v >= c[2] /\ v <= c[3] THEN <<0, 1>>
    ELSE IF v < c[2] THEN <<v - c[2], c[2] - c[1]>>
    ELSE <<v - c[3], c[4] - c[3]>>

\* Comparison of two values and their size.
Leq(x, y) == x[1] * y[2] <= y[1] * x[2]
Size(x)   == IF x[1] < 0 THEN <<-x[1], x[2]>> ELSE x

\* The fixed calibration of the Playstation 3 and DualShock 4 pads.
FixedCalibration == <<0, 100, 155, 255>>

Lower(a, b)  == IF a <= b THEN a ELSE b
Higher(a, b) == IF a >= b THEN a ELSE b

\* Seeded fault: the dead zone is as wide as the range.
FirstCalibration_NoRange(v) == <<v - Far, v - Far, v + Far, v + Far>>

FirstCalibration(v) == <<v - Far, v - Near, v + Near, v + Far>>

\* Seeded faults: a new extreme moves the range instead of widening it; only
\* the upper end is learned.
Widened_Moves(c, v)  == [c EXCEPT ![1] = v, ![4] = Higher(v, c[4])]
Widened_Upward(c, v) == [c EXCEPT ![4] = Higher(v, c[4])]

Widened(c, v) == [c EXCEPT ![1] = Lower(v, c[1]), ![4] = Higher(v, c[4])]

Init ==
    /\ initialized = FALSE
    /\ calibration = [k \in 1..4 |-> 0]
    /\ raw = 0
    /\ value = <<0, 1>>

\* process_axis, and the loop over the axes in WiiUPro::HandlePacket.
Report(v) ==
    /\ initialized' = TRUE
    /\ calibration' = Widened(IF initialized THEN calibration
                              ELSE FirstCalibration(v), v)
    /\ raw' = v
    /\ value' = CalculateAxis(v, calibration')

Next == \E v \in Raws : Report(v)

Spec == Init /\ [][Next]_vars

-----------------------------------------------------------------------------
\* The variables have their types, and the range learned so far holds the last
\* position, so that a reported position is never out of range.
TypeOK ==
    /\ initialized \in BOOLEAN
    /\ calibration \in Calibrations
    /\ raw \in Int
    /\ value \in Int \X Int
    /\ initialized => calibration[1] <= raw /\ raw <= calibration[4]

\* The three assertions at the head of CalculateAxis never fail, whatever
\* positions the calibration was learned from.
CalibrationIsOrdered == initialized => Ordered(calibration)

\* What a value must be for a position v under calibration c: a quotient with a
\* positive denominator between -1 and 1, with the sign of the side of the dead
\* zone the position is on, and zero inside it.
Faithful(x, v, c) ==
    /\ x[2] > 0
    /\ -x[2] <= x[1] /\ x[1] <= x[2]
    /\ x[1] < 0 <=> v < c[2]
    /\ x[1] > 0 <=> v > c[3]

\* The value sent is faithful to the position it was computed from, at every
\* calibration that can be learned; no division is by zero.
ValueIsFaithful == initialized => Faithful(value, raw, calibration)

\* Pushing the stick further never makes its value smaller.
AxisIsMonotone ==
    initialized =>
        \A v, w \in Raws : v <= w =>
            Leq(CalculateAxis(v, calibration), CalculateAxis(w, calibration))

\* As the calibration learns a wider range, no position ever comes to mean a
\* stronger push than it did before, and the centre stays where it was.
LearningOnlyWeakens ==
    [][initialized =>
          \A v \in Raws : Leq(Size(CalculateAxis(v, calibration')),
                              Size(CalculateAxis(v, calibration)))]_vars
=============================================================================
