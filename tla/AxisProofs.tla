----------------------------- MODULE AxisProofs -----------------------------
(***************************************************************************)
(* The properties of Axis, for every range of raw positions and every      *)
(* margin: what AxisMC checks on sixteen positions holds for the sixteen   *)
(* bits of the WiiUPro sticks.                                             *)
(***************************************************************************)
EXTENDS Axis, TLAPS

-----------------------------------------------------------------------------
(* CalculateAxis by itself. *)

\* What CalculateAxis returns is a pair of integers.
LEMMA AxisType ==
    ASSUME NEW c \in Calibrations, NEW v \in Int
    PROVE  CalculateAxis(v, c) \in Int \X Int
<1>1. c[1] \in Int /\ c[2] \in Int /\ c[3] \in Int /\ c[4] \in Int
  BY DEF Calibrations
<1> QED BY <1>1 DEF CalculateAxis

\* Multiplication by a natural number is monotone, the one fact of nonlinear
\* arithmetic the comparisons below rest on.
LEMMA TimesMonotone ==
    ASSUME NEW a \in Int, NEW b \in Int, NEW d \in Nat, a <= b
    PROVE  a * d <= b * d
<1>1. (b - a) * d >= 0
  <2>1. b - a \in Nat
    OBVIOUS
  <2> QED BY <2>1, SMT
<1> QED BY <1>1, SMT

\* CalculateAxis is faithful to every position under every calibration that
\* satisfies its assertions: the value is between -1 and 1 and its sign is the
\* side of the dead zone the position is on.
THEOREM CalculateAxisIsFaithful ==
    ASSUME NEW c \in Calibrations, NEW v \in Int, Ordered(c)
    PROVE  Faithful(CalculateAxis(v, c), v, c)
<1>1. c[1] \in Int /\ c[2] \in Int /\ c[3] \in Int /\ c[4] \in Int
  BY DEF Calibrations
<1>2. CASE v < c[1]
  BY <1>1, <1>2 DEF CalculateAxis, Faithful, Ordered
<1>3. CASE c[1] <= v /\ v < c[2]
  BY <1>1, <1>3 DEF CalculateAxis, Faithful, Ordered
<1>4. CASE c[2] <= v /\ v <= c[3]
  BY <1>1, <1>4 DEF CalculateAxis, Faithful, Ordered
<1>5. CASE c[3] < v /\ v <= c[4]
  BY <1>1, <1>5 DEF CalculateAxis, Faithful, Ordered
<1>6. CASE c[4] < v
  BY <1>1, <1>6 DEF CalculateAxis, Faithful, Ordered
<1> QED BY <1>1, <1>2, <1>3, <1>4, <1>5, <1>6

\* The Playstation 3 and DualShock 4 pads: their constant calibration satisfies
\* the assertions, and every byte they report is inside its range.
THEOREM FixedCalibrationIsFaithful ==
    \A v \in 0..255 :
        /\ Faithful(CalculateAxis(v, FixedCalibration), v, FixedCalibration)
        /\ FixedCalibration[1] <= v /\ v <= FixedCalibration[4]
<1> TAKE v \in 0..255
<1>1. Ordered(FixedCalibration) /\ FixedCalibration \in Calibrations
  BY DEF Ordered, FixedCalibration, Calibrations
<1>2. Faithful(CalculateAxis(v, FixedCalibration), v, FixedCalibration)
  BY <1>1, CalculateAxisIsFaithful
<1>3. FixedCalibration[1] <= v /\ v <= FixedCalibration[4]
  BY DEF FixedCalibration
<1> QED BY <1>2, <1>3

\* A stick pushed further never reads as pushed less: CalculateAxis is monotone
\* in the position, across the dead zone and at both ends of the range.
THEOREM CalculateAxisIsMonotone ==
    ASSUME NEW c \in Calibrations, Ordered(c),
           NEW v \in Int, NEW w \in Int, v <= w
    PROVE  Leq(CalculateAxis(v, c), CalculateAxis(w, c))
<1>1. c[1] \in Int /\ c[2] \in Int /\ c[3] \in Int /\ c[4] \in Int
  BY DEF Calibrations
<1> DEFINE x == CalculateAxis(v, c)
           y == CalculateAxis(w, c)
<1> SUFFICES Leq(x, y)
  OBVIOUS
<1>2. /\ x \in Int \X Int /\ y \in Int \X Int
      /\ Faithful(x, v, c) /\ Faithful(y, w, c)
  BY AxisType, CalculateAxisIsFaithful
<1>3. CASE v < c[1]
  <2>1. x = <<-1, 1>>
    BY <1>1, <1>3 DEF CalculateAxis
  <2> HIDE DEF x, y
  <2>2. -y[2] <= y[1] /\ y[1] \in Int /\ y[2] \in Int
    BY <1>2 DEF Faithful
  <2>3. x[1] * y[2] = -y[2] /\ y[1] * x[2] = y[1]
    BY <2>1, <2>2
  <2> QED BY <2>2, <2>3 DEF Leq
<1>4. CASE w > c[4]
  <2>1. y = <<1, 1>>
    BY <1>1, <1>4 DEF CalculateAxis, Ordered
  <2> HIDE DEF x, y
  <2>2. x[1] <= x[2] /\ x[1] \in Int /\ x[2] \in Int
    BY <1>2 DEF Faithful
  <2>3. x[1] * y[2] = x[1] /\ y[1] * x[2] = x[2]
    BY <2>1, <2>2
  <2> QED BY <2>2, <2>3 DEF Leq
<1>5. CASE c[1] <= v /\ w < c[2]
  <2>1. x = <<v - c[2], c[2] - c[1]>> /\ y = <<w - c[2], c[2] - c[1]>>
    BY <1>1, <1>5 DEF CalculateAxis, Ordered
  <2>2. (v - c[2]) * (c[2] - c[1]) <= (w - c[2]) * (c[2] - c[1])
    BY <1>1, TimesMonotone DEF Ordered
  <2> QED BY <2>1, <2>2 DEF Leq
<1>6. CASE c[3] < v /\ w <= c[4]
  <2>1. x = <<v - c[3], c[4] - c[3]>> /\ y = <<w - c[3], c[4] - c[3]>>
    BY <1>1, <1>6 DEF CalculateAxis, Ordered
  <2>2. (v - c[3]) * (c[4] - c[3]) <= (w - c[3]) * (c[4] - c[3])
    BY <1>1, TimesMonotone DEF Ordered
  <2> QED BY <2>1, <2>2 DEF Leq
<1>7. CASE v <= c[3] /\ c[2] <= w
  <2>1. x[1] <= 0 /\ 0 <= y[1]
    <3> HIDE DEF x, y
    <3> QED BY <1>1, <1>2, <1>7 DEF Faithful
  <2>2. x[1] * y[2] <= 0 * y[2] /\ 0 * x[2] <= y[1] * x[2]
    <3> HIDE DEF x, y
    <3> QED BY <1>2, <2>1, TimesMonotone DEF Faithful
  <2> HIDE DEF x, y
  <2>3. x[1] \in Int /\ x[2] \in Int /\ y[1] \in Int /\ y[2] \in Int
    BY <1>2
  <2> QED BY <2>2, <2>3 DEF Leq
<1> QED BY <1>1, <1>3, <1>4, <1>5, <1>6, <1>7 DEF Ordered

\* A wider range around the same dead zone never makes a position read as a
\* stronger push.
LEMMA WiderIsWeaker ==
    ASSUME NEW c \in Calibrations, NEW d \in Calibrations, Ordered(c),
           d[1] <= c[1], d[2] = c[2], d[3] = c[3], c[4] <= d[4],
           NEW v \in Int
    PROVE  Leq(Size(CalculateAxis(v, d)), Size(CalculateAxis(v, c)))
<1>1. /\ c[1] \in Int /\ c[2] \in Int /\ c[3] \in Int /\ c[4] \in Int
      /\ d[1] \in Int /\ d[4] \in Int
  BY DEF Calibrations
<1> DEFINE x == CalculateAxis(v, d)
           y == CalculateAxis(v, c)
<1> SUFFICES Leq(Size(x), Size(y))
  OBVIOUS
<1>2. CASE v < d[1]
  <2>1. x = <<-1, 1>> /\ y = <<-1, 1>>
    BY <1>1, <1>2 DEF CalculateAxis
  <2> QED BY <2>1 DEF Leq, Size
<1>3. CASE d[1] <= v /\ v < c[1]
  <2>1. x = <<v - c[2], c[2] - d[1]>> /\ y = <<-1, 1>>
    BY <1>1, <1>3 DEF CalculateAxis, Ordered
  <2>2. Size(x) = <<-(v - c[2]), c[2] - d[1]>> /\ Size(y) = <<1, 1>>
    BY <1>1, <1>3, <2>1 DEF Size, Ordered
  <2> QED BY <1>1, <1>3, <2>2 DEF Leq
<1>4. CASE c[1] <= v /\ v < c[2]
  <2>1. x = <<v - c[2], c[2] - d[1]>> /\ y = <<v - c[2], c[2] - c[1]>>
    BY <1>1, <1>4 DEF CalculateAxis, Ordered
  <2>2. /\ Size(x) = <<-(v - c[2]), c[2] - d[1]>>
        /\ Size(y) = <<-(v - c[2]), c[2] - c[1]>>
    BY <1>1, <1>4, <2>1 DEF Size
  <2>3. (c[2] - c[1]) * (-(v - c[2])) <= (c[2] - d[1]) * (-(v - c[2]))
    BY <1>1, <1>4, TimesMonotone
  <2> QED BY <1>1, <2>2, <2>3 DEF Leq
<1>5. CASE c[2] <= v /\ v <= c[3]
  <2>1. x = <<0, 1>> /\ y = <<0, 1>>
    BY <1>1, <1>5 DEF CalculateAxis, Ordered
  <2> QED BY <2>1 DEF Leq, Size
<1>6. CASE c[3] < v /\ v <= c[4]
  <2>1. x = <<v - c[3], d[4] - c[3]>> /\ y = <<v - c[3], c[4] - c[3]>>
    BY <1>1, <1>6 DEF CalculateAxis, Ordered
  <2>2. Size(x) = x /\ Size(y) = y
    BY <1>1, <1>6, <2>1 DEF Size
  <2>3. (c[4] - c[3]) * (v - c[3]) <= (d[4] - c[3]) * (v - c[3])
    BY <1>1, <1>6, TimesMonotone
  <2> QED BY <1>1, <2>1, <2>2, <2>3 DEF Leq
<1>7. CASE c[4] < v /\ v <= d[4]
  <2>1. x = <<v - c[3], d[4] - c[3]>> /\ y = <<1, 1>>
    BY <1>1, <1>7 DEF CalculateAxis, Ordered
  <2>2. Size(x) = x /\ Size(y) = y
    BY <1>1, <1>7, <2>1 DEF Size, Ordered
  <2> QED BY <1>1, <1>7, <2>1, <2>2 DEF Leq
<1>8. CASE d[4] < v
  <2>1. x = <<1, 1>> /\ y = <<1, 1>>
    BY <1>1, <1>8 DEF CalculateAxis, Ordered
  <2> QED BY <2>1 DEF Leq, Size
<1> QED BY <1>1, <1>2, <1>3, <1>4, <1>5, <1>6, <1>7, <1>8

-----------------------------------------------------------------------------
(* The calibration the drivers learn. *)

\* Everything the invariants need: the types, and the order of the bounds.
AxisInv == TypeOK /\ CalibrationIsOrdered /\ ValueIsFaithful

\* A report leaves an ordered calibration whose range holds the position.
LEMMA ReportCalibration ==
    ASSUME AxisInv, NEW v \in Raws, Report(v)
    PROVE  /\ calibration' \in Calibrations
           /\ Ordered(calibration')
           /\ calibration'[1] <= v /\ v <= calibration'[4]
<1>1. v \in Int /\ Near \in Nat /\ Far \in Nat /\ Near < Far
  BY AxisAssumption
<1> DEFINE c == IF initialized THEN calibration ELSE FirstCalibration(v)
<1>2. c \in Calibrations /\ Ordered(c)
  <2>1. CASE initialized
    BY <2>1 DEF AxisInv, TypeOK, CalibrationIsOrdered
  <2>2. CASE ~initialized
    <3>1. c = <<v - Far, v - Near, v + Near, v + Far>>
      BY <2>2 DEF FirstCalibration
    <3> QED BY <1>1, <3>1 DEF Calibrations, Ordered
  <2> QED BY <2>1, <2>2
<1>3. calibration' = Widened(c, v)
  BY DEF Report
<1> HIDE DEF c
<1>4. /\ calibration' \in Calibrations
      /\ calibration'[1] = Lower(v, c[1]) /\ calibration'[2] = c[2]
      /\ calibration'[3] = c[3] /\ calibration'[4] = Higher(v, c[4])
  BY <1>1, <1>2, <1>3 DEF Widened, Calibrations, Lower, Higher
<1>5. c[1] \in Int /\ c[2] \in Int /\ c[3] \in Int /\ c[4] \in Int
  BY <1>2 DEF Calibrations
<1> QED BY <1>1, <1>2, <1>4, <1>5 DEF Ordered, Lower, Higher

\* The assertions of CalculateAxis hold and the value sent is faithful, after
\* every sequence of positions.
THEOREM AxisIsSound ==
    Spec => [](TypeOK /\ CalibrationIsOrdered /\ ValueIsFaithful)
<1>1. Init => AxisInv
  <2> SUFFICES ASSUME Init PROVE AxisInv
    OBVIOUS
  <2>1. initialized = FALSE /\ raw \in Int /\ value \in Int \X Int
    BY DEF Init
  <2>2. calibration \in Calibrations
    BY DEF Init, Calibrations
  <2> QED BY <2>1, <2>2
          DEF AxisInv, TypeOK, CalibrationIsOrdered, ValueIsFaithful
<1>2. AxisInv /\ [Next]_vars => AxisInv'
  <2> SUFFICES ASSUME AxisInv, [Next]_vars PROVE AxisInv'
    OBVIOUS
  <2>1. CASE Next
    <3>1. PICK v \in Raws : Report(v)
      BY <2>1 DEF Next
    <3>2. /\ calibration' \in Calibrations /\ Ordered(calibration')
          /\ calibration'[1] <= v /\ v <= calibration'[4]
      BY <3>1, ReportCalibration
    <3>3. /\ v \in Int /\ initialized' = TRUE /\ raw' = v
          /\ value' = CalculateAxis(v, calibration')
      BY <3>1, AxisAssumption DEF Report
    <3>4. value' \in Int \X Int /\ Faithful(value', v, calibration')
      BY <3>2, <3>3, AxisType, CalculateAxisIsFaithful
    <3> QED BY <3>2, <3>3, <3>4
            DEF AxisInv, TypeOK, CalibrationIsOrdered, ValueIsFaithful
  <2>2. CASE UNCHANGED vars
    BY <2>2 DEF vars, AxisInv, TypeOK, CalibrationIsOrdered, ValueIsFaithful,
                Ordered, Faithful
  <2> QED BY <2>1, <2>2
<1> QED BY <1>1, <1>2, PTL DEF Spec, AxisInv

\* The types alone, and that a reported position is in the range learned so far.
THEOREM AxisTypeCorrect == Spec => []TypeOK
BY AxisIsSound, PTL

\* The assertions at the head of CalculateAxis never fail, whatever positions the
\* calibration of a Wii pad was learned from.
THEOREM AssertionsHold == Spec => []CalibrationIsOrdered
BY AxisIsSound, PTL

\* At every calibration that can be learned, the value grows with the position.
THEOREM AxisGrows == Spec => []AxisIsMonotone
<1>1. TypeOK /\ CalibrationIsOrdered => AxisIsMonotone
  BY CalculateAxisIsMonotone, AxisAssumption
     DEF TypeOK, CalibrationIsOrdered, AxisIsMonotone
<1> QED BY <1>1, AxisIsSound, PTL

\* No step makes any position read as a stronger push than it read before.
THEOREM LearningWeakens == Spec => LearningOnlyWeakens
<1>1. ASSUME TypeOK, CalibrationIsOrdered, ValueIsFaithful, [Next]_vars
      PROVE  [initialized =>
                 \A v \in Raws : Leq(Size(CalculateAxis(v, calibration')),
                                     Size(CalculateAxis(v, calibration)))]_vars
  <2> SUFFICES ASSUME Next, initialized, NEW v \in Raws
               PROVE  Leq(Size(CalculateAxis(v, calibration')),
                          Size(CalculateAxis(v, calibration)))
    BY <1>1
  <2>1. PICK w \in Raws : Report(w)
    BY DEF Next
  <2>2. calibration' = Widened(calibration, w)
    BY <2>1 DEF Report
  <2>3. /\ calibration \in Calibrations /\ Ordered(calibration)
        /\ calibration' \in Calibrations /\ v \in Int /\ w \in Int
    BY <1>1, <2>1, ReportCalibration, AxisAssumption
       DEF AxisInv, TypeOK, CalibrationIsOrdered
  <2>4. /\ calibration'[1] <= calibration[1] /\ calibration'[2] = calibration[2]
        /\ calibration'[3] = calibration[3] /\ calibration[4] <= calibration'[4]
    BY <2>2, <2>3 DEF Widened, Calibrations, Lower, Higher
  <2> QED BY <2>3, <2>4, WiderIsWeaker
<1> QED BY <1>1, AxisIsSound, PTL DEF Spec, LearningOnlyWeakens

=============================================================================
