------------------------------- MODULE AxisMC -------------------------------
(***************************************************************************)
(* A four-bit axis with the margins of process_axis: more than twice the   *)
(* first range, so that a calibration can be learned on either side.       *)
(***************************************************************************)
EXTENDS Axis

MCRaws == 0..15
=============================================================================
