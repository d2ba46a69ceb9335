------------------------------- MODULE MCServo -------------------------------
(***************************************************************************)
(* ServoDriver with angles below, inside and above the accepted range.     *)
(***************************************************************************)
EXTENDS ServoDriver

SomeAngles == {-1, 0, 2, 3}
=============================================================================
