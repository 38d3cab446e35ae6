---------------------------- MODULE MCWheelTimer ----------------------------
(* A wheel of two slots with a recurrent and a one-shot timer. *)
EXTENDS WheelTimer
=============================================================================
