---------------------------- MODULE MCSweepQueue ----------------------------
(***************************************************************************)
(* An activity, two timers, and a timer whose workflow is gone, with a     *)
(* fraction of two binary digits.                                          *)
(***************************************************************************)
EXTENDS SweepQueue

CONSTANTS act, timer, timer2, gone
=============================================================================
