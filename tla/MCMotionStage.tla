---------------------------- MODULE MCMotionStage -----------------------------
(* A stage of a few units.  As in the code, one tick is a tenth of the       *)
(* divisor (100 ms of 1000), and the largest feed rate is the largest        *)
(* unsigned value, whose ticks still do not wrap the distance.               *)
EXTENDS MotionStage

MCTargets == (0..MAX_X) \X (0..MAX_Y)
MCFeedrates == {0, 3, 17, UINT_MOD - 1}
MCDeltas == {0, 1}
===============================================================================
