------------------------ MODULE MCCaptureScheduler ------------------------
(* An instance of CaptureScheduler for TLC: three alerts for two places in   *)
(* the channel, intervals of one and two polls and one that is refused.      *)
EXTENDS CaptureScheduler

CONSTANTS r1, r2, r3

MCRequest   == {r1, r2, r3}
MCIntervals == {0, 1, 2}
============================================================================
