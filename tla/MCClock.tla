------------------------------- MODULE MCClock -------------------------------
(* Two harts, turns of up to three steps, with a debugger and without.        *)
EXTENDS Clock
=============================================================================
