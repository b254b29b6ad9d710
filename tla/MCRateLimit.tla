---------------------------- MODULE MCRateLimit -----------------------------
(* A limiter for TLC: a second of four ticks, three bytes a second, so     *)
(* that waits are rounded, and clocks that are set by less and by more     *)
(* than a window.                                                          *)
EXTENDS RateLimit

MCClockSteps == {-3, 2}
=============================================================================
