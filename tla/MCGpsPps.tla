------------------------------ MODULE MCGpsPps ------------------------------
(* The filter with a second of 20 ticks and a day of five and a half. *)
EXTENDS GpsPps

MCOnTime == {19, 20, 21}
\* One pulse missed, and pulses of a receiver that found its satellites again.
MCGaps == MCOnTime \cup {40, 17, 9}
=============================================================================
