----------------------------- MODULE MCAudioOut -----------------------------
(* The audio port on small instances.  Buffers are interchangeable for the *)
(* invariants; the liveness property is checked without symmetry.          *)
EXTENDS AudioOut
=============================================================================
