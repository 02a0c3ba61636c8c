--------------------------- MODULE MCCaptureHelper ---------------------------
(* Instances of CaptureHelper for TLC.  Captures and invokers are model      *)
(* values that no definition tells apart, so the safety runs may permute     *)
(* them; the liveness run does not.                                          *)
EXTENDS CaptureHelper, TLC

Symmetry == Permutations(Captures) \cup Permutations(Invokers)
=============================================================================
