----------------------------- MODULE MCSpscRing -----------------------------
(* The model-checking instance of SpscRing: see the cfg file.              *)
EXTENDS SpscRing
=============================================================================
