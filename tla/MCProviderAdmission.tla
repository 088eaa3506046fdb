------------------------- MODULE MCProviderAdmission -------------------------
(* A small instance of ProviderAdmission for TLC. The callers are not declared *)
(* symmetric: the run also checks a liveness property, for which symmetry      *)
(* reduction is unsound.                                                       *)
EXTENDS ProviderAdmission
=============================================================================
