------------------------------ MODULE MCEngine ------------------------------
(* Publishers are interchangeable: no definition names one of them.          *)
EXTENDS EngineRefinement, TLC

PublisherSymmetry == Permutations(Publishers)
=============================================================================
