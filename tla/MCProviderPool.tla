--------------------------- MODULE MCProviderPool ---------------------------
(* A small instance of ProviderPool for TLC.  Of its three slots s1 and s3 can *)
(* be active together; what keeps s1 and s2 apart is the number of children    *)
(* of their workspace, what keeps s2 and s3 apart is their memory.             *)
EXTENDS ProviderPoolRefinement, TLC

CONSTANTS s1, s2, s3

TrioWorkspaceOf == s1 :> "w1" @@ s2 :> "w1" @@ s3 :> "w2"
TrioReservation == s1 :> 1 @@ s2 :> 2 @@ s3 :> 2
=============================================================================
