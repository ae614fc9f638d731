------------------------------ MODULE MCPapers ------------------------------
\* Papers with the vessels of three nominations.
EXTENDS Papers, TLC

CONSTANTS v1, v2, n1, n2, n3

MCVesselOf == (n1 :> v1) @@ (n2 :> v1) @@ (n3 :> v2)
=============================================================================
