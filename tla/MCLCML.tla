------------------------------- MODULE MCLCML -------------------------------
(* Small instances of LCML: one input and one output stream.               *)
EXTENDS LCML

CONSTANTS i1, i2, o1

MCStreamOf == (i1 :> 0) @@ (i2 :> 0) @@ (o1 :> 1)
MCOneEach == (i1 :> 0) @@ (o1 :> 1)
=============================================================================
