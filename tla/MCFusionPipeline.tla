------------------------- MODULE MCFusionPipeline -------------------------
(***************************************************************************)
(* Instances of FusionPipeline for TLC: a1 and a2 repeat each other, a3    *)
(* belongs to the same incident; a4 is not JSON, a5 does not validate.     *)
(***************************************************************************)
EXTENDS FusionPipeline

CONSTANTS a1, a2, a3, a4, a5

FingerprintOf == [a \in Alerts |->
    CASE a = a1 -> 1 [] a = a2 -> 1 [] a = a3 -> 2 [] OTHER -> 3]

KeyOf == [a \in Alerts |-> 1]

=============================================================================
