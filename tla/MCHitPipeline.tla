------------------------------ MODULE MCHitPipeline ------------------------------
(* Instance of HitPipeline for causes and escapes: two processes that use one *)
(* pid and one image after each other, condemned by folder and by signer.     *)
EXTENDS HitPipeline, TLC
CONSTANTS p1, p2, n1, i1, s1
MCPid == p1 :> n1 @@ p2 :> n1
MCImage == p1 :> i1 @@ p2 :> i1
MCRules == [folder |-> {i1}, white |-> {}, sign |-> {s1}, signWhite |-> {}]
MCSigner == [i \in Images |-> s1]
=============================================================================
