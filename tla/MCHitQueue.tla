------------------------------ MODULE MCHitQueue ------------------------------
(* Instance of HitQueue for TLC: two workers as in main.go's run(), three hits *)
(* so that one is queued while both workers are busy.  Hits and workers are    *)
(* interchangeable, but liveness is checked, so no symmetry is used.           *)
EXTENDS HitQueue
===============================================================================
