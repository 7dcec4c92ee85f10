----------------------------- MODULE MCCaseCommit -----------------------------
(* Instance of CaseCommit for TLC: a window of two intervals and time beyond   *)
(* it, so that samples can be on time, late, or start after the deadline.      *)
EXTENDS CaseCommit
===============================================================================
