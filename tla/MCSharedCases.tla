---------------------------- MODULE MCSharedCases ----------------------------
(* Instance of SharedCases for TLC: an owner with two artifacts, so that one   *)
(* operation can succeed and the next fail, and two cases linked to them.      *)
EXTENDS SharedCases

ExeAndDll == <<"exe", "dll">>
==============================================================================
