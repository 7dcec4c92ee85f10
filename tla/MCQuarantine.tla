----------------------------- MODULE MCQuarantine -----------------------------
(* Instance of Quarantine for TLC: two hits on the path, two contents, three   *)
(* file identities, so that a file can be replaced twice, and a few            *)
(* disturbances, spent in any mix and at any moment.                           *)
EXTENDS Quarantine
===============================================================================
