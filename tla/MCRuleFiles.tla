----------------------------- MODULE MCRuleFiles -----------------------------
(* Instance of RuleFiles for TLC: two rule files, so that one can be replaced  *)
(* before the other fails and the user can synchronise one of them.            *)
EXTENDS RuleFiles

\* Constraint: behaviours are explored until a job begins beside another or a file
\* changes while the UI notes the time stamps, neither of which is ever taken back.
Undisturbed == ~clashed /\ ~raced
==============================================================================
