---------------------------- MODULE MCJournalOrder ----------------------------
(* Instance of JournalOrder for TLC: two processes, one operation from before   *)
(* there were numbers and four new ones, so that a number can be given again   *)
(* after its first owner died, and the last number is reached.                  *)
EXTENDS JournalOrder
===============================================================================
