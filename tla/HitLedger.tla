------------------------------ MODULE HitLedger ------------------------------
(***************************************************************************)
(* What the eradication queue promises to its callers, with no queue, no   *)
(* worker and no lock in it: a hit is accepted at most once, every         *)
(* accepted hit is handled exactly once, and the manager's Close returns   *)
(* only when nothing accepted is left unhandled and nothing is accepted    *)
(* afterwards (README.md "同 ID 重复提交在当前运行中去重", "命中不会因为   *)
(* 固定队列容量而丢弃"; ROADMAP.md 1.2).                                   *)
(***************************************************************************)
CONSTANT Hits   \* the IDs of hit events

VARIABLES
  accepted,     \* hits that Submit took
  handled,      \* hits whose handle() has returned
  closed        \* Close has returned

ledger == <<accepted, handled, closed>>

LedgerInit ==
  /\ accepted = {}
  /\ handled = {}
  /\ closed = FALSE

Accept(h) ==
  /\ ~closed
  /\ h \notin accepted
  /\ accepted' = accepted \union {h}
  /\ UNCHANGED <<handled, closed>>

Settle(h) ==
  /\ ~closed
  /\ h \in accepted \ handled
  /\ handled' = handled \union {h}
  /\ UNCHANGED <<accepted, closed>>

Shut ==
  /\ ~closed
  /\ handled = accepted
  /\ closed' = TRUE
  /\ UNCHANGED <<accepted, handled>>

LedgerNext ==
  \/ \E h \in Hits : Accept(h) \/ Settle(h)
  \/ Shut

LedgerSpec == LedgerInit /\ [][LedgerNext]_ledger
==============================================================================
