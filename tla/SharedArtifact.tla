---------------------------- MODULE SharedArtifact ----------------------------
(***************************************************************************)
(* What sharing promises about quarantined artifacts: cases hold one and   *)
(* let it go, and a file is put back only while no case holds it; once its *)
(* record says restored nobody holds it again (ROADMAP.md 1.2,             *)
(* "关联 case 先释放引用，owner 在其他引用释放后才能恢复").                *)
(***************************************************************************)
CONSTANTS
  Things,         \* the artifacts
  Holders         \* cases that may hold one beside the owner

VARIABLES
  holding,        \* artifact |-> who holds it
  back,           \* artifacts whose file the agent's own restore put back
  closed          \* artifacts whose record says restored

sharing == <<holding, back, closed>>

SharedInit ==
  /\ holding = [a \in Things |-> {}]
  /\ back = {}
  /\ closed = {}

Hold(a, c) ==
  /\ a \notin closed
  /\ holding' = [holding EXCEPT ![a] = @ \union {c}]
  /\ UNCHANGED <<back, closed>>

LetGo(a, c) ==
  /\ holding' = [holding EXCEPT ![a] = @ \ {c}]
  /\ UNCHANGED <<back, closed>>

PutBack(a) ==
  /\ holding[a] = {} /\ a \notin back
  /\ back' = back \union {a}
  /\ UNCHANGED <<holding, closed>>

\* Someone takes the file away again.
Gone(a) ==
  /\ back' = back \ {a}
  /\ UNCHANGED <<holding, closed>>

Close(a) ==
  /\ holding[a] = {}
  /\ closed' = closed \union {a}
  /\ UNCHANGED <<holding, back>>

SharedNext ==
  \E a \in Things :
    \/ PutBack(a) \/ Gone(a) \/ Close(a)
    \/ \E c \in Holders : Hold(a, c) \/ LetGo(a, c)

SharedSpec == SharedInit /\ [][SharedNext]_sharing
===============================================================================
