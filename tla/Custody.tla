------------------------------- MODULE Custody -------------------------------
(***************************************************************************)
(* What quarantine promises about the file at one path, whatever the rest  *)
(* of the machine does to that path meanwhile: the agent deletes only      *)
(* under an authorisation, an authorisation is given for the file that is  *)
(* at the path and only when its bytes are kept, and bytes are kept for    *)
(* good.  The deletion itself goes by path, so a file that arrives while   *)
(* an authorisation stands may be the one deleted: such files are late.    *)
(***************************************************************************)
CONSTANTS
  Files,        \* a file is an identity with content
  NoFile,       \* nothing at the path
  BytesOf(_)    \* the content of a file

VARIABLES
  file,         \* what is at the path
  kept,         \* contents in the quarantine store
  authorised,   \* files whose deletion is authorised at this moment
  late,         \* files that came to the path under a standing authorisation
  removed       \* files the agent deleted

custody == <<file, kept, authorised, late, removed>>

CustodyInit ==
  /\ file \in Files \union {NoFile}
  /\ kept = {}
  /\ authorised = {}
  /\ late = {}
  /\ removed = {}

\* Someone else writes, replaces or removes the file.
World ==
  /\ \E f \in Files \union {NoFile} :
       /\ file' = f
       /\ late' = IF authorised = {} THEN late ELSE late \union ({f} \ {NoFile})
  /\ UNCHANGED <<kept, authorised, removed>>

Keep ==
  /\ \E f \in Files : kept' = kept \union {BytesOf(f)}
  /\ UNCHANGED <<file, authorised, late, removed>>

Authorise ==
  /\ file \in Files
  /\ BytesOf(file) \in kept
  /\ authorised' = authorised \union {file}
  /\ UNCHANGED <<file, kept, late, removed>>

Withdraw ==
  /\ \E S \in SUBSET authorised : authorised' = S
  /\ UNCHANGED <<file, kept, late, removed>>

Delete ==
  /\ authorised # {}
  /\ file \in Files
  /\ file' = NoFile
  /\ removed' = removed \union {file}
  /\ \E S \in SUBSET authorised : authorised' = S
  /\ UNCHANGED <<kept, late>>

CustodyNext == World \/ Keep \/ Authorise \/ Withdraw \/ Delete

CustodySpec == CustodyInit /\ [][CustodyNext]_custody

\* Nothing is lost: what the agent deleted is kept, or came to the path after
\* the file there had been examined.
NothingLost == \A f \in removed : BytesOf(f) \in kept \/ f \in late
===============================================================================
