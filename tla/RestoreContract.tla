--------------------------- MODULE RestoreContract ---------------------------
(***************************************************************************)
(* What whoever gets a backup back relies on, whichever way it is taken:   *)
(* the files on disk are touched only while the source is open, and what   *)
(* a command says at its end is said once, is "ok" only if the files then  *)
(* hold what was asked for, and after that they are left alone, unless the *)
(* user is told in time that they could not be closed.                     *)
(***************************************************************************)
VARIABLES
  told,    \* what the user is told: "none" yet, "ok", "err", or "ok" and then "doubt"
  source,  \* the encrypted bytes: "absent", "open", "closed"
  disk,    \* the files
  good     \* do they hold what was asked for?

CInit == told = "none" /\ source = "absent" /\ good \in BOOLEAN

\* The next command is given.
Ask ==
  /\ told' = "none" /\ source' = "absent"
  /\ good' \in BOOLEAN
  /\ UNCHANGED disk

Open ==
  /\ told = "none" /\ source = "absent"
  /\ source' = "open"
  /\ good' \in BOOLEAN
  /\ UNCHANGED <<told, disk>>

\* Also after an error, by the goroutine that still decrypts.
Write ==
  /\ source = "open" /\ told # "ok"
  /\ good' \in BOOLEAN
  /\ UNCHANGED <<told, source>>

Tell ==
  /\ told = "none"
  /\ \/ told' = "ok" /\ source = "open" /\ good
     \/ told' = "err"
  /\ UNCHANGED <<source, disk, good>>

\* A file that was told to be good could not be closed.
Revoke ==
  /\ source = "open" /\ told = "ok"
  /\ told' = "doubt"
  /\ good' \in BOOLEAN
  /\ UNCHANGED source

Close ==
  /\ source = "open" /\ told # "none"
  /\ source' = "closed"
  /\ UNCHANGED <<told, disk, good>>

CNext == Ask \/ Open \/ Write \/ Tell \/ Revoke \/ Close

CSpec == CInit /\ [][CNext]_<<told, source, disk, good>>

=============================================================================
