--------------------------- MODULE BackupContract ---------------------------
(***************************************************************************)
(* What one backup run promises to the operator of pgdrive-backup, with    *)
(* nothing about pipes, goroutines or pg_dump.                             *)
(*                                                                         *)
(*   - at most one object is put into the Drive folder, and it never       *)
(*     changes afterwards;                                                 *)
(*   - success is reported only when that object is the whole archive;     *)
(*   - old backups are deleted only once the whole archive is stored, and  *)
(*     a run that deletes old backups goes on to succeed.                  *)
(*                                                                         *)
(* A failed run may leave an object behind, and that object may even be a  *)
(* partial archive: the contract is what the code does promise.            *)
(***************************************************************************)

VARIABLES
  outcome,   \* what the run has reported: "none" so far, "ok" or "err"
  vault,     \* what the run has put on Drive: "nothing", "partial", "whole"
  purged     \* has the run deleted an old backup?

cvars == <<outcome, vault, purged>>

CInit ==
  /\ outcome = "none"
  /\ vault = "nothing"
  /\ purged = FALSE

Store ==
  /\ outcome = "none"
  /\ vault = "nothing"
  /\ vault' \in {"partial", "whole"}
  /\ outcome' \in {"none", "err"}
  /\ UNCHANGED purged

Purge ==
  /\ outcome = "none"
  /\ vault = "whole"
  /\ purged' = TRUE
  /\ UNCHANGED <<outcome, vault>>

Succeed ==
  /\ outcome = "none"
  /\ vault = "whole"
  /\ outcome' = "ok"
  /\ UNCHANGED <<vault, purged>>

Fail ==
  /\ outcome = "none"
  /\ ~purged
  /\ outcome' = "err"
  /\ UNCHANGED <<vault, purged>>

CNext == Store \/ Purge \/ Succeed \/ Fail

CSpec == CInit /\ [][CNext]_cvars

=============================================================================
