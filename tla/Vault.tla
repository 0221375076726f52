-------------------------------- MODULE Vault --------------------------------
(***************************************************************************)
(* Backup runs on one Drive folder: the composition of BackupContract,     *)
(* which is what module Pipeline implements, with Retention.  cron starts  *)
(* cmd/backup and the web server has jobs of its own; each run uploads its *)
(* file, waits for pg_dump, and cleans up the folder, while the others do  *)
(* the same.  A run fails where RunWithLogger returns an error, or because *)
(* its process is killed, which the folder cannot tell apart; only in the  *)
(* middle of a clean-up nothing but a kill makes it end without success.   *)
(*                                                                         *)
(* A run has the name of the file that it uploads (dumper.GenerateFilename *)
(* puts the time into it).                                                 *)
(*                                                                         *)
(* A definition marked "Fault" is not part of the specification: put in    *)
(* the place of the definition that follows it, it breaks a property.      *)
(***************************************************************************)
EXTENDS Retention

CONSTANT Good   \* those of the first files that are whole archives

ASSUME VaultAssumption == Cleaners = Late /\ Good \subseteq Files \ Late

VARIABLES
  phase,   \* each run: "dump", "wait", "clean", "err" or "killed"
  whole    \* of the files: is it the archive of a whole dump?

vaultVars == <<phase, whole>>
allVars == <<vars, vaultVars>>

VInit ==
  /\ Init
  /\ phase = [r \in Cleaners |-> "dump"]
  /\ whole = [f \in Files |-> f \in Good]

Goto(r, p) == phase' = [phase EXCEPT ![r] = p]

-----------------------------------------------------------------------------

\* The last request of client.Upload creates the file; its answer may be
\* lost.  A pg_dump that will be found to have failed leaves a part.
Store(r) ==
  /\ phase[r] = "dump"
  /\ UploadFile(r)
  /\ \E w \in BOOLEAN : whole' = [whole EXCEPT ![r] = w]
  /\ Goto(r, "wait") \/ Goto(r, "err")

\* Fault: an error of the clean-up fails the run, like any other.
FailInCleanup(r) ==
  /\ phase[r] \in {"dump", "wait", "clean"}
  /\ Goto(r, "err")
  /\ UNCHANGED <<vars, whole>>

\* An error of any stage, or of pg_dump after the upload.
Fail(r) ==
  /\ phase[r] \in {"dump", "wait"}
  /\ Goto(r, "err")
  /\ UNCHANGED <<vars, whole>>

\* Fault: the exit status of pg_dump is not looked at.
BeginUnchecked(r) ==
  /\ phase[r] = "wait"
  /\ Start(r)
  /\ Goto(r, "clean")
  /\ UNCHANGED whole

\* pg_dump has succeeded, so the file is whole (PurgeNeedsWhole of module
\* Pipeline), and DeleteOlderThan is called, however long ago the upload was.
Begin(r) ==
  /\ phase[r] = "wait" /\ whole[r]
  /\ Start(r)
  /\ Goto(r, "clean")
  /\ UNCHANGED whole

\* The clean-up is the last thing a run does: it succeeds, as an error of
\* the clean-up is logged and no more.
Ended(r) == stage[r] \in {"done", "failed"}

Clean(r) ==
  /\ phase[r] = "clean"
  /\ \/ ListPage(r) \/ ListFails(r) \/ NextPage(r)
     \/ \E f \in Files : Skip(r, f) \/ Delete(r, f) \/ DeleteFails(r, f)
  /\ UNCHANGED vaultVars

Kill(r) ==
  /\ phase[r] = "clean" /\ stage[r] \in {"list", "delete"}
  /\ Goto(r, "killed")
  /\ UNCHANGED <<vars, whole>>

VNext ==
  \/ \E r \in Cleaners : Store(r) \/ Fail(r) \/ Begin(r) \/ Clean(r) \/ Kill(r)
  \/ Tick /\ UNCHANGED vaultVars

VSpec == VInit /\ [][VNext]_allVars

\* Drive answers or fails every request, unless the process is killed.
VFairSpec == VSpec /\ \A r \in Cleaners : WF_allVars(Clean(r))

-----------------------------------------------------------------------------

\* The clean-up of the run, if it has begun, spares the file of the run.  That
\* fails if waitDump took longer than the retention period, which at
\* RETENTION_DAYS=0 it always does, or if the period has wrapped around.
SparesOwn(r) == stage[r] # "idle" => cutoff[r] <= born[r]

\* Once this fails it fails for good.
OwnInv == \A r \in Cleaners : SparesOwn(r)

(* Whichever runs fail or are killed, at whatever step, and however their  *)
(* clean-ups overlap: deleting expired files never takes the last whole    *)
(* backup out of the folder, unless for one of the clean-ups that have     *)
(* begun the backup that its own run has just made counts as expired.      *)
Wholes == {f \in Files : whole[f]}
NeverTheLast ==
  [][OwnInv /\ folder \cap Wholes # {} => folder' \cap Wholes' # {}]_allVars

(* Every run keeps the contract that Pipeline implements, with the real    *)
(* clean-up and with others at work on the same folder.                    *)
Outcome(r) == IF phase[r] = "err" THEN "err" ELSE IF Ended(r) THEN "ok" ELSE "none"
Left(r) == IF r \in fresh THEN "nothing" ELSE IF whole[r] THEN "whole" ELSE "partial"
Run(r) == INSTANCE BackupContract WITH
            outcome <- Outcome(r), vault <- Left(r), purged <- removed[r] \cup kept[r] # {}
KeepContracts ==
  /\ \A r \in Cleaners : Run(r)!CInit
  /\ [][\A r \in Cleaners : [Run(r)!CNext]_(Run(r)!cvars)]_allVars

(* A run that has begun to clean up succeeds in the end, although requests *)
(* fail and files come while it lists.                                     *)
CleanupsEnd == \A r \in Cleaners : phase[r] = "clean" ~> Ended(r) \/ phase[r] = "killed"

=============================================================================
