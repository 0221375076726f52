------------------------------ MODULE Pipeline ------------------------------
(***************************************************************************)
(* One run of the streaming backup pipeline of internal/pipeline:          *)
(*                                                                         *)
(*   pg_dump -> OS pipe -> gzip goroutine -> io.Pipe -> AES goroutine      *)
(*           -> io.Pipe -> Drive upload (the goroutine of RunWithLogger)   *)
(*                                                                         *)
(* followed by the wait for pg_dump and the retention clean-up.  The four  *)
(* processes run concurrently and block on each other through the pipes.   *)
(*                                                                         *)
(* Data: the dump is the sequence of pieces 1, 2, ..., Whole.  gzip keeps  *)
(* pieces back as long as it likes and ends its output with a trailer;     *)
(* encryption puts an IV first and passes every piece on.  A stored object *)
(* restores to the whole database exactly when it equals Archive(Whole).   *)
(*                                                                         *)
(* An io.Pipe is unbuffered: Write hands its bytes over and returns only   *)
(* when the reader has taken them.  A goroutine blocked in Write is one    *)
(* whose slot is full, so each of its actions asks for an empty slot.      *)
(*                                                                         *)
(* A definition marked "Fault" is not part of the specification: put in    *)
(* the place of the definition that follows it, it breaks a property.      *)
(***************************************************************************)
EXTENDS ArchiveFormat

CONSTANTS
  Whole,      \* number of pieces in a complete dump
  StdoutCap   \* pieces the OS pipe behind pg_dump's stdout can hold

ASSUME PipelineAssumption ==
  /\ Whole \in Nat \ {0}
  /\ StdoutCap \in Nat \ {0}

VARIABLES
  run,        \* where RunWithLogger stands
  result,     \* the error it will return: "none" yet, "ok" or "err"
  ctx,        \* the context passed in: "live" or "cancelled"
  token,      \* is there an OAuth token file?
  dump,       \* pg_dump: "absent", "running", "closing", "ok", "failed"
  made,       \* number of pieces pg_dump has written
  stdout,     \* pieces in the OS pipe
  stdoutR,    \* read end of that pipe: "open" or "closed"
  gz,         \* gzip goroutine: "off", "copy", "close", "salvage", "done"
  gzBuf,      \* what the gzip writer holds back
  gzSlot,     \* bytes in the hand-over of the gzip pipe
  gzW, gzR,   \* its write end ("open", "eof", "err") and read end
  enc,        \* encrypting goroutine: "off", "iv", "loop", "done"
  encSlot,    \* bytes in the hand-over of the encrypted pipe
  encW, encR, \* its two ends
  media,      \* what the upload has read
  stored,     \* the object this run left on Drive; empty: none
  purged      \* did the clean-up delete an old backup?

mainVars == <<run, result, token>>
dumpVars == <<dump, made, stdout, stdoutR>>
gzVars   == <<gz, gzBuf, gzSlot, gzW, gzR>>
encVars  == <<enc, encSlot, encW, encR>>
driveVars == <<media, stored, purged>>
vars == <<run, result, ctx, token, dump, made, stdout, stdoutR, gz, gzBuf,
          gzSlot, gzW, gzR, enc, encSlot, encW, encR, media, stored, purged>>

Token == -1..Whole

Init ==
  /\ run = "start" /\ result = "none" /\ ctx = "live" /\ token \in BOOLEAN
  /\ dump = "absent" /\ made = 0 /\ stdout = <<>> /\ stdoutR = "open"
  /\ gz = "off" /\ gzBuf = <<>> /\ gzSlot = <<>> /\ gzW = "open" /\ gzR = "open"
  /\ enc = "off" /\ encSlot = <<>> /\ encW = "open" /\ encR = "open"
  /\ media = <<>> /\ stored = <<>> /\ purged = FALSE

-----------------------------------------------------------------------------
(* pg_dump, an external process, and the OS pipe it writes to.             *)

\* Fault: the output is collected in memory (cmd.Stdout = &buf).
DumpWritesToMemory ==
  /\ dump = "running" /\ made < Whole /\ stdoutR = "open"
  /\ made' = made + 1
  /\ stdout' = Append(stdout, made + 1)
  /\ UNCHANGED <<mainVars, ctx, dump, stdoutR, gzVars, encVars, driveVars>>

DumpWrites ==
  /\ dump = "running" /\ made < Whole
  /\ stdoutR = "open" /\ Len(stdout) < StdoutCap
  /\ made' = made + 1
  /\ stdout' = Append(stdout, made + 1)
  /\ UNCHANGED <<mainVars, ctx, dump, stdoutR, gzVars, encVars, driveVars>>

\* It ends its output before it has ended itself ...
DumpCloses ==
  /\ dump = "running"
  /\ dump' = "closing"
  /\ UNCHANGED <<mainVars, ctx, made, stdout, stdoutR, gzVars, encVars, driveVars>>

\* ... or by exiting.  It may fail at any point, also after its last byte.
DumpExits ==
  /\ dump \in {"running", "closing"}
  /\ \/ made = Whole /\ dump' = "ok"
     \/ dump' = "failed"
  /\ UNCHANGED <<mainVars, ctx, made, stdout, stdoutR, gzVars, encVars, driveVars>>

-----------------------------------------------------------------------------
(* The goroutine of NewGzipReader.                                         *)

GzRead ==
  /\ gz = "copy" /\ gzSlot = <<>>
  /\ stdout # <<>> /\ stdoutR = "open"
  /\ gzBuf' = Append(gzBuf, Head(stdout))
  /\ stdout' = Tail(stdout)
  /\ UNCHANGED <<mainVars, ctx, dump, made, stdoutR, gz, gzSlot, gzW, gzR, encVars, driveVars>>

\* The gzip writer decides when it has a block for its pipe.
GzWrite ==
  /\ gz \in {"copy", "close", "salvage"} /\ gzR = "open" /\ gzSlot = <<>>
  /\ gzBuf # <<>>
  /\ gzSlot' = Append(gzSlot, Head(gzBuf))
  /\ gzBuf' = Tail(gzBuf)
  /\ UNCHANGED <<mainVars, ctx, dumpVars, gz, gzW, gzR, encVars, driveVars>>

\* The write end of the OS pipe is closed, by pg_dump or by its exit.
OutputEnded == dump \in {"closing", "ok", "failed"}

\* Fault: gw.Close() is left out, and what it would flush is lost.
GzReadEOFUnflushed ==
  /\ gz = "copy" /\ gzSlot = <<>>
  /\ stdout = <<>> /\ OutputEnded /\ stdoutR = "open"
  /\ gz' = "close"
  /\ gzBuf' = <<>>
  /\ UNCHANGED <<mainVars, ctx, dumpVars, gzSlot, gzW, gzR, encVars, driveVars>>

\* io.Copy sees the end of pg_dump's output: gw.Close() flushes everything.
GzReadEOF ==
  /\ gz = "copy" /\ gzSlot = <<>>
  /\ stdout = <<>> /\ OutputEnded /\ stdoutR = "open"
  /\ gz' = "close"
  /\ gzBuf' = Append(gzBuf, Trailer)
  /\ UNCHANGED <<mainVars, ctx, dumpVars, gzSlot, gzW, gzR, encVars, driveVars>>

\* A failed read also closes the gzip writer, whose output is still sent on.
GzReadError ==
  /\ gz = "copy" /\ gzSlot = <<>>
  /\ gz' = "salvage"
  /\ gzBuf' = Append(gzBuf, Trailer)
  /\ UNCHANGED <<mainVars, ctx, dumpVars, gzSlot, gzW, gzR, encVars, driveVars>>

GzCloses ==
  /\ gz \in {"close", "salvage"} /\ gzSlot = <<>> /\ gzBuf = <<>>
  /\ gz' = "done"
  /\ gzW' = IF gz = "close" THEN "eof" ELSE "err"
  /\ UNCHANGED <<mainVars, ctx, dumpVars, gzBuf, gzSlot, gzR, encVars, driveVars>>

\* A Write to a pipe whose reader has gone returns io.ErrClosedPipe.
GzBroken ==
  /\ gz \in {"copy", "close", "salvage"} /\ gzR = "closed"
  /\ gzSlot # <<>> \/ gzBuf # <<>>
  /\ gz' = "done"
  /\ gzW' = "err"
  /\ UNCHANGED <<mainVars, ctx, dumpVars, gzBuf, gzSlot, gzR, encVars, driveVars>>

-----------------------------------------------------------------------------
(* The goroutine of NewEncryptingReader.                                   *)

EncWriteIV ==
  /\ enc = "iv" /\ encSlot = <<>> /\ encR = "open"
  /\ enc' = "loop"
  /\ encSlot' = Append(encSlot, IV)
  /\ UNCHANGED <<mainVars, ctx, dumpVars, gzVars, encW, encR, driveVars>>

EncCopy ==
  /\ enc = "loop" /\ encSlot = <<>> /\ encR = "open"
  /\ gzR = "open" /\ gzSlot # <<>>
  /\ encSlot' = Append(encSlot, Head(gzSlot))
  /\ gzSlot' = Tail(gzSlot)
  /\ UNCHANGED <<mainVars, ctx, dumpVars, gz, gzBuf, gzW, gzR, enc, encW, encR, driveVars>>

\* Fault: the goroutine ends without pw.Close().
EncReadEOFUnclosed ==
  /\ enc = "loop" /\ encSlot = <<>>
  /\ gzR = "open" /\ gzSlot = <<>> /\ gzW = "eof"
  /\ enc' = "done"
  /\ UNCHANGED <<mainVars, ctx, dumpVars, gzVars, encSlot, encW, encR, driveVars>>

EncReadEOF ==
  /\ enc = "loop" /\ encSlot = <<>>
  /\ gzR = "open" /\ gzSlot = <<>> /\ gzW = "eof"
  /\ enc' = "done"
  /\ encW' = "eof"
  /\ UNCHANGED <<mainVars, ctx, dumpVars, gzVars, encSlot, encR, driveVars>>

EncReadError ==
  /\ enc = "loop" /\ encSlot = <<>>
  /\ gzR = "closed" \/ (gzSlot = <<>> /\ gzW = "err")
  /\ enc' = "done"
  /\ encW' = "err"
  /\ UNCHANGED <<mainVars, ctx, dumpVars, gzVars, encSlot, encR, driveVars>>

\* The reader has gone: a blocked Write, the IV, or the next block fails.
EncBroken ==
  /\ encR = "closed"
  /\ \/ enc = "iv" /\ UNCHANGED gzSlot
     \/ enc = "loop" /\ encSlot # <<>> /\ UNCHANGED gzSlot
     \/ enc = "loop" /\ gzR = "open" /\ gzSlot # <<>> /\ gzSlot' = <<>>
  /\ enc' = "done"
  /\ encW' = "err"
  /\ UNCHANGED <<mainVars, ctx, dumpVars, gz, gzBuf, gzW, gzR, encSlot, encR, driveVars>>

-----------------------------------------------------------------------------
(* RunWithLogger.  An error after a reader exists unwinds the deferred     *)
(* Closes: "closeEnc" then "closeGz", or only the latter.                  *)

StreamStarts ==
  /\ run = "start"
  /\ run' = "encrypt"
  /\ dump' = "running"
  /\ gz' = "copy"
  /\ UNCHANGED <<result, token, ctx, made, stdout, stdoutR, gzBuf, gzSlot, gzW, gzR,
                 encVars, driveVars>>

StreamFails ==
  /\ run = "start"
  /\ run' = "returned" /\ result' = "err"
  /\ UNCHANGED <<token, ctx, dumpVars, gzVars, encVars, driveVars>>

EncryptorStarts ==
  /\ run = "encrypt"
  /\ run' = "connect"
  /\ enc' = "iv"
  /\ UNCHANGED <<result, token, ctx, dumpVars, gzVars, encSlot, encW, encR, driveVars>>

\* 64 characters that are not hexadecimal pass config.validate.
KeyRejected ==
  /\ run = "encrypt"
  /\ run' = "closeGz" /\ result' = "err"
  /\ UNCHANGED <<token, ctx, dumpVars, gzVars, encVars, driveVars>>

\* uploader.New with a token file, without one, or failing.
Connects ==
  /\ run = "connect"
  /\ run' = IF token THEN "upload" ELSE "authorize"
  /\ UNCHANGED <<result, token, ctx, dumpVars, gzVars, encVars, driveVars>>

ConnectFails ==
  /\ run = "connect"
  /\ run' = "closeEnc" /\ result' = "err"
  /\ UNCHANGED <<token, ctx, dumpVars, gzVars, encVars, driveVars>>

\* The operator pastes an authorization code, while pg_dump is waiting.
CodeAccepted ==
  /\ run = "authorize" /\ ctx = "live"
  /\ run' = "upload" /\ token' = TRUE
  /\ UNCHANGED <<result, ctx, dumpVars, gzVars, encVars, driveVars>>

CodeRefused ==
  /\ run = "authorize"
  /\ run' = "closeEnc" /\ result' = "err"
  /\ UNCHANGED <<token, ctx, dumpVars, gzVars, encVars, driveVars>>

UploadRead ==
  /\ run = "upload" /\ encSlot # <<>>
  /\ run' = "send"
  /\ media' = Append(media, Head(encSlot))
  /\ encSlot' = Tail(encSlot)
  /\ UNCHANGED <<result, token, ctx, dumpVars, gzVars, enc, encW, encR, stored, purged>>

UploadSends ==
  /\ run = "send" /\ ctx = "live"
  /\ run' = "upload"
  /\ UNCHANGED <<result, token, ctx, dumpVars, gzVars, encVars, driveVars>>

UploadSendFails ==
  /\ run = "send"
  /\ run' = "closeEnc" /\ result' = "err"
  /\ UNCHANGED <<token, ctx, dumpVars, gzVars, encVars, driveVars>>

UploadReadEOF ==
  /\ run = "upload" /\ encSlot = <<>> /\ encW = "eof"
  /\ run' = "commit"
  /\ UNCHANGED <<result, token, ctx, dumpVars, gzVars, encVars, driveVars>>

\* Fault: every read error ends the media like io.EOF.
UploadReadErrorIsEOF ==
  /\ run = "upload" /\ encSlot = <<>> /\ encW = "err"
  /\ run' = "commit"
  /\ UNCHANGED <<result, token, ctx, dumpVars, gzVars, encVars, driveVars>>

UploadReadError ==
  /\ run = "upload" /\ encSlot = <<>> /\ encW = "err"
  /\ run' = "closeEnc" /\ result' = "err"
  /\ UNCHANGED <<token, ctx, dumpVars, gzVars, encVars, driveVars>>

\* Drive creates the file when the last request arrives.
UploadCommits ==
  /\ run = "commit" /\ ctx = "live"
  /\ run' = "wait"
  /\ stored' = media
  /\ UNCHANGED <<result, token, ctx, dumpVars, gzVars, encVars, media, purged>>

\* The last request or its answer is lost, or the context is cancelled.
UploadCommitFails ==
  /\ run = "commit"
  /\ run' = "closeEnc" /\ result' = "err"
  /\ stored' \in {<<>>, media}
  /\ UNCHANGED <<token, ctx, dumpVars, gzVars, encVars, media, purged>>

\* Fault: a failure of pg_dump is only logged.
WaitDumpLogged ==
  /\ run = "wait" /\ dump \in {"ok", "failed"}
  /\ stdoutR' = "closed"
  /\ run' = (IF dump = "ok" THEN "cleanup" ELSE "closeEnc")
  /\ result' = (IF dump = "ok" THEN result ELSE "ok")
  /\ UNCHANGED <<token, ctx, dump, made, stdout, gzVars, encVars, driveVars>>

\* cmd.Wait returns the exit status and closes the read end of stdout.
WaitDump ==
  /\ run = "wait" /\ dump \in {"ok", "failed"}
  /\ stdoutR' = "closed"
  /\ \/ dump = "ok" /\ run' = "cleanup" /\ UNCHANGED result
     \/ dump = "failed" /\ run' = "closeEnc" /\ result' = "err"
  /\ UNCHANGED <<token, ctx, dump, made, stdout, gzVars, encVars, driveVars>>

\* DeleteOlderThan removes expired backups one request at a time ...
CleanupDeletes ==
  /\ run = "cleanup" /\ ctx = "live"
  /\ purged' = TRUE
  /\ UNCHANGED <<mainVars, ctx, dumpVars, gzVars, encVars, media, stored>>

\* Fault: an error of the clean-up fails the run.
CleanupEndsFatally ==
  /\ run = "cleanup"
  /\ run' = "closeEnc" /\ result' \in {"ok", "err"}
  /\ UNCHANGED <<token, ctx, dumpVars, gzVars, encVars, driveVars>>

\* ... and its error, if any, is only logged.
CleanupEnds ==
  /\ run = "cleanup"
  /\ run' = "closeEnc" /\ result' = "ok"
  /\ UNCHANGED <<token, ctx, dumpVars, gzVars, encVars, driveVars>>

\* Fault: the deferred encryptedReader.Close() is missing.
CloseEncryptedSkipped ==
  /\ run = "closeEnc"
  /\ run' = "closeGz"
  /\ UNCHANGED <<result, token, ctx, dumpVars, gzVars, encVars, driveVars>>

CloseEncrypted ==
  /\ run = "closeEnc"
  /\ run' = "closeGz"
  /\ encR' = "closed"
  /\ UNCHANGED <<result, token, ctx, dumpVars, gzVars, enc, encSlot, encW, driveVars>>

CloseCompressed ==
  /\ run = "closeGz"
  /\ run' = "returned"
  /\ gzR' = "closed"
  /\ UNCHANGED <<result, token, ctx, dumpVars, gz, gzBuf, gzSlot, gzW, encVars, driveVars>>

\* SIGINT or SIGTERM reaches cmd/backup.
Cancel ==
  /\ ctx = "live" /\ run # "returned"
  /\ ctx' = "cancelled"
  /\ UNCHANGED <<mainVars, dumpVars, gzVars, encVars, driveVars>>

\* The run is over and both goroutines have ended; nothing else may be
\* a reason to stop, so every other standstill is reported as a deadlock.
Terminated ==
  /\ run = "returned"
  /\ gz \in {"off", "done"} /\ enc \in {"off", "done"}
  /\ UNCHANGED vars

-----------------------------------------------------------------------------

Dump == DumpWrites \/ DumpCloses \/ DumpExits
Gz   == GzRead \/ GzWrite \/ GzReadEOF \/ GzReadError \/ GzCloses \/ GzBroken
Enc  == EncWriteIV \/ EncCopy \/ EncReadEOF \/ EncReadError \/ EncBroken
Upload == UploadRead \/ UploadSends \/ UploadSendFails \/ UploadReadEOF
            \/ UploadReadError \/ UploadCommits \/ UploadCommitFails
Main == StreamStarts \/ StreamFails \/ EncryptorStarts \/ KeyRejected
          \/ Connects \/ ConnectFails \/ Upload \/ WaitDump
          \/ CleanupDeletes \/ CleanupEnds \/ CloseEncrypted \/ CloseCompressed
Operator == CodeAccepted \/ CodeRefused \/ Cancel

Next == Dump \/ Gz \/ Enc \/ Main \/ Operator \/ Terminated

Spec == Init /\ [][Next]_vars

(***************************************************************************)
(* The Go scheduler runs every goroutine that can run, pg_dump goes on     *)
(* while its stdout has room and ends after its last piece, or when it has *)
(* closed its stdout, and every Drive request is answered or fails.  Nobody has to answer the           *)
(* authorization prompt or to press Ctrl-C, no read has to fail, and the   *)
(* compressor may hold data back until its input ends.                     *)
(***************************************************************************)
GzProgress ==
  \/ GzRead \/ GzReadEOF \/ GzCloses
  \/ (gz # "copy" \/ gzSlot # <<>>) /\ (GzWrite \/ GzBroken)

Fairness ==
  /\ WF_vars(DumpWrites) /\ WF_vars((made = Whole \/ dump = "closing") /\ DumpExits)
  /\ WF_vars(GzProgress) /\ WF_vars(Enc) /\ WF_vars(Main)

FairSpec == Spec /\ Fairness

-----------------------------------------------------------------------------
(* Every variable has its type; the OS pipe never exceeds its capacity and *)
(* an io.Pipe hands over one block at a time.                              *)
TypeOK ==
  /\ run \in {"start", "encrypt", "connect", "authorize", "upload", "send", "commit",
              "wait", "cleanup", "closeEnc", "closeGz", "returned"}
  /\ result \in {"none", "ok", "err"} /\ ctx \in {"live", "cancelled"} /\ token \in BOOLEAN
  /\ dump \in {"absent", "running", "closing", "ok", "failed"} /\ made \in 0..Whole
  /\ stdout \in Seq(Token) /\ Len(stdout) <= StdoutCap /\ stdoutR \in {"open", "closed"}
  /\ gz \in {"off", "copy", "close", "salvage", "done"}
  /\ gzBuf \in Seq(Token) /\ gzSlot \in Seq(Token) /\ Len(gzSlot) <= 1
  /\ gzW \in {"open", "eof", "err"} /\ gzR \in {"open", "closed"}
  /\ enc \in {"off", "iv", "loop", "done"} /\ encSlot \in Seq(Token) /\ Len(encSlot) <= 1
  /\ encW \in {"open", "eof", "err"} /\ encR \in {"open", "closed"}
  /\ media \in Seq(Token) /\ stored \in Seq(Token) /\ purged \in BOOLEAN

(* A run that reports success has left on Drive exactly the whole archive: *)
(* every piece once, in order, after the IV and before the gzip trailer.   *)
(* RunWithLogger relies on EOF never standing for an upstream error and on *)
(* the exit status of pg_dump, which it asks for only after the upload.    *)
SuccessIsWhole == result = "ok" => stored = Archive(Whole)

(* Expired backups are deleted only when this run's archive is on Drive    *)
(* and whole, so a run that goes wrong at any stage costs no old backup.   *)
PurgeNeedsWhole == purged => stored = Archive(Whole)

(* Whatever a run leaves on Drive, also when it fails or its answer is     *)
(* lost, is an archive of the beginning of a dump, closed by its trailer:  *)
(* a decryption that refuses cut-off data will not notice what is missing. *)
(* Module Restore starts from such objects.                                *)
StoredIsArchive == stored # <<>> => \E n \in 0..Whole : stored = Archive(n)

(* cmd.Wait closes the read end of stdout; by then the gzip goroutine has  *)
(* read everything ("wait function to call after the reader is drained").  *)
WaitAfterDrain == run = "cleanup" \/ result = "ok" => gz = "done" /\ stdout = <<>>

(* The bytes on their way, from Drive back to pg_dump's stdout.            *)
Line(m, e, g, b, o) == m \o (e \o (g \o (b \o o)))
InFlight == Line(media, encSlot, gzSlot, gzBuf, stdout)

(* What they should be: the IV, the dump so far, and at its end the trailer. *)
Started  == IF enc \in {"off", "iv"} THEN <<>> ELSE <<IV>>
Ended    == IF gz = "close" \/ gzW = "eof" THEN <<Trailer>> ELSE <<>>
Expected == Started \o (Pieces(made) \o Ended)

(* As long as no reader was closed and no read failed, nothing is lost,    *)
(* repeated or overtaken on the way through the four buffers.              *)
Conserved ==
  encR = "open" /\ gz # "salvage" /\ gzW # "err" => InFlight = Expected

(* The run implements the contract of a backup run.                        *)
Vault == IF stored = <<>> THEN "nothing"
         ELSE IF stored = Archive(Whole) THEN "whole" ELSE "partial"

Contract == INSTANCE BackupContract WITH outcome <- result, vault <- Vault
KeepsContract == Contract!CSpec

(* Who can go on.  Each is the guard of the steps that Fairness promises   *)
(* of one process: a goroutine waits where io.Pipe lets it wait, pg_dump   *)
(* while the OS pipe is full, the upload for the encrypted pipe.           *)
DumpReady ==
  \/ dump = "running" /\ stdoutR = "open" /\ (made = Whole \/ Len(stdout) < StdoutCap)
  \/ dump = "closing"

GzReady ==
  \/ /\ gz = "copy" /\ gzSlot = <<>> /\ stdoutR = "open"
     /\ stdout # <<>> \/ OutputEnded
  \/ gz \in {"close", "salvage"} /\ (gzSlot = <<>> \/ gzR = "closed")
  \/ gz = "copy" /\ gzSlot # <<>> /\ gzR = "closed"

EncReady ==
  \/ enc = "iv"
  \/ enc = "loop" /\ encSlot = <<>> /\ (gzSlot # <<>> \/ gzW # "open" \/ gzR = "closed")
  \/ enc = "loop" /\ encSlot # <<>> /\ encR = "closed"

MainReady ==
  \/ run \notin {"authorize", "upload", "wait", "returned"}
  \/ run = "upload" /\ (encSlot # <<>> \/ encW # "open")
  \/ run = "wait" /\ dump \in {"ok", "failed"}

Finished == run = "returned" /\ gz \in {"off", "done"} /\ enc \in {"off", "done"}

(* pg_dump, the two goroutines and the upload never all wait for each      *)
(* other, whatever the sizes of dump and pipe, whichever stage has failed  *)
(* and however far the deferred Closes have come: unless the operator is   *)
(* asked for a code, one of them can go on until all is over.              *)
NeverStuck == run # "authorize" /\ ~Finished => DumpReady \/ GzReady \/ EncReady \/ MainReady

(* The guards above say no more and no less than that the steps are        *)
(* enabled, which is what Fairness asks.                                   *)
GuardsExact ==
  /\ DumpReady <=> ENABLED (DumpWrites \/ ((made = Whole \/ dump = "closing") /\ DumpExits))
  /\ GzReady <=> ENABLED GzProgress
  /\ EncReady <=> ENABLED Enc
  /\ MainReady <=> ENABLED <<Main>>_vars

(* A bound on the steps that are left.  A piece moves from stage to stage, *)
(* so it weighs the more the farther it still has to go; the IV and the    *)
(* trailer weigh on the goroutine that will add them.                      *)
MainSteps ==
  CASE run = "start"   -> 11 [] run = "encrypt"  -> 10 [] run = "connect" -> 9
    [] run = "authorize" -> 8 [] run = "send"    -> 7  [] run = "upload"  -> 6
    [] run = "commit"  -> 5  [] run = "wait"     -> 4  [] run = "cleanup" -> 3
    [] run = "closeEnc" -> 2 [] run = "closeGz"  -> 1  [] OTHER -> 0
DumpSteps == CASE dump = "absent" -> 3 [] dump = "running" -> 2 [] dump = "closing" -> 1
               [] OTHER -> 0
GzSteps   == IF gz = "off" THEN 7 ELSE IF gz = "copy" THEN 6 ELSE IF gz = "done" THEN 0 ELSE 1
EncSteps  == IF enc = "off" THEN 5 ELSE IF enc = "iv" THEN 4 ELSE IF enc = "loop" THEN 1 ELSE 0
DataSteps == 6 * (Whole - made) + 5 * Len(stdout) + 4 * Len(gzBuf) + 3 * Len(gzSlot)
               + 2 * Len(encSlot)
OnceSteps == (IF ctx = "live" THEN 1 ELSE 0) + (IF purged THEN 0 ELSE 1)
StepsLeft == MainSteps + DumpSteps + GzSteps + EncSteps + DataSteps + OnceSteps

(* No run goes round in circles: whatever the processes, the operator and  *)
(* the failures do, each step leaves fewer steps, so that a run with its   *)
(* goroutines is over after at most 6 * Whole + 28 of them.                *)
Shrinks ==
  /\ StepsLeft = 6 * Whole + 28
  /\ [][StepsLeft' \in Nat /\ StepsLeft' < StepsLeft]_vars

(* With a token file the run always returns, whatever fails and whenever:  *)
(* pg_dump, the goroutines and the upload never wait on each other forever.*)
RunReturns == token => <>(run = "returned")

(* No goroutine outlives the run for good: the deferred Closes and the end *)
(* of pg_dump's output release both of them.                               *)
GoroutinesEnd ==
  run = "returned" ~> gz \in {"off", "done"} /\ enc \in {"off", "done"}

(* "The caller is responsible for closing the reader" (dumper.Stream).     *)
ReaderClosedOnReturn == run = "returned" /\ dump # "absent" => stdoutR = "closed"

(* "The decrypted output is a pg_dump custom-format archive suitable for   *)
(* pg_restore": what a finished run leaves on Drive is a whole archive.    *)
StoredRestores == run = "returned" /\ stored # <<>> => stored = Archive(Whole)

=============================================================================
