------------------------------- MODULE Restore -------------------------------
(***************************************************************************)
(* Getting a backup back: cmd/decrypt on a local file or on Drive, and the *)
(* two downloads of the web server.  One command or request after another  *)
(* is looked at; what they leave on disk stays, so that a local decryption *)
(* may find what an interrupted download has left behind.                  *)
(*                                                                         *)
(*   source (-> TeeReader, for "both", -> raw) -> AES goroutine -> io.Pipe *)
(*          -> gzip.Reader -> out                                          *)
(*                                                                         *)
(* Under a wrong key every byte decrypts to Junk, which gzip refuses.  A   *)
(* read of the source, a write, the opening and the closing of a file may  *)
(* always fail.  The copy and the output are two different files.          *)
(* A browser saves the encrypted file where the command would (raw), and   *)
(* the decrypted one (out), and takes a response for complete when it has  *)
(* Content-Length bytes, or its last chunk if no length was announced.     *)
(*                                                                         *)
(* A definition marked "Fault" is not part of the specification: put in    *)
(* the place of the definition that follows it, it breaks a property.      *)
(***************************************************************************)
EXTENDS ArchiveFormat

CONSTANTS
  Whole,        \* number of pieces in a complete dump
  MaxCommands   \* bound on the number of commands and requests

ASSUME RestoreAssumption == Whole \in Nat /\ MaxCommands \in Nat

Junk  == -2
Token == -2..Whole
Ops   == {"local", "decrypt", "download", "both", "serve", "serveDecrypted"}
Copies   == {"download", "both", "serve"}
Decrypts == {"local", "decrypt", "both", "serveDecrypted"}
CmdOps == {"local", "decrypt", "download", "both"}
Keys  == {"right", "wrong", "malformed", "missing"}

VARIABLES
  commands,   \* number of commands so far
  op, key,    \* the current one, and the key it has been given
  run,        \* where it stands
  result,     \* what its user is told: "none" yet, "ok", "err", or "doubt":
              \* done, and then that a file could not be closed
  object,     \* the encrypted bytes it is to read
  src, srcR,  \* what it has not read yet; "absent", "open", "closed"
  dec,        \* decrypting goroutine: "off", "loop", "done"
  decSlot,    \* bytes in the hand-over of its pipe
  decW, decR, \* the two ends: "open", "eof", "err"; "open", "closed"
  gzBuf,      \* what the gzip reader has taken and not passed on
  trailed,    \* has it seen and checked the trailer?
  raw, out    \* the encrypted copy and the decrypted output on disk

cmdVars == <<commands, op, key>>
decVars == <<dec, decSlot, decW>>
gzVars  == <<gzBuf, trailed>>
files   == <<raw, out>>
vars == <<commands, op, key, run, result, object, src, srcR, dec, decSlot, decW, decR,
          gzBuf, trailed, raw, out>>

\* CTR decryption works byte by byte and reports nothing.
Decrypted(t) == IF key = "right" THEN t ELSE Junk

Teed(t) == IF op = "both" THEN Append(raw, t) ELSE raw

Init ==
  /\ commands = 0 /\ op = "local" /\ key = "missing"
  /\ run = "returned" /\ result = "none"
  /\ object = <<>> /\ src = <<>> /\ srcR = "absent"
  /\ dec = "off" /\ decSlot = <<>> /\ decW = "open" /\ decR = "open"
  /\ gzBuf = <<>> /\ trailed = FALSE
  /\ raw = <<>> /\ out = <<>>

Command(o, k) ==
  /\ run = "returned" /\ dec \in {"off", "done"} /\ commands < MaxCommands
  /\ commands' = commands + 1
  /\ op' = o /\ key' = k
  /\ run' = "ask" /\ result' = "none"
  /\ object' = <<>> /\ src' = <<>> /\ srcR' = "absent"
  /\ dec' = "off" /\ decSlot' = <<>> /\ decW' = "open" /\ decR' = "open"
  /\ gzBuf' = <<>> /\ trailed' = FALSE
  /\ UNCHANGED files

-----------------------------------------------------------------------------
(* The command: what it needs, then the source, then its files.            *)

\* The backup is found and chosen, the action and the paths are known.
Proceed ==
  /\ run = "ask" /\ (op \in Decrypts => key # "missing")
  /\ run' = "fetch"
  /\ UNCHANGED <<cmdVars, result, object, src, srcR, decVars, decR, gzVars, files>>

\* No key, an error of the listing, no such backup, "q", or no more input.
Refuse ==
  /\ run = "ask"
  /\ run' = "returned" /\ result' = "err"
  /\ UNCHANGED <<cmdVars, object, src, srcR, decVars, decR, gzVars, files>>

Objects == {Archive(n) : n \in 0..Whole}

\* Fault: the copy is created before the backup is asked for.
FetchLast ==
  /\ run = "fetch"
  /\ object' \in (IF op = "local" THEN {raw} ELSE Objects)
  /\ src' = object' /\ srcR' = "open"
  /\ run' = CASE op \in Copies \ {"both"} -> "save" [] op = "serveDecrypted" -> "iv" [] OTHER -> "out"
  /\ raw' = IF op \in Copies THEN <<>> ELSE raw
  /\ UNCHANGED <<cmdVars, result, decVars, decR, gzVars, out>>

\* client.Download, or os.Open of the file that was saved before.
Fetch ==
  /\ run = "fetch"
  /\ object' \in (IF op = "local" THEN {raw} ELSE Objects)
  /\ src' = object' /\ srcR' = "open"
  /\ run' = IF op \in Copies THEN "raw" ELSE IF op = "serveDecrypted" THEN "iv" ELSE "out"
  /\ UNCHANGED <<cmdVars, result, decVars, decR, gzVars, files>>

FetchFails ==
  /\ run = "fetch"
  /\ run' = "returned" /\ result' = "err"
  /\ UNCHANGED <<cmdVars, object, src, srcR, decVars, decR, gzVars, files>>

\* os.Create truncates what is there.
OpenRaw ==
  /\ run = "raw"
  /\ run' = IF op = "both" THEN "out" ELSE "save"
  /\ raw' = <<>>
  /\ UNCHANGED <<cmdVars, result, object, src, srcR, decVars, decR, gzVars, out>>

\* The web server announces its attachment when gzip has seen the header.
OpenOut ==
  /\ run = "out"
  /\ run' = IF op = "serveDecrypted" THEN "copy" ELSE "iv"
  /\ out' = <<>>
  /\ UNCHANGED <<cmdVars, result, object, src, srcR, decVars, decR, gzVars, raw>>

OpenFails ==
  /\ run \in {"raw", "out"} /\ op \in CmdOps
  /\ run' = (IF run = "out" /\ op = "both" THEN "closeRaw" ELSE "closeSrc")
  /\ result' = "err"
  /\ UNCHANGED <<cmdVars, object, src, srcR, decVars, decR, gzVars, files>>

-----------------------------------------------------------------------------
(* Saving the encrypted bytes as they are.                                 *)

Save ==
  /\ run = "save" /\ src # <<>>
  /\ raw' = Append(raw, Head(src))
  /\ src' = Tail(src)
  /\ UNCHANGED <<cmdVars, run, result, object, srcR, decVars, decR, gzVars, out>>

SaveEnds ==
  /\ run = "save" /\ src = <<>>
  /\ run' = "closeRaw" /\ result' = "ok"
  /\ UNCHANGED <<cmdVars, object, src, srcR, decVars, decR, gzVars, files>>

\* Fault: the response of the web server announces no length.
SaveFailsUnannounced ==
  /\ run = "save"
  /\ run' = "closeRaw" /\ result' = IF op = "serve" THEN "ok" ELSE "err"
  /\ UNCHANGED <<cmdVars, object, src, srcR, decVars, decR, gzVars, files>>

\* The web server drops the error, but the browser misses bytes.
SaveFails ==
  /\ run = "save"
  /\ run' = "closeRaw" /\ result' = "err"
  /\ UNCHANGED <<cmdVars, object, src, srcR, decVars, decR, gzVars, files>>

-----------------------------------------------------------------------------
(* NewDecryptingReader and its goroutine.                                  *)

ReadIV ==
  /\ run = "iv" /\ key # "malformed" /\ src # <<>>
  /\ run' = "header" /\ dec' = "loop"
  /\ src' = Tail(src) /\ raw' = Teed(Head(src))
  /\ UNCHANGED <<cmdVars, result, object, srcR, decSlot, decW, decR, gzVars, out>>

\* The key does not parse, or the IV cannot be read or copied.
ReadIVFails ==
  /\ run = "iv"
  /\ run' = "closeOut" /\ result' = "err"
  /\ UNCHANGED <<cmdVars, object, src, srcR, decVars, decR, gzVars, files>>

\* The copy is written on the side, as long as its file is open.
DecRead ==
  /\ dec = "loop" /\ decSlot = <<>> /\ srcR = "open" /\ src # <<>>
  /\ op = "both" => run # "closeSrc"
  /\ decSlot' = <<Decrypted(Head(src))>>
  /\ src' = Tail(src) /\ raw' = Teed(Head(src))
  /\ UNCHANGED <<cmdVars, run, result, object, srcR, dec, decW, decR, gzVars, out>>

\* Fault: the end is looked at before the data that came with it.
DecReadEOFFirst ==
  /\ dec = "loop" /\ decSlot = <<>> /\ srcR = "open" /\ Len(src) <= 1
  /\ dec' = "done" /\ decW' = "eof"
  /\ src' = <<>>
  /\ UNCHANGED <<cmdVars, run, result, object, srcR, decSlot, decR, gzVars, files>>

\* Fault: the goroutine ends without pw.Close().
DecReadEOFUnclosed ==
  /\ dec = "loop" /\ decSlot = <<>> /\ srcR = "open" /\ src = <<>>
  /\ dec' = "done"
  /\ UNCHANGED <<cmdVars, run, result, object, src, srcR, decSlot, decW, decR, gzVars, files>>

DecReadEOF ==
  /\ dec = "loop" /\ decSlot = <<>> /\ srcR = "open" /\ src = <<>>
  /\ dec' = "done" /\ decW' = "eof"
  /\ UNCHANGED <<cmdVars, run, result, object, src, srcR, decSlot, decR, gzVars, files>>

\* The source, or the copy that TeeReader writes, fails, or is closed.
DecReadFails ==
  /\ dec = "loop" /\ decSlot = <<>>
  /\ dec' = "done" /\ decW' = "err"
  /\ UNCHANGED <<cmdVars, run, result, object, src, srcR, decSlot, decR, gzVars, files>>

DecBroken ==
  /\ dec = "loop" /\ decSlot # <<>> /\ decR = "closed"
  /\ dec' = "done" /\ decW' = "err"
  /\ UNCHANGED <<cmdVars, run, result, object, src, srcR, decSlot, decR, gzVars, files>>

-----------------------------------------------------------------------------
(* gzip.NewReader and io.Copy.                                             *)

\* Fault: the header is not looked at.
HeaderUnchecked ==
  /\ run = "header" /\ decSlot # <<>>
  /\ run' = IF op = "serveDecrypted" THEN "out" ELSE "copy"
  /\ gzBuf' = decSlot /\ decSlot' = <<>>
  /\ UNCHANGED <<cmdVars, result, object, src, srcR, dec, decW, decR, trailed, files>>

Header ==
  /\ run = "header" /\ decSlot # <<>> /\ Head(decSlot) # Junk
  /\ run' = IF op = "serveDecrypted" THEN "out" ELSE "copy"
  /\ gzBuf' = decSlot /\ decSlot' = <<>>
  /\ UNCHANGED <<cmdVars, result, object, src, srcR, dec, decW, decR, trailed, files>>

HeaderFails ==
  /\ run = "header"
  /\ IF decSlot = <<>> THEN decW # "open" ELSE Head(decSlot) = Junk
  /\ run' = "closeDec" /\ result' = "err"
  /\ UNCHANGED <<cmdVars, object, src, srcR, decVars, decR, gzVars, files>>

CopyRead ==
  /\ run = "copy" /\ gzBuf = <<>> /\ decSlot # <<>> /\ ~trailed
  /\ gzBuf' = decSlot /\ decSlot' = <<>>
  /\ UNCHANGED <<cmdVars, run, result, object, src, srcR, dec, decW, decR, trailed, files>>

CopyWrite ==
  /\ run = "copy" /\ gzBuf # <<>> /\ Head(gzBuf) # Trailer
  /\ out' = out \o gzBuf /\ gzBuf' = <<>>
  /\ UNCHANGED <<cmdVars, run, result, object, src, srcR, decVars, decR, trailed, raw>>

\* The disk is full, or the browser has gone.
CopyWriteFails ==
  /\ run = "copy" /\ gzBuf # <<>>
  /\ run' = "closeDec" /\ result' = "err"
  /\ UNCHANGED <<cmdVars, object, src, srcR, decVars, decR, gzVars, files>>

CopyTrailer ==
  /\ run = "copy" /\ gzBuf = <<Trailer>>
  /\ trailed' = TRUE /\ gzBuf' = <<>>
  /\ UNCHANGED <<cmdVars, run, result, object, src, srcR, decVars, decR, files>>

\* Fault: the end of the input is the end of the data, trailer or not.
CopyEndsEarly ==
  /\ run = "copy" /\ gzBuf = <<>> /\ decSlot = <<>> /\ decW = "eof"
  /\ run' = "closeDec" /\ result' = "ok"
  /\ UNCHANGED <<cmdVars, object, src, srcR, decVars, decR, gzVars, files>>

\* After the trailer gzip looks for another member and finds the end.
CopyEnds ==
  /\ run = "copy" /\ gzBuf = <<>> /\ trailed /\ decSlot = <<>> /\ decW = "eof"
  /\ run' = "closeDec" /\ result' = "ok"
  /\ UNCHANGED <<cmdVars, object, src, srcR, decVars, decR, gzVars, files>>

\* An error of the decryptor, the end without a trailer, or more after it.
\* The web server drops the error and ends its response as always.
CopyFails ==
  /\ run = "copy" /\ gzBuf = <<>>
  /\ IF decSlot # <<>> THEN trailed ELSE decW = "err" \/ (decW = "eof" /\ ~trailed)
  /\ run' = "closeDec" /\ result' = IF op = "serveDecrypted" THEN "ok" ELSE "err"
  /\ UNCHANGED <<cmdVars, object, src, srcR, decVars, decR, gzVars, files>>

AfterOut == IF op \in Copies THEN "closeRaw" ELSE "closeSrc"
Doubted  == IF result = "ok" THEN "doubt" ELSE result
Beginnings(s) == {SubSeq(s, 1, n) : n \in 0..Len(s)}

\* Fault: the deferred Close of the decrypting reader is missing.
CloseDecSkipped ==
  /\ run = "closeDec"
  /\ run' = "closeOut"
  /\ UNCHANGED <<cmdVars, result, object, src, srcR, decVars, decR, gzVars, files>>

CloseDec ==
  /\ run = "closeDec"
  /\ run' = "closeOut" /\ decR' = "closed"
  /\ UNCHANGED <<cmdVars, result, object, src, srcR, decVars, gzVars, files>>

\* closeTarget of the output, and of the copy; a browser has no file here.
CloseOut ==
  /\ run = "closeOut"
  /\ run' = AfterOut
  /\ UNCHANGED <<cmdVars, result, object, src, srcR, decVars, decR, gzVars, files>>

CloseRaw ==
  /\ run = "closeRaw"
  /\ run' = "closeSrc"
  /\ UNCHANGED <<cmdVars, result, object, src, srcR, decVars, decR, gzVars, files>>

\* What was written did not all reach the disk.  The error is only logged,
\* and the exit status stays 0.
CloseOutFails ==
  /\ run = "closeOut" /\ op \in CmdOps
  /\ run' = AfterOut /\ result' = Doubted
  /\ out' \in Beginnings(out)
  /\ UNCHANGED <<cmdVars, object, src, srcR, decVars, decR, gzVars, raw>>

CloseRawFails ==
  /\ run = "closeRaw" /\ op \in CmdOps
  /\ run' = "closeSrc" /\ result' = Doubted
  /\ raw' \in Beginnings(raw)
  /\ UNCHANGED <<cmdVars, object, src, srcR, decVars, decR, gzVars, out>>

\* An error of closing the source changes nothing.
CloseSrc ==
  /\ run = "closeSrc"
  /\ run' = "returned" /\ srcR' = "closed"
  /\ UNCHANGED <<cmdVars, result, object, src, decVars, decR, gzVars, files>>

Terminated ==
  /\ run = "returned" /\ dec \in {"off", "done"} /\ commands = MaxCommands
  /\ UNCHANGED vars

-----------------------------------------------------------------------------

Dec  == DecRead \/ DecReadEOF \/ DecReadFails \/ DecBroken
Copy == CopyRead \/ CopyWrite \/ CopyWriteFails \/ CopyTrailer \/ CopyEnds \/ CopyFails
Main ==
  \/ Fetch \/ FetchFails \/ OpenRaw \/ OpenOut \/ OpenFails
  \/ Save \/ SaveEnds \/ SaveFails
  \/ ReadIV \/ ReadIVFails \/ Header \/ HeaderFails \/ Copy
  \/ CloseDec \/ CloseOut \/ CloseOutFails \/ CloseRaw \/ CloseRawFails \/ CloseSrc

Next ==
  \/ \E o \in Ops, k \in Keys : Command(o, k)
  \/ Proceed \/ Refuse \/ Main \/ Dec
  \/ Terminated

Spec == Init /\ [][Next]_vars

\* Every read is answered or fails; nobody has to answer a prompt.
FairSpec == Spec /\ WF_vars(Main) /\ WF_vars(Dec)

-----------------------------------------------------------------------------
(* Every variable has its type; no hand-over holds more than one block,    *)
(* and nothing that a wrong key makes of the data gets past gzip.          *)
TypeOK ==
  /\ commands \in 0..MaxCommands /\ op \in Ops /\ key \in Keys
  /\ run \in {"ask", "fetch", "raw", "out", "iv", "header", "copy", "save", "closeDec",
              "closeOut", "closeRaw", "closeSrc", "returned"}
  /\ result \in {"none", "ok", "err", "doubt"}
  /\ object \in Seq(Token \ {Junk}) /\ src \in Seq(Token \ {Junk})
  /\ srcR \in {"absent", "open", "closed"}
  /\ dec \in {"off", "loop", "done"} /\ decSlot \in Seq(Token) /\ Len(decSlot) <= 1
  /\ decW \in {"open", "eof", "err"} /\ decR \in {"open", "closed"}
  /\ gzBuf \in Seq(Token \ {Junk}) /\ Len(gzBuf) <= 1 /\ trailed \in BOOLEAN
  /\ raw \in Seq(Token \ {Junk}) /\ out \in Seq(Token \ {Junk})

(* A decryption that is reported as done has written exactly the data that *)
(* the encrypted bytes hold, to the last piece: never a part of it because *)
(* the source failed or was itself a part, left by a download that was     *)
(* interrupted earlier, and nothing at all under a wrong key.              *)
Exact == object = Sealed(out)
RestoredIsExact ==
  result = "ok" /\ op \in {"local", "decrypt", "both"} => key = "right" /\ Exact

(* So the data is the beginning of a dump, however far that dump had come  *)
(* when it was stored: no more follows from the success of a decryption.   *)
IsWholeOf(n) == object = Archive(n) /\ out = Pieces(n)
RestoredIsArchive ==
  result = "ok" /\ op \in {"local", "decrypt", "both"} =>
    key = "right" /\ \E n \in 0..Whole : IsWholeOf(n)

(* An encrypted copy that is reported as saved, or that a browser takes    *)
(* for complete, is the stored object byte for byte, also when it was      *)
(* written on the side by the goroutine that decrypts it.                  *)
CopyIsExact == result = "ok" /\ op \in Copies => raw = object

(* While the data is on its way, nothing is lost, repeated or overtaken:   *)
(* what is written, what gzip and the pipe hold and what is not read yet   *)
(* together are the object.                                                *)
Restored == IF run = "copy" THEN out ELSE <<>>
Checked  == IF trailed THEN <<Trailer>> ELSE <<>>
Conserved ==
  key = "right" /\ (run \in {"header", "copy"} \/ (run = "out" /\ op = "serveDecrypted")) =>
    object = <<IV>> \o (Restored \o (Checked \o (gzBuf \o (decSlot \o src))))

(* A command that does not get at its source, because the backup has been  *)
(* deleted meanwhile or the request fails, costs no file that is there.    *)
SourceFirst == [][files' # files => srcR = "open"]_vars

(* Every command keeps the contract of a restore: no file is touched       *)
(* without a source, "ok" is told once and for good files only, and they   *)
(* stay as they are until the next source is open, although the goroutine  *)
(* that writes the copy of "both" may outlive a command that failed, or    *)
(* the close error follows.  The decrypted download of the web server is   *)
(* told complete whatever it is.                                           *)
Delivered ==
  /\ op \in Copies => raw = object
  /\ op \in {"local", "decrypt", "both"} => \E n \in 0..Whole : IsWholeOf(n)

Contract == INSTANCE RestoreContract WITH
  told <- result, source <- srcR, disk <- files, good <- Delivered
KeepsContract == Contract!CSpec

(* Who can go on: the guards of the steps that FairSpec promises.          *)
MainReady ==
  \/ run \in {"fetch", "raw", "out", "iv", "save", "closeDec", "closeOut", "closeRaw", "closeSrc"}
  \/ run \in {"header", "copy"} /\ (decSlot # <<>> \/ decW # "open")
  \/ run = "copy" /\ gzBuf # <<>>

DecReady == dec = "loop" /\ (decSlot = <<>> \/ decR = "closed")

GuardsExact ==
  /\ MainReady <=> ENABLED Main
  /\ DecReady <=> ENABLED Dec

(* The command, its gzip reader and the goroutine never all wait for each  *)
(* other, and a command that is over never leaves the goroutine waiting.   *)
Finished   == run = "returned" /\ dec \in {"off", "done"}
NeverStuck == run # "ask" /\ ~Finished => MainReady \/ DecReady

(* A bound on the steps that are left to the command.                      *)
PhaseSteps ==
  CASE run = "ask"  -> 12 [] run = "fetch"  -> 11 [] run = "raw"  -> 10
    [] run = "out"  -> IF op = "serveDecrypted" THEN 6 ELSE 9
    [] run = "iv"   -> 8  [] run = "header" -> 7 [] run \in {"copy", "save"} -> 5
    [] run = "closeDec" -> 4 [] run = "closeOut" -> 3 [] run = "closeRaw" -> 2
    [] run = "closeSrc" -> 1 [] OTHER -> 0
DecSteps  == IF dec = "off" THEN 2 ELSE IF dec = "loop" THEN 1 ELSE 0
ByteSteps == IF run \in {"ask", "fetch"} THEN 3 * (Whole + 2)
             ELSE 3 * Len(src) + 2 * Len(decSlot) + Len(gzBuf)
StepsLeft == PhaseSteps + DecSteps + ByteSteps

(* No command and no goroutine goes on for ever: together they take at     *)
(* most 3 * Whole + 20 steps, whatever file they are given.                *)
Shrinks ==
  [][IF commands' # commands THEN StepsLeft' = 3 * Whole + 20
     ELSE StepsLeft' \in Nat /\ StepsLeft' < StepsLeft]_vars

(* Once everything has been asked, the command returns, whatever fails ... *)
CommandEnds == run = "fetch" ~> run = "returned"

(* ... and its goroutine ends: in the web server nothing else ends it.     *)
DecryptorEnds == run = "returned" ~> dec \in {"off", "done"}

(* "Output is a pg_dump --format=custom archive": so is the file that a    *)
(* browser has saved as complete.                                          *)
ServedIsExact == result = "ok" /\ op = "serveDecrypted" => Exact

=============================================================================
