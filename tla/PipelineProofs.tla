--------------------------- MODULE PipelineProofs ---------------------------
(***************************************************************************)
(* Proofs about Pipeline, for every size of the dump and of the OS pipe.   *)
(*                                                                         *)
(* The inductive invariant IInv is TypeOK, Conserved and what ties the     *)
(* phase of RunWithLogger to the states of the two goroutines: end-of-file *)
(* travels down the pipes only behind all the data, so the upload that     *)
(* sees it has read Archive(made), and made is Whole once pg_dump has      *)
(* exited with status 0.                                                   *)
(***************************************************************************)
EXTENDS Pipeline, SequenceTheorems, TLAPS

Working == {"start", "encrypt", "connect", "authorize", "upload", "send",
            "commit", "wait", "cleanup"}

(* The result is decided when the run leaves its work, and the deferred    *)
(* Closes come only after that.                                            *)
PhaseInv ==
  /\ run \in Working <=> result = "none"
  /\ run \in Working => encR = "open" /\ gzR = "open"
  /\ run \notin {"wait", "cleanup"} /\ result # "ok" => ~purged
  /\ run = "start" => dump = "absent"
  /\ run \in {"start", "encrypt"} => enc = "off"

DumpInv ==
  /\ dump = "ok" => made = Whole
  /\ dump = "absent" => gz = "off" /\ made = 0

(* The gzip pipe is ended after pg_dump's output has been read to its end. *)
GzInv ==
  /\ gz = "close" \/ gzW = "eof" => OutputEnded /\ stdout = <<>>
  /\ gzW = "open" <=> gz # "done"
  /\ gzW = "eof" => gzBuf = <<>>
  /\ gz = "off" <=> dump = "absent"

(* The encrypted pipe is ended after the gzip pipe, and it is empty.       *)
EncInv ==
  /\ enc \in {"off", "iv"} => encSlot = <<>> /\ media = <<>>
  /\ encW = "open" <=> enc # "done"
  /\ encW = "eof" => gzW = "eof" /\ gzSlot = <<>> /\ encSlot = <<>>

(* What the upload has read once it saw end-of-file, and what is on Drive. *)
DriveInv ==
  /\ run \in {"commit", "wait", "cleanup"} => encW = "eof" /\ media = Archive(made)
  /\ run \in {"wait", "cleanup"} => stored = media
  /\ run \in Working \ {"wait", "cleanup"} => stored = <<>>
  /\ run = "cleanup" \/ result = "ok" => dump = "ok" /\ gz = "done" /\ stdout = <<>>
  /\ purged => run = "cleanup" \/ result = "ok"
  /\ result = "ok" => stored = Archive(Whole)

(* What those who wait can count on: a goroutine that has been started,    *)
(* and that the deferred Closes have been made.                            *)
WaitInv ==
  /\ stdoutR = "closed" => dump \in {"ok", "failed"} /\ gz = "done"
  /\ run \notin {"start", "returned"} => dump # "absent"
  /\ dump = "absent" => enc = "off"
  /\ run \notin {"start", "encrypt", "closeGz", "returned"} => enc # "off"
  /\ run \in {"closeGz", "returned"} => enc = "off" \/ encR = "closed"
  /\ run = "returned" => dump = "absent" \/ gzR = "closed"
  /\ enc = "iv" => encSlot = <<>>

IInv == TypeOK /\ PhaseInv /\ DumpInv /\ GzInv /\ EncInv /\ WaitInv /\ DriveInv
        /\ StoredIsArchive /\ Conserved

-----------------------------------------------------------------------------
(* Facts about the data.                                                   *)

LEMMA TokenFacts ==
  /\ IV \in Token /\ Trailer \in Token
  /\ \A n \in 1..Whole : n \in Token
  /\ <<>> \in Seq(Token) /\ Len(<<>>) = 0
BY PipelineAssumption, EmptySeq DEF IV, Trailer, Token

LEMMA PiecesType == \A n \in 0..Whole : Pieces(n) \in Seq(Token)
BY PipelineAssumption DEF Pieces, Token

(* pg_dump's next piece extends the sequence of pieces.                    *)
LEMMA PiecesGrow ==
  ASSUME NEW n \in 0..Whole, n < Whole
  PROVE  Pieces(n + 1) = Append(Pieces(n), n + 1)
BY PipelineAssumption DEF Pieces

(* Names for a \o b and Append(a, x): unlike the operators of Sequences,   *)
(* they stay folded unless a proof unfolds them.                           *)
Cat(a, b)      == a \o b
Extended(a, x) == Append(a, x)

(* A new last element of b is the new last element of a \o b.              *)
LEMMA CatExtended ==
  ASSUME NEW a \in Seq(Token), NEW b \in Seq(Token), NEW x \in Token
  PROVE  /\ Cat(a, b) \in Seq(Token)
         /\ Extended(b, x) \in Seq(Token)
         /\ Cat(a, Extended(b, x)) = Extended(Cat(a, b), x)
BY AppendProperties, ConcatProperties DEF Cat, Extended

LEMMA CatAssociative ==
  ASSUME NEW a \in Seq(Token), NEW b \in Seq(Token), NEW c \in Seq(Token)
  PROVE  Cat(Cat(a, b), c) = Cat(a, Cat(b, c))
BY ConcatAssociative DEF Cat

(* Handing the first element of b on to a changes nothing of a \o b.       *)
LEMMA CatHandsOver ==
  ASSUME NEW a \in Seq(Token), NEW b \in Seq(Token), b # <<>>
  PROVE  /\ Extended(a, Head(b)) \in Seq(Token) /\ Tail(b) \in Seq(Token)
         /\ Cat(Extended(a, Head(b)), Tail(b)) = Cat(a, b)
BY HeadTailProperties, AppendProperties DEF Cat, Extended

LEMMA CatHandsOverBefore ==
  ASSUME NEW a \in Seq(Token), NEW b \in Seq(Token), NEW c \in Seq(Token), b # <<>>
  PROVE  Cat(Extended(a, Head(b)), Cat(Tail(b), c)) = Cat(a, Cat(b, c))
<1>1. /\ Extended(a, Head(b)) \in Seq(Token) /\ Tail(b) \in Seq(Token)
      /\ Cat(Extended(a, Head(b)), Tail(b)) = Cat(a, b)
  BY CatHandsOver
<1>2. ASSUME NEW y \in Seq(Token), NEW z \in Seq(Token)
      PROVE  Cat(y, Cat(z, c)) = Cat(Cat(y, z), c)
  BY CatAssociative
<1>3. Cat(Extended(a, Head(b)), Cat(Tail(b), c)) = Cat(Cat(Extended(a, Head(b)), Tail(b)), c)
  BY <1>1, <1>2
<1>4. Cat(a, Cat(b, c)) = Cat(Cat(a, b), c)
  BY <1>2
<1> QED
  BY <1>1, <1>3, <1>4

LEMMA LineIsCat ==
  ASSUME NEW m, NEW e, NEW g, NEW b, NEW o
  PROVE  Line(m, e, g, b, o) = Cat(m, Cat(e, Cat(g, Cat(b, o))))
BY DEF Line, Cat

LEMMA LineExtended ==
  ASSUME NEW m \in Seq(Token), NEW e \in Seq(Token), NEW g \in Seq(Token),
         NEW b \in Seq(Token), NEW o \in Seq(Token), NEW x \in Token
  PROVE  Line(m, e, g, b, Extended(o, x)) = Extended(Line(m, e, g, b, o), x)
BY CatExtended, LineIsCat

LEMMA LineExtendedLast ==
  ASSUME NEW m \in Seq(Token), NEW e \in Seq(Token), NEW g \in Seq(Token),
         NEW b \in Seq(Token), NEW x \in Token
  PROVE  Line(m, e, g, Extended(b, x), <<>>) = Extended(Line(m, e, g, b, <<>>), x)
<1>1. Extended(b, x) \in Seq(Token)
  BY CatExtended
<1>2. Cat(Extended(b, x), <<>>) = Extended(b, x) /\ Cat(b, <<>>) = b
  BY <1>1, ConcatEmptySeq DEF Cat
<1> QED
  BY <1>2, CatExtended, LineIsCat

LEMMA LineHandsOver ==
  ASSUME NEW m \in Seq(Token), NEW e \in Seq(Token), NEW g \in Seq(Token),
         NEW b \in Seq(Token), NEW o \in Seq(Token)
  PROVE  /\ e # <<>> => Line(Extended(m, Head(e)), Tail(e), g, b, o) = Line(m, e, g, b, o)
         /\ g # <<>> => Line(m, Extended(e, Head(g)), Tail(g), b, o) = Line(m, e, g, b, o)
         /\ b # <<>> => Line(m, e, Extended(g, Head(b)), Tail(b), o) = Line(m, e, g, b, o)
         /\ o # <<>> => Line(m, e, g, Extended(b, Head(o)), Tail(o)) = Line(m, e, g, b, o)
<1>1. Cat(b, o) \in Seq(Token) /\ Cat(g, Cat(b, o)) \in Seq(Token)
  BY CatExtended, TokenFacts
<1>2. o # <<>> => Cat(Extended(b, Head(o)), Tail(o)) = Cat(b, o)
  BY CatHandsOver
<1>3. b # <<>> => Cat(Extended(g, Head(b)), Cat(Tail(b), o)) = Cat(g, Cat(b, o))
  BY CatHandsOverBefore
<1>4. g # <<>> => Cat(Extended(e, Head(g)), Cat(Tail(g), Cat(b, o))) = Cat(e, Cat(g, Cat(b, o)))
  BY <1>1, CatHandsOverBefore
<1>5. e # <<>> => Cat(Extended(m, Head(e)), Cat(Tail(e), Cat(g, Cat(b, o))))
                    = Cat(m, Cat(e, Cat(g, Cat(b, o))))
  BY <1>1, CatHandsOverBefore
<1> QED
  BY <1>2, <1>3, <1>4, <1>5, LineIsCat

-----------------------------------------------------------------------------
(* Type correctness.                                                       *)

LEMMA InitTypeOK == Init => TypeOK
<1> SUFFICES ASSUME Init PROVE TypeOK
  OBVIOUS
<1> USE PipelineAssumption DEF Init
<1>1. stdout \in Seq(Token) /\ Len(stdout) <= StdoutCap
  OBVIOUS
<1>2. /\ gzBuf \in Seq(Token)
      /\ gzSlot \in Seq(Token) /\ Len(gzSlot) <= 1
      /\ encSlot \in Seq(Token) /\ Len(encSlot) <= 1
  OBVIOUS
<1>3. made \in 0..Whole
  OBVIOUS
<1> QED
  BY <1>1, <1>2, <1>3 DEF TypeOK

LEMMA NextTypeOK == TypeOK /\ [Next]_vars => TypeOK'
<1> SUFFICES ASSUME TypeOK, [Next]_vars PROVE TypeOK'
  OBVIOUS
<1> USE PipelineAssumption, TokenFacts
    DEF TypeOK, mainVars, dumpVars, gzVars, encVars, driveVars
<1>1. CASE Dump
  <2>1. CASE DumpWrites BY <2>1 DEF DumpWrites
  <2>2. CASE DumpCloses BY <2>2 DEF DumpCloses
  <2>3. CASE DumpExits BY <2>3 DEF DumpExits
  <2> QED BY <1>1, <2>1, <2>2, <2>3 DEF Dump
<1>2. CASE Gz
  <2>1. CASE GzRead BY <2>1 DEF GzRead
  <2>2. CASE GzWrite BY <2>2 DEF GzWrite
  <2>3. CASE GzReadEOF BY <2>3 DEF GzReadEOF
  <2>4. CASE GzReadError BY <2>4 DEF GzReadError
  <2>5. CASE GzCloses BY <2>5 DEF GzCloses
  <2>6. CASE GzBroken BY <2>6 DEF GzBroken
  <2> QED BY <1>2, <2>1, <2>2, <2>3, <2>4, <2>5, <2>6 DEF Gz
<1>3. CASE Enc
  <2>1. CASE EncWriteIV BY <2>1 DEF EncWriteIV
  <2>2. CASE EncCopy BY <2>2 DEF EncCopy
  <2>3. CASE EncReadEOF BY <2>3 DEF EncReadEOF
  <2>4. CASE EncReadError BY <2>4 DEF EncReadError
  <2>5. CASE EncBroken
    <3>1. gzSlot' = gzSlot \/ gzSlot' = <<>>
      BY <2>5 DEF EncBroken
    <3>2. gzSlot' \in Seq(Token) /\ Len(gzSlot') <= 1
      <4>1. CASE gzSlot' = gzSlot BY <4>1
      <4>2. CASE gzSlot' = <<>> BY <4>2
      <4> QED BY <3>1, <4>1, <4>2
    <3> QED
      BY <2>5, <3>2 DEF EncBroken
  <2> QED BY <1>3, <2>1, <2>2, <2>3, <2>4, <2>5 DEF Enc
<1>4. CASE Upload
  <2>1. CASE UploadRead BY <2>1 DEF UploadRead
  <2>2. CASE UploadSends BY <2>2 DEF UploadSends
  <2>3. CASE UploadSendFails BY <2>3 DEF UploadSendFails
  <2>4. CASE UploadReadEOF BY <2>4 DEF UploadReadEOF
  <2>5. CASE UploadReadError BY <2>5 DEF UploadReadError
  <2>6. CASE UploadCommits BY <2>6 DEF UploadCommits
  <2>7. CASE UploadCommitFails
    <3>1. stored' \in Seq(Token)
      BY <2>7 DEF UploadCommitFails
    <3> QED
      BY <2>7, <3>1 DEF UploadCommitFails
  <2> QED BY <1>4, <2>1, <2>2, <2>3, <2>4, <2>5, <2>6, <2>7 DEF Upload
<1>5. CASE Main
  <2>1. CASE StreamStarts BY <2>1 DEF StreamStarts
  <2>2. CASE StreamFails BY <2>2 DEF StreamFails
  <2>3. CASE EncryptorStarts BY <2>3 DEF EncryptorStarts
  <2>4. CASE KeyRejected BY <2>4 DEF KeyRejected
  <2>5. CASE Connects BY <2>5 DEF Connects
  <2>6. CASE ConnectFails BY <2>6 DEF ConnectFails
  <2>7. CASE WaitDump BY <2>7 DEF WaitDump
  <2>8. CASE CleanupDeletes BY <2>8 DEF CleanupDeletes
  <2>9. CASE CleanupEnds BY <2>9 DEF CleanupEnds
  <2>10. CASE CloseEncrypted BY <2>10 DEF CloseEncrypted
  <2>11. CASE CloseCompressed BY <2>11 DEF CloseCompressed
  <2> QED BY <1>5, <1>4, <2>1, <2>2, <2>3, <2>4, <2>5, <2>6, <2>7, <2>8, <2>9, <2>10, <2>11 DEF Main
<1>6. CASE Operator
  <2>1. CASE CodeAccepted BY <2>1 DEF CodeAccepted
  <2>2. CASE CodeRefused BY <2>2 DEF CodeRefused
  <2>3. CASE Cancel BY <2>3 DEF Cancel
  <2> QED BY <1>6, <2>1, <2>2, <2>3 DEF Operator
<1>7. CASE Terminated BY <1>7 DEF Terminated, vars
<1>8. CASE UNCHANGED vars BY <1>8 DEF vars
<1> QED BY <1>1, <1>2, <1>3, <1>5, <1>6, <1>7, <1>8 DEF Next

-----------------------------------------------------------------------------
(* The phases: everything in IInv that does not look at the data.          *)

LEMMA ControlStep ==
  IInv /\ [Next]_vars => PhaseInv' /\ DumpInv' /\ GzInv' /\ EncInv' /\ WaitInv'
<1> SUFFICES ASSUME IInv, [Next]_vars
             PROVE  PhaseInv' /\ DumpInv' /\ GzInv' /\ EncInv' /\ WaitInv'
  OBVIOUS
<1> USE DEF IInv, TypeOK, PhaseInv, DumpInv, GzInv, EncInv, WaitInv, DriveInv, Working,
            OutputEnded, mainVars, dumpVars, gzVars, encVars, driveVars
<1>1. CASE Dump
  <2>1. CASE DumpWrites BY <2>1 DEF DumpWrites
  <2>2. CASE DumpCloses BY <2>2 DEF DumpCloses
  <2>3. CASE DumpExits BY <2>3 DEF DumpExits
  <2> QED BY <1>1, <2>1, <2>2, <2>3 DEF Dump
<1>2. CASE Gz
  <2>1. CASE GzRead BY <2>1 DEF GzRead
  <2>2. CASE GzWrite BY <2>2 DEF GzWrite
  <2>3. CASE GzReadEOF BY <2>3 DEF GzReadEOF
  <2>4. CASE GzReadError BY <2>4 DEF GzReadError
  <2>5. CASE GzCloses BY <2>5 DEF GzCloses
  <2>6. CASE GzBroken BY <2>6 DEF GzBroken
  <2> QED BY <1>2, <2>1, <2>2, <2>3, <2>4, <2>5, <2>6 DEF Gz
<1>3. CASE Enc
  <2>1. CASE EncWriteIV BY <2>1 DEF EncWriteIV
  <2>2. CASE EncCopy BY <2>2 DEF EncCopy
  <2>3. CASE EncReadEOF BY <2>3 DEF EncReadEOF
  <2>4. CASE EncReadError BY <2>4 DEF EncReadError
  <2>5. CASE EncBroken BY <2>5 DEF EncBroken
  <2> QED BY <1>3, <2>1, <2>2, <2>3, <2>4, <2>5 DEF Enc
<1>4. CASE Upload
  <2>1. CASE UploadRead BY <2>1 DEF UploadRead
  <2>2. CASE UploadSends BY <2>2 DEF UploadSends
  <2>3. CASE UploadSendFails BY <2>3 DEF UploadSendFails
  <2>4. CASE UploadReadEOF BY <2>4 DEF UploadReadEOF
  <2>5. CASE UploadReadError BY <2>5 DEF UploadReadError
  <2>6. CASE UploadCommits BY <2>6 DEF UploadCommits
  <2>7. CASE UploadCommitFails BY <2>7 DEF UploadCommitFails
  <2> QED BY <1>4, <2>1, <2>2, <2>3, <2>4, <2>5, <2>6, <2>7 DEF Upload
<1>5. CASE Main
  <2>1. CASE StreamStarts BY <2>1 DEF StreamStarts
  <2>2. CASE StreamFails BY <2>2 DEF StreamFails
  <2>3. CASE EncryptorStarts BY <2>3 DEF EncryptorStarts
  <2>4. CASE KeyRejected BY <2>4 DEF KeyRejected
  <2>5. CASE Connects BY <2>5 DEF Connects
  <2>6. CASE ConnectFails BY <2>6 DEF ConnectFails
  <2>7. CASE WaitDump BY <2>7 DEF WaitDump
  <2>8. CASE CleanupDeletes BY <2>8 DEF CleanupDeletes
  <2>9. CASE CleanupEnds BY <2>9 DEF CleanupEnds
  <2>10. CASE CloseEncrypted BY <2>10 DEF CloseEncrypted
  <2>11. CASE CloseCompressed BY <2>11 DEF CloseCompressed
  <2> QED BY <1>5, <1>4, <2>1, <2>2, <2>3, <2>4, <2>5, <2>6, <2>7, <2>8, <2>9, <2>10, <2>11 DEF Main
<1>6. CASE Operator
  <2>1. CASE CodeAccepted BY <2>1 DEF CodeAccepted
  <2>2. CASE CodeRefused BY <2>2 DEF CodeRefused
  <2>3. CASE Cancel BY <2>3 DEF Cancel
  <2> QED BY <1>6, <2>1, <2>2, <2>3 DEF Operator
<1>7. CASE Terminated BY <1>7 DEF Terminated, vars
<1>8. CASE UNCHANGED vars BY <1>8 DEF vars
<1> QED BY <1>1, <1>2, <1>3, <1>5, <1>6, <1>7, <1>8 DEF Next

-----------------------------------------------------------------------------
(* The data: a step hands bytes on, or it adds at the end of InFlight what *)
(* it adds at the end of Expected.                                         *)

LEMMA BufferTypes ==
  ASSUME TypeOK
  PROVE  /\ media \in Seq(Token) /\ encSlot \in Seq(Token) /\ gzSlot \in Seq(Token)
         /\ gzBuf \in Seq(Token) /\ stdout \in Seq(Token)
         /\ Started \in Seq(Token) /\ Pieces(made) \in Seq(Token) /\ Ended \in Seq(Token)
BY PiecesType, TokenFacts DEF TypeOK, Started, Ended

LEMMA DumpWritesConserves ==
  ASSUME TypeOK, GzInv, DumpWrites, InFlight = Expected
  PROVE  InFlight' = Expected'
<1>1. made \in 0..Whole /\ made < Whole /\ made + 1 \in Token
  BY TokenFacts, PipelineAssumption DEF TypeOK, DumpWrites
<1>2. InFlight' = Extended(InFlight, made + 1)
  <2>1. InFlight' = Line(media, encSlot, gzSlot, gzBuf, Extended(stdout, made + 1))
    BY DEF DumpWrites, InFlight, Extended, gzVars, encVars, driveVars
  <2> QED
    BY <1>1, <2>1, BufferTypes, LineExtended DEF InFlight
<1>3. Expected' = Extended(Expected, made + 1)
  <2>1. Ended = <<>> /\ Ended' = <<>> /\ Started' = Started
    BY DEF GzInv, OutputEnded, DumpWrites, Ended, Started, gzVars, encVars
  <2>2. Pieces(made + 1) = Extended(Pieces(made), made + 1)
    BY <1>1, PiecesGrow DEF Extended
  <2>3. Expected = Cat(Started, Pieces(made)) /\ Expected' = Cat(Started, Pieces(made + 1))
    <3>1. Pieces(made + 1) \in Seq(Token)
      BY <1>1, <2>2, BufferTypes, CatExtended
    <3>2. Pieces(made) \o <<>> = Pieces(made) /\ Pieces(made + 1) \o <<>> = Pieces(made + 1)
      BY <3>1, BufferTypes, ConcatEmptySeq
    <3> QED
      BY <2>1, <3>2 DEF Expected, DumpWrites, Cat
  <2> QED
    BY <1>1, <2>2, <2>3, BufferTypes, CatExtended
<1> QED
  BY <1>2, <1>3

LEMMA GzReadEOFConserves ==
  ASSUME TypeOK, GzInv, GzReadEOF, InFlight = Expected
  PROVE  InFlight' = Expected'
<1>1. InFlight' = Extended(InFlight, Trailer)
  <2>1. InFlight' = Line(media, encSlot, gzSlot, Extended(gzBuf, Trailer), <<>>)
    BY DEF GzReadEOF, InFlight, Extended, dumpVars, encVars, driveVars
  <2>2. InFlight = Line(media, encSlot, gzSlot, gzBuf, <<>>)
    BY DEF GzReadEOF, InFlight
  <2> QED
    BY <2>1, <2>2, TokenFacts, BufferTypes, LineExtendedLast
<1>2. Expected' = Extended(Expected, Trailer)
  <2>1. Ended = <<>> /\ Ended' = <<Trailer>> /\ Started' = Started
    BY DEF GzInv, GzReadEOF, Ended, Started, encVars
  <2>2. Pieces(made) \o <<>> = Pieces(made)
        /\ Pieces(made) \o <<Trailer>> = Extended(Pieces(made), Trailer)
    BY TokenFacts, BufferTypes, ConcatEmptySeq, AppendIsConcat DEF Extended
  <2>3. Expected = Cat(Started, Pieces(made))
        /\ Expected' = Cat(Started, Extended(Pieces(made), Trailer))
    BY <2>1, <2>2 DEF GzReadEOF, Expected, Cat, dumpVars
  <2> QED
    BY <2>3, TokenFacts, BufferTypes, CatExtended
<1> QED
  BY <1>1, <1>2

LEMMA EncWriteIVConserves ==
  ASSUME TypeOK, EncInv, EncWriteIV, InFlight = Expected
  PROVE  InFlight' = Expected'
<1>1. /\ media = <<>> /\ encSlot = <<>> /\ encSlot' = <<IV>>
      /\ Started = <<>> /\ Started' = <<IV>> /\ Ended' = Ended
  BY DEF EncInv, EncWriteIV, Started, Ended, gzVars
<1> DEFINE rest == gzSlot \o (gzBuf \o stdout)
           dumped == Pieces(made) \o Ended
<1>2. /\ rest \in Seq(Token) /\ <<IV>> \in Seq(Token) /\ <<IV>> \o rest \in Seq(Token)
      /\ dumped \in Seq(Token)
  BY TokenFacts, BufferTypes, ConcatProperties
<1>3. InFlight = media \o (encSlot \o rest) /\ InFlight' = media \o (<<IV>> \o rest)
      /\ Expected = Started \o dumped /\ Expected' = <<IV>> \o dumped
  BY <1>1 DEF EncWriteIV, InFlight, Line, Expected, dumpVars, gzVars, driveVars
<1> HIDE DEF rest, dumped
<1>4. InFlight = rest /\ InFlight' = <<IV>> \o rest /\ Expected = dumped
  BY <1>1, <1>2, <1>3, ConcatEmptySeq
<1> QED
  BY <1>3, <1>4

(* Bytes that are handed on stay where they are in InFlight.               *)
LEMMA HandOverConserves ==
  ASSUME TypeOK, GzRead \/ GzWrite \/ EncCopy \/ UploadRead
  PROVE  InFlight' = InFlight /\ Expected' = Expected
<1> USE DEF mainVars, dumpVars, gzVars, encVars, driveVars
<1>1. Expected' = Expected
  BY DEF Expected, Started, Ended, GzRead, GzWrite, EncCopy, UploadRead
<1>2. CASE GzRead
  <2>1. InFlight' = Line(media, encSlot, gzSlot, Extended(gzBuf, Head(stdout)), Tail(stdout))
    BY <1>2 DEF GzRead, InFlight, Extended
  <2>2. stdout # <<>>
    BY <1>2 DEF GzRead
  <2> QED
    BY <1>1, <2>1, <2>2, BufferTypes, LineHandsOver DEF InFlight
<1>3. CASE GzWrite
  <2>1. InFlight' = Line(media, encSlot, Extended(gzSlot, Head(gzBuf)), Tail(gzBuf), stdout)
    BY <1>3 DEF GzWrite, InFlight, Extended
  <2>2. gzBuf # <<>>
    BY <1>3 DEF GzWrite
  <2> QED
    BY <1>1, <2>1, <2>2, BufferTypes, LineHandsOver DEF InFlight
<1>4. CASE EncCopy
  <2>1. InFlight' = Line(media, Extended(encSlot, Head(gzSlot)), Tail(gzSlot), gzBuf, stdout)
    BY <1>4 DEF EncCopy, InFlight, Extended
  <2>2. gzSlot # <<>>
    BY <1>4 DEF EncCopy
  <2> QED
    BY <1>1, <2>1, <2>2, BufferTypes, LineHandsOver DEF InFlight
<1>5. CASE UploadRead
  <2>1. InFlight' = Line(Extended(media, Head(encSlot)), Tail(encSlot), gzSlot, gzBuf, stdout)
    BY <1>5 DEF UploadRead, InFlight, Extended
  <2>2. encSlot # <<>>
    BY <1>5 DEF UploadRead
  <2> QED
    BY <1>1, <2>1, <2>2, BufferTypes, LineHandsOver DEF InFlight
<1> QED
  BY <1>2, <1>3, <1>4, <1>5

LEMMA ConservedStep == IInv /\ [Next]_vars => Conserved'
<1> SUFFICES ASSUME IInv, [Next]_vars, encR' = "open", gz' # "salvage", gzW' # "err"
             PROVE  InFlight' = Expected'
  BY DEF Conserved
<1> USE DEF IInv, PhaseInv, DumpInv, GzInv, EncInv, Conserved, OutputEnded,
            mainVars, dumpVars, gzVars, encVars, driveVars
<1>1. CASE Dump
  <2>1. CASE DumpWrites BY <2>1, DumpWritesConserves DEF DumpWrites
  <2>2. CASE DumpCloses BY <2>2 DEF DumpCloses, InFlight, Expected, Started, Ended
  <2>3. CASE DumpExits BY <2>3 DEF DumpExits, InFlight, Expected, Started, Ended
  <2> QED BY <1>1, <2>1, <2>2, <2>3 DEF Dump
<1>2. CASE Gz
  <2>1. CASE GzRead BY <2>1, HandOverConserves DEF GzRead
  <2>2. CASE GzWrite BY <2>2, HandOverConserves DEF GzWrite
  <2>3. CASE GzReadEOF BY <2>3, GzReadEOFConserves DEF GzReadEOF
  <2>4. CASE GzReadError BY <2>4 DEF GzReadError, InFlight, Expected, Started, Ended
  <2>5. CASE GzCloses BY <2>5 DEF GzCloses, InFlight, Expected, Started, Ended
  <2>6. CASE GzBroken BY <2>6 DEF GzBroken, InFlight, Expected, Started, Ended
  <2> QED BY <1>2, <2>1, <2>2, <2>3, <2>4, <2>5, <2>6 DEF Gz
<1>3. CASE Enc
  <2>1. CASE EncWriteIV BY <2>1, EncWriteIVConserves DEF EncWriteIV
  <2>2. CASE EncCopy BY <2>2, HandOverConserves DEF EncCopy
  <2>3. CASE EncReadEOF BY <2>3 DEF EncReadEOF, InFlight, Expected, Started, Ended
  <2>4. CASE EncReadError BY <2>4 DEF EncReadError, InFlight, Expected, Started, Ended
  <2>5. CASE EncBroken BY <2>5 DEF EncBroken, InFlight, Expected, Started, Ended
  <2> QED BY <1>3, <2>1, <2>2, <2>3, <2>4, <2>5 DEF Enc
<1>4. CASE Upload
  <2>1. CASE UploadRead BY <2>1, HandOverConserves DEF UploadRead
  <2>2. CASE UploadSends BY <2>2 DEF UploadSends, InFlight, Expected, Started, Ended
  <2>3. CASE UploadSendFails BY <2>3 DEF UploadSendFails, InFlight, Expected, Started, Ended
  <2>4. CASE UploadReadEOF BY <2>4 DEF UploadReadEOF, InFlight, Expected, Started, Ended
  <2>5. CASE UploadReadError BY <2>5 DEF UploadReadError, InFlight, Expected, Started, Ended
  <2>6. CASE UploadCommits BY <2>6 DEF UploadCommits, InFlight, Expected, Started, Ended
  <2>7. CASE UploadCommitFails BY <2>7 DEF UploadCommitFails, InFlight, Expected, Started, Ended
  <2> QED BY <1>4, <2>1, <2>2, <2>3, <2>4, <2>5, <2>6, <2>7 DEF Upload
<1>5. CASE Main
  <2>1. CASE StreamStarts BY <2>1 DEF StreamStarts, InFlight, Expected, Started, Ended
  <2>2. CASE StreamFails BY <2>2 DEF StreamFails, InFlight, Expected, Started, Ended
  <2>3. CASE EncryptorStarts BY <2>3 DEF EncryptorStarts, InFlight, Expected, Started, Ended
  <2>4. CASE KeyRejected BY <2>4 DEF KeyRejected, InFlight, Expected, Started, Ended
  <2>5. CASE Connects BY <2>5 DEF Connects, InFlight, Expected, Started, Ended
  <2>6. CASE ConnectFails BY <2>6 DEF ConnectFails, InFlight, Expected, Started, Ended
  <2>7. CASE WaitDump BY <2>7 DEF WaitDump, InFlight, Expected, Started, Ended
  <2>8. CASE CleanupDeletes BY <2>8 DEF CleanupDeletes, InFlight, Expected, Started, Ended
  <2>9. CASE CleanupEnds BY <2>9 DEF CleanupEnds, InFlight, Expected, Started, Ended
  <2>10. CASE CloseEncrypted BY <2>10 DEF CloseEncrypted, InFlight, Expected, Started, Ended
  <2>11. CASE CloseCompressed BY <2>11 DEF CloseCompressed, InFlight, Expected, Started, Ended
  <2> QED BY <1>5, <1>4, <2>1, <2>2, <2>3, <2>4, <2>5, <2>6, <2>7, <2>8, <2>9, <2>10, <2>11 DEF Main
<1>6. CASE Operator
  <2>1. CASE CodeAccepted BY <2>1 DEF CodeAccepted, InFlight, Expected, Started, Ended
  <2>2. CASE CodeRefused BY <2>2 DEF CodeRefused, InFlight, Expected, Started, Ended
  <2>3. CASE Cancel BY <2>3 DEF Cancel, InFlight, Expected, Started, Ended
  <2> QED BY <1>6, <2>1, <2>2, <2>3 DEF Operator
<1>7. CASE Terminated BY <1>7 DEF Terminated, vars, InFlight, Expected, Started, Ended
<1>8. CASE UNCHANGED vars BY <1>8 DEF vars, InFlight, Expected, Started, Ended
<1> QED BY <1>1, <1>2, <1>3, <1>5, <1>6, <1>7, <1>8 DEF Next

-----------------------------------------------------------------------------
(* What the upload has read when it sees end-of-file.                      *)

LEMMA EOFMeansArchive ==
  ASSUME IInv, run = "upload", encW = "eof"
  PROVE  media = Archive(made)
<1>1. /\ encSlot = <<>> /\ gzSlot = <<>> /\ gzBuf = <<>> /\ stdout = <<>>
      /\ gzW = "eof" /\ enc = "done" /\ encR = "open" /\ gz # "salvage"
  BY DEF IInv, PhaseInv, GzInv, EncInv, Working
<1>2. Started = <<IV>> /\ Ended = <<Trailer>>
  BY <1>1 DEF Started, Ended
<1>3. media \in Seq(Token)
  BY DEF IInv, TypeOK
<1>4. InFlight = Expected
  BY <1>1 DEF IInv, Conserved
<1>5. <<>> \o <<>> = <<>> /\ media \o <<>> = media
  BY <1>3, TokenFacts, ConcatEmptySeq
<1>6. InFlight = media
  BY <1>1, <1>5 DEF InFlight, Line
<1>7. Expected = Archive(made)
  BY <1>2 DEF Expected, Archive
<1> QED
  BY <1>4, <1>6, <1>7

LEMMA DriveStep == IInv /\ [Next]_vars => DriveInv'
<1> SUFFICES ASSUME IInv, [Next]_vars PROVE DriveInv'
  OBVIOUS
<1> USE DEF IInv, PhaseInv, DumpInv, GzInv, EncInv, DriveInv, Working, OutputEnded,
            mainVars, dumpVars, gzVars, encVars, driveVars
<1>1. CASE Dump
  <2>1. CASE DumpWrites BY <2>1 DEF DumpWrites
  <2>2. CASE DumpCloses BY <2>2 DEF DumpCloses
  <2>3. CASE DumpExits BY <2>3 DEF DumpExits
  <2> QED BY <1>1, <2>1, <2>2, <2>3 DEF Dump
<1>2. CASE Gz
  <2>1. CASE GzRead BY <2>1 DEF GzRead
  <2>2. CASE GzWrite BY <2>2 DEF GzWrite
  <2>3. CASE GzReadEOF BY <2>3 DEF GzReadEOF
  <2>4. CASE GzReadError BY <2>4 DEF GzReadError
  <2>5. CASE GzCloses BY <2>5 DEF GzCloses
  <2>6. CASE GzBroken BY <2>6 DEF GzBroken
  <2> QED BY <1>2, <2>1, <2>2, <2>3, <2>4, <2>5, <2>6 DEF Gz
<1>3. CASE Enc
  <2>1. CASE EncWriteIV BY <2>1 DEF EncWriteIV
  <2>2. CASE EncCopy BY <2>2 DEF EncCopy
  <2>3. CASE EncReadEOF BY <2>3 DEF EncReadEOF
  <2>4. CASE EncReadError BY <2>4 DEF EncReadError
  <2>5. CASE EncBroken BY <2>5 DEF EncBroken
  <2> QED BY <1>3, <2>1, <2>2, <2>3, <2>4, <2>5 DEF Enc
<1>4. CASE Upload
  <2>1. CASE UploadRead BY <2>1 DEF UploadRead
  <2>2. CASE UploadSends BY <2>2 DEF UploadSends
  <2>3. CASE UploadSendFails BY <2>3 DEF UploadSendFails
  <2>4. CASE UploadReadEOF BY <2>4, EOFMeansArchive DEF UploadReadEOF
  <2>5. CASE UploadReadError BY <2>5 DEF UploadReadError
  <2>6. CASE UploadCommits BY <2>6 DEF UploadCommits
  <2>7. CASE UploadCommitFails BY <2>7 DEF UploadCommitFails
  <2> QED BY <1>4, <2>1, <2>2, <2>3, <2>4, <2>5, <2>6, <2>7 DEF Upload
<1>5. CASE Main
  <2>1. CASE StreamStarts BY <2>1 DEF StreamStarts
  <2>2. CASE StreamFails BY <2>2 DEF StreamFails
  <2>3. CASE EncryptorStarts BY <2>3 DEF EncryptorStarts
  <2>4. CASE KeyRejected BY <2>4 DEF KeyRejected
  <2>5. CASE Connects BY <2>5 DEF Connects
  <2>6. CASE ConnectFails BY <2>6 DEF ConnectFails
  <2>7. CASE WaitDump BY <2>7 DEF WaitDump
  <2>8. CASE CleanupDeletes BY <2>8 DEF CleanupDeletes
  <2>9. CASE CleanupEnds BY <2>9 DEF CleanupEnds
  <2>10. CASE CloseEncrypted BY <2>10 DEF CloseEncrypted
  <2>11. CASE CloseCompressed BY <2>11 DEF CloseCompressed
  <2> QED BY <1>5, <1>4, <2>1, <2>2, <2>3, <2>4, <2>5, <2>6, <2>7, <2>8, <2>9, <2>10, <2>11 DEF Main
<1>6. CASE Operator
  <2>1. CASE CodeAccepted BY <2>1 DEF CodeAccepted
  <2>2. CASE CodeRefused BY <2>2 DEF CodeRefused
  <2>3. CASE Cancel BY <2>3 DEF Cancel
  <2> QED BY <1>6, <2>1, <2>2, <2>3 DEF Operator
<1>7. CASE Terminated BY <1>7 DEF Terminated, vars
<1>8. CASE UNCHANGED vars BY <1>8 DEF vars
<1> QED BY <1>1, <1>2, <1>3, <1>5, <1>6, <1>7, <1>8 DEF Next

\* An object is only made by the last request, of all that was read.
LEMMA StoredStep == IInv /\ [Next]_vars => StoredIsArchive'
<1> SUFFICES ASSUME IInv, [Next]_vars PROVE StoredIsArchive'
  OBVIOUS
<1>1. CASE stored' = stored
  BY <1>1 DEF IInv, StoredIsArchive
<1>2. CASE run = "commit" /\ stored' \in {<<>>, media}
  BY <1>2 DEF IInv, TypeOK, DriveInv, StoredIsArchive
<1>3. stored' = stored \/ (run = "commit" /\ stored' \in {<<>>, media})
  BY DEF Next, Dump, Gz, Enc, Upload, Main, Operator, Terminated, vars, driveVars,
         DumpWrites, DumpCloses, DumpExits, GzRead, GzWrite, GzReadEOF, GzReadError, GzCloses, GzBroken,
         EncWriteIV, EncCopy, EncReadEOF, EncReadError, EncBroken, StreamStarts, StreamFails,
         EncryptorStarts, KeyRejected, Connects, ConnectFails, UploadRead, UploadSends,
         UploadSendFails, UploadReadEOF, UploadReadError, UploadCommits, UploadCommitFails,
         WaitDump, CleanupDeletes, CleanupEnds, CloseEncrypted, CloseCompressed,
         CodeAccepted, CodeRefused, Cancel
<1> QED
  BY <1>1, <1>2, <1>3

LEMMA InitIInv == Init => IInv
<1> SUFFICES ASSUME Init PROVE IInv
  OBVIOUS
<1>1. TypeOK
  BY InitTypeOK
<1>2. PhaseInv /\ DumpInv /\ GzInv /\ EncInv /\ WaitInv /\ DriveInv
  BY DEF Init, PhaseInv, DumpInv, OutputEnded, GzInv, EncInv, WaitInv, DriveInv, Working
<1>3. Conserved
  <2>1. Started = <<>> /\ Ended = <<>> /\ Pieces(0) = <<>>
    BY DEF Init, Started, Ended, Pieces
  <2>2. <<>> \o <<>> = <<>>
    BY TokenFacts, ConcatEmptySeq
  <2> QED
    BY <2>1, <2>2 DEF Init, Conserved, InFlight, Line, Expected
<1>4. StoredIsArchive
  BY DEF Init, StoredIsArchive
<1> QED
  BY <1>1, <1>2, <1>3, <1>4 DEF IInv

LEMMA NextIInv == IInv /\ [Next]_vars => IInv'
BY NextTypeOK, ControlStep, DriveStep, StoredStep, ConservedStep DEF IInv

-----------------------------------------------------------------------------
(* The theorems.                                                           *)

(* The inductive invariant holds in every reachable state, for every size  *)
(* of the dump and of the OS pipe.                                         *)
THEOREM Invariance == Spec => []IInv
BY InitIInv, NextIInv, PTL DEF Spec

(* Every variable keeps its type; the buffers keep their bounds.           *)
THEOREM TypeCorrect == Spec => []TypeOK
<1>1. IInv => TypeOK
  BY DEF IInv
<1> QED
  BY <1>1, Invariance, PTL

(* RunWithLogger reports success only for a whole archive.                 *)
THEOREM Success == Spec => []SuccessIsWhole
<1>1. IInv => SuccessIsWhole
  BY DEF IInv, DriveInv, SuccessIsWhole
<1> QED
  BY <1>1, Invariance, PTL

(* DeleteOlderThan deletes only when this run's whole archive is on Drive. *)
THEOREM Purge == Spec => []PurgeNeedsWhole
<1>1. IInv => PurgeNeedsWhole
  BY DEF IInv, DriveInv, DumpInv, PurgeNeedsWhole
<1> QED
  BY <1>1, Invariance, PTL

(* What a run leaves on Drive is the archive of the beginning of a dump.   *)
THEOREM Readable == Spec => []StoredIsArchive
<1>1. IInv => StoredIsArchive
  BY DEF IInv
<1> QED
  BY <1>1, Invariance, PTL

(* cmd.Wait is called only after pg_dump's output was read to its end.     *)
THEOREM Drained == Spec => []WaitAfterDrain
<1>1. IInv => WaitAfterDrain
  BY DEF IInv, DriveInv, WaitAfterDrain
<1> QED
  BY <1>1, Invariance, PTL

(* The four buffers lose, repeat and reorder nothing.                      *)
THEOREM Conservation == Spec => []Conserved
<1>1. IInv => Conserved
  BY DEF IInv
<1> QED
  BY <1>1, Invariance, PTL

-----------------------------------------------------------------------------
(* A run comes to an end: nobody waits for good, and it has no more steps  *)
(* than StepsLeft.                                                         *)

(* The upload waits for the encrypting goroutine, that for gzip, and gzip  *)
(* for pg_dump, which is stopped by a full pipe only; that is not empty.   *)
LEMMA GzReadyUnlessDone ==
  ASSUME IInv, gzSlot = <<>>, gz \notin {"off", "done"}
  PROVE  DumpReady \/ GzReady
<1>1. CASE gz = "copy"
  <2>1. stdoutR = "open" /\ dump # "absent" /\ (dump = "running" \/ OutputEnded)
    BY <1>1 DEF IInv, TypeOK, WaitInv, GzInv, OutputEnded
  <2>2. CASE stdout = <<>> /\ dump = "running"
    BY <2>1, <2>2, PipelineAssumption, TokenFacts DEF DumpReady
  <2> QED
    BY <1>1, <2>1, <2>2 DEF GzReady
<1>2. CASE gz \in {"close", "salvage"}
  BY <1>2 DEF GzReady
<1> QED
  BY <1>1, <1>2 DEF IInv, TypeOK

(* With its reader open, an encrypting goroutine that has nothing to pass  *)
(* on waits for gzip only.                                                 *)
LEMMA EncReadyUnlessDone ==
  ASSUME IInv, encSlot = <<>>, enc \notin {"off", "done"}
  PROVE  DumpReady \/ GzReady \/ EncReady
<1>1. CASE gzSlot = <<>> /\ gzW = "open"
  <2>1. gz \notin {"off", "done"}
    BY <1>1 DEF IInv, GzInv, DumpInv, PhaseInv, WaitInv, EncInv, TypeOK, Working
  <2> QED
    BY <1>1, <2>1, GzReadyUnlessDone
<1>2. CASE gzSlot # <<>> \/ gzW # "open"
  BY <1>2 DEF IInv, TypeOK, EncReady
<1> QED
  BY <1>1, <1>2

LEMMA SomebodyReady == IInv => NeverStuck
<1> SUFFICES ASSUME IInv, run # "authorize", ~Finished
             PROVE  DumpReady \/ GzReady \/ EncReady \/ MainReady
  BY DEF NeverStuck
<1>1. CASE run \notin {"upload", "wait", "returned"}
  BY <1>1 DEF MainReady
<1>2. CASE run = "upload"
  <2>1. CASE encSlot = <<>> /\ encW = "open"
    <3>1. enc \notin {"off", "done"}
      BY <1>2, <2>1 DEF IInv, EncInv, WaitInv
    <3> QED
      BY <2>1, <3>1, EncReadyUnlessDone
  <2> QED
    BY <1>2, <2>1 DEF MainReady
<1>3. CASE run = "wait"
  BY <1>3 DEF IInv, DriveInv, EncInv, GzInv, OutputEnded, DumpReady, MainReady
<1>4. CASE run = "returned" /\ enc \notin {"off", "done"}
  <2>1. encR = "closed"
    BY <1>4 DEF IInv, WaitInv
  <2>2. CASE encSlot = <<>>
    BY <1>4, <2>2, EncReadyUnlessDone
  <2>3. CASE encSlot # <<>>
    BY <1>4, <2>1, <2>3 DEF IInv, TypeOK, WaitInv, EncReady
  <2> QED
    BY <2>2, <2>3
<1>5. CASE run = "returned" /\ gz \notin {"off", "done"}
  <2>1. gzR = "closed"
    BY <1>5 DEF IInv, WaitInv, GzInv
  <2>2. CASE gzSlot = <<>>
    BY <1>5, <2>2, GzReadyUnlessDone
  <2>3. CASE gzSlot # <<>>
    BY <1>5, <2>1, <2>3 DEF IInv, TypeOK, GzReady
  <2> QED
    BY <2>2, <2>3
<1> QED
  BY <1>1, <1>2, <1>3, <1>4, <1>5 DEF Finished

(* For dumps and pipes of every size, somebody can always go on.           *)
THEOREM Progress == Spec => []NeverStuck
BY SomebodyReady, Invariance, PTL

(* The lengths of what the actions make of a buffer.                       *)
LEMMA Lengths ==
  ASSUME NEW s \in Seq(Token)
  PROVE  /\ Len(s) \in Nat
         /\ \A x \in Token : Len(Append(s, x)) = Len(s) + 1
         /\ s # <<>> => Len(Tail(s)) = Len(s) - 1 /\ Head(s) \in Token
BY HeadTailProperties, AppendProperties, LenProperties

LEMMA LengthsNow ==
  ASSUME TypeOK
  PROVE  /\ Len(stdout) \in Nat /\ Len(gzBuf) \in Nat /\ Len(gzSlot) \in Nat
         /\ Len(encSlot) \in Nat /\ Whole - made \in Nat
BY LenProperties, PipelineAssumption DEF TypeOK

SummandsNat ==
  /\ MainSteps \in Nat /\ DumpSteps \in Nat /\ GzSteps \in Nat
  /\ EncSteps \in Nat /\ OnceSteps \in Nat /\ DataSteps \in Nat

LEMMA SummandsAreNat == TypeOK => SummandsNat
<1> SUFFICES ASSUME TypeOK PROVE SummandsNat
  OBVIOUS
<1>1. MainSteps \in Nat
  BY DEF TypeOK, MainSteps
<1>2. DumpSteps \in Nat /\ GzSteps \in Nat /\ EncSteps \in Nat /\ OnceSteps \in Nat
  BY DEF DumpSteps, GzSteps, EncSteps, OnceSteps
<1>3. DataSteps \in Nat
  BY LengthsNow DEF DataSteps
<1> QED
  BY <1>1, <1>2, <1>3 DEF SummandsNat

LEMMA SummandsStayNat == TypeOK' => SummandsNat'
BY SummandsAreNat, PTL

(* A step of RunWithLogger alone: nothing is added to the other summands.  *)
LEMMA OnlyMainMoves ==
  ASSUME TypeOK, TypeOK', MainSteps' < MainSteps,
         UNCHANGED <<ctx, dump, made, stdout, gz, gzBuf, gzSlot, enc, encSlot, purged>>
  PROVE  StepsLeft' \in Nat /\ StepsLeft' < StepsLeft
<1>1. UNCHANGED <<DumpSteps, GzSteps, EncSteps, DataSteps, OnceSteps>>
  BY DEF DumpSteps, GzSteps, EncSteps, DataSteps, OnceSteps
<1> QED
  BY <1>1, SummandsAreNat, SummandsStayNat DEF SummandsNat, StepsLeft

LEMMA DumpShrinks ==
  ASSUME TypeOK, TypeOK', Dump, vars' # vars
  PROVE  StepsLeft' \in Nat /\ StepsLeft' < StepsLeft
<1> USE DEF mainVars, dumpVars, gzVars, encVars, driveVars, vars
<1>1. CASE DumpWrites
  <2>1. UNCHANGED <<MainSteps, DumpSteps, GzSteps, EncSteps, OnceSteps>>
    BY <1>1 DEF DumpWrites, MainSteps, DumpSteps, GzSteps, EncSteps, OnceSteps
  <2>2. DataSteps' = DataSteps - 1
    BY <1>1, LengthsNow, Lengths, TokenFacts, PipelineAssumption DEF TypeOK, DumpWrites, DataSteps
  <2> QED
    BY <2>1, <2>2, SummandsAreNat, SummandsStayNat DEF SummandsNat, StepsLeft
<1>2. CASE DumpExits
  <2>1. UNCHANGED <<MainSteps, GzSteps, EncSteps, DataSteps, OnceSteps>>
    BY <1>2 DEF DumpExits, MainSteps, GzSteps, EncSteps, DataSteps, OnceSteps
  <2>2. DumpSteps' < DumpSteps
    BY <1>2, LengthsNow DEF TypeOK, DumpExits, DumpSteps
  <2> QED
    BY <2>1, <2>2, SummandsAreNat, SummandsStayNat DEF SummandsNat, StepsLeft
<1>3. CASE DumpCloses
  <2>1. UNCHANGED <<MainSteps, GzSteps, EncSteps, DataSteps, OnceSteps>>
    BY <1>3 DEF DumpCloses, MainSteps, GzSteps, EncSteps, DataSteps, OnceSteps
  <2>2. DumpSteps' < DumpSteps
    BY <1>3, LengthsNow DEF TypeOK, DumpCloses, DumpSteps
  <2> QED
    BY <2>1, <2>2, SummandsAreNat, SummandsStayNat DEF SummandsNat, StepsLeft
<1> QED
  BY <1>1, <1>2, <1>3 DEF Dump

LEMMA GzShrinks ==
  ASSUME TypeOK, TypeOK', Gz, vars' # vars
  PROVE  StepsLeft' \in Nat /\ StepsLeft' < StepsLeft
<1> USE DEF mainVars, dumpVars, gzVars, encVars, driveVars, vars
<1>1. CASE GzRead
  <2>1. UNCHANGED <<MainSteps, DumpSteps, GzSteps, EncSteps, OnceSteps>>
    BY <1>1 DEF GzRead, MainSteps, DumpSteps, GzSteps, EncSteps, OnceSteps
  <2>2. DataSteps' = DataSteps - 1
    BY <1>1, LengthsNow, Lengths, TokenFacts, PipelineAssumption DEF TypeOK, GzRead, DataSteps
  <2> QED
    BY <2>1, <2>2, SummandsAreNat, SummandsStayNat DEF SummandsNat, StepsLeft
<1>2. CASE GzWrite
  <2>1. UNCHANGED <<MainSteps, DumpSteps, GzSteps, EncSteps, OnceSteps>>
    BY <1>2 DEF GzWrite, MainSteps, DumpSteps, GzSteps, EncSteps, OnceSteps
  <2>2. DataSteps' = DataSteps - 1
    BY <1>2, LengthsNow, Lengths, TokenFacts, PipelineAssumption DEF TypeOK, GzWrite, DataSteps
  <2> QED
    BY <2>1, <2>2, SummandsAreNat, SummandsStayNat DEF SummandsNat, StepsLeft
<1>3. CASE GzReadEOF
  <2>1. UNCHANGED <<MainSteps, DumpSteps, EncSteps, OnceSteps>>
    BY <1>3 DEF GzReadEOF, MainSteps, DumpSteps, EncSteps, OnceSteps
  <2>2. GzSteps' = GzSteps - 5
    BY <1>3 DEF TypeOK, GzReadEOF, GzSteps
  <2>3. DataSteps' = DataSteps + 4
    BY <1>3, LengthsNow, Lengths, TokenFacts, PipelineAssumption DEF TypeOK, GzReadEOF, DataSteps
  <2> QED
    BY <2>1, <2>2, <2>3, SummandsAreNat, SummandsStayNat DEF SummandsNat, StepsLeft
<1>4. CASE GzReadError
  <2>1. UNCHANGED <<MainSteps, DumpSteps, EncSteps, OnceSteps>>
    BY <1>4 DEF GzReadError, MainSteps, DumpSteps, EncSteps, OnceSteps
  <2>2. GzSteps' = GzSteps - 5
    BY <1>4 DEF TypeOK, GzReadError, GzSteps
  <2>3. DataSteps' = DataSteps + 4
    BY <1>4, LengthsNow, Lengths, TokenFacts, PipelineAssumption DEF TypeOK, GzReadError, DataSteps
  <2> QED
    BY <2>1, <2>2, <2>3, SummandsAreNat, SummandsStayNat DEF SummandsNat, StepsLeft
<1>5. CASE GzCloses
  <2>1. UNCHANGED <<MainSteps, DumpSteps, EncSteps, DataSteps, OnceSteps>>
    BY <1>5 DEF GzCloses, MainSteps, DumpSteps, EncSteps, DataSteps, OnceSteps
  <2>2. GzSteps' < GzSteps
    BY <1>5 DEF TypeOK, GzCloses, GzSteps
  <2> QED
    BY <2>1, <2>2, SummandsAreNat, SummandsStayNat DEF SummandsNat, StepsLeft
<1>6. CASE GzBroken
  <2>1. UNCHANGED <<MainSteps, DumpSteps, EncSteps, DataSteps, OnceSteps>>
    BY <1>6 DEF GzBroken, MainSteps, DumpSteps, EncSteps, DataSteps, OnceSteps
  <2>2. GzSteps' < GzSteps
    BY <1>6 DEF TypeOK, GzBroken, GzSteps
  <2> QED
    BY <2>1, <2>2, SummandsAreNat, SummandsStayNat DEF SummandsNat, StepsLeft
<1> QED
  BY <1>1, <1>2, <1>3, <1>4, <1>5, <1>6 DEF Gz

LEMMA EncShrinks ==
  ASSUME TypeOK, TypeOK', Enc, vars' # vars
  PROVE  StepsLeft' \in Nat /\ StepsLeft' < StepsLeft
<1> USE DEF mainVars, dumpVars, gzVars, encVars, driveVars, vars
<1>1. CASE EncWriteIV
  <2>1. UNCHANGED <<MainSteps, DumpSteps, GzSteps, OnceSteps>>
    BY <1>1 DEF EncWriteIV, MainSteps, DumpSteps, GzSteps, OnceSteps
  <2>2. EncSteps' = EncSteps - 3
    BY <1>1 DEF TypeOK, EncWriteIV, EncSteps
  <2>3. DataSteps' = DataSteps + 2
    BY <1>1, LengthsNow, Lengths, TokenFacts, PipelineAssumption DEF TypeOK, EncWriteIV, DataSteps
  <2> QED
    BY <2>1, <2>2, <2>3, SummandsAreNat, SummandsStayNat DEF SummandsNat, StepsLeft
<1>2. CASE EncCopy
  <2>1. UNCHANGED <<MainSteps, DumpSteps, GzSteps, EncSteps, OnceSteps>>
    BY <1>2 DEF EncCopy, MainSteps, DumpSteps, GzSteps, EncSteps, OnceSteps
  <2>2. DataSteps' = DataSteps - 1
    BY <1>2, LengthsNow, Lengths, TokenFacts, PipelineAssumption DEF TypeOK, EncCopy, DataSteps
  <2> QED
    BY <2>1, <2>2, SummandsAreNat, SummandsStayNat DEF SummandsNat, StepsLeft
<1>3. CASE EncReadEOF
  <2>1. UNCHANGED <<MainSteps, DumpSteps, GzSteps, DataSteps, OnceSteps>>
    BY <1>3 DEF EncReadEOF, MainSteps, DumpSteps, GzSteps, DataSteps, OnceSteps
  <2>2. EncSteps' < EncSteps
    BY <1>3 DEF TypeOK, EncReadEOF, EncSteps
  <2> QED
    BY <2>1, <2>2, SummandsAreNat, SummandsStayNat DEF SummandsNat, StepsLeft
<1>4. CASE EncReadError
  <2>1. UNCHANGED <<MainSteps, DumpSteps, GzSteps, DataSteps, OnceSteps>>
    BY <1>4 DEF EncReadError, MainSteps, DumpSteps, GzSteps, DataSteps, OnceSteps
  <2>2. EncSteps' < EncSteps
    BY <1>4 DEF TypeOK, EncReadError, EncSteps
  <2> QED
    BY <2>1, <2>2, SummandsAreNat, SummandsStayNat DEF SummandsNat, StepsLeft
<1>5. CASE EncBroken
  <2>1. UNCHANGED <<MainSteps, DumpSteps, GzSteps, OnceSteps>>
    BY <1>5 DEF EncBroken, MainSteps, DumpSteps, GzSteps, OnceSteps
  <2>2. EncSteps' < EncSteps
    BY <1>5 DEF TypeOK, EncBroken, EncSteps
  <2>3. DataSteps' <= DataSteps
    BY <1>5, LengthsNow, Lengths, TokenFacts, PipelineAssumption DEF TypeOK, EncBroken, DataSteps
  <2> QED
    BY <2>1, <2>2, <2>3, SummandsAreNat, SummandsStayNat DEF SummandsNat, StepsLeft
<1> QED
  BY <1>1, <1>2, <1>3, <1>4, <1>5 DEF Enc

LEMMA MainShrinks ==
  ASSUME TypeOK, TypeOK', PhaseInv, GzInv, Main \/ Operator, vars' # vars
  PROVE  StepsLeft' \in Nat /\ StepsLeft' < StepsLeft
<1> USE DEF mainVars, dumpVars, gzVars, encVars, driveVars, vars
<1>1. CASE UploadRead
  <2>1. UNCHANGED <<DumpSteps, GzSteps, EncSteps, OnceSteps>>
    BY <1>1 DEF UploadRead, DumpSteps, GzSteps, EncSteps, OnceSteps
  <2>2. MainSteps' = MainSteps + 1
    BY <1>1 DEF TypeOK, UploadRead, MainSteps
  <2>3. DataSteps' = DataSteps - 2
    BY <1>1, LengthsNow, Lengths, TokenFacts, PipelineAssumption DEF TypeOK, UploadRead, DataSteps
  <2> QED
    BY <2>1, <2>2, <2>3, SummandsAreNat, SummandsStayNat DEF SummandsNat, StepsLeft
<1>2. CASE StreamStarts
  <2>1. UNCHANGED <<EncSteps, DataSteps, OnceSteps>>
    BY <1>2 DEF StreamStarts, EncSteps, DataSteps, OnceSteps
  <2>2. MainSteps' < MainSteps
    BY <1>2 DEF TypeOK, StreamStarts, MainSteps
  <2>3. DumpSteps' < DumpSteps
    BY <1>2 DEF PhaseInv, StreamStarts, DumpSteps
  <2>4. GzSteps' < GzSteps
    BY <1>2 DEF PhaseInv, GzInv, StreamStarts, GzSteps
  <2> QED
    BY <2>1, <2>2, <2>3, <2>4, SummandsAreNat, SummandsStayNat DEF SummandsNat, StepsLeft
<1>3. CASE EncryptorStarts
  <2>1. UNCHANGED <<DumpSteps, GzSteps, DataSteps, OnceSteps>>
    BY <1>3 DEF EncryptorStarts, DumpSteps, GzSteps, DataSteps, OnceSteps
  <2>2. MainSteps' < MainSteps
    BY <1>3 DEF TypeOK, EncryptorStarts, MainSteps
  <2>3. EncSteps' < EncSteps
    BY <1>3 DEF PhaseInv, EncryptorStarts, EncSteps
  <2> QED
    BY <2>1, <2>2, <2>3, SummandsAreNat, SummandsStayNat DEF SummandsNat, StepsLeft
<1>4. CASE CleanupDeletes
  <2>1. UNCHANGED <<MainSteps, DumpSteps, GzSteps, EncSteps, DataSteps>>
    BY <1>4 DEF CleanupDeletes, MainSteps, DumpSteps, GzSteps, EncSteps, DataSteps
  <2>2. OnceSteps' < OnceSteps
    <3>1. purged' # purged
      BY <1>4, vars' # vars DEF CleanupDeletes
    <3>2. purged \in BOOLEAN /\ purged' = TRUE /\ ctx' = ctx
      BY <1>4 DEF TypeOK, CleanupDeletes
    <3>3. ~purged /\ purged'
      BY <3>1, <3>2, Zenon
    <3> QED
      BY <3>2, <3>3 DEF OnceSteps
  <2> QED
    BY <2>1, <2>2, SummandsAreNat, SummandsStayNat DEF SummandsNat, StepsLeft
<1>5. CASE Cancel
  <2>1. UNCHANGED <<MainSteps, DumpSteps, GzSteps, EncSteps, DataSteps>>
    BY <1>5 DEF Cancel, MainSteps, DumpSteps, GzSteps, EncSteps, DataSteps
  <2>2. OnceSteps' < OnceSteps
    BY <1>5 DEF TypeOK, Cancel, OnceSteps
  <2> QED
    BY <2>1, <2>2, SummandsAreNat, SummandsStayNat DEF SummandsNat, StepsLeft
<1>6. CASE StreamFails BY <1>6, OnlyMainMoves DEF TypeOK, StreamFails, MainSteps
<1>7. CASE KeyRejected BY <1>7, OnlyMainMoves DEF TypeOK, KeyRejected, MainSteps
<1>8. CASE Connects BY <1>8, OnlyMainMoves DEF TypeOK, Connects, MainSteps
<1>9. CASE ConnectFails BY <1>9, OnlyMainMoves DEF TypeOK, ConnectFails, MainSteps
<1>10. CASE UploadSends BY <1>10, OnlyMainMoves DEF TypeOK, UploadSends, MainSteps
<1>11. CASE UploadSendFails BY <1>11, OnlyMainMoves DEF TypeOK, UploadSendFails, MainSteps
<1>12. CASE UploadReadEOF BY <1>12, OnlyMainMoves DEF TypeOK, UploadReadEOF, MainSteps
<1>13. CASE UploadReadError BY <1>13, OnlyMainMoves DEF TypeOK, UploadReadError, MainSteps
<1>14. CASE UploadCommits BY <1>14, OnlyMainMoves DEF TypeOK, UploadCommits, MainSteps
<1>15. CASE UploadCommitFails BY <1>15, OnlyMainMoves DEF TypeOK, UploadCommitFails, MainSteps
<1>16. CASE WaitDump BY <1>16, OnlyMainMoves DEF TypeOK, WaitDump, MainSteps
<1>17. CASE CleanupEnds BY <1>17, OnlyMainMoves DEF TypeOK, CleanupEnds, MainSteps
<1>18. CASE CloseEncrypted BY <1>18, OnlyMainMoves DEF TypeOK, CloseEncrypted, MainSteps
<1>19. CASE CloseCompressed BY <1>19, OnlyMainMoves DEF TypeOK, CloseCompressed, MainSteps
<1>20. CASE CodeAccepted BY <1>20, OnlyMainMoves DEF TypeOK, CodeAccepted, MainSteps
<1>21. CASE CodeRefused BY <1>21, OnlyMainMoves DEF TypeOK, CodeRefused, MainSteps
<1> QED
  BY <1>1, <1>2, <1>3, <1>4, <1>5, <1>6, <1>7, <1>8, <1>9, <1>10, <1>11, <1>12, <1>13, <1>14, <1>15, <1>16, <1>17, <1>18, <1>19, <1>20, <1>21 DEF Main, Upload, Operator

LEMMA StepsShrink ==
  ASSUME IInv, TypeOK', Next, vars' # vars
  PROVE  StepsLeft' \in Nat /\ StepsLeft' < StepsLeft
BY DumpShrinks, GzShrinks, EncShrinks, MainShrinks DEF IInv, Next, Terminated, vars

(* A run takes at most 6 * Whole + 28 steps.                               *)
THEOREM Termination == Spec => Shrinks
<1>1. Init => StepsLeft = 6 * Whole + 28
  BY PipelineAssumption DEF Init, StepsLeft, MainSteps, DumpSteps, GzSteps, EncSteps, DataSteps, OnceSteps
<1>2. IInv /\ TypeOK' /\ [Next]_vars => [StepsLeft' \in Nat /\ StepsLeft' < StepsLeft]_vars
  BY StepsShrink
<1> QED
  BY <1>1, <1>2, Invariance, TypeCorrect, PTL DEF Spec, Shrinks

-----------------------------------------------------------------------------
(* The run implements BackupContract: its steps are the contract's, or     *)
(* leave what the run has reported, stored and purged as it is.            *)

LEMMA ArchiveNotEmpty == \A n \in 0..Whole : Archive(n) # <<>>
<1> SUFFICES ASSUME NEW n \in 0..Whole PROVE Archive(n) # <<>>
  OBVIOUS
<1>1. Pieces(n) \in Seq(Token) /\ <<IV>> \in Seq(Token) /\ <<Trailer>> \in Seq(Token)
  BY PiecesType, TokenFacts
<1>2. Pieces(n) \o <<Trailer>> \in Seq(Token)
  BY <1>1, ConcatProperties
<1> DEFINE rest == Pieces(n) \o <<Trailer>>
<1> HIDE DEF rest
<1>3. Len(<<IV>> \o rest) = Len(<<IV>>) + Len(rest) /\ Len(rest) \in Nat
  BY <1>1, <1>2, ConcatProperties, LenProperties DEF rest
<1>4. Len(<<IV>>) = 1
  OBVIOUS
<1>5. Archive(n) = <<IV>> \o rest
  BY DEF Archive, rest
<1> QED
  BY <1>3, <1>4, <1>5, TokenFacts

LEMMA WholeIsNotEmpty ==
  ASSUME TypeOK
  PROVE  Archive(Whole) # <<>> /\ Archive(made) # <<>>
BY ArchiveNotEmpty, PipelineAssumption DEF TypeOK

LEMMA ContractStep == IInv /\ [Next]_vars => [Contract!CNext]_<<result, Vault, purged>>
<1> SUFFICES ASSUME IInv, [Next]_vars, ~ UNCHANGED <<result, Vault, purged>>
             PROVE  Contract!CNext
  BY DEF Contract!cvars
<1>0. Archive(Whole) # <<>> /\ Archive(made) # <<>>
  BY WholeIsNotEmpty DEF IInv
<1> USE <1>0 DEF IInv, PhaseInv, DumpInv, DriveInv, Working, Vault,
                 Contract!CNext, Contract!Store, Contract!Purge, Contract!Succeed, Contract!Fail,
                 mainVars, dumpVars, gzVars, encVars, driveVars
<1>1. CASE Dump
  <2>1. CASE DumpWrites BY <2>1 DEF DumpWrites
  <2>2. CASE DumpCloses BY <2>2 DEF DumpCloses
  <2>3. CASE DumpExits BY <2>3 DEF DumpExits
  <2> QED BY <1>1, <2>1, <2>2, <2>3 DEF Dump
<1>2. CASE Gz
  <2>1. CASE GzRead BY <2>1 DEF GzRead
  <2>2. CASE GzWrite BY <2>2 DEF GzWrite
  <2>3. CASE GzReadEOF BY <2>3 DEF GzReadEOF
  <2>4. CASE GzReadError BY <2>4 DEF GzReadError
  <2>5. CASE GzCloses BY <2>5 DEF GzCloses
  <2>6. CASE GzBroken BY <2>6 DEF GzBroken
  <2> QED BY <1>2, <2>1, <2>2, <2>3, <2>4, <2>5, <2>6 DEF Gz
<1>3. CASE Enc
  <2>1. CASE EncWriteIV BY <2>1 DEF EncWriteIV
  <2>2. CASE EncCopy BY <2>2 DEF EncCopy
  <2>3. CASE EncReadEOF BY <2>3 DEF EncReadEOF
  <2>4. CASE EncReadError BY <2>4 DEF EncReadError
  <2>5. CASE EncBroken BY <2>5 DEF EncBroken
  <2> QED BY <1>3, <2>1, <2>2, <2>3, <2>4, <2>5 DEF Enc
<1>4. CASE Upload
  <2>1. CASE UploadRead BY <2>1 DEF UploadRead
  <2>2. CASE UploadSends BY <2>2 DEF UploadSends
  <2>3. CASE UploadSendFails BY <2>3 DEF UploadSendFails
  <2>4. CASE UploadReadEOF BY <2>4 DEF UploadReadEOF
  <2>5. CASE UploadReadError BY <2>5 DEF UploadReadError
  <2>6. CASE UploadCommits BY <2>6 DEF UploadCommits
  <2>7. CASE UploadCommitFails BY <2>7 DEF UploadCommitFails
  <2> QED BY <1>4, <2>1, <2>2, <2>3, <2>4, <2>5, <2>6, <2>7 DEF Upload
<1>5. CASE Main
  <2>1. CASE StreamStarts BY <2>1 DEF StreamStarts
  <2>2. CASE StreamFails BY <2>2 DEF StreamFails
  <2>3. CASE EncryptorStarts BY <2>3 DEF EncryptorStarts
  <2>4. CASE KeyRejected BY <2>4 DEF KeyRejected
  <2>5. CASE Connects BY <2>5 DEF Connects
  <2>6. CASE ConnectFails BY <2>6 DEF ConnectFails
  <2>7. CASE WaitDump BY <2>7 DEF WaitDump
  <2>8. CASE CleanupDeletes BY <2>8 DEF CleanupDeletes
  <2>9. CASE CleanupEnds BY <2>9 DEF CleanupEnds
  <2>10. CASE CloseEncrypted BY <2>10 DEF CloseEncrypted
  <2>11. CASE CloseCompressed BY <2>11 DEF CloseCompressed
  <2> QED BY <1>5, <1>4, <2>1, <2>2, <2>3, <2>4, <2>5, <2>6, <2>7, <2>8, <2>9, <2>10, <2>11 DEF Main
<1>6. CASE Operator
  <2>1. CASE CodeAccepted BY <2>1 DEF CodeAccepted
  <2>2. CASE CodeRefused BY <2>2 DEF CodeRefused
  <2>3. CASE Cancel BY <2>3 DEF Cancel
  <2> QED BY <1>6, <2>1, <2>2, <2>3 DEF Operator
<1>7. CASE Terminated BY <1>7 DEF Terminated, vars
<1>8. CASE UNCHANGED vars BY <1>8 DEF vars
<1> QED BY <1>1, <1>2, <1>3, <1>5, <1>6, <1>7, <1>8 DEF Next

(* A backup run keeps the contract of BackupContract, for every size of    *)
(* the dump and of the OS pipe.                                            *)
THEOREM Implementation == Spec => KeepsContract
<1>1. Init => Contract!CInit
  BY DEF Init, Contract!CInit, Vault
<1>2. IInv /\ [Next]_vars => [Contract!CNext]_(Contract!cvars)
  BY ContractStep DEF Contract!cvars
<1> QED
  BY <1>1, <1>2, Invariance, PTL DEF Spec, KeepsContract, Contract!CSpec

=============================================================================
