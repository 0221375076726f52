---------------------------- MODULE RestoreProofs ----------------------------
(***************************************************************************)
(* Proofs about Restore, for dumps of every size and any number of         *)
(* commands.                                                               *)
(*                                                                         *)
(* RestoredIsExact is not inductive.  It needs that the end of the file    *)
(* reaches gzip only behind all the data (PipeInv) and that until then the *)
(* bytes on their way are the object (Conserved); CopyIsExact needs that   *)
(* the goroutine that writes the copy has ended by then (CopyInv).         *)
(***************************************************************************)
EXTENDS Restore, SequenceTheorems, TLAPS

Fetched == {"raw", "out", "iv", "header", "copy", "save"}
Unread  == dec = "off" /\ decSlot = <<>> /\ decW = "open" /\ gzBuf = <<>> /\ ~trailed
Served  == op = "serveDecrypted"

(* What the command has done when it stands at a step.                     *)
PhaseInv ==
  /\ run \in Fetched \cup {"ask", "fetch"} => result = "none"
  /\ run \in {"ask", "fetch"} => srcR = "absent" /\ src = <<>>
  /\ run \in Fetched => srcR = "open"
  /\ run = "returned" => srcR # "open"
  /\ run \in {"closeDec", "closeOut", "closeRaw", "closeSrc"} => srcR = "open" /\ result # "none"
  /\ run \in {"ask", "fetch", "raw", "iv", "save"} \/ (run = "out" /\ ~Served) => Unread
  /\ run \in {"raw", "iv"} \/ (run = "out" /\ ~Served) => src = object
  /\ run \in {"raw", "save"} => op \in Copies
  /\ run = "save" => op # "both"
  /\ run \in {"out", "iv", "header", "copy", "closeDec"} => op \in Decrypts
  /\ run \in {"iv", "header"} /\ ~Served => out = <<>>
  /\ run = "copy" \/ (run = "out" /\ Served) => key = "right"
  /\ run \in {"header", "copy"} \/ (run = "out" /\ Served) => dec # "off"
  /\ run \in {"closeOut", "closeRaw", "closeSrc", "returned"} /\ dec = "loop" => decR = "closed"

(* The pipe: its end comes behind all the data, and only the right key     *)
(* makes anything but Junk of it.                                          *)
PipeInv ==
  /\ decW = "open" <=> dec # "done"
  /\ decW = "eof" => src = <<>>
  /\ decSlot # <<>> => (decSlot = <<Junk>> <=> key # "right")
  /\ run = "header" => gzBuf = <<>> /\ ~trailed
  /\ run = "out" /\ Served => ~trailed
  /\ trailed => gzBuf = <<>>

(* What begins with anything begins with an IV.                            *)
HeadInv == (object # <<>> => Head(object) = IV) /\ (raw # <<>> => Head(raw) = IV)

(* Nobody but a backup run puts bytes together: what is read, and what is  *)
(* left on disk by a download however it ended, is the front of an archive. *)
IsCut(s) == \E n \in 0..Whole : \E rest \in Seq(Token \ {Junk}) : s \o rest = Archive(n)
CutInv   == IsCut(object) /\ IsCut(raw)

(* The copy and what is not read yet together are the object, as long as   *)
(* somebody writes the copy; a success is told when nobody does.           *)
Shut == run \in {"closeSrc", "returned"}
CopyInv ==
  /\ run = "save" \/ (op = "both" /\
         (run \in {"out", "iv", "header", "copy"} \/ (dec = "loop" /\ ~Shut)))
       => raw \o src = object
  /\ result \in {"ok", "doubt"} /\ ~Served => dec # "loop"

IInv ==
  TypeOK /\ PhaseInv /\ PipeInv /\ HeadInv /\ CutInv /\ CopyInv /\ Conserved /\ RestoredIsExact
    /\ CopyIsExact

-----------------------------------------------------------------------------
(* Facts about the data.                                                   *)

Byte == Token \ {Junk}

LEMMA ByteFacts ==
  /\ IV \in Byte /\ Trailer \in Byte /\ Byte \subseteq Token /\ Junk \in Token
  /\ <<>> \in Seq(Byte) /\ <<>> \in Seq(Token)
BY RestoreAssumption, EmptySeq DEF Byte, Token, Junk, IV, Trailer

LEMMA ObjectFacts ==
  ASSUME NEW o \in Objects
  PROVE  o \in Seq(Byte) /\ o # <<>> /\ Head(o) = IV
<1>1. PICK n \in 0..Whole : o = Archive(n)
  BY DEF Objects
<1>2. Pieces(n) \in Seq(Byte)
  BY RestoreAssumption DEF Pieces, Byte, Token, Junk
<1>3. <<IV>> \in Seq(Byte) /\ <<Trailer>> \in Seq(Byte)
  BY ByteFacts
<1>4. Pieces(n) \o <<Trailer>> \in Seq(Byte)
  BY <1>2, <1>3, ConcatProperties
<1> QED
  BY <1>1, <1>3, <1>4, ConcatProperties DEF Archive

LEMMA Concat ==
  ASSUME NEW S, NEW a \in Seq(S), NEW b \in Seq(S), NEW c \in Seq(S)
  PROVE  /\ a \o b \in Seq(S) /\ (a \o b) \o c = a \o (b \o c)
         /\ <<>> \o a = a /\ a \o <<>> = a
BY ConcatProperties, ConcatAssociative, ConcatEmptySeq

LEMMA ArchiveType == \A n \in 0..Whole : Pieces(n) \in Seq(Byte) /\ Archive(n) \in Seq(Byte)
<1> SUFFICES ASSUME NEW n \in 0..Whole PROVE Pieces(n) \in Seq(Byte) /\ Archive(n) \in Seq(Byte)
  OBVIOUS
<1>1. Pieces(n) \in Seq(Byte)
  BY RestoreAssumption DEF Pieces, Byte, Token, Junk
<1>2. <<IV>> \in Seq(Byte) /\ <<Trailer>> \in Seq(Byte)
  BY ByteFacts
<1> QED
  BY <1>1, <1>2, ConcatProperties DEF Archive

LEMMA NothingIsCut == IsCut(<<>>)
<1>1. 0 \in 0..Whole /\ Archive(0) \in Seq(Byte)
  BY ArchiveType, RestoreAssumption
<1>2. <<>> \o Archive(0) = Archive(0)
  BY <1>1, ConcatEmptySeq
<1> QED
  BY <1>1, <1>2 DEF IsCut, Byte

LEMMA ObjectsAreCuts ==
  ASSUME NEW o \in Objects
  PROVE  IsCut(o)
<1>1. PICK n \in 0..Whole : o = Archive(n)
  BY DEF Objects
<1>2. o \o <<>> = o /\ <<>> \in Seq(Byte)
  BY <1>1, ArchiveType, ByteFacts, ConcatEmptySeq
<1> QED
  BY <1>1, <1>2 DEF IsCut, Byte

(* The front of something cut off is cut off.                              *)
LEMMA FrontOfCut ==
  ASSUME NEW a \in Seq(Byte), NEW b \in Seq(Byte), IsCut(a \o b)
  PROVE  IsCut(a)
<1>1. PICK n \in 0..Whole : \E rest \in Seq(Byte) : (a \o b) \o rest = Archive(n)
  BY DEF IsCut, Byte
<1>2. PICK rest : rest \in Seq(Byte) /\ (a \o b) \o rest = Archive(n)
  BY <1>1
<1>3. b \o rest \in Seq(Byte) /\ (a \o b) \o rest = a \o (b \o rest)
  <2>1. rest \in Seq(Byte)
    BY <1>2
  <2>2. \A S : \A x, y, z \in Seq(S) : y \o z \in Seq(S) /\ (x \o y) \o z = x \o (y \o z)
    BY Concat
  <2> QED BY <2>1, <2>2
<1> QED
  BY <1>2, <1>3 DEF IsCut, Byte

LEMMA SealedFacts ==
  ASSUME NEW d \in Seq(Byte)
  PROVE  /\ Sealed(d) \in Seq(Byte) /\ Len(d) \in Nat /\ Len(Sealed(d)) = Len(d) + 2
         /\ Sealed(d)[Len(d) + 2] = Trailer
         /\ \A i \in 1..Len(d) : Sealed(d)[i + 1] = d[i]
<1> DEFINE rest == d \o <<Trailer>>
<1>1. <<IV>> \in Seq(Byte) /\ <<Trailer>> \in Seq(Byte) /\ Len(<<IV>>) = 1 /\ Len(<<Trailer>>) = 1
      /\ <<Trailer>>[1] = Trailer
  BY ByteFacts
<1>2. /\ rest \in Seq(Byte) /\ Len(rest) = Len(d) + 1 /\ Len(d) \in Nat
      /\ rest[Len(d) + 1] = Trailer /\ \A i \in 1..Len(d) : rest[i] = d[i]
  BY <1>1, ConcatProperties, LenProperties
<1> HIDE DEF rest
<1>3. /\ <<IV>> \o rest \in Seq(Byte) /\ Len(<<IV>> \o rest) = Len(d) + 2
      /\ \A i \in 1..Len(rest) : (<<IV>> \o rest)[i + 1] = rest[i]
  BY <1>1, <1>2, ConcatProperties
<1>4. Sealed(d) = <<IV>> \o rest
  BY DEF Sealed, rest
<1> QED
  BY <1>2, <1>3, <1>4

(* A trailer stands at the end of an archive only, so that something that  *)
(* ends in one is not cut off.                                             *)
LEMMA SealedIsArchive ==
  ASSUME NEW d \in Seq(Byte), IsCut(Sealed(d))
  PROVE  \E n \in 0..Whole : Sealed(d) = Archive(n) /\ d = Pieces(n)
<1>0. PICK n \in 0..Whole : \E rest \in Seq(Byte) : Sealed(d) \o rest = Archive(n)
  BY DEF IsCut, Byte
<1>1. PICK rest : rest \in Seq(Byte) /\ Sealed(d) \o rest = Archive(n)
  BY <1>0
<1>2. /\ Pieces(n) \in Seq(Byte) /\ Len(Pieces(n)) = n /\ Archive(n) = Sealed(Pieces(n))
      /\ \A i \in 1..n : Pieces(n)[i] = i
  BY ArchiveType, RestoreAssumption DEF Pieces, Archive, Sealed
<1>3. /\ Len(Archive(n)) = n + 2 /\ \A i \in 1..n : Archive(n)[i + 1] = i
  <2>1. /\ Len(Sealed(Pieces(n))) = Len(Pieces(n)) + 2
        /\ \A i \in 1..Len(Pieces(n)) : Sealed(Pieces(n))[i + 1] = Pieces(n)[i]
    BY <1>2, SealedFacts
  <2> QED BY <1>2, <2>1
<1>4. /\ Sealed(d) \in Seq(Byte) /\ Len(d) \in Nat /\ Len(Sealed(d)) = Len(d) + 2
      /\ Sealed(d)[Len(d) + 2] = Trailer
      /\ \A i \in 1..Len(d) : Sealed(d)[i + 1] = d[i]
  BY SealedFacts
<1>5. Len(d) + 2 <= n + 2 /\ \A i \in 1..(Len(d) + 2) : Archive(n)[i] = Sealed(d)[i]
  <2>1. /\ Len(Sealed(d) \o rest) = Len(Sealed(d)) + Len(rest) /\ Len(rest) \in Nat
        /\ \A i \in 1..Len(Sealed(d)) : (Sealed(d) \o rest)[i] = Sealed(d)[i]
    <3>1. \A S : \A x, y \in Seq(S) :
            /\ Len(x \o y) = Len(x) + Len(y) /\ Len(x) \in Nat /\ Len(y) \in Nat
            /\ \A i \in 1..Len(x) : (x \o y)[i] = x[i]
      BY ConcatProperties, LenProperties
    <3> QED BY <1>1, <1>4, <3>1
  <2> QED BY <1>1, <1>3, <1>4, <2>1
<1>6. Len(d) = n
  <2>1. Archive(n)[Len(d) + 2] = Trailer
    BY <1>4, <1>5
  <2>2. CASE Len(d) < n
    <3>1. Archive(n)[(Len(d) + 1) + 1] = Len(d) + 1
      BY <1>3, <1>4, <2>2
    <3> QED BY <1>4, <2>1, <3>1 DEF Trailer
  <2> QED BY <1>4, <1>5, <2>2
<1>7. \A i \in 1..n : d[i] = i
  <2> SUFFICES ASSUME NEW i \in 1..n PROVE d[i] = i
    OBVIOUS
  <2>1. Archive(n)[i + 1] = Sealed(d)[i + 1]
    BY <1>5, <1>6
  <2> QED BY <1>3, <1>4, <1>6, <2>1
<1>8. d = Pieces(n)
  BY <1>6, <1>7 DEF Pieces
<1> QED
  BY <1>2, <1>8

(* Moving the head of b to the end of a changes nothing of a \o b.         *)
LEMMA HandsOver ==
  ASSUME NEW S, NEW a \in Seq(S), NEW b \in Seq(S), b # <<>>
  PROVE  /\ Append(a, Head(b)) \in Seq(S) /\ Tail(b) \in Seq(S) /\ Head(b) \in S
         /\ <<Head(b)>> \in Seq(S)
         /\ Append(a, Head(b)) \o Tail(b) = a \o b /\ Append(a, Head(b)) # <<>>
         /\ b = <<Head(b)>> \o Tail(b)
<1>1. /\ Append(a, Head(b)) \in Seq(S) /\ Tail(b) \in Seq(S) /\ Head(b) \in S
      /\ Append(a, Head(b)) \o Tail(b) = a \o b
  BY HeadTailProperties, AppendProperties
<1>2. <<Head(b)>> \in Seq(S) /\ b = <<Head(b)>> \o Tail(b)
  BY HeadTailProperties
<1> QED
  BY <1>1, <1>2, AppendProperties

LEMMA HeadOfConcat ==
  ASSUME NEW S, NEW a \in Seq(S), NEW b \in Seq(S), a # <<>>
  PROVE  a \o b # <<>> /\ Head(a \o b) = Head(a)
BY ConcatProperties, HeadTailProperties

(* A sequence of at most one element is empty or has the one.              *)
LEMMA AtMostOne ==
  ASSUME NEW S, NEW a \in Seq(S), Len(a) <= 1, a # <<>>
  PROVE  a = <<Head(a)>> /\ Head(a) \in S
<1>1. Head(a) \in S /\ Len(Tail(a)) = 0 /\ Tail(a) \in Seq(S) /\ a = <<Head(a)>> \o Tail(a)
  BY HeadTailProperties
<1>2. Tail(a) = <<>>
  BY <1>1, EmptySeq
<1>3. <<Head(a)>> \o <<>> = <<Head(a)>>
  BY <1>1, ConcatEmptySeq
<1> QED
  BY <1>1, <1>2, <1>3

(* What is left of a file that could not be closed is its front.           *)
LEMMA BeginningFacts ==
  ASSUME NEW s \in Seq(Byte), NEW t \in Beginnings(s)
  PROVE  t \in Seq(Byte) /\ \E rest \in Seq(Byte) : t \o rest = s
<1>1. PICK n \in 0..Len(s) : t = SubSeq(s, 1, n)
  BY DEF Beginnings
<1> DEFINE rest == SubSeq(s, n + 1, Len(s))
<1>2. Len(s) \in Nat /\ \A i \in 1..Len(s) : s[i] \in Byte
  BY LenProperties, ElementOfSeq
<1>3. t \in Seq(Byte) /\ rest \in Seq(Byte)
  BY <1>1, <1>2, SubSeqProperties
<1>4. t \o rest = SubSeq(s, 1, Len(s))
  <2>1. 1 \in 1..Len(s)+1 /\ n \in (1-1)..Len(s) /\ Len(s) \in n..Len(s)
    BY <1>2
  <2> QED BY <1>1, <2>1, ConcatAdjacentSubSeq
<1>5. SubSeq(s, 1, Len(s)) = s
  BY SubSeqFull
<1> QED
  BY <1>3, <1>4, <1>5

LEMMA BeginningKeeps ==
  ASSUME NEW s \in Seq(Byte), NEW t \in Beginnings(s)
  PROVE  /\ IsCut(s) => IsCut(t)
         /\ t # <<>> => s # <<>> /\ Head(s) = Head(t)
<1>1. t \in Seq(Byte)
  BY BeginningFacts
<1>2. PICK rest \in Seq(Byte) : t \o rest = s
  BY BeginningFacts
<1>3. IsCut(s) => IsCut(t)
  BY <1>1, <1>2, FrontOfCut
<1>4. t # <<>> => s # <<>> /\ Head(s) = Head(t)
  BY <1>1, <1>2, HeadOfConcat
<1> QED
  BY <1>3, <1>4

-----------------------------------------------------------------------------
(* Type correctness.                                                       *)

LEMMA NextTypeOK == IInv /\ [Next]_vars => TypeOK'
<1> DEFINE Goal == TypeOK'
<1> SUFFICES ASSUME IInv, [Next]_vars PROVE Goal
  OBVIOUS
<1> USE RestoreAssumption, ByteFacts
    DEF IInv, TypeOK, PhaseInv, Byte, cmdVars, decVars, gzVars, files, Ops, Keys, Teed
<1>1. ASSUME NEW o \in Ops, NEW k \in Keys, Command(o, k) PROVE Goal
  <2>1. commands' \in 0..MaxCommands /\ op' \in Ops /\ key' \in Keys
    BY <1>1 DEF Command
  <2>2. /\ object' \in Seq(Byte) /\ src' \in Seq(Byte) /\ gzBuf' \in Seq(Byte) /\ decSlot' \in Seq(Token)
        /\ Len(gzBuf') <= 1 /\ Len(decSlot') <= 1
    BY <1>1 DEF Command
  <2> QED BY <1>1, <2>1, <2>2 DEF Command
<1>2. CASE Proceed BY <1>2 DEF Proceed
<1>3. CASE Refuse BY <1>3 DEF Refuse
<1>4. CASE Copy
  <2>1. CASE CopyRead
    <3>1. gzBuf' \in Seq(Byte) /\ Len(gzBuf') <= 1
      <4>1. decSlot # <<Junk>>
        BY <2>1 DEF CopyRead, PipeInv
      <4>2. decSlot = <<Head(decSlot)>> /\ Head(decSlot) \in Byte
        BY <2>1, <4>1, AtMostOne DEF CopyRead
      <4> QED BY <2>1, <4>2 DEF CopyRead
    <3> QED BY <2>1, <3>1 DEF CopyRead
  <2>2. CASE CopyWrite
    <3>1. out' \in Seq(Byte)
      BY <2>2, Concat DEF CopyWrite
    <3> QED BY <2>2, <3>1 DEF CopyWrite
  <2>3. CASE CopyWriteFails BY <2>3 DEF CopyWriteFails
  <2>4. CASE CopyTrailer BY <2>4 DEF CopyTrailer
  <2>5. CASE CopyEnds BY <2>5 DEF CopyEnds
  <2>6. CASE CopyFails BY <2>6 DEF CopyFails
  <2> QED BY <1>4, <2>1, <2>2, <2>3, <2>4, <2>5, <2>6 DEF Copy
<1>5. CASE Main
  <2>1. CASE Fetch
    <3>1. object' \in Seq(Byte)
      BY <2>1, ObjectFacts DEF Fetch
    <3> QED BY <2>1, <3>1 DEF Fetch
  <2>2. CASE FetchFails BY <2>2 DEF FetchFails
  <2>3. CASE OpenRaw BY <2>3 DEF OpenRaw
  <2>4. CASE OpenOut BY <2>4 DEF OpenOut
  <2>5. CASE OpenFails BY <2>5 DEF OpenFails
  <2>6. CASE Save
    <3>1. raw' \in Seq(Byte) /\ src' \in Seq(Byte)
      BY <2>6, HandsOver DEF Save
    <3> QED BY <2>6, <3>1 DEF Save
  <2>7. CASE SaveEnds BY <2>7 DEF SaveEnds
  <2>8. CASE SaveFails BY <2>8 DEF SaveFails
  <2>9. CASE ReadIV
    <3>1. raw' \in Seq(Byte) /\ src' \in Seq(Byte)
      BY <2>9, HandsOver DEF ReadIV
    <3> QED BY <2>9, <3>1 DEF ReadIV
  <2>10. CASE ReadIVFails BY <2>10 DEF ReadIVFails
  <2>11. CASE Header
    <3>1. gzBuf' \in Seq(Byte) /\ Len(gzBuf') <= 1
      <4>1. decSlot = <<Head(decSlot)>> /\ Head(decSlot) \in Byte
        BY <2>11, AtMostOne DEF Header
      <4> QED BY <2>11, <4>1 DEF Header
    <3> QED BY <2>11, <3>1 DEF Header
  <2>12. CASE HeaderFails BY <2>12 DEF HeaderFails
  <2>13. CASE CloseDec BY <2>13 DEF CloseDec
  <2>14. CASE CloseSrc BY <2>14 DEF CloseSrc
  <2>15. CASE CloseOut BY <2>15 DEF CloseOut, AfterOut
  <2>16. CASE CloseOutFails
    <3>1. out' \in Seq(Byte)
      BY <2>16, BeginningFacts DEF CloseOutFails
    <3> QED BY <2>16, <3>1 DEF CloseOutFails, AfterOut, Doubted
  <2>17. CASE CloseRaw BY <2>17 DEF CloseRaw
  <2>18. CASE CloseRawFails
    <3>1. raw' \in Seq(Byte)
      BY <2>18, BeginningFacts DEF CloseRawFails
    <3> QED BY <2>18, <3>1 DEF CloseRawFails, Doubted
  <2> QED BY <1>5, <1>4, <2>1, <2>2, <2>3, <2>4, <2>5, <2>6, <2>7, <2>8, <2>9, <2>10, <2>11, <2>12, <2>13, <2>14, <2>15, <2>16, <2>17, <2>18 DEF Main
<1>6. CASE Dec
  <2>1. CASE DecRead
    <3>1. raw' \in Seq(Byte) /\ src' \in Seq(Byte) /\ Head(src) \in Byte
      BY <2>1, HandsOver DEF DecRead
    <3>2. decSlot' \in Seq(Token) /\ Len(decSlot') <= 1
      BY <2>1, <3>1 DEF DecRead, Decrypted
    <3> QED BY <2>1, <3>1, <3>2 DEF DecRead
  <2>2. CASE DecReadEOF BY <2>2 DEF DecReadEOF
  <2>3. CASE DecReadFails BY <2>3 DEF DecReadFails
  <2>4. CASE DecBroken BY <2>4 DEF DecBroken
  <2> QED BY <1>6, <2>1, <2>2, <2>3, <2>4 DEF Dec
<1>7. CASE UNCHANGED vars BY <1>7 DEF vars
<1>8. CASE Terminated BY <1>7, <1>8 DEF Terminated
<1> QED BY <1>1, <1>2, <1>3, <1>5, <1>6, <1>7, <1>8 DEF Next

-----------------------------------------------------------------------------
(* The phases and the pipe.                                                *)

LEMMA ControlStep == IInv /\ [Next]_vars => PhaseInv' /\ PipeInv'
<1> DEFINE Goal == PhaseInv' /\ PipeInv'
<1> SUFFICES ASSUME IInv, [Next]_vars PROVE Goal
  OBVIOUS
<1> USE DEF IInv, TypeOK, PhaseInv, PipeInv, Fetched, Unread, Served, Copies, Decrypts,
            CmdOps, AfterOut, Doubted,
            cmdVars, decVars, gzVars, files, Ops, Keys
<1>1. ASSUME NEW o \in Ops, NEW k \in Keys, Command(o, k) PROVE Goal
  BY <1>1 DEF Command
<1>2. CASE Proceed BY <1>2 DEF Proceed
<1>3. CASE Refuse BY <1>3 DEF Refuse
<1>4. CASE Copy
  <2>1. CASE CopyRead BY <2>1 DEF CopyRead
  <2>2. CASE CopyWrite BY <2>2 DEF CopyWrite
  <2>3. CASE CopyWriteFails BY <2>3 DEF CopyWriteFails
  <2>4. CASE CopyTrailer BY <2>4 DEF CopyTrailer
  <2>5. CASE CopyEnds BY <2>5 DEF CopyEnds
  <2>6. CASE CopyFails BY <2>6 DEF CopyFails
  <2> QED BY <1>4, <2>1, <2>2, <2>3, <2>4, <2>5, <2>6 DEF Copy
<1>5. CASE Main
  <2>1. CASE Fetch BY <2>1 DEF Fetch
  <2>2. CASE FetchFails BY <2>2 DEF FetchFails
  <2>3. CASE OpenRaw BY <2>3 DEF OpenRaw
  <2>4. CASE OpenOut BY <2>4 DEF OpenOut
  <2>5. CASE OpenFails BY <2>5 DEF OpenFails
  <2>6. CASE Save BY <2>6 DEF Save
  <2>7. CASE SaveEnds BY <2>7 DEF SaveEnds
  <2>8. CASE SaveFails BY <2>8 DEF SaveFails
  <2>9. CASE ReadIV BY <2>9 DEF ReadIV
  <2>10. CASE ReadIVFails BY <2>10 DEF ReadIVFails
  <2>11. CASE Header BY <2>11 DEF Header
  <2>12. CASE HeaderFails BY <2>12 DEF HeaderFails
  <2>13. CASE CloseDec BY <2>13 DEF CloseDec
  <2>14. CASE CloseSrc BY <2>14 DEF CloseSrc
  <2>15. CASE CloseOut BY <2>15 DEF CloseOut
  <2>16. CASE CloseOutFails BY <2>16 DEF CloseOutFails
  <2>17. CASE CloseRaw BY <2>17 DEF CloseRaw
  <2>18. CASE CloseRawFails BY <2>18 DEF CloseRawFails
  <2> QED BY <1>5, <1>4, <2>1, <2>2, <2>3, <2>4, <2>5, <2>6, <2>7, <2>8, <2>9, <2>10, <2>11, <2>12, <2>13, <2>14, <2>15, <2>16, <2>17, <2>18 DEF Main
<1>6. CASE Dec
  <2>1. CASE DecRead
    <3>1. run \notin {"raw", "iv", "save"} /\ ~(run = "out" /\ ~Served)
      BY <2>1 DEF DecRead
    <3>2. Head(src) # Junk
      BY <2>1, HandsOver DEF DecRead, Byte
    <3>4. decSlot' # <<>> => (decSlot' = <<Junk>> <=> key # "right")
      BY <2>1, <3>2 DEF DecRead, Decrypted
    <3>3. decW = "open"
      BY <2>1 DEF DecRead
    <3> QED BY <2>1, <3>1, <3>3, <3>4 DEF DecRead
  <2>2. CASE DecReadEOF BY <2>2 DEF DecReadEOF
  <2>3. CASE DecReadFails BY <2>3 DEF DecReadFails
  <2>4. CASE DecBroken BY <2>4 DEF DecBroken
  <2> QED BY <1>6, <2>1, <2>2, <2>3, <2>4 DEF Dec
<1>7. CASE UNCHANGED vars BY <1>7 DEF vars
<1>8. CASE Terminated BY <1>7, <1>8 DEF Terminated
<1> QED BY <1>1, <1>2, <1>3, <1>5, <1>6, <1>7, <1>8 DEF Next

-----------------------------------------------------------------------------
(* The data: bytes are handed on and nothing else happens to them.         *)

LEMMA HeadStep == IInv /\ [Next]_vars => HeadInv'
<1> DEFINE Goal == HeadInv'
<1> SUFFICES ASSUME IInv, [Next]_vars PROVE Goal
  OBVIOUS
<1>0. ASSUME src # <<>>, raw' = Append(raw, Head(src)), raw \o src = object, object' = object
      PROVE  Goal
  <2>1. raw \in Seq(Byte) /\ src \in Seq(Byte)
    BY DEF IInv, TypeOK, Byte
  <2>2. /\ Append(raw, Head(src)) \in Seq(Byte) /\ Append(raw, Head(src)) # <<>>
        /\ Tail(src) \in Seq(Byte) /\ Append(raw, Head(src)) \o Tail(src) = raw \o src
    <3>1. src # <<>>
      BY <1>0
    <3> QED BY <2>1, <3>1, HandsOver
  <2>3. object # <<>> /\ Head(object) = Head(Append(raw, Head(src)))
    BY <1>0, <2>2, HeadOfConcat
  <2> QED BY <1>0, <2>3 DEF IInv, HeadInv
<1> USE DEF IInv, HeadInv, PhaseInv, CopyInv, cmdVars, decVars, gzVars, files, Teed
<1>1. ASSUME NEW o \in Ops, NEW k \in Keys, Command(o, k) PROVE Goal
  BY <1>1 DEF Command
<1>2. CASE Proceed BY <1>2 DEF Proceed
<1>3. CASE Refuse BY <1>3 DEF Refuse
<1>4. CASE Copy
  <2>1. CASE CopyRead BY <2>1 DEF CopyRead
  <2>2. CASE CopyWrite BY <2>2 DEF CopyWrite
  <2>3. CASE CopyWriteFails BY <2>3 DEF CopyWriteFails
  <2>4. CASE CopyTrailer BY <2>4 DEF CopyTrailer
  <2>5. CASE CopyEnds BY <2>5 DEF CopyEnds
  <2>6. CASE CopyFails BY <2>6 DEF CopyFails
  <2> QED BY <1>4, <2>1, <2>2, <2>3, <2>4, <2>5, <2>6 DEF Copy
<1>5. CASE Main
  <2>1. CASE Fetch
    <3>1. object' = raw \/ object' \in Objects
      BY <2>1 DEF Fetch
    <3> QED BY <2>1, <3>1, ObjectFacts DEF Fetch
  <2>2. CASE FetchFails BY <2>2 DEF FetchFails
  <2>3. CASE OpenRaw BY <2>3 DEF OpenRaw
  <2>4. CASE OpenOut BY <2>4 DEF OpenOut
  <2>5. CASE OpenFails BY <2>5 DEF OpenFails
  <2>6. CASE Save
    BY <1>0, <2>6 DEF Save
  <2>7. CASE SaveEnds BY <2>7 DEF SaveEnds
  <2>8. CASE SaveFails BY <2>8 DEF SaveFails
  <2>9. CASE ReadIV
    BY <1>0, <2>9 DEF ReadIV
  <2>10. CASE ReadIVFails BY <2>10 DEF ReadIVFails
  <2>11. CASE Header BY <2>11 DEF Header
  <2>12. CASE HeaderFails BY <2>12 DEF HeaderFails
  <2>13. CASE CloseDec BY <2>13 DEF CloseDec
  <2>14. CASE CloseSrc BY <2>14 DEF CloseSrc
  <2>15. CASE CloseOut BY <2>15 DEF CloseOut
  <2>16. CASE CloseOutFails BY <2>16 DEF CloseOutFails
  <2>17. CASE CloseRaw BY <2>17 DEF CloseRaw
  <2>18. CASE CloseRawFails
    <3>1. raw \in Seq(Byte) /\ raw' \in Beginnings(raw)
      BY <2>18 DEF CloseRawFails, TypeOK, Byte
    <3> QED BY <2>18, <3>1, BeginningKeeps DEF CloseRawFails
  <2> QED BY <1>5, <1>4, <2>1, <2>2, <2>3, <2>4, <2>5, <2>6, <2>7, <2>8, <2>9, <2>10, <2>11, <2>12, <2>13, <2>14, <2>15, <2>16, <2>17, <2>18 DEF Main
<1>6. CASE Dec
  <2>1. CASE DecRead
    BY <1>0, <2>1 DEF DecRead, Shut
  <2>2. CASE DecReadEOF BY <2>2 DEF DecReadEOF
  <2>3. CASE DecReadFails BY <2>3 DEF DecReadFails
  <2>4. CASE DecBroken BY <2>4 DEF DecBroken
  <2> QED BY <1>6, <2>1, <2>2, <2>3, <2>4 DEF Dec
<1>7. CASE UNCHANGED vars BY <1>7 DEF vars
<1>8. CASE Terminated BY <1>7, <1>8 DEF Terminated
<1> QED BY <1>1, <1>2, <1>3, <1>5, <1>6, <1>7, <1>8 DEF Next

LEMMA CutStep == IInv /\ [Next]_vars => CutInv'
<1> DEFINE Goal == CutInv'
<1> SUFFICES ASSUME IInv, [Next]_vars PROVE Goal
  OBVIOUS
<1>0. ASSUME src # <<>>, raw' = Append(raw, Head(src)), raw \o src = object, object' = object
      PROVE  Goal
  <2>1. raw \in Seq(Byte) /\ src \in Seq(Byte)
    BY DEF IInv, TypeOK, Byte
  <2>2. /\ Append(raw, Head(src)) \in Seq(Byte) /\ Append(raw, Head(src)) # <<>>
        /\ Tail(src) \in Seq(Byte) /\ Append(raw, Head(src)) \o Tail(src) = raw \o src
    <3>1. src # <<>>
      BY <1>0
    <3> QED BY <2>1, <3>1, HandsOver
  <2>3. IsCut(object)
    BY DEF IInv, CutInv
  <2>4. IsCut(Append(raw, Head(src)))
    BY <1>0, <2>2, <2>3, FrontOfCut
  <2> QED BY <1>0, <2>3, <2>4 DEF CutInv
<1> USE DEF IInv, CutInv, PhaseInv, CopyInv, cmdVars, decVars, gzVars, files, Teed
<1>1. ASSUME NEW o \in Ops, NEW k \in Keys, Command(o, k) PROVE Goal
  BY <1>1, NothingIsCut DEF Command
<1>2. CASE Proceed BY <1>2 DEF Proceed
<1>3. CASE Refuse BY <1>3 DEF Refuse
<1>4. CASE Copy
  <2>1. CASE CopyRead BY <2>1 DEF CopyRead
  <2>2. CASE CopyWrite BY <2>2 DEF CopyWrite
  <2>3. CASE CopyWriteFails BY <2>3 DEF CopyWriteFails
  <2>4. CASE CopyTrailer BY <2>4 DEF CopyTrailer
  <2>5. CASE CopyEnds BY <2>5 DEF CopyEnds
  <2>6. CASE CopyFails BY <2>6 DEF CopyFails
  <2> QED BY <1>4, <2>1, <2>2, <2>3, <2>4, <2>5, <2>6 DEF Copy
<1>5. CASE Main
  <2>1. CASE Fetch
    <3>1. object' = raw \/ object' \in Objects
      BY <2>1 DEF Fetch
    <3> QED BY <2>1, <3>1, ObjectsAreCuts DEF Fetch
  <2>2. CASE FetchFails BY <2>2 DEF FetchFails
  <2>3. CASE OpenRaw BY <2>3, NothingIsCut DEF OpenRaw
  <2>4. CASE OpenOut BY <2>4 DEF OpenOut
  <2>5. CASE OpenFails BY <2>5 DEF OpenFails
  <2>6. CASE Save
    BY <1>0, <2>6 DEF Save
  <2>7. CASE SaveEnds BY <2>7 DEF SaveEnds
  <2>8. CASE SaveFails BY <2>8 DEF SaveFails
  <2>9. CASE ReadIV
    BY <1>0, <2>9 DEF ReadIV
  <2>10. CASE ReadIVFails BY <2>10 DEF ReadIVFails
  <2>11. CASE Header BY <2>11 DEF Header
  <2>12. CASE HeaderFails BY <2>12 DEF HeaderFails
  <2>13. CASE CloseDec BY <2>13 DEF CloseDec
  <2>14. CASE CloseSrc BY <2>14 DEF CloseSrc
  <2>15. CASE CloseOut BY <2>15 DEF CloseOut
  <2>16. CASE CloseOutFails BY <2>16 DEF CloseOutFails
  <2>17. CASE CloseRaw BY <2>17 DEF CloseRaw
  <2>18. CASE CloseRawFails
    <3>1. raw \in Seq(Byte) /\ raw' \in Beginnings(raw)
      BY <2>18 DEF CloseRawFails, TypeOK, Byte
    <3> QED BY <2>18, <3>1, BeginningKeeps DEF CloseRawFails
  <2> QED BY <1>5, <1>4, <2>1, <2>2, <2>3, <2>4, <2>5, <2>6, <2>7, <2>8, <2>9, <2>10, <2>11, <2>12, <2>13, <2>14, <2>15, <2>16, <2>17, <2>18 DEF Main
<1>6. CASE Dec
  <2>1. CASE DecRead
    BY <1>0, <2>1 DEF DecRead, Shut
  <2>2. CASE DecReadEOF BY <2>2 DEF DecReadEOF
  <2>3. CASE DecReadFails BY <2>3 DEF DecReadFails
  <2>4. CASE DecBroken BY <2>4 DEF DecBroken
  <2> QED BY <1>6, <2>1, <2>2, <2>3, <2>4 DEF Dec
<1>7. CASE UNCHANGED vars BY <1>7 DEF vars
<1>8. CASE Terminated BY <1>7, <1>8 DEF Terminated
<1> QED BY <1>1, <1>2, <1>3, <1>5, <1>6, <1>7, <1>8 DEF Next

LEMMA CopyStep == IInv /\ [Next]_vars => CopyInv' /\ CopyIsExact'
<1> DEFINE Goal == CopyInv' /\ CopyIsExact'
<1> SUFFICES ASSUME IInv, [Next]_vars PROVE Goal
  OBVIOUS
<1>0. /\ src # <<>> => Append(raw, Head(src)) \o Tail(src) = raw \o src
      /\ <<>> \o object = object /\ raw \o <<>> = raw
  <2>1. raw \in Seq(Byte) /\ src \in Seq(Byte) /\ object \in Seq(Byte)
    BY DEF IInv, TypeOK, Byte
  <2>2. src # <<>> => Append(raw, Head(src)) \o Tail(src) = raw \o src
    BY <2>1, HandsOver
  <2>3. <<>> \o object = object /\ raw \o <<>> = raw
    BY <2>1, Concat
  <2> QED BY <2>2, <2>3
<1> USE DEF IInv, PhaseInv, PipeInv, CopyInv, CopyIsExact, Unread, Served, Fetched, Copies, Decrypts,
            Shut, AfterOut, Doubted, CmdOps, cmdVars, decVars, gzVars, files, Teed
<1>1. ASSUME NEW o \in Ops, NEW k \in Keys, Command(o, k) PROVE Goal
  BY <1>1 DEF Command
<1>2. CASE Proceed BY <1>2 DEF Proceed
<1>3. CASE Refuse BY <1>3 DEF Refuse
<1>4. CASE Copy
  <2>1. CASE CopyRead BY <2>1 DEF CopyRead
  <2>2. CASE CopyWrite BY <2>2 DEF CopyWrite
  <2>3. CASE CopyWriteFails BY <2>3 DEF CopyWriteFails
  <2>4. CASE CopyTrailer BY <2>4 DEF CopyTrailer
  <2>5. CASE CopyEnds
    BY <1>0, <2>5 DEF CopyEnds
  <2>6. CASE CopyFails BY <2>6 DEF CopyFails
  <2> QED BY <1>4, <2>1, <2>2, <2>3, <2>4, <2>5, <2>6 DEF Copy
<1>5. CASE Main
  <2>1. CASE Fetch BY <2>1 DEF Fetch
  <2>2. CASE FetchFails BY <2>2 DEF FetchFails
  <2>3. CASE OpenRaw
    BY <1>0, <2>3 DEF OpenRaw
  <2>4. CASE OpenOut BY <2>4 DEF OpenOut
  <2>5. CASE OpenFails BY <2>5 DEF OpenFails
  <2>6. CASE Save
    BY <1>0, <2>6 DEF Save
  <2>7. CASE SaveEnds
    BY <1>0, <2>7 DEF SaveEnds
  <2>8. CASE SaveFails BY <2>8 DEF SaveFails
  <2>9. CASE ReadIV
    BY <1>0, <2>9 DEF ReadIV
  <2>10. CASE ReadIVFails BY <2>10 DEF ReadIVFails
  <2>11. CASE Header BY <2>11 DEF Header
  <2>12. CASE HeaderFails BY <2>12 DEF HeaderFails
  <2>13. CASE CloseDec BY <2>13 DEF CloseDec
  <2>14. CASE CloseSrc BY <2>14 DEF CloseSrc
  <2>15. CASE CloseOut BY <2>15 DEF CloseOut
  <2>16. CASE CloseOutFails BY <2>16 DEF CloseOutFails
  <2>17. CASE CloseRaw BY <2>17 DEF CloseRaw
  <2>18. CASE CloseRawFails BY <2>18 DEF CloseRawFails
  <2> QED BY <1>5, <1>4, <2>1, <2>2, <2>3, <2>4, <2>5, <2>6, <2>7, <2>8, <2>9, <2>10, <2>11, <2>12, <2>13, <2>14, <2>15, <2>16, <2>17, <2>18 DEF Main
<1>6. CASE Dec
  <2>1. CASE DecRead
    BY <1>0, <2>1 DEF DecRead, Shut
  <2>2. CASE DecReadEOF BY <2>2 DEF DecReadEOF
  <2>3. CASE DecReadFails BY <2>3 DEF DecReadFails
  <2>4. CASE DecBroken BY <2>4 DEF DecBroken
  <2> QED BY <1>6, <2>1, <2>2, <2>3, <2>4 DEF Dec
<1>7. CASE UNCHANGED vars BY <1>7 DEF vars
<1>8. CASE Terminated BY <1>7, <1>8 DEF Terminated
<1> QED BY <1>1, <1>2, <1>3, <1>5, <1>6, <1>7, <1>8 DEF Next

(* The bytes behind the IV.                                                *)
Flow(r, t, g, d, s) == r \o (t \o (g \o (d \o s)))

(* What a step of the goroutine and of gzip does to them.                  *)
LEMMA Moves ==
  ASSUME NEW g \in Seq(Byte), NEW s \in Seq(Byte)
  PROVE  /\ g \o s \in Seq(Byte)
         /\ g \o (<<>> \o s) = <<>> \o (g \o s)
         /\ s # <<>> => <<Head(s)>> \o Tail(s) = <<>> \o s
<1>1. <<>> \o s = s /\ g \o s \in Seq(Byte) /\ (s # <<>> => <<Head(s)>> \o Tail(s) = s)
  BY Concat, HandsOver
<1>2. <<>> \o (g \o s) = g \o s
  BY <1>1, Concat
<1> QED
  BY <1>1, <1>2

LEMMA MovesOut ==
  ASSUME NEW r \in Seq(Byte), NEW g \in Seq(Byte), NEW s \in Seq(Byte)
  PROVE  (r \o g) \o (<<>> \o (<<>> \o s)) = r \o (<<>> \o (g \o s))
<1>1. <<>> \o s = s /\ g \o s \in Seq(Byte) /\ (r \o g) \o s = r \o (g \o s)
  BY Concat
<1>2. <<>> \o (g \o s) = g \o s
  BY <1>1, Concat
<1> QED
  BY <1>1, <1>2

LEMMA FlowEnds ==
  ASSUME NEW s \in Seq(Byte)
  PROVE  /\ Flow(<<>>, <<>>, <<>>, <<>>, s) = s
         /\ Flow(s, <<Trailer>>, <<>>, <<>>, <<>>) = s \o <<Trailer>>
<1>1. <<>> \o s = s /\ <<>> \o <<>> = <<>> /\ <<Trailer>> \o <<>> = <<Trailer>>
  BY ByteFacts, Concat
<1> QED
  BY <1>1 DEF Flow

(* While the data is live, each step leaves the flow as it is.             *)
Live == key = "right" /\ (run \in {"header", "copy"} \/ (run = "out" /\ Served))
Now  == Flow(Restored, Checked, gzBuf, decSlot, src)

LEMMA NowTypes ==
  ASSUME IInv, key = "right"
  PROVE  /\ Restored \in Seq(Byte) /\ Checked \in Seq(Byte) /\ gzBuf \in Seq(Byte)
         /\ decSlot \in Seq(Byte) /\ src \in Seq(Byte) /\ object \in Seq(Byte) /\ out \in Seq(Byte)
<1>1. decSlot \in Seq(Byte)
  <2>1. CASE decSlot = <<>> BY <2>1, ByteFacts
  <2>2. CASE decSlot # <<>>
    <3>1. decSlot \in Seq(Token) /\ Len(decSlot) <= 1 /\ decSlot # <<Junk>>
      BY <2>2 DEF IInv, TypeOK, PipeInv
    <3>2. decSlot = <<Head(decSlot)>> /\ Head(decSlot) \in Token
      BY <2>2, <3>1, AtMostOne
    <3>3. Head(decSlot) \in Byte
      BY <3>1, <3>2 DEF Byte
    <3>4. \A y \in Byte : <<y>> \in Seq(Byte)
      OBVIOUS
    <3> QED BY <3>2, <3>3, <3>4
  <2> QED BY <2>1, <2>2
<1>2. Restored \in Seq(Byte)
  BY ByteFacts DEF IInv, TypeOK, Byte, Restored
<1>3. Checked \in Seq(Byte)
  BY ByteFacts DEF Checked
<1> QED
  BY <1>1, <1>2, <1>3 DEF IInv, TypeOK, Byte

LEMMA FlowMoves ==
  ASSUME IInv, Live, Header \/ CopyRead \/ CopyWrite \/ CopyTrailer \/ OpenOut \/ DecRead
  PROVE  Now' = Now
<1>0. /\ Restored \in Seq(Byte) /\ Checked \in Seq(Byte) /\ gzBuf \in Seq(Byte)
      /\ decSlot \in Seq(Byte) /\ src \in Seq(Byte) /\ out \in Seq(Byte) /\ <<>> \in Seq(Byte)
  BY NowTypes, ByteFacts DEF Live
<1> USE DEF cmdVars, decVars, gzVars, files
<1>1. CASE Header
  <2>1. /\ gzBuf = <<>> /\ Restored = <<>> /\ Checked' = Checked /\ src' = src
        /\ gzBuf' = decSlot /\ decSlot' = <<>>
    BY <1>1 DEF Header, IInv, PipeInv, Checked, Restored
  <2>2. Restored' = <<>>
    BY <1>1 DEF Header, IInv, PhaseInv, Restored, Served
  <2> QED BY <1>0, <2>1, <2>2, Moves DEF Now, Flow
<1>2. CASE CopyRead
  <2>1. /\ gzBuf = <<>> /\ Restored' = Restored /\ Checked' = Checked /\ src' = src
        /\ gzBuf' = decSlot /\ decSlot' = <<>>
    BY <1>2 DEF CopyRead, Checked, Restored
  <2> QED BY <1>0, <2>1, Moves DEF Now, Flow
<1>3. CASE CopyWrite
  <2>1. /\ Restored' = Restored \o gzBuf /\ Checked = <<>> /\ Checked' = <<>>
        /\ gzBuf' = <<>> /\ decSlot' = decSlot /\ src' = src
    BY <1>3 DEF CopyWrite, IInv, PipeInv, Checked, Restored
  <2>2. decSlot \o src \in Seq(Byte)
    BY <1>0, Moves
  <2>3. \A x \in Seq(Byte) : (Restored \o gzBuf) \o (<<>> \o (<<>> \o x)) = Restored \o (<<>> \o (gzBuf \o x))
    BY <1>0, MovesOut
  <2>4. /\ Now = Restored \o (<<>> \o (gzBuf \o (decSlot \o src)))
        /\ Now' = (Restored \o gzBuf) \o (<<>> \o (<<>> \o (decSlot \o src)))
    BY <2>1 DEF Now, Flow
  <2> QED BY <2>2, <2>3, <2>4
<1>4. CASE CopyTrailer
  <2>1. /\ Restored' = Restored /\ Checked = <<>> /\ Checked' = gzBuf /\ gzBuf' = <<>>
        /\ decSlot' = decSlot /\ src' = src
    BY <1>4 DEF CopyTrailer, IInv, PipeInv, Checked, Restored
  <2>2. decSlot \o src \in Seq(Byte)
    BY <1>0, Moves
  <2> QED BY <1>0, <2>1, <2>2, Moves DEF Now, Flow
<1>5. CASE OpenOut
  <2>1. Restored = <<>> /\ Restored' = <<>>
    BY <1>5 DEF OpenOut, Restored
  <2> QED BY <1>5, <2>1 DEF OpenOut, Now, Checked
<1>6. CASE DecRead
  <2>1. /\ Restored' = Restored /\ Checked' = Checked /\ gzBuf' = gzBuf
        /\ src # <<>> /\ decSlot = <<>> /\ decSlot' = <<Head(src)>> /\ src' = Tail(src)
    BY <1>6 DEF DecRead, Restored, Checked, Decrypted, Live
  <2> QED BY <1>0, <2>1, Moves DEF Now, Flow
<1> QED
  BY <1>1, <1>2, <1>3, <1>4, <1>5, <1>6

LEMMA ReadIVFlows ==
  ASSUME IInv, ReadIV, key = "right"
  PROVE  object' = <<IV>> \o Now'
<1>0. src \in Seq(Byte) /\ src # <<>> /\ src = object /\ Tail(src) \in Seq(Byte)
      /\ src = <<Head(src)>> \o Tail(src) /\ <<>> \in Seq(Byte)
  <2>1. src \in Seq(Byte) /\ src # <<>> /\ src = object
    BY NowTypes DEF IInv, PhaseInv, ReadIV
  <2> QED BY <2>1, HandsOver, ByteFacts
<1>1. object' = <<IV>> \o Tail(src)
  BY <1>0 DEF ReadIV, IInv, HeadInv
<1>2. Now' = Flow(<<>>, <<>>, <<>>, <<>>, Tail(src))
  BY DEF ReadIV, IInv, PhaseInv, Unread, Now, Restored, Checked, decVars, gzVars
<1> QED
  BY <1>0, <1>1, <1>2, FlowEnds

LEMMA ConservedStep == IInv /\ [Next]_vars => Conserved'
<1> DEFINE Goal == Conserved'
<1> SUFFICES ASSUME IInv, [Next]_vars PROVE Goal
  OBVIOUS
<1>a. ASSUME Live' => Live /\ Now' = Now /\ object' = object PROVE Goal
  BY <1>a DEF IInv, Conserved, Live, Now, Flow, Served
<1>b. ASSUME UNCHANGED <<op, key, run, object, src, out, decSlot, gzBuf, trailed>> PROVE Goal
  BY <1>b, <1>a DEF Live, Now, Restored, Checked, Served
<1>c. ASSUME ~Live' PROVE Goal
  BY <1>c, <1>a
<1>d. ASSUME Header \/ CopyRead \/ CopyWrite \/ CopyTrailer \/ OpenOut \/ DecRead PROVE Goal
  <2>1. Live' => Live
    BY <1>d DEF IInv, PhaseInv, PipeInv, Live, Served, Header, CopyRead, CopyWrite, CopyTrailer,
                OpenOut, DecRead, cmdVars
  <2>2. object' = object
    BY <1>d DEF Header, CopyRead, CopyWrite, CopyTrailer, OpenOut, DecRead
  <2> QED BY <1>a, <1>d, <2>1, <2>2, FlowMoves
<1> USE DEF Live, Served, cmdVars, decVars, gzVars, files
<1> HIDE DEF Goal
<1>1. ASSUME NEW o \in Ops, NEW k \in Keys, Command(o, k) PROVE Goal
  BY <1>1, <1>c DEF Command
<1>2. CASE Proceed BY <1>c, <1>2 DEF Proceed
<1>3. CASE Refuse BY <1>c, <1>3 DEF Refuse
<1>4. CASE Copy
  <2>1. CASE CopyRead BY <1>d, <2>1
  <2>2. CASE CopyWrite BY <1>d, <2>2
  <2>3. CASE CopyWriteFails BY <1>c, <2>3 DEF CopyWriteFails
  <2>4. CASE CopyTrailer BY <1>d, <2>4
  <2>5. CASE CopyEnds BY <1>c, <2>5 DEF CopyEnds
  <2>6. CASE CopyFails BY <1>c, <2>6 DEF CopyFails
  <2> QED BY <1>4, <2>1, <2>2, <2>3, <2>4, <2>5, <2>6 DEF Copy
<1>5. CASE Main
  <2>1. CASE Fetch BY <1>c, <2>1 DEF Fetch
  <2>2. CASE FetchFails BY <1>c, <2>2 DEF FetchFails
  <2>3. CASE OpenRaw BY <1>c, <2>3 DEF OpenRaw
  <2>4. CASE OpenOut BY <1>d, <2>4
  <2>5. CASE OpenFails BY <1>c, <2>5 DEF OpenFails
  <2>6. CASE Save BY <1>c, <2>6 DEF Save
  <2>7. CASE SaveEnds BY <1>c, <2>7 DEF SaveEnds
  <2>8. CASE SaveFails BY <1>c, <2>8 DEF SaveFails
  <2>9. CASE ReadIV BY <2>9, ReadIVFlows DEF ReadIV, Conserved, Flow, Now, Goal
  <2>10. CASE ReadIVFails BY <1>c, <2>10 DEF ReadIVFails
  <2>11. CASE Header BY <1>d, <2>11
  <2>12. CASE HeaderFails BY <1>c, <2>12 DEF HeaderFails
  <2>13. CASE CloseDec BY <1>c, <2>13 DEF CloseDec
  <2>14. CASE CloseSrc BY <1>c, <2>14 DEF CloseSrc
  <2>15. CASE CloseOut BY <1>c, <2>15 DEF CloseOut, AfterOut
  <2>16. CASE CloseOutFails BY <1>c, <2>16 DEF CloseOutFails, AfterOut
  <2>17. CASE CloseRaw BY <1>c, <2>17 DEF CloseRaw
  <2>18. CASE CloseRawFails BY <1>c, <2>18 DEF CloseRawFails
  <2> QED BY <1>5, <1>4, <2>1, <2>2, <2>3, <2>4, <2>5, <2>6, <2>7, <2>8, <2>9, <2>10, <2>11, <2>12, <2>13, <2>14, <2>15, <2>16, <2>17, <2>18 DEF Main
<1>6. CASE Dec
  <2>1. CASE DecRead BY <1>d, <2>1
  <2>2. CASE DecReadEOF BY <1>b, <2>2 DEF DecReadEOF
  <2>3. CASE DecReadFails BY <1>b, <2>3 DEF DecReadFails
  <2>4. CASE DecBroken BY <1>b, <2>4 DEF DecBroken
  <2> QED BY <1>6, <2>1, <2>2, <2>3, <2>4 DEF Dec
<1>7. CASE UNCHANGED vars BY <1>b, <1>7 DEF vars
<1>8. CASE Terminated BY <1>b, <1>8 DEF Terminated, vars
<1> QED BY <1>1, <1>2, <1>3, <1>5, <1>6, <1>7, <1>8 DEF Next

LEMMA RestoredStep == IInv /\ [Next]_vars => RestoredIsExact'
<1> DEFINE Goal == RestoredIsExact'
<1> SUFFICES ASSUME IInv, [Next]_vars PROVE Goal
  OBVIOUS
<1>a. ASSUME result' = "ok" => result = "ok" /\ UNCHANGED <<op, key, object, out>> PROVE Goal
  BY <1>a DEF IInv, RestoredIsExact, Exact, Sealed
<1>b. CASE CopyEnds
  <2>1. /\ Live /\ Restored = out /\ Checked = <<Trailer>> /\ gzBuf = <<>> /\ decSlot = <<>> /\ src = <<>>
    BY <1>b DEF CopyEnds, IInv, PhaseInv, PipeInv, Live, Restored, Checked
  <2>2. object = <<IV>> \o Flow(out, <<Trailer>>, <<>>, <<>>, <<>>)
    BY <2>1 DEF IInv, Conserved, Live, Flow, Served
  <2>3. Flow(out, <<Trailer>>, <<>>, <<>>, <<>>) = out \o <<Trailer>>
    <3>1. out \in Seq(Byte) /\ <<Trailer>> \in Seq(Byte) /\ <<>> \in Seq(Byte)
      BY <2>1, NowTypes, ByteFacts DEF Live
    <3> QED BY <3>1, FlowEnds
  <2>4. key = "right" /\ Exact
    BY <2>1, <2>2, <2>3 DEF Exact, Sealed, Live
  <2> QED BY <1>b, <2>4 DEF CopyEnds, RestoredIsExact, Exact, cmdVars, files
<1> USE DEF IInv, PhaseInv, Fetched, cmdVars, decVars, gzVars, files
<1> HIDE DEF Goal
<1>1. ASSUME NEW o \in Ops, NEW k \in Keys, Command(o, k) PROVE Goal
  BY <1>1, <1>a DEF Command
<1>2. CASE Proceed BY <1>a, <1>2 DEF Proceed
<1>3. CASE Refuse BY <1>a, <1>3 DEF Refuse
<1>4. CASE Copy
  <2>1. CASE CopyRead BY <1>a, <2>1 DEF CopyRead
  <2>2. CASE CopyWrite BY <1>a, <2>2 DEF CopyWrite
  <2>3. CASE CopyWriteFails BY <1>a, <2>3 DEF CopyWriteFails
  <2>4. CASE CopyTrailer BY <1>a, <2>4 DEF CopyTrailer
  <2>5. CASE CopyEnds BY <1>b, <2>5
  <2>6. CASE CopyFails BY <2>6 DEF CopyFails, RestoredIsExact, Goal
  <2> QED BY <1>4, <2>1, <2>2, <2>3, <2>4, <2>5, <2>6 DEF Copy
<1>5. CASE Main
  <2>1. CASE Fetch BY <1>a, <2>1 DEF Fetch
  <2>2. CASE FetchFails BY <1>a, <2>2 DEF FetchFails
  <2>3. CASE OpenRaw BY <1>a, <2>3 DEF OpenRaw
  <2>4. CASE OpenOut BY <1>a, <2>4 DEF OpenOut
  <2>5. CASE OpenFails BY <1>a, <2>5 DEF OpenFails
  <2>6. CASE Save BY <1>a, <2>6 DEF Save
  <2>7. CASE SaveEnds BY <2>7 DEF SaveEnds, RestoredIsExact, Copies, Goal
  <2>8. CASE SaveFails BY <1>a, <2>8 DEF SaveFails
  <2>9. CASE ReadIV BY <1>a, <2>9 DEF ReadIV
  <2>10. CASE ReadIVFails BY <1>a, <2>10 DEF ReadIVFails
  <2>11. CASE Header BY <1>a, <2>11 DEF Header
  <2>12. CASE HeaderFails BY <1>a, <2>12 DEF HeaderFails
  <2>13. CASE CloseDec BY <1>a, <2>13 DEF CloseDec
  <2>14. CASE CloseSrc BY <1>a, <2>14 DEF CloseSrc
  <2>15. CASE CloseOut BY <1>a, <2>15 DEF CloseOut
  <2>16. CASE CloseOutFails BY <1>a, <2>16 DEF CloseOutFails, Doubted
  <2>17. CASE CloseRaw BY <1>a, <2>17 DEF CloseRaw
  <2>18. CASE CloseRawFails BY <1>a, <2>18 DEF CloseRawFails, Doubted
  <2> QED BY <1>5, <1>4, <2>1, <2>2, <2>3, <2>4, <2>5, <2>6, <2>7, <2>8, <2>9, <2>10, <2>11, <2>12, <2>13, <2>14, <2>15, <2>16, <2>17, <2>18 DEF Main
<1>6. CASE Dec
  <2>1. CASE DecRead BY <1>a, <2>1 DEF DecRead
  <2>2. CASE DecReadEOF BY <1>a, <2>2 DEF DecReadEOF
  <2>3. CASE DecReadFails BY <1>a, <2>3 DEF DecReadFails
  <2>4. CASE DecBroken BY <1>a, <2>4 DEF DecBroken
  <2> QED BY <1>6, <2>1, <2>2, <2>3, <2>4 DEF Dec
<1>7. CASE UNCHANGED vars BY <1>a, <1>7 DEF vars
<1>8. CASE Terminated BY <1>a, <1>8 DEF Terminated, vars
<1> QED BY <1>1, <1>2, <1>3, <1>5, <1>6, <1>7, <1>8 DEF Next

LEMMA IsArchive == IInv => RestoredIsArchive
<1> SUFFICES ASSUME IInv, result = "ok", op \in {"local", "decrypt", "both"}
             PROVE  key = "right" /\ \E n \in 0..Whole : IsWholeOf(n)
  BY DEF RestoredIsArchive
<1>1. key = "right" /\ object = Sealed(out) /\ out \in Seq(Byte) /\ IsCut(object)
  BY DEF IInv, TypeOK, CutInv, RestoredIsExact, Exact, Byte
<1> QED
  BY <1>1, SealedIsArchive DEF IsWholeOf

-----------------------------------------------------------------------------
(* The theorems.                                                           *)

(* The inductive invariant of Restore.                                     *)
THEOREM Invariance == Spec => []IInv
<1>1. Init => IInv
  <2> SUFFICES ASSUME Init PROVE IInv
    OBVIOUS
  <2> USE RestoreAssumption, ByteFacts DEF Init
  <2>1. TypeOK
    <3>1. /\ object \in Seq(Byte) /\ src \in Seq(Byte) /\ decSlot \in Seq(Token)
          /\ gzBuf \in Seq(Byte) /\ raw \in Seq(Byte) /\ out \in Seq(Byte)
      OBVIOUS
    <3>2. Len(decSlot) <= 1 /\ Len(gzBuf) <= 1 /\ commands \in 0..MaxCommands
      OBVIOUS
    <3> QED BY <3>1, <3>2 DEF TypeOK, Ops, Keys, Byte
  <2>2. PhaseInv /\ PipeInv /\ HeadInv /\ CutInv /\ CopyInv
    BY NothingIsCut DEF PhaseInv, PipeInv, HeadInv, CutInv, CopyInv, Fetched, Served
  <2>3. Conserved /\ RestoredIsExact /\ CopyIsExact
    BY DEF Conserved, RestoredIsExact, CopyIsExact
  <2> QED BY <2>1, <2>2, <2>3 DEF IInv
<1>2. IInv /\ [Next]_vars => IInv'
  BY NextTypeOK, ControlStep, HeadStep, CutStep, CopyStep, ConservedStep, RestoredStep DEF IInv
<1> QED
  BY <1>1, <1>2, PTL DEF Spec

(* Every variable of a restore keeps its type, and what a wrong key makes  *)
(* of the data never gets past the gzip header.                            *)
THEOREM TypeCorrect == Spec => []TypeOK
BY Invariance, PTL DEF IInv

(* A decryption reported as done has written the data of the object, all   *)
(* of it, for every object: also one left by an interrupted download.      *)
THEOREM RestoreExact == Spec => []RestoredIsExact
BY Invariance, PTL DEF IInv

(* The bytes that are decrypted were once written by a backup run, if not  *)
(* all of them arrived: so the data is the whole beginning of a dump that  *)
(* this run had read, piece for piece.                                     *)
THEOREM RestoreArchive == Spec => []RestoredIsArchive
BY IsArchive, Invariance, PTL

(* An encrypted copy reported as saved is the object.                      *)
THEOREM CopyExact == Spec => []CopyIsExact
BY Invariance, PTL DEF IInv

(* On its way, nothing of the data is lost, repeated or overtaken.         *)
THEOREM Conservation == Spec => []Conserved
BY Invariance, PTL DEF IInv

-----------------------------------------------------------------------------
(* A command comes to an end: nobody waits for good, and there are no more *)
(* steps than StepsLeft.                                                   *)

LEMMA SomebodyReady == IInv => NeverStuck
<1> SUFFICES ASSUME IInv, run # "ask", ~Finished PROVE MainReady \/ DecReady
  BY DEF NeverStuck
<1>1. CASE run \in {"header", "copy"}
  BY <1>1 DEF IInv, TypeOK, PhaseInv, PipeInv, MainReady, DecReady
<1>2. CASE run = "returned"
  BY <1>2 DEF IInv, TypeOK, PhaseInv, Finished, DecReady
<1> QED
  BY <1>1, <1>2 DEF IInv, TypeOK, MainReady

(* For every file and any number of commands, somebody can go on.          *)
THEOREM Progress == Spec => []NeverStuck
BY SomebodyReady, Invariance, PTL

(* What the steps do to the lengths.                                       *)
LEMMA Lengths ==
  ASSUME NEW S, NEW a \in Seq(S)
  PROVE  Len(a) \in Nat /\ (a = <<>> => Len(a) = 0)
         /\ (a # <<>> => Len(Tail(a)) = Len(a) - 1 /\ Len(a) > 0)
BY HeadTailProperties, LenProperties, EmptySeq

LEMMA LengthsNow ==
  ASSUME TypeOK
  PROVE  /\ Len(src) \in Nat /\ Len(decSlot) \in Nat /\ Len(gzBuf) \in Nat
         /\ decSlot # <<>> => Len(decSlot) = 1
         /\ gzBuf # <<>> => Len(gzBuf) = 1
         /\ src # <<>> => Len(Tail(src)) = Len(src) - 1
         /\ Len(<<>>) = 0
<1>1. src \in Seq(Byte) /\ decSlot \in Seq(Token) /\ gzBuf \in Seq(Byte) /\ <<>> \in Seq(Byte)
  BY ByteFacts DEF TypeOK, Byte
<1>2. Len(decSlot) <= 1 /\ Len(gzBuf) <= 1
  BY DEF TypeOK
<1>3. decSlot # <<>> => Len(decSlot) = 1
  BY <1>1, <1>2, AtMostOne
<1>4. gzBuf # <<>> => Len(gzBuf) = 1
  BY <1>1, <1>2, AtMostOne
<1>5. Len(src) \in Nat /\ (src # <<>> => Len(Tail(src)) = Len(src) - 1)
  BY <1>1, Lengths
<1>6. Len(decSlot) \in Nat /\ Len(gzBuf) \in Nat /\ Len(<<>>) = 0
  BY <1>1, Lengths
<1> QED
  BY <1>3, <1>4, <1>5, <1>6

LEMMA CutLength ==
  ASSUME NEW a \in Seq(Byte), IsCut(a)
  PROVE  Len(a) <= Whole + 2
<1>1. PICK n \in 0..Whole : \E rest \in Seq(Byte) : a \o rest = Archive(n)
  BY DEF IsCut, Byte
<1>2. PICK rest : rest \in Seq(Byte) /\ a \o rest = Archive(n)
  BY <1>1
<1>3. Len(Archive(n)) = n + 2
  <2>1. Pieces(n) \in Seq(Byte) /\ Len(Pieces(n)) = n /\ Archive(n) = Sealed(Pieces(n))
    BY ArchiveType, RestoreAssumption DEF Pieces, Archive, Sealed
  <2> QED BY <2>1, SealedFacts
<1>4. Len(a \o rest) = Len(a) + Len(rest) /\ Len(a) \in Nat /\ Len(rest) \in Nat
  BY <1>2, ConcatProperties, LenProperties
<1> QED
  BY <1>1, <1>2, <1>3, <1>4, RestoreAssumption

SummandsNat == PhaseSteps \in Nat /\ DecSteps \in Nat /\ ByteSteps \in Nat

LEMMA SummandsAreNat == TypeOK => SummandsNat
<1> SUFFICES ASSUME TypeOK PROVE SummandsNat
  OBVIOUS
<1>1. PhaseSteps \in Nat
  BY DEF TypeOK, PhaseSteps
<1>2. DecSteps \in Nat
  BY DEF DecSteps
<1>3. ByteSteps \in Nat
  BY LengthsNow, RestoreAssumption DEF ByteSteps
<1> QED
  BY <1>1, <1>2, <1>3 DEF SummandsNat

LEMMA SummandsStayNat == TypeOK' => SummandsNat'
BY SummandsAreNat, PTL

(* One of the summands falls, and none of the others rises.                *)
LEMMA OneFalls ==
  ASSUME TypeOK, TypeOK', PhaseSteps' <= PhaseSteps, DecSteps' <= DecSteps, ByteSteps' <= ByteSteps,
         PhaseSteps' < PhaseSteps \/ DecSteps' < DecSteps \/ ByteSteps' < ByteSteps
  PROVE  StepsLeft' \in Nat /\ StepsLeft' < StepsLeft
BY SummandsAreNat, SummandsStayNat DEF SummandsNat, StepsLeft

(* A step of the command that moves no bytes.                              *)
LEMMA PhaseMoves ==
  ASSUME TypeOK, TypeOK', PhaseSteps' < PhaseSteps, UNCHANGED <<dec, src, decSlot, gzBuf>>,
         run \in {"ask", "fetch"} \/ run' \notin {"ask", "fetch"},
         run \in {"ask", "fetch"} /\ run' \notin {"ask", "fetch"} => Unread /\ src = <<>>
  PROVE  StepsLeft' \in Nat /\ StepsLeft' < StepsLeft
<1>1. DecSteps' = DecSteps
  BY DEF DecSteps
<1>2. ByteSteps' <= ByteSteps
  BY LengthsNow, RestoreAssumption DEF ByteSteps, Unread
<1> QED
  BY <1>1, <1>2, OneFalls, SummandsAreNat, SummandsStayNat DEF SummandsNat

LEMMA CommandShrinks ==
  ASSUME IInv, IInv', Proceed \/ Refuse \/ Main \/ Dec
  PROVE  StepsLeft' \in Nat /\ StepsLeft' < StepsLeft
<1> DEFINE Goal == StepsLeft' \in Nat /\ StepsLeft' < StepsLeft
<1> SUFFICES Goal
  OBVIOUS
<1>0. TypeOK /\ TypeOK'
  BY DEF IInv
<1>a. ASSUME PhaseSteps' < PhaseSteps, UNCHANGED <<dec, src, decSlot, gzBuf>>,
             run \in {"ask", "fetch"} \/ run' \notin {"ask", "fetch"},
             run \in {"ask", "fetch"} /\ run' \notin {"ask", "fetch"} => Unread /\ src = <<>>
      PROVE  Goal
  BY <1>a, <1>0, PhaseMoves
<1>b. ASSUME PhaseSteps' <= PhaseSteps, DecSteps' <= DecSteps, ByteSteps' <= ByteSteps,
             PhaseSteps' < PhaseSteps \/ DecSteps' < DecSteps \/ ByteSteps' < ByteSteps
      PROVE  Goal
  BY <1>b, <1>0, OneFalls
<1>c. run \in {"ask", "fetch"} => Unread /\ src = <<>>
  BY DEF IInv, PhaseInv
<1> HIDE DEF Goal
<1> USE DEF cmdVars, decVars, gzVars, files
<1>1. CASE Proceed BY <1>a, <1>c, <1>1 DEF Proceed, PhaseSteps
<1>2. CASE Refuse BY <1>a, <1>c, <1>2 DEF Refuse, PhaseSteps
<1>3. CASE FetchFails BY <1>a, <1>c, <1>3 DEF FetchFails, PhaseSteps
<1>4. CASE OpenRaw BY <1>a, <1>c, <1>4 DEF OpenRaw, PhaseSteps, IInv, TypeOK, PhaseInv
<1>5. CASE OpenOut BY <1>a, <1>c, <1>5 DEF OpenOut, PhaseSteps, IInv, TypeOK, PhaseInv
<1>6. CASE OpenFails BY <1>a, <1>c, <1>6 DEF OpenFails, PhaseSteps, IInv, TypeOK, PhaseInv
<1>7. CASE SaveEnds BY <1>a, <1>c, <1>7 DEF SaveEnds, PhaseSteps
<1>8. CASE SaveFails BY <1>a, <1>c, <1>8 DEF SaveFails, PhaseSteps
<1>9. CASE ReadIVFails BY <1>a, <1>c, <1>9 DEF ReadIVFails, PhaseSteps, IInv, TypeOK, PhaseInv
<1>10. CASE HeaderFails BY <1>a, <1>c, <1>10 DEF HeaderFails, PhaseSteps
<1>11. CASE CopyWriteFails BY <1>a, <1>c, <1>11 DEF CopyWriteFails, PhaseSteps
<1>12. CASE CopyEnds BY <1>a, <1>c, <1>12 DEF CopyEnds, PhaseSteps
<1>13. CASE CopyFails BY <1>a, <1>c, <1>13 DEF CopyFails, PhaseSteps
<1>14. CASE CloseDec BY <1>a, <1>c, <1>14 DEF CloseDec, PhaseSteps
<1>15. CASE CloseSrc BY <1>a, <1>c, <1>15 DEF CloseSrc, PhaseSteps
<1>27. CASE CloseOut BY <1>a, <1>c, <1>27 DEF CloseOut, AfterOut, PhaseSteps
<1>28. CASE CloseOutFails BY <1>a, <1>c, <1>28 DEF CloseOutFails, AfterOut, PhaseSteps
<1>29. CASE CloseRaw BY <1>a, <1>c, <1>29 DEF CloseRaw, PhaseSteps
<1>30. CASE CloseRawFails BY <1>a, <1>c, <1>30 DEF CloseRawFails, PhaseSteps
<1>16. CASE Fetch
  <2>1. PhaseSteps' < PhaseSteps
    BY <1>16, SummandsAreNat DEF IInv, TypeOK, PhaseInv, Unread, Fetched, Fetch, PhaseSteps, SummandsNat
  <2>2. DecSteps' = DecSteps
    BY <1>16 DEF IInv, TypeOK, PhaseInv, Unread, Fetched, Fetch, DecSteps
  <2>3. ByteSteps' <= ByteSteps
    <3>1. object' \in Seq(Byte) /\ IsCut(object')
      BY DEF IInv, TypeOK, CutInv, Byte, IsCut
    <3>2. Len(object') <= Whole + 2 /\ Len(object') \in Nat
      BY <3>1, CutLength, LenProperties
    <3> QED BY <1>0, <1>16, <3>2, LengthsNow, RestoreAssumption DEF IInv, PhaseInv, Unread, Fetch, ByteSteps
  <2> QED BY <1>0, <1>b, <2>1, <2>2, <2>3, SummandsAreNat, SummandsStayNat DEF SummandsNat
<1>17. CASE Save
  <2>1. PhaseSteps' = PhaseSteps
    BY <1>17, SummandsAreNat DEF IInv, TypeOK, PhaseInv, Unread, Fetched, Save, PhaseSteps, SummandsNat
  <2>2. DecSteps' = DecSteps
    BY <1>17 DEF IInv, TypeOK, PhaseInv, Unread, Fetched, Save, DecSteps
  <2>3. ByteSteps' < ByteSteps
    BY <1>0, <1>17, LengthsNow, RestoreAssumption DEF IInv, TypeOK, PhaseInv, Unread, Fetched, Save, ByteSteps
  <2> QED BY <1>0, <1>b, <2>1, <2>2, <2>3, SummandsAreNat, SummandsStayNat DEF SummandsNat
<1>18. CASE ReadIV
  <2>1. PhaseSteps' < PhaseSteps
    BY <1>18, SummandsAreNat DEF IInv, TypeOK, PhaseInv, Unread, Fetched, ReadIV, PhaseSteps, SummandsNat
  <2>2. DecSteps' < DecSteps
    BY <1>18 DEF IInv, TypeOK, PhaseInv, Unread, Fetched, ReadIV, DecSteps
  <2>3. ByteSteps' < ByteSteps
    BY <1>0, <1>18, LengthsNow, RestoreAssumption DEF IInv, TypeOK, PhaseInv, Unread, Fetched, ReadIV, ByteSteps
  <2> QED BY <1>0, <1>b, <2>1, <2>2, <2>3, SummandsAreNat, SummandsStayNat DEF SummandsNat
<1>19. CASE Header
  <2>1. PhaseSteps' < PhaseSteps
    BY <1>19, SummandsAreNat DEF IInv, TypeOK, PhaseInv, Unread, Fetched, Header, PhaseSteps, SummandsNat
  <2>2. DecSteps' = DecSteps
    BY <1>19 DEF IInv, TypeOK, PhaseInv, Unread, Fetched, Header, DecSteps
  <2>3. ByteSteps' < ByteSteps
    BY <1>0, <1>19, LengthsNow, RestoreAssumption DEF IInv, TypeOK, PhaseInv, Unread, Fetched, Header, ByteSteps
  <2> QED BY <1>0, <1>b, <2>1, <2>2, <2>3, SummandsAreNat, SummandsStayNat DEF SummandsNat
<1>20. CASE CopyRead
  <2>1. PhaseSteps' = PhaseSteps
    BY <1>20, SummandsAreNat DEF IInv, TypeOK, PhaseInv, Unread, Fetched, CopyRead, PhaseSteps, SummandsNat
  <2>2. DecSteps' = DecSteps
    BY <1>20 DEF IInv, TypeOK, PhaseInv, Unread, Fetched, CopyRead, DecSteps
  <2>3. ByteSteps' < ByteSteps
    BY <1>0, <1>20, LengthsNow, RestoreAssumption DEF IInv, TypeOK, PhaseInv, Unread, Fetched, CopyRead, ByteSteps
  <2> QED BY <1>0, <1>b, <2>1, <2>2, <2>3, SummandsAreNat, SummandsStayNat DEF SummandsNat
<1>21. CASE CopyWrite
  <2>1. PhaseSteps' = PhaseSteps
    BY <1>21, SummandsAreNat DEF IInv, TypeOK, PhaseInv, Unread, Fetched, CopyWrite, PhaseSteps, SummandsNat
  <2>2. DecSteps' = DecSteps
    BY <1>21 DEF IInv, TypeOK, PhaseInv, Unread, Fetched, CopyWrite, DecSteps
  <2>3. ByteSteps' < ByteSteps
    BY <1>0, <1>21, LengthsNow, RestoreAssumption DEF IInv, TypeOK, PhaseInv, Unread, Fetched, CopyWrite, ByteSteps
  <2> QED BY <1>0, <1>b, <2>1, <2>2, <2>3, SummandsAreNat, SummandsStayNat DEF SummandsNat
<1>22. CASE CopyTrailer
  <2>1. PhaseSteps' = PhaseSteps
    BY <1>22, SummandsAreNat DEF IInv, TypeOK, PhaseInv, Unread, Fetched, CopyTrailer, PhaseSteps, SummandsNat
  <2>2. DecSteps' = DecSteps
    BY <1>22 DEF IInv, TypeOK, PhaseInv, Unread, Fetched, CopyTrailer, DecSteps
  <2>3. ByteSteps' < ByteSteps
    BY <1>0, <1>22, LengthsNow, RestoreAssumption DEF IInv, TypeOK, PhaseInv, Unread, Fetched, CopyTrailer, ByteSteps
  <2> QED BY <1>0, <1>b, <2>1, <2>2, <2>3, SummandsAreNat, SummandsStayNat DEF SummandsNat
<1>23. CASE DecRead
  <2>1. PhaseSteps' = PhaseSteps
    BY <1>23, SummandsAreNat DEF IInv, TypeOK, PhaseInv, Unread, Fetched, DecRead, PhaseSteps, SummandsNat
  <2>2. DecSteps' = DecSteps
    BY <1>23 DEF IInv, TypeOK, PhaseInv, Unread, Fetched, DecRead, DecSteps
  <2>3. ByteSteps' < ByteSteps
    BY <1>0, <1>23, LengthsNow, RestoreAssumption DEF IInv, TypeOK, PhaseInv, Unread, Fetched, DecRead, ByteSteps
  <2> QED BY <1>0, <1>b, <2>1, <2>2, <2>3, SummandsAreNat, SummandsStayNat DEF SummandsNat
<1>24. CASE DecReadEOF
  <2>1. PhaseSteps' = PhaseSteps
    BY <1>24, SummandsAreNat DEF IInv, TypeOK, PhaseInv, Unread, Fetched, DecReadEOF, PhaseSteps, SummandsNat
  <2>2. DecSteps' < DecSteps
    BY <1>24 DEF IInv, TypeOK, PhaseInv, Unread, Fetched, DecReadEOF, DecSteps
  <2>3. ByteSteps' = ByteSteps
    BY <1>0, <1>24, LengthsNow, RestoreAssumption DEF IInv, TypeOK, PhaseInv, Unread, Fetched, DecReadEOF, ByteSteps
  <2> QED BY <1>0, <1>b, <2>1, <2>2, <2>3, SummandsAreNat, SummandsStayNat DEF SummandsNat
<1>25. CASE DecReadFails
  <2>1. PhaseSteps' = PhaseSteps
    BY <1>25, SummandsAreNat DEF IInv, TypeOK, PhaseInv, Unread, Fetched, DecReadFails, PhaseSteps, SummandsNat
  <2>2. DecSteps' < DecSteps
    BY <1>25 DEF IInv, TypeOK, PhaseInv, Unread, Fetched, DecReadFails, DecSteps
  <2>3. ByteSteps' = ByteSteps
    BY <1>0, <1>25, LengthsNow, RestoreAssumption DEF IInv, TypeOK, PhaseInv, Unread, Fetched, DecReadFails, ByteSteps
  <2> QED BY <1>0, <1>b, <2>1, <2>2, <2>3, SummandsAreNat, SummandsStayNat DEF SummandsNat
<1>26. CASE DecBroken
  <2>1. PhaseSteps' = PhaseSteps
    BY <1>26, SummandsAreNat DEF IInv, TypeOK, PhaseInv, Unread, Fetched, DecBroken, PhaseSteps, SummandsNat
  <2>2. DecSteps' < DecSteps
    BY <1>26 DEF IInv, TypeOK, PhaseInv, Unread, Fetched, DecBroken, DecSteps
  <2>3. ByteSteps' = ByteSteps
    BY <1>0, <1>26, LengthsNow, RestoreAssumption DEF IInv, TypeOK, PhaseInv, Unread, Fetched, DecBroken, ByteSteps
  <2> QED BY <1>0, <1>b, <2>1, <2>2, <2>3, SummandsAreNat, SummandsStayNat DEF SummandsNat
<1> QED
  BY <1>1, <1>2, <1>3, <1>4, <1>5, <1>6, <1>7, <1>8, <1>9, <1>10, <1>11, <1>12, <1>13, <1>14, <1>15, <1>16, <1>17, <1>18, <1>19, <1>20, <1>21, <1>22, <1>23, <1>24, <1>25, <1>26, <1>27, <1>28, <1>29, <1>30 DEF Main, Copy, Dec, Goal

(* A command and its goroutine take at most 3 * Whole + 20 steps.          *)
THEOREM Termination == Spec => Shrinks
<1>1. ASSUME IInv, IInv', Next, vars' # vars
      PROVE  IF commands' # commands THEN StepsLeft' = 3 * Whole + 20
             ELSE StepsLeft' \in Nat /\ StepsLeft' < StepsLeft
  <2>1. ASSUME NEW o \in Ops, NEW k \in Keys, Command(o, k)
        PROVE  commands' # commands /\ StepsLeft' = 3 * Whole + 20
    <3>1. commands' # commands
      BY <1>1, <2>1 DEF Command, IInv, TypeOK
    <3>2. PhaseSteps' = 12 /\ DecSteps' = 2 /\ ByteSteps' = 3 * (Whole + 2)
      BY <2>1 DEF Command, PhaseSteps, DecSteps, ByteSteps
    <3> QED BY <3>1, <3>2, RestoreAssumption DEF StepsLeft
  <2>2. ASSUME Proceed \/ Refuse \/ Main \/ Dec
        PROVE  commands' = commands /\ StepsLeft' \in Nat /\ StepsLeft' < StepsLeft
    <3>1. commands' = commands
      BY <2>2 DEF Main, Copy, Dec, Proceed, Refuse, Fetch, FetchFails, OpenRaw, OpenOut, OpenFails, Save, SaveEnds, SaveFails, ReadIV, ReadIVFails, Header, HeaderFails, CopyRead, CopyWrite, CopyWriteFails, CopyTrailer, CopyEnds, CopyFails, CloseDec, CloseOut, CloseOutFails, CloseRaw, CloseRawFails, CloseSrc, DecRead, DecReadEOF, DecReadFails, DecBroken, cmdVars
    <3> QED BY <1>1, <2>2, <3>1, CommandShrinks
  <2>3. ~Terminated
    BY <1>1 DEF Terminated
  <2> QED BY <1>1, <2>1, <2>2, <2>3 DEF Next
<1>2. IInv /\ IInv' /\ [Next]_vars =>
        [IF commands' # commands THEN StepsLeft' = 3 * Whole + 20
         ELSE StepsLeft' \in Nat /\ StepsLeft' < StepsLeft]_vars
  BY <1>1
<1> QED
  BY <1>2, Invariance, PTL DEF Spec, Shrinks

-----------------------------------------------------------------------------
(* Every command keeps the contract: its steps are the contract's, or      *)
(* leave what has been told, the source and the files as they are.         *)

LEMMA DeliveredStays ==
  ASSUME UNCHANGED <<op, object, raw, out>>
  PROVE  Delivered' = Delivered
BY DEF Delivered, IsWholeOf

OkIsGood == result = "ok" => Delivered

LEMMA OkIsDelivered == IInv => OkIsGood
<1>1. IInv => RestoredIsArchive
  BY IsArchive
<1> QED
  BY <1>1 DEF IInv, CopyIsExact, RestoredIsArchive, Delivered, OkIsGood

LEMMA OkIsDeliveredNext == IInv' => OkIsGood'
BY OkIsDelivered, PTL

cVars == <<result, srcR, files, Delivered>>

(* The ways in which a step of a command is one of the contract.           *)
LEMMA Stutters ==
  ASSUME UNCHANGED <<result, srcR, op, object, raw, out>>
  PROVE  [Contract!CNext]_cVars
BY DeliveredStays DEF cVars, files

LEMMA Writes ==
  ASSUME srcR = "open", result # "ok", UNCHANGED <<result, srcR>>
  PROVE  [Contract!CNext]_cVars
<1>1. Delivered' \in BOOLEAN
  BY DEF Delivered
<1> QED
  BY <1>1 DEF Contract!CNext, Contract!Write

LEMMA Tells ==
  ASSUME result = "none", result' = "err" \/ (result' = "ok" /\ srcR = "open" /\ IInv'),
         UNCHANGED <<srcR, op, object, raw, out>>
  PROVE  [Contract!CNext]_cVars
<1>1. Delivered' = Delivered
  BY DeliveredStays
<1>2. result' = "ok" => Delivered
  BY <1>1, OkIsDeliveredNext DEF OkIsGood
<1> QED
  BY <1>1, <1>2 DEF Contract!CNext, Contract!Tell, files

LEMMA Revokes ==
  ASSUME srcR = "open", srcR' = srcR, result # "none", result' = Doubted
  PROVE  [Contract!CNext]_cVars
<1>1. Delivered' \in BOOLEAN
  BY DEF Delivered
<1>2. CASE result = "ok"
  BY <1>1, <1>2 DEF Doubted, Contract!CNext, Contract!Revoke
<1>3. CASE result # "ok"
  BY <1>3, Writes DEF Doubted
<1> QED
  BY <1>2, <1>3

LEMMA ContractStep == IInv /\ IInv' /\ [Next]_vars => [Contract!CNext]_cVars
<1> DEFINE Goal == [Contract!CNext]_cVars
<1> SUFFICES ASSUME IInv, IInv', [Next]_vars PROVE Goal
  OBVIOUS
<1>a. ASSUME UNCHANGED <<result, srcR, op, object, raw, out>> PROVE Goal
  BY <1>a, Stutters
<1>b. ASSUME srcR = "open", result # "ok", UNCHANGED <<result, srcR>> PROVE Goal
  BY <1>b, Writes
<1>c. ASSUME result = "none", result' = "err" \/ (result' = "ok" /\ srcR = "open"),
             UNCHANGED <<srcR, op, object, raw, out>>
      PROVE  Goal
  BY <1>c, Tells
<1> HIDE DEF Goal
<1> USE DEF IInv, PhaseInv, Fetched, cmdVars, decVars, gzVars, files
<1>1. ASSUME NEW o \in Ops, NEW k \in Keys, Command(o, k) PROVE Goal
  <2>1. Delivered' \in BOOLEAN
    BY DEF Delivered
  <2> QED BY <1>1, <2>1 DEF Command, Goal, Contract!CNext, Contract!Ask
<1>2. CASE Proceed BY <1>a, <1>2 DEF Proceed
<1>3. CASE Refuse BY <1>c, <1>3 DEF Refuse
<1>4. CASE Copy
  <2>1. CASE CopyRead BY <1>a, <2>1 DEF CopyRead
  <2>2. CASE CopyWrite BY <1>b, <2>2 DEF CopyWrite
  <2>3. CASE CopyWriteFails BY <1>c, <2>3 DEF CopyWriteFails
  <2>4. CASE CopyTrailer BY <1>a, <2>4 DEF CopyTrailer
  <2>5. CASE CopyEnds BY <1>c, <2>5 DEF CopyEnds
  <2>6. CASE CopyFails BY <1>c, <2>6 DEF CopyFails
  <2> QED BY <1>4, <2>1, <2>2, <2>3, <2>4, <2>5, <2>6 DEF Copy
<1>5. CASE Main
  <2>1. CASE Fetch
    <3>1. Delivered' \in BOOLEAN
      BY DEF Delivered
    <3>2. result = "none" /\ srcR = "absent"
      BY <2>1 DEF Fetch
    <3> QED BY <2>1, <3>1, <3>2 DEF Fetch, Goal, Contract!CNext, Contract!Open
  <2>2. CASE FetchFails BY <1>c, <2>2 DEF FetchFails
  <2>3. CASE OpenRaw BY <1>b, <2>3 DEF OpenRaw
  <2>4. CASE OpenOut BY <1>b, <2>4 DEF OpenOut
  <2>5. CASE OpenFails BY <1>c, <2>5 DEF OpenFails
  <2>6. CASE Save BY <1>b, <2>6 DEF Save
  <2>7. CASE SaveEnds BY <1>c, <2>7 DEF SaveEnds
  <2>8. CASE SaveFails BY <1>c, <2>8 DEF SaveFails
  <2>9. CASE ReadIV BY <1>b, <2>9 DEF ReadIV
  <2>10. CASE ReadIVFails BY <1>c, <2>10 DEF ReadIVFails
  <2>11. CASE Header BY <1>a, <2>11 DEF Header
  <2>12. CASE HeaderFails BY <1>c, <2>12 DEF HeaderFails
  <2>13. CASE CloseDec BY <1>a, <2>13 DEF CloseDec
  <2>14. CASE CloseSrc
    <3>1. Delivered' = Delivered
      BY <2>14, DeliveredStays DEF CloseSrc
    <3>2. srcR = "open" /\ result # "none"
      BY <2>14 DEF CloseSrc
    <3> QED BY <2>14, <3>1, <3>2 DEF CloseSrc, Goal, Contract!CNext, Contract!Close
  <2>15. CASE CloseOut BY <1>a, <2>15 DEF CloseOut
  <2>16. CASE CloseOutFails BY <2>16, Revokes DEF CloseOutFails, Goal
  <2>17. CASE CloseRaw BY <1>a, <2>17 DEF CloseRaw
  <2>18. CASE CloseRawFails BY <2>18, Revokes DEF CloseRawFails, Goal
  <2> QED BY <1>5, <1>4, <2>1, <2>2, <2>3, <2>4, <2>5, <2>6, <2>7, <2>8, <2>9, <2>10, <2>11, <2>12, <2>13, <2>14, <2>15, <2>16, <2>17, <2>18 DEF Main
<1>6. CASE Dec
  <2>1. CASE DecRead
    <3>1. CASE result = "ok"
      <4>1. op # "both"
        BY <2>1, <3>1 DEF DecRead, CopyInv, Served
      <4> QED BY <1>a, <2>1, <4>1 DEF DecRead, Teed
    <3>2. CASE result # "ok" BY <1>b, <2>1, <3>2 DEF DecRead
    <3> QED BY <3>1, <3>2
  <2>2. CASE DecReadEOF BY <1>a, <2>2 DEF DecReadEOF
  <2>3. CASE DecReadFails BY <1>a, <2>3 DEF DecReadFails
  <2>4. CASE DecBroken BY <1>a, <2>4 DEF DecBroken
  <2> QED BY <1>6, <2>1, <2>2, <2>3, <2>4 DEF Dec
<1>7. CASE UNCHANGED vars BY <1>a, <1>7 DEF vars
<1>8. CASE Terminated BY <1>a, <1>8 DEF Terminated, vars
<1> QED BY <1>1, <1>2, <1>3, <1>5, <1>6, <1>7, <1>8 DEF Next

(* The refinement: whatever the six ways of getting a backup back do,      *)
(* their user sees the contract of a restore.                              *)
THEOREM Implements == Spec => KeepsContract
<1>1. Init => Contract!CInit
  <2>1. Delivered \in BOOLEAN
    BY DEF Delivered
  <2> QED BY <2>1 DEF Init, Contract!CInit
<1>2. Spec => [][Contract!CNext]_cVars
  BY ContractStep, Invariance, PTL DEF Spec
<1> QED
  BY <1>1, <1>2, PTL DEF Spec, KeepsContract, Contract!CSpec, cVars

(* Files are touched only when the source is there.                        *)
THEOREM FilesAfterSource == Spec => SourceFirst
<1>1. [Contract!CNext]_cVars => [files' # files => srcR = "open"]_vars
  BY DEF Contract!CNext, Contract!Ask, Contract!Open, Contract!Write, Contract!Tell, Contract!Revoke, Contract!Close, cVars
<1>2. Spec => [][Contract!CNext]_cVars
  BY ContractStep, Invariance, PTL DEF Spec
<1> QED
  BY <1>1, <1>2, PTL DEF SourceFirst

=============================================================================
