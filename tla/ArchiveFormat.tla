---------------------------- MODULE ArchiveFormat ----------------------------
(***************************************************************************)
(* What a backup is made of, shared by the pipeline that writes it and the *)
(* restore that reads it.  The dump is a sequence of pieces; gzip puts a   *)
(* trailer behind them, encryption an IV in front.                         *)
(***************************************************************************)
EXTENDS Integers, Sequences

IV      == 0
Trailer == -1
Pieces(n)  == [i \in 1..n |-> i]
Archive(n) == <<IV>> \o (Pieces(n) \o <<Trailer>>)

\* The encrypted archive of any data d; Archive(n) is Sealed(Pieces(n)).
Sealed(d) == <<IV>> \o (d \o <<Trailer>>)

=============================================================================
