------------------------------- MODULE Copies -------------------------------
(***************************************************************************)
(* What the transfers of libncftp promise together: those of files         *)
(* (Transfer) and of memory and of a tar stream (StreamTransfer), the      *)
(* translation of texts (TextTransfer) and the reader of lines             *)
(* (LineReader).                                                           *)
(***************************************************************************)
EXTENDS Transfer, StreamTransfer, TextTransfer, LineReader

(* A transfer that returns well has delivered: the file got, the file put  *)
(* and the part of a file got into memory (io_get.c, io_put.c,             *)
(* io_getmem.c).                                                           *)
Delivers == GetDelivers /\ PutDelivers /\ MemDelivers

(* Between two calls nothing is held, no buffer was overrun, and the       *)
(* server is where the caller left it (io_get.c, io_put.c, io_getmem.c,    *)
(* io_gettar.c).                                                           *)
Tidy == HeldAtRest /\ NothingHeld /\ BufferExact /\ BackHome

(* What can be resumed is: a beginning of the remote file, found again by  *)
(* its time, and in a text by the place that the server's size stands for  *)
(* (io_get.c, io_put.c).                                                   *)
Resumable == CopyResumable /\ SeekResumes

(* Texts and lines do not depend on where the blocks and reads that bring  *)
(* them end (io_get.c, io_put.c, c_size.c, SReadline.c).                   *)
TextRight == /\ GetTranslates /\ PutTranslates /\ RoundTrip /\ SizeTells
             /\ EmptyIsEof /\ Whole /\ Pieces
=============================================================================
