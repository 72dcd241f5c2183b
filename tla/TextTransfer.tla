---------------------------- MODULE TextTransfer ----------------------------
(***************************************************************************)
(* Text files in FTP's ASCII mode on Unix: FTPGetOneF and FTPPutOneF       *)
(* translate the ends of lines block by block, FTPLocalASCIIFileSize tells *)
(* how long the translation would be, and FTPASCIILocalFileSeek finds the  *)
(* place to resume from.  A block ends where read() says, anywhere in an   *)
(* end of line; what is left over is carried to the next one.              *)
(*                                                                         *)
(* Each is checked against what it means for a whole text.                 *)
(***************************************************************************)
EXTENDS Integers, Sequences, SequencesExt, FiniteSets

CONSTANTS
  Texts,     \* the texts, sequences of CR, LF and others
  BlockSize, \* bound: the size of the buffer
  Pipes      \* whether what is sent may come from a pipe: read() returns less than asked for

CR == "\r"
LF == "\n"

ASSUME BlockAssumption ==
  BlockSize \in Nat \ {0, 1} /\ Pipes \subseteq BOOLEAN /\ Texts \subseteq Seq(STRING)

VARIABLES
  tkind,     \* get, put, size or seek
  pipe,      \* the text comes by read()s of any length
  text, pos, \* the text and how much of it has been read
  lim,       \* get: how much of it the block in the buffer reaches to
  tout,      \* what was written, or sent
  crs,       \* cr and crcr of FTPGetOneF as the number of CRs held back
  lastch,    \* the last character of the previous block
  lone,      \* history: a block was a single CR
  count,     \* what is counted, or left to skip
  skip,      \* how much the peer has
  tdone      \* the outcome

tvars == <<tkind, pipe, text, pos, lim, tout, crs, lastch, lone, count, skip, tdone>>

TInit ==
  /\ text \in Texts /\ tkind \in {"get", "put", "size", "seek"}
  /\ pipe \in IF tkind = "get" THEN {TRUE} ELSE IF tkind = "put" THEN Pipes ELSE {FALSE}
  /\ skip \in IF tkind = "seek" THEN 1 .. 2 * Len(text) ELSE {0}
  /\ pos = 0 /\ lim = 0 /\ tout = <<>> /\ crs = 0 /\ lastch = "none" /\ lone = FALSE
  /\ count = skip /\ tdone = "no"

(* read(): where the block that begins at pos may end; a file gives as     *)
(* much as there is.                                                       *)
Blocks   == {e \in pos + 1 .. Len(text) : /\ e <= pos + BlockSize
                                          /\ pipe \/ e = pos + BlockSize \/ e = Len(text)}
AtEnd    == pos = Len(text) /\ tdone = "no"
Lines(n) == [i \in 1..n |-> LF]
-----------------------------------------------------------------------------
(* FTPGetOneF.  CR LF is an end of line, and so are CR CR LF, a raw LF and *)
(* each CR with nothing of the kind behind it.  What one pass of the loop  *)
(* writes, how far it gets and the CRs it holds back when the block ends.  *)
Pass(at, held, out) == [at |-> at, crs |-> held, out |-> out]
AfterTwo(n) ==
  IF n = lim THEN Pass(n, 2, <<>>)
  ELSE IF text[n + 1] = LF THEN Pass(n + 1, 0, Lines(1))
  ELSE Pass(n, 0, Lines(2))
AfterOne(n) ==
  IF n = lim THEN Pass(n, 1, <<>>)
  ELSE IF text[n + 1] = CR THEN AfterTwo(n + 1)
  ELSE Pass(IF text[n + 1] = LF THEN n + 1 ELSE n, 0, Lines(1))
GetPass ==
  CASE crs = 2 -> AfterTwo(pos)
    [] crs = 1 -> AfterOne(pos)
    [] OTHER -> IF text[pos + 1] = CR THEN AfterOne(pos + 1) ELSE Pass(pos + 1, 0, <<text[pos + 1]>>)

GetBlockOfText ==
  /\ tkind = "get" /\ tdone = "no" /\ pos = lim /\ lim' \in Blocks
  /\ UNCHANGED <<tkind, pipe, text, pos, tout, crs, lastch, lone, count, skip, tdone>>

GetText ==
  /\ tkind = "get" /\ tdone = "no" /\ pos < lim
  /\ pos' = GetPass.at /\ crs' = GetPass.crs /\ tout' = tout \o GetPass.out
  /\ UNCHANGED <<tkind, pipe, text, lim, lastch, lone, count, skip, tdone>>

GetTextEnd ==
  /\ tkind = "get" /\ AtEnd
  /\ tout' = tout \o Lines(crs) /\ crs' = 0 /\ tdone' = "ok"
  /\ UNCHANGED <<tkind, pipe, text, pos, lim, lastch, lone, count, skip>>
-----------------------------------------------------------------------------
(* FTPPutOneF.  A CR at the end of a block is kept for the next one.  If   *)
(* that is all the block has, the loop ends.                               *)
PutChar(i) == IF text[i] = CR THEN <<CR, LF>>
              ELSE IF text[i] = LF THEN IF i > pos + 1 /\ text[i - 1] = CR THEN <<>> ELSE <<CR, LF>>
              ELSE <<text[i]>>
Translated(e) == FlattenSeq([i \in 1 .. e - pos |-> PutChar(pos + i)])

PutText ==
  /\ tkind = "put" /\ tdone = "no"
  /\ \E e \in Blocks :
       LET end == IF text[e] = CR THEN e - 1 ELSE e IN
       /\ pos' = e /\ lastch' = text[e]
       /\ IF end = pos THEN lone' = TRUE /\ tdone' = "lone" /\ UNCHANGED tout
          ELSE /\ tout' = tout \o (IF lastch = CR /\ text[pos + 1] # LF THEN <<CR, LF>> ELSE <<>>)
                               \o Translated(end)
               /\ UNCHANGED <<lone, tdone>>
  /\ UNCHANGED <<tkind, pipe, text, lim, crs, count, skip>>

PutTextEnd ==
  /\ (tkind = "put" /\ AtEnd) \/ tdone = "lone"
  /\ tout' = tout \o (IF lastch = CR THEN <<CR, LF>> ELSE <<>>) /\ tdone' = "ok"
  /\ UNCHANGED <<tkind, pipe, text, pos, lim, crs, lastch, lone, count, skip>>
-----------------------------------------------------------------------------
(* FTPLocalASCIIFileSize: the bytes, and one for each LF that has no CR    *)
(* before it.                                                              *)
BareLFs(e) == {i \in pos + 1 .. e :
                text[i] = LF /\ (IF i = pos + 1 THEN lastch ELSE text[i - 1]) # CR}

CountBlock ==
  /\ tkind = "size" /\ tdone = "no"
  /\ \E e \in Blocks : /\ pos' = e /\ lastch' = text[e]
                       /\ count' = count + (e - pos) + Cardinality(BareLFs(e))
  /\ UNCHANGED <<tkind, pipe, text, lim, tout, crs, lone, skip, tdone>>

CountEnd ==
  /\ tkind = "size" /\ AtEnd /\ tdone' = "ok"
  /\ UNCHANGED <<tkind, pipe, text, pos, lim, tout, crs, lastch, lone, count, skip>>

(* FTPASCIILocalFileSeek.  A CR, the middle of an end of line or the end   *)
(* of the file: no place to resume from, and back to the beginning.        *)
LFs(m, n)  == {i \in m + 1 .. n : text[i] = LF}
Skipped(n) == (n - pos) + Cardinality(LFs(pos, n))
SeekTo(e)  == {n \in pos + 1 .. e : text[n] = CR \/ Skipped(n) >= count}

SeekBlock ==
  /\ tkind = "seek" /\ tdone = "no"
  /\ \E e \in Blocks :
       \/ SeekTo(e) = {} /\ pos' = e /\ count' = count - Skipped(e) /\ UNCHANGED tdone
       \/ \E n \in SeekTo(e) :
            /\ \A j \in SeekTo(e) : n <= j
            /\ IF text[n] = CR \/ Skipped(n) > count
                 THEN pos' = 0 /\ tdone' = "failed" /\ UNCHANGED count
                 ELSE pos' = n /\ count' = 0 /\ tdone' = "ok"
  /\ UNCHANGED <<tkind, pipe, text, lim, tout, crs, lastch, lone, skip>>

SeekEnd ==
  /\ tkind = "seek" /\ AtEnd /\ pos' = 0 /\ tdone' = "failed"
  /\ UNCHANGED <<tkind, pipe, text, lim, tout, crs, lastch, lone, count, skip>>
-----------------------------------------------------------------------------
TNext == \/ GetBlockOfText \/ GetText \/ GetTextEnd \/ PutText \/ PutTextEnd
         \/ CountBlock \/ CountEnd \/ SeekBlock \/ SeekEnd
TSpec == TInit /\ [][TNext]_tvars
-----------------------------------------------------------------------------
(* What the translations mean for a whole text.  Received, every character *)
(* is as it was but the CRs: those of CR LF and of CR CR LF, with the CRs  *)
(* before taken in pairs, belong to the LF, and each other one is an LF.   *)
Has(s, i, c)   == i <= Len(s) /\ s[i] = c
CRsTo(s, i)    == {j \in 1..i : \A k \in j..i : s[k] = CR}
Belongs(s, i)  == \/ Has(s, i + 1, LF)
                  \/ Has(s, i + 1, CR) /\ Has(s, i + 2, LF) /\ Cardinality(CRsTo(s, i)) % 2 = 1
ReceivedOf(s, i) == IF s[i] # CR THEN <<s[i]>> ELSE IF Belongs(s, i) THEN <<>> ELSE <<LF>>
Received(s)      == FlattenSeq([i \in 1..Len(s) |-> ReceivedOf(s, i)])

(* Sent, each end of line, which is LF, CR LF or CR, is CR LF.             *)
EndsLine(s, i) == s[i] = LF \/ (s[i] = CR /\ ~Has(s, i + 1, LF))
SentOf(s, i)   == IF EndsLine(s, i) THEN <<CR, LF>> ELSE IF s[i] = CR THEN <<>> ELSE <<s[i]>>
Sent(s)        == FlattenSeq([i \in 1..Len(s) |-> SentOf(s, i)])

StrayCR(s) == \E i \in 1..Len(s) : s[i] = CR /\ EndsLine(s, i)
NoCR(n)    == \A i \in 1..n : text[i] # CR
Ended(k)   == tkind = k /\ tdone = "ok"

(* A received text does not depend on where its blocks ended.              *)
GetTranslates == Ended("get") => tout = Received(text)

(* Nor does a sent one, unless a block was a lone CR: then what follows is *)
(* not sent, or, at the end of a file, a CR before it is lost.             *)
PutTranslates ==
  Ended("put") =>
    /\ ~lone => tout = Sent(text)
    /\ lone /\ ~pipe /\ (Len(text) = 1 \/ text[Len(text) - 1] # CR) => tout = Sent(text)

(* A Unix text comes back as it was sent.                                  *)
RoundTrip == (Ended("put") /\ NoCR(Len(text))) => Received(tout) = text

(* The size told is that of the text as it is sent, if it has no stray CR. *)
SizeTells == (Ended("size") /\ ~StrayCR(text)) => count = Len(Sent(text))

(* The place to resume from is where the rest of what is sent begins; it   *)
(* is found if there is one and no CR comes before it.                     *)
Here(n) == Len(Sent(SubSeq(text, 1, n))) = skip /\ NoCR(n)
SeekResumes ==
  tkind = "seek" =>
    /\ tdone = "ok" => Here(pos)
    /\ tdone = "failed" => pos = 0 /\ \A n \in 1..Len(text) : ~Here(n)
=============================================================================
