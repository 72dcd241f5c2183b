----------------------------- MODULE LineReader -----------------------------
(***************************************************************************)
(* SReadline: lines out of a buffer that read() fills with as much as has  *)
(* arrived.  It leaves out NULs and CRs, and knows two ways to deal with a *)
(* line that is too long for the caller: to cut it (requireEOLN, which     *)
(* every caller in libncftp asks for) or to return it in pieces.           *)
(***************************************************************************)
EXTENDS Integers, Sequences, SequencesExt, FiniteSets

CONSTANTS
  Streams,  \* what a peer may send: sequences of Cr, Lf, Nul and others
  LineSize, \* the caller's buffer, without the place of the final NUL
  ReadSize  \* bound: bufSizeMax

Cr  == "cr"
Lf  == "lf"
Nul == "nul"

ASSUME SizesAssumption ==
  LineSize \in Nat \ {0} /\ ReadSize \in Nat \ {0} /\ Streams \subseteq Seq(STRING)

VARIABLES
  requireEOLN,
  sent,       \* all the peer sends before it closes
  arrived,    \* how much of it read() has given
  scan,       \* src: what the scan is at, dst and illegals
  reading,    \* SReadline is running
  lines,      \* what it has returned
  answer,     \* of the last call: line, eof or timeout
  rude        \* history: a call returned at the end of a buffer for its illegal characters
lvars == <<requireEOLN, sent, arrived, scan, reading, lines, answer, rude>>

Fresh(at) == [at |-> at, line |-> <<>>, illegals |-> 0]

LInit == /\ requireEOLN \in BOOLEAN /\ sent \in Streams
         /\ arrived = 0 /\ scan = Fresh(1) /\ reading = FALSE
         /\ lines = <<>> /\ answer = "line" /\ rude = FALSE
-----------------------------------------------------------------------------
HasRoom(s) == Len(s.line) < LineSize
Put(s, c)  == IF HasRoom(s) THEN Append(s.line, c) ELSE s.line

(* One character.  A CR is illegal if something else than LF is seen to    *)
(* follow it in the buffer.                                                *)
Stray(s)    == \/ sent[s.at] = Nul
               \/ sent[s.at] = Cr /\ s.at < arrived /\ sent[s.at + 1] # Lf
ScanChar(s) == [at       |-> s.at + 1,
                line     |-> IF sent[s.at] \in {Nul, Cr} THEN s.line ELSE Put(s, sent[s.at]),
                illegals |-> IF Stray(s) THEN s.illegals + 1 ELSE s.illegals]
Full(s)     == ~requireEOLN /\ ~HasRoom(s)

(* done: a line of nothing but illegal characters gets an LF, so that it   *)
(* is not taken for the end of the file.                                   *)
(* A defect to be caught: it gets none.                                    *)
LineReturnedBare(s) ==
  /\ lines' = IF s.line = <<>> THEN lines ELSE Append(lines, s.line)
  /\ answer' = IF s.line = <<>> THEN "eof" ELSE "line"
  /\ reading' = FALSE /\ scan' = Fresh(s.at)

LineReturned(s) ==
  LET line == IF requireEOLN /\ s.line = <<>> /\ s.illegals > 0 THEN <<Lf>> ELSE s.line IN
  /\ lines' = IF line = <<>> THEN lines ELSE Append(lines, line)
  /\ answer' = IF line = <<>> THEN "eof" ELSE "line"
  /\ reading' = FALSE /\ scan' = Fresh(s.at)

SReadline == /\ ~reading /\ answer = "line" /\ reading' = TRUE
             /\ UNCHANGED <<requireEOLN, sent, arrived, scan, lines, answer, rude>>

(* A pass of the loop: the line is complete, or the peer is suspected of   *)
(* malice when more is to be read, or it goes on.                          *)
ScanOn ==
  /\ reading /\ scan.at <= arrived
  /\ LET s == ScanChar(scan) IN
     \/ (sent[scan.at] = Lf \/ Full(s)) /\ LineReturned(s) /\ UNCHANGED rude
     \/ /\ ~(sent[scan.at] = Lf \/ Full(s)) /\ s.at > arrived /\ s.illegals > 1
        /\ LineReturned(s) /\ rude' = TRUE
     \/ /\ ~(sent[scan.at] = Lf \/ Full(s)) /\ (s.at <= arrived \/ s.illegals <= 1)
        /\ scan' = s /\ UNCHANGED <<reading, lines, answer, rude>>
  /\ UNCHANGED <<requireEOLN, sent, arrived>>

(* SRead: what has arrived, up to the size of the buffer.                  *)
Fill == /\ reading /\ scan.at > arrived
        /\ \E n \in 1..ReadSize : arrived + n <= Len(sent) /\ arrived' = arrived + n
        /\ UNCHANGED <<requireEOLN, sent, scan, reading, lines, answer, rude>>

ReadEnds == /\ reading /\ scan.at > arrived /\ arrived = Len(sent)
            /\ LineReturned(scan) /\ UNCHANGED <<requireEOLN, sent, arrived, rude>>

(* Nothing comes for timeoutLen seconds: what was read of the line is lost. *)
ReadTimesOut ==
  /\ reading /\ scan.at > arrived
  /\ answer' = "timeout" /\ reading' = FALSE /\ scan' = Fresh(scan.at)
  /\ UNCHANGED <<requireEOLN, sent, arrived, lines, rude>>

LNext == SReadline \/ Fill \/ ScanOn \/ ReadEnds \/ ReadTimesOut
LSpec == LInit /\ [][LNext]_lvars
-----------------------------------------------------------------------------
(* What the lines of a text are.                                           *)
Clean(t) == FlattenSeq([i \in 1..Len(t) |-> IF t[i] \in {Cr, Nul} THEN <<>> ELSE <<t[i]>>])
Cut(t)   == SubSeq(t, 1, IF Len(t) < LineSize THEN Len(t) ELSE LineSize)
Taken    == SubSeq(sent, 1, scan.at - 1)
LfsTo(n) == {i \in 1..n : sent[i] = Lf}
Begins(b, e) == (b = 1 \/ sent[b - 1] = Lf) /\ \A i \in b..e : sent[i] # Lf
LineOf(b, e) == Cut(Clean(SubSeq(sent, b, e)))

(* Lines cut to the size of the caller's buffer: those that the LFs taken  *)
(* so far end, in order, wherever the reads end, unless the reader was in  *)
(* a hurry.  At the end of the file, the rest, which is not told as empty. *)
Whole ==
  (requireEOLN /\ ~rude) =>
    LET n == Cardinality(LfsTo(scan.at - 1)) IN
    /\ Len(lines) \in {n, n + 1}
    /\ \A e \in LfsTo(scan.at - 1) : \A b \in 1..e :
         Begins(b, e - 1) => lines[Cardinality(LfsTo(e))] = LineOf(b, e)
    /\ Len(lines) > n =>
         /\ arrived = Len(sent)
         /\ \A b \in 1..Len(sent) :
              Begins(b, Len(sent)) =>
                lines[n + 1] = IF LineOf(b, Len(sent)) = <<>> THEN <<Lf>> ELSE LineOf(b, Len(sent))

(* In pieces: nothing but CRs and NULs is lost, nothing comes twice, and   *)
(* no piece holds more than one end of line.                               *)
Pieces ==
  ~requireEOLN =>
    /\ (reading \/ answer # "timeout") => FlattenSeq(lines) \o scan.line = Clean(Taken)
    /\ \A k \in 1..Len(lines) : \A i \in 1..Len(lines[k]) - 1 : lines[k][i] # Lf

(* For the callers, who take 0 for the end of the file, it is.             *)
EmptyIsEof == (requireEOLN /\ answer = "eof") => arrived = Len(sent) /\ scan.at > arrived
=============================================================================
