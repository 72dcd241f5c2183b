---------------------------- MODULE TransferLog ----------------------------
(***************************************************************************)
(* ~/.ncftp/log (ncftp/log.c), which every session of ncftp appends to: a  *)
(* line for a site that is opened and, under it, indented lines for the    *)
(* files.  As a session ends, a log that has grown over its size loses its *)
(* oldest lines, in a copy made in log.tmp, a name all sessions share; if  *)
(* the cut falls among the files of a site, the site's line is kept.       *)
(***************************************************************************)
EXTENDS Naturals, Sequences, SequencesExt

CONSTANTS Sessions, Hosts,
          LineSize,     \* bytes in a line: every line counts alike
          MaxLogSize,   \* the setting "logsize"
          Logs,         \* what earlier sessions may have left
          MaxLines,     \* bound: lines that sessions write
          MaxEnds       \* bound: sessions that end

VARIABLES log, tmp,     \* the two files
          lg,           \* per session: [pc, host it opened last, last line it cut above]
          mixed,        \* history: sessions overlapped
          died,         \* history: a session died between remove and rename
          wrote, ends   \* lines written, sessions ended

lgvars == <<log, tmp, lg, mixed, died, wrote, ends>>

Missing == [is |-> "none"]
LogOf(ls) == [is |-> "log", lines |-> ls]
Opened(h) == [open |-> TRUE,  of |-> h, purged |-> FALSE]
Moved(h) == [open |-> FALSE, of |-> h, purged |-> FALSE]   \* of: history
Kept(l) == [l EXCEPT !.purged = TRUE]
Content     == IF log = Missing THEN <<>> ELSE log.lines
Appended(l) == LogOf(Append(Content, l))
Size(ls) == LineSize * Len(ls)

(* The line of the site that line i stands under, 0 if there is none; and  *)
(* a log of which every line stands under its own site's.                  *)
LastSite(ls)  == SelectLastInSubSeq(ls, 1, Len(ls), LAMBDA l : l.open)
Under(ls, i)  == LastSite(SubSeq(ls, 1, i))
InOrder(ls)   == \A i \in 1..Len(ls) : Under(ls, i) # 0 /\ ls[Under(ls, i)].of = ls[i].of

(* What is assumed of the constants: a log holds ten lines.                *)
LogLines == Seq([open : BOOLEAN, of : Hosts, purged : BOOLEAN])
LgAssumption ==
  /\ LineSize \in Nat \ {0} /\ MaxLogSize \in Nat /\ MaxLogSize >= 10 * LineSize
  /\ \A l \in Logs : l = Missing \/ (l.lines \in LogLines /\ l = LogOf(l.lines) /\ InOrder(l.lines))

Idle == [pc |-> "out", host |-> "none", last |-> Opened("none")]
LgInit == /\ log \in Logs /\ tmp = Missing
          /\ lg = [s \in Sessions |-> Idle]
          /\ mixed = FALSE /\ died = FALSE /\ wrote = 0 /\ ends = 0

Room == wrote < MaxLines
Others(s) == Sessions \ {s}

LogOpen(s) ==
  /\ lg[s].pc \in {"out", "on"} /\ Room /\ wrote' = wrote + 1
  /\ \E h \in Hosts : /\ log' = Appended(Opened(h))
                      /\ lg' = [lg EXCEPT ![s] = [Idle EXCEPT !.pc = "on", !.host = h]]
  /\ mixed' = (mixed \/ \E o \in Others(s) : lg[o].pc # "out")
  /\ UNCHANGED <<tmp, died, ends>>

LogXfer(s) ==
  /\ lg[s].pc = "on" /\ Room /\ wrote' = wrote + 1
  /\ log' = Appended(Moved(lg[s].host))
  /\ UNCHANGED <<tmp, lg, mixed, died, ends>>
-----------------------------------------------------------------------------
(* EndLog: drop until the rest is a fifth below the size, then on to the   *)
(* next site, but no further than a tenth of the size.                     *)
Fat(ls) == Size(ls) - MaxLogSize + MaxLogSize \div 5
Lines(bytes) == (bytes + LineSize - 1) \div LineSize
Tenth        == Lines(MaxLogSize \div 10)

(* The lines read in the second loop: up to a site's, at most Tenth.       *)
Further(ls) ==
  LET first == SelectInSeq(ls, LAMBDA l : l.open)
  IN IF first # 0 /\ first <= Tenth THEN first ELSE Tenth

(* What is written: the site's line unless the next line is a site's, the  *)
(* line read last and all that follow; nothing if there is no such line.   *)
Trimmed(ls) ==
  LET d    == Lines(Fat(ls))
      rest == SubSeq(ls, d + 1, Len(ls))
      n    == Further(rest)
      site == LastSite(SubSeq(ls, 1, d))
  IN IF n > Len(rest) THEN <<>>
     ELSE (IF rest[n].open \/ site = 0 THEN <<>> ELSE <<Kept(ls[site])>>)
          \o SubSeq(rest, n, Len(rest))

TooBig == log # Missing /\ Size(Content) >= MaxLogSize

(* Nothing left is nothing written: the log is removed.                    *)
EndLog(s) ==
  /\ lg[s].pc \in {"out", "on"} /\ ends < MaxEnds /\ ends' = ends + 1
  /\ IF TooBig /\ Trimmed(log.lines) # <<>>
     THEN /\ tmp' = LogOf(Trimmed(log.lines)) /\ UNCHANGED log
          /\ lg' = [lg EXCEPT ![s] = [pc |-> "remove", host |-> "none", last |-> Last(log.lines)]]
          /\ mixed' = (mixed \/ \E o \in Others(s) : lg[o].pc # "out")
     ELSE /\ log' = IF TooBig THEN Missing ELSE log
          /\ lg' = [lg EXCEPT ![s] = Idle] /\ UNCHANGED tmp
          /\ mixed' = (mixed \/ (TooBig /\ \E o \in Others(s) : lg[o].pc # "out"))
  /\ UNCHANGED <<died, wrote>>

(* Without a log to remove the copy stays where it is.                     *)
RemoveLog(s) ==
  /\ lg[s].pc = "remove" /\ log' = Missing
  /\ lg' = [lg EXCEPT ![s] = IF log = Missing THEN Idle ELSE [@ EXCEPT !.pc = "rename"]]
  /\ UNCHANGED <<tmp, mixed, died, wrote, ends>>

RenameCopy(s) ==
  /\ lg[s].pc = "rename"
  /\ IF tmp = Missing THEN UNCHANGED <<log, tmp>> ELSE log' = tmp /\ tmp' = Missing
  /\ lg' = [lg EXCEPT ![s] = Idle]
  /\ UNCHANGED <<mixed, died, wrote, ends>>

Die(s) ==
  /\ lg[s].pc # "out" /\ lg' = [lg EXCEPT ![s] = Idle]
  /\ ends' = ends + 1 /\ ends < MaxEnds
  /\ died' = (died \/ lg[s].pc = "rename")
  /\ UNCHANGED <<log, tmp, mixed, wrote>>

LgNext == \E s \in Sessions : \/ LogOpen(s) \/ LogXfer(s) \/ EndLog(s)
                              \/ RemoveLog(s) \/ RenameCopy(s) \/ Die(s)
LgSpec == LgInit /\ [][LgNext]_lgvars
-----------------------------------------------------------------------------
(* As long as sessions do not log at the same time, every file in the log  *)
(* stands under the site it was moved from or to, cut or not.              *)
Attributed == log # Missing /\ ~mixed => InOrder(log.lines)

(* A session that cuts the log by itself leaves one that is smaller than   *)
(* the size allowed and ends in the lines it had, and no other end of a    *)
(* session changes the log; it takes two at a time, in the shared copy, or *)
(* a death to lose it.                                                     *)
Cuts(s) ==
  (lg[s].pc = "rename" /\ lg'[s].pc = "out" /\ ~mixed /\ ~died /\ ~died') =>
    /\ log' # Missing /\ Size(log'.lines) < MaxLogSize
    /\ Last(log'.lines) = lg[s].last
CutsWell == \A s \in Sessions : Cuts(s)
-----------------------------------------------------------------------------
(* What every step keeps, and what these follow from: unless they overlap, *)
(* one session at a time has begun; the log it appends to ends under its   *)
(* own host's line; and what it cut is in order in the copy.               *)
LgTypes ==
  /\ log = Missing \/ (log.lines \in LogLines /\ log = LogOf(log.lines))
  /\ tmp = Missing \/ (tmp.lines \in LogLines /\ tmp = LogOf(tmp.lines))
  /\ mixed \in BOOLEAN /\ died \in BOOLEAN /\ wrote \in Nat /\ ends \in Nat
  /\ DOMAIN lg = Sessions
  /\ \A s \in Sessions : /\ lg[s].pc \in {"out", "on", "remove", "rename"}
                         /\ lg[s] = [pc |-> lg[s].pc, host |-> lg[s].host, last |-> lg[s].last]
                         /\ lg[s].pc = "on" => lg[s].host \in Hosts

Alone == \A s, t \in Sessions : lg[s].pc # "out" /\ lg[t].pc # "out" => s = t
OnTop == \A s \in Sessions : lg[s].pc = "on" =>
           log # Missing /\ LastSite(log.lines) # 0 /\ log.lines[LastSite(log.lines)].of = lg[s].host
CutHeld == \A s \in Sessions : lg[s].pc \in {"remove", "rename"} =>
             /\ tmp # Missing /\ InOrder(tmp.lines) /\ Size(tmp.lines) < MaxLogSize
             /\ tmp.lines # <<>> /\ Last(tmp.lines) = lg[s].last
LgInv == LgTypes /\ Attributed /\ (~mixed => Alone /\ OnTop /\ CutHeld)
=============================================================================
