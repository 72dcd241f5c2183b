------------------------------ MODULE ShellProofs ------------------------------
(***************************************************************************)
(* Proofs of the safety properties of Shell, for every number of ^Cs, of   *)
(* arguments and of files, and for all lines the user may type.            *)
(***************************************************************************)
EXTENDS Shell, TLAPS

Handlers == {"top", "xfer", "cancel", "ignore"}
Slips    == SessionSlips \cup CacheSlips \cup {"midclose"}

(* The steps a command passes through.                                     *)
StepsOf(c) ==
  CASE c \in {"rm", "mv"} -> {"ask", "flush", "end"}
    [] c = "quote" -> {"ask", "end"}
    [] c = "ls"    -> {"start", "data", "post", "print", "end"}
    [] c = "pls"   -> {"pager", "start", "data", "post", "print", "pclose", "pwait", "restore",
                       "cancelled", "end"}
    [] c = "more"  -> {"pager", "probe", "start", "data", "post", "pclose", "pwait", "restore",
                       "cancelled", "end"}
    [] c = "get"   -> {"glob", "file", "argdone", "probe", "start", "data", "post", "filedone",
                       "unwind", "end"}
    [] c = "getDD" -> {"glob", "file", "argdone", "probe", "start", "data", "post", "dele",
                       "filedone", "unwind", "flush", "end"}
    [] c = "getAs" -> {"probe", "start", "data", "post", "unwind", "end"}
    [] c = "put"   -> {"local", "file", "argdone", "probe", "start", "data", "post", "filedone",
                       "flush", "end"}
    [] c = "open"  -> {"question", "bye", "dial", "login", "end"}
    [] c = "close" -> {"question", "bye", "end"}
    [] c = "shell" -> {"shell", "end"}
    [] OTHER       -> {"end"}
Steps == Asks \cup {"none", "flush", "end", "data", "print", "pager", "pclose", "pwait", "restore",
                    "cancelled", "file", "argdone", "filedone", "unwind", "local", "question",
                    "dial", "shell"}

ConnType  == [up : BOOLEAN, in : BOOLEAN, owed : Int, data : BOOLEAN]
Places    == {"loop", "line", "next", "cmd", "jump", "closing", "exit"}
ProgType  == [at : Places, line : Seq(CommandNames \cup {"huh"})]
CallType  == [cmd : CommandNames \cup {"none"}, step : Steps, said : BOOLEAN, did : BOOLEAN,
              args : Int, files : Int, reset : BOOLEAN]
FlagsType == [running : BOOLEAN, cancelXfer : 0..1, cancelCtrl : BOOLEAN,
              done : BOOLEAN, mayCancel : BOOLEAN]
PressType == [all : Nat, here : Nat, since : Nat, stop : BOOLEAN]
Pagers    == {"none", "open", "closing", "closed", "twice"}
Caches    == {"none", "fresh", "stale"}
ShTypes   == /\ gConn \in ConnType /\ prog \in ProgType /\ call \in CallType
             /\ handler \in Handlers /\ flags \in FlagsType /\ pager \in Pagers
             /\ lsCache \in Caches /\ pressed \in PressType /\ slips \in SUBSET Slips

(* A command is where its own code can be, and there is none between two.  *)
OnPath ==
  /\ prog.at = "cmd" => call.cmd \in CommandNames /\ call.step \in StepsOf(call.cmd)
  /\ prog.at = "closing" => call.cmd = "none" /\ call.step \in {"question", "bye"}
  /\ prog.at = "exit" => call.cmd = "none" /\ call.step = "end"
  /\ prog.at \in {"loop", "line", "next", "jump"} => call = Idle

(* The handler that is set at each of its steps.                           *)
Watched ==
  /\ prog.at \in {"line", "next"} => handler = "top"
  /\ prog.at \in {"loop", "jump", "closing", "exit"} => handler \in {"top", "xfer"}
  /\ prog.at = "cmd" =>
       /\ call.cmd \in Transfers => handler \in {"xfer", "top"} /\ (call.step = "end" => handler = "top")
       /\ call.cmd \in Paging => handler = IF call.step \in {"pager", "end"} THEN "top" ELSE "cancel"
       /\ call.cmd = "shell" => handler = IF call.step = "shell" THEN "ignore" ELSE "top"
       /\ call.cmd \notin Transfers \cup Paging \cup {"shell"} => handler = "top"

(* What the server owes the command that runs.                             *)
Due == IF (call.step \in Asks /\ call.said) \/ call.step \in {"data", "post"} THEN 1 ELSE 0
Excused == slips \cap SessionSlips # {}
Wired ==
  /\ gConn.up \/ gConn = Closed
  /\ call.step \in {"data", "post", "login"} \/ call.said => gConn.up
  /\ call.said => call.step \in Asks
  /\ call.step = "dial" => ~gConn.up
  /\ flags.cancelCtrl => prog.at = "jump"
Counted ==
  /\ gConn.up => gConn.owed >= Due
  /\ gConn.owed <= pressed.all + Due
  /\ pressed.all <= MaxPresses
InStep == gConn.up /\ ~Excused /\ ~flags.cancelCtrl =>
  /\ gConn.in \/ call.step = "login"
  /\ gConn.owed <= Due
  /\ gConn.data => call.step = "data"

(* A listing that our own command has made wrong is flushed by that        *)
(* command.                                                                *)
WillFlush ==
  /\ prog.at = "cmd"
  /\ \/ call.cmd \in {"rm", "getDD", "put"} /\ call.step # "end"
     \/ call.cmd = "mv" /\ ((call.step = "ask" /\ call.said /\ call.did) \/ call.step = "flush")
Cached ==
  /\ gConn.up /\ lsCache = "stale" /\ slips \cap CacheSlips = {} => WillFlush
  /\ call.cmd = "open" => lsCache = "none"

PagerFits ==
  /\ pager = "twice" => "midclose" \in slips
  /\ prog.at = "cmd" /\ call.cmd \in Paging =>
       /\ call.step \in Asks \cup {"print", "data", "pclose"} => pager = "open"
       /\ call.step = "pwait" => pager \in {"closing", "closed"}

(* A ^C that cancelXfer still remembers was typed since the reset.         *)
Remembers ==
  /\ flags.cancelXfer > 0 /\ call.reset => pressed.here >= 1
  /\ flags.cancelXfer > 0 /\ (call.step \in {"data", "post"} \/ (call.step = "start" /\ call.said))
       => pressed.since >= 1
  /\ pressed.stop =>
       /\ prog.at = "cmd" /\ call.cmd \in Transfers
       /\ \/ call.cmd = "getAs" /\ call.step \in {"unwind", "end"}
          \/ /\ flags.cancelXfer > 0
             /\ \/ call.step \in {"data", "post", "dele", "filedone", "argdone"}
                \/ call.step = "start" /\ call.said

ShInv == /\ ShTypes /\ OnPath /\ Watched /\ Wired /\ Counted /\ InStep
         /\ Cached /\ PagerFits /\ Remembers
-----------------------------------------------------------------------------
(* What the edits of a record that the actions make leave of its type.     *)
LEMMA ConnEdits ==
  ASSUME gConn \in ConnType
  PROVE  /\ Closed \in ConnType
         /\ [Closed EXCEPT !.up = TRUE] \in ConnType
         /\ [gConn EXCEPT !.data = TRUE] \in ConnType
         /\ [gConn EXCEPT !.data = FALSE] \in ConnType
<1>1. Closed \in ConnType
  BY DEF ConnType, Closed
<1>2. [Closed EXCEPT !.up = TRUE] \in ConnType
  BY <1>1 DEF ConnType
<1>3. [gConn EXCEPT !.data = TRUE] \in ConnType
  BY DEF ConnType, Closed
<1>4. [gConn EXCEPT !.data = FALSE] \in ConnType
  BY DEF ConnType, Closed
<1> QED
  BY <1>1, <1>2, <1>3, <1>4

LEMMA OwedSet ==
  ASSUME gConn \in ConnType, NEW n \in Int
  PROVE  [gConn EXCEPT !.owed = n] \in ConnType /\ [gConn EXCEPT !.owed = n, !.in = TRUE] \in ConnType
<1>1. [gConn EXCEPT !.owed = n] \in ConnType
  BY DEF ConnType
<1>2. [gConn EXCEPT !.owed = n, !.in = TRUE] \in ConnType
  BY DEF ConnType
<1> QED
  BY <1>1, <1>2

LEMMA OwedEdits ==
  ASSUME gConn \in ConnType
  PROVE  /\ [gConn EXCEPT !.owed = @ + 1] \in ConnType /\ [gConn EXCEPT !.owed = @ + 0] \in ConnType
         /\ [gConn EXCEPT !.owed = @ - 1] \in ConnType
         /\ [gConn EXCEPT !.owed = @ - 1, !.in = TRUE] \in ConnType
<1>1. gConn.owed \in Int
  BY DEF ConnType
<1>2. gConn.owed - 1 \in Int /\ gConn.owed + 1 \in Int /\ gConn.owed + 0 \in Int
  BY <1>1
<1> QED
  BY <1>2, OwedSet

LEMMA AtEdits ==
  ASSUME prog \in ProgType, NEW a \in Places
  PROVE  /\ [prog EXCEPT !.at = a] \in ProgType
         /\ [at |-> a, line |-> <<>>] \in ProgType
<1>1. [prog EXCEPT !.at = a] \in ProgType
  BY DEF ProgType
<1>2. [at |-> a, line |-> <<>>] \in ProgType
  BY DEF ProgType
<1> QED
  BY <1>1, <1>2

LEMMA LineEdits ==
  ASSUME prog \in ProgType, NEW a \in Places, NEW l \in Seq(CommandNames \cup {"huh"})
  PROVE  /\ [at |-> a, line |-> l] \in ProgType
         /\ [prog EXCEPT !.line = l] \in ProgType
<1>1. [at |-> a, line |-> l] \in ProgType
  BY DEF ProgType
<1>2. [prog EXCEPT !.line = l] \in ProgType
  BY DEF ProgType
<1> QED
  BY <1>1, <1>2

LEMMA LineTails ==
  ASSUME prog \in ProgType, prog.line # <<>>
  PROVE  /\ prog.line \in Seq(CommandNames \cup {"huh"})
         /\ Head(prog.line) \in CommandNames \cup {"huh"}
         /\ Tail(prog.line) \in Seq(CommandNames \cup {"huh"})
<1>1. prog.line \in Seq(CommandNames \cup {"huh"})
  BY DEF ProgType
<1>2. Head(prog.line) \in CommandNames \cup {"huh"}
  BY DEF ProgType
<1>3. Tail(prog.line) \in Seq(CommandNames \cup {"huh"})
  BY DEF ProgType
<1> QED
  BY <1>1, <1>2, <1>3

LEMMA CountEdits ==
  ASSUME call \in CallType, NEW s \in Steps, NEW n \in Int
  PROVE  /\ [call EXCEPT !.step = s, !.files = n] \in CallType
         /\ [call EXCEPT !.args = n, !.step = s] \in CallType
<1>1. [call EXCEPT !.step = s, !.files = n] \in CallType
  BY DEF CallType
<1>2. [call EXCEPT !.args = n, !.step = s] \in CallType
  BY DEF CallType
<1> QED
  BY <1>1, <1>2

LEMMA CallEdits ==
  ASSUME call \in CallType, NEW s \in Steps
  PROVE  /\ [call EXCEPT !.step = s] \in CallType
         /\ [call EXCEPT !.step = s, !.said = FALSE] \in CallType
         /\ [call EXCEPT !.args = @ - 1, !.step = s] \in CallType
         /\ [call EXCEPT !.step = s, !.files = @ - 1] \in CallType
<1>1. [call EXCEPT !.step = s] \in CallType
  BY DEF CallType
<1>2. [call EXCEPT !.step = s, !.said = FALSE] \in CallType
  BY DEF CallType
<1>3. call.args \in Int /\ call.files \in Int
  BY DEF CallType
<1>4. call.args - 1 \in Int /\ call.files - 1 \in Int
  BY <1>3
<1> QED
  BY <1>1, <1>2, <1>4, CountEdits

LEMMA FlagsEdits ==
  ASSUME flags \in FlagsType
  PROVE  /\ [flags EXCEPT !.cancelXfer = 0] \in FlagsType
         /\ [flags EXCEPT !.cancelXfer = 1] \in FlagsType
         /\ [flags EXCEPT !.running = FALSE] \in FlagsType
         /\ [flags EXCEPT !.running = FALSE, !.mayCancel = FALSE] \in FlagsType
         /\ [flags EXCEPT !.mayCancel = FALSE] \in FlagsType
         /\ [flags EXCEPT !.mayCancel = TRUE] \in FlagsType
         /\ [flags EXCEPT !.cancelCtrl = FALSE] \in FlagsType
         /\ [flags EXCEPT !.cancelCtrl = TRUE] \in FlagsType
         /\ [flags EXCEPT !.done = @ \/ ~flags.running] \in FlagsType
<1>1. [flags EXCEPT !.cancelXfer = 0] \in FlagsType
  BY DEF FlagsType
<1>2. [flags EXCEPT !.cancelXfer = 1] \in FlagsType
  BY DEF FlagsType
<1>3. [flags EXCEPT !.running = FALSE] \in FlagsType
  BY DEF FlagsType
<1>4. [flags EXCEPT !.running = FALSE, !.mayCancel = FALSE] \in FlagsType
  BY DEF FlagsType
<1>5. [flags EXCEPT !.mayCancel = FALSE] \in FlagsType
  BY DEF FlagsType
<1>6. [flags EXCEPT !.mayCancel = TRUE] \in FlagsType
  BY DEF FlagsType
<1>7. [flags EXCEPT !.cancelCtrl = FALSE] \in FlagsType
  BY DEF FlagsType
<1>8. [flags EXCEPT !.cancelCtrl = TRUE] \in FlagsType
  BY DEF FlagsType
<1>9. [flags EXCEPT !.done = @ \/ ~flags.running] \in FlagsType
  BY DEF FlagsType
<1> QED
  BY <1>1, <1>2, <1>3, <1>4, <1>5, <1>6, <1>7, <1>8, <1>9

LEMMA PressEdits ==
  ASSUME pressed \in PressType
  PROVE  /\ [pressed EXCEPT !.all = @ + 1] \in PressType
         /\ [pressed EXCEPT !.here = 0, !.stop = FALSE] \in PressType
         /\ [pressed EXCEPT !.since = 0, !.stop = FALSE] \in PressType
         /\ [pressed EXCEPT !.here = 0, !.since = 0, !.stop = FALSE] \in PressType
         /\ [pressed EXCEPT !.stop = FALSE] \in PressType
<1>1. [pressed EXCEPT !.all = @ + 1] \in PressType
  BY DEF PressType
<1>2. [pressed EXCEPT !.here = 0, !.stop = FALSE] \in PressType
  BY DEF PressType
<1>3. [pressed EXCEPT !.since = 0, !.stop = FALSE] \in PressType
  BY DEF PressType
<1>4. [pressed EXCEPT !.here = 0, !.since = 0, !.stop = FALSE] \in PressType
  BY DEF PressType
<1>5. [pressed EXCEPT !.stop = FALSE] \in PressType
  BY DEF PressType
<1> QED
  BY <1>1, <1>2, <1>3, <1>4, <1>5

LEMMA IdleTyped ==
  /\ Idle \in CallType
  /\ [Idle EXCEPT !.step = "question"] \in CallType
<1>1. Idle \in CallType
  BY DEF CallType, Idle, Steps
<1>2. "question" \in Steps
  BY DEF Steps
<1> QED
  BY <1>1, <1>2 DEF CallType

LEMMA NewCall ==
  ASSUME NEW c \in CommandNames, NEW n \in Int
  PROVE  [Idle EXCEPT !.cmd = c, !.step = FirstStep(c), !.args = n] \in CallType
<1>1. FirstStep(c) \in Steps
  BY DEF FirstStep, Steps, Asks
<1> HIDE DEF FirstStep
<1>2. Idle \in CallType
  BY IdleTyped
<1> QED
  BY <1>1, <1>2 DEF CallType

LEMMA SentTyped ==
  ASSUME call \in CallType, NEW d \in BOOLEAN
  PROVE  [call EXCEPT !.said = TRUE, !.did = d, !.reset = @ \/ call.step = "start"] \in CallType
BY DEF CallType

LEMMA AfterTyped ==
  ASSUME NEW ok \in BOOLEAN
  PROVE  After(ok) \in Steps
BY DEF After, FileOver, Steps, Asks

LEMMA GoesOnTyped ==
  ASSUME ShTypes, NEW ok \in BOOLEAN, GoesOn(ok)
  PROVE  /\ call' \in CallType /\ flags' \in FlagsType /\ prog' \in ProgType
         /\ handler' \in Handlers /\ pager' \in Pagers /\ lsCache' \in Caches
<1>1. After(ok) \in Steps
  BY AfterTyped
<1>2. call \in CallType /\ flags \in FlagsType /\ prog \in ProgType
  BY DEF ShTypes
<1>3. PICK n \in 0..MaxFiles :
        call' = [call EXCEPT !.step = After(ok), !.said = FALSE,
                             !.files = IF call.step = "glob" THEN n ELSE @,
                             !.reset = @ \/ (call.step = "glob" /\ ok)]
  BY DEF GoesOn
<1>4. call' \in CallType
  <2> DEFINE s == After(ok)
             m == IF call.step = "glob" THEN n ELSE call.files
  <2>1. s \in Steps /\ m \in Int
    BY <1>1, <1>2, ShAssumption DEF CallType
  <2>2. call' = [call EXCEPT !.step = s, !.said = FALSE, !.files = m,
                             !.reset = @ \/ (call.step = "glob" /\ ok)]
    BY <1>3
  <2> HIDE DEF s, m
  <2> QED
    BY <2>1, <2>2, <1>2 DEF CallType
<1>5. flags' \in FlagsType
  BY <1>2, FlagsEdits DEF GoesOn
<1>6. prog' \in ProgType
  BY <1>2, AtEdits DEF GoesOn, Places
<1> QED
  BY <1>4, <1>5, <1>6 DEF GoesOn, ShTypes

LEMMA GoTyped ==
  ASSUME call \in CallType, NEW s \in Steps, Go(s)
  PROVE  call' \in CallType
BY CallEdits DEF Go

LEMMA CancelTyped ==
  ASSUME ShTypes, Cancel
  PROVE  /\ flags' \in FlagsType /\ call' \in CallType /\ prog' \in ProgType
         /\ slips' \in SUBSET Slips
<1>1. "cancelled" \in Steps
  BY DEF Steps
<1> QED
  BY <1>1, FlagsEdits, CallEdits DEF ShTypes, Cancel, Spoils, Slips, SessionSlips, CacheSlips

LEMMA TypesKept == ShTypes /\ ShNext => ShTypes'
<1> SUFFICES ASSUME ShTypes, ShNext PROVE ShTypes'
  OBVIOUS
<1> USE DEF ShTypes, Handlers, Pagers, Caches, Places, Steps, Asks, Quiet, Same, In
<1>1. CASE Jumped
  BY <1>1, ConnEdits, AtEdits, FlagsEdits, PressEdits DEF Jumped
<1>2. CASE Loop
  BY <1>2, AtEdits, IdleTyped DEF Loop, Leave
<1>3. CASE LineDone
  BY <1>3, AtEdits DEF LineDone
<1>4. CASE NotDone
  BY <1>4, LineTails, AtEdits, LineEdits, FlagsEdits DEF NotDone
<1>5. CASE DoCommand
  <2> DEFINE c == Head(prog.line)
  <2>1. c \in CommandNames /\ Tail(prog.line) \in Seq(CommandNames \cup {"huh"})
    BY <1>5, LineTails DEF DoCommand
  <2>2. PICK n \in 1..MaxArgs :
          call' = [Idle EXCEPT !.cmd = c, !.step = FirstStep(c), !.args = n]
    BY <1>5 DEF DoCommand
  <2> HIDE DEF c
  <2>3. n \in Int
    BY <2>2, ShAssumption
  <2>7. call' \in CallType
    BY <2>1, <2>2, <2>3, NewCall
  <2> USE DEF c
  <2>4. prog' \in ProgType
    BY <2>1, <1>5, LineEdits DEF DoCommand
  <2>5. flags' \in FlagsType
    BY <1>5 DEF DoCommand, FlagsType
  <2>6. pressed' \in PressType
    BY <1>5, PressEdits DEF DoCommand
  <2> QED
    BY <1>5, <2>4, <2>5, <2>6, <2>7 DEF DoCommand
<1>6. CASE End
  BY <1>6, AtEdits, IdleTyped, FlagsEdits, PressEdits DEF End
<1>7. CASE SubShell
  BY <1>7, GoTyped DEF SubShell
<1>8. CASE Say
  <2>1. gConn' \in ConnType
    BY <1>8, OwedEdits DEF Say, Sent
  <2>2. call' \in CallType
    BY <1>8, SentTyped DEF Say, Sent
  <2>3. flags' \in FlagsType /\ pressed' \in PressType
    BY <1>8, FlagsEdits, PressEdits DEF Say, Sent
  <2>4. lsCache' \in Caches /\ slips' \in SUBSET Slips
    BY <1>8 DEF Say, Sent, Slips, CacheSlips
  <2> QED
    BY <1>8, <2>1, <2>2, <2>3, <2>4 DEF Say, Sent
<1>9. CASE Hear
  <2>1. PICK ok \in BOOLEAN : GoesOn(ok)
    BY <1>9 DEF Hear
  <2>2. gConn' \in ConnType /\ slips' \in SUBSET Slips
    BY <1>9, OwedEdits, ConnEdits DEF Hear
  <2> QED
    BY <1>9, <2>1, <2>2, GoesOnTyped DEF Hear
<1>10. CASE Lost
  BY <1>10, GoesOnTyped, ConnEdits DEF Lost
<1>11. CASE DataEnds
  BY <1>11, GoTyped, ConnEdits DEF DataEnds
<1>12. CASE LocalGlob
  <2>1. PICK n \in 1..MaxFiles : call' = [call EXCEPT !.step = "file", !.files = n]
    BY <1>12 DEF LocalGlob
  <2>2. n \in Int /\ "file" \in Steps
    BY <2>1, ShAssumption
  <2>3. call' \in CallType
    BY <2>1, <2>2, CountEdits
  <2> QED
    BY <1>12, <2>3 DEF LocalGlob
<1>13. CASE NextFile
  BY <1>13, GoTyped, CallEdits DEF NextFile
<1>14. CASE FileDone
  BY <1>14, GoTyped DEF FileDone
<1>15. CASE ArgDone
  BY <1>15, CallEdits, PressEdits DEF ArgDone
<1>16. CASE Unwind
  BY <1>16, GoTyped DEF Unwind
<1>17. CASE Flush
  BY <1>17, GoTyped DEF Flush
<1>18. CASE Output
  BY <1>18, GoTyped DEF Output
<1>19. CASE OpenPager
  BY <1>19, GoTyped, FlagsEdits DEF OpenPager
<1>20. CASE ClosePager
  BY <1>20, GoTyped DEF ClosePager
<1>21. CASE PagerEnds
  BY <1>21, GoTyped DEF PagerEnds
<1>22. CASE Restore
  BY <1>22, GoTyped DEF Restore
<1>23. CASE Cancelled
  BY <1>23, GoTyped DEF Cancelled, Slips
<1>24. CASE Question
  BY <1>24, GoTyped DEF Question
<1>25. CASE Dial
  BY <1>25, GoTyped, ConnEdits, FlagsEdits DEF Dial
<1>26. CASE ReadLine
  BY <1>26, LineEdits, ShAssumption DEF ReadLine
<1>27. CASE EndOfInput
  BY <1>27, AtEdits, IdleTyped DEF EndOfInput, Leave
<1>28. CASE Press
  <2>1. pressed' \in PressType
    BY <1>28 DEF Press, PressType
  <2>2. CASE BackToTop
    BY <1>28, <2>1, <2>2, AtEdits, IdleTyped, FlagsEdits
       DEF Press, BackToTop, ToTop, Spoils, Slips, SessionSlips, CacheSlips
  <2>3. CASE XferCanceller
    BY <1>28, <2>1, <2>3, AtEdits, IdleTyped, FlagsEdits
       DEF Press, XferCanceller, ToTop, Spoils, Slips, SessionSlips, CacheSlips
  <2>4. CASE Cancel
    BY <1>28, <2>1, <2>4, CancelTyped DEF Press
  <2> QED
    BY <1>28, <2>1, <2>2, <2>3, <2>4 DEF Press
<1>29. CASE PagerQuits
  BY <1>29, CancelTyped, PressEdits DEF PagerQuits
<1> QED
  BY <1>1, <1>2, <1>3, <1>4, <1>5, <1>6, <1>7, <1>8, <1>9, <1>10, <1>11, <1>12, <1>13, <1>14, <1>15, <1>16, <1>17, <1>18, <1>19, <1>20, <1>21, <1>22, <1>23, <1>24, <1>25, <1>26, <1>27, <1>28, <1>29 DEF ShNext, Program
LEMMA FirstOnPath ==
  ASSUME NEW c \in CommandNames, gConn.up \/ c \in Unconnected
  PROVE  FirstStep(c) \in StepsOf(c)
BY DEF FirstStep, StepsOf, CommandNames, Transfers, Paging, Unconnected

LEMMA AfterOnPath ==
  ASSUME call.cmd \in CommandNames, call.step \in StepsOf(call.cmd), call.step \in Asks,
         NEW ok \in BOOLEAN
  PROVE  After(ok) \in StepsOf(call.cmd)
<1> DEFINE c == call.cmd
<1>1. CASE c \in {"rm", "mv", "quote"}
  BY <1>1 DEF After, FileOver, StepsOf, Asks
<1>2. CASE c \in {"ls", "pls", "more"}
  BY <1>2 DEF After, FileOver, StepsOf, Asks, Transfers
<1>3. CASE c \in {"get", "getDD"}
  BY <1>3 DEF After, FileOver, StepsOf, Asks, Transfers
<1>4. CASE c = "getAs"
  BY <1>4 DEF After, FileOver, StepsOf, Asks, Transfers
<1>6. CASE c = "put"
  BY <1>6 DEF After, FileOver, StepsOf, Asks, Transfers
<1>5. CASE c \in {"open", "close", "shell", "quit"}
  BY <1>5 DEF After, FileOver, StepsOf, Asks
<1> QED
  BY <1>1, <1>2, <1>3, <1>4, <1>5, <1>6 DEF CommandNames, Transfers, Paging

(* What GoesOn does to the step and to the place in the loop.              *)
LEMMA GoesOnSteps ==
  ASSUME ShTypes, NEW ok \in BOOLEAN, GoesOn(ok)
  PROVE  /\ call'.cmd = call.cmd /\ call'.step = After(ok) /\ call'.said = FALSE
         /\ call'.did = call.did
         /\ call'.reset = (call.reset \/ (call.step = "glob" /\ ok))
         /\ prog'.at = IF prog.at = "closing" /\ call.step = "bye" THEN "exit" ELSE prog.at
BY DEF GoesOn, ShTypes, CallType, ProgType

LEMMA AfterSteps ==
  ASSUME NEW ok \in BOOLEAN
  PROVE  /\ After(ok) \notin {"post", "login", "none", "cancelled"}
         /\ After(ok) = "data" => call.step = "start" /\ ok
         /\ After(ok) = "dial" => call.step = "bye"
BY DEF After, FileOver

LEMMA LeaveSteps ==
  ASSUME Leave
  PROVE  /\ prog'.at = "closing" /\ call'.cmd = "none" /\ call'.step = "question"
         /\ call'.said = FALSE /\ call'.did = FALSE /\ call'.reset = FALSE
<1>1. Idle \in CallType /\ Idle.cmd = "none" /\ Idle.said = FALSE /\ Idle.did = FALSE /\ Idle.reset = FALSE
  BY IdleTyped DEF Idle
<1> QED
  BY <1>1 DEF Leave, CallType

LEMMA OnPathOn ==
  ASSUME ShTypes, OnPath, NEW ok \in BOOLEAN, GoesOn(ok), call.step \in Asks
  PROVE  OnPath'
<1>1. CASE prog.at = "cmd"
  BY <1>1, AfterOnPath, GoesOnSteps DEF OnPath
<1>2. CASE prog.at = "closing"
  <2>1. After(ok) = "end"
    BY <1>2 DEF OnPath, After, Asks
  <2> QED
    BY <1>2, <2>1, GoesOnSteps DEF OnPath, Asks
<1>3. CASE prog.at \notin {"cmd", "closing"}
  BY <1>3 DEF OnPath, ShTypes, ProgType, Places, Idle, Asks
<1> QED
  BY <1>1, <1>2, <1>3

LEMMA PathKept == ShTypes /\ OnPath /\ Watched /\ ShNext => OnPath'
<1> SUFFICES ASSUME ShTypes, OnPath, Watched, ShNext PROVE OnPath'
  OBVIOUS
<1>0. call \in CallType /\ prog \in ProgType
  BY DEF ShTypes
<1> USE <1>0 DEF OnPath, StepsOf, CallType, ProgType, Idle, In, Go
<1>1. CASE Jumped
  BY <1>1 DEF Jumped, Same, Quiet
<1>2. CASE Loop
  BY <1>2 DEF Loop, Leave
<1>3. CASE LineDone
  BY <1>3 DEF LineDone, Same, Quiet
<1>4. CASE NotDone
  BY <1>4 DEF NotDone, Same, Quiet
<1>5. CASE DoCommand
  <2> DEFINE c == Head(prog.line)
  <2>1. c \in CommandNames /\ (gConn.up \/ c \in Unconnected)
    BY <1>5, LineTails DEF DoCommand
  <2>2. prog'.at = "cmd" /\ call'.cmd = c /\ call'.step = FirstStep(c)
    <3> HIDE DEF c
    <3> QED
      BY <1>5 DEF DoCommand, c
  <2> HIDE DEF c
  <2>3. FirstStep(c) \in StepsOf(c)
    BY <2>1, FirstOnPath
  <2> QED
    BY <2>1, <2>2, <2>3 DEF OnPath
<1>6. CASE End
  BY <1>6 DEF End, Same, Quiet
<1>7. CASE SubShell
  BY <1>7 DEF SubShell, Same, Quiet
<1>8. CASE Say
  BY <1>8 DEF Say, Sent
<1>9. CASE Hear
  BY <1>9, OnPathOn DEF Hear
<1>10. CASE Lost
  BY <1>10, OnPathOn DEF Lost
<1>11. CASE DataEnds
  BY <1>11 DEF DataEnds, Same, Quiet
<1>12. CASE LocalGlob
  BY <1>12 DEF LocalGlob, Same, Quiet
<1>13. CASE NextFile
  BY <1>13 DEF NextFile, Same, Quiet
<1>14. CASE FileDone
  BY <1>14 DEF FileDone, Same, Quiet
<1>15. CASE ArgDone
  BY <1>15 DEF ArgDone, Same, Quiet
<1>16. CASE Unwind
  BY <1>16 DEF Unwind, Same, Quiet
<1>17. CASE Flush
  BY <1>17 DEF Flush, Same, Quiet
<1>18. CASE Output
  BY <1>18 DEF Output, Same, Quiet
<1>19. CASE OpenPager
  BY <1>19 DEF OpenPager, Same, Quiet
<1>20. CASE ClosePager
  BY <1>20 DEF ClosePager, Same, Quiet
<1>21. CASE PagerEnds
  BY <1>21 DEF PagerEnds, Same, Quiet
<1>22. CASE Restore
  BY <1>22 DEF Restore, Same, Quiet
<1>23. CASE Cancelled
  BY <1>23 DEF Cancelled, Same, Quiet
<1>24. CASE Question
  BY <1>24 DEF Question, Same, Quiet
<1>25. CASE Dial
  BY <1>25 DEF Dial, Same, Quiet
<1>26. CASE ReadLine
  BY <1>26 DEF ReadLine, Same, Quiet
<1>27. CASE EndOfInput
  BY <1>27 DEF EndOfInput, Leave
<1>28. CASE Press
  <2>1. CASE BackToTop
    BY <1>28, <2>1 DEF Press, BackToTop, ToTop
  <2>2. CASE XferCanceller
    BY <1>28, <2>2 DEF Press, XferCanceller, ToTop
  <2>3. CASE Cancel
    BY <1>28, <2>3 DEF Press, Cancel, Watched, Transfers, Paging, CommandNames
  <2> QED
    BY <1>28, <2>1, <2>2, <2>3 DEF Press
<1>29. CASE PagerQuits
  BY <1>29 DEF PagerQuits, Cancel, Watched, Transfers, Paging, CommandNames
<1> QED
  BY <1>1, <1>2, <1>3, <1>4, <1>5, <1>6, <1>7, <1>8, <1>9, <1>10, <1>11, <1>12, <1>13, <1>14, <1>15, <1>16, <1>17, <1>18, <1>19, <1>20, <1>21, <1>22, <1>23, <1>24, <1>25, <1>26, <1>27, <1>28, <1>29 DEF ShNext, Program

LEMMA WatchKept == ShTypes /\ OnPath /\ Watched /\ ShNext => Watched'
<1> SUFFICES ASSUME ShTypes, OnPath, Watched, ShNext PROVE Watched'
  OBVIOUS
<1>0. call \in CallType /\ prog \in ProgType /\ handler \in Handlers
  BY DEF ShTypes
<1> USE <1>0 DEF Watched, CallType, ProgType, Handlers, Idle, In, Go, OnPath, StepsOf, Transfers, Paging
<1>1. CASE Jumped
  BY <1>1 DEF Jumped, Same, Quiet
<1>2. CASE Loop
  BY <1>2 DEF Loop, Leave
<1>3. CASE LineDone
  BY <1>3 DEF LineDone, Same, Quiet
<1>4. CASE NotDone
  BY <1>4 DEF NotDone, Same, Quiet
<1>5. CASE DoCommand
  BY <1>5 DEF DoCommand, FirstStep, CommandNames
<1>6. CASE End
  BY <1>6 DEF End, Same, Quiet
<1>7. CASE SubShell
  BY <1>7 DEF SubShell, Same, Quiet
<1>8. CASE Say
  BY <1>8 DEF Say, Sent
<1>9. CASE Hear
  BY <1>9 DEF Hear, GoesOn, After, FileOver, Asks
<1>10. CASE Lost
  BY <1>10 DEF Lost, GoesOn, After, FileOver, Asks
<1>11. CASE DataEnds
  BY <1>11 DEF DataEnds, Same, Quiet
<1>12. CASE LocalGlob
  BY <1>12 DEF LocalGlob, Same, Quiet
<1>13. CASE NextFile
  BY <1>13 DEF NextFile, Same, Quiet
<1>14. CASE FileDone
  BY <1>14 DEF FileDone, Same, Quiet
<1>15. CASE ArgDone
  BY <1>15 DEF ArgDone, Same, Quiet
<1>16. CASE Unwind
  BY <1>16 DEF Unwind, Same, Quiet
<1>17. CASE Flush
  BY <1>17 DEF Flush, Same, Quiet
<1>18. CASE Output
  BY <1>18 DEF Output, Same, Quiet
<1>19. CASE OpenPager
  BY <1>19 DEF OpenPager, Same, Quiet
<1>20. CASE ClosePager
  BY <1>20 DEF ClosePager, Same, Quiet
<1>21. CASE PagerEnds
  BY <1>21 DEF PagerEnds, Same, Quiet
<1>22. CASE Restore
  BY <1>22 DEF Restore, Same, Quiet
<1>23. CASE Cancelled
  BY <1>23 DEF Cancelled, Same, Quiet
<1>24. CASE Question
  BY <1>24 DEF Question, Same, Quiet
<1>25. CASE Dial
  BY <1>25 DEF Dial, Same, Quiet
<1>26. CASE ReadLine
  BY <1>26 DEF ReadLine, Same, Quiet
<1>27. CASE EndOfInput
  BY <1>27 DEF EndOfInput, Leave
<1>28. CASE Press
  <2>1. CASE BackToTop
    BY <1>28, <2>1 DEF Press, BackToTop, ToTop
  <2>2. CASE XferCanceller
    BY <1>28, <2>2 DEF Press, XferCanceller, ToTop
  <2>3. CASE Cancel
    BY <1>28, <2>3 DEF Press, Cancel
  <2> QED
    BY <1>28, <2>1, <2>2, <2>3 DEF Press
<1>29. CASE PagerQuits
  BY <1>29 DEF PagerQuits, Cancel
<1> QED
  BY <1>1, <1>2, <1>3, <1>4, <1>5, <1>6, <1>7, <1>8, <1>9, <1>10, <1>11, <1>12, <1>13, <1>14, <1>15, <1>16, <1>17, <1>18, <1>19, <1>20, <1>21, <1>22, <1>23, <1>24, <1>25, <1>26, <1>27, <1>28, <1>29 DEF ShNext, Program

LEMMA WiredKept == ShTypes /\ OnPath /\ Watched /\ Wired /\ ShNext => Wired'
<1> SUFFICES ASSUME ShTypes, OnPath, Watched, Wired, ShNext PROVE Wired'
  OBVIOUS
<1>0. /\ gConn \in ConnType /\ call \in CallType /\ prog \in ProgType /\ flags \in FlagsType
      /\ pressed \in PressType
  BY DEF ShTypes
<1> USE <1>0 DEF Wired, ConnType, CallType, ProgType, FlagsType, Idle, Closed, In, Go, OnPath, Asks
<1>1. CASE Jumped
  BY <1>1 DEF Jumped, Closed
<1>2. CASE Loop
  BY <1>2, LeaveSteps DEF Loop, Quiet
<1>3. CASE LineDone
  BY <1>3 DEF LineDone, Same, Quiet
<1>4. CASE NotDone
  BY <1>4 DEF NotDone, Same, Quiet
<1>5. CASE DoCommand
  BY <1>5 DEF DoCommand, FirstStep
<1>6. CASE End
  BY <1>6 DEF End, Same, Quiet
<1>7. CASE SubShell
  BY <1>7 DEF SubShell, Same, Quiet
<1>8. CASE Say
  BY <1>8 DEF Say, Sent
<1>9. CASE Hear
  <2>1. PICK ok \in BOOLEAN :
          /\ GoesOn(ok)
          /\ \/ gConn' = Closed /\ (call.step = "bye" \/ (call.step = "login" /\ ~ok))
             \/ gConn'.up /\ call.step # "bye"
    BY <1>9 DEF Hear
  <2>2. flags'.cancelCtrl = flags.cancelCtrl
    BY <2>1 DEF GoesOn
  <2>3. call'.step = After(ok) /\ call'.said = FALSE /\ (prog'.at = prog.at \/ prog.at = "closing")
    BY <2>1, GoesOnSteps
  <2>4. gConn'.up \/ gConn' = Closed
    BY <2>1
  <2>5. After(ok) = "data" => gConn'.up
    BY <2>1, AfterSteps
  <2>6. After(ok) = "dial" => ~gConn'.up
    BY <2>1, AfterSteps
  <2> QED
    BY <2>2, <2>3, <2>4, <2>5, <2>6, AfterSteps DEF Wired
<1>10. CASE Lost
  BY <1>10 DEF Lost, GoesOn, After, FileOver
<1>11. CASE DataEnds
  BY <1>11 DEF DataEnds, Same, Quiet
<1>12. CASE LocalGlob
  BY <1>12 DEF LocalGlob, Same, Quiet
<1>13. CASE NextFile
  BY <1>13 DEF NextFile, Same, Quiet
<1>14. CASE FileDone
  BY <1>14 DEF FileDone, Same, Quiet
<1>15. CASE ArgDone
  BY <1>15 DEF ArgDone, Same, Quiet
<1>16. CASE Unwind
  BY <1>16 DEF Unwind, Same, Quiet
<1>17. CASE Flush
  BY <1>17 DEF Flush, Same, Quiet
<1>18. CASE Output
  BY <1>18 DEF Output, Same, Quiet
<1>19. CASE OpenPager
  BY <1>19 DEF OpenPager, Same, Quiet
<1>20. CASE ClosePager
  BY <1>20 DEF ClosePager, Same, Quiet
<1>21. CASE PagerEnds
  BY <1>21 DEF PagerEnds, Same, Quiet
<1>22. CASE Restore
  BY <1>22 DEF Restore, Same, Quiet
<1>23. CASE Cancelled
  BY <1>23 DEF Cancelled, Same, Quiet
<1>24. CASE Question
  BY <1>24 DEF Question, Same, Quiet
<1>25. CASE Dial
  BY <1>25 DEF Dial, Same, Quiet
<1>26. CASE ReadLine
  BY <1>26 DEF ReadLine, Same, Quiet
<1>27. CASE EndOfInput
  BY <1>27, LeaveSteps DEF EndOfInput, Quiet
<1>28. CASE Press
  <2>1. CASE BackToTop
    BY <1>28, <2>1 DEF Press, BackToTop, ToTop
  <2>2. CASE XferCanceller
    BY <1>28, <2>2 DEF Press, XferCanceller, ToTop
  <2>3. CASE Cancel
    BY <1>28, <2>3 DEF Press, Cancel
  <2> QED
    BY <1>28, <2>1, <2>2, <2>3 DEF Press
<1>29. CASE PagerQuits
  BY <1>29 DEF PagerQuits, Cancel
<1> QED
  BY <1>1, <1>2, <1>3, <1>4, <1>5, <1>6, <1>7, <1>8, <1>9, <1>10, <1>11, <1>12, <1>13, <1>14, <1>15, <1>16, <1>17, <1>18, <1>19, <1>20, <1>21, <1>22, <1>23, <1>24, <1>25, <1>26, <1>27, <1>28, <1>29 DEF ShNext, Program

LEMMA DialConn ==
  LET c == [Closed EXCEPT !.up = TRUE]
  IN c.up = TRUE /\ c.in = FALSE /\ c.owed = 0 /\ c.data = FALSE
<1>1. Closed \in ConnType /\ Closed.in = FALSE /\ Closed.owed = 0 /\ Closed.data = FALSE
  BY ConnEdits DEF Closed, ConnType
<1> QED
  BY <1>1 DEF ConnType

(* What a ^C that is counted does to the command.                          *)
LEMMA PressSteps ==
  ASSUME ShTypes, Press
  PROVE  /\ pressed'.all = pressed.all + 1 /\ pressed.all < MaxPresses
         /\ pressed'.here = pressed.here + 1 /\ pressed'.since = pressed.since + 1
         /\ gConn' = gConn
         /\ \/ prog'.at = "jump" /\ call' = Idle
            \/ prog' = prog /\ call' = call
            \/ prog' = prog /\ call'.cmd = call.cmd /\ call'.step = "cancelled" /\ call'.said = FALSE
               /\ handler = "cancel"
<1>1. call \in CallType
  BY DEF ShTypes
<1>2. CASE BackToTop
  BY <1>2 DEF Press, BackToTop, ToTop
<1>3. CASE XferCanceller
  BY <1>3 DEF Press, XferCanceller, ToTop
<1>4. CASE Cancel
  BY <1>1, <1>4 DEF Press, Cancel, CallType
<1> QED
  BY <1>2, <1>3, <1>4 DEF Press

LEMMA QuitsSteps ==
  ASSUME ShTypes, PagerQuits
  PROVE  /\ pressed'.all = pressed.all + 1 /\ pressed.all < MaxPresses
         /\ pressed'.here = pressed.here /\ pressed'.since = pressed.since /\ pressed'.stop = pressed.stop
         /\ gConn' = gConn /\ prog' = prog /\ handler = "cancel"
         /\ \/ call' = call
            \/ call'.cmd = call.cmd /\ call'.step = "cancelled" /\ call'.said = FALSE
<1>1. call \in CallType /\ pressed \in PressType
  BY DEF ShTypes
<1> QED
  BY <1>1 DEF PagerQuits, Cancel, CallType, PressType

LEMMA DueSteps ==
  ASSUME ShTypes
  PROVE  /\ Due \in {0, 1}
         /\ call' = Idle => Due' = 0
         /\ call' = call => Due' = Due
         /\ call'.step \notin Asks \cup {"data", "post"} => Due' = 0
         /\ call'.step \notin {"data", "post"} /\ ~call'.said => Due' = 0
BY DEF Due, Idle, Asks

LEMMA CountedKept == ShTypes /\ OnPath /\ Watched /\ Wired /\ Counted /\ ShNext => Counted'
<1> SUFFICES ASSUME ShTypes, OnPath, Watched, Wired, Counted, ShNext PROVE Counted'
  OBVIOUS
<1>0. /\ gConn \in ConnType /\ call \in CallType /\ prog \in ProgType /\ flags \in FlagsType
      /\ pressed \in PressType
  BY DEF ShTypes
<1> USE <1>0 DEF Counted, Due, Wired, ConnType, CallType, ProgType, FlagsType, PressType, Idle, Closed, In, Go, OnPath, Asks
<1>1. CASE Jumped
  BY <1>1 DEF Jumped, Closed
<1>2. CASE Loop
  <2>1. gConn' = gConn /\ pressed' = pressed
    BY <1>2 DEF Loop, Quiet
  <2>2. Due = 0
    BY <1>2 DEF Loop
  <2>3. Due' = 0
    BY <1>2, <2>2, LeaveSteps DEF Loop
  <2> QED
    BY <2>1, <2>2, <2>3 DEF Counted
<1>3. CASE LineDone
  BY <1>3 DEF LineDone, Same, Quiet
<1>4. CASE NotDone
  BY <1>4 DEF NotDone, Same, Quiet
<1>5. CASE DoCommand
  BY <1>5 DEF DoCommand, FirstStep
<1>6. CASE End
  BY <1>6 DEF End, Same, Quiet
<1>7. CASE SubShell
  BY <1>7 DEF SubShell, Same, Quiet
<1>8. CASE Say
  BY <1>8 DEF Say, Sent
<1>9. CASE Hear
  <2>1. PICK ok \in BOOLEAN :
          /\ GoesOn(ok)
          /\ \/ gConn' = Closed
             \/ gConn'.up /\ gConn'.owed = gConn.owed /\ call.step = "start" /\ ok
             \/ gConn'.up /\ gConn'.owed = gConn.owed - 1 /\ ~(call.step = "start" /\ ok)
    BY <1>9, ZenonT(40) DEF Hear
  <2>2. Due = 1 /\ gConn.up
    BY <1>9 DEF Hear
  <2>3. call'.step = After(ok) /\ call'.said = FALSE
    BY <2>1, GoesOnSteps
  <2>4. Due' = IF After(ok) \in {"data", "post"} THEN 1 ELSE 0
    BY <2>3
  <2>5. After(ok) = "data" <=> call.step = "start" /\ ok
    BY <2>1, AfterSteps DEF After
  <2>6. After(ok) # "post"
    BY <2>1, AfterSteps
  <2>7. pressed' = pressed /\ gConn.owed >= 1 /\ gConn.owed \in Int /\ pressed.all \in Nat
    BY <1>9, <2>2 DEF Hear
  <2>8. Due' = IF call.step = "start" /\ ok THEN 1 ELSE 0
    BY <2>4, <2>5, <2>6
  <2> HIDE DEF Due
  <2> QED
    BY <2>1, <2>2, <2>7, <2>8 DEF Counted, Closed
<1>10. CASE Lost
  BY <1>10 DEF Lost, GoesOn, After, FileOver
<1>11. CASE DataEnds
  BY <1>11 DEF DataEnds, Same, Quiet
<1>12. CASE LocalGlob
  BY <1>12 DEF LocalGlob, Same, Quiet
<1>13. CASE NextFile
  <2>1. gConn' = gConn /\ pressed'.all = pressed.all
    BY <1>13 DEF NextFile, Quiet, Same
  <2>2. Due = 0
    BY <1>13 DEF NextFile
  <2>3. Due' = 0
    BY <1>13, ZenonT(40) DEF NextFile
  <2> QED
    BY <2>1, <2>2, <2>3 DEF Counted
<1>14. CASE FileDone
  BY <1>14 DEF FileDone, Same, Quiet
<1>15. CASE ArgDone
  <2>1. gConn' = gConn /\ pressed'.all = pressed.all
    BY <1>15 DEF ArgDone, Quiet
  <2>2. Due = 0 /\ Due' = 0
    BY <1>15 DEF ArgDone
  <2> QED
    BY <2>1, <2>2 DEF Counted
<1>16. CASE Unwind
  BY <1>16 DEF Unwind, Same, Quiet
<1>17. CASE Flush
  BY <1>17 DEF Flush, Same, Quiet
<1>18. CASE Output
  BY <1>18 DEF Output, Same, Quiet
<1>19. CASE OpenPager
  BY <1>19 DEF OpenPager, Same, Quiet
<1>20. CASE ClosePager
  BY <1>20 DEF ClosePager, Same, Quiet
<1>21. CASE PagerEnds
  BY <1>21 DEF PagerEnds, Same, Quiet
<1>22. CASE Restore
  BY <1>22 DEF Restore, Same, Quiet
<1>23. CASE Cancelled
  BY <1>23 DEF Cancelled, Same, Quiet
<1>24. CASE Question
  BY <1>24 DEF Question, Same, Quiet
<1>25. CASE Dial
  <2>1. pressed' = pressed /\ Due = 0
    BY <1>25 DEF Dial
  <2>2. CASE gConn' = [Closed EXCEPT !.up = TRUE] /\ Go("login")
    <3>1. Due' = 0
      BY <2>2
    <3>2. gConn'.owed = 0
      BY <2>2, DialConn
    <3> QED
      BY <2>1, <3>1, <3>2 DEF Counted
  <2>3. CASE gConn' = Closed /\ Go("end")
    BY <2>1, <2>3
  <2> QED
    BY <1>25, <2>2, <2>3 DEF Dial
<1>26. CASE ReadLine
  BY <1>26 DEF ReadLine, Same, Quiet
<1>27. CASE EndOfInput
  BY <1>27, LeaveSteps DEF EndOfInput, Quiet
<1>28. CASE Press
  <2>1. Due \in {0, 1} /\ Due' \in {0, Due}
    <3> HIDE DEF Due, Idle, Asks
    <3> QED
      BY <1>28, PressSteps, DueSteps
  <2>2. pressed'.all = pressed.all + 1 /\ pressed.all < MaxPresses /\ gConn' = gConn
    BY <1>28, PressSteps
  <2>3. gConn.owed \in Int /\ pressed.all \in Nat /\ MaxPresses \in Nat
    BY ShAssumption
  <2>4. gConn.up => gConn.owed >= Due'
    BY <2>1
  <2>5. gConn.owed <= pressed.all + 1 + Due'
    BY <2>1, <2>3
  <2> HIDE DEF Due
  <2> QED
    BY <2>2, <2>3, <2>4, <2>5 DEF Counted
<1>29. CASE PagerQuits
  <2>1. Due \in {0, 1} /\ Due' \in {0, Due}
    <3> HIDE DEF Due, Idle, Asks
    <3> QED
      BY <1>29, QuitsSteps, DueSteps
  <2>2. pressed'.all = pressed.all + 1 /\ pressed.all < MaxPresses /\ gConn' = gConn
    BY <1>29, QuitsSteps
  <2>3. gConn.owed \in Int /\ pressed.all \in Nat /\ MaxPresses \in Nat
    BY ShAssumption
  <2>4. gConn.up => gConn.owed >= Due'
    BY <2>1
  <2>5. gConn.owed <= pressed.all + 1 + Due'
    BY <2>1, <2>3
  <2> HIDE DEF Due
  <2> QED
    BY <2>2, <2>3, <2>4, <2>5 DEF Counted
<1> QED
  BY <1>1, <1>2, <1>3, <1>4, <1>5, <1>6, <1>7, <1>8, <1>9, <1>10, <1>11, <1>12, <1>13, <1>14, <1>15, <1>16, <1>17, <1>18, <1>19, <1>20, <1>21, <1>22, <1>23, <1>24, <1>25, <1>26, <1>27, <1>28, <1>29 DEF ShNext, Program

(* A jump out of an exchange leaves an excuse, and nothing else is owed.   *)
LEMMA SpoilsFacts ==
  ASSUME ShTypes, NEW how \in SessionSlips
  PROVE  /\ Unsettled => slips \cup Spoils(how) # {} /\ (slips \cup Spoils(how)) \cap SessionSlips # {}
         /\ slips \subseteq slips \cup Spoils(how)
         /\ gConn.up /\ ~Unsettled => gConn.in /\ gConn.owed <= 0 /\ ~gConn.data
         /\ lsCache = "stale" => (slips \cup Spoils(how)) \cap CacheSlips # {}
BY DEF Spoils, Unsettled, ShTypes, ConnType, CacheSlips

LEMMA CancelInStep ==
  ASSUME ShTypes, InStep, gConn' = gConn, Cancel
  PROVE  InStep'
<1>1. call \in CallType /\ flags \in FlagsType /\ gConn.owed \in Int
  BY DEF ShTypes, ConnType
<1>2. CASE flags.mayCancel
  <2>1. /\ call'.step = "cancelled" /\ ~call'.said /\ slips' = slips \cup Spoils("cancelled")
        /\ flags'.cancelCtrl = flags.cancelCtrl
    BY <1>1, <1>2 DEF Cancel, CallType, FlagsType
  <2>2. Due' = 0
    BY <2>1 DEF Due
  <2>3. "cancelled" \in SessionSlips
    BY DEF SessionSlips
  <2> QED
    BY <1>1, <2>1, <2>2, <2>3, SpoilsFacts DEF InStep, Excused
<1>3. CASE ~flags.mayCancel
  BY <1>3 DEF Cancel, InStep, Due, Excused
<1> QED
  BY <1>2, <1>3

LEMMA InStepKept == ShTypes /\ OnPath /\ Watched /\ Wired /\ Counted /\ InStep /\ ShNext => InStep'
<1> SUFFICES ASSUME ShTypes, OnPath, Watched, Wired, Counted, InStep, ShNext PROVE InStep'
  OBVIOUS
<1>0. /\ gConn \in ConnType /\ call \in CallType /\ prog \in ProgType /\ flags \in FlagsType
      /\ pressed \in PressType
  BY DEF ShTypes
<1> USE <1>0 DEF InStep, Excused, Due, Wired, ConnType, CallType, ProgType, FlagsType, Idle, In, Go, OnPath, Asks, SessionSlips
<1>1. CASE Jumped
  BY <1>1 DEF Jumped, Closed
<1>2. CASE Loop
  <2>1. gConn' = gConn /\ slips' = slips /\ flags' = flags
    BY <1>2 DEF Loop, Quiet
  <2>2. Due = 0 /\ call.step # "data" /\ call.step # "login"
    BY <1>2 DEF Loop
  <2>3. Due' = 0
    BY <1>2, <2>2, LeaveSteps DEF Loop
  <2> HIDE DEF Due
  <2> QED
    BY <2>1, <2>2, <2>3
<1>3. CASE LineDone
  BY <1>3 DEF LineDone, Same, Quiet
<1>4. CASE NotDone
  BY <1>4 DEF NotDone, Same, Quiet
<1>5. CASE DoCommand
  BY <1>5 DEF DoCommand, FirstStep, CacheSlips
<1>6. CASE End
  BY <1>6 DEF End, Same, Quiet
<1>7. CASE SubShell
  BY <1>7 DEF SubShell, Same, Quiet
<1>8. CASE Say
  BY <1>8 DEF Say, Sent
<1>9. CASE Hear
  <2>1. PICK ok \in BOOLEAN :
          /\ GoesOn(ok)
          /\ \/ gConn' = Closed
             \/ /\ gConn'.up /\ slips' = slips /\ gConn'.data = gConn.data
                /\ gConn'.owed = gConn.owed - 1 /\ call.step # "login" /\ gConn'.in = gConn.in
             \/ /\ gConn'.up /\ slips' = slips /\ gConn'.data = gConn.data
                /\ gConn'.owed = gConn.owed - 1 /\ gConn'.in
             \/ /\ gConn'.up /\ slips' = slips /\ call.step = "start" /\ ok
                /\ gConn'.owed = gConn.owed /\ gConn'.in = gConn.in
    BY <1>9 DEF Hear
  <2>2. Due = 1 /\ gConn.up /\ call.step # "data"
    BY <1>9 DEF Hear
  <2>3. call'.step = After(ok) /\ call'.said = FALSE /\ flags'.cancelCtrl = flags.cancelCtrl
    BY <2>1, GoesOnSteps DEF GoesOn
  <2>4. call.step = "start" /\ ok => call'.step = "data" /\ Due' = 1
    BY <2>3 DEF After
  <2>5. Due' \in {0, 1} /\ gConn.owed \in Int
    OBVIOUS
  <2>6. CASE gConn' = Closed
    <3>1. ~gConn'.up
      BY <2>6 DEF Closed
    <3> QED
      BY <3>1
  <2> HIDE DEF Due
  <2> QED
    BY <2>1, <2>2, <2>3, <2>4, <2>5, <2>6
<1>10. CASE Lost
  <2>1. ~gConn'.up
    BY <1>10 DEF Lost, Closed
  <2> QED
    BY <2>1
<1>11. CASE DataEnds
  BY <1>11 DEF DataEnds, Same, Quiet
<1>12. CASE LocalGlob
  BY <1>12 DEF LocalGlob, Same, Quiet
<1>13. CASE NextFile
  BY <1>13 DEF NextFile, Same, Quiet
<1>14. CASE FileDone
  BY <1>14 DEF FileDone, Same, Quiet
<1>15. CASE ArgDone
  BY <1>15 DEF ArgDone, Same, Quiet
<1>16. CASE Unwind
  BY <1>16 DEF Unwind, Same, Quiet
<1>17. CASE Flush
  BY <1>17 DEF Flush, CacheSlips
<1>18. CASE Output
  BY <1>18 DEF Output, Same, Quiet
<1>19. CASE OpenPager
  BY <1>19 DEF OpenPager, Same, Quiet
<1>20. CASE ClosePager
  BY <1>20 DEF ClosePager, Same, Quiet
<1>21. CASE PagerEnds
  BY <1>21 DEF PagerEnds, Same, Quiet
<1>22. CASE Restore
  BY <1>22 DEF Restore, Same, Quiet
<1>23. CASE Cancelled
  BY <1>23 DEF Cancelled, Same, Quiet
<1>24. CASE Question
  BY <1>24 DEF Question, Same, Quiet
<1>25. CASE Dial
  <2>1. CASE gConn' = [Closed EXCEPT !.up = TRUE] /\ Go("login")
    BY <2>1, DialConn
  <2>2. CASE gConn' = Closed /\ Go("end")
    BY <2>2 DEF Closed
  <2> QED
    BY <1>25, <2>1, <2>2 DEF Dial
<1>26. CASE ReadLine
  BY <1>26 DEF ReadLine, Same, Quiet
<1>27. CASE EndOfInput
  <2>1. gConn' = gConn /\ slips' = slips /\ flags' = flags
    BY <1>27 DEF EndOfInput, Quiet
  <2>2. Due = 0 /\ call.step # "data" /\ call.step # "login"
    BY <1>27 DEF EndOfInput
  <2>3. Due' = 0
    BY <1>27, <2>2, LeaveSteps DEF EndOfInput
  <2> HIDE DEF Due
  <2> QED
    BY <2>1, <2>2, <2>3
<1>28. CASE Press
  <2>1. gConn' = gConn /\ gConn.owed \in Int
    BY <1>28 DEF Press
  <2>2. CASE BackToTop
    <3>1. Due' = 0 /\ slips' = slips \cup Spoils("jumped")
      BY <2>2 DEF BackToTop, ToTop
    <3>2. "jumped" \in SessionSlips
      OBVIOUS
    <3> HIDE DEF Due, SessionSlips
    <3> QED
      BY <2>1, <3>1, <3>2, SpoilsFacts
  <2>3. CASE XferCanceller
    BY <1>28, <2>3 DEF Press, XferCanceller, ToTop, Spoils, Unsettled
  <2>4. CASE Cancel
    BY <2>1, <2>4, CancelInStep
  <2> QED
    BY <1>28, <2>2, <2>3, <2>4 DEF Press
<1>29. CASE PagerQuits
  BY <1>29, CancelInStep DEF PagerQuits
<1> QED
  BY <1>1, <1>2, <1>3, <1>4, <1>5, <1>6, <1>7, <1>8, <1>9, <1>10, <1>11, <1>12, <1>13, <1>14, <1>15, <1>16, <1>17, <1>18, <1>19, <1>20, <1>21, <1>22, <1>23, <1>24, <1>25, <1>26, <1>27, <1>28, <1>29 DEF ShNext, Program

LEMMA AfterFlushes ==
  ASSUME NEW ok \in BOOLEAN, call.step \in Asks
  PROVE  /\ call.cmd = "rm" /\ call.step = "ask" => After(ok) = "flush"
         /\ call.cmd = "mv" /\ call.step = "ask" /\ ok => After(ok) = "flush"
         /\ call.cmd \in {"getDD", "put"} /\ call.step \in StepsOf(call.cmd) => After(ok) # "end"
<1>1. call.step = "ask" => After(ok) = IF call.cmd = "rm" \/ (call.cmd = "mv" /\ ok) THEN "flush" ELSE "end"
  BY DEF After
<1>2. call.cmd \in {"getDD", "put"} => FileOver = "filedone"
  BY DEF FileOver, Transfers
<1>3. call.cmd \in {"getDD", "put"} /\ call.step \in StepsOf(call.cmd)
        => call.step \in {"glob", "probe", "start", "post", "dele"}
  BY DEF Asks, StepsOf
<1>4. ASSUME call.cmd \in {"getDD", "put"}, call.step \in {"glob", "probe", "start", "post", "dele"}
      PROVE  After(ok) # "end"
  BY <1>2, <1>4 DEF After
<1> QED
  BY <1>1, <1>3, <1>4

LEMMA CancelSlips ==
  ASSUME Cancel
  PROVE  slips \subseteq slips'
BY DEF Cancel

LEMMA CachedKept == ShTypes /\ OnPath /\ Watched /\ Wired /\ Cached /\ ShNext => Cached'
<1> SUFFICES ASSUME ShTypes, OnPath, Watched, Wired, Cached, ShNext PROVE Cached'
  OBVIOUS
<1>0. /\ gConn \in ConnType /\ call \in CallType /\ prog \in ProgType /\ flags \in FlagsType
      /\ pressed \in PressType
  BY DEF ShTypes
<1> USE <1>0 DEF Cached, WillFlush, Wired, ConnType, CallType, ProgType, Idle, In, Go, OnPath, StepsOf, SessionSlips, CacheSlips
<1>1. CASE Jumped
  BY <1>1 DEF Jumped, Closed
<1>2. CASE Loop
  <2>1. gConn' = gConn /\ lsCache' = lsCache /\ slips' = slips
    BY <1>2 DEF Loop, Quiet
  <2>2. call.cmd = "none" /\ ~WillFlush
    BY <1>2 DEF Loop
  <2>3. call'.cmd = "none"
    BY <1>2, <2>2, LeaveSteps DEF Loop
  <2> QED
    BY <2>1, <2>2, <2>3 DEF Cached
<1>3. CASE LineDone
  BY <1>3 DEF LineDone, Same, Quiet
<1>4. CASE NotDone
  BY <1>4 DEF NotDone, Same, Quiet
<1>5. CASE DoCommand
  BY <1>5 DEF DoCommand, FirstStep, Unconnected
<1>6. CASE End
  BY <1>6 DEF End, Same, Quiet
<1>7. CASE SubShell
  BY <1>7 DEF SubShell, Same, Quiet
<1>8. CASE Say
  <2>1. PICK did \in BOOLEAN :
          /\ did => Changes
          /\ call' = [call EXCEPT !.said = TRUE, !.did = did, !.reset = @ \/ call.step = "start"]
          /\ lsCache' = IF did /\ lsCache = "fresh" THEN "stale" ELSE lsCache
          /\ slips' = IF did /\ lsCache = "fresh" /\ call.cmd = "quote" THEN slips \cup {"quoted"} ELSE slips
    BY <1>8 DEF Say, Sent
  <2>2. prog' = prog /\ gConn'.up = gConn.up /\ ~call.said
    BY <1>8 DEF Say, Sent
  <2>3. call'.cmd = call.cmd /\ call'.step = call.step /\ call'.said /\ call'.did = did
    BY <2>1
  <2>4. CASE did /\ lsCache = "fresh"
    <3>1. prog.at = "cmd"
      BY <2>1, <2>4 DEF Changes, Places
    <3>2. call.cmd \in {"rm", "mv", "quote", "getDD", "put"} /\ call.step # "end" /\ call.cmd # "open"
      BY <2>1, <2>4, <3>1 DEF Changes, CommandNames, Transfers, Paging
    <3>3. call.cmd = "mv" => call.step = "ask"
      BY <2>1, <2>4, <3>1 DEF Changes
    <3> QED
      BY <2>1, <2>2, <2>3, <2>4, <3>1, <3>2, <3>3
  <2>5. CASE ~(did /\ lsCache = "fresh")
    BY <2>1, <2>2, <2>3, <2>5
  <2> QED
    BY <2>4, <2>5
<1>9. CASE Hear
  <2>1. PICK ok \in BOOLEAN :
          /\ GoesOn(ok) /\ ((call.cmd = "mv" /\ call.step = "ask") => (ok <=> call.did))
          /\ slips' \cap CacheSlips = slips \cap CacheSlips
    BY <1>9 DEF Hear
  <2>2. gConn.up /\ call.step \in Asks /\ lsCache' = lsCache
    BY <1>9, <2>1 DEF Hear, GoesOn
  <2>3. call'.cmd = call.cmd /\ call'.step = After(ok) /\ (prog.at = "cmd" => prog'.at = "cmd")
    BY <2>1, GoesOnSteps
  <2>4. WillFlush => WillFlush'
    BY <2>1, <2>2, <2>3, AfterFlushes DEF Asks
  <2> QED
    BY <2>1, <2>2, <2>3, <2>4 DEF Cached
<1>10. CASE Lost
  <2>1. call'.cmd = call.cmd /\ lsCache' = lsCache
    BY <1>10, GoesOnSteps DEF Lost, GoesOn
  <2>2. ~gConn'.up
    BY <1>10 DEF Lost, Closed
  <2> QED
    BY <2>1, <2>2 DEF Cached
<1>11. CASE DataEnds
  BY <1>11 DEF DataEnds, Same, Quiet
<1>12. CASE LocalGlob
  BY <1>12 DEF LocalGlob, Same, Quiet
<1>13. CASE NextFile
  BY <1>13 DEF NextFile, Same, Quiet
<1>14. CASE FileDone
  BY <1>14 DEF FileDone, Same, Quiet
<1>15. CASE ArgDone
  BY <1>15 DEF ArgDone, Same, Quiet
<1>16. CASE Unwind
  BY <1>16 DEF Unwind, Same, Quiet
<1>17. CASE Flush
  BY <1>17 DEF Flush, CacheSlips
<1>18. CASE Output
  BY <1>18 DEF Output, Same, Quiet
<1>19. CASE OpenPager
  BY <1>19 DEF OpenPager, Same, Quiet
<1>20. CASE ClosePager
  BY <1>20 DEF ClosePager, Same, Quiet
<1>21. CASE PagerEnds
  BY <1>21 DEF PagerEnds, Same, Quiet
<1>22. CASE Restore
  BY <1>22 DEF Restore, Same, Quiet
<1>23. CASE Cancelled
  BY <1>23 DEF Cancelled, Same, Quiet
<1>24. CASE Question
  BY <1>24 DEF Question, Same, Quiet
<1>25. CASE Dial
  BY <1>25 DEF Dial, Same, Quiet
<1>26. CASE ReadLine
  BY <1>26 DEF ReadLine, Same, Quiet
<1>27. CASE EndOfInput
  <2>1. gConn' = gConn /\ lsCache' = lsCache /\ slips' = slips
    BY <1>27 DEF EndOfInput, Quiet
  <2>2. call'.cmd # "open" /\ ~WillFlush
    BY <1>27, LeaveSteps DEF EndOfInput
  <2> QED
    BY <2>1, <2>2 DEF Cached
<1>28. CASE Press
  <2>1. gConn' = gConn /\ lsCache' = lsCache
    BY <1>28 DEF Press
  <2>2. CASE BackToTop
    BY <2>1, <2>2 DEF BackToTop, ToTop, Spoils
  <2>4. CASE XferCanceller
    <3>1. CASE flags.cancelXfer > 0
      <4>1. call' = Idle /\ slips' = slips \cup (Spoils("jumped") \ SessionSlips)
        BY <2>4, <3>1 DEF XferCanceller, ToTop
      <4>2. lsCache = "stale" => "unflushed" \in slips'
        BY <4>1 DEF Spoils
      <4> QED
        BY <2>1, <4>1, <4>2 DEF Cached
    <3>2. CASE ~(flags.cancelXfer > 0)
      BY <2>1, <2>4, <3>2 DEF XferCanceller
    <3> QED
      BY <3>1, <3>2
  <2>3. CASE Cancel
    BY <1>28, <2>1, <2>3 DEF Cancel, Spoils
  <2> QED
    BY <1>28, <2>1, <2>2, <2>3, <2>4 DEF Press
<1>29. CASE PagerQuits
  BY <1>29, ZenonT(40) DEF PagerQuits, Cancel
<1> QED
  BY <1>1, <1>2, <1>3, <1>4, <1>5, <1>6, <1>7, <1>8, <1>9, <1>10, <1>11, <1>12, <1>13, <1>14, <1>15, <1>16, <1>17, <1>18, <1>19, <1>20, <1>21, <1>22, <1>23, <1>24, <1>25, <1>26, <1>27, <1>28, <1>29 DEF ShNext, Program

LEMMA PagerKept == ShTypes /\ OnPath /\ Watched /\ PagerFits /\ ShNext => PagerFits'
<1> SUFFICES ASSUME ShTypes, OnPath, Watched, PagerFits, ShNext PROVE PagerFits'
  OBVIOUS
<1>0. /\ gConn \in ConnType /\ call \in CallType /\ prog \in ProgType /\ flags \in FlagsType
      /\ pressed \in PressType
  BY DEF ShTypes
<1> USE <1>0 DEF PagerFits, CallType, ProgType, Pagers, Idle, In, Go, OnPath, StepsOf, Asks, Transfers, Paging, CommandNames, SessionSlips, CacheSlips
<1>1. CASE Jumped
  BY <1>1 DEF Jumped, Closed
<1>2. CASE Loop
  <2>1. pager' = pager /\ slips' = slips /\ prog'.at # "cmd"
    BY <1>2, LeaveSteps DEF Loop, Quiet
  <2> QED
    BY <2>1 DEF PagerFits
<1>3. CASE LineDone
  BY <1>3 DEF LineDone, Same, Quiet
<1>4. CASE NotDone
  BY <1>4 DEF NotDone, Same, Quiet
<1>5. CASE DoCommand
  BY <1>5 DEF DoCommand, FirstStep, Unconnected
<1>6. CASE End
  BY <1>6 DEF End, Same, Quiet
<1>7. CASE SubShell
  BY <1>7 DEF SubShell, Same, Quiet
<1>8. CASE Say
  BY <1>8 DEF Say, Sent
<1>9. CASE Hear
  BY <1>9 DEF Hear, GoesOn, After, FileOver
<1>10. CASE Lost
  BY <1>10 DEF Lost, GoesOn, After, FileOver
<1>11. CASE DataEnds
  BY <1>11 DEF DataEnds, Same, Quiet
<1>12. CASE LocalGlob
  BY <1>12 DEF LocalGlob, Same, Quiet
<1>13. CASE NextFile
  BY <1>13 DEF NextFile, Same, Quiet
<1>14. CASE FileDone
  BY <1>14 DEF FileDone, Same, Quiet
<1>15. CASE ArgDone
  BY <1>15 DEF ArgDone, Same, Quiet
<1>16. CASE Unwind
  BY <1>16 DEF Unwind, Same, Quiet
<1>17. CASE Flush
  BY <1>17 DEF Flush, CacheSlips
<1>18. CASE Output
  BY <1>18 DEF Output, Same, Quiet
<1>19. CASE OpenPager
  BY <1>19 DEF OpenPager, Same, Quiet
<1>20. CASE ClosePager
  BY <1>20 DEF ClosePager, Same, Quiet
<1>21. CASE PagerEnds
  BY <1>21 DEF PagerEnds, Same, Quiet
<1>22. CASE Restore
  BY <1>22 DEF Restore, Same, Quiet
<1>23. CASE Cancelled
  BY <1>23 DEF Cancelled, Same, Quiet
<1>24. CASE Question
  BY <1>24 DEF Question, Same, Quiet
<1>25. CASE Dial
  BY <1>25 DEF Dial, Same, Quiet
<1>26. CASE ReadLine
  BY <1>26 DEF ReadLine, Same, Quiet
<1>27. CASE EndOfInput
  <2>1. pager' = pager /\ slips' = slips /\ prog'.at # "cmd"
    BY <1>27, LeaveSteps DEF EndOfInput, Quiet
  <2> QED
    BY <2>1 DEF PagerFits
<1>28. CASE Press
  <2>1. pager' = pager /\ slips \subseteq slips'
    BY <1>28, CancelSlips DEF Press, BackToTop, XferCanceller
  <2>2. \/ prog'.at # "cmd"
        \/ prog' = prog /\ call' = call
        \/ prog' = prog /\ call'.step = "cancelled" /\ call'.cmd = call.cmd
    BY <1>28, PressSteps
  <2> QED
    BY <2>1, <2>2 DEF PagerFits
<1>29. CASE PagerQuits
  BY <1>29 DEF PagerQuits, Cancel
<1> QED
  BY <1>1, <1>2, <1>3, <1>4, <1>5, <1>6, <1>7, <1>8, <1>9, <1>10, <1>11, <1>12, <1>13, <1>14, <1>15, <1>16, <1>17, <1>18, <1>19, <1>20, <1>21, <1>22, <1>23, <1>24, <1>25, <1>26, <1>27, <1>28, <1>29 DEF ShNext, Program

LEMMA AfterFileOver ==
  ASSUME call.cmd \in Transfers, call.step \in {"start", "post", "dele"}, NEW ok \in BOOLEAN
  PROVE  \/ After(ok) \in {"data", "dele", "filedone"}
         \/ call.cmd = "getAs" /\ After(ok) = "unwind"
<1>1. FileOver = IF call.cmd = "getAs" THEN "unwind" ELSE "filedone"
  BY DEF FileOver, Transfers
<1> HIDE DEF FileOver
<1> QED
  BY <1>1 DEF After, Transfers

LEMMA XferAtTransfer ==
  ASSUME Watched, prog.at = "cmd", handler = "xfer"
  PROVE  call.cmd \in Transfers
BY DEF Watched, Paging

LEMMA RemembersOn ==
  ASSUME ShTypes, OnPath, Wired, Remembers, NEW ok \in BOOLEAN, GoesOn(ok), call.step \in Asks, ok => call.said,
         pressed' = pressed
  PROVE  Remembers'
<1>1. flags \in FlagsType /\ pressed \in PressType
  BY DEF ShTypes
<1>2. \/ flags'.cancelXfer = 0
      \/ flags' = flags /\ ~(call.step = "glob" /\ ok)
  BY <1>1 DEF GoesOn, FlagsType
<1>3. /\ call'.cmd = call.cmd /\ call'.step = After(ok) /\ call'.said = FALSE
      /\ call'.reset => call.reset \/ (call.step = "glob" /\ ok)
      /\ prog.at = "cmd" => prog'.at = "cmd"
  <2>1. call.reset \in BOOLEAN /\ (call.reset \/ (call.step = "glob" /\ ok)) \in BOOLEAN
    BY DEF ShTypes, CallType
  <2> QED
    BY <2>1, GoesOnSteps
<1>4. After(ok) = "data" => call.step = "start" /\ ok
  BY AfterSteps
<1>5. After(ok) # "post"
  BY AfterSteps
<1>6. flags'.cancelXfer > 0 /\ call'.reset => pressed'.here >= 1
  BY <1>1, <1>2, <1>3 DEF Remembers
<1>7. flags'.cancelXfer > 0 /\ call'.step = "data" => pressed'.since >= 1
  BY <1>2, <1>3, <1>4 DEF Remembers
<1>8. pressed.stop => /\ prog'.at = "cmd" /\ call'.cmd \in Transfers
                      /\ \/ call.cmd = "getAs" /\ After(ok) \in {"unwind", "end"}
                         \/ flags'.cancelXfer > 0 /\ After(ok) \in {"data", "dele", "filedone"}
  <2> SUFFICES ASSUME pressed.stop
               PROVE  /\ prog'.at = "cmd" /\ call'.cmd \in Transfers
                      /\ \/ call.cmd = "getAs" /\ After(ok) \in {"unwind", "end"}
                         \/ flags'.cancelXfer > 0 /\ After(ok) \in {"data", "dele", "filedone"}
    OBVIOUS
  <2>1. prog.at = "cmd" /\ call.cmd \in Transfers /\ call.step \in {"start", "post", "dele"}
        /\ flags.cancelXfer > 0
    BY DEF Remembers, Asks
  <2>2. flags' = flags
    BY <2>1 DEF GoesOn
  <2> QED
    BY <1>3, <2>1, <2>2, AfterFileOver
<1> QED
  BY <1>3, <1>5, <1>6, <1>7, <1>8 DEF Remembers

LEMMA RemembersKept == ShTypes /\ OnPath /\ Watched /\ Wired /\ Remembers /\ ShNext => Remembers'
<1> SUFFICES ASSUME ShTypes, OnPath, Watched, Wired, Remembers, ShNext PROVE Remembers'
  OBVIOUS
<1>0. /\ gConn \in ConnType /\ call \in CallType /\ prog \in ProgType /\ flags \in FlagsType
      /\ pressed \in PressType
  BY DEF ShTypes
<1> USE <1>0 DEF Remembers, Wired, CallType, ProgType, FlagsType, PressType, Idle, In, Go, OnPath, StepsOf, Transfers
<1>1. CASE Jumped
  BY <1>1 DEF Jumped, Closed
<1>2. CASE Loop
  BY <1>2 DEF Loop, Leave
<1>3. CASE LineDone
  BY <1>3 DEF LineDone, Same, Quiet
<1>4. CASE NotDone
  BY <1>4 DEF NotDone, Same, Quiet
<1>5. CASE DoCommand
  BY <1>5 DEF DoCommand, FirstStep, Unconnected
<1>6. CASE End
  BY <1>6 DEF End, Same, Quiet
<1>7. CASE SubShell
  BY <1>7 DEF SubShell, Same, Quiet
<1>8. CASE Say
  BY <1>8 DEF Say, Sent
<1>9. CASE Hear
  <2>1. PICK ok \in BOOLEAN : GoesOn(ok)
    BY <1>9 DEF Hear
  <2>2. pressed' = pressed /\ call.step \in Asks /\ call.said
    BY <1>9 DEF Hear
  <2> QED
    BY <2>1, <2>2, RemembersOn
<1>10. CASE Lost
  BY <1>10, RemembersOn DEF Lost
<1>11. CASE DataEnds
  BY <1>11 DEF DataEnds, Same, Quiet
<1>12. CASE LocalGlob
  BY <1>12 DEF LocalGlob, Same, Quiet
<1>13. CASE NextFile
  BY <1>13, ZenonT(40) DEF NextFile, Same, Quiet
<1>14. CASE FileDone
  BY <1>14 DEF FileDone, Same, Quiet
<1>15. CASE ArgDone
  BY <1>15 DEF ArgDone, Same, Quiet
<1>16. CASE Unwind
  BY <1>16 DEF Unwind, Same, Quiet
<1>17. CASE Flush
  BY <1>17 DEF Flush, CacheSlips
<1>18. CASE Output
  BY <1>18 DEF Output, Same, Quiet
<1>19. CASE OpenPager
  BY <1>19 DEF OpenPager, Same, Quiet
<1>20. CASE ClosePager
  BY <1>20 DEF ClosePager, Same, Quiet
<1>21. CASE PagerEnds
  BY <1>21 DEF PagerEnds, Same, Quiet
<1>22. CASE Restore
  BY <1>22 DEF Restore, Same, Quiet
<1>23. CASE Cancelled
  BY <1>23 DEF Cancelled, Same, Quiet
<1>24. CASE Question
  BY <1>24 DEF Question, Same, Quiet
<1>25. CASE Dial
  BY <1>25 DEF Dial, Same, Quiet
<1>26. CASE ReadLine
  BY <1>26 DEF ReadLine, Same, Quiet
<1>27. CASE EndOfInput
  BY <1>27 DEF EndOfInput, Leave
<1>28. CASE Press
  <2>1. CASE BackToTop
    BY <1>28, <2>1 DEF Press, BackToTop, ToTop
  <2>2. CASE XferCanceller /\ flags.cancelXfer > 0
    BY <1>28, <2>2 DEF Press, XferCanceller, ToTop
  <2>3. CASE XferCanceller /\ ~(flags.cancelXfer > 0)
    BY <1>28, <2>3, XferAtTransfer DEF Press, XferCanceller, Heeded
  <2>4. CASE Cancel
    BY <1>28, <2>4, PressSteps DEF Press, Cancel, Watched
  <2>5. CASE handler = "ignore"
    BY <1>28, <2>5, PressSteps DEF Press, BackToTop, XferCanceller, Cancel
  <2> QED
    BY <1>28, <2>1, <2>2, <2>3, <2>4, <2>5 DEF Press
<1>29. CASE PagerQuits
  <2>1. handler = "cancel" /\ flags'.cancelXfer = flags.cancelXfer /\ call'.reset = call.reset
    BY <1>29 DEF PagerQuits, Cancel
  <2>2. ~pressed.stop
    BY <2>1 DEF Watched
  <2> QED
    BY <1>29, <2>1, <2>2, QuitsSteps
<1> QED
  BY <1>1, <1>2, <1>3, <1>4, <1>5, <1>6, <1>7, <1>8, <1>9, <1>10, <1>11, <1>12, <1>13, <1>14, <1>15, <1>16, <1>17, <1>18, <1>19, <1>20, <1>21, <1>22, <1>23, <1>24, <1>25, <1>26, <1>27, <1>28, <1>29 DEF ShNext, Program
-----------------------------------------------------------------------------
LEMMA ShInvInit == ShInit => ShInv
<1> SUFFICES ASSUME ShInit PROVE ShInv
  OBVIOUS
<1> USE DEF ShInit
<1>1. ShTypes
  <2>1. gConn \in ConnType /\ call \in CallType
    BY IdleTyped DEF ConnType, Closed
  <2>2. prog \in ProgType /\ flags \in FlagsType /\ pressed \in PressType
    BY DEF ProgType, FlagsType, PressType, Places
  <2> QED
    BY <2>1, <2>2 DEF ShTypes, Handlers, Pagers, Caches
<1>2. OnPath /\ Watched
  BY DEF OnPath, Watched
<1>3. Wired /\ Counted /\ InStep
  BY ShAssumption DEF Wired, Counted, InStep, Due, Idle, Closed, Asks
<1>4. Cached /\ PagerFits /\ Remembers
  BY DEF Cached, PagerFits, Remembers, Idle
<1> QED
  BY <1>1, <1>2, <1>3, <1>4 DEF ShInv

LEMMA ShInvKept == ShInv /\ [ShNext]_shvars => ShInv'
<1> SUFFICES ASSUME ShInv, [ShNext]_shvars PROVE ShInv'
  OBVIOUS
<1>1. CASE ShNext
  BY <1>1, TypesKept, PathKept, WatchKept, WiredKept, CountedKept, InStepKept, CachedKept, PagerKept,
     RemembersKept DEF ShInv
<1>2. CASE UNCHANGED shvars
  <2>1. ShTypes'
    BY <1>2 DEF ShInv, shvars, ShTypes
  <2>2. OnPath'
    BY <1>2 DEF ShInv, shvars, OnPath
  <2>3. Watched'
    BY <1>2 DEF ShInv, shvars, Watched
  <2>4. Wired'
    BY <1>2 DEF ShInv, shvars, Wired
  <2>5. Counted'
    BY <1>2 DEF ShInv, shvars, Counted, Due
  <2>6. InStep'
    BY <1>2 DEF ShInv, shvars, InStep, Due, Excused
  <2>7. Cached'
    BY <1>2 DEF ShInv, shvars, Cached, WillFlush
  <2>8. PagerFits'
    BY <1>2 DEF ShInv, shvars, PagerFits
  <2>9. Remembers'
    BY <1>2 DEF ShInv, shvars, Remembers
  <2> QED
    BY <2>1, <2>2, <2>3, <2>4, <2>5, <2>6, <2>7, <2>8, <2>9 DEF ShInv
<1> QED
  BY <1>1, <1>2

LEMMA ShInvGives ==
  ASSUME ShInv
  PROVE  ShTypeOK /\ Settled /\ CacheFresh /\ HandlerFits /\ PagerOnce
<1> USE DEF ShInv
<1>1. ShTypeOK
  <2>1. gConn.owed \in Int /\ pressed.all \in Nat /\ Due \in {0, 1}
    BY DEF ShTypes, ConnType, PressType, Due
  <2>2. gConn.up \/ (gConn.owed = 0 /\ ~gConn.in)
    BY DEF Wired, Closed
  <2>3. gConn.owed >= 0 /\ gConn.owed <= MaxPresses + 1
    BY <2>1, <2>2, ShAssumption DEF Counted
  <2>4. gConn.owed \in 0..MaxPresses + 1 /\ (gConn.in => gConn.up)
    BY <2>1, <2>2, <2>3, ShAssumption
  <2>5. (call.step # "none") <=> prog.at \in {"cmd", "closing", "exit"}
    BY DEF OnPath, ShTypes, ProgType, Places, Idle, StepsOf
  <2>6. flags.cancelXfer \in 0..1 /\ (flags.cancelCtrl => prog.at = "jump")
    BY DEF ShTypes, FlagsType, Wired
  <2>7. prog.at \in {"loop", "line", "next", "cmd", "jump", "closing", "exit"}
    BY DEF ShTypes, ProgType, Places
  <2> QED
    BY <2>4, <2>5, <2>6, <2>7 DEF ShTypeOK
<1>2. Settled
  <2> SUFFICES ASSUME prog.at = "line", Unsettled, ~Excused
               PROVE  FALSE
    BY DEF Settled, Excused
  <2>1. call.step = "none" /\ Due = 0 /\ ~flags.cancelCtrl
    BY DEF OnPath, Idle, Due, Asks, Wired
  <2>2. gConn.up /\ (~gConn.in \/ gConn.owed > 0 \/ gConn.data)
    BY DEF Unsettled
  <2>3. gConn.in /\ gConn.owed <= 0 /\ ~gConn.data
    BY <2>1, <2>2 DEF InStep
  <2>4. gConn.owed \in Int
    BY DEF ShTypes, ConnType
  <2> QED
    BY <2>2, <2>3, <2>4
<1>3. CacheFresh
  BY DEF Cached, CacheFresh, WillFlush
<1>4. HandlerFits
  BY DEF Watched, HandlerFits, ShTypes, ProgType, Places, OnPath, CommandNames
<1>5. PagerOnce
  BY DEF PagerFits, PagerOnce
<1> QED
  BY <1>1, <1>2, <1>3, <1>4, <1>5

LEMMA OnlyTheSecond ==
  ASSUME ShTypes, ShNext, ~flags.cancelCtrl, flags'.cancelCtrl
  PROVE  flags.cancelXfer > 0
<1>0. flags \in FlagsType
  BY DEF ShTypes
<1> USE <1>0 DEF FlagsType, Same, Quiet
<1>1. CASE Jumped
  BY <1>1 DEF Jumped
<1>2. CASE Loop
  BY <1>2 DEF Loop
<1>3. CASE LineDone
  BY <1>3 DEF LineDone
<1>4. CASE NotDone
  BY <1>4 DEF NotDone
<1>5. CASE DoCommand
  BY <1>5 DEF DoCommand
<1>6. CASE End
  BY <1>6 DEF End
<1>7. CASE SubShell
  BY <1>7 DEF SubShell
<1>8. CASE Say
  BY <1>8 DEF Say, Sent
<1>9. CASE Hear
  BY <1>9 DEF Hear, GoesOn
<1>10. CASE Lost
  BY <1>10 DEF Lost, GoesOn
<1>11. CASE DataEnds
  BY <1>11 DEF DataEnds
<1>12. CASE LocalGlob
  BY <1>12 DEF LocalGlob
<1>13. CASE NextFile
  BY <1>13 DEF NextFile
<1>14. CASE FileDone
  BY <1>14 DEF FileDone
<1>15. CASE ArgDone
  BY <1>15 DEF ArgDone
<1>16. CASE Unwind
  BY <1>16 DEF Unwind
<1>17. CASE Flush
  BY <1>17 DEF Flush
<1>18. CASE Output
  BY <1>18 DEF Output
<1>19. CASE OpenPager
  BY <1>19 DEF OpenPager
<1>20. CASE ClosePager
  BY <1>20 DEF ClosePager
<1>21. CASE PagerEnds
  BY <1>21 DEF PagerEnds
<1>22. CASE Restore
  BY <1>22 DEF Restore
<1>23. CASE Cancelled
  BY <1>23 DEF Cancelled
<1>24. CASE Question
  BY <1>24 DEF Question
<1>25. CASE Dial
  BY <1>25 DEF Dial
<1>26. CASE ReadLine
  BY <1>26 DEF ReadLine
<1>27. CASE EndOfInput
  BY <1>27 DEF EndOfInput
<1>28. CASE Press
  BY <1>28 DEF Press, BackToTop, XferCanceller, Cancel
<1>29. CASE PagerQuits
  BY <1>29 DEF PagerQuits, Cancel
<1> QED
  BY <1>1, <1>2, <1>3, <1>4, <1>5, <1>6, <1>7, <1>8, <1>9, <1>10, <1>11, <1>12, <1>13, <1>14, <1>15, <1>16, <1>17, <1>18, <1>19, <1>20, <1>21, <1>22, <1>23, <1>24, <1>25, <1>26, <1>27, <1>28, <1>29 DEF ShNext, Program

(* Whatever the user types and wherever a ^C falls: the session is in step *)
(* at the prompt unless a command was jumped out of, the cache tells the   *)
(* truth about our own commands, SIGINT is handled by what runs, a pager   *)
(* is closed once, a session is closed by the second ^C only, and one ^C   *)
(* ends the argument (shell.c, cmds.c, main.c, ls.c).                      *)
THEOREM ShellIsSafe == ShSpec => ShellSafe
<1>1. ShInv /\ [ShNext]_shvars =>
        [~flags.cancelCtrl /\ flags'.cancelCtrl =>
           IF call.step \in {"data", "post"} THEN pressed.since >= 1
           ELSE pressed.here >= 1 \/ ~call.reset]_shvars
  BY OnlyTheSecond DEF ShInv, Remembers
<1>2. ShInv /\ [ShNext]_shvars =>
        [pressed.stop => ~(call.step = "file" /\ call'.step = "probe")]_shvars
  BY DEF ShInv, Remembers
<1> QED
  BY <1>1, <1>2, ShInvInit, ShInvKept, ShInvGives, PTL DEF ShSpec, ShellSafe, TwoToClose, StopsArgument
=============================================================================
