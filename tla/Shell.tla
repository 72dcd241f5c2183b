-------------------------------- MODULE Shell --------------------------------
(***************************************************************************)
(* The command shell of ncftp: CommandShell's loop, the commands that talk *)
(* to the server, and the three signal handlers a ^C can come to at any    *)
(* step of them: BackToTop (give the command up), XferCanceller (stop the  *)
(* transfer; at the second, close the session) and Cancel (close the       *)
(* pager).  All three may leave by siglongjmp.                             *)
(*                                                                         *)
(* Of the session the module keeps what a command that is left in the      *)
(* middle can spoil: replies that are owed, the data connection, and       *)
(* whether the ls cache still tells the truth about what our own commands  *)
(* changed.  FtpSession has the protocol itself.                           *)
(***************************************************************************)
EXTENDS Integers, Sequences

CONSTANTS
  MaxPresses, \* bound: ^C typed, and pagers left, by the user
  MaxArgs,    \* bound: arguments of get and put
  MaxFiles,   \* bound: files an argument stands for
  Typed       \* the lines the user types: sequences of commands

Transfers    == {"get", "getDD", "getAs", "put"}
Paging       == {"pls", "more"}
CommandNames == Transfers \cup Paging
                \cup {"rm", "mv", "quote", "ls", "open", "close", "quit", "shell"}

ASSUME ShAssumption == /\ MaxPresses \in Nat /\ MaxArgs \in Nat /\ MaxFiles \in Nat
                       /\ Typed \subseteq Seq(CommandNames \cup {"huh"})

VARIABLES
  gConn,    \* connected, loggedIn, replies owed, dataSocket open
  prog,     \* where CommandShell is, and what is left of the line
  call,     \* the command that runs and its step
  handler,  \* of SIGINT: top, xfer, cancel or ignore
  flags,    \* gRunningCommand, cancelXfer, gCancelCtrl, gDoneApplication, gMayCancelJmp
  pager,    \* none, open, closing, closed, or closed twice
  lsCache,  \* none, fresh, or stale by what we did ourselves
  pressed,  \* history: ^Cs in all, in this command, of them since cancelXfer was reset
  slips     \* history: what spoils this session or this cache
shvars == <<gConn, prog, call, handler, flags, pager, lsCache, pressed, slips>>

Unconnected == {"open", "quit", "shell"}
Asks        == {"ask", "glob", "probe", "start", "post", "dele", "bye", "login"}

SessionSlips == {"jumped", "cancelled"}
CacheSlips   == {"unflushed", "quoted"}

Closed == [up |-> FALSE, in |-> FALSE, owed |-> 0, data |-> FALSE]
Idle   == [cmd |-> "none", step |-> "none", said |-> FALSE, did |-> FALSE,
           args |-> 0, files |-> 0, reset |-> FALSE]

ShInit == /\ gConn = Closed /\ prog = [at |-> "loop", line |-> <<>>] /\ call = Idle
          /\ handler = "top" /\ pager = "none" /\ lsCache = "none" /\ slips = {}
          /\ flags = [running |-> FALSE, cancelXfer |-> 0, cancelCtrl |-> FALSE,
                      done |-> FALSE, mayCancel |-> FALSE]
          /\ pressed = [all |-> 0, here |-> 0, since |-> 0, stop |-> FALSE]
-----------------------------------------------------------------------------
(* The handlers.  To leave a command is to leave whatever it had under way. *)
Unsettled == gConn.up /\ (~gConn.in \/ gConn.owed > 0 \/ gConn.data)
Spoils(how) == (IF Unsettled THEN {how} ELSE {}) \cup (IF lsCache = "stale" THEN {"unflushed"} ELSE {})

ToTop == prog' = [at |-> "jump", line |-> <<>>] /\ call' = Idle

BackToTop ==
  /\ handler = "top"
  /\ flags' = [flags EXCEPT !.done = @ \/ ~flags.running]
  /\ ToTop /\ slips' = slips \cup Spoils("jumped")

(* The second ^C jumps, and only then CommandShell sees gCancelCtrl.       *)
XferCanceller ==
  /\ handler = "xfer"
  /\ IF flags.cancelXfer > 0
       THEN /\ flags' = [flags EXCEPT !.cancelCtrl = TRUE] /\ ToTop
            /\ slips' = slips \cup (Spoils("jumped") \ SessionSlips)
       ELSE flags' = [flags EXCEPT !.cancelXfer = 1] /\ UNCHANGED <<prog, call, slips>>

Cancel ==
  /\ handler = "cancel"
  /\ IF flags.mayCancel
       THEN /\ flags' = [flags EXCEPT !.mayCancel = FALSE]
            /\ call' = [call EXCEPT !.step = "cancelled", !.said = FALSE]
            /\ slips' = slips \cup Spoils("cancelled")
       ELSE UNCHANGED <<flags, call, slips>>
  /\ UNCHANGED prog

(* The phases of a transfer after FTPStartDataCmd has cleared cancelXfer,  *)
(* in which the loops look at it before it is cleared again.               *)
Heeded == call.step \in {"data", "post", "dele", "filedone"} \/ (call.step = "start" /\ call.said)

Press ==
  /\ pressed.all < MaxPresses /\ prog.at # "exit"
  /\ BackToTop \/ XferCanceller \/ Cancel \/ (handler = "ignore" /\ UNCHANGED <<flags, prog, call, slips>>)
  /\ pressed' = [all |-> pressed.all + 1, here |-> pressed.here + 1, since |-> pressed.since + 1,
                 stop |-> prog'.at = "cmd" /\ (pressed.stop \/ (handler = "xfer" /\ Heeded))]
  /\ UNCHANGED <<gConn, handler, pager, lsCache>>

(* The user leaves the pager while we write to it: SIGPIPE.                *)
PagerQuits ==
  /\ pressed.all < MaxPresses /\ pager = "open" /\ call.step \in {"print", "data"} /\ Cancel
  /\ pressed' = [pressed EXCEPT !.all = @ + 1]
  /\ UNCHANGED <<gConn, handler, pager, lsCache>>
-----------------------------------------------------------------------------
(* CommandShell.                                                           *)
Quiet == UNCHANGED <<gConn, pager, lsCache, slips>>

(* sigsetjmp has returned a second time.                                   *)
Jumped ==
  /\ prog.at = "jump" /\ prog' = [prog EXCEPT !.at = "loop"]
  /\ flags' = [flags EXCEPT !.cancelCtrl = FALSE]
  /\ IF flags.cancelCtrl THEN gConn' = Closed /\ slips' = slips \ SessionSlips
                         ELSE UNCHANGED <<gConn, slips>>
  /\ pressed' = [pressed EXCEPT !.here = 0, !.stop = FALSE]
  /\ UNCHANGED <<call, handler, pager, lsCache>>

Leave == prog' = [at |-> "closing", line |-> <<>>] /\ call' = [Idle EXCEPT !.step = "question"]

(* A defect to be caught: the loop does not look.                          *)
LoopForEver == /\ prog.at = "loop" /\ prog' = [prog EXCEPT !.at = "line"] /\ handler' = "top"
               /\ Quiet /\ UNCHANGED <<call, flags, pressed>>

Loop == /\ prog.at = "loop"
        /\ IF flags.done THEN Leave /\ UNCHANGED handler
           ELSE prog' = [prog EXCEPT !.at = "line"] /\ handler' = "top" /\ UNCHANGED call
        /\ Quiet /\ UNCHANGED <<flags, pressed>>

ReadLine == /\ prog.at = "line" /\ \E l \in Typed : prog' = [at |-> "next", line |-> l]
            /\ Quiet /\ UNCHANGED <<call, handler, flags, pressed>>

EndOfInput == prog.at = "line" /\ Leave /\ Quiet /\ UNCHANGED <<handler, flags, pressed>>

LineDone == /\ prog.at = "next" /\ prog.line = <<>> /\ prog' = [prog EXCEPT !.at = "loop"]
            /\ Quiet /\ UNCHANGED <<call, handler, flags, pressed>>

(* DoCommand: an unknown command ends the line, one that cannot be done    *)
(* now does not.                                                           *)
NotDone ==
  /\ prog.at = "next" /\ prog.line # <<>>
  /\ LET c == Head(prog.line) IN
       /\ c = "huh" \/ (~gConn.up /\ c \notin Unconnected)
       /\ prog' = IF c = "huh" THEN [at |-> "loop", line |-> <<>>] ELSE [prog EXCEPT !.line = Tail(@)]
  /\ flags' = [flags EXCEPT !.running = FALSE]
  /\ Quiet /\ UNCHANGED <<call, handler, pressed>>

FirstStep(c) ==
  CASE c \in {"rm", "mv", "quote"} -> "ask"
    [] c = "ls" -> IF lsCache = "none" THEN "start" ELSE "print"
    [] c \in Paging -> "pager"
    [] c \in {"get", "getDD"} -> "glob"
    [] c = "put" -> "local"
    [] c = "getAs" -> "probe"
    [] c \in {"open", "close"} -> IF gConn.in THEN "question" ELSE IF gConn.up THEN "bye" ELSE "dial"
    [] c = "quit" -> "end"
    [] OTHER -> "shell"

DoCommand ==
  /\ prog.at = "next" /\ prog.line # <<>>
  /\ LET c == Head(prog.line) IN
       /\ c # "huh" /\ (gConn.up \/ c \in Unconnected)
       /\ prog' = [at |-> "cmd", line |-> Tail(prog.line)]
       /\ \E n \in 1..MaxArgs :
            /\ n = 1 \/ c \in {"get", "getDD", "put"}
            /\ call' = [Idle EXCEPT !.cmd = c, !.step = FirstStep(c), !.args = n]
       /\ flags' = [flags EXCEPT !.running = TRUE, !.done = @ \/ c = "quit"]
       /\ handler' = CASE c \in Transfers -> "xfer" [] c = "shell" -> "ignore" [] OTHER -> handler
       /\ lsCache' = IF c = "open" THEN "none" ELSE lsCache
       /\ slips' = IF c = "open" THEN slips \ CacheSlips ELSE slips
  /\ pressed' = [pressed EXCEPT !.here = 0, !.since = 0, !.stop = FALSE]
  /\ UNCHANGED <<gConn, pager>>

In(step)  == prog.at \in {"cmd", "closing"} /\ call.step = step
Go(step)  == call' = [call EXCEPT !.step = step, !.said = FALSE]
Same      == UNCHANGED <<prog, handler, flags, pressed>>

End == /\ In("end") /\ prog' = [prog EXCEPT !.at = "next"] /\ call' = Idle /\ pager' = "none"
       /\ flags' = [flags EXCEPT !.running = FALSE, !.mayCancel = FALSE]
       /\ pressed' = [pressed EXCEPT !.here = 0, !.stop = FALSE]
       /\ slips' = slips \ {"midclose"} /\ UNCHANGED <<gConn, handler, lsCache>>

SubShell == In("shell") /\ handler' = "top" /\ Go("end") /\ Quiet /\ UNCHANGED <<prog, flags, pressed>>
-----------------------------------------------------------------------------
(* An exchange with the server: the command is sent and the reply awaited. *)
(* Some change the remote directory; at "start" FTPStartDataCmd forgets    *)
(* what ^C was typed before it.                                            *)
Changes == \/ call.step \in {"ask", "dele"}
           \/ call.step = "start" /\ call.cmd = "put"

Sent(reset) ==
  /\ gConn.up /\ call.step \in Asks /\ ~call.said /\ prog.at \in {"cmd", "closing"}
  /\ gConn' = [gConn EXCEPT !.owed = @ + IF call.step = "post" THEN 0 ELSE 1]
  /\ \E did \in BOOLEAN :
       /\ did => Changes
       /\ call' = [call EXCEPT !.said = TRUE, !.did = did, !.reset = @ \/ call.step = "start"]
       /\ lsCache' = IF did /\ lsCache = "fresh" THEN "stale" ELSE lsCache
       /\ slips' = IF did /\ lsCache = "fresh" /\ call.cmd = "quote" THEN slips \cup {"quoted"} ELSE slips
  /\ flags' = IF reset THEN [flags EXCEPT !.cancelXfer = 0] ELSE flags
  /\ pressed' = IF call.step = "start" THEN [pressed EXCEPT !.since = 0, !.stop = FALSE] ELSE pressed
  /\ UNCHANGED <<prog, handler, pager>>

(* A defect to be caught: a ^C of the file before counts.                  *)
SayKeeps == Sent(FALSE)
Say == Sent(call.step = "start")

(* Where the command goes on when the reply has come, or none will.        *)
FileOver == CASE call.cmd = "getAs" -> "unwind" [] call.cmd \in Transfers \ {"getAs"} -> "filedone"
              [] call.cmd = "ls" -> "end" [] OTHER -> "pclose"
After(ok) ==
  CASE call.step = "ask"   -> IF call.cmd = "rm" \/ (call.cmd = "mv" /\ ok) THEN "flush" ELSE "end"
    [] call.step = "glob"  -> IF ok THEN "file" ELSE "argdone"
    [] call.step = "probe" -> IF ok THEN "start" ELSE FileOver
    [] call.step = "start" -> IF ok THEN "data" ELSE FileOver
    [] call.step = "post"  -> CASE call.cmd = "getDD" /\ ok -> "dele"
                                [] call.cmd \in {"ls", "pls"} /\ ok -> "print"
                                [] OTHER -> FileOver
    [] call.step = "bye"   -> IF call.cmd = "open" THEN "dial" ELSE "end"
    [] call.step = "login" -> "end"
    [] OTHER -> FileOver

(* FTPGetFiles3 clears cancelXfer again after the glob.                    *)
GoesOn(ok) ==
  /\ \E n \in 0..MaxFiles :
       /\ n = 0 \/ (call.step = "glob" /\ ok)
       /\ call' = [call EXCEPT !.step = After(ok), !.said = FALSE,
                               !.files = IF call.step = "glob" THEN n ELSE @,
                               !.reset = @ \/ (call.step = "glob" /\ ok)]
  /\ flags' = IF call.step = "glob" /\ ok THEN [flags EXCEPT !.cancelXfer = 0] ELSE flags
  /\ prog' = IF prog.at = "closing" /\ call.step = "bye" THEN [prog EXCEPT !.at = "exit"] ELSE prog
  /\ UNCHANGED <<handler, pager, lsCache>>

Hear ==
  /\ call.step \in Asks /\ call.said /\ gConn.up
  /\ \E ok \in BOOLEAN :
       /\ (call.cmd = "mv" /\ call.step = "ask") => (ok <=> call.did)
       /\ GoesOn(ok)
       /\ IF call.step = "bye" \/ (call.step = "login" /\ ~ok)
            THEN gConn' = Closed /\ slips' = slips \ SessionSlips
          ELSE /\ gConn' = CASE call.step = "start" /\ ok -> [gConn EXCEPT !.data = TRUE]
                             [] call.step = "login" -> [gConn EXCEPT !.owed = @ - 1, !.in = TRUE]
                             [] OTHER -> [gConn EXCEPT !.owed = @ - 1]
               /\ UNCHANGED slips
  /\ UNCHANGED pressed

(* The connection breaks or the server does not answer in time: the        *)
(* session is shut down and the command has failed.  A further command     *)
(* fails at once.                                                          *)
Lost ==
  /\ call.step \in Asks /\ prog.at \in {"cmd", "closing"} /\ (call.said \/ ~gConn.up)
  /\ gConn' = Closed /\ slips' = slips \ SessionSlips
  /\ GoesOn(FALSE) /\ UNCHANGED pressed

(* The data comes to its end, or the loop sees cancelXfer and aborts.  The *)
(* transfer's final reply is still to come.                                *)
DataEnds == /\ In("data") /\ gConn' = [gConn EXCEPT !.data = FALSE] /\ Go("post")
            /\ Same /\ UNCHANGED <<pager, lsCache, slips>>
-----------------------------------------------------------------------------
(* FTPGetFiles3 and FTPPutFiles3: one file after the other, one argument   *)
(* after the other.                                                        *)
LocalGlob == /\ In("local") /\ \E n \in 1..MaxFiles : call' = [call EXCEPT !.step = "file", !.files = n]
             /\ Quiet /\ Same

NextFile == /\ In("file")
            /\ IF call.files = 0 \/ ~gConn.up THEN Go("argdone")
               ELSE call' = [call EXCEPT !.step = "probe", !.files = @ - 1]
            /\ Quiet /\ Same

FileDone == In("filedone") /\ Go(IF flags.cancelXfer > 0 THEN "argdone" ELSE "file") /\ Quiet /\ Same

ArgDone == /\ In("argdone")
           /\ call' = IF call.args > 1
                        THEN [call EXCEPT !.args = @ - 1, !.step = IF call.cmd = "put" THEN "local" ELSE "glob"]
                      ELSE [call EXCEPT !.step = IF call.cmd = "put" THEN "flush" ELSE "unwind"]
           /\ pressed' = [pressed EXCEPT !.stop = FALSE]
           /\ Quiet /\ UNCHANGED <<prog, handler, flags>>

Unwind == /\ In("unwind") /\ handler' = "top" /\ Go(IF call.cmd = "getDD" THEN "flush" ELSE "end")
          /\ Quiet /\ UNCHANGED <<prog, flags, pressed>>

Flush == /\ In("flush") /\ lsCache' = "none" /\ slips' = slips \ CacheSlips /\ Go("end")
         /\ handler' = "top" /\ UNCHANGED <<gConn, prog, flags, pager, pressed>>

(* Ls: the listing is printed and then kept, unless it is empty.           *)
Output == /\ In("print") /\ Go(IF call.cmd = "ls" THEN "end" ELSE "pclose")
          /\ lsCache' \in (IF lsCache = "none" THEN {"none", "fresh"} ELSE {lsCache})
          /\ Same /\ UNCHANGED <<gConn, pager, slips>>
-----------------------------------------------------------------------------
(* ListCmd with a pager and PageCmd.  A ^C leaves pclose by a jump, after  *)
(* which the same FILE is closed again.                                    *)
OpenPager == /\ In("pager") /\ pager' = "open" /\ handler' = "cancel"
             /\ flags' = [flags EXCEPT !.mayCancel = TRUE]
             /\ Go(CASE call.cmd = "more" -> "probe" [] call.cmd # "more" /\ lsCache = "none" -> "start"
                     [] OTHER -> "print")
             /\ UNCHANGED <<gConn, prog, lsCache, pressed, slips>>

ClosePager == /\ In("pclose") /\ Go("pwait") /\ pager' = IF pager = "open" THEN "closing" ELSE "twice"
              /\ Same /\ UNCHANGED <<gConn, lsCache, slips>>

PagerEnds == /\ In("pwait") /\ pager' = "closed" /\ Go("restore")
             /\ Same /\ UNCHANGED <<gConn, lsCache, slips>>

Restore == /\ In("restore") /\ handler' = "top" /\ Go("end")
           /\ Quiet /\ UNCHANGED <<prog, flags, pressed>>

Cancelled == /\ In("cancelled") /\ pager' = IF pager = "open" THEN "closed" ELSE "twice"
             /\ slips' = IF pager = "open" THEN slips ELSE slips \cup {"midclose"}
             /\ handler' = "top" /\ Go("end") /\ UNCHANGED <<gConn, prog, flags, lsCache, pressed>>
-----------------------------------------------------------------------------
(* CloseHost, which open, close and the end of the shell share, and        *)
(* FTPOpenHost.                                                            *)
Question == In("question") /\ Go("bye") /\ Quiet /\ Same

Dial == /\ In("dial")
        /\ flags' = [flags EXCEPT !.cancelXfer = 0]
        /\ \/ gConn' = [Closed EXCEPT !.up = TRUE] /\ Go("login")
           \/ gConn' = Closed /\ Go("end")
        /\ UNCHANGED <<prog, handler, pager, lsCache, pressed, slips>>

Program == \/ Jumped \/ Loop \/ LineDone \/ NotDone \/ DoCommand \/ End \/ SubShell
           \/ Say \/ Hear \/ Lost \/ DataEnds
           \/ LocalGlob \/ NextFile \/ FileDone \/ ArgDone \/ Unwind \/ Flush \/ Output
           \/ OpenPager \/ ClosePager \/ PagerEnds \/ Restore \/ Cancelled
           \/ Question \/ Dial
ShNext == Program \/ ReadLine \/ EndOfInput \/ Press \/ PagerQuits
ShSpec == ShInit /\ [][ShNext]_shvars
(* The program and the server go on; so does a user who is asked a         *)
(* question or is in the pager, but no one need type a command or a ^C.    *)
ShFair == ShSpec /\ WF_shvars(Program)
-----------------------------------------------------------------------------
ShTypeOK ==
  /\ gConn.owed \in 0..MaxPresses + 1 /\ (gConn.in => gConn.up)
  /\ prog.at \in {"loop", "line", "next", "cmd", "jump", "closing", "exit"}
  /\ (call.step # "none") <=> prog.at \in {"cmd", "closing", "exit"}
  /\ flags.cancelXfer \in 0..1 /\ (flags.cancelCtrl => prog.at = "jump")

(* At the prompt the session is in step: logged in, no reply owed, no data *)
(* connection open, unless a command was left by BackToTop or by the       *)
(* pager's handler while it waited for the server.  Two ^Cs in a transfer  *)
(* do not need that excuse, as they close the session.                     *)
Settled == prog.at = "line" /\ Unsettled => slips \cap SessionSlips # {}

(* At the prompt the ls cache holds nothing that our own commands have     *)
(* changed since, unless one was left before it flushed the cache or the   *)
(* change was made by quote or site.                                       *)
CacheFresh == prog.at = "line" /\ gConn.up /\ lsCache = "stale" => slips \cap CacheSlips # {}

(* No handler jumps into a command that has returned, and none but         *)
(* BackToTop is there when a line is read.                                 *)
HandlerFits ==
  /\ handler = "cancel" => prog.at = "cmd" /\ call.cmd \in Paging
  /\ prog.at = "line" => handler = "top"

(* The pager's FILE is closed once, unless a ^C interrupts pclose.         *)
PagerOnce == pager = "twice" => "midclose" \in slips

(* A ^C closes the session only as the second of a transfer: the first     *)
(* came since cancelXfer was last reset, except in the phases of get and   *)
(* put before the first reset, where one left over from an earlier         *)
(* command counts.                                                         *)
TwoToClose == [][~flags.cancelCtrl /\ flags'.cancelCtrl =>
                   IF call.step \in {"data", "post"} THEN pressed.since >= 1
                   ELSE pressed.here >= 1 \/ ~call.reset]_shvars

(* After a ^C that came once the transfer of a file had been started no    *)
(* further file of the same argument is begun.                             *)
StopsArgument == [][pressed.stop => ~(call.step = "file" /\ call'.step = "probe")]_shvars

(* Wherever the user presses ^C: no reply is owed and no pager open when   *)
(* the shell reads a line, but after a jump out of a command; the cache    *)
(* has no listing that our own commands made wrong; SIGINT is handled by   *)
(* what runs; a pager is closed once; one ^C stops the argument and not    *)
(* the session, which it takes two to close (shell.c, cmds.c, main.c).     *)
ShellSafe == /\ [](ShTypeOK /\ Settled /\ CacheFresh /\ HandlerFits /\ PagerOnce)
             /\ TwoToClose /\ StopsArgument

(* After quit, and after a ^C at the prompt with no command given up       *)
(* before, the program ends.                                               *)
Exits == flags.done ~> prog.at = "exit"
=============================================================================
