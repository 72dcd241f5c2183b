----------------------------- MODULE FtpSession -----------------------------
(***************************************************************************)
(* One control connection of the library, from the moment the user is      *)
(* logged in to the moment the connection is closed: the client, whose     *)
(* library calls block on replies, the FTP server that serves it, and the  *)
(* two directions of the control connection between them.                  *)
(*                                                                         *)
(* The client is the code of libncftp/rcmd.c and of the calls its transfer *)
(* loops make.  Its blocking calls are sequential, so one control location *)
(* pc is enough; every place where the code waits for a reply (each call   *)
(* of GetResponse) is a location of its own, and what it does with the     *)
(* answer is the action that leaves that location.  The server is external *)
(* to this repository and is modelled from RFC 959 and from what the       *)
(* client's code expects of it.  Nothing here measures time: a wait that   *)
(* is bounded by a timeout may expire in any state in which it has nothing *)
(* to return yet.                                                          *)
(***************************************************************************)
EXTENDS Naturals, Sequences

CONSTANTS
  AbortTimeout,  \* cip->abortTimeout in seconds; 0 waits for ABOR without limit
  PasvAttempts,  \* cip->maxNumberOfSuccessivePASVAttempts
  UsePort,       \* TRUE if the data connection may be made with PORT
  MayAbort,      \* TRUE if a transfer may be aborted, by ^C or by a full memory buffer
  MaxBacklog     \* bound: no new call starts with more unread messages than this

ASSUME SessionAssumption ==
  /\ AbortTimeout \in Nat
  /\ PasvAttempts \in Nat \ {0}
  /\ UsePort \in BOOLEAN
  /\ MayAbort \in BOOLEAN
  /\ MaxBacklog \in Nat

VARIABLES
  pc,            \* where the client is: "idle", or inside which wait of which call
  resp,          \* what GetResponse returned to the wait at pc; NoReply before it does
  connected,     \* cip->connected: the control socket is open
  dataSocket,    \* cip->dataSocket: closed, listening (PORT), connected or unconnected
  canceled,      \* cip->canceled: ABOR was answered
  cancelXfer,    \* cip->cancelXfer: the user asked to stop the transfer
  dataTimedOut,  \* cip->dataTimedOut > 0
  xfer,          \* the transfer command being run: its verb, and whether it restarts
  tries,         \* passiveAttemptsRemaining
  closing,       \* the client is inside FTPCloseHost
  buffered,      \* how many of rep the line buffer of cip->ctrlSrl already holds
  cmd,           \* commands sent and not yet read by the server, oldest first
  rep,           \* replies sent and not yet read by the client, oldest first
  srv,           \* the server: ready for a command, transferring, or gone
  slips          \* history: the moments, if any, after which a reply may be left over

client  == <<pc, resp, connected, dataSocket, canceled, cancelXfer, dataTimedOut, xfer, tries,
             closing, buffered>>
channel == <<cmd, rep>>
vars    == <<client, channel, srv, slips>>

(***************************************************************************)
(* Messages.  A command is its kind: CMD stands for every command that one *)
(* reply answers (TYPE, PASV, PORT, REST, CWD, DELE, ...), DATA for the    *)
(* ones that start a transfer.  A reply has the class its first digit      *)
(* gives it; junk is a line without a code.  Code 421, with which a server *)
(* leaves, is to the client what the end of the connection is, and has no  *)
(* message of its own.  The to field is the kind of the command a reply    *)
(* answers, which the wire does not carry: it is there for the properties. *)
(***************************************************************************)
Kind  == {"CMD", "DATA", "ABOR", "QUIT"}
Class == {"prelim", "ok", "more", "transient", "permanent", "junk"}

Reply(c, k) == [class |-> c, to |-> k]
NoReply     == Reply("none", "none")
Failed      == Reply("error", "none")     \* GetResponse returned a negative result
Replies     == [class : Class, to : Kind]

Verb == {"RETR", "STOR", "APPE", "LIST"}
Xfer == [verb : Verb, offset : BOOLEAN]

Slip == {"acceptFailed", "abortGaveUp", "abortTooLate", "listTimedOut"}

(* At the waits the client is inside GetResponse.                          *)
Waits == {"simple", "type", "pasv", "port", "rest", "rest0",
          "start", "end", "abor1", "abor2", "quit"}
Locations == Waits \cup {"idle", "accept", "xfer", "abto1", "abto2"}

(* The kind of the command whose answer the wait at location l is for.  The
   first reply after ABOR may be the one the transfer was owed.            *)
Expects(l) ==
  CASE l \in {"start", "end"} -> {"DATA"}
    [] l = "abor1"            -> {"DATA", "ABOR"}
    [] l = "abor2"            -> {"ABOR"}
    [] l = "quit"             -> {"QUIT"}
    [] OTHER                  -> {"CMD"}

Init ==
  /\ pc = "idle" /\ resp = NoReply
  /\ connected = TRUE
  /\ dataSocket = "closed"
  /\ canceled = FALSE /\ cancelXfer = FALSE /\ dataTimedOut = FALSE
  /\ xfer = [verb |-> "RETR", offset |-> FALSE]
  /\ tries = 0 /\ closing = FALSE /\ buffered = 0
  /\ cmd = <<>> /\ rep = <<>> /\ srv = "ready"
  /\ slips = {}

-----------------------------------------------------------------------------
(***************************************************************************)
(* Sending and receiving on the control connection.                        *)
(***************************************************************************)

(* FTPSendCommandStr writes a command.  What is written after the server   *)
(* has gone is lost.                                                       *)
FTPSendCommandStr(k) ==
  /\ connected
  /\ cmd' = IF srv = "gone" THEN cmd ELSE Append(cmd, k)

(* It fails without having sent anything when the control connection is    *)
(* closed, and can fail once the server has gone; it closes nothing then.  *)
SendFails ==
  /\ ~connected \/ srv = "gone"
  /\ UNCHANGED cmd

(* FTPShutdownHost closes both sockets: what was in flight is lost and the *)
(* server sees the connection end.                                         *)
FTPShutdownHost ==
  /\ connected' = FALSE /\ dataSocket' = "closed" /\ buffered' = 0
  /\ cmd' = <<>> /\ rep' = <<>> /\ srv' = "gone"

(* GetResponse found a reply; a line that is not one is an error that      *)
(* leaves the connection open.  SReadline takes the line from its buffer,  *)
(* and fills the buffer, when it is empty, with whatever has arrived.      *)
ReplyRead ==
  /\ connected /\ rep # <<>>
  /\ resp' = IF Head(rep).class = "junk" THEN Failed ELSE Head(rep)
  /\ rep' = Tail(rep)
  /\ buffered' \in IF buffered > 0 THEN {buffered - 1} ELSE 0 .. Len(rep')
  /\ UNCHANGED <<connected, dataSocket, cmd, srv>>

(* It found the end of the connection, or 421.                             *)
ReplyIsEnd ==
  /\ connected /\ rep = <<>> /\ srv = "gone"
  /\ FTPShutdownHost /\ resp' = Failed

(* A defect to be caught: only the end of the connection ends the wait.    *)
ReplyTimedOutNever == ReplyIsEnd

(* It gave up after ctrlTimeout seconds without a reply.                   *)
ReplyTimedOut ==
  /\ connected /\ rep = <<>> /\ ~dataTimedOut
  /\ FTPShutdownHost /\ resp' = Failed

(* When the data connection had timed out before, it gives up on the spot  *)
(* unless select finds something on the control socket.  What the line     *)
(* buffer holds is not on the socket any more.                             *)
ReplyGivenUpAtOnce ==
  /\ connected /\ Len(rep) = buffered /\ dataTimedOut
  /\ FTPShutdownHost /\ resp' = Failed

(* On a connection that was closed before, reading is an error (SRead has  *)
(* no buffer any more) and FTPShutdownHost finds nothing to close.         *)
ReplyOfClosedConnection ==
  /\ ~connected
  /\ resp' = Failed
  /\ UNCHANGED <<connected, dataSocket, cmd, rep, srv, buffered>>

GetResponse ==
  /\ pc \in Waits /\ resp = NoReply
  /\ \/ ReplyRead \/ ReplyIsEnd \/ ReplyTimedOut \/ ReplyGivenUpAtOnce
     \/ ReplyOfClosedConnection
  /\ UNCHANGED <<pc, canceled, cancelXfer, dataTimedOut, xfer, tries, closing, slips>>

(* RCmd and FTPCmd send a command and wait for its answer at location l;    *)
(* when the command cannot be sent they return a negative result at once.  *)
RCmd(k, l) ==
  /\ pc' = l
  /\ \/ FTPSendCommandStr(k) /\ resp' = NoReply
     \/ SendFails /\ resp' = Failed

(* The wait at location l is over.                                         *)
Answered(l) == pc = l /\ resp # NoReply
GoTo(l)     == pc' = l /\ resp' = NoReply
-----------------------------------------------------------------------------
(***************************************************************************)
(* FTPCmd called from outside the library's transfers: a simple command.   *)
(***************************************************************************)
FTPCmd ==
  /\ pc = "idle"
  /\ Len(rep) + Len(cmd) <= MaxBacklog
  /\ RCmd("CMD", "simple")
  /\ UNCHANGED <<connected, dataSocket, canceled, cancelXfer, dataTimedOut,
                 xfer, tries, rep, srv, slips, closing, buffered>>

FTPCmdReturns ==
  /\ Answered("simple") /\ GoTo("idle")
  /\ UNCHANGED <<connected, dataSocket, canceled, cancelXfer, dataTimedOut,
                 xfer, tries, channel, srv, slips, closing, buffered>>
-----------------------------------------------------------------------------
(***************************************************************************)
(* FTPStartDataCmd3: from the call to the moment data can flow.            *)
(***************************************************************************)

(* A defect to be caught: a failed start leaves the data socket open.      *)
StartFailsLeaving == GoTo("idle") /\ UNCHANGED <<dataSocket, cmd>>

(* Every failure after the transfer type is set ends in                    *)
(* FTPEndDataCmd(cip, 0), which closes the data connection and reads no    *)
(* reply.                                                                  *)
StartFails == dataSocket' = "closed" /\ GoTo("idle") /\ UNCHANGED cmd

(* OpenDataConnection begins with PASV or PORT, according to dataPortMode. *)
OpenDataConnection ==
  /\ cancelXfer' = FALSE /\ canceled' = FALSE
  /\ dataSocket' = "closed"
  /\ \/ RCmd("CMD", "pasv") /\ tries' = PasvAttempts - 1
     \/ UsePort /\ RCmd("CMD", "port") /\ UNCHANGED tries

(* The data socket is ready: REST if the transfer is to restart, then the  *)
(* transfer command itself.                                                *)
FTPSetStartOffset ==
  IF xfer.offset THEN RCmd("CMD", "rest") ELSE RCmd("DATA", "start")

(* A transfer is asked for; TYPE is sent first unless the type is already  *)
(* the current one.                                                        *)
FTPStartDataCmd ==
  /\ pc = "idle"
  /\ Len(rep) + Len(cmd) <= MaxBacklog
  /\ xfer' \in Xfer /\ (xfer'.verb = "LIST" => ~xfer'.offset)
  /\ \/ /\ RCmd("CMD", "type")
        /\ UNCHANGED <<cancelXfer, canceled, dataSocket, tries>>
     \/ OpenDataConnection
  /\ UNCHANGED <<connected, dataTimedOut, rep, srv, slips, closing, buffered>>

FTPSetTransferTypeReturns ==
  /\ Answered("type")
  /\ IF resp.class = "ok"
     THEN OpenDataConnection
     ELSE /\ GoTo("idle")
          /\ UNCHANGED <<cancelXfer, canceled, dataSocket, tries, cmd>>
  /\ UNCHANGED <<connected, dataTimedOut, xfer, rep, srv, slips, closing, buffered>>

(* A defect to be caught: the attempts are counted after the last, too.    *)
PasvAcceptedOnceMore ==
  /\ resp.class = "ok"
  /\ \/ dataSocket' = "connected" /\ FTPSetStartOffset /\ UNCHANGED tries
     \/ tries' = tries - 1 /\ RCmd("CMD", "pasv") /\ UNCHANGED dataSocket

(* PASV was answered.  Once an address is known the connection to it can   *)
(* be made or not; after the last attempt, and when PASV is refused, the   *)
(* code may fall back to PORT.  The last disjunct is the fallback that     *)
(* sends no PORT and returns a socket connected to nothing (module         *)
(* DataConnection shows when).                                             *)
PasvAccepted ==
  /\ resp.class = "ok"
  /\ \/ dataSocket' = "connected" /\ FTPSetStartOffset /\ UNCHANGED tries
     \/ tries > 0 /\ tries' = tries - 1 /\ RCmd("CMD", "pasv") /\ UNCHANGED dataSocket
     \/ tries = 0 /\ UsePort /\ RCmd("CMD", "port") /\ UNCHANGED <<tries, dataSocket>>
     \/ /\ tries = 0 /\ UsePort /\ UNCHANGED tries
        /\ dataSocket' = "unconnected" /\ FTPSetStartOffset
     \/ StartFails /\ UNCHANGED tries

PasvRefused ==
  /\ resp.class # "ok"
  /\ \/ UsePort /\ RCmd("CMD", "port") /\ UNCHANGED dataSocket
     \/ StartFails
  /\ UNCHANGED tries

FTPSendPassiveReturns ==
  /\ Answered("pasv")
  /\ PasvAccepted \/ PasvRefused
  /\ UNCHANGED <<connected, canceled, cancelXfer, dataTimedOut, xfer, rep, srv, slips, closing, buffered>>

FTPSendPortReturns ==
  /\ Answered("port")
  /\ IF resp.class = "ok" THEN dataSocket' = "listening" /\ FTPSetStartOffset
                          ELSE StartFails
  /\ UNCHANGED <<connected, canceled, cancelXfer, dataTimedOut, xfer, tries, rep, srv, slips, closing, buffered>>

(* When REST fails an upload turns into an append, any other transfer      *)
(* starts from the beginning.  A dead connection is noticed only by the    *)
(* command that follows.                                                   *)
FTPSetStartOffsetReturns ==
  /\ Answered("rest")
  /\ xfer' = IF resp.class \in {"prelim", "ok", "more"} THEN xfer
             ELSE IF xfer.verb = "STOR" THEN [xfer EXCEPT !.verb = "APPE"]
             ELSE [xfer EXCEPT !.offset = FALSE]
  /\ RCmd("DATA", "start")
  /\ UNCHANGED <<connected, dataSocket, canceled, cancelXfer, dataTimedOut, tries,
                 rep, srv, slips, closing, buffered>>

(* FTPGetOneF, FTPPutOneF and the like, but not the listings, call         *)
(* FTPInitIOTimer once the transfer has started: the timeout of the last   *)
(* transfer is forgotten only here.                                        *)
FTPInitIOTimer ==
  IF xfer.verb = "LIST" THEN UNCHANGED dataTimedOut
                        ELSE dataTimedOut' = FALSE

StartAccepted ==
  /\ resp.class \in {"prelim", "ok"}
  /\ IF dataSocket = "listening"
     THEN GoTo("accept") /\ UNCHANGED dataTimedOut
     ELSE GoTo("xfer") /\ FTPInitIOTimer
  /\ UNCHANGED <<dataSocket, cmd>>

(* REST then STOR was refused: the code tries REST 0 then APPE.            *)
StartRefused ==
  /\ resp.class \notin {"prelim", "ok"}
  /\ IF resp.class # "error" /\ xfer.verb = "STOR" /\ xfer.offset
     THEN RCmd("CMD", "rest0") /\ UNCHANGED dataSocket
     ELSE StartFails
  /\ UNCHANGED dataTimedOut

FTPStartDataCmdAnswered ==
  /\ Answered("start")
  /\ StartAccepted \/ StartRefused
  /\ UNCHANGED <<connected, canceled, cancelXfer, xfer, tries, rep, srv, slips, closing, buffered>>

(* The answer to REST 0, and whether APPE could be sent, are ignored.      *)
FTPRetryAsAppend ==
  /\ Answered("rest0")
  /\ xfer' = [xfer EXCEPT !.verb = "APPE"]
  /\ GoTo("start")
  /\ FTPSendCommandStr("DATA") \/ SendFails
  /\ UNCHANGED <<connected, dataSocket, canceled, cancelXfer, dataTimedOut, tries,
                 rep, srv, slips, closing, buffered>>

(* AcceptDataConnection, PORT only: the server connects in time, from the  *)
(* address and the port required of it, or the transfer is given up.       *)
AcceptDataConnection ==
  /\ pc = "accept"
  /\ \/ dataSocket' = "connected" /\ GoTo("xfer") /\ FTPInitIOTimer /\ UNCHANGED <<cmd, slips>>
     \/ StartFails /\ slips' = slips \cup {"acceptFailed"} /\ UNCHANGED dataTimedOut
  /\ UNCHANGED <<connected, canceled, cancelXfer, xfer, tries, rep, srv, closing, buffered>>
-----------------------------------------------------------------------------
(***************************************************************************)
(* The transfer loops, the end of a transfer and its abortion.             *)
(***************************************************************************)

(* The user presses ^C: the signal handler only raises a flag.             *)
UserCancels ==
  /\ MayAbort /\ pc # "idle" /\ ~cancelXfer
  /\ cancelXfer' = TRUE
  /\ UNCHANGED <<pc, resp, connected, dataSocket, canceled, dataTimedOut, xfer, tries,
                 channel, srv, slips, closing, buffered>>

(* A defect to be caught: the transfer's final reply is not read.          *)
FTPEndDataCmdUnread(aborted) ==
  /\ dataSocket' = "closed"
  /\ canceled' = aborted
  /\ GoTo("idle")

(* FTPEndDataCmd(cip, 1): nothing more to do if ABOR was answered, else    *)
(* the data connection is closed and the transfer's reply awaited.         *)
FTPEndDataCmd(aborted) ==
  /\ dataSocket' = "closed"
  /\ canceled' = aborted
  /\ GoTo(IF aborted THEN "idle" ELSE "end")

(* A transfer loop ends: at the end of the data, on an error of either     *)
(* side, or because nothing came for xferTimeout seconds.  It may end so   *)
(* although the user has canceled: the loop looks at the flag only when    *)
(* the data socket is ready.  A listing does not look at it, and does not  *)
(* tell of its timeouts.                                                   *)
TransferEnds ==
  /\ pc = "xfer"
  /\ IF xfer.verb = "LIST" THEN UNCHANGED dataTimedOut
                           ELSE dataTimedOut' \in BOOLEAN
  /\ FTPEndDataCmd(FALSE)
  /\ UNCHANGED <<connected, cancelXfer, xfer, tries, channel, srv, slips, closing, buffered>>

(* FTPList and FTPListToMemory2 return from a timeout as they stand.       *)
ListTimesOut ==
  /\ pc = "xfer" /\ xfer.verb = "LIST"
  /\ GoTo("idle")
  /\ slips' = slips \cup {"listTimedOut"}
  /\ UNCHANGED <<connected, dataSocket, canceled, cancelXfer, dataTimedOut, xfer, tries,
                 channel, srv, closing, buffered>>

FTPEndDataCmdReturns ==
  /\ Answered("end") /\ GoTo("idle")
  /\ UNCHANGED <<connected, dataSocket, canceled, cancelXfer, dataTimedOut, xfer, tries,
                 channel, srv, slips, closing, buffered>>

(* FTPAbortDataTransfer sends ABOR; whether it could be sent is ignored.   *)
(* The server may have finished the transfer already.                      *)
AbortBegins ==
  /\ FTPSendCommandStr("ABOR") \/ SendFails
  /\ slips' = IF srv = "transferring" THEN slips ELSE slips \cup {"abortTooLate"}
  /\ GoTo(IF AbortTimeout = 0 THEN "abor1" ELSE "abto1")

(* A transfer loop aborts when it finds the user's flag raised;            *)
(* FTPGetFileToMemory also when it has as many bytes as it was asked for.  *)
FTPAbortDataTransfer ==
  /\ pc = "xfer" /\ xfer.verb # "LIST"
  /\ cancelXfer \/ (MayAbort /\ xfer.verb = "RETR")
  /\ AbortBegins
  /\ UNCHANGED <<connected, dataSocket, canceled, cancelXfer, dataTimedOut, xfer, tries,
                 rep, srv, closing, buffered>>

(* It ends with the data connection closed, in a transfer loop that goes   *)
(* on to FTPEndDataCmd or in FTPCloseHost, which goes on to QUIT.          *)
AbortEnds(aborted) ==
  \/ ~closing /\ FTPEndDataCmd(aborted) /\ UNCHANGED cmd
  \/ /\ closing
     /\ dataSocket' = "closed" /\ canceled' = aborted
     /\ RCmd("QUIT", "quit")

(* WaitResponse(abto1), then WaitResponse(abto2) with the data connection  *)
(* closed: select says that a reply or the end of the connection is on the *)
(* socket.                                                                 *)
CtrlReadable == Len(rep) > buffered \/ srv = "gone"

AbortReplyReady ==
  /\ pc \in {"abto1", "abto2"} /\ CtrlReadable
  /\ GoTo("abor1")
  /\ UNCHANGED <<connected, dataSocket, canceled, cancelXfer, dataTimedOut, xfer, tries,
                 channel, srv, slips, closing, buffered>>

AbortFirstTimeout ==
  /\ pc = "abto1" /\ ~CtrlReadable
  /\ dataSocket' = "closed"
  /\ GoTo("abto2")
  /\ UNCHANGED <<connected, canceled, cancelXfer, dataTimedOut, xfer, tries,
                 channel, srv, slips, closing, buffered>>

(* The abort is given up; the caller goes on as if ABOR had not been sent. *)
AbortSecondTimeout ==
  /\ pc = "abto2" /\ ~CtrlReadable
  /\ slips' = slips \cup {"abortGaveUp"}
  /\ AbortEnds(FALSE)
  /\ UNCHANGED <<connected, cancelXfer, dataTimedOut, xfer, tries, rep, srv, closing, buffered>>

(* A defect to be caught: the 4xx reply is taken for the answer to ABOR.   *)
AbortFirstReplyOnly ==
  /\ Answered("abor1")
  /\ AbortEnds(resp # Failed)
  /\ UNCHANGED <<connected, cancelXfer, dataTimedOut, xfer, tries, rep, srv, slips,
                 closing, buffered>>

(* A 4xx reply is the transfer's, and ABOR's is still to come; any other   *)
(* is taken for ABOR's.                                                    *)
AbortFirstReply ==
  /\ Answered("abor1")
  /\ IF resp.class = "transient"
     THEN GoTo("abor2") /\ UNCHANGED <<dataSocket, canceled, cmd>>
     ELSE AbortEnds(resp # Failed)
  /\ UNCHANGED <<connected, cancelXfer, dataTimedOut, xfer, tries, rep, srv, slips,
                 closing, buffered>>

AbortSecondReply ==
  /\ Answered("abor2")
  /\ AbortEnds(resp # Failed)
  /\ UNCHANGED <<connected, cancelXfer, dataTimedOut, xfer, tries, rep, srv, slips,
                 closing, buffered>>
-----------------------------------------------------------------------------
(***************************************************************************)
(* Closing the session and opening another one.                            *)
(***************************************************************************)

(* FTPCloseHost aborts a transfer first if the data connection is open,    *)
(* which it is only after a listing has timed out.                         *)
FTPCloseHost ==
  /\ pc = "idle" /\ connected
  /\ closing' = TRUE
  /\ IF dataSocket = "closed" THEN RCmd("QUIT", "quit") /\ UNCHANGED slips
                              ELSE AbortBegins
  /\ UNCHANGED <<connected, dataSocket, canceled, cancelXfer, dataTimedOut, xfer, tries,
                 rep, srv, buffered>>

FTPCloseHostReturns ==
  /\ Answered("quit")
  /\ connected' = FALSE /\ closing' = FALSE /\ buffered' = 0
  /\ cmd' = <<>> /\ rep' = <<>> /\ srv' = "gone"
  /\ GoTo("idle")
  /\ UNCHANGED <<dataSocket, canceled, cancelXfer, dataTimedOut, xfer, tries, slips>>

(* FTPOpenHost, as far as this module sees it: a new connection, and the   *)
(* status variables of the last one reset.  The login is left out.         *)
FTPOpenHost ==
  /\ pc = "idle" /\ ~connected
  /\ connected' = TRUE /\ buffered' = 0
  /\ canceled' = FALSE /\ cancelXfer' = FALSE /\ dataTimedOut' = FALSE
  /\ cmd' = <<>> /\ rep' = <<>> /\ srv' = "ready"
  /\ slips' = {}
  /\ UNCHANGED <<pc, resp, dataSocket, xfer, tries, closing>>
-----------------------------------------------------------------------------
(***************************************************************************)
(* The server: it serves one command at a time, in order, and looks at the *)
(* next one during a transfer only to see whether it is ABOR.              *)
(***************************************************************************)
Answer(r) == cmd' = Tail(cmd) /\ rep' = rep \o r
Served(k) == cmd # <<>> /\ Head(cmd) = k

ServeCommand ==
  /\ srv = "ready" /\ Served("CMD")
  /\ \E c \in {"ok", "more", "permanent", "junk"} : Answer(<<Reply(c, "CMD")>>)
  /\ UNCHANGED <<client, srv, slips>>

ServeTransfer ==
  /\ srv = "ready" /\ Served("DATA")
  /\ \/ Answer(<<Reply("prelim", "DATA")>>) /\ srv' = "transferring"
     \/ /\ \E c \in {"permanent", "junk"} : Answer(<<Reply(c, "DATA")>>)
        /\ UNCHANGED srv
  /\ UNCHANGED <<client, slips>>

FinishTransfer ==
  /\ srv = "transferring" /\ srv' = "ready"
  /\ \E c \in {"ok", "transient", "permanent"} : rep' = Append(rep, Reply(c, "DATA"))
  /\ slips' = IF Served("ABOR") THEN slips \cup {"abortTooLate"} ELSE slips
  /\ UNCHANGED <<client, cmd>>

(* ABOR during a transfer: 426 for the transfer, 226 for ABOR.             *)
AbortTransfer ==
  /\ srv = "transferring" /\ Served("ABOR") /\ srv' = "ready"
  /\ Answer(<<Reply("transient", "DATA"), Reply("ok", "ABOR")>>)
  /\ UNCHANGED <<client, slips>>

(* ABOR after the transfer was over and answered for.                      *)
NothingToAbort ==
  /\ srv = "ready" /\ Served("ABOR")
  /\ \E c \in {"ok", "permanent"} : Answer(<<Reply(c, "ABOR")>>)
  /\ UNCHANGED <<client, srv, slips>>

ServeQuit ==
  /\ srv = "ready" /\ Served("QUIT") /\ srv' = "gone"
  /\ Answer(<<Reply("ok", "QUIT")>>)
  /\ UNCHANGED <<client, slips>>

(* The server may go at any time, with or without saying 421.              *)
ServerGoes ==
  /\ srv # "gone" /\ srv' = "gone"
  /\ cmd' = <<>>
  /\ UNCHANGED <<client, rep, slips>>

Server ==
  \/ ServeCommand \/ ServeTransfer \/ FinishTransfer \/ AbortTransfer
  \/ NothingToAbort \/ ServeQuit \/ ServerGoes
-----------------------------------------------------------------------------
(* What the program above the library decides to do next.                  *)
Caller == FTPCmd \/ FTPStartDataCmd \/ FTPCloseHost \/ FTPOpenHost \/ UserCancels

(* What goes on inside a call until it returns.                            *)
Library ==
  \/ GetResponse
  \/ FTPCmdReturns
  \/ FTPSetTransferTypeReturns
  \/ FTPSendPassiveReturns
  \/ FTPSendPortReturns
  \/ FTPSetStartOffsetReturns
  \/ FTPStartDataCmdAnswered
  \/ FTPRetryAsAppend
  \/ AcceptDataConnection
  \/ TransferEnds
  \/ ListTimesOut
  \/ FTPEndDataCmdReturns
  \/ FTPAbortDataTransfer
  \/ AbortReplyReady
  \/ AbortFirstTimeout
  \/ AbortSecondTimeout
  \/ AbortFirstReply
  \/ AbortSecondReply
  \/ FTPCloseHostReturns

Next == Caller \/ Library \/ Server

Spec == Init /\ [][Next]_vars

(* A library call keeps running, and all its waits time out (USE_SIO: every *)
(* read and every select has a time limit); of the server nothing is asked. *)
FairSpec == Spec /\ WF_vars(Library)
-----------------------------------------------------------------------------
(***************************************************************************)
(* Properties.                                                             *)
(***************************************************************************)

(* The type invariant. *)
TypeOK ==
  /\ pc \in Locations
  /\ resp \in Replies \cup {NoReply, Failed}
  /\ connected \in BOOLEAN
  /\ dataSocket \in {"closed", "listening", "connected", "unconnected"}
  /\ canceled \in BOOLEAN /\ cancelXfer \in BOOLEAN /\ dataTimedOut \in BOOLEAN
  /\ xfer \in Xfer
  /\ tries \in 0 .. PasvAttempts /\ closing \in BOOLEAN /\ buffered \in Nat
  /\ cmd \in Seq(Kind) /\ rep \in Seq(Replies)
  /\ srv \in {"ready", "transferring", "gone"}
  /\ slips \subseteq Slip

(* Client and server keep in step: between calls no command and no reply   *)
(* is under way on an open connection and no transfer runs at the server,  *)
(* unless one of the three slips happened since it was opened.  This is    *)
(* what the sequence of sends and GetResponse calls of rcmd.c is for.      *)
InStep ==
  (pc = "idle" /\ connected /\ slips = {}) =>
    cmd = <<>> /\ rep = <<>> /\ srv # "transferring"

(* Every reply GetResponse hands to a caller answers the command that      *)
(* caller has sent, short of a slip.                                       *)
OwnReply ==
  (slips = {} /\ resp \notin {NoReply, Failed}) => resp.to \in Expects(pc)

(* While the server is transferring, it is sent nothing but ABOR: nothing  *)
(* waits behind a transfer that the client has finished with.              *)
OnlyAbortOvertakes ==
  (srv = "transferring" /\ slips = {}) => \A i \in DOMAIN cmd : cmd[i] = "ABOR"

(* Every way out of a call closes the data connection, but for the timeout *)
(* of a listing: no descriptor is left open and no later transfer finds    *)
(* the socket of an earlier one.                                           *)
DataClosedBetweenCalls ==
  (pc = "idle" /\ "listTimedOut" \notin slips) => dataSocket = "closed"

(* Every library call returns, whatever the server does or does not do.    *)
CallsReturn == (pc # "idle") ~> (pc = "idle")

-----------------------------------------------------------------------------
(***************************************************************************)
(* What the source says of itself and the code does not do.                *)
(***************************************************************************)

-----------------------------------------------------------------------------
(***************************************************************************)
(* What can be on the wire at each location of the client, short of a      *)
(* slip.  Wire is InStep and OwnReply made inductive: it says for every    *)
(* wait which commands, replies and transfer the connection still holds.   *)
(***************************************************************************)
Silent  == cmd = <<>> /\ rep = <<>>
NotBusy == srv \in {"ready", "gone"}
Settled == Silent /\ NotBusy

(* The final reply of a command of kind k is all there is.                 *)
Due(k)  == cmd = <<>> /\ Len(rep) = 1 /\ rep[1].to = k /\ NotBusy

Owing(k) ==
  \/ srv = "ready" /\ cmd = <<k>> /\ rep = <<>>
  \/ Due(k)
  \/ srv = "gone" /\ Silent

Running ==
  \/ srv = "transferring" /\ Silent
  \/ Due("DATA")
  \/ srv = "gone" /\ Silent

Starting ==
  \/ srv = "ready" /\ cmd = <<"DATA">> /\ rep = <<>>
  \/ Due("DATA") /\ rep[1].class \in {"permanent", "junk"}
  \/ /\ cmd = <<>> /\ rep # <<>> /\ rep[1] = Reply("prelim", "DATA")
     /\ \/ srv \in {"transferring", "gone"} /\ Len(rep) = 1
        \/ NotBusy /\ Len(rep) = 2 /\ rep[2].to = "DATA"
  \/ srv = "gone" /\ Silent

AbortReplies == <<Reply("transient", "DATA"), Reply("ok", "ABOR")>>

Acknowledged == NotBusy /\ cmd = <<>> /\ rep = <<Reply("ok", "ABOR")>>

Aborting ==
  \/ srv = "transferring" /\ cmd = <<"ABOR">> /\ rep = <<>>
  \/ NotBusy /\ cmd = <<>> /\ rep = AbortReplies
  \/ srv = "gone" /\ Silent

SimpleWaits == {"simple", "type", "pasv", "port", "rest", "rest0"}

Wire ==
  (connected /\ slips = {}) =>
    /\ pc = "idle" => Settled
    /\ pc \in SimpleWaits => IF resp = NoReply THEN Owing("CMD") ELSE Settled
    /\ pc = "quit" => IF resp = NoReply THEN Owing("QUIT") ELSE Settled
    /\ pc = "start" => IF resp = NoReply THEN Starting
                       ELSE IF resp.class = "prelim" THEN Running
                       ELSE Settled /\ resp.class # "ok"
    /\ pc \in {"accept", "xfer"} => Running
    /\ pc = "end" => IF resp = NoReply THEN Running ELSE Settled
    /\ pc \in {"abto1", "abto2"} => Aborting
    /\ pc = "abor1" => IF resp = NoReply THEN Aborting
                       ELSE resp.class = "transient" /\ Acknowledged
    /\ pc = "abor2" => IF resp = NoReply THEN Acknowledged ELSE Settled /\ resp # Failed
=============================================================================
