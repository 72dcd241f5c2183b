--------------------------- MODULE DataConnection ---------------------------
(***************************************************************************)
(* How the data connection of a transfer is made: OpenDataConnection of    *)
(* libncftp/ftp.c with FTPSendPassive, FTPSendPort, AcceptDataConnection   *)
(* and CloseDataConnection, as FTPStartDataCmd3 and the transfers that     *)
(* follow it call them.  The server is external: here it is only what it   *)
(* answers to PASV and PORT and what it will therefore do for the next     *)
(* transfer.                                                               *)
(***************************************************************************)
EXTENDS Integers

CONSTANT PasvAttempts   \* cip->maxNumberOfSuccessivePASVAttempts

ASSUME AttemptsAssumption == PasvAttempts \in Nat \ {0}

VARIABLES
  pc,            \* "idle", "pasv" or "port" (a reply is awaited), "connect", "open", "xfer"
  dataPortMode,  \* cip->dataPortMode: "port", "passive" or "fallback"
  hasPASV,       \* cip->hasPASV
  attempts,      \* passiveAttemptsRemaining
  servDataAddr,  \* where a passive data connection is made to: servDataAddr
  dataSocket,    \* cip->dataSocket
  fds,           \* history: how many data sockets the process holds
  control,       \* the control connection is alive
  peer           \* what the server will do for the next transfer

vars == <<pc, dataPortMode, hasPASV, attempts, servDataAddr, dataSocket, fds, control, peer>>

Mode         == {"port", "passive", "fallback"}
Availability == {"unknown", "available", "notAvailable"}

(* That PASV is available may be known from FEAT, from the kind of server  *)
(* or from a bookmark before the first data connection is made.            *)
Init ==
  /\ pc = "idle"
  /\ dataPortMode \in Mode /\ hasPASV \in {"unknown", "available"}
  /\ attempts = 0 /\ servDataAddr = "none"
  /\ dataSocket = "closed" /\ fds = 0
  /\ control = TRUE /\ peer = "default"

Held(s) == IF s = "closed" THEN 0 ELSE 1
-----------------------------------------------------------------------------
(* The label bad: the socket of the call is closed, an error is returned.  *)
Bad(held) == pc' = "idle" /\ dataSocket' = "closed" /\ fds' = held - 1

(* The call returns 0 with its socket in cip->dataSocket.                  *)
Success(s, held) == pc' = "open" /\ dataSocket' = s /\ fds' = held

(* A command goes out and its reply is awaited.                            *)
RCmd(l, held) == pc' = l /\ dataSocket' = "closed" /\ fds' = held

(* The label tryPort: bind, getsockname or listen may fail.                *)
TryPort(held) == Bad(held) \/ RCmd("port", held)

(* The label tryPort2, with n attempts left and h known of PASV, when the  *)
(* call holds no socket but may have held some before.  With no attempt    *)
(* left and PASV known to be available the loop is not entered: the new    *)
(* socket, connected to nothing, passes for the passive data connection.   *)
TryPort2(n, h, held) ==
  \/ /\ pc' = "idle" /\ dataSocket' = "closed" /\ fds' = held
     /\ attempts' = n /\ hasPASV' = h
  \/ /\ h = "notAvailable" \/ dataPortMode = "port"
     /\ TryPort(held + 1)
     /\ attempts' = n /\ hasPASV' = h
  \/ /\ h # "notAvailable" /\ dataPortMode # "port" /\ n > 0
     /\ RCmd("pasv", held + 1)
     /\ attempts' = n - 1 /\ hasPASV' = h
  \/ /\ h # "notAvailable" /\ dataPortMode # "port" /\ n = 0
     /\ \/ Success("unconnected", held + 1) /\ attempts' = n - 1 /\ hasPASV' = "available"
        \/ Bad(held + 1) /\ attempts' = n /\ hasPASV' = h

(* A defect to be caught: the socket of an earlier call is not closed.     *)
OpenDataConnectionOver ==
  /\ pc = "idle"
  /\ TryPort2(PasvAttempts, hasPASV, fds)
  /\ UNCHANGED <<dataPortMode, servDataAddr, control, peer>>

(* The call: whatever data socket there still is is closed first.          *)
OpenDataConnection ==
  /\ pc = "idle"
  /\ TryPort2(PasvAttempts, hasPASV, fds - Held(dataSocket))
  /\ UNCHANGED <<dataPortMode, servDataAddr, control, peer>>

(* FTPSendPassive got no positive reply: PASV is taken to be refused, also *)
(* when the control connection was lost.                                   *)
PassiveRefused ==
  /\ pc = "pasv"
  /\ hasPASV' = "notAvailable"
  /\ control' \in {control, FALSE}
  /\ servDataAddr' = "control"
  /\ IF dataPortMode = "fallback" THEN TryPort(fds) ELSE Bad(fds)
  /\ UNCHANGED <<dataPortMode, attempts, peer>>

(* A positive reply to PASV, with or without an address.  The loop sets    *)
(* the address to that of the control connection before it asks, and       *)
(* FTPSendPassive returns the reply's class, which is no error, when it    *)
(* cannot read an address in it.  Binding the socket may fail.             *)
PassiveAccepted ==
  /\ pc = "pasv" /\ control
  /\ peer' = "passive"
  /\ servDataAddr' \in {"given", "control"}
  /\ \/ Bad(fds)
     \/ pc' = "connect" /\ UNCHANGED <<dataSocket, fds>>
  /\ UNCHANGED <<dataPortMode, hasPASV, attempts, control>>

(* SConnect succeeded; getsockname may still fail.                         *)
Connected ==
  /\ pc = "connect"
  /\ \/ Success("connected", fds) /\ hasPASV' = "available"
     \/ Bad(fds) /\ UNCHANGED hasPASV
  /\ UNCHANGED <<dataPortMode, attempts, servDataAddr, control, peer>>

(* A defect to be caught: a failed attempt is not counted.                 *)
RetryPassiveUncounted ==
  /\ pc = "connect" /\ attempts > 0
  /\ Bad(fds) \/ RCmd("pasv", fds)
  /\ UNCHANGED <<dataPortMode, hasPASV, attempts, servDataAddr, control, peer>>

(* A defect to be caught: the attempts are counted but never run out.      *)
RetryPassiveForever ==
  /\ pc = "connect"
  /\ RCmd("pasv", fds) /\ attempts' = attempts - 1
  /\ UNCHANGED <<dataPortMode, hasPASV, servDataAddr, control, peer>>

(* SConnect failed or timed out with attempts left: the socket is closed,  *)
(* another one made, which may fail, and PASV sent again.                  *)
RetryPassive ==
  /\ pc = "connect" /\ attempts > 0
  /\ \/ Bad(fds) /\ UNCHANGED attempts
     \/ RCmd("pasv", fds) /\ attempts' = attempts - 1
  /\ UNCHANGED <<dataPortMode, hasPASV, servDataAddr, control, peer>>

(* A defect to be caught: falling back gives PASV all its attempts again.  *)
PassiveExhaustedAfresh ==
  /\ pc = "connect" /\ attempts = 0
  /\ IF dataPortMode = "fallback"
     THEN TryPort2(PasvAttempts, IF hasPASV = "unknown" THEN "notAvailable" ELSE hasPASV, fds - 1)
     ELSE Bad(fds) /\ UNCHANGED <<attempts, hasPASV>>
  /\ UNCHANGED <<dataPortMode, servDataAddr, control, peer>>

(* The last attempt failed.  In fallback mode the code goes to tryPort2    *)
(* with PASV marked as not available, but only if nothing was known of it. *)
PassiveExhausted ==
  /\ pc = "connect" /\ attempts = 0
  /\ IF dataPortMode = "fallback"
     THEN TryPort2(0, IF hasPASV = "unknown" THEN "notAvailable" ELSE hasPASV, fds - 1)
     ELSE Bad(fds) /\ UNCHANGED <<attempts, hasPASV>>
  /\ UNCHANGED <<dataPortMode, servDataAddr, control, peer>>

(* FTPSendPort: the server will connect to us, and dataPortMode says so    *)
(* from now on.                                                            *)
PortAccepted ==
  /\ pc = "port" /\ control
  /\ Success("listening", fds)
  /\ peer' = "port" /\ dataPortMode' = "port"
  /\ UNCHANGED <<hasPASV, attempts, servDataAddr, control>>

(* A defect to be caught: any reply to PORT is taken for success.          *)
PortRefusedIgnored ==
  /\ pc = "port"
  /\ Success("listening", fds) /\ dataPortMode' = "port"
  /\ UNCHANGED <<hasPASV, attempts, servDataAddr, control, peer>>

(* PORT is refused or the control connection lost.                         *)
PortRefused ==
  /\ pc = "port"
  /\ Bad(fds) /\ control' \in {control, FALSE}
  /\ UNCHANGED <<dataPortMode, hasPASV, attempts, servDataAddr, peer>>
-----------------------------------------------------------------------------
(* The transfer command is accepted: AcceptDataConnection waits for the    *)
(* server if dataPortMode is "port" and has nothing to do otherwise.       *)
AcceptDataConnection ==
  /\ pc = "open" /\ control
  /\ \/ /\ pc' = "xfer" /\ UNCHANGED fds
        /\ dataSocket' = IF dataPortMode = "port" THEN "connected" ELSE dataSocket
     \/ dataPortMode = "port" /\ pc' = "idle" /\ dataSocket' = "closed" /\ fds' = fds - 1
  /\ UNCHANGED <<dataPortMode, hasPASV, attempts, servDataAddr, control, peer>>

(* CloseDataConnection, by FTPEndDataCmd after a transfer or a refused     *)
(* one, by FTPShutdownHost whenever the control connection is lost.  The   *)
(* server's side of the arrangement serves one transfer.                   *)
CloseDataConnection ==
  /\ pc \in {"idle", "open", "xfer"}
  /\ pc' = "idle" /\ dataSocket' = "closed" /\ fds' = fds - Held(dataSocket)
  /\ control' \in {control, FALSE}
  /\ peer' = IF pc = "xfer" THEN "default" ELSE peer
  /\ UNCHANGED <<dataPortMode, hasPASV, attempts, servDataAddr>>

(* A listing that times out leaves its data connection as it is.           *)
ListTimesOut ==
  /\ pc = "xfer" /\ pc' = "idle"
  /\ UNCHANGED <<dataPortMode, hasPASV, attempts, servDataAddr, dataSocket, fds, control, peer>>

(* The session is closed, with any data socket there still is, and another *)
(* one opened: dataPortMode stays, and PASV may be in FEAT's reply.        *)
FTPOpenHost ==
  /\ pc = "idle"
  /\ control' = TRUE /\ peer' = "default"
  /\ dataSocket' = "closed" /\ fds' = fds - Held(dataSocket)
  /\ hasPASV' \in {hasPASV, "available"}
  /\ UNCHANGED <<pc, dataPortMode, attempts, servDataAddr>>

(* The shell's "set passive" between two commands.                         *)
SetPassive ==
  /\ pc = "idle"
  /\ dataPortMode' \in Mode
  /\ UNCHANGED <<pc, hasPASV, attempts, servDataAddr, dataSocket, fds, control, peer>>

Opening ==
  \/ PassiveRefused \/ PassiveAccepted \/ Connected \/ RetryPassive \/ PassiveExhausted
  \/ PortAccepted \/ PortRefused

Next ==
  \/ OpenDataConnection \/ Opening
  \/ AcceptDataConnection \/ CloseDataConnection \/ ListTimesOut
  \/ FTPOpenHost \/ SetPassive

Spec == Init /\ [][Next]_vars

(* Inside the call nothing waits without a time limit: RCmd's wait for a   *)
(* reply and SConnect both have one.                                       *)
FairSpec == Spec /\ WF_vars(Opening)
-----------------------------------------------------------------------------
(***************************************************************************)
(* Properties.                                                             *)
(***************************************************************************)

(* The type invariant. *)
TypeOK ==
  /\ pc \in {"idle", "pasv", "port", "connect", "open", "xfer"}
  /\ dataPortMode \in Mode /\ hasPASV \in Availability
  /\ attempts \in -1 .. PasvAttempts
  /\ servDataAddr \in {"none", "control", "given"}
  /\ dataSocket \in {"closed", "listening", "connected", "unconnected"}
  /\ fds \in Int
  /\ control \in BOOLEAN
  /\ peer \in {"default", "passive", "port"}

(* When OpenDataConnection returns a socket, client and server agree on    *)
(* who connects to whom, but for one case: PASV was known to be available  *)
(* and all attempts in fallback mode failed to connect.                    *)
EndsMeet ==
  pc = "open" =>
    \/ dataSocket = "connected" /\ peer = "passive"
    \/ dataSocket = "listening" /\ peer = "port"
    \/ /\ dataSocket = "unconnected" /\ attempts < 0
       /\ hasPASV = "available" /\ dataPortMode = "fallback"

(* AcceptDataConnection looks at dataPortMode alone to know whether to     *)
(* accept: it must say what OpenDataConnection has left in dataSocket.     *)
AcceptMatches == pc = "open" => (dataSocket = "listening" <=> dataPortMode = "port")

(* No path through the labels of OpenDataConnection loses a descriptor or  *)
(* closes one twice: outside the call the process holds just cip's.        *)
NoSocketLost ==
  fds = IF pc \in {"pasv", "port", "connect"} THEN 1 ELSE Held(dataSocket)

(* Whatever the answers, OpenDataConnection returns.                       *)
OpenReturns == (pc \in {"pasv", "port", "connect"}) ~> (pc \in {"idle", "open"})

(* OpenDataConnection does what FtpSession takes it to do.                 *)
Setup == INSTANCE DataSetup WITH
  phase  <- IF pc = "connect" THEN "pasv" ELSE pc,
  tries  <- attempts,
  socket <- dataSocket

SetupSpec == Setup!Spec
-----------------------------------------------------------------------------
(***************************************************************************)
(* What the source and its manual say and the code does not do.            *)
(***************************************************************************)
=============================================================================
