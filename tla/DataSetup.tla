------------------------------ MODULE DataSetup ------------------------------
(***************************************************************************)
(* What a caller of OpenDataConnection may rely on, whatever the network   *)
(* and the server do: the call asks with PASV at most PasvAttempts times   *)
(* and with PORT at most once, never PASV after PORT, and returns either   *)
(* a socket or none.  Module FtpSession uses the call in this form; module *)
(* DataConnection is the code that implements it.                          *)
(***************************************************************************)
EXTENDS Integers

CONSTANT PasvAttempts   \* cip->maxNumberOfSuccessivePASVAttempts

VARIABLES
  phase,   \* "idle", asking with "pasv" or with "port", "open", or "xfer"
  tries,   \* how many more times PASV may be sent
  socket   \* what the caller has: cip->dataSocket

svars == <<phase, tries, socket>>

Init == phase = "idle" /\ tries = 0 /\ socket = "closed"

Ask ==
  /\ phase = "idle" /\ socket' = "closed"
  /\ \/ phase' = "pasv" /\ tries' = PasvAttempts - 1
     \/ phase' = "port" /\ tries' = PasvAttempts
     \/ phase' = "idle" /\ tries' = PasvAttempts

AskAgain ==
  /\ phase = "pasv" /\ tries > 0
  /\ tries' = tries - 1
  /\ UNCHANGED <<phase, socket>>

(* When PASV leads nowhere PORT may follow, and the attempts are used up   *)
(* unless PASV was refused.                                                *)
AskWithPort ==
  /\ phase = "pasv" /\ phase' = "port"
  /\ UNCHANGED <<tries, socket>>

(* A socket connected to nothing is returned after the last attempt only.  *)
Opens ==
  /\ phase' = "open"
  /\ \/ phase = "pasv" /\ socket' = "connected" /\ UNCHANGED tries
     \/ phase = "pasv" /\ tries = 0 /\ socket' = "unconnected" /\ tries' = -1
     \/ phase = "port" /\ socket' = "listening" /\ UNCHANGED tries

Fails ==
  /\ phase \in {"pasv", "port"} /\ phase' = "idle"
  /\ UNCHANGED <<tries, socket>>

Accepts ==
  /\ phase = "open" /\ phase' = "xfer"
  /\ socket' = IF socket = "listening" THEN "connected" ELSE socket
  /\ UNCHANGED tries

(* The socket is closed, or kept by a caller that forgets it.              *)
Ends ==
  /\ phase \in {"idle", "open", "xfer"} /\ phase' = "idle"
  /\ socket' \in {"closed", socket}
  /\ UNCHANGED tries

Next == Ask \/ AskAgain \/ AskWithPort \/ Opens \/ Fails \/ Accepts \/ Ends

Spec == Init /\ [][Next]_svars
=============================================================================
