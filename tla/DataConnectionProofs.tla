------------------------ MODULE DataConnectionProofs ------------------------
(***************************************************************************)
(* Proofs of the safety properties of DataConnection, and that it          *)
(* implements DataSetup, for every number of PASV attempts.                *)
(***************************************************************************)
EXTENDS DataConnection, TLAPS

(* The inductive invariant.  An attempt counter above zero is what makes   *)
(* the loop of OpenDataConnection go round, so inside the call it cannot   *)
(* have run out; and a socket that waits for the server goes with the mode *)
(* that makes AcceptDataConnection accept.                                 *)
Inside == {"pasv", "port", "connect"}

IInv ==
  /\ TypeOK
  /\ NoSocketLost
  /\ pc \in Inside => dataSocket = "closed" /\ attempts \in Nat
  /\ pc \in {"pasv", "connect"} => dataPortMode # "port"
  /\ pc = "connect" => peer = "passive"
  /\ pc = "open" => dataSocket # "closed"
  /\ EndsMeet
  /\ AcceptMatches

(* The invariant holds at first.                                           *)
LEMMA InitInv == Init => IInv
BY AttemptsAssumption
   DEF Init, IInv, TypeOK, NoSocketLost, EndsMeet, AcceptMatches, Inside, Held, Mode, Availability

(* It holds again when the control flow leaves tryPort2.                   *)
LEMMA TryPort2Step ==
  ASSUME NEW n \in 0 .. PasvAttempts, NEW h \in Availability, NEW held, held = 0,
         n = PasvAttempts \/ (h # "unknown" /\ dataPortMode = "fallback"),
         TypeOK, TryPort2(n, h, held), dataPortMode' = dataPortMode,
         servDataAddr' = servDataAddr, control' = control, peer' = peer
  PROVE  IInv'
<1>1. n \in Nat /\ n - 1 \in -1 .. PasvAttempts /\ (n > 0 => n - 1 \in Nat)
  BY AttemptsAssumption
<1> QED
  BY <1>1, AttemptsAssumption
     DEF TryPort2, TryPort, Success, RCmd, Bad, IInv, TypeOK, NoSocketLost, EndsMeet,
         AcceptMatches, Inside, Held, Mode, Availability

(* Every step of the data connection keeps the invariant.                  *)
LEMMA InvStep == IInv /\ [Next]_vars => IInv'
<1> SUFFICES ASSUME IInv, [Next]_vars PROVE IInv'
  OBVIOUS
<1> USE DEF IInv, TypeOK, NoSocketLost, EndsMeet, AcceptMatches, Inside, Held
<1>1. CASE UNCHANGED vars
  BY <1>1 DEF vars
<1>2. CASE OpenDataConnection
  <2>1. fds - Held(dataSocket) = 0 /\ PasvAttempts \in 0 .. PasvAttempts
    BY <1>2, AttemptsAssumption DEF OpenDataConnection
  <2> QED
    BY <1>2, <2>1, TryPort2Step DEF OpenDataConnection
<1>3. CASE PassiveRefused
  <2>1. control' \in BOOLEAN
    BY <1>3 DEF PassiveRefused
  <2> QED
    BY <1>3, <2>1 DEF PassiveRefused, TryPort, RCmd, Bad, Availability
<1>4. CASE PassiveAccepted
  BY <1>4 DEF PassiveAccepted, Bad
<1>5. CASE Connected
  BY <1>5 DEF Connected, Success, Bad, Availability
<1>6. CASE RetryPassive
  BY <1>6, AttemptsAssumption DEF RetryPassive, RCmd, Bad
<1>7. CASE PassiveExhausted
  <2>1. CASE dataPortMode = "fallback"
    <3> DEFINE h == IF hasPASV = "unknown" THEN "notAvailable" ELSE hasPASV
    <3>1. fds - 1 = 0 /\ 0 \in 0 .. PasvAttempts /\ h \in Availability /\ h # "unknown"
      BY <1>7, AttemptsAssumption DEF PassiveExhausted, Availability
    <3>2. TryPort2(0, h, fds - 1)
      BY <1>7, <2>1 DEF PassiveExhausted
    <3> QED
      BY <1>7, <2>1, <3>1, <3>2, TryPort2Step DEF PassiveExhausted
  <2>2. CASE dataPortMode # "fallback"
    BY <1>7, <2>2 DEF PassiveExhausted, Bad
  <2> QED
    BY <2>1, <2>2
<1>8. CASE PortAccepted
  BY <1>8 DEF PortAccepted, Success, Mode
<1>9. CASE PortRefused
  <2>1. control' \in BOOLEAN
    BY <1>9 DEF PortRefused
  <2> QED
    BY <1>9, <2>1 DEF PortRefused, Bad
<1>10. CASE AcceptDataConnection
  BY <1>10 DEF AcceptDataConnection
<1>11. CASE CloseDataConnection
  <2>1. control' \in BOOLEAN
    BY <1>11 DEF CloseDataConnection
  <2> QED
    BY <1>11, <2>1 DEF CloseDataConnection
<1>12. CASE ListTimesOut
  BY <1>12 DEF ListTimesOut
<1>13. CASE FTPOpenHost
  BY <1>13 DEF FTPOpenHost, Availability
<1>14. CASE SetPassive
  BY <1>14 DEF SetPassive
<1> QED
  BY <1>1, <1>2, <1>3, <1>4, <1>5, <1>6, <1>7, <1>8, <1>9, <1>10, <1>11, <1>12, <1>13, <1>14
     DEF Next, Opening

(* The invariant holds in every reachable state.                           *)
LEMMA Invariance == Spec => []IInv
BY InitInv, InvStep, PTL DEF Spec

(* TypeOK holds in every reachable state.                                  *)
THEOREM TypeCorrect == Spec => []TypeOK
<1>1. IInv => TypeOK
  BY DEF IInv
<1> QED
  BY <1>1, Invariance, PTL

(* The two ends of a data connection always meet, but for the one case     *)
(* EndsMeet names.                                                         *)
THEOREM AlwaysEndsMeet == Spec => []EndsMeet
<1>1. IInv => EndsMeet
  BY DEF IInv
<1> QED
  BY <1>1, Invariance, PTL

(* AcceptDataConnection accepts exactly when the socket listens.           *)
THEOREM AlwaysAcceptMatches == Spec => []AcceptMatches
<1>1. IInv => AcceptMatches
  BY DEF IInv
<1> QED
  BY <1>1, Invariance, PTL

(* No data socket is ever lost or closed twice.                            *)
THEOREM AlwaysNoSocketLost == Spec => []NoSocketLost
<1>1. IInv => NoSocketLost
  BY DEF IInv
<1> QED
  BY <1>1, Invariance, PTL
-----------------------------------------------------------------------------
(* A step through tryPort2 is a step of DataSetup: from the beginning of a *)
(* call it asks or fails, after the last attempt it goes on to PORT, fails *)
(* or opens a socket connected to nothing.                                 *)
LEMMA TryPort2Refines ==
  ASSUME IInv, NEW n, NEW h, NEW held, TryPort2(n, h, held),
         \/ pc = "idle" /\ n = PasvAttempts
         \/ pc = "connect" /\ attempts = 0 /\ n = 0 /\ h # "unknown"
  PROVE  [Setup!Next]_Setup!svars
<1>1. CASE pc = "idle" /\ n = PasvAttempts
  BY <1>1, AttemptsAssumption
     DEF TryPort2, TryPort, Success, RCmd, Bad, Setup!Next, Setup!Ask, Setup!svars
<1>2. CASE pc = "connect" /\ attempts = 0 /\ n = 0
  BY <1>2 DEF IInv, Inside, TryPort2, TryPort, Success, RCmd, Bad, Setup!Next, Setup!AskWithPort,
              Setup!Opens, Setup!Fails, Setup!svars
<1> QED
  BY <1>1, <1>2

(* Every step of DataConnection is a step of DataSetup or changes nothing  *)
(* of it.                                                                  *)
LEMMA SetupStep == IInv /\ [Next]_vars => [Setup!Next]_Setup!svars
<1> SUFFICES ASSUME IInv, [Next]_vars PROVE [Setup!Next]_Setup!svars
  OBVIOUS
<1> USE DEF Setup!svars, Setup!Next
<1>1. CASE UNCHANGED vars
  BY <1>1 DEF vars
<1>2. CASE OpenDataConnection
  BY <1>2, TryPort2Refines DEF OpenDataConnection
<1>3. CASE PassiveRefused
  BY <1>3 DEF IInv, Inside, PassiveRefused, TryPort, RCmd, Bad, Setup!AskWithPort, Setup!Fails
<1>4. CASE PassiveAccepted
  BY <1>4 DEF IInv, Inside, PassiveAccepted, Bad, Setup!Fails
<1>5. CASE Connected
  BY <1>5 DEF IInv, Inside, Connected, Success, Bad, Setup!Opens, Setup!Fails
<1>6. CASE RetryPassive
  BY <1>6 DEF IInv, Inside, RetryPassive, RCmd, Bad, Setup!AskAgain, Setup!Fails
<1>7. CASE PassiveExhausted
  <2>1. CASE dataPortMode = "fallback"
    BY <1>7, <2>1, TryPort2Refines DEF PassiveExhausted, IInv, TypeOK, Availability
  <2>2. CASE dataPortMode # "fallback"
    BY <1>7, <2>2 DEF IInv, Inside, PassiveExhausted, Bad, Setup!Fails
  <2> QED
    BY <2>1, <2>2
<1>8. CASE PortAccepted
  BY <1>8 DEF PortAccepted, Success, Setup!Opens
<1>9. CASE PortRefused
  BY <1>9 DEF IInv, Inside, PortRefused, Bad, Setup!Fails
<1>10. CASE AcceptDataConnection
  BY <1>10 DEF IInv, AcceptMatches, AcceptDataConnection, Setup!Accepts, Setup!Ends
<1>11. CASE CloseDataConnection
  BY <1>11 DEF CloseDataConnection, Setup!Ends
<1>12. CASE ListTimesOut
  BY <1>12 DEF ListTimesOut, Setup!Ends
<1>13. CASE FTPOpenHost
  BY <1>13 DEF FTPOpenHost, Setup!Ends
<1>14. CASE SetPassive
  BY <1>14 DEF SetPassive
<1> QED
  BY <1>1, <1>2, <1>3, <1>4, <1>5, <1>6, <1>7, <1>8, <1>9, <1>10, <1>11, <1>12, <1>13, <1>14
     DEF Next, Opening

(* OpenDataConnection and what surrounds it implement DataSetup, which is  *)
(* how FtpSession uses them.                                               *)
THEOREM ImplementsSetup == Spec => SetupSpec
<1>1. Init => Setup!Init
  BY DEF Init, Setup!Init
<1> QED
  BY <1>1, SetupStep, Invariance, PTL DEF Spec, SetupSpec, Setup!Spec
=============================================================================
