-------------------------- MODULE FtpSessionProofs --------------------------
(***************************************************************************)
(* Proofs about FtpSession, for every value of its constants: the number   *)
(* of PASV attempts, the abort timeout, the backlog, with and without PORT *)
(* and ^C.                                                                 *)
(***************************************************************************)
EXTENDS FtpSession, SequenceTheorems, TLAPS

(* A class and a kind make a reply that has this class and this kind.      *)
LEMMA ReplyType ==
  ASSUME NEW c \in Class, NEW k \in Kind
  PROVE  /\ Reply(c, k) \in Replies
         /\ Reply(c, k).class = c /\ Reply(c, k).to = k
BY DEF Replies, Reply

(* NoReply and Failed, which are not replies, differ from every reply and  *)
(* from each other.                                                        *)
LEMMA NotReplies ==
  /\ NoReply \notin Replies /\ Failed \notin Replies /\ NoReply # Failed
  /\ NoReply.class = "none" /\ Failed.class = "error"
BY DEF Replies, Reply, Class, NoReply, Failed

(* A command appended to the commands under way leaves a sequence of       *)
(* commands.                                                               *)
LEMMA AppendKind == \A q \in Seq(Kind) : \A k \in Kind : Append(q, k) \in Seq(Kind)
OBVIOUS

(* Sending a command keeps the control channel a sequence of commands.     *)
LEMMA RCmdType ==
  ASSUME cmd \in Seq(Kind), NEW k \in Kind, NEW l, RCmd(k, l)
  PROVE  cmd' \in Seq(Kind) /\ pc' = l /\ resp' \in {NoReply, Failed}
BY AppendKind DEF RCmd, FTPSendCommandStr, SendFails

(* Sending ABOR keeps the types of what it changes.                        *)
LEMMA AbortBeginsType ==
  ASSUME TypeOK, AbortBegins
  PROVE  cmd' \in Seq(Kind) /\ pc' \in Locations /\ resp' = NoReply /\ slips' \subseteq Slip
<1>1. "ABOR" \in Kind /\ cmd \in Seq(Kind)
  BY DEF TypeOK, Kind
<1>2. cmd' = cmd \/ cmd' = Append(cmd, "ABOR")
  BY DEF AbortBegins, FTPSendCommandStr, SendFails
<1>3. cmd' \in Seq(Kind)
  BY <1>1, <1>2, AppendKind
<1> QED
  BY <1>3 DEF TypeOK, AbortBegins, GoTo, Slip, Locations, Waits

(* The end of FTPAbortDataTransfer keeps the types, with the data          *)
(* connection closed.                                                      *)
LEMMA AbortEndsType ==
  ASSUME TypeOK, NEW aborted \in BOOLEAN, AbortEnds(aborted)
  PROVE  /\ cmd' \in Seq(Kind) /\ pc' \in Locations /\ resp' \in {NoReply, Failed}
         /\ dataSocket' = "closed" /\ canceled' \in BOOLEAN
BY RCmdType DEF TypeOK, AbortEnds, FTPEndDataCmd, GoTo, Kind, Locations, Waits

(* What taking from and adding to the channels keeps.                      *)
LEMMA ChannelType ==
  /\ <<>> \in Seq(Kind) /\ <<>> \in Seq(Replies)
  /\ \A q \in Seq(Replies) : q # <<>> => Head(q) \in Replies /\ Tail(q) \in Seq(Replies)
  /\ \A q \in Seq(Kind) : q # <<>> => Tail(q) \in Seq(Kind)
  /\ \A q \in Seq(Replies) : \A r \in Replies : Append(q, r) \in Seq(Replies)
  /\ \A q \in Seq(Replies) : \A r, t \in Replies :
       q \o <<r>> \in Seq(Replies) /\ q \o <<r, t>> \in Seq(Replies)
OBVIOUS

(* The count of PASV attempts stays in its range.                          *)
LEMMA TriesType ==
  /\ PasvAttempts - 1 \in 0 .. PasvAttempts
  /\ \A t \in 0 .. PasvAttempts : t > 0 => t - 1 \in 0 .. PasvAttempts
BY SessionAssumption

(* No step of the session leaves the types.                                *)
LEMMA TypeStep == TypeOK /\ [Next]_vars => TypeOK'
<1> SUFFICES ASSUME TypeOK, [Next]_vars PROVE TypeOK'
  OBVIOUS
<1>1. CASE UNCHANGED vars
  BY <1>1 DEF TypeOK, vars, client, channel
<1>2. CASE FTPCmd
  BY <1>2, RCmdType DEF TypeOK, FTPCmd, Kind, Locations, Waits
<1>3. CASE FTPStartDataCmd
  BY <1>3, RCmdType, TriesType
  DEF TypeOK, FTPStartDataCmd, OpenDataConnection, Kind, Locations, Waits
<1>4. CASE FTPCloseHost
  BY <1>4, RCmdType, AbortBeginsType DEF TypeOK, FTPCloseHost, Kind, Locations, Waits
<1>5. CASE FTPOpenHost
  BY <1>5, ChannelType DEF TypeOK, FTPOpenHost
<1>6. CASE UserCancels
  BY <1>6 DEF TypeOK, UserCancels, channel
<1>7. CASE GetResponse
  <2>1. CASE ReplyRead
    <3>1. rep' \in Seq(Replies) /\ resp' \in Replies \cup {Failed}
      BY <2>1, ChannelType DEF TypeOK, ReplyRead
    <3>2. buffered' \in Nat
      BY <2>1, <3>1 DEF TypeOK, ReplyRead
    <3> QED
      BY <1>7, <2>1, <3>1, <3>2 DEF TypeOK, GetResponse, ReplyRead
  <2>2. CASE ReplyIsEnd \/ ReplyTimedOut \/ ReplyGivenUpAtOnce
    <3>1. FTPShutdownHost /\ resp' = Failed
      BY <2>2 DEF ReplyIsEnd, ReplyTimedOut, ReplyGivenUpAtOnce
    <3> QED
      BY <1>7, <3>1, ChannelType DEF TypeOK, GetResponse, FTPShutdownHost
  <2>3. CASE ReplyOfClosedConnection
    BY <1>7, <2>3 DEF TypeOK, GetResponse, ReplyOfClosedConnection
  <2> QED
    BY <1>7, <2>1, <2>2, <2>3 DEF GetResponse
<1>8. CASE FTPCmdReturns
  BY <1>8 DEF TypeOK, FTPCmdReturns, GoTo, channel, Locations
<1>9. CASE FTPSetTransferTypeReturns
  BY <1>9, RCmdType, TriesType
  DEF TypeOK, FTPSetTransferTypeReturns, OpenDataConnection, GoTo, Kind, Locations, Waits
<1>10. CASE FTPSendPassiveReturns
  BY <1>10, RCmdType, TriesType
  DEF TypeOK, FTPSendPassiveReturns, PasvAccepted, PasvRefused, FTPSetStartOffset, StartFails,
      GoTo, Kind, Locations, Waits
<1>11. CASE FTPSendPortReturns
  BY <1>11, RCmdType
  DEF TypeOK, FTPSendPortReturns, FTPSetStartOffset, StartFails, GoTo, Kind, Locations, Waits
<1>12. CASE FTPSetStartOffsetReturns
  <2>1. \A x \in Xfer : /\ [x EXCEPT !.verb = "APPE"] \in Xfer
                        /\ [x EXCEPT !.offset = FALSE] \in Xfer
    BY DEF Xfer, Verb
  <2>2. xfer' \in Xfer
    BY <1>12, <2>1 DEF TypeOK, FTPSetStartOffsetReturns
  <2>3. cmd' \in Seq(Kind) /\ pc' \in Locations /\ resp' \in {NoReply, Failed}
    BY <1>12, RCmdType DEF TypeOK, FTPSetStartOffsetReturns, Kind, Locations, Waits
  <2> QED
    BY <1>12, <2>2, <2>3 DEF TypeOK, FTPSetStartOffsetReturns
<1>13. CASE FTPStartDataCmdAnswered
  BY <1>13, RCmdType
  DEF TypeOK, FTPStartDataCmdAnswered, StartAccepted, StartRefused, StartFails, FTPInitIOTimer,
      GoTo, Kind, Locations, Waits
<1>14. CASE FTPRetryAsAppend
  <2>1. xfer' = [xfer EXCEPT !.verb = "APPE"] /\ xfer \in Xfer
    BY <1>14 DEF TypeOK, FTPRetryAsAppend
  <2>2. xfer' \in Xfer
    BY <2>1 DEF Xfer, Verb
  <2>3. cmd' \in Seq(Kind)
    <3>1. "DATA" \in Kind /\ cmd \in Seq(Kind)
      BY DEF TypeOK, Kind
    <3>2. cmd' = cmd \/ cmd' = Append(cmd, "DATA")
      BY <1>14 DEF FTPRetryAsAppend, FTPSendCommandStr, SendFails
    <3> QED
      BY <3>1, <3>2, AppendKind
  <2>4. pc' \in Locations /\ resp' = NoReply
    BY <1>14 DEF FTPRetryAsAppend, GoTo, Locations, Waits
  <2>5. UNCHANGED <<connected, dataSocket, canceled, cancelXfer, dataTimedOut, tries,
                    rep, srv, slips, closing, buffered>>
    BY <1>14 DEF FTPRetryAsAppend
  <2> QED
    BY <2>2, <2>3, <2>4, <2>5 DEF TypeOK
<1>15. CASE AcceptDataConnection
  BY <1>15 DEF TypeOK, AcceptDataConnection, StartFails, FTPInitIOTimer, GoTo, Slip, Locations
<1>16. CASE TransferEnds \/ ListTimesOut
  BY <1>16
  DEF TypeOK, TransferEnds, ListTimesOut, FTPEndDataCmd, GoTo, channel, Slip, Locations, Waits
<1>17. CASE FTPEndDataCmdReturns
  BY <1>17 DEF TypeOK, FTPEndDataCmdReturns, GoTo, channel, Locations
<1>18. CASE FTPAbortDataTransfer
  BY <1>18, AbortBeginsType DEF TypeOK, FTPAbortDataTransfer
<1>19. CASE AbortReplyReady \/ AbortFirstTimeout
  BY <1>19 DEF TypeOK, AbortReplyReady, AbortFirstTimeout, GoTo, channel, Locations, Waits
<1>20. CASE AbortSecondTimeout \/ AbortFirstReply \/ AbortSecondReply
  <2>1. CASE AbortEnds(FALSE) \/ AbortEnds(resp # Failed)
    BY <1>20, <2>1, AbortEndsType
    DEF TypeOK, AbortSecondTimeout, AbortFirstReply, AbortSecondReply, Slip, GoTo
  <2>2. CASE GoTo("abor2") /\ UNCHANGED <<dataSocket, canceled, cmd, slips>>
    BY <1>20, <2>2
    DEF TypeOK, AbortSecondTimeout, AbortFirstReply, AbortSecondReply, GoTo, Locations, Waits
  <2> QED
    BY <1>20, <2>1, <2>2 DEF AbortSecondTimeout, AbortFirstReply, AbortSecondReply
<1>21. CASE FTPCloseHostReturns
  BY <1>21, ChannelType DEF TypeOK, FTPCloseHostReturns, GoTo, Locations
<1>22. CASE Server
  <2>1. cmd' \in Seq(Kind)
    BY <1>22, ChannelType
    DEF TypeOK, Server, ServeCommand, ServeTransfer, FinishTransfer, AbortTransfer,
        NothingToAbort, ServeQuit, ServerGoes, Answer, Served
  <2>2. CASE ServeCommand
    <3>1. rep' \in Seq(Replies)
      BY <2>2, ReplyType, ChannelType DEF TypeOK, ServeCommand, Answer, Kind, Class
    <3> QED
      BY <2>1, <2>2, <3>1 DEF TypeOK, ServeCommand, client
  <2>3. CASE ServeTransfer
    <3>1. \A c \in {"prelim", "permanent", "junk"} : Reply(c, "DATA") \in Replies
      BY ReplyType DEF Kind, Class
    <3>2. rep' \in Seq(Replies)
      BY <2>3, <3>1, ChannelType DEF TypeOK, ServeTransfer, Answer
    <3> QED
      BY <2>1, <2>3, <3>2 DEF TypeOK, ServeTransfer, client
  <2>4. CASE FinishTransfer
    <3>1. rep' \in Seq(Replies)
      BY <2>4, ReplyType, ChannelType DEF TypeOK, FinishTransfer, Kind, Class
    <3> QED
      BY <2>1, <2>4, <3>1 DEF TypeOK, FinishTransfer, client, Slip
  <2>5. CASE AbortTransfer
    <3>1. /\ Reply("transient", "DATA") \in Replies
          /\ Reply("ok", "ABOR") \in Replies
      BY ReplyType DEF Kind, Class
    <3>2. rep' \in Seq(Replies)
      BY <2>5, <3>1, ChannelType DEF TypeOK, AbortTransfer, Answer
    <3> QED
      BY <2>1, <2>5, <3>2 DEF TypeOK, AbortTransfer, client
  <2>6. CASE NothingToAbort
    <3>1. rep' \in Seq(Replies)
      BY <2>6, ReplyType, ChannelType DEF TypeOK, NothingToAbort, Answer, Kind, Class
    <3> QED
      BY <2>1, <2>6, <3>1 DEF TypeOK, NothingToAbort, client
  <2>7. CASE ServeQuit
    <3>1. rep' \in Seq(Replies)
      BY <2>7, ReplyType, ChannelType DEF TypeOK, ServeQuit, Answer, Kind, Class
    <3> QED
      BY <2>1, <2>7, <3>1 DEF TypeOK, ServeQuit, client
  <2>8. CASE ServerGoes
    BY <2>1, <2>8 DEF TypeOK, ServerGoes, client
  <2> QED
    BY <1>22, <2>2, <2>3, <2>4, <2>5, <2>6, <2>7, <2>8 DEF Server
<1> QED
  BY <1>1, <1>2, <1>3, <1>4, <1>5, <1>6, <1>7, <1>8, <1>9, <1>10, <1>11, <1>12, <1>13, <1>14,
     <1>15, <1>16, <1>17, <1>18, <1>19, <1>20, <1>21, <1>22
  DEF Next, Caller, Library

(* The initial states have the types of TypeOK.                            *)
LEMMA InitType == Init => TypeOK
<1> SUFFICES ASSUME Init PROVE TypeOK
  OBVIOUS
<1>1. xfer \in Xfer
  BY DEF Init, Xfer, Verb
<1>2. tries \in 0 .. PasvAttempts
  BY SessionAssumption DEF Init
<1> QED
  BY <1>1, <1>2, ChannelType DEF Init, TypeOK, Locations, Waits, Slip

(* TypeOK holds in every reachable state of the session.                   *)
THEOREM TypeCorrect == Spec => []TypeOK
BY InitType, TypeStep, PTL DEF Spec

-----------------------------------------------------------------------------
(***************************************************************************)
(* Client and server in step.  The inductive invariant adds to Wire and to *)
(* OwnReply what they need: that only a wait holds an answer, that nothing *)
(* is left of a connection once it is closed, and that FTPCloseHost aborts *)
(* nothing short of a slip.                                                *)
(***************************************************************************)
OnlyWaitsHold == pc \notin Waits => resp = NoReply
NothingLeft   == ~connected => srv = "gone"

ClosingQuits  ==
  closing => pc = "quit" \/ (pc \in {"abto1", "abto2", "abor1", "abor2"} /\ slips # {})

IInv == TypeOK /\ OnlyWaitsHold /\ NothingLeft /\ ClosingQuits /\ Wire /\ OwnReply

(* A command sent on a settled connection is all there is on it; one that  *)
(* could not be sent leaves it settled.                                    *)
LEMMA Sending ==
  ASSUME TypeOK, Settled, connected, NEW k \in Kind, NEW l, RCmd(k, l),
         rep' = rep, srv' = srv
  PROVE  /\ resp' = NoReply => Owing(k)' /\ (k = "DATA" => Starting')
         /\ resp' # NoReply => resp' = Failed /\ Settled'
<1>1. CASE srv = "ready"
  <2>1. FTPSendCommandStr(k) /\ resp' = NoReply
    BY <1>1 DEF RCmd, SendFails
  <2>2. cmd' = <<k>>
    BY <1>1, <2>1 DEF FTPSendCommandStr, Settled, Silent
  <2> QED
    BY <1>1, <2>1, <2>2 DEF Settled, Silent, Owing, Starting
<1>2. CASE srv = "gone"
  <2>1. cmd' = <<>>
    BY <1>2 DEF RCmd, FTPSendCommandStr, SendFails, Settled, Silent
  <2> QED
    BY <1>2, <2>1 DEF RCmd, Settled, Silent, NotBusy, Owing, Starting
<1> QED
  BY <1>1, <1>2 DEF Settled, NotBusy

(* No step of the server disturbs a settled connection, and none takes     *)
(* away or adds to what a command is owed, short of a slip.                *)
LEMMA ServerSettled == TypeOK /\ Settled /\ Server => Settled'
BY DEF TypeOK, Server, ServeCommand, ServeTransfer, FinishTransfer, AbortTransfer, NothingToAbort,
       ServeQuit, ServerGoes, Answer, Served, client, Settled, Silent, NotBusy

(* No step of the server disturbs a final reply that is due and nothing    *)
(* else.                                                                   *)
LEMMA ServerDue ==
  ASSUME TypeOK, Server, NEW k, Due(k) PROVE Due(k)'
BY DEF TypeOK, Server, ServeCommand, ServeTransfer, FinishTransfer, AbortTransfer, NothingToAbort,
       ServeQuit, ServerGoes, Answer, Served, client, Due, NotBusy

(* The server owes an answer until it has sent it or is gone.              *)
LEMMA ServerOwing ==
  ASSUME TypeOK, Server, NEW k \in {"CMD", "QUIT"}, Owing(k) PROVE Owing(k)'
<1>1. CASE Due(k)
  BY <1>1, ServerDue DEF Owing
<1>2. CASE srv = "gone" /\ Silent
  BY <1>2 DEF Server, ServeCommand, ServeTransfer, FinishTransfer, AbortTransfer, NothingToAbort,
              ServeQuit, ServerGoes, Served, Silent
<1>3. CASE srv = "ready" /\ cmd = <<k>> /\ rep = <<>>
  <2>1. CASE ServeCommand
    BY <1>3, <2>1 DEF ServeCommand, Answer, Served, Owing, Due, Reply, NotBusy
  <2>2. CASE ServeQuit
    BY <1>3, <2>2 DEF ServeQuit, Answer, Served, Owing, Due, Reply, NotBusy
  <2>3. CASE ServerGoes
    BY <1>3, <2>3 DEF ServerGoes, Owing, Silent
  <2> QED
    BY <1>3, <2>1, <2>2, <2>3
    DEF Server, ServeTransfer, FinishTransfer, AbortTransfer, NothingToAbort, Served
<1> QED
  BY <1>1, <1>2, <1>3 DEF Owing

(* A running transfer goes on, ends with one final reply, or dies with the *)
(* server.                                                                 *)
LEMMA ServerRunning ==
  ASSUME TypeOK, Server, Running PROVE Running'
<1>1. CASE Due("DATA")
  BY <1>1, ServerDue DEF Running
<1>2. CASE srv = "gone" /\ Silent
  BY <1>2 DEF Server, ServeCommand, ServeTransfer, FinishTransfer, AbortTransfer, NothingToAbort,
              ServeQuit, ServerGoes, Served, Silent
<1>3. CASE srv = "transferring" /\ Silent
  <2>1. CASE FinishTransfer
    BY <1>3, <2>1 DEF FinishTransfer, Running, Silent, Due, Reply, NotBusy
  <2>2. CASE ServerGoes
    BY <1>3, <2>2 DEF ServerGoes, Running, Silent
  <2> QED
    BY <1>3, <2>1, <2>2
    DEF Server, ServeCommand, ServeTransfer, AbortTransfer, NothingToAbort, ServeQuit, Served, Silent
<1> QED
  BY <1>1, <1>2, <1>3 DEF Running

(* The server adds nothing to the reply to ABOR.                           *)
LEMMA ServerAcknowledged == TypeOK /\ Server /\ Acknowledged => Acknowledged'
BY DEF Server, ServeCommand, ServeTransfer, FinishTransfer, AbortTransfer, NothingToAbort,
       ServeQuit, ServerGoes, Served, client, Acknowledged, NotBusy

(* The server that meets ABOR in time answers with both replies, in that   *)
(* order.                                                                  *)
LEMMA ServerAborting ==
  ASSUME TypeOK, Server, Aborting, slips' = {} PROVE Aborting'
<1>1. CASE srv = "gone" /\ Silent
  BY <1>1 DEF Server, ServeCommand, ServeTransfer, FinishTransfer, AbortTransfer, NothingToAbort,
              ServeQuit, ServerGoes, Served, Silent
<1>2. CASE NotBusy /\ cmd = <<>> /\ rep = AbortReplies
  BY <1>2 DEF Server, ServeCommand, ServeTransfer, FinishTransfer, AbortTransfer, NothingToAbort,
              ServeQuit, ServerGoes, Served, NotBusy, Aborting, client
<1>3. CASE srv = "transferring" /\ cmd = <<"ABOR">> /\ rep = <<>>
  <2>1. CASE FinishTransfer
    BY <1>3, <2>1 DEF FinishTransfer, Served
  <2>2. CASE AbortTransfer
    <3>1. cmd' = <<>> /\ rep' = AbortReplies
      BY <1>3, <2>2 DEF AbortTransfer, Answer, AbortReplies
    <3> QED
      BY <2>2, <3>1 DEF AbortTransfer, Aborting, NotBusy
  <2>3. CASE ServerGoes
    BY <1>3, <2>3 DEF ServerGoes, Aborting, Silent
  <2> QED
    BY <1>3, <2>1, <2>2, <2>3
    DEF Server, ServeCommand, ServeTransfer, NothingToAbort, ServeQuit
<1> QED
  BY <1>1, <1>2, <1>3 DEF Aborting

(* What a second reply behind a first one looks like to the client.        *)
LEMMA AppendSecond ==
  ASSUME NEW q \in Seq(Replies), Len(q) = 1, NEW r \in Replies
  PROVE  /\ Len(Append(q, r)) = 2 /\ Append(q, r) # <<>>
         /\ Append(q, r)[1] = q[1] /\ Append(q, r)[2] = r
<1> DEFINE t == Append(q, r)
<1>1. /\ t \in Seq(Replies)
      /\ t # << >>
      /\ Len(t) = Len(q)+1
      /\ \A i \in 1.. Len(q) : t[i] = q[i]
      /\ t[Len(q)+1] = r
  BY AppendProperties, ZenonT(60)
<1> HIDE DEF t
<1>2. Len(t) = 2 /\ t[1] = q[1] /\ t[2] = r
  BY <1>1
<1> QED
  BY <1>1, <1>2 DEF t

(* The server that is sent a transfer command refuses it or starts the     *)
(* transfer.                                                               *)
LEMMA ServerStarting ==
  ASSUME TypeOK, Server, Starting PROVE Starting'
<1>1. CASE srv = "ready" /\ cmd = <<"DATA">> /\ rep = <<>>
  <2>1. CASE ServeTransfer
    BY <1>1, <2>1 DEF ServeTransfer, Answer, Starting, Due, Reply, NotBusy
  <2>2. CASE ServerGoes
    BY <1>1, <2>2 DEF ServerGoes, Starting, Silent
  <2> QED
    BY <1>1, <2>1, <2>2
    DEF Server, ServeCommand, FinishTransfer, AbortTransfer, NothingToAbort, ServeQuit, Served
<1>2. CASE Due("DATA") /\ rep[1].class \in {"permanent", "junk"}
  <2>1. rep' = rep
    BY <1>2 DEF Due, NotBusy, Server, ServeCommand, ServeTransfer, FinishTransfer, AbortTransfer,
                NothingToAbort, ServeQuit, ServerGoes, Served
  <2> QED
    BY <1>2, <2>1, ServerDue DEF Starting
<1>3. CASE /\ cmd = <<>> /\ rep # <<>> /\ rep[1] = Reply("prelim", "DATA")
           /\ srv \in {"transferring", "gone"} /\ Len(rep) = 1
  <2>1. CASE FinishTransfer
    <3>1. PICK c \in {"ok", "transient", "permanent"} : rep' = Append(rep, Reply(c, "DATA"))
      BY <2>1 DEF FinishTransfer
    <3>2. Reply(c, "DATA") \in Replies /\ Reply(c, "DATA").to = "DATA"
      BY ReplyType DEF Class, Kind
    <3>3. /\ Len(rep') = 2 /\ rep' # <<>>
          /\ rep'[1] = rep[1] /\ rep'[2] = Reply(c, "DATA")
      BY <1>3, <3>1, <3>2, AppendSecond DEF TypeOK
    <3> QED
      BY <1>3, <2>1, <3>2, <3>3 DEF FinishTransfer, Starting, NotBusy
  <2>2. CASE ServerGoes
    BY <1>3, <2>2 DEF ServerGoes, Starting
  <2> QED
    BY <1>3, <2>1, <2>2
    DEF Server, ServeCommand, ServeTransfer, AbortTransfer, NothingToAbort, ServeQuit, Served
<1>4. CASE /\ cmd = <<>> /\ rep # <<>> /\ rep[1] = Reply("prelim", "DATA")
           /\ NotBusy /\ Len(rep) = 2 /\ rep[2].to = "DATA"
  BY <1>4 DEF Server, ServeCommand, ServeTransfer, FinishTransfer, AbortTransfer, NothingToAbort,
              ServeQuit, ServerGoes, Served, NotBusy, Starting
<1>5. CASE srv = "gone" /\ Silent
  BY <1>5 DEF Server, ServeCommand, ServeTransfer, FinishTransfer, AbortTransfer, NothingToAbort,
              ServeQuit, ServerGoes, Served, Silent
<1> QED
  BY <1>1, <1>2, <1>3, <1>4, <1>5 DEF Starting

-----------------------------------------------------------------------------
(* What sends or ends a call leads to on the wire, for every action that   *)
(* does so.                                                                *)
LEMMA SentSimple ==
  ASSUME TypeOK, Settled, connected, NEW l \in SimpleWaits \cup {"quit"},
         NEW k \in Kind, k = (IF l = "quit" THEN "QUIT" ELSE "CMD"),
         RCmd(k, l), rep' = rep, srv' = srv
  PROVE  Wire'
<1>1. pc' = l
  BY DEF RCmd
<1>2. IF resp' = NoReply THEN Owing(k)' ELSE Settled'
  BY Sending
<1> QED
  BY <1>1, <1>2 DEF Wire, SimpleWaits

(* A transfer command sent on a settled connection is what its wait is for. *)
LEMMA SentData ==
  ASSUME TypeOK, Settled, connected, RCmd("DATA", "start"), rep' = rep, srv' = srv
  PROVE  Wire'
<1>1. pc' = "start"
  BY DEF RCmd
<1>2. IF resp' = NoReply THEN Starting' ELSE resp' = Failed /\ Settled'
  BY Sending DEF Kind
<1> QED
  BY <1>1, <1>2, NotReplies DEF Wire, SimpleWaits

(* A call that returns on a settled connection leaves it settled.          *)
LEMMA BackToIdle ==
  ASSUME Settled, GoTo("idle"), cmd' = cmd, rep' = rep, srv' = srv
  PROVE  Wire'
BY DEF GoTo, Wire, SimpleWaits, Settled, Silent, NotBusy

(* What is left of one or two replies when the first has been taken.       *)
LEMMA TakeFirst ==
  ASSUME NEW q \in Seq(Replies), q # <<>>
  PROVE  /\ Head(q) = q[1] /\ q[1] \in Replies
         /\ Len(q) = 1 => Tail(q) = <<>>
         /\ Len(q) = 2 => Len(Tail(q)) = 1 /\ Tail(q)[1] = q[2]
<1>1. Head(q) = q[1] /\ q[1] \in Replies
  OBVIOUS
<1> DEFINE t == Tail(q)
<1>2. /\ Head(q) \in Replies
      /\ t \in Seq(Replies)
      /\ Len(t) = Len(q)-1
      /\ \A i \in 1 .. Len(t) : t[i] = q[i+1]
  BY HeadTailProperties, ZenonT(60)
<1>3. t # <<>> => Len(t) \in Nat \ {0}
  BY <1>2, EmptySeq, ZenonT(60)
<1> HIDE DEF t
<1>4. Len(q) = 1 => t = <<>>
  BY <1>2, <1>3
<1>5. Len(q) = 2 => Len(t) = 1 /\ t[1] = q[2]
  BY <1>2
<1> QED
  BY <1>1, <1>4, <1>5 DEF t

(* GetResponse takes from the wire exactly what the wait it serves is for. *)
LEMMA ReadOwing ==
  ASSUME TypeOK, NEW k \in Kind, Owing(k), ReplyRead
  PROVE  Settled' /\ resp' # NoReply /\ (resp' # Failed => resp'.to = k)
<1>1. Due(k)
  BY DEF Owing, ReplyRead, Silent
<1>2. Head(rep) = rep[1] /\ Tail(rep) = <<>> /\ Head(rep) \in Replies
  <2>1. rep \in Seq(Replies) /\ rep # <<>> /\ Len(rep) = 1
    BY <1>1 DEF Due, TypeOK, ReplyRead
  <2> QED
    BY <2>1, TakeFirst
<1> QED
  BY <1>1, <1>2, NotReplies DEF Due, ReplyRead, Settled, Silent, NotBusy

(* The wait for the end of a transfer takes its final reply, and nothing is *)
(* left.                                                                   *)
LEMMA ReadRunning ==
  ASSUME TypeOK, Running, ReplyRead
  PROVE  Settled' /\ resp' # NoReply /\ (resp' # Failed => resp'.to = "DATA")
BY ReadOwing DEF Running, Owing, Kind, ReplyRead, Silent

(* The wait for a transfer's start leaves the transfer running or all      *)
(* settled.                                                                *)
LEMMA ReadStarting ==
  ASSUME TypeOK, Starting, ReplyRead
  PROVE  /\ resp' # NoReply /\ (resp' # Failed => resp'.to = "DATA")
         /\ IF resp'.class = "prelim" THEN Running' ELSE Settled' /\ resp'.class # "ok"
<1>1. CASE Due("DATA") /\ rep[1].class \in {"permanent", "junk"}
  <2>1. Settled' /\ resp' # NoReply /\ (resp' # Failed => resp'.to = "DATA")
    BY <1>1, ReadOwing DEF Owing, Kind
  <2>2. resp' = Failed \/ resp' = rep[1]
    BY <1>1, TakeFirst DEF ReplyRead, TypeOK
  <2> QED
    BY <1>1, <2>1, <2>2, NotReplies
<1>2. CASE /\ cmd = <<>> /\ rep # <<>> /\ rep[1] = Reply("prelim", "DATA")
           /\ \/ srv \in {"transferring", "gone"} /\ Len(rep) = 1
              \/ NotBusy /\ Len(rep) = 2 /\ rep[2].to = "DATA"
  <2>1. /\ rep[1] \in Replies /\ rep[1].class = "prelim" /\ rep[1].to = "DATA"
    BY <1>2, ReplyType DEF Class, Kind
  <2>2. resp' = rep[1] /\ rep' = Tail(rep) /\ cmd' = <<>> /\ srv' = srv
    BY <1>2, <2>1, TakeFirst DEF ReplyRead, TypeOK
  <2>3. ASSUME srv \in {"transferring", "gone"}, Len(rep) = 1 PROVE Running'
    <3>1. rep' = <<>>
      BY <1>2, <2>2, <2>3, TakeFirst DEF TypeOK
    <3> QED
      BY <2>2, <2>3, <3>1 DEF Running, Silent
  <2>4. ASSUME NotBusy, Len(rep) = 2, rep[2].to = "DATA" PROVE Running'
    <3>1. Len(rep') = 1 /\ rep'[1] = rep[2]
      BY <1>2, <2>2, <2>4, TakeFirst DEF TypeOK
    <3>2. Due("DATA")'
      BY <2>2, <2>4, <3>1 DEF Due, NotBusy
    <3> QED
      BY <3>2 DEF Running
  <2>5. Running'
    BY <1>2, <2>3, <2>4
  <2> QED
    BY <2>1, <2>2, <2>5, NotReplies
<1> QED
  BY <1>1, <1>2 DEF Starting, ReplyRead, Silent

(* The first reply read after ABOR is the transfer's, and ABOR's is left.  *)
LEMMA ReadAborting ==
  ASSUME TypeOK, Aborting, ReplyRead
  PROVE  /\ resp' # NoReply /\ resp'.class = "transient" /\ resp'.to = "DATA"
         /\ Acknowledged'
<1>1. NotBusy /\ cmd = <<>> /\ rep = AbortReplies
  BY DEF Aborting, ReplyRead, Silent
<1>2. /\ Head(rep) = Reply("transient", "DATA") /\ Tail(rep) = <<Reply("ok", "ABOR")>>
  BY <1>1 DEF AbortReplies
<1>3. /\ Reply("transient", "DATA") \in Replies
      /\ Reply("transient", "DATA").class = "transient"
      /\ Reply("transient", "DATA").to = "DATA"
  BY ReplyType DEF Class, Kind
<1>4. resp' = Reply("transient", "DATA") /\ rep' = <<Reply("ok", "ABOR")>>
      /\ cmd' = <<>> /\ srv' = srv
  BY <1>1, <1>2, <1>3 DEF ReplyRead
<1>5. Acknowledged'
  BY <1>1, <1>4 DEF Acknowledged, NotBusy
<1> QED
  BY <1>3, <1>4, <1>5, NotReplies

(* The second reply read after ABOR is ABOR's, and nothing is left.        *)
LEMMA ReadAcknowledged ==
  ASSUME TypeOK, Acknowledged, ReplyRead
  PROVE  Settled' /\ resp' \notin {NoReply, Failed} /\ resp'.to = "ABOR"
<1>1. /\ Reply("ok", "ABOR") \in Replies
      /\ Reply("ok", "ABOR").class = "ok" /\ Reply("ok", "ABOR").to = "ABOR"
  BY ReplyType DEF Class, Kind
<1>2. Head(rep) = Reply("ok", "ABOR") /\ Tail(rep) = <<>>
  BY DEF Acknowledged
<1>3. resp' = Reply("ok", "ABOR") /\ rep' = <<>> /\ cmd' = cmd /\ srv' = srv
  BY <1>1, <1>2 DEF ReplyRead
<1> QED
  BY <1>1, <1>3, NotReplies DEF Acknowledged, Settled, Silent, NotBusy

(* What GetResponse leaves behind fits the wait, and what it returns       *)
(* answers the command the wait is for.                                    *)
LEMMA GetResponseStep ==
  ASSUME IInv, GetResponse PROVE Wire' /\ OwnReply'
<1>1. CASE ~ReplyRead \/ ~connected \/ slips # {}
  <2>1. ~connected' \/ slips' # {}
    BY <1>1 DEF GetResponse, ReplyRead, ReplyIsEnd, ReplyTimedOut, ReplyGivenUpAtOnce,
                ReplyOfClosedConnection, FTPShutdownHost
  <2>2. slips' # {} \/ resp' = Failed
    BY <1>1 DEF GetResponse, ReplyRead, ReplyIsEnd, ReplyTimedOut, ReplyGivenUpAtOnce,
                ReplyOfClosedConnection, FTPShutdownHost
  <2> QED
    BY <2>1, <2>2 DEF Wire, OwnReply
<1>2. CASE ReplyRead /\ connected /\ slips = {}
  <2>1. pc \in Waits /\ resp = NoReply /\ pc' = pc /\ slips' = {} /\ connected'
    BY <1>2 DEF GetResponse, ReplyRead
  <2>2. CASE pc \in SimpleWaits
    <3>1. Owing("CMD")
      BY <1>2, <2>1, <2>2 DEF IInv, Wire
    <3>2. Settled' /\ resp' # NoReply /\ (resp' # Failed => resp'.to = "CMD")
      BY <1>2, <3>1, ReadOwing DEF IInv, Kind
    <3> QED
      BY <2>1, <2>2, <3>2 DEF Wire, OwnReply, Expects, SimpleWaits
  <2>3. CASE pc = "quit"
    <3>1. Owing("QUIT")
      BY <1>2, <2>1, <2>3 DEF IInv, Wire
    <3>2. Settled' /\ resp' # NoReply /\ (resp' # Failed => resp'.to = "QUIT")
      BY <1>2, <3>1, ReadOwing DEF IInv, Kind
    <3> QED
      BY <2>1, <2>3, <3>2 DEF Wire, OwnReply, Expects, SimpleWaits
  <2>4. CASE pc = "start"
    <3>1. Starting
      BY <1>2, <2>1, <2>4 DEF IInv, Wire
    <3>2. /\ resp' # NoReply /\ (resp' # Failed => resp'.to = "DATA")
          /\ IF resp'.class = "prelim" THEN Running' ELSE Settled' /\ resp'.class # "ok"
      BY <1>2, <3>1, ReadStarting DEF IInv
    <3> QED
      BY <2>1, <2>4, <3>2 DEF Wire, OwnReply, Expects, SimpleWaits
  <2>5. CASE pc = "end"
    <3>1. Running
      BY <1>2, <2>1, <2>5 DEF IInv, Wire
    <3>2. Settled' /\ resp' # NoReply /\ (resp' # Failed => resp'.to = "DATA")
      BY <1>2, <3>1, ReadRunning DEF IInv
    <3> QED
      BY <2>1, <2>5, <3>2 DEF Wire, OwnReply, Expects, SimpleWaits
  <2>6. CASE pc = "abor1"
    <3>1. Aborting
      BY <1>2, <2>1, <2>6 DEF IInv, Wire
    <3>2. /\ resp' # NoReply /\ resp'.class = "transient" /\ resp'.to = "DATA"
          /\ Acknowledged'
      BY <1>2, <3>1, ReadAborting DEF IInv
    <3> QED
      BY <2>1, <2>6, <3>2 DEF Wire, OwnReply, Expects, SimpleWaits
  <2>7. CASE pc = "abor2"
    <3>1. Acknowledged
      BY <1>2, <2>1, <2>7 DEF IInv, Wire
    <3>2. Settled' /\ resp' \notin {NoReply, Failed} /\ resp'.to = "ABOR"
      BY <1>2, <3>1, ReadAcknowledged DEF IInv
    <3> QED
      BY <2>1, <2>7, <3>2 DEF Wire, OwnReply, Expects, SimpleWaits
  <2> QED
    BY <2>1, <2>2, <2>3, <2>4, <2>5, <2>6, <2>7 DEF Waits, SimpleWaits
<1> QED
  BY <1>1, <1>2

-----------------------------------------------------------------------------
(* What the library and its caller do with the wire between two waits.     *)
LEMMA OpenDataConnectionStep ==
  ASSUME TypeOK, Settled, connected, OpenDataConnection, rep' = rep, srv' = srv
  PROVE  Wire'
BY SentSimple DEF OpenDataConnection, SimpleWaits, Kind

(* REST or the transfer command goes out on a settled connection.          *)
LEMMA SetStartOffsetStep ==
  ASSUME TypeOK, Settled, connected, FTPSetStartOffset, rep' = rep, srv' = srv
  PROVE  Wire'
BY SentSimple, SentData DEF FTPSetStartOffset, SimpleWaits, Kind

(* Wire when a call begins: it finds the connection settled and sends one  *)
(* command.                                                                *)
LEMMA CallStep ==
  ASSUME IInv, connected, slips' = {},
         FTPCmd \/ FTPStartDataCmd \/ FTPCloseHost \/ UserCancels
  PROVE  Wire'
<1>1. CASE FTPCmd
  <2>1. Settled
    BY <1>1 DEF IInv, Wire, FTPCmd
  <2> QED
    BY <1>1, <2>1, SentSimple DEF IInv, FTPCmd, SimpleWaits, Kind
<1>2. CASE FTPStartDataCmd
  <2>1. Settled
    BY <1>2 DEF IInv, Wire, FTPStartDataCmd
  <2> QED
    BY <1>2, <2>1, SentSimple, OpenDataConnectionStep
    DEF IInv, FTPStartDataCmd, SimpleWaits, Kind
<1>3. CASE FTPCloseHost
  <2>1. slips = {}
    BY <1>3 DEF FTPCloseHost, AbortBegins
  <2>2. Settled
    BY <1>3, <2>1 DEF IInv, Wire, FTPCloseHost
  <2>3. RCmd("QUIT", "quit")
    BY <1>3, <2>2 DEF FTPCloseHost, AbortBegins, Settled, NotBusy
  <2> QED
    BY <1>3, <2>2, <2>3, SentSimple DEF IInv, FTPCloseHost, SimpleWaits, Kind
<1>4. CASE UserCancels
  BY <1>4
  DEF IInv, UserCancels, channel, Wire, Settled, Silent, NotBusy, Owing, Due, Starting,
      Running, Aborting, Acknowledged
<1> QED
  BY <1>1, <1>2, <1>3, <1>4

(* Wire over the steps of FTPStartDataCmd3 before the transfer command is  *)
(* answered.                                                               *)
LEMMA StartStep ==
  ASSUME IInv, connected, slips = {},
         \/ FTPSetTransferTypeReturns \/ FTPSendPassiveReturns \/ FTPSendPortReturns
         \/ FTPSetStartOffsetReturns \/ FTPRetryAsAppend
  PROVE  Wire'
<1>1. /\ pc \in SimpleWaits /\ resp # NoReply /\ rep' = rep /\ srv' = srv
  BY DEF FTPSetTransferTypeReturns, FTPSendPassiveReturns, FTPSendPortReturns,
         FTPSetStartOffsetReturns, FTPRetryAsAppend, Answered, SimpleWaits
<1>2. Settled /\ TypeOK
  BY <1>1 DEF IInv, Wire
<1>3. CASE FTPSetTransferTypeReturns
  BY <1>1, <1>2, <1>3, OpenDataConnectionStep, BackToIdle DEF FTPSetTransferTypeReturns
<1>4. CASE FTPSendPassiveReturns
  BY <1>1, <1>2, <1>4, SetStartOffsetStep, BackToIdle, SentSimple
  DEF FTPSendPassiveReturns, PasvAccepted, PasvRefused, StartFails, SimpleWaits, Kind
<1>5. CASE FTPSendPortReturns
  BY <1>1, <1>2, <1>5, SetStartOffsetStep, BackToIdle DEF FTPSendPortReturns, StartFails
<1>6. CASE FTPSetStartOffsetReturns
  BY <1>1, <1>2, <1>6, SentData DEF FTPSetStartOffsetReturns
<1>7. CASE FTPRetryAsAppend
  <2>1. pc' = "start" /\ resp' = NoReply /\ ((cmd' = cmd /\ srv = "gone") \/ FTPSendCommandStr("DATA"))
    BY <1>7 DEF FTPRetryAsAppend, SendFails, GoTo
  <2>2. Starting'
    <3>1. CASE srv = "gone"
      BY <1>1, <1>2, <2>1, <3>1 DEF FTPSendCommandStr, Settled, Silent, Starting
    <3>2. CASE srv = "ready"
      <4>1. cmd' = <<"DATA">>
        BY <1>2, <2>1, <3>2 DEF FTPSendCommandStr, Settled, Silent
      <4> QED
        BY <1>1, <1>2, <3>2, <4>1 DEF Settled, Silent, Starting
    <3> QED
      BY <1>2, <3>1, <3>2 DEF Settled, NotBusy
  <2> QED
    BY <2>1, <2>2 DEF Wire, SimpleWaits
<1> QED
  BY <1>3, <1>4, <1>5, <1>6, <1>7

(* Wire over the start of a transfer, its end, and the return of its call. *)
LEMMA TransferStep ==
  ASSUME IInv, connected, slips' = {},
         \/ FTPStartDataCmdAnswered \/ AcceptDataConnection \/ TransferEnds
         \/ ListTimesOut \/ FTPEndDataCmdReturns \/ FTPCmdReturns
  PROVE  Wire'
<1>1. CASE FTPStartDataCmdAnswered
  <2>1. /\ pc = "start" /\ resp # NoReply /\ rep' = rep /\ srv' = srv /\ slips = {}
    BY <1>1 DEF FTPStartDataCmdAnswered, Answered
  <2>2. CASE StartAccepted
    <3>1. resp.class = "prelim" /\ Running
      BY <2>1, <2>2 DEF IInv, Wire, StartAccepted
    <3>2. Running' /\ pc' \in {"accept", "xfer"}
      BY <2>1, <2>2, <3>1 DEF StartAccepted, GoTo, Running, Silent, Due, NotBusy
    <3> QED
      BY <3>2 DEF Wire, SimpleWaits
  <2>3. CASE StartRefused
    <3>1. Settled /\ TypeOK
      BY <2>1, <2>3 DEF IInv, Wire, StartRefused
    <3> QED
      BY <2>1, <2>3, <3>1, BackToIdle, SentSimple
      DEF StartRefused, StartFails, SimpleWaits, Kind
  <2> QED
    BY <1>1, <2>2, <2>3 DEF FTPStartDataCmdAnswered
<1>2. CASE AcceptDataConnection
  <2>1. /\ pc = "accept" /\ pc' = "xfer" /\ rep' = rep /\ srv' = srv /\ cmd' = cmd /\ slips = {}
    BY <1>2 DEF AcceptDataConnection, GoTo
  <2>2. Running /\ Running'
    BY <2>1 DEF IInv, Wire, Running, Silent, Due, NotBusy
  <2> QED
    BY <2>1, <2>2 DEF Wire, SimpleWaits
<1>3. CASE TransferEnds
  <2>1. /\ pc = "xfer" /\ pc' = "end" /\ resp' = NoReply /\ rep' = rep /\ srv' = srv
        /\ cmd' = cmd /\ slips = {}
    BY <1>3 DEF TransferEnds, FTPEndDataCmd, GoTo, channel
  <2>2. Running /\ Running'
    BY <2>1 DEF IInv, Wire, Running, Silent, Due, NotBusy
  <2> QED
    BY <2>1, <2>2 DEF Wire, SimpleWaits
<1>4. CASE FTPEndDataCmdReturns \/ FTPCmdReturns
  <2>1. /\ pc \in {"end", "simple"} /\ resp # NoReply /\ GoTo("idle")
        /\ cmd' = cmd /\ rep' = rep /\ srv' = srv /\ slips = {}
    BY <1>4 DEF FTPEndDataCmdReturns, FTPCmdReturns, Answered, channel
  <2>2. Settled
    BY <2>1 DEF IInv, Wire, SimpleWaits
  <2> QED
    BY <2>1, <2>2, BackToIdle
<1>5. CASE ListTimesOut
  BY <1>5 DEF ListTimesOut
<1> QED
  BY <1>1, <1>2, <1>3, <1>4, <1>5

(* Wire over the steps of FTPAbortDataTransfer.                            *)
LEMMA AbortStep ==
  ASSUME IInv, connected, slips' = {},
         \/ FTPAbortDataTransfer \/ AbortReplyReady \/ AbortFirstTimeout
         \/ AbortSecondTimeout \/ AbortFirstReply \/ AbortSecondReply
  PROVE  Wire'
<1>1. CASE FTPAbortDataTransfer
  <2>1. /\ pc = "xfer" /\ slips = {} /\ srv = "transferring" /\ srv' = srv /\ rep' = rep
    BY <1>1 DEF FTPAbortDataTransfer, AbortBegins
  <2>2. Silent
    BY <2>1 DEF IInv, Wire, Running, Due, NotBusy
  <2>3. cmd' = <<"ABOR">>
    BY <1>1, <2>1, <2>2
    DEF FTPAbortDataTransfer, AbortBegins, FTPSendCommandStr, SendFails, Silent
  <2>4. Aborting'
    BY <2>1, <2>2, <2>3 DEF Aborting, Silent
  <2>5. pc' \in {"abto1", "abor1"} /\ resp' = NoReply
    BY <1>1 DEF FTPAbortDataTransfer, AbortBegins, GoTo
  <2> QED
    BY <2>4, <2>5 DEF Wire, SimpleWaits
<1>2. CASE AbortReplyReady \/ AbortFirstTimeout
  <2>1. /\ pc \in {"abto1", "abto2"} /\ pc' \in {"abor1", "abto2"} /\ resp' = NoReply
        /\ slips = {} /\ cmd' = cmd /\ rep' = rep /\ srv' = srv
    BY <1>2 DEF AbortReplyReady, AbortFirstTimeout, GoTo, channel
  <2>2. Aborting /\ Aborting'
    BY <2>1 DEF IInv, Wire, Aborting, NotBusy, Silent
  <2> QED
    BY <2>1, <2>2 DEF Wire, SimpleWaits
<1>3. CASE AbortSecondTimeout
  BY <1>3 DEF AbortSecondTimeout
<1>4. CASE AbortFirstReply
  <2>1. /\ pc = "abor1" /\ resp # NoReply /\ slips = {}
        /\ rep' = rep /\ srv' = srv
    BY <1>4 DEF AbortFirstReply, Answered
  <2>2. resp.class = "transient" /\ Acknowledged
    BY <2>1 DEF IInv, Wire
  <2>3. pc' = "abor2" /\ resp' = NoReply /\ cmd' = cmd
    BY <1>4, <2>2 DEF AbortFirstReply, GoTo
  <2>4. Acknowledged'
    BY <2>1, <2>2, <2>3 DEF Acknowledged, NotBusy
  <2> QED
    BY <2>3, <2>4 DEF Wire, SimpleWaits
<1>5. CASE AbortSecondReply
  <2>1. /\ pc = "abor2" /\ resp # NoReply /\ slips = {}
        /\ rep' = rep /\ srv' = srv /\ ~closing
    BY <1>5 DEF AbortSecondReply, Answered, IInv, ClosingQuits
  <2>2. Settled /\ resp # Failed
    BY <2>1 DEF IInv, Wire
  <2>3. GoTo("idle") /\ cmd' = cmd
    BY <1>5, <2>1, <2>2 DEF AbortSecondReply, AbortEnds, FTPEndDataCmd
  <2> QED
    BY <2>1, <2>2, <2>3, BackToIdle
<1> QED
  BY <1>1, <1>2, <1>3, <1>4, <1>5

(* A step of the server: each wait keeps what the connection holds for it. *)
LEMMA ServerStep ==
  ASSUME IInv, connected, slips' = {}, Server PROVE Wire'
<1>1. slips = {} /\ pc' = pc /\ resp' = resp /\ connected' = connected
  BY DEF Server, ServeCommand, ServeTransfer, FinishTransfer, AbortTransfer, NothingToAbort,
         ServeQuit, ServerGoes, client
<1>2. TypeOK /\ Wire
  BY DEF IInv
<1>3. /\ Settled => Settled'
      /\ Owing("CMD") => Owing("CMD")'
      /\ Owing("QUIT") => Owing("QUIT")'
      /\ Starting => Starting'
      /\ Running => Running'
      /\ Aborting => Aborting'
      /\ Acknowledged => Acknowledged'
  BY <1>2, ServerSettled, ServerOwing, ServerStarting, ServerRunning, ServerAborting,
     ServerAcknowledged
<1> QED
  BY <1>1, <1>2, <1>3 DEF Wire

-----------------------------------------------------------------------------
(* Wire, and the rest of the inductive invariant, over every step.         *)
LEMMA WireStep == IInv /\ [Next]_vars => Wire'
<1> SUFFICES ASSUME IInv, [Next]_vars, connected', slips' = {} PROVE Wire'
  BY DEF Wire
<1>1. CASE UNCHANGED vars
  BY <1>1 DEF IInv, vars, client, channel, Wire, Settled, Silent, NotBusy, Owing, Due, Starting,
              Running, Aborting, Acknowledged
<1>2. CASE FTPOpenHost
  BY <1>2 DEF FTPOpenHost, Wire, Settled, Silent, NotBusy, SimpleWaits
<1>3. CASE GetResponse
  BY <1>3, GetResponseStep
<1>4. CASE FTPCloseHostReturns
  BY <1>4 DEF FTPCloseHostReturns
<1>5. CASE FTPCmd \/ FTPStartDataCmd \/ FTPCloseHost \/ UserCancels
  <2>1. connected
    BY <1>5 DEF FTPCmd, FTPStartDataCmd, FTPCloseHost, UserCancels
  <2> QED
    BY <1>5, <2>1, CallStep
<1>6. CASE \/ FTPSetTransferTypeReturns \/ FTPSendPassiveReturns \/ FTPSendPortReturns
           \/ FTPSetStartOffsetReturns \/ FTPRetryAsAppend
  <2>1. connected /\ slips = {}
    BY <1>6 DEF FTPSetTransferTypeReturns, FTPSendPassiveReturns, FTPSendPortReturns,
                FTPSetStartOffsetReturns, FTPRetryAsAppend
  <2> QED
    BY <1>6, <2>1, StartStep
<1>7. CASE \/ FTPStartDataCmdAnswered \/ AcceptDataConnection \/ TransferEnds
           \/ ListTimesOut \/ FTPEndDataCmdReturns \/ FTPCmdReturns
  <2>1. connected
    BY <1>7 DEF FTPStartDataCmdAnswered, AcceptDataConnection, TransferEnds,
                ListTimesOut, FTPEndDataCmdReturns, FTPCmdReturns
  <2> QED
    BY <1>7, <2>1, TransferStep
<1>8. CASE \/ FTPAbortDataTransfer \/ AbortReplyReady \/ AbortFirstTimeout
           \/ AbortSecondTimeout \/ AbortFirstReply \/ AbortSecondReply
  <2>1. connected
    BY <1>8 DEF FTPAbortDataTransfer, AbortReplyReady, AbortFirstTimeout,
                AbortSecondTimeout, AbortFirstReply, AbortSecondReply
  <2> QED
    BY <1>8, <2>1, AbortStep
<1>9. CASE Server
  <2>1. connected
    BY <1>9 DEF Server, ServeCommand, ServeTransfer, FinishTransfer, AbortTransfer,
                NothingToAbort, ServeQuit, ServerGoes, client
  <2> QED
    BY <1>9, <2>1, ServerStep
<1> QED
  BY <1>1, <1>2, <1>3, <1>4, <1>5, <1>6, <1>7, <1>8, <1>9 DEF Next, Caller, Library

(* Only GetResponse hands out a reply, and the wait that got it is left    *)
(* without one.                                                            *)
LEMMA AnswersStep ==
  ASSUME IInv, [Next]_vars
  PROVE  /\ OnlyWaitsHold'
         /\ ~GetResponse => resp' \in {resp, NoReply, Failed}
         /\ ~GetResponse /\ resp' \notin {NoReply, Failed} => pc' = pc /\ slips \subseteq slips'
<1>1. CASE UNCHANGED vars
  BY <1>1 DEF IInv, OnlyWaitsHold, vars, client
<1>2. CASE Caller
  BY <1>2 DEF IInv, OnlyWaitsHold, Caller, FTPCmd, FTPStartDataCmd, FTPCloseHost, FTPOpenHost,
              UserCancels, OpenDataConnection, AbortBegins, RCmd, GoTo, Waits
<1>3. CASE GetResponse
  BY <1>3 DEF OnlyWaitsHold, GetResponse
<1>4. CASE \/ FTPCmdReturns \/ FTPSetTransferTypeReturns \/ FTPSendPassiveReturns
           \/ FTPSendPortReturns \/ FTPSetStartOffsetReturns
  BY <1>4 DEF OnlyWaitsHold, FTPCmdReturns, FTPSetTransferTypeReturns, FTPSendPassiveReturns,
              FTPSendPortReturns, FTPSetStartOffsetReturns, PasvAccepted, PasvRefused,
              OpenDataConnection, FTPSetStartOffset, StartFails, RCmd, GoTo, Waits
<1>5. CASE \/ FTPStartDataCmdAnswered \/ FTPRetryAsAppend \/ AcceptDataConnection
           \/ TransferEnds \/ ListTimesOut \/ FTPEndDataCmdReturns \/ FTPAbortDataTransfer
  BY <1>5 DEF OnlyWaitsHold, FTPStartDataCmdAnswered, StartAccepted, StartRefused,
              FTPRetryAsAppend, AcceptDataConnection, TransferEnds, ListTimesOut, FTPEndDataCmd,
              FTPEndDataCmdReturns, FTPAbortDataTransfer, AbortBegins, StartFails, RCmd, GoTo,
              Waits
<1>6. CASE \/ AbortReplyReady \/ AbortFirstTimeout \/ AbortSecondTimeout
           \/ AbortFirstReply \/ AbortSecondReply \/ FTPCloseHostReturns
  BY <1>6 DEF OnlyWaitsHold, AbortReplyReady, AbortFirstTimeout, AbortSecondTimeout,
              AbortFirstReply, AbortSecondReply, FTPCloseHostReturns, AbortEnds, FTPEndDataCmd,
              RCmd, GoTo, Waits
<1>7. CASE Server
  BY <1>7 DEF IInv, OnlyWaitsHold, Server, ServeCommand, ServeTransfer, FinishTransfer,
              AbortTransfer, NothingToAbort, ServeQuit, ServerGoes, client
<1> QED
  BY <1>1, <1>2, <1>3, <1>4, <1>5, <1>6, <1>7 DEF Next, Library

(* OwnReply over every step: GetResponse alone hands out replies.          *)
LEMMA OwnReplyStep == IInv /\ [Next]_vars => OwnReply'
<1> SUFFICES ASSUME IInv, [Next]_vars PROVE OwnReply'
  OBVIOUS
<1>1. CASE GetResponse
  BY <1>1, GetResponseStep
<1>2. CASE ~GetResponse
  <2> SUFFICES ASSUME slips' = {}, resp' \notin {NoReply, Failed} PROVE resp'.to \in Expects(pc')
    BY DEF OwnReply
  <2>1. resp' = resp /\ pc' = pc /\ slips = {}
    BY <1>2, AnswersStep
  <2>2. resp.to \in Expects(pc)
    BY <2>1 DEF IInv, OwnReply
  <2> QED
    BY <2>1, <2>2
<1> QED
  BY <1>1, <1>2

(* A connection the client has closed has no server any more.              *)
LEMMA NothingLeftStep == IInv /\ [Next]_vars => NothingLeft'
BY DEF IInv, NothingLeft, vars, client, Next, Caller, Library, Server,
       FTPCmd, FTPStartDataCmd, FTPCloseHost, FTPOpenHost, UserCancels,
       GetResponse, ReplyRead, ReplyIsEnd, ReplyTimedOut, ReplyGivenUpAtOnce,
       ReplyOfClosedConnection, FTPShutdownHost,
       FTPCmdReturns, FTPSetTransferTypeReturns, FTPSendPassiveReturns, FTPSendPortReturns,
       FTPSetStartOffsetReturns, FTPStartDataCmdAnswered, FTPRetryAsAppend,
       AcceptDataConnection, TransferEnds, ListTimesOut, FTPEndDataCmdReturns, FTPAbortDataTransfer,
       AbortReplyReady, AbortFirstTimeout, AbortSecondTimeout, AbortFirstReply,
       AbortSecondReply, FTPCloseHostReturns,
       ServeCommand, ServeTransfer, FinishTransfer, AbortTransfer, NothingToAbort, ServeQuit,
       ServerGoes

(* FTPCloseHost goes through an abort only when a slip left a transfer.    *)
LEMMA ClosingStep == IInv /\ [Next]_vars => ClosingQuits'
<1> SUFFICES ASSUME IInv, [Next]_vars, closing' PROVE ClosingQuits'
  BY DEF ClosingQuits
<1>1. CASE FTPCloseHost
  <2>1. CASE RCmd("QUIT", "quit")
    BY <2>1 DEF RCmd, ClosingQuits
  <2>2. CASE AbortBegins
    <3>1. slips = {} => Settled
      BY <1>1 DEF IInv, Wire, FTPCloseHost
    <3>2. slips' # {}
      BY <2>2, <3>1 DEF AbortBegins, Settled, NotBusy
    <3> QED
      BY <2>2, <3>2 DEF AbortBegins, GoTo, ClosingQuits
  <2> QED
    BY <1>1, <2>1, <2>2 DEF FTPCloseHost
<1>2. CASE AbortSecondTimeout \/ AbortFirstReply \/ AbortSecondReply
  BY <1>2 DEF IInv, ClosingQuits, AbortSecondTimeout, AbortFirstReply, AbortSecondReply, AbortEnds,
              RCmd, GoTo, Answered
<1>3. CASE AbortReplyReady \/ AbortFirstTimeout
  BY <1>3 DEF IInv, ClosingQuits, AbortReplyReady, AbortFirstTimeout, GoTo
<1>4. CASE GetResponse \/ UserCancels \/ Server \/ UNCHANGED vars
  BY <1>4 DEF IInv, ClosingQuits, GetResponse, UserCancels, vars, client, Server, ServeCommand,
              ServeTransfer, FinishTransfer, AbortTransfer, NothingToAbort, ServeQuit, ServerGoes
<1>5. CASE FTPCmd \/ FTPStartDataCmd \/ FTPOpenHost \/ FTPCmdReturns
  BY <1>5 DEF IInv, ClosingQuits, FTPCmd, FTPStartDataCmd, FTPOpenHost, FTPCmdReturns, Answered
<1>6. CASE \/ FTPSetTransferTypeReturns \/ FTPSendPassiveReturns
           \/ FTPSendPortReturns \/ FTPSetStartOffsetReturns \/ FTPStartDataCmdAnswered
           \/ FTPRetryAsAppend
  BY <1>6 DEF IInv, ClosingQuits, FTPSetTransferTypeReturns, FTPSendPassiveReturns,
              FTPSendPortReturns, FTPSetStartOffsetReturns, FTPStartDataCmdAnswered,
              FTPRetryAsAppend, Answered
<1>7. CASE \/ AcceptDataConnection \/ TransferEnds \/ ListTimesOut \/ FTPEndDataCmdReturns
           \/ FTPAbortDataTransfer \/ FTPCloseHostReturns
  BY <1>7 DEF IInv, ClosingQuits, AcceptDataConnection, TransferEnds, ListTimesOut,
              FTPEndDataCmdReturns, FTPAbortDataTransfer, FTPCloseHostReturns, Answered
<1> QED
  BY <1>1, <1>2, <1>3, <1>4, <1>5, <1>6, <1>7 DEF Next, Caller, Library

(* The inductive invariant holds when the session begins.                  *)
LEMMA InvInit == Init => IInv
<1> SUFFICES ASSUME Init PROVE IInv
  OBVIOUS
<1>1. TypeOK
  BY InitType
<1>2. OnlyWaitsHold /\ NothingLeft /\ ClosingQuits /\ OwnReply
  BY DEF Init, OnlyWaitsHold, NothingLeft, ClosingQuits, OwnReply
<1>3. Wire
  BY DEF Init, Wire, Settled, Silent, NotBusy, SimpleWaits
<1> QED
  BY <1>1, <1>2, <1>3 DEF IInv

(* The invariant that the theorems below follow from.                      *)
LEMMA Invariance == Spec => []IInv
<1>1. IInv /\ [Next]_vars => IInv'
  BY TypeStep, WireStep, AnswersStep, OwnReplyStep, NothingLeftStep, ClosingStep DEF IInv
<1> QED
  BY <1>1, InvInit, PTL DEF Spec

(* At every wait the connection holds what the wait is for, short of a     *)
(* slip.                                                                   *)
THEOREM AlwaysWire == Spec => []Wire
<1>1. IInv => Wire
  BY DEF IInv
<1> QED
  BY <1>1, Invariance, PTL

(* Between calls an open connection is in step, for any number of calls,   *)
(* short of a slip.                                                        *)
THEOREM AlwaysInStep == Spec => []InStep
<1>1. IInv => InStep
  BY DEF IInv, Wire, InStep, Settled, Silent, NotBusy
<1> QED
  BY <1>1, Invariance, PTL

(* Every reply a call gets is the reply to its own command, short of a     *)
(* slip.                                                                   *)
THEOREM AlwaysOwnReply == Spec => []OwnReply
<1>1. IInv => OwnReply
  BY DEF IInv
<1> QED
  BY <1>1, Invariance, PTL

(* Nothing but ABOR is ever sent to a server that is transferring.         *)
THEOREM AlwaysOnlyAbort == Spec => []OnlyAbortOvertakes
<1>1. IInv => OnlyAbortOvertakes
  <2> SUFFICES ASSUME IInv, srv = "transferring", slips = {}
               PROVE  \A i \in DOMAIN cmd : cmd[i] = "ABOR"
    BY DEF OnlyAbortOvertakes
  <2>1. connected /\ ~NotBusy
    BY DEF IInv, NothingLeft, TypeOK, NotBusy
  <2>2. ~Settled /\ ~Owing("CMD") /\ ~Owing("QUIT") /\ ~Acknowledged
    BY <2>1 DEF Settled, Owing, Due, Acknowledged
  <2>3. Starting \/ Running \/ Aborting
    BY <2>1, <2>2 DEF IInv, Wire, TypeOK, Locations, Waits, SimpleWaits
  <2>4. cmd = <<>> \/ cmd = <<"ABOR">>
    BY <2>1, <2>3 DEF Starting, Running, Aborting, Due, Silent
  <2> QED
    BY <2>4
<1> QED
  BY <1>1, Invariance, PTL
-----------------------------------------------------------------------------
(* The data connection is closed in every call that has not opened one and *)
(* between calls, but for what a listing that timed out leaves open on a   *)
(* connection that is still there.  It is: no transfer runs without.       *)
DataClosed ==
  /\ pc \in {"pasv", "port", "end", "quit"} => dataSocket = "closed"
  /\ pc \in {"idle", "simple", "type"} =>
       dataSocket = "closed" \/ (connected /\ "listTimedOut" \in slips)
  /\ pc \in {"accept", "xfer"} => connected
  /\ pc = "start" /\ resp \notin {NoReply, Failed} => connected

(* Every way out of a transfer closes the data connection.                 *)
THEOREM AlwaysDataClosed == Spec => []DataClosedBetweenCalls
<1>1. Init => DataClosed
  BY DEF Init, DataClosed
<1>2. DataClosed /\ [Next]_vars => DataClosed'
  <2> SUFFICES ASSUME DataClosed, [Next]_vars PROVE DataClosed'
    OBVIOUS
  <2>1. CASE UNCHANGED vars \/ Server
    BY <2>1 DEF DataClosed, vars, client, Server, ServeCommand, ServeTransfer, FinishTransfer,
                AbortTransfer, NothingToAbort, ServeQuit, ServerGoes
  <2>2. CASE Caller
    <3>1. CASE FTPCmd \/ UserCancels
      BY <2>2, <3>1 DEF DataClosed, FTPCmd, UserCancels, RCmd
    <3>2. CASE FTPStartDataCmd
      BY <2>2, <3>2 DEF DataClosed, FTPStartDataCmd, OpenDataConnection, RCmd
    <3>3. CASE FTPCloseHost
      BY <2>2, <3>3 DEF DataClosed, FTPCloseHost, AbortBegins, RCmd, GoTo
    <3>4. CASE FTPOpenHost
      BY <2>2, <3>4 DEF DataClosed, FTPOpenHost
    <3> QED
      BY <2>2, <3>1, <3>2, <3>3, <3>4 DEF Caller
  <2>3. CASE GetResponse
    <3>1. pc' = pc /\ slips' = slips /\ pc \in Waits
      BY <2>3 DEF GetResponse
    <3>2. CASE ReplyRead
      BY <3>1, <3>2 DEF DataClosed, ReplyRead
    <3>3. CASE ReplyOfClosedConnection
      BY <3>1, <3>3 DEF DataClosed, ReplyOfClosedConnection
    <3>4. CASE ReplyIsEnd \/ ReplyTimedOut \/ ReplyGivenUpAtOnce
      BY <3>1, <3>4 DEF DataClosed, ReplyIsEnd, ReplyTimedOut, ReplyGivenUpAtOnce,
                        FTPShutdownHost, Waits
    <3> QED
      BY <2>3, <3>2, <3>3, <3>4 DEF GetResponse
  <2>4. CASE \/ FTPCmdReturns \/ FTPSetTransferTypeReturns \/ FTPSendPassiveReturns
             \/ FTPSendPortReturns \/ FTPSetStartOffsetReturns
    BY <2>4 DEF DataClosed, FTPCmdReturns, FTPSetTransferTypeReturns, FTPSendPassiveReturns,
                FTPSendPortReturns, FTPSetStartOffsetReturns, PasvAccepted, PasvRefused,
                OpenDataConnection, FTPSetStartOffset, StartFails, RCmd, GoTo, Answered
  <2>5. CASE FTPStartDataCmdAnswered
    <3>1. resp.class \in {"prelim", "ok"} => connected
      BY <2>5, NotReplies DEF DataClosed, FTPStartDataCmdAnswered, Answered
    <3> QED
      BY <2>5, <3>1 DEF DataClosed, FTPStartDataCmdAnswered, StartAccepted, StartRefused,
                        StartFails, RCmd, GoTo
  <2>6. CASE FTPRetryAsAppend \/ AcceptDataConnection \/ TransferEnds
    BY <2>6 DEF DataClosed, FTPRetryAsAppend, AcceptDataConnection, TransferEnds, FTPEndDataCmd,
                StartFails, GoTo, Answered
  <2>7. CASE FTPEndDataCmdReturns \/ FTPAbortDataTransfer \/ ListTimesOut
    BY <2>7 DEF DataClosed, ListTimesOut, FTPEndDataCmdReturns, FTPAbortDataTransfer,
                AbortBegins, GoTo, Answered
  <2>8. CASE \/ AbortReplyReady \/ AbortFirstTimeout \/ AbortSecondTimeout
             \/ AbortFirstReply \/ AbortSecondReply \/ FTPCloseHostReturns
    BY <2>8 DEF DataClosed, AbortReplyReady, AbortFirstTimeout, AbortSecondTimeout,
                AbortFirstReply, AbortSecondReply, FTPCloseHostReturns, AbortEnds, FTPEndDataCmd,
                RCmd, GoTo, Answered
  <2> QED
    BY <2>1, <2>2, <2>3, <2>4, <2>5, <2>6, <2>7, <2>8 DEF Next, Library
<1>3. DataClosed => DataClosedBetweenCalls
  BY DEF DataClosed, DataClosedBetweenCalls
<1> QED
  BY <1>1, <1>2, <1>3, PTL DEF Spec
=============================================================================
